---------------------------- MODULE MCSysmemRing ----------------------------
(***************************************************************************)
(* Small instances of the ring for TLC.  Five requests wrap around three   *)
(* slots, so two slots are used twice.                                     *)
(***************************************************************************)
EXTENDS SysmemRing

\* No injected fault, and a fault before the first ticket, in mid-stream and after
\* a whole ring, which a consumer taken for dead may still empty.
MCFailAfters == {-1, 0, 2, 3}
MCNever == {-1}

=============================================================================
