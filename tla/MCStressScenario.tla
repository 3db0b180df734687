-------------------------- MODULE MCStressScenario --------------------------
(***************************************************************************)
(* Small instances of a stress scenario for TLC.                           *)
(***************************************************************************)
EXTENDS StressScenario

=============================================================================
