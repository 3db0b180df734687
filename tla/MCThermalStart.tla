--------------------------- MODULE MCThermalStart ---------------------------
(***************************************************************************)
(* Small instances of a thermal start for TLC.                             *)
(***************************************************************************)
EXTENDS ThermalStart

\* A sample may keep a qualification waiting past its deadline, and a release or a
\* start past the handoff limit.
MCLatest == [p \in Timed |->
  CASE p = "clean" -> 2
    [] p \in {"poll", "mark"} -> 6
    [] p \in {"release", "run"} -> 10
    [] OTHER -> 0]

=============================================================================
