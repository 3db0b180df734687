--------------------------- MODULE MCSlackFeedback ---------------------------
(***************************************************************************)
(* The policy loop with the guard profile of the repository's unit test    *)
(* (tests/test_mig_slack_governor.py), in tenths of a millisecond.         *)
(***************************************************************************)
EXTENDS SummaryReplay

MCGovernor == {"mig-governor"}
MCResidentGuard == [q \in 0 .. 2 |->
  [m \in {"audio", "language"} |->
     IF m = "audio" THEN CASE q = 0 -> 63 [] q = 1 -> 34 [] q = 2 -> 19
                    ELSE CASE q = 0 -> 16 [] q = 1 -> 13 [] q = 2 -> 11]]
MCBorrowerGuard == [m \in {"audio", "language"} |-> IF m = "audio" THEN 15 ELSE 10]

=============================================================================
