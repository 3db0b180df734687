----------------------------- MODULE MCGatedEpoch -----------------------------
(***************************************************************************)
(* A small epoch for TLC: an audio worker that feeds a language worker     *)
(* through a pipe of one token, and three requests in bursts of two.       *)
(***************************************************************************)
EXTENDS GatedEpoch

MCWorkers == {"audio", "language"}
MCPipes == {<<"audio", "language">>}

=============================================================================
