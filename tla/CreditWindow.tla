----------------------------- MODULE CreditWindow -----------------------------
(***************************************************************************)
(* What a credit window promises, whatever carries the credits: requests   *)
(* are published in order, a published request holds one of `window'       *)
(* buffers until its consumer has finished with it, and no more than       *)
(* `window' buffers are held at once.                                      *)
(***************************************************************************)
EXTENDS Naturals

CONSTANTS
  Total,     \* requests of a run
  Windows    \* window sizes a run may have

VARIABLES
  window,    \* buffers of this run
  published, \* requests whose buffer was handed over
  finished   \* requests whose consumer has finished

vars == <<window, published, finished>>

Init == window \in Windows /\ published = 0 /\ finished = 0

Publish ==
  /\ published < Total
  /\ published - finished < window
  /\ published' = published + 1
  /\ UNCHANGED <<window, finished>>

Finish ==
  /\ finished < published
  /\ finished' = finished + 1
  /\ UNCHANGED <<window, published>>

Next == Publish \/ Finish

Spec == Init /\ [][Next]_vars

=============================================================================
