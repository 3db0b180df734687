---------------------------- MODULE TicketHandoff ----------------------------
(***************************************************************************)
(* What the shared-memory ring promises, without slots, states or peers:   *)
(* numbered activations pass from one sender to one receiver, in order,    *)
(* each at most once, with never more than Window of them between the two. *)
(* Only after a sender has written an activation off does it stop sending; *)
(* a receiver that fails stops taking.                                     *)
(***************************************************************************)
EXTENDS Naturals

CONSTANT Window        \* activations that may be between sender and receiver

VARIABLES
  sent,                \* activations 0 .. sent-1 have been published
  taken,               \* activations 0 .. taken-1 have been claimed
  finished,            \* activations 0 .. finished-1 have been consumed
  dropped,             \* activations the sender has written off
  open                 \* the sides that still take part

vars == <<sent, taken, finished, dropped, open>>

Init ==
  /\ sent = 0 /\ taken = 0 /\ finished = 0
  /\ dropped = {}
  /\ open = {"sender", "receiver"}

Send ==
  /\ "sender" \in open
  /\ sent - finished < Window
  /\ sent' = sent + 1
  /\ UNCHANGED <<taken, finished, dropped, open>>

Take ==
  /\ "receiver" \in open
  /\ taken = finished
  /\ taken < sent
  /\ taken \notin dropped
  /\ taken' = taken + 1
  /\ UNCHANGED <<sent, finished, dropped, open>>

Finish ==
  /\ "receiver" \in open
  /\ finished < taken
  /\ finished' = taken
  /\ UNCHANGED <<sent, taken, dropped, open>>

\* The sender writes off activations that were not consumed, and sends no more.
WriteOff ==
  \E t \in finished .. sent - 1 :
    /\ t \notin dropped
    /\ dropped' = dropped \cup {t}
    /\ open' = open \ {"sender"}
    /\ UNCHANGED <<sent, taken, finished>>

\* The receiver fails; what it held is not consumed.
Quit ==
  /\ "receiver" \in open
  /\ open' = open \ {"receiver"}
  /\ taken' = finished
  /\ UNCHANGED <<sent, finished, dropped>>

Next == Send \/ Take \/ Finish \/ WriteOff \/ Quit

Spec == Init /\ [][Next]_vars

=============================================================================
