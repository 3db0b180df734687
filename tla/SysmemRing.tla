------------------------------ MODULE SysmemRing ------------------------------
(***************************************************************************)
(* The three-slot activation ring of benchmarks/mig_sysmem_ring.cu: a      *)
(* parent forks a producer and a consumer that share one mapping.  A slot  *)
(* carries an atomic sequence number and an atomic state; sequence t says  *)
(* "free for ticket t", t+1 says "ticket t is published".  A side that     *)
(* waits polls its slot, then whether its peer lives, then its deadline.   *)
(* A producer whose consumer died writes stale slots off and leaves.       *)
(*                                                                         *)
(* Time is abstracted: a deadline may pass at any poll, and scan.young is  *)
(* the first ticket that was not yet stale at the last look at the clock.  *)
(* Counters no guard and no verdict reads are telemetry and are left out.  *)
(***************************************************************************)
EXTENDS Integers

CONSTANTS
  Requests,        \* --requests: tickets the producer wants to pass
  FailAfters,      \* values of --fail-consumer-after to try; -1 is "never"
  DeviceMayFail,   \* may a CUDA call or a set-up call of a child fail?
  ChildMayCrash    \* may a child be killed at any point?

ASSUME RingAssumption ==
  /\ Requests \in Nat \ {0}
  /\ FailAfters \subseteq -1 .. Requests - 1
  /\ DeviceMayFail \in BOOLEAN
  /\ ChildMayCrash \in BOOLEAN

VARIABLES
  start, ready, alive, error,                     \* RingHeader: handshake
  published, completed, timeouts, peerDeaths,     \* RingHeader: counters
  reclaimed,       \* the tickets counted by stale_reclaims
  sequence, state, owner, payload,                \* RingSlot and its bytes
  event,           \* RingEvent.state of each ticket
  pc, ticket, status,                             \* the two children
  scan,            \* locals of the producer's reclaim loop
  failAfter,       \* --fail-consumer-after of this run
  parent, verdict  \* main() and the "status" it prints

handshake == <<start, ready, alive, error>>
counters  == <<published, completed, timeouts, peerDeaths>>
slots     == <<sequence, state, owner, payload>>
family    == <<status, failAfter, parent, verdict>>
vars == <<handshake, counters, reclaimed, slots, event, pc, ticket, scan, family>>

P == "producer"
C == "consumer"
Children == {P, C}

kRingSlots == 3
kFree == 0
kReady == 1
kConsuming == 2
kDone == 3
kAborted == 4
kFaultExit == 42

Torn    == -1      \* payload bytes half written, or never written
Running == -1      \* exit status of a child that has not exited

SlotIds == 0 .. kRingSlots - 1
Tickets == 0 .. Requests - 1
Slot(t) == t % kRingSlots

Init ==
  /\ start = FALSE
  /\ ready = [p \in Children |-> FALSE]
  /\ alive = [p \in Children |-> FALSE]
  /\ error = [p \in Children |-> 0]
  /\ published = 0 /\ completed = 0 /\ timeouts = 0 /\ peerDeaths = 0
  /\ reclaimed = {}
  /\ sequence = [i \in SlotIds |-> i]
  /\ state = [i \in SlotIds |-> kFree]
  /\ owner = [i \in SlotIds |-> 0]
  /\ payload = [i \in SlotIds |-> Torn]
  /\ event = [t \in Tickets |-> kFree]
  /\ pc = [p \in Children |-> "init"]
  /\ ticket = [p \in Children |-> 0]
  /\ status = [p \in Children |-> Running]
  /\ scan = [index |-> 0, young |-> 0, last |-> FALSE, seen |-> kFree]
  /\ failAfter \in FailAfters
  /\ parent = "readiness"
  /\ verdict = "none"

(***************************************************************************)
(* Steps shared by the two children.                                       *)
(***************************************************************************)

LoopHeadPastEnd(p, t) ==              \* mutant: one ticket too many
  IF t > Requests THEN "finish" ELSE "wait"

\* Where the for loop over tickets continues with ticket t.
LoopHead(p, t) ==
  IF t >= Requests THEN "finish"
  ELSE IF p = C /\ failAfter >= 0 /\ t >= failAfter THEN "fault"
  ELSE "wait"

Goto(p, from, to) ==
  /\ status[p] = Running
  /\ pc[p] = from
  /\ pc' = [pc EXCEPT ![p] = to]

\* peer_alive(): a peer that has not reported ready counts as alive; one that
\* has is alive while its alive flag is set and its process is no zombie.
PeerAlive(p) == ready[p] => alive[p] /\ status[p] = Running

InitSucceeds(p) ==
  /\ Goto(p, "init", "register")
  /\ ready' = [ready EXCEPT ![p] = TRUE]
  /\ UNCHANGED <<start, alive, error, counters, reclaimed, slots, event,
                 ticket, scan, family>>

\* A CUDA call of the set-up fails: ready is reported all the same.
InitFails(p) ==
  /\ DeviceMayFail
  /\ status[p] = Running /\ pc[p] = "init"
  /\ error' = [error EXCEPT ![p] = 1]
  /\ ready' = [ready EXCEPT ![p] = TRUE]
  /\ status' = [status EXCEPT ![p] = IF p = P THEN 5 ELSE 7]
  /\ UNCHANGED <<start, alive, counters, reclaimed, slots, event, pc, ticket,
                 scan, failAfter, parent, verdict>>

\* set_device_environment() throws: the child leaves without reporting ready.
InitThrows(p) ==
  /\ DeviceMayFail
  /\ Goto(p, "init", "finish")
  /\ error' = [error EXCEPT ![p] = 1]
  /\ UNCHANGED <<start, ready, alive, counters, reclaimed, slots, event,
                 ticket, scan, family>>

SetAlive(p) ==
  /\ Goto(p, "register", "spin")
  /\ alive' = [alive EXCEPT ![p] = TRUE]
  /\ UNCHANGED <<start, ready, error, counters, reclaimed, slots, event,
                 ticket, scan, family>>

SeeStart(p) ==
  /\ start
  /\ Goto(p, "spin", LoopHead(p, 0))
  /\ UNCHANGED <<handshake, counters, reclaimed, slots, event, ticket, scan,
                 family>>

SlotNotHeld(p) ==                     \* mutant: READY data may be overwritten
  LET i == Slot(ticket[p])
  IN IF p = P THEN sequence[i] <= ticket[p] + 1 /\ state[i] # kConsuming
              ELSE sequence[i] = ticket[p] + 1 /\ state[i] = kReady

\* What a wait loop waits for: the producer a free slot with its own ticket
\* number, the consumer a ready slot with the next one.
SlotAvailable(p) ==
  LET i == Slot(ticket[p])
  IN IF p = P THEN sequence[i] = ticket[p] /\ state[i] = kFree
              ELSE sequence[i] = ticket[p] + 1 /\ state[i] = kReady

\* One poll of a wait loop: the slot first ...
MissSlot(p) ==
  /\ Goto(p, "wait", "peer")
  /\ ~SlotAvailable(p)
  /\ UNCHANGED <<handshake, counters, reclaimed, slots, event, ticket, scan,
                 family>>

Other(p) == IF p = P THEN C ELSE P

\* ... then the peer and the deadline, which has not passed ...
PollAgain(p) ==
  /\ PeerAlive(Other(p))
  /\ Goto(p, "peer", "wait")
  /\ UNCHANGED <<handshake, counters, reclaimed, slots, event, ticket, scan,
                 family>>

\* ... or has.
WaitTimesOut(p) ==
  /\ PeerAlive(Other(p))
  /\ Goto(p, "peer", "finish")
  /\ timeouts' = timeouts + 1
  /\ UNCHANGED <<handshake, published, completed, peerDeaths, reclaimed, slots,
                 event, ticket, scan, family>>

ClearAlive(p) ==
  /\ Goto(p, "finish", "unmap")
  /\ alive' = [alive EXCEPT ![p] = FALSE]
  /\ UNCHANGED <<start, ready, error, counters, reclaimed, slots, event,
                 ticket, scan, family>>

\* cudaHostUnregister() and cudaFree() may turn success into failure.
ExitCodes(p) ==
  LET failure == IF p = P THEN 6 ELSE 8
  IN IF error[p] = kFaultExit THEN {kFaultExit}
     ELSE IF error[p] # 0 THEN {failure}
     ELSE {0} \cup (IF DeviceMayFail THEN {failure} ELSE {})

Exit(p) ==
  /\ status[p] = Running /\ pc[p] = "unmap"
  /\ \E code \in ExitCodes(p) : status' = [status EXCEPT ![p] = code]
  /\ UNCHANGED <<handshake, counters, reclaimed, slots, event, pc, ticket, scan,
                 failAfter, parent, verdict>>

Crash(p) ==
  /\ ChildMayCrash
  /\ status[p] = Running
  /\ status' = [status EXCEPT ![p] = 137]
  /\ UNCHANGED <<handshake, counters, reclaimed, slots, event, pc, ticket, scan,
                 failAfter, parent, verdict>>

(***************************************************************************)
(* producer_main(): one ticket.                                            *)
(***************************************************************************)

\* The slot is free for this ticket: describe it and start the write kernel.
ClaimFree ==
  LET t == ticket[P] i == Slot(t)
  IN /\ Goto(P, "wait", "write")
     /\ SlotAvailable(P)
     /\ owner' = [owner EXCEPT ![i] = t]
     /\ payload' = [payload EXCEPT ![i] = Torn]
     /\ event' = [event EXCEPT ![t] = kReady]
     /\ UNCHANGED <<handshake, counters, reclaimed, sequence, state, ticket,
                    scan, family>>

WriteDone ==
  /\ Goto(P, "write", "mark")
  /\ payload' = [payload EXCEPT ![Slot(ticket[P])] = ticket[P]]
  /\ UNCHANGED <<handshake, counters, reclaimed, sequence, state, owner, event,
                 ticket, scan, family>>

WriteFails ==
  /\ DeviceMayFail
  /\ Goto(P, "write", "finish")
  /\ error' = [error EXCEPT ![P] = 1]
  /\ UNCHANGED <<start, ready, alive, counters, reclaimed, slots, event, ticket,
                 scan, family>>

MarkReady ==
  /\ Goto(P, "mark", "publish")
  /\ state' = [state EXCEPT ![Slot(ticket[P])] = kReady]
  /\ UNCHANGED <<handshake, counters, reclaimed, sequence, owner, payload, event,
                 ticket, scan, family>>

Publish ==
  /\ Goto(P, "publish", "count")
  /\ sequence' = [sequence EXCEPT ![Slot(ticket[P])] = ticket[P] + 1]
  /\ UNCHANGED <<handshake, counters, reclaimed, state, owner, payload, event,
                 ticket, scan, family>>

CountPublished ==
  /\ Goto(P, "count", LoopHead(P, ticket[P] + 1))
  /\ published' = published + 1
  /\ ticket' = [ticket EXCEPT ![P] = @ + 1]
  /\ UNCHANGED <<handshake, completed, timeouts, peerDeaths, reclaimed, slots,
                 event, scan, family>>

(***************************************************************************)
(* The dead-consumer branch of wait_for_producer_slot() and                *)
(* reclaim_stale_slots().  Passes repeat until one reclaimed something or  *)
(* the stale deadline passed; then one last pass, and the producer leaves. *)
(***************************************************************************)

SeeConsumerDead ==
  /\ ~PeerAlive(C)
  /\ Goto(P, "peer", "stale")
  /\ peerDeaths' = peerDeaths + 1
  /\ UNCHANGED <<handshake, published, completed, timeouts, reclaimed, slots,
                 event, ticket, scan, family>>

\* A pass samples the clock once.  Tickets age in order; at the stale deadline
\* every published ticket is stale, since all were published before the branch.
BeginPass(last, ages) ==
  /\ Goto(P, "stale", "scan")
  /\ \E young \in ages :
       scan' = [index |-> 0, young |-> young, last |-> last, seen |-> scan.seen]
  /\ UNCHANGED <<handshake, counters, reclaimed, slots, event, ticket, family>>

ReclaimAgain    == reclaimed = {}  /\ BeginPass(FALSE, scan.young .. ticket[P])
ReclaimLast     == reclaimed # {}  /\ BeginPass(TRUE, scan.young .. ticket[P])
ReclaimNoDeadline == reclaimed # {} /\ BeginPass(TRUE, {ticket[P]})     \* mutant
ReclaimDeadline == reclaimed = {}  /\ BeginPass(TRUE, {ticket[P]})

Reclaimable(i) == state[i] \in {kReady, kConsuming} /\ owner[i] < scan.young

ScanSkip ==
  /\ scan.index < kRingSlots
  /\ ~Reclaimable(scan.index)
  /\ Goto(P, "scan", "scan")
  /\ scan' = [scan EXCEPT !.index = @ + 1]
  /\ UNCHANGED <<handshake, counters, reclaimed, slots, event, ticket, family>>

ScanSelect ==
  /\ scan.index < kRingSlots
  /\ Reclaimable(scan.index)
  /\ Goto(P, "scan", "cas")
  /\ scan' = [scan EXCEPT !.seen = state[scan.index]]
  /\ UNCHANGED <<handshake, counters, reclaimed, slots, event, ticket, family>>

CasAborted ==
  /\ Goto(P, "cas", "abort")
  /\ state[scan.index] = scan.seen
  /\ state' = [state EXCEPT ![scan.index] = kAborted]
  /\ UNCHANGED <<handshake, counters, reclaimed, sequence, owner, payload, event,
                 ticket, scan, family>>

CasLost ==
  /\ Goto(P, "cas", "scan")
  /\ state[scan.index] # scan.seen
  /\ scan' = [scan EXCEPT !.index = @ + 1]
  /\ UNCHANGED <<handshake, counters, reclaimed, slots, event, ticket, family>>

ReclaimSlot ==
  LET i == scan.index t == owner[i]
  IN /\ Goto(P, "abort", "scan")
     /\ event' = [event EXCEPT ![t] = kAborted]
     /\ state' = [state EXCEPT ![i] = kFree]
     /\ sequence' = [sequence EXCEPT ![i] = t + kRingSlots]
     /\ reclaimed' = reclaimed \cup {t}
     /\ scan' = [scan EXCEPT !.index = @ + 1]
     /\ UNCHANGED <<handshake, counters, owner, payload, ticket, family>>

EndPassRetries ==                     \* mutant: wait on after reclaiming
  /\ scan.index = kRingSlots
  /\ Goto(P, "scan", IF scan.last THEN "wait" ELSE "stale")
  /\ UNCHANGED <<handshake, counters, reclaimed, slots, event, ticket, scan,
                 family>>

\* The last pass is over: wait_for_producer_slot() returns false in any case.
EndPass ==
  /\ scan.index = kRingSlots
  /\ Goto(P, "scan", IF scan.last THEN "finish" ELSE "stale")
  /\ UNCHANGED <<handshake, counters, reclaimed, slots, event, ticket, scan,
                 family>>

Reclaim ==
  \/ SeeConsumerDead \/ ReclaimAgain \/ ReclaimLast \/ ScanSkip \/ ScanSelect
  \/ CasAborted \/ CasLost \/ ReclaimSlot \/ EndPass

(***************************************************************************)
(* consumer_main(): one ticket.                                            *)
(***************************************************************************)

InjectFault ==
  /\ Goto(C, "fault", "unmap")
  /\ error' = [error EXCEPT ![C] = kFaultExit]
  /\ alive' = [alive EXCEPT ![C] = FALSE]
  /\ UNCHANGED <<start, ready, counters, reclaimed, slots, event, ticket, scan,
                 family>>

\* The consumer polled its slot, missed it, and now finds the producer gone:
\* it leaves without another look at the slot.
SeeProducerDead ==
  /\ ~PeerAlive(P)
  /\ Goto(C, "peer", "finish")
  /\ peerDeaths' = peerDeaths + 1
  /\ UNCHANGED <<handshake, published, completed, timeouts, reclaimed, slots,
                 event, ticket, scan, family>>

SeeReady ==
  /\ Goto(C, "wait", "claim")
  /\ SlotAvailable(C)
  /\ UNCHANGED <<handshake, counters, reclaimed, slots, event, ticket, scan,
                 family>>

StoreConsuming ==                     \* mutant: a store in place of the CAS
  LET i == Slot(ticket[C])
  IN /\ Goto(C, "claim", "verify")
     /\ state' = [state EXCEPT ![i] = kConsuming]
     /\ UNCHANGED <<handshake, counters, reclaimed, sequence, owner, payload,
                    event, ticket, scan, family>>

CasConsuming ==
  LET i == Slot(ticket[C])
  IN /\ state[i] = kReady
     /\ Goto(C, "claim", "verify")
     /\ state' = [state EXCEPT ![i] = kConsuming]
     /\ UNCHANGED <<handshake, counters, reclaimed, sequence, owner, payload,
                    event, ticket, scan, family>>

CasConsumingLost ==
  /\ Goto(C, "claim", LoopHead(C, ticket[C]))
  /\ state[Slot(ticket[C])] # kReady
  /\ UNCHANGED <<handshake, counters, reclaimed, slots, event, ticket, scan,
                 family>>

VerifyDone ==
  /\ Goto(C, "verify", "free")
  /\ event' = [event EXCEPT ![ticket[C]] = kDone]
  /\ UNCHANGED <<handshake, counters, reclaimed, slots, ticket, scan, family>>

\* A failed verify records kAborted; an exception in prepare_cache() does not.
VerifyFails ==
  /\ DeviceMayFail
  /\ Goto(C, "verify", "finish")
  /\ error' = [error EXCEPT ![C] = 1]
  /\ \/ event' = [event EXCEPT ![ticket[C]] = kAborted]
     \/ UNCHANGED event
  /\ UNCHANGED <<start, ready, alive, counters, reclaimed, slots, ticket, scan,
                 family>>

\* kDone and then kFree are stored; nothing can tell the first from the second.
FreeSlot ==
  /\ Goto(C, "free", "release")
  /\ state' = [state EXCEPT ![Slot(ticket[C])] = kFree]
  /\ UNCHANGED <<handshake, counters, reclaimed, sequence, owner, payload, event,
                 ticket, scan, family>>

ReleaseSlot ==
  /\ Goto(C, "release", "count")
  /\ sequence' = [sequence EXCEPT ![Slot(ticket[C])] = ticket[C] + kRingSlots]
  /\ UNCHANGED <<handshake, counters, reclaimed, state, owner, payload, event,
                 ticket, scan, family>>

CountCompleted ==
  /\ Goto(C, "count", LoopHead(C, ticket[C] + 1))
  /\ completed' = completed + 1
  /\ ticket' = [ticket EXCEPT ![C] = @ + 1]
  /\ UNCHANGED <<handshake, published, timeouts, peerDeaths, reclaimed, slots,
                 event, scan, family>>

(***************************************************************************)
(* main(): readiness barrier, start, reap, verdict.                        *)
(***************************************************************************)

StartBoth ==
  /\ parent = "readiness"
  /\ \A p \in Children : ready[p]
  /\ start' = TRUE
  /\ parent' = "reapProducer"
  /\ UNCHANGED <<ready, alive, error, counters, reclaimed, slots, event, pc,
                 ticket, scan, status, failAfter, verdict>>

\* wait_ready() gives up: SIGTERM to both, reap both, throw.
ReadinessTimesOut ==
  /\ parent = "readiness"
  /\ \E p \in Children : ~ready[p]
  /\ status' = [p \in Children |-> IF status[p] = Running THEN 143 ELSE status[p]]
  /\ parent' = "done"
  /\ verdict' = "readiness timed out"
  /\ UNCHANGED <<handshake, counters, reclaimed, slots, event, pc, ticket, scan,
                 failAfter>>

ReapProducer ==
  /\ parent = "reapProducer"
  /\ status[P] # Running
  /\ parent' = "reapConsumer"
  /\ UNCHANGED <<handshake, counters, reclaimed, slots, event, pc, ticket, scan,
                 status, failAfter, verdict>>

NormalSuccessPublished ==             \* mutant: completed is not compared
  /\ failAfter = -1
  /\ \A p \in Children : status[p] = 0
  /\ published = Requests
  /\ timeouts = 0

NormalSuccess ==
  /\ failAfter = -1
  /\ \A p \in Children : status[p] = 0
  /\ published = Requests /\ completed = Requests
  /\ timeouts = 0

FaultSuccessAnyExit ==                \* mutant: the exit code is not compared
  /\ failAfter # -1
  /\ status[P] = 0
  /\ reclaimed # {}

FaultSuccess ==
  /\ failAfter # -1
  /\ status[P] = 0 /\ status[C] = kFaultExit
  /\ reclaimed # {}

ReapConsumer ==
  /\ parent = "reapConsumer"
  /\ status[C] # Running
  /\ parent' = "done"
  /\ verdict' = IF NormalSuccess THEN "ok"
                ELSE IF FaultSuccess THEN "fault-ok" ELSE "error"
  /\ UNCHANGED <<handshake, counters, reclaimed, slots, event, pc, ticket, scan,
                 status, failAfter>>

Finished == parent = "done" /\ UNCHANGED vars

(***************************************************************************)
(* The specification.                                                      *)
(***************************************************************************)

ChildStep(p) ==
  \/ InitSucceeds(p) \/ InitFails(p) \/ InitThrows(p) \/ SetAlive(p)
  \/ SeeStart(p) \/ MissSlot(p) \/ PollAgain(p) \/ ClearAlive(p) \/ Exit(p)

ProducerStep ==
  \/ ChildStep(P) \/ Reclaim
  \/ ClaimFree \/ WriteDone \/ WriteFails \/ MarkReady \/ Publish
  \/ CountPublished

ConsumerStep ==
  \/ ChildStep(C)
  \/ InjectFault \/ SeeProducerDead \/ SeeReady \/ CasConsuming
  \/ CasConsumingLost \/ VerifyDone \/ VerifyFails \/ FreeSlot \/ ReleaseSlot
  \/ CountCompleted

ParentStep == StartBoth \/ ReadinessTimesOut \/ ReapProducer \/ ReapConsumer

Next ==
  \/ ProducerStep \/ ConsumerStep \/ ParentStep
  \/ \E p \in Children : WaitTimesOut(p) \/ Crash(p)
  \/ ReclaimDeadline
  \/ Finished

Safety == Init /\ [][Next]_vars

\* Every process is scheduled; a deadline polled again and again passes.
Fairness ==
  /\ WF_vars(ProducerStep) /\ WF_vars(ConsumerStep) /\ WF_vars(ParentStep)
  /\ \A p \in Children : SF_vars(WaitTimesOut(p))
  /\ SF_vars(ReclaimDeadline)

Spec == Safety /\ Fairness

(***************************************************************************)
(* Properties.                                                             *)
(***************************************************************************)

ChildPcs == {"init", "register", "spin", "wait", "peer", "finish", "unmap"}
ProducerPcs == ChildPcs \cup
  {"write", "mark", "publish", "count", "stale", "scan", "cas", "abort"}
ConsumerPcs == ChildPcs \cup
  {"fault", "claim", "verify", "free", "release", "count"}
ExitStatuses == {Running, 0, 5, 6, 7, 8, kFaultExit, 137, 143}

HeaderOK ==
  /\ start \in BOOLEAN
  /\ ready \in [Children -> BOOLEAN]
  /\ alive \in [Children -> BOOLEAN]
  /\ error \in [Children -> {0, 1, kFaultExit}]
  /\ published \in Nat /\ completed \in Nat
  /\ timeouts \in Nat /\ peerDeaths \in Nat
  /\ reclaimed \subseteq Tickets

SlotsOK ==
  /\ sequence \in [SlotIds -> Nat]
  /\ state \in [SlotIds -> {kFree, kReady, kConsuming, kAborted}]
  /\ owner \in [SlotIds -> Tickets]
  /\ payload \in [SlotIds -> Tickets \cup {Torn}]
  /\ event \in [Tickets -> {kFree, kReady, kDone, kAborted}]

ControlOK ==
  /\ pc \in [Children -> ProducerPcs \cup ConsumerPcs]
  /\ pc[P] \in ProducerPcs /\ pc[C] \in ConsumerPcs
  /\ ticket \in [Children -> 0 .. Requests]
  /\ scan \in [index : 0 .. kRingSlots, young : 0 .. Requests,
               last : BOOLEAN, seen : {kFree, kReady, kConsuming}]

FamilyOK ==
  /\ status \in [Children -> ExitStatuses]
  /\ failAfter \in FailAfters
  /\ parent \in {"readiness", "reapProducer", "reapConsumer", "done"}
  /\ verdict \in {"none", "ok", "fault-ok", "error", "readiness timed out"}

\* Every header field, slot, event and program counter has a value the code
\* can give it.
TypeOK == HeaderOK /\ SlotsOK /\ ControlOK /\ FamilyOK

\* While the consumer verifies ticket t, the slot holds the whole of t's bytes:
\* no torn write, no older and no newer ticket, whatever peer was declared dead
\* and whatever was reclaimed meanwhile (verify_pattern sees no mismatch).
VerifiesItsTicket ==
  pc[C] = "verify" => payload[Slot(ticket[C])] = ticket[C]

\* "Producers observe backpressure rather than overwrite READY data": the bytes
\* of a slot change only while the slot is free and no consumer is reading it.  And
\* no ABA: its sequence number never goes back, even when a consumer that was
\* written off by mistake stores its late release.
SlotsTurnOver ==
  [][\A i \in SlotIds :
       /\ payload'[i] # payload[i] =>
            state[i] = kFree /\ ~(pc[C] = "verify" /\ Slot(ticket[C]) = i)
       /\ sequence'[i] >= sequence[i]]_vars

\* The parent prints "ok" only for a run that delivered every ticket: each was
\* verified, none was reclaimed and every slot is free for its next ticket.
OkMeansDelivered ==
  verdict = "ok" =>
    /\ \A t \in Tickets : event[t] = kDone
    /\ reclaimed = {}
    /\ \A i \in SlotIds : state[i] = kFree /\ sequence[i] >= Requests

\* The parent prints "fault-ok" only if the consumer finished exactly the tickets
\* before the injected fault: each of them was verified or, for a consumer taken
\* for dead before it set its alive flag, written off; no later one is recorded
\* as done, and what was written off had been published, at most a ring ahead.
FaultOkMeansRecovered ==
  verdict = "fault-ok" =>
    /\ completed = failAfter
    /\ \A t \in 0 .. failAfter - 1 : event[t] = kDone \/ t \in reclaimed
    /\ \A t \in failAfter .. Requests - 1 : event[t] # kDone
    /\ reclaimed # {} /\ reclaimed \subseteq 0 .. published - 1
    /\ published - completed \in 0 .. kRingSlots

\* Whatever dies, fails or is late, main() reaches its verdict: no side waits
\* for the other for ever.
RunEnds == <>(parent = "done")

(***************************************************************************)
(* Why a verified ticket is whole: the inductive invariant.                *)
(***************************************************************************)

One(b) == IF b THEN 1 ELSE 0

Sent     == ticket[P] + One(pc[P] = "count")   \* published tickets: 0 .. Sent-1
Released == ticket[C] + One(pc[C] = "count")   \* released: 0 .. Released-1

Writing == pc[P] \in {"write", "mark", "publish", "finish", "unmap"}
Leaving == pc[P] \in {"stale", "scan", "cas", "abort", "finish", "unmap"}

\* Each child's ticket is a ticket while its loop body runs; the producer is at
\* most a ring ahead, the consumer only handles published tickets.
Positions ==
  /\ \A p \in Children : pc[p] \in {"init", "register", "spin"} => ticket[p] = 0
  /\ \A p \in Children :
       pc[p] \in {"wait", "peer", "write", "mark", "publish", "count", "claim",
                 "verify", "free", "release"} => ticket[p] < Requests
  /\ Released <= Sent
  /\ Sent <= Released + kRingSlots
  /\ pc[P] \in {"write", "mark", "publish"} => Sent < Released + kRingSlots
  /\ pc[C] \in {"claim", "verify", "free", "release"} => ticket[C] < Sent

\* What the slot of ticket t holds: a published ticket with its bytes, or nothing
\* yet but the right to write t.
Holds(t) ==
  LET i == Slot(t)
  IN IF t < Sent
     THEN /\ owner[i] = t /\ payload[i] = t
          /\ sequence[i] = t + 1 \/ (sequence[i] = t + kRingSlots /\ Leaving)
     ELSE /\ sequence[i] = t
          /\ t >= kRingSlots /\ (t = ticket[P] => ~Writing)
               => owner[i] = t - kRingSlots

\* Three consecutive tickets live in the three slots: the published ones that
\* are not released, then those whose slots are free.
SlotContents == \A t \in Released .. Released + kRingSlots - 1 : Holds(t)

\* The slot the producer works on is free and described; a slot that is not free
\* names its own ticket, as does the one being written off.
SlotInHand ==
  LET i == Slot(ticket[P])
  IN /\ pc[P] \in {"write", "mark"} => state[i] = kFree
     /\ pc[P] \in {"write", "mark", "publish"} => owner[i] = ticket[P]
     /\ pc[P] \in {"mark", "publish"} => payload[i] = ticket[P]
     /\ \A j \in SlotIds : state[j] # kFree => Slot(owner[j]) = j
     /\ scan.young <= ticket[P]
     /\ pc[P] \in {"cas", "abort"} =>
          /\ scan.index < kRingSlots
          /\ Slot(owner[scan.index]) = scan.index
          /\ owner[scan.index] < ticket[P]

\* The sequence protocol: what position each side is at, what each slot holds and
\* what its sequence number says always fit together, through wrap-around, races
\* with a reclaim, and crashes.
RingInv == Positions /\ SlotContents /\ SlotInHand

(***************************************************************************)
(* The ring implements the abstract hand-off.                              *)
(***************************************************************************)

Holding == pc[C] \in {"verify", "free", "release", "count"}
WrittenOff == reclaimed \cup (IF pc[P] = "abort" THEN {owner[scan.index]} ELSE {})

Handoff == INSTANCE TicketHandoff WITH
  Window   <- kRingSlots,
  sent     <- Sent,
  taken    <- ticket[C] + One(Holding),
  finished <- Released,
  dropped  <- WrittenOff,
  open     <- {s \in {"sender", "receiver"} :
                 IF s = "sender" THEN WrittenOff = {} ELSE error[C] = 0}

\* In order, each at most once, never more than three in flight, and nothing is
\* sent after a slot was written off.
ImplementsHandoff == Handoff!Spec

(***************************************************************************)
(* What the documents say and the code does not keep.                      *)
(***************************************************************************)

\* "Normal wraparound and delayed consumer cases complete all requests": when
\* nothing failed, nothing timed out and the producer published every ticket, the
\* consumer has completed every ticket.
NormalRunCompletes ==
  (/\ verdict \in {"ok", "error"} /\ failAfter = -1 /\ timeouts = 0
   /\ \A p \in Children : status[p] = 0
   /\ published = Requests)
    => completed = Requests

\* "Peer-death paths ... reclaim stale ownership": when the producer has left
\* because the consumer died and reported "fault-ok", no published ticket is
\* still owned by the dead consumer or waiting for it.
FaultOkReclaimsAll ==
  verdict = "fault-ok" =>
    \A i \in SlotIds : state[i] \notin {kReady, kConsuming}

=============================================================================
