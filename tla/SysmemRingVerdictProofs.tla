---------------------- MODULE SysmemRingVerdictProofs ----------------------
(***************************************************************************)
(* Proofs about what the ring's parent may conclude, and that the ring     *)
(* implements the abstract hand-off, for every number of requests and      *)
(* every fault point, with device failures and crashes allowed or not.     *)
(*                                                                         *)
(* RingInv says where the bytes and the numbers are.  A verdict is read    *)
(* off counters and exit statuses, so seven more facts tie those to the    *)
(* children's positions, to the slots' states and to the event log.        *)
(***************************************************************************)
EXTENDS SysmemRingProofs

USE RingAssumption
USE DEF P, C, Children, kRingSlots, kFree, kReady, kConsuming, kDone, kAborted,
        kFaultExit, Torn, Running

\* The counters are the positions: nothing is counted twice or left out.
Counted == published = ticket[P] /\ completed = ticket[C]

\* A producer that reclaims has tickets left and never takes up its loop again;
\* what it wrote off had been published.
Reclaiming ==
  /\ reclaimed # {} \/ pc[P] \in {"stale", "scan", "cas", "abort"}
       => ticket[P] < Requests /\ Leaving
  /\ \A t \in reclaimed : t < ticket[P]
  /\ pc[P] = "cas" => scan.seen # kFree

\* Has the consumer verified ticket t?
Finishing == pc[C] \in {"free", "release", "count"}
Verified(t) == t < ticket[C] \/ (t = ticket[C] /\ Finishing)

\* The event log says "done" of the verified tickets, but for those written off.
Recorded ==
  \A t \in Tickets :
    /\ Verified(t) => event[t] = kDone \/ t \in reclaimed
    /\ event[t] = kDone => Verified(t)

\* A slot that waits for a later ticket is free, but for the one being published;
\* a slot written off before its release is never ready again.
StatesFit ==
  /\ \A t \in Released .. Released + kRingSlots - 1 :
       t >= Sent => state[Slot(t)] = kFree \/ (t = ticket[P] /\ pc[P] = "publish")
  /\ pc[C] = "release" => state[Slot(ticket[C])] = kFree
  /\ \A t \in WrittenOff : t >= Released => state[Slot(t)] \in {kFree, kAborted}

\* Who exits with a code of its own went through the end of its main function, and
\* a consumer with an error is on its way out or gone.
Leaves ==
  /\ \A p \in Children : status[p] \in {0, 6, 8, kFaultExit} => pc[p] = "unmap"
  /\ status[C] = kFaultExit => error[C] = kFaultExit
  /\ error[C] # 0 => pc[C] \in {"finish", "unmap"} \/ status[C] # Running

\* The consumer never passes the ticket of the injected fault, and fails there only.
FaultPoint ==
  /\ error[C] = kFaultExit =>
       pc[C] = "unmap" /\ failAfter >= 0 /\ ticket[C] = failAfter
  /\ failAfter >= 0 =>
       /\ ticket[C] <= failAfter
       /\ pc[C] \in {"wait", "peer", "claim", "verify", "free", "release", "count"}
            => ticket[C] < failAfter
  /\ pc[C] = "fault" => failAfter >= 0 /\ ticket[C] = failAfter

\* The parent decides after both children are gone, so what it read still holds.
Verdicts ==
  /\ parent = "reapConsumer" => status[P] # Running
  /\ parent = "done" => \A p \in Children : status[p] # Running
  /\ verdict # "none" => parent = "done"
  /\ verdict = "ok" => NormalSuccess
  /\ verdict = "fault-ok" => FaultSuccess

VerdictInv ==
  /\ Counted /\ Reclaiming /\ Recorded /\ StatesFit
  /\ Leaves /\ FaultPoint /\ Verdicts

LEMMA VerdictInit == Init => VerdictInv
<1> SUFFICES ASSUME Init PROVE VerdictInv
  OBVIOUS
<1>1. Counted /\ Reclaiming /\ Recorded
  BY DEF Init, Counted, Reclaiming, Recorded, Verified, Finishing, Tickets
<1>2. StatesFit
  BY SlotInRange DEF Init, StatesFit, WrittenOff, Released, Sent, One
<1>3. Leaves /\ FaultPoint /\ Verdicts
  BY DEF Init, Leaves, FaultPoint, Verdicts
<1>4. QED
  BY <1>1, <1>2, <1>3 DEF VerdictInv

(***************************************************************************)
(* Which steps move what.                                                  *)
(***************************************************************************)

\* Six facts about a step: who counts, who records, who moves a slot on.
LEMMA Frames ==
  TypeOK /\ [Next]_vars =>
    /\ \/ UNCHANGED <<published, completed, ticket>>
       \/ CountPublished \/ CountCompleted
    /\ \/ UNCHANGED <<event, reclaimed, ticket[C]>> /\ (Finishing' <=> Finishing)
       \/ ClaimFree \/ ReclaimSlot \/ VerifyDone \/ VerifyFails \/ CountCompleted
    /\ \/ /\ UNCHANGED <<state, Sent, Released, ticket, WrittenOff>>
          /\ pc'[P] = "publish" <=> pc[P] = "publish"
          /\ pc'[C] = "release" <=> pc[C] = "release"
       \/ MarkReady \/ Publish \/ CountPublished \/ CasAborted \/ ReclaimSlot
       \/ CasConsuming \/ FreeSlot \/ ReleaseSlot \/ CountCompleted
<1> DEFINE Goal ==
    /\ \/ UNCHANGED <<published, completed, ticket>>
       \/ CountPublished \/ CountCompleted
    /\ \/ UNCHANGED <<event, reclaimed, ticket[C]>> /\ (Finishing' <=> Finishing)
       \/ ClaimFree \/ ReclaimSlot \/ VerifyDone \/ VerifyFails \/ CountCompleted
    /\ \/ /\ UNCHANGED <<state, Sent, Released, ticket, WrittenOff>>
          /\ pc'[P] = "publish" <=> pc[P] = "publish"
          /\ pc'[C] = "release" <=> pc[C] = "release"
       \/ MarkReady \/ Publish \/ CountPublished \/ CasAborted \/ ReclaimSlot
       \/ CasConsuming \/ FreeSlot \/ ReleaseSlot \/ CountCompleted
<1> SUFFICES ASSUME TypeOK, [Next]_vars PROVE Goal
  OBVIOUS
<1>pc. /\ pc \in [Children -> ProducerPcs \cup ConsumerPcs]
       /\ ticket \in [Children -> 0 .. Requests]
  BY DEF TypeOK, ControlOK
<1>1. ASSUME NEW p \in Children, InitSucceeds(p) PROVE Goal
  BY <1>1, <1>pc DEF InitSucceeds, Goto, counters, slots, Finishing, Sent, Released,
      One, WrittenOff
<1>2. ASSUME NEW p \in Children, InitFails(p) PROVE Goal
  BY <1>2, <1>pc DEF InitFails, counters, slots, Finishing, Sent, Released, One,
      WrittenOff
<1>3. ASSUME NEW p \in Children, InitThrows(p) PROVE Goal
  BY <1>3, <1>pc DEF InitThrows, Goto, counters, slots, Finishing, Sent, Released,
      One, WrittenOff
<1>4. ASSUME NEW p \in Children, SetAlive(p) PROVE Goal
  BY <1>4, <1>pc DEF SetAlive, Goto, counters, slots, Finishing, Sent, Released,
      One, WrittenOff
<1>5. ASSUME NEW p \in Children, SeeStart(p) PROVE Goal
  BY <1>5, <1>pc DEF SeeStart, LoopHead, Goto, counters, slots, Finishing, Sent,
      Released, One, WrittenOff
<1>6. ASSUME NEW p \in Children, MissSlot(p) PROVE Goal
  BY <1>6, <1>pc DEF MissSlot, Goto, counters, slots, Finishing, Sent, Released,
      One, WrittenOff
<1>7. ASSUME NEW p \in Children, PollAgain(p) PROVE Goal
  BY <1>7, <1>pc DEF PollAgain, Goto, counters, slots, Finishing, Sent, Released,
      One, WrittenOff
<1>8. ASSUME NEW p \in Children, ClearAlive(p) PROVE Goal
  BY <1>8, <1>pc DEF ClearAlive, Goto, counters, slots, Finishing, Sent, Released,
      One, WrittenOff
<1>9. ASSUME NEW p \in Children, Exit(p) PROVE Goal
  BY <1>9, <1>pc DEF Exit, counters, slots, Finishing, Sent, Released, One, WrittenOff
<1>10. ASSUME NEW p \in Children, WaitTimesOut(p) PROVE Goal
  BY <1>10, <1>pc DEF WaitTimesOut, Goto, slots, Finishing, Sent, Released, One,
      WrittenOff
<1>11. ASSUME NEW p \in Children, Crash(p) PROVE Goal
  BY <1>11, <1>pc DEF Crash, counters, slots, Finishing, Sent, Released, One,
      WrittenOff
<1>12. CASE SeeConsumerDead
  BY <1>12, <1>pc DEF SeeConsumerDead, Goto, slots, Finishing, Sent, Released, One,
      WrittenOff
<1>13. CASE ReclaimAgain
  BY <1>13, <1>pc DEF ReclaimAgain, BeginPass, Goto, counters, slots, Finishing,
      Sent, Released, One, WrittenOff
<1>14. CASE ReclaimLast
  BY <1>14, <1>pc DEF ReclaimLast, BeginPass, Goto, counters, slots, Finishing,
      Sent, Released, One, WrittenOff
<1>15. CASE ScanSkip
  BY <1>15, <1>pc DEF ScanSkip, Goto, counters, slots, Finishing, Sent, Released,
      One, WrittenOff
<1>16. CASE ScanSelect
  BY <1>16, <1>pc DEF ScanSelect, Goto, counters, slots, Finishing, Sent, Released,
      One, WrittenOff
<1>17. CASE CasAborted
  BY <1>17, <1>pc DEF CasAborted, Goto, counters, Finishing, Sent, Released, One,
      WrittenOff
<1>18. CASE CasLost
  BY <1>18, <1>pc DEF CasLost, Goto, counters, slots, Finishing, Sent, Released,
      One, WrittenOff
<1>19. CASE ReclaimSlot
  BY <1>19, <1>pc DEF ReclaimSlot, Goto, counters, Finishing, Sent, Released, One,
      WrittenOff
<1>20. CASE EndPass
  BY <1>20, <1>pc DEF EndPass, Goto, counters, slots, Finishing, Sent, Released,
      One, WrittenOff
<1>21. CASE ReclaimDeadline
  BY <1>21, <1>pc DEF ReclaimDeadline, BeginPass, Goto, counters, slots, Finishing,
      Sent, Released, One, WrittenOff
<1>22. CASE ClaimFree
  BY <1>22, <1>pc DEF ClaimFree, Goto, counters, Finishing, Sent, Released, One,
      WrittenOff
<1>23. CASE WriteDone
  BY <1>23, <1>pc DEF WriteDone, Goto, counters, Finishing, Sent, Released, One,
      WrittenOff
<1>24. CASE WriteFails
  BY <1>24, <1>pc DEF WriteFails, Goto, counters, slots, Finishing, Sent, Released,
      One, WrittenOff
<1>25. CASE MarkReady
  BY <1>25, <1>pc DEF MarkReady, Goto, counters, Finishing, Sent, Released, One,
      WrittenOff
<1>26. CASE Publish
  BY <1>26, <1>pc DEF Publish, Goto, counters, Finishing, Sent, Released, One,
      WrittenOff
<1>27. CASE CountPublished
  BY <1>27, <1>pc DEF CountPublished, LoopHead, Goto, slots, Finishing, Sent,
      Released, One, WrittenOff
<1>28. CASE InjectFault
  BY <1>28, <1>pc DEF InjectFault, Goto, counters, slots, Finishing, Sent, Released,
      One, WrittenOff
<1>29. CASE SeeProducerDead
  BY <1>29, <1>pc DEF SeeProducerDead, Goto, slots, Finishing, Sent, Released, One,
      WrittenOff
<1>30. CASE SeeReady
  BY <1>30, <1>pc DEF SeeReady, Goto, counters, slots, Finishing, Sent, Released,
      One, WrittenOff
<1>31. CASE CasConsuming
  BY <1>31, <1>pc DEF CasConsuming, Goto, counters, Finishing, Sent, Released, One,
      WrittenOff
<1>32. CASE CasConsumingLost
  BY <1>32, <1>pc DEF CasConsumingLost, LoopHead, Goto, counters, slots, Finishing,
      Sent, Released, One, WrittenOff
<1>33. CASE VerifyDone
  BY <1>33, <1>pc DEF VerifyDone, Goto, counters, slots, Finishing, Sent, Released,
      One, WrittenOff
<1>34. CASE VerifyFails
  BY <1>34, <1>pc DEF VerifyFails, Goto, counters, slots, Finishing, Sent, Released,
      One, WrittenOff
<1>35. CASE FreeSlot
  BY <1>35, <1>pc DEF FreeSlot, Goto, counters, Finishing, Sent, Released, One,
      WrittenOff
<1>36. CASE ReleaseSlot
  BY <1>36, <1>pc DEF ReleaseSlot, Goto, counters, Finishing, Sent, Released, One,
      WrittenOff
<1>37. CASE CountCompleted
  BY <1>37, <1>pc DEF CountCompleted, LoopHead, Goto, slots, Finishing, Sent,
      Released, One, WrittenOff
<1>38. CASE StartBoth
  BY <1>38, <1>pc DEF StartBoth, counters, slots, Finishing, Sent, Released, One,
      WrittenOff
<1>39. CASE ReadinessTimesOut
  BY <1>39, <1>pc DEF ReadinessTimesOut, counters, slots, Finishing, Sent, Released,
      One, WrittenOff
<1>40. CASE ReapProducer
  BY <1>40, <1>pc DEF ReapProducer, counters, slots, Finishing, Sent, Released, One,
      WrittenOff
<1>41. CASE ReapConsumer
  BY <1>41, <1>pc DEF ReapConsumer, counters, slots, Finishing, Sent, Released, One,
      WrittenOff
<1>42. CASE UNCHANGED vars
  BY <1>42, <1>pc DEF vars, counters, slots, Finishing, Sent, Released, One,
      WrittenOff
<1> HIDE DEF Goal
<1>43. QED
  BY <1>1, <1>2, <1>3, <1>4, <1>5, <1>6, <1>7, <1>8, <1>9, <1>10, <1>11, <1>12,
      <1>13, <1>14, <1>15, <1>16, <1>17, <1>18, <1>19, <1>20, <1>21, <1>22, <1>23,
      <1>24, <1>25, <1>26, <1>27, <1>28, <1>29, <1>30, <1>31, <1>32, <1>33, <1>34,
      <1>35, <1>36, <1>37, <1>38, <1>39, <1>40, <1>41, <1>42
  DEF Next, ProducerStep, ConsumerStep, ParentStep, ChildStep, Reclaim, Finished
LEMMA CountedStep ==
  TypeOK /\ Counted /\ [Next]_vars => Counted'
<1> SUFFICES ASSUME TypeOK, Counted, [Next]_vars PROVE Counted'
  OBVIOUS
<1>1. CASE UNCHANGED <<published, completed, ticket>>
  BY <1>1 DEF Counted
<1>2. CASE CountPublished
  BY <1>2 DEF CountPublished, Counted, TypeOK, ControlOK
<1>3. CASE CountCompleted
  BY <1>3 DEF CountCompleted, Counted, TypeOK, ControlOK
<1>4. QED
  BY <1>1, <1>2, <1>3, Frames

LEMMA RecordedStep ==
  TypeOK /\ RingInv /\ Recorded /\ [Next]_vars => Recorded'
<1> SUFFICES ASSUME TypeOK, RingInv, Recorded, [Next]_vars PROVE Recorded'
  OBVIOUS
<1>t. /\ ticket[P] \in Nat /\ ticket[C] \in Nat /\ ticket \in [Children -> 0 .. Requests]
      /\ pc \in [Children -> ProducerPcs \cup ConsumerPcs]
      /\ event \in [Tickets -> {kFree, kReady, kDone, kAborted}]
  BY DEF TypeOK, ControlOK, SlotsOK
<1>p. /\ pc[P] = "wait" => ticket[P] >= ticket[C] /\ (Finishing => ticket[P] > ticket[C])
      /\ pc[C] = "verify" => ticket[C] \in Tickets
  BY <1>t DEF RingInv, Positions, Sent, Released, One, Finishing, Tickets
<1>1. CASE UNCHANGED <<event, reclaimed, ticket[C]>> /\ (Finishing' <=> Finishing)
  BY <1>1 DEF Recorded, Verified
<1>2. CASE ClaimFree
  <2>1. ~Verified(ticket[P]) /\ (\A t \in Tickets : Verified(t)' <=> Verified(t))
    BY <1>2, <1>t, <1>p DEF ClaimFree, Goto, Verified, Finishing
  <2>2. \A t \in Tickets : t # ticket[P] => event'[t] = event[t]
    BY <1>2, <1>t DEF ClaimFree
  <2>3. ticket[P] \in Tickets => event'[ticket[P]] = kReady
    BY <1>2, <1>t DEF ClaimFree
  <2>4. UNCHANGED reclaimed
    BY <1>2 DEF ClaimFree
  <2>5. QED
    BY <2>1, <2>2, <2>3, <2>4 DEF Recorded
<1>3. CASE ReclaimSlot
  <2>1. \A t \in Tickets : Verified(t)' <=> Verified(t)
    BY <1>3, <1>t DEF ReclaimSlot, Goto, Verified, Finishing
  <2>2. \A t \in Tickets : event'[t] = event[t] \/ (event'[t] = kAborted /\ t \in reclaimed')
    BY <1>3, <1>t DEF ReclaimSlot
  <2>3. reclaimed \subseteq reclaimed'
    BY <1>3 DEF ReclaimSlot
  <2>4. QED
    BY <2>1, <2>2, <2>3 DEF Recorded
<1>4. CASE VerifyDone
  <2>1. \A t \in Tickets : Verified(t)' <=> Verified(t) \/ t = ticket[C]
    BY <1>4, <1>t DEF VerifyDone, Goto, Verified, Finishing
  <2>2. \A t \in Tickets : event'[t] = IF t = ticket[C] THEN kDone ELSE event[t]
    BY <1>4, <1>t DEF VerifyDone
  <2>3. UNCHANGED reclaimed
    BY <1>4 DEF VerifyDone
  <2>4. QED
    BY <2>1, <2>2, <2>3 DEF Recorded
<1>5. CASE VerifyFails
  <2>1. ~Verified(ticket[C]) /\ (\A t \in Tickets : Verified(t)' <=> Verified(t))
    BY <1>5, <1>t DEF VerifyFails, Goto, Verified, Finishing
  <2>2. \A t \in Tickets : event'[t] = event[t] \/ (event'[t] = kAborted /\ t = ticket[C])
    BY <1>5, <1>t DEF VerifyFails
  <2>3. UNCHANGED reclaimed
    BY <1>5 DEF VerifyFails
  <2>4. QED
    BY <2>1, <2>2, <2>3 DEF Recorded
<1>6. CASE CountCompleted
  <2>1. \A t \in Tickets : Verified(t)' <=> Verified(t)
    BY <1>6, <1>t DEF CountCompleted, Goto, LoopHead, Verified, Finishing, Tickets
  <2>2. UNCHANGED <<event, reclaimed>>
    BY <1>6 DEF CountCompleted
  <2>3. QED
    BY <2>1, <2>2 DEF Recorded
<1>7. QED
  BY <1>1, <1>2, <1>3, <1>4, <1>5, <1>6, Frames

LEMMA ReclaimingStep ==
  TypeOK /\ RingInv /\ Reclaiming /\ [Next]_vars => Reclaiming'
<1> SUFFICES ASSUME TypeOK, RingInv, Reclaiming, [Next]_vars PROVE Reclaiming'
  OBVIOUS
<1>1. ASSUME NEW p \in Children, InitSucceeds(p) PROVE Reclaiming'
  BY <1>1 DEF InitSucceeds, Goto, Reclaiming, Leaving, TypeOK, ControlOK, SlotsOK,
      counters, slots, family
<1>2. ASSUME NEW p \in Children, InitFails(p) PROVE Reclaiming'
  BY <1>2 DEF InitFails, Reclaiming, Leaving, TypeOK, ControlOK, SlotsOK, counters,
      slots
<1>3. ASSUME NEW p \in Children, InitThrows(p) PROVE Reclaiming'
  BY <1>3 DEF InitThrows, Goto, Reclaiming, Leaving, TypeOK, ControlOK, SlotsOK,
      counters, slots, family
<1>4. ASSUME NEW p \in Children, SetAlive(p) PROVE Reclaiming'
  BY <1>4 DEF SetAlive, Goto, Reclaiming, Leaving, TypeOK, ControlOK, SlotsOK,
      counters, slots, family
<1>5. ASSUME NEW p \in Children, SeeStart(p) PROVE Reclaiming'
  BY <1>5 DEF SeeStart, LoopHead, Goto, Reclaiming, Leaving, TypeOK, ControlOK,
      SlotsOK, counters, slots, family
<1>6. ASSUME NEW p \in Children, MissSlot(p) PROVE Reclaiming'
  BY <1>6 DEF MissSlot, Goto, Reclaiming, Leaving, TypeOK, ControlOK, SlotsOK,
      counters, slots, family
<1>7. ASSUME NEW p \in Children, PollAgain(p) PROVE Reclaiming'
  BY <1>7 DEF PollAgain, Goto, Reclaiming, Leaving, TypeOK, ControlOK, SlotsOK,
      counters, slots, family
<1>8. ASSUME NEW p \in Children, ClearAlive(p) PROVE Reclaiming'
  BY <1>8 DEF ClearAlive, Goto, Reclaiming, Leaving, TypeOK, ControlOK, SlotsOK,
      counters, slots, family
<1>9. ASSUME NEW p \in Children, Exit(p) PROVE Reclaiming'
  BY <1>9 DEF Exit, Reclaiming, Leaving, TypeOK, ControlOK, SlotsOK, counters, slots
<1>10. ASSUME NEW p \in Children, WaitTimesOut(p) PROVE Reclaiming'
  BY <1>10 DEF WaitTimesOut, Goto, Reclaiming, Leaving, TypeOK, ControlOK, SlotsOK,
      slots, family
<1>11. ASSUME NEW p \in Children, Crash(p) PROVE Reclaiming'
  BY <1>11 DEF Crash, Reclaiming, Leaving, TypeOK, ControlOK, SlotsOK, counters, slots
<1>12. CASE SeeConsumerDead
  BY <1>12 DEF SeeConsumerDead, Goto, Reclaiming, Leaving, RingInv, Positions,
      TypeOK, ControlOK, slots
<1>13. CASE ReclaimAgain
  BY <1>13 DEF ReclaimAgain, BeginPass, Goto, Reclaiming, Leaving, TypeOK,
      ControlOK, SlotsOK, counters, slots, family
<1>14. CASE ReclaimLast
  BY <1>14 DEF ReclaimLast, BeginPass, Goto, Reclaiming, Leaving, TypeOK, ControlOK,
      SlotsOK, counters, slots, family
<1>15. CASE ScanSkip
  BY <1>15 DEF ScanSkip, Goto, Reclaiming, Leaving, TypeOK, ControlOK, SlotsOK,
      counters, slots, family
<1>16. CASE ScanSelect
  BY <1>16 DEF ScanSelect, Reclaimable, Goto, Reclaiming, Leaving, TypeOK,
      ControlOK, SlotsOK, slots
<1>17. CASE CasAborted
  BY <1>17 DEF CasAborted, Goto, Reclaiming, Leaving, TypeOK, ControlOK, SlotsOK,
      counters, family
<1>18. CASE CasLost
  BY <1>18 DEF CasLost, Goto, Reclaiming, Leaving, TypeOK, ControlOK, SlotsOK,
      counters, slots, family
<1>19. CASE ReclaimSlot
  BY <1>19 DEF ReclaimSlot, Goto, Reclaiming, Leaving, RingInv, SlotInHand, TypeOK,
      ControlOK, SlotsOK
<1>20. CASE EndPass
  BY <1>20 DEF EndPass, Goto, Reclaiming, Leaving, TypeOK, ControlOK, SlotsOK,
      counters, slots, family
<1>21. CASE ReclaimDeadline
  BY <1>21 DEF ReclaimDeadline, BeginPass, Goto, Reclaiming, Leaving, TypeOK,
      ControlOK, SlotsOK, counters, slots, family
<1>22. CASE ClaimFree
  BY <1>22 DEF ClaimFree, Goto, Reclaiming, Leaving, TypeOK, ControlOK, SlotsOK,
      counters, family
<1>23. CASE WriteDone
  BY <1>23 DEF WriteDone, Goto, Reclaiming, Leaving, TypeOK, ControlOK, SlotsOK,
      counters, family
<1>24. CASE WriteFails
  BY <1>24 DEF WriteFails, Goto, Reclaiming, Leaving, TypeOK, ControlOK, SlotsOK,
      counters, slots, family
<1>25. CASE MarkReady
  BY <1>25 DEF MarkReady, Goto, Reclaiming, Leaving, TypeOK, ControlOK, SlotsOK,
      counters, family
<1>26. CASE Publish
  BY <1>26 DEF Publish, Goto, Reclaiming, Leaving, TypeOK, ControlOK, SlotsOK,
      counters, family
<1>27. CASE CountPublished
  BY <1>27 DEF CountPublished, LoopHead, Goto, Reclaiming, Leaving, TypeOK,
      ControlOK, SlotsOK, slots, family
<1>28. CASE InjectFault
  BY <1>28 DEF InjectFault, Goto, Reclaiming, Leaving, TypeOK, ControlOK, SlotsOK,
      counters, slots, family
<1>29. CASE SeeProducerDead
  BY <1>29 DEF SeeProducerDead, Goto, Reclaiming, Leaving, TypeOK, ControlOK,
      SlotsOK, slots, family
<1>30. CASE SeeReady
  BY <1>30 DEF SeeReady, Goto, Reclaiming, Leaving, TypeOK, ControlOK, SlotsOK,
      counters, slots, family
<1>31. CASE CasConsuming
  BY <1>31 DEF CasConsuming, Goto, Reclaiming, Leaving, TypeOK, ControlOK, SlotsOK,
      counters, family
<1>32. CASE CasConsumingLost
  BY <1>32 DEF CasConsumingLost, LoopHead, Goto, Reclaiming, Leaving, TypeOK,
      ControlOK, SlotsOK, counters, slots, family
<1>33. CASE VerifyDone
  BY <1>33 DEF VerifyDone, Goto, Reclaiming, Leaving, TypeOK, ControlOK, SlotsOK,
      counters, slots, family
<1>34. CASE VerifyFails
  BY <1>34 DEF VerifyFails, Goto, Reclaiming, Leaving, TypeOK, ControlOK, SlotsOK,
      counters, slots, family
<1>35. CASE FreeSlot
  BY <1>35 DEF FreeSlot, Goto, Reclaiming, Leaving, TypeOK, ControlOK, SlotsOK,
      counters, family
<1>36. CASE ReleaseSlot
  BY <1>36 DEF ReleaseSlot, Goto, Reclaiming, Leaving, TypeOK, ControlOK, SlotsOK,
      counters, family
<1>37. CASE CountCompleted
  BY <1>37 DEF CountCompleted, LoopHead, Goto, Reclaiming, Leaving, TypeOK,
      ControlOK, SlotsOK, slots, family
<1>38. CASE StartBoth
  BY <1>38 DEF StartBoth, Reclaiming, Leaving, TypeOK, ControlOK, SlotsOK, counters,
      slots
<1>39. CASE ReadinessTimesOut
  BY <1>39 DEF ReadinessTimesOut, Reclaiming, Leaving, TypeOK, ControlOK, SlotsOK,
      counters, slots
<1>40. CASE ReapProducer
  BY <1>40 DEF ReapProducer, Reclaiming, Leaving, TypeOK, ControlOK, SlotsOK,
      counters, slots
<1>41. CASE ReapConsumer
  BY <1>41 DEF ReapConsumer, Reclaiming, Leaving, TypeOK, ControlOK, SlotsOK,
      counters, slots
<1>42. CASE UNCHANGED vars
  BY <1>42 DEF vars, Reclaiming, Leaving, TypeOK, ControlOK, SlotsOK, counters,
      slots, family
<1>43. QED
  BY <1>1, <1>2, <1>3, <1>4, <1>5, <1>6, <1>7, <1>8, <1>9, <1>10, <1>11, <1>12,
      <1>13, <1>14, <1>15, <1>16, <1>17, <1>18, <1>19, <1>20, <1>21, <1>22, <1>23,
      <1>24, <1>25, <1>26, <1>27, <1>28, <1>29, <1>30, <1>31, <1>32, <1>33, <1>34,
      <1>35, <1>36, <1>37, <1>38, <1>39, <1>40, <1>41, <1>42
  DEF Next, ProducerStep, ConsumerStep, ParentStep, ChildStep, Reclaim, Finished

LEMMA LeavesStep ==
  TypeOK /\ Leaves /\ [Next]_vars => Leaves'
<1> SUFFICES ASSUME TypeOK, Leaves, [Next]_vars PROVE Leaves'
  OBVIOUS
<1>t. /\ pc \in [Children -> ProducerPcs \cup ConsumerPcs]
      /\ error \in [Children -> {0, 1, kFaultExit}]
      /\ status \in [Children -> ExitStatuses]
  BY DEF TypeOK, ControlOK, HeaderOK, FamilyOK
<1> USE DEF Leaves
<1>1. ASSUME NEW p \in Children, InitSucceeds(p) PROVE Leaves'
  BY <1>1, <1>t DEF InitSucceeds, Goto, counters, slots, family
<1>2. ASSUME NEW p \in Children, InitFails(p) PROVE Leaves'
  BY <1>2, <1>t DEF InitFails, counters, slots
<1>3. ASSUME NEW p \in Children, InitThrows(p) PROVE Leaves'
  BY <1>3, <1>t DEF InitThrows, Goto, counters, slots, family
<1>4. ASSUME NEW p \in Children, SetAlive(p) PROVE Leaves'
  BY <1>4, <1>t DEF SetAlive, Goto, counters, slots, family
<1>5. ASSUME NEW p \in Children, SeeStart(p) PROVE Leaves'
  BY <1>5, <1>t DEF SeeStart, LoopHead, Goto, handshake, counters, slots, family
<1>6. ASSUME NEW p \in Children, MissSlot(p) PROVE Leaves'
  BY <1>6, <1>t DEF MissSlot, Goto, handshake, counters, slots, family
<1>7. ASSUME NEW p \in Children, PollAgain(p) PROVE Leaves'
  BY <1>7, <1>t DEF PollAgain, Goto, handshake, counters, slots, family
<1>8. ASSUME NEW p \in Children, ClearAlive(p) PROVE Leaves'
  BY <1>8, <1>t DEF ClearAlive, Goto, counters, slots, family
<1>9. ASSUME NEW p \in Children, Exit(p) PROVE Leaves'
  <2>1. /\ pc[p] = "unmap" /\ status[p] = Running /\ UNCHANGED <<pc, error>>
        /\ \E code \in ExitCodes(p) : status' = [status EXCEPT ![p] = code]
    BY <1>9 DEF Exit, handshake
  <2>2. PICK code \in ExitCodes(p) : status' = [status EXCEPT ![p] = code]
    BY <2>1
  <2>3. code # Running /\ (code = kFaultExit => error[p] = kFaultExit)
    BY <2>2 DEF ExitCodes
  <2>4. QED
    BY <1>t, <2>1, <2>2, <2>3
<1>10. ASSUME NEW p \in Children, WaitTimesOut(p) PROVE Leaves'
  BY <1>10, <1>t DEF WaitTimesOut, Goto, handshake, slots, family
<1>11. ASSUME NEW p \in Children, Crash(p) PROVE Leaves'
  BY <1>11, <1>t DEF Crash, handshake, counters, slots
<1>12. CASE SeeConsumerDead
  BY <1>12, <1>t DEF SeeConsumerDead, Goto, handshake, slots, family
<1>13. CASE ReclaimAgain
  BY <1>13, <1>t DEF ReclaimAgain, BeginPass, Goto, handshake, counters, slots, family
<1>14. CASE ReclaimLast
  BY <1>14, <1>t DEF ReclaimLast, BeginPass, Goto, handshake, counters, slots, family
<1>15. CASE ScanSkip
  BY <1>15, <1>t DEF ScanSkip, Goto, handshake, counters, slots, family
<1>16. CASE ScanSelect
  BY <1>16, <1>t DEF ScanSelect, Goto, handshake, counters, slots, family
<1>17. CASE CasAborted
  BY <1>17, <1>t DEF CasAborted, Goto, handshake, counters, family
<1>18. CASE CasLost
  BY <1>18, <1>t DEF CasLost, Goto, handshake, counters, slots, family
<1>19. CASE ReclaimSlot
  BY <1>19, <1>t DEF ReclaimSlot, Goto, handshake, counters, family
<1>20. CASE EndPass
  BY <1>20, <1>t DEF EndPass, Goto, handshake, counters, slots, family
<1>21. CASE ReclaimDeadline
  BY <1>21, <1>t DEF ReclaimDeadline, BeginPass, Goto, handshake, counters, slots,
      family
<1>22. CASE ClaimFree
  BY <1>22, <1>t DEF ClaimFree, Goto, handshake, counters, family
<1>23. CASE WriteDone
  BY <1>23, <1>t DEF WriteDone, Goto, handshake, counters, family
<1>24. CASE WriteFails
  BY <1>24, <1>t DEF WriteFails, Goto, counters, slots, family
<1>25. CASE MarkReady
  BY <1>25, <1>t DEF MarkReady, Goto, handshake, counters, family
<1>26. CASE Publish
  BY <1>26, <1>t DEF Publish, Goto, handshake, counters, family
<1>27. CASE CountPublished
  BY <1>27, <1>t DEF CountPublished, LoopHead, Goto, handshake, slots, family
<1>28. CASE InjectFault
  BY <1>28, <1>t DEF InjectFault, Goto, counters, slots, family
<1>29. CASE SeeProducerDead
  BY <1>29, <1>t DEF SeeProducerDead, Goto, handshake, slots, family
<1>30. CASE SeeReady
  BY <1>30, <1>t DEF SeeReady, Goto, handshake, counters, slots, family
<1>31. CASE CasConsuming
  BY <1>31, <1>t DEF CasConsuming, Goto, handshake, counters, family
<1>32. CASE CasConsumingLost
  BY <1>32, <1>t DEF CasConsumingLost, LoopHead, Goto, handshake, counters, slots,
      family
<1>33. CASE VerifyDone
  BY <1>33, <1>t DEF VerifyDone, Goto, handshake, counters, slots, family
<1>34. CASE VerifyFails
  BY <1>34, <1>t DEF VerifyFails, Goto, counters, slots, family
<1>35. CASE FreeSlot
  BY <1>35, <1>t DEF FreeSlot, Goto, handshake, counters, family
<1>36. CASE ReleaseSlot
  BY <1>36, <1>t DEF ReleaseSlot, Goto, handshake, counters, family
<1>37. CASE CountCompleted
  BY <1>37, <1>t DEF CountCompleted, LoopHead, Goto, handshake, slots, family
<1>38. CASE StartBoth
  BY <1>38, <1>t DEF StartBoth, counters, slots
<1>39. CASE ReadinessTimesOut
  <2>1. \A p \in Children :
          status'[p] = IF status[p] = Running THEN 143 ELSE status[p]
    BY <1>39 DEF ReadinessTimesOut
  <2>2. UNCHANGED <<pc, error>>
    BY <1>39 DEF ReadinessTimesOut, handshake
  <2>3. QED
    BY <2>1, <2>2
<1>40. CASE ReapProducer
  BY <1>40, <1>t DEF ReapProducer, handshake, counters, slots
<1>41. CASE ReapConsumer
  BY <1>41, <1>t DEF ReapConsumer, handshake, counters, slots
<1>42. CASE UNCHANGED vars
  BY <1>42, <1>t DEF vars, handshake, counters, slots, family
<1>43. QED
  BY <1>1, <1>2, <1>3, <1>4, <1>5, <1>6, <1>7, <1>8, <1>9, <1>10, <1>11, <1>12,
      <1>13, <1>14, <1>15, <1>16, <1>17, <1>18, <1>19, <1>20, <1>21, <1>22, <1>23,
      <1>24, <1>25, <1>26, <1>27, <1>28, <1>29, <1>30, <1>31, <1>32, <1>33, <1>34,
      <1>35, <1>36, <1>37, <1>38, <1>39, <1>40, <1>41, <1>42
  DEF Next, ProducerStep, ConsumerStep, ParentStep, ChildStep, Reclaim, Finished

LEMMA ConsumerHead ==
  \A t \in Nat :
    /\ LoopHead(C, t) \in {"finish", "fault", "wait"}
    /\ LoopHead(C, t) = "fault" => failAfter >= 0 /\ t >= failAfter
    /\ LoopHead(C, t) = "wait" => ~(failAfter >= 0 /\ t >= failAfter)
BY DEF LoopHead

LEMMA FaultPointStep ==
  TypeOK /\ RingInv /\ FaultPoint /\ [Next]_vars => FaultPoint'
<1> SUFFICES ASSUME TypeOK, RingInv, FaultPoint, [Next]_vars PROVE FaultPoint'
  OBVIOUS
<1>t. /\ pc \in [Children -> ProducerPcs \cup ConsumerPcs]
      /\ ticket \in [Children -> 0 .. Requests]
      /\ error \in [Children -> {0, 1, kFaultExit}]
  BY DEF TypeOK, ControlOK, HeaderOK
<1>f. failAfter \in Int
  <2>1. failAfter \in FailAfters /\ FailAfters \subseteq -1 .. Requests - 1
    BY RingAssumption DEF TypeOK, FamilyOK
  <2>2. failAfter \in -1 .. Requests - 1
    BY <2>1
  <2>3. QED
    BY <2>2
<1>0. pc[C] \in {"init", "register", "spin"} => ticket[C] = 0
  BY DEF RingInv, Positions
<1> USE DEF FaultPoint
<1>1. ASSUME NEW p \in Children, InitSucceeds(p) PROVE FaultPoint'
  BY <1>1, <1>t DEF InitSucceeds, Goto, counters, slots, family
<1>2. ASSUME NEW p \in Children, InitFails(p) PROVE FaultPoint'
  BY <1>2, <1>t DEF InitFails, counters, slots
<1>3. ASSUME NEW p \in Children, InitThrows(p) PROVE FaultPoint'
  BY <1>3, <1>t DEF InitThrows, Goto, counters, slots, family
<1>4. ASSUME NEW p \in Children, SetAlive(p) PROVE FaultPoint'
  BY <1>4, <1>t DEF SetAlive, Goto, counters, slots, family
<1>5. ASSUME NEW p \in Children, SeeStart(p) PROVE FaultPoint'
  <2>1. /\ pc[p] = "spin" /\ pc' = [pc EXCEPT ![p] = LoopHead(p, 0)]
        /\ UNCHANGED <<ticket, error, failAfter>>
    BY <1>5 DEF SeeStart, Goto, handshake, family
  <2>2. CASE p = P
    BY <1>t, <1>f, <2>1, <2>2
  <2>3. CASE p = C
    BY <1>t, <1>f, <1>0, <2>1, <2>3, ConsumerHead
  <2>4. QED
    BY <2>2, <2>3
<1>6. ASSUME NEW p \in Children, MissSlot(p) PROVE FaultPoint'
  BY <1>6, <1>t DEF MissSlot, Goto, handshake, counters, slots, family
<1>7. ASSUME NEW p \in Children, PollAgain(p) PROVE FaultPoint'
  BY <1>7, <1>t DEF PollAgain, Goto, handshake, counters, slots, family
<1>8. ASSUME NEW p \in Children, ClearAlive(p) PROVE FaultPoint'
  BY <1>8, <1>t DEF ClearAlive, Goto, counters, slots, family
<1>9. ASSUME NEW p \in Children, Exit(p) PROVE FaultPoint'
  BY <1>9, <1>t DEF Exit, handshake, counters, slots
<1>10. ASSUME NEW p \in Children, WaitTimesOut(p) PROVE FaultPoint'
  BY <1>10, <1>t DEF WaitTimesOut, Goto, handshake, slots, family
<1>11. ASSUME NEW p \in Children, Crash(p) PROVE FaultPoint'
  BY <1>11, <1>t DEF Crash, handshake, counters, slots
<1>12. CASE SeeConsumerDead
  BY <1>12, <1>t DEF SeeConsumerDead, Goto, handshake, slots, family
<1>13. CASE ReclaimAgain
  BY <1>13, <1>t DEF ReclaimAgain, BeginPass, Goto, handshake, counters, slots, family
<1>14. CASE ReclaimLast
  BY <1>14, <1>t DEF ReclaimLast, BeginPass, Goto, handshake, counters, slots, family
<1>15. CASE ScanSkip
  BY <1>15, <1>t DEF ScanSkip, Goto, handshake, counters, slots, family
<1>16. CASE ScanSelect
  BY <1>16, <1>t DEF ScanSelect, Goto, handshake, counters, slots, family
<1>17. CASE CasAborted
  BY <1>17, <1>t DEF CasAborted, Goto, handshake, counters, family
<1>18. CASE CasLost
  BY <1>18, <1>t DEF CasLost, Goto, handshake, counters, slots, family
<1>19. CASE ReclaimSlot
  BY <1>19, <1>t DEF ReclaimSlot, Goto, handshake, counters, family
<1>20. CASE EndPass
  BY <1>20, <1>t DEF EndPass, Goto, handshake, counters, slots, family
<1>21. CASE ReclaimDeadline
  BY <1>21, <1>t DEF ReclaimDeadline, BeginPass, Goto, handshake, counters, slots,
      family
<1>22. CASE ClaimFree
  BY <1>22, <1>t DEF ClaimFree, Goto, handshake, counters, family
<1>23. CASE WriteDone
  BY <1>23, <1>t DEF WriteDone, Goto, handshake, counters, family
<1>24. CASE WriteFails
  BY <1>24, <1>t DEF WriteFails, Goto, counters, slots, family
<1>25. CASE MarkReady
  BY <1>25, <1>t DEF MarkReady, Goto, handshake, counters, family
<1>26. CASE Publish
  BY <1>26, <1>t DEF Publish, Goto, handshake, counters, family
<1>27. CASE CountPublished
  BY <1>27, <1>t DEF CountPublished, LoopHead, Goto, handshake, slots, family
<1>28. CASE InjectFault
  BY <1>28, <1>t DEF InjectFault, Goto, counters, slots, family
<1>29. CASE SeeProducerDead
  BY <1>29, <1>t DEF SeeProducerDead, Goto, handshake, slots, family
<1>30. CASE SeeReady
  BY <1>30, <1>t DEF SeeReady, Goto, handshake, counters, slots, family
<1>31. CASE CasConsuming
  BY <1>31, <1>t DEF CasConsuming, Goto, handshake, counters, family
<1>32. CASE CasConsumingLost
  <2>1. /\ pc[C] = "claim" /\ pc' = [pc EXCEPT ![C] = LoopHead(C, ticket[C])]
        /\ UNCHANGED <<ticket, error, failAfter>>
    BY <1>32 DEF CasConsumingLost, Goto, handshake, family
  <2>2. QED
    BY <1>t, <1>f, <2>1, ConsumerHead
<1>33. CASE VerifyDone
  BY <1>33, <1>t DEF VerifyDone, Goto, handshake, counters, slots, family
<1>34. CASE VerifyFails
  BY <1>34, <1>t DEF VerifyFails, Goto, counters, slots, family
<1>35. CASE FreeSlot
  BY <1>35, <1>t DEF FreeSlot, Goto, handshake, counters, family
<1>36. CASE ReleaseSlot
  BY <1>36, <1>t DEF ReleaseSlot, Goto, handshake, counters, family
<1>37. CASE CountCompleted
  <2>1. /\ pc[C] = "count" /\ pc' = [pc EXCEPT ![C] = LoopHead(C, ticket[C] + 1)]
        /\ ticket' = [ticket EXCEPT ![C] = @ + 1] /\ UNCHANGED <<error, failAfter>>
    BY <1>37 DEF CountCompleted, Goto, handshake, family
  <2>2. QED
    BY <1>t, <1>f, <2>1, ConsumerHead
<1>38. CASE StartBoth
  BY <1>38, <1>t DEF StartBoth, counters, slots
<1>39. CASE ReadinessTimesOut
  BY <1>39, <1>t DEF ReadinessTimesOut, handshake, counters, slots
<1>40. CASE ReapProducer
  BY <1>40, <1>t DEF ReapProducer, handshake, counters, slots
<1>41. CASE ReapConsumer
  BY <1>41, <1>t DEF ReapConsumer, handshake, counters, slots
<1>42. CASE UNCHANGED vars
  BY <1>42, <1>t DEF vars, handshake, counters, slots, family
<1>43. QED
  BY <1>1, <1>2, <1>3, <1>4, <1>5, <1>6, <1>7, <1>8, <1>9, <1>10, <1>11, <1>12,
      <1>13, <1>14, <1>15, <1>16, <1>17, <1>18, <1>19, <1>20, <1>21, <1>22, <1>23,
      <1>24, <1>25, <1>26, <1>27, <1>28, <1>29, <1>30, <1>31, <1>32, <1>33, <1>34,
      <1>35, <1>36, <1>37, <1>38, <1>39, <1>40, <1>41, <1>42
  DEF Next, ProducerStep, ConsumerStep, ParentStep, ChildStep, Reclaim, Finished

LEMMA VerdictsStep ==
  TypeOK /\ Verdicts /\ [Next]_vars => Verdicts'
<1> SUFFICES ASSUME TypeOK, Verdicts, [Next]_vars PROVE Verdicts'
  OBVIOUS
<1>1. ASSUME NEW p \in Children, InitSucceeds(p) PROVE Verdicts'
  BY <1>1 DEF InitSucceeds, Goto, Verdicts, NormalSuccess, FaultSuccess, TypeOK,
      FamilyOK, counters, slots, family
<1>2. ASSUME NEW p \in Children, InitFails(p) PROVE Verdicts'
  BY <1>2 DEF InitFails, Verdicts, NormalSuccess, FaultSuccess, TypeOK, FamilyOK,
      counters, slots
<1>3. ASSUME NEW p \in Children, InitThrows(p) PROVE Verdicts'
  BY <1>3 DEF InitThrows, Goto, Verdicts, NormalSuccess, FaultSuccess, TypeOK,
      FamilyOK, counters, slots, family
<1>4. ASSUME NEW p \in Children, SetAlive(p) PROVE Verdicts'
  BY <1>4 DEF SetAlive, Goto, Verdicts, NormalSuccess, FaultSuccess, TypeOK,
      FamilyOK, counters, slots, family
<1>5. ASSUME NEW p \in Children, SeeStart(p) PROVE Verdicts'
  BY <1>5 DEF SeeStart, LoopHead, Goto, Verdicts, NormalSuccess, FaultSuccess,
      TypeOK, FamilyOK, counters, slots, family
<1>6. ASSUME NEW p \in Children, MissSlot(p) PROVE Verdicts'
  BY <1>6 DEF MissSlot, Goto, Verdicts, NormalSuccess, FaultSuccess, TypeOK,
      FamilyOK, counters, slots, family
<1>7. ASSUME NEW p \in Children, PollAgain(p) PROVE Verdicts'
  BY <1>7 DEF PollAgain, Goto, Verdicts, NormalSuccess, FaultSuccess, TypeOK,
      FamilyOK, counters, slots, family
<1>8. ASSUME NEW p \in Children, ClearAlive(p) PROVE Verdicts'
  BY <1>8 DEF ClearAlive, Goto, Verdicts, NormalSuccess, FaultSuccess, TypeOK,
      FamilyOK, counters, slots, family
<1>9. ASSUME NEW p \in Children, Exit(p) PROVE Verdicts'
  BY <1>9 DEF Exit, Verdicts, NormalSuccess, FaultSuccess, TypeOK, FamilyOK,
      counters, slots
<1>10. ASSUME NEW p \in Children, WaitTimesOut(p) PROVE Verdicts'
  BY <1>10 DEF WaitTimesOut, Goto, Verdicts, NormalSuccess, FaultSuccess, TypeOK,
      FamilyOK, slots, family
<1>11. ASSUME NEW p \in Children, Crash(p) PROVE Verdicts'
  BY <1>11 DEF Crash, Verdicts, NormalSuccess, FaultSuccess, TypeOK, FamilyOK,
      counters, slots
<1>12. CASE SeeConsumerDead
  BY <1>12 DEF SeeConsumerDead, Goto, Verdicts, NormalSuccess, FaultSuccess, TypeOK,
      FamilyOK, slots, family
<1>13. CASE ReclaimAgain
  BY <1>13 DEF ReclaimAgain, BeginPass, Goto, Verdicts, NormalSuccess, FaultSuccess,
      TypeOK, FamilyOK, counters, slots, family
<1>14. CASE ReclaimLast
  BY <1>14 DEF ReclaimLast, BeginPass, Goto, Verdicts, NormalSuccess, FaultSuccess,
      TypeOK, FamilyOK, counters, slots, family
<1>15. CASE ScanSkip
  BY <1>15 DEF ScanSkip, Goto, Verdicts, NormalSuccess, FaultSuccess, TypeOK,
      FamilyOK, counters, slots, family
<1>16. CASE ScanSelect
  BY <1>16 DEF ScanSelect, Goto, Verdicts, NormalSuccess, FaultSuccess, TypeOK,
      FamilyOK, counters, slots, family
<1>17. CASE CasAborted
  BY <1>17 DEF CasAborted, Goto, Verdicts, NormalSuccess, FaultSuccess, TypeOK,
      FamilyOK, counters, family
<1>18. CASE CasLost
  BY <1>18 DEF CasLost, Goto, Verdicts, NormalSuccess, FaultSuccess, TypeOK,
      FamilyOK, counters, slots, family
<1>19. CASE ReclaimSlot
  BY <1>19 DEF ReclaimSlot, Goto, Verdicts, NormalSuccess, FaultSuccess, TypeOK,
      FamilyOK, counters, family
<1>20. CASE EndPass
  BY <1>20 DEF EndPass, Goto, Verdicts, NormalSuccess, FaultSuccess, TypeOK,
      FamilyOK, counters, slots, family
<1>21. CASE ReclaimDeadline
  BY <1>21 DEF ReclaimDeadline, BeginPass, Goto, Verdicts, NormalSuccess,
      FaultSuccess, TypeOK, FamilyOK, counters, slots, family
<1>22. CASE ClaimFree
  BY <1>22 DEF ClaimFree, Goto, Verdicts, NormalSuccess, FaultSuccess, TypeOK,
      FamilyOK, counters, family
<1>23. CASE WriteDone
  BY <1>23 DEF WriteDone, Goto, Verdicts, NormalSuccess, FaultSuccess, TypeOK,
      FamilyOK, counters, family
<1>24. CASE WriteFails
  BY <1>24 DEF WriteFails, Goto, Verdicts, NormalSuccess, FaultSuccess, TypeOK,
      FamilyOK, counters, slots, family
<1>25. CASE MarkReady
  BY <1>25 DEF MarkReady, Goto, Verdicts, NormalSuccess, FaultSuccess, TypeOK,
      FamilyOK, counters, family
<1>26. CASE Publish
  BY <1>26 DEF Publish, Goto, Verdicts, NormalSuccess, FaultSuccess, TypeOK,
      FamilyOK, counters, family
<1>27. CASE CountPublished
  BY <1>27 DEF CountPublished, LoopHead, Goto, Verdicts, NormalSuccess,
      FaultSuccess, TypeOK, FamilyOK, slots, family
<1>28. CASE InjectFault
  BY <1>28 DEF InjectFault, Goto, Verdicts, NormalSuccess, FaultSuccess, TypeOK,
      FamilyOK, counters, slots, family
<1>29. CASE SeeProducerDead
  BY <1>29 DEF SeeProducerDead, Goto, Verdicts, NormalSuccess, FaultSuccess, TypeOK,
      FamilyOK, slots, family
<1>30. CASE SeeReady
  BY <1>30 DEF SeeReady, Goto, Verdicts, NormalSuccess, FaultSuccess, TypeOK,
      FamilyOK, counters, slots, family
<1>31. CASE CasConsuming
  BY <1>31 DEF CasConsuming, Goto, Verdicts, NormalSuccess, FaultSuccess, TypeOK,
      FamilyOK, counters, family
<1>32. CASE CasConsumingLost
  BY <1>32 DEF CasConsumingLost, LoopHead, Goto, Verdicts, NormalSuccess,
      FaultSuccess, TypeOK, FamilyOK, counters, slots, family
<1>33. CASE VerifyDone
  BY <1>33 DEF VerifyDone, Goto, Verdicts, NormalSuccess, FaultSuccess, TypeOK,
      FamilyOK, counters, slots, family
<1>34. CASE VerifyFails
  BY <1>34 DEF VerifyFails, Goto, Verdicts, NormalSuccess, FaultSuccess, TypeOK,
      FamilyOK, counters, slots, family
<1>35. CASE FreeSlot
  BY <1>35 DEF FreeSlot, Goto, Verdicts, NormalSuccess, FaultSuccess, TypeOK,
      FamilyOK, counters, family
<1>36. CASE ReleaseSlot
  BY <1>36 DEF ReleaseSlot, Goto, Verdicts, NormalSuccess, FaultSuccess, TypeOK,
      FamilyOK, counters, family
<1>37. CASE CountCompleted
  BY <1>37 DEF CountCompleted, LoopHead, Goto, Verdicts, NormalSuccess,
      FaultSuccess, TypeOK, FamilyOK, slots, family
<1>38. CASE StartBoth
  BY <1>38 DEF StartBoth, Verdicts, NormalSuccess, FaultSuccess, TypeOK, FamilyOK,
      counters, slots
<1>39. CASE ReadinessTimesOut
  <2>1. \A p \in Children :
          status'[p] = IF status[p] = Running THEN 143 ELSE status[p]
    BY <1>39 DEF ReadinessTimesOut
  <2>2. parent' = "done" /\ verdict' = "readiness timed out"
    BY <1>39 DEF ReadinessTimesOut
  <2>3. ASSUME NEW p \in Children PROVE status'[p] # Running
    <3>1. CASE status[p] = Running
      BY <2>1, <3>1
    <3>2. CASE status[p] # Running
      BY <2>1, <3>2
    <3>3. QED
      BY <3>1, <3>2
  <2>4. QED
    BY <2>2, <2>3 DEF Verdicts
<1>40. CASE ReapProducer
  BY <1>40 DEF ReapProducer, Verdicts, NormalSuccess, FaultSuccess, TypeOK,
      FamilyOK, counters, slots
<1>41. CASE ReapConsumer
  BY <1>41 DEF ReapConsumer, Verdicts, NormalSuccess, FaultSuccess, TypeOK,
      FamilyOK, counters, slots
<1>42. CASE UNCHANGED vars
  BY <1>42 DEF vars, Verdicts, NormalSuccess, FaultSuccess, TypeOK, FamilyOK,
      counters, slots, family
<1>43. QED
  BY <1>1, <1>2, <1>3, <1>4, <1>5, <1>6, <1>7, <1>8, <1>9, <1>10, <1>11, <1>12,
      <1>13, <1>14, <1>15, <1>16, <1>17, <1>18, <1>19, <1>20, <1>21, <1>22, <1>23,
      <1>24, <1>25, <1>26, <1>27, <1>28, <1>29, <1>30, <1>31, <1>32, <1>33, <1>34,
      <1>35, <1>36, <1>37, <1>38, <1>39, <1>40, <1>41, <1>42
  DEF Next, ProducerStep, ConsumerStep, ParentStep, ChildStep, Reclaim, Finished

\* What the reclaim pass is about to abort is a published ticket that the consumer
\* has not released and that was not written off before.
LEMMA AbortTarget ==
  ASSUME TypeOK, RingInv, Reclaiming, StatesFit, CasAborted
  PROVE  /\ scan.index \in SlotIds
         /\ owner[scan.index] \in Released .. Sent - 1
         /\ owner[scan.index] < ticket[P]
         /\ Slot(owner[scan.index]) = scan.index
         /\ state[scan.index] \in {kReady, kConsuming}
         /\ owner[scan.index] \notin reclaimed
<1>1. /\ pc[P] = "cas" /\ state[scan.index] = scan.seen
  BY DEF CasAborted, Goto
<1>2. scan.index \in SlotIds /\ Slot(owner[scan.index]) = scan.index
      /\ owner[scan.index] < ticket[P]
  BY <1>1, TouchedSlots DEF RingInv, SlotInHand
<1>3. state[scan.index] \in {kReady, kConsuming}
  BY <1>1 DEF Reclaiming, TypeOK, ControlOK
<1>4. Sent \in Nat /\ Released \in Nat
  BY DEF Sent, Released, One, TypeOK, ControlOK
<1>5. PICK t \in Released .. Released + kRingSlots - 1 : Slot(t) = scan.index
  BY <1>2, <1>4, SlotDistinct
<1>6. t < Sent
  BY <1>1, <1>3, <1>4, <1>5 DEF StatesFit
<1>7. owner[scan.index] = t
  BY <1>5, <1>6 DEF RingInv, SlotContents, Holds
<1>8. owner[scan.index] \notin reclaimed
  BY <1>2, <1>3, <1>4, <1>5, <1>7 DEF StatesFit, WrittenOff
<1>9. QED
  BY <1>2, <1>3, <1>4, <1>5, <1>6, <1>7, <1>8

LEMMA StatesFitStep ==
  TypeOK /\ RingInv /\ Reclaiming /\ StatesFit /\ [Next]_vars => StatesFit'
<1> SUFFICES ASSUME TypeOK, RingInv, Reclaiming, StatesFit, [Next]_vars
             PROVE  StatesFit'
  OBVIOUS
<1>t. /\ pc \in [Children -> ProducerPcs \cup ConsumerPcs]
      /\ ticket \in [Children -> 0 .. Requests]
      /\ state \in [SlotIds -> {kFree, kReady, kConsuming, kAborted}]
      /\ Sent \in Nat /\ Released \in Nat /\ ticket[P] \in Nat /\ ticket[C] \in Nat
  BY DEF TypeOK, ControlOK, SlotsOK, Sent, Released, One
<1>p. Released <= Sent /\ Sent <= Released + kRingSlots
  BY DEF RingInv, Positions
<1>w. ASSUME NEW t \in Nat PROVE Slot(t) \in SlotIds
  BY SlotInRange
<1>o. \A t \in WrittenOff : t \in Nat /\ t < ticket[P] /\ t < Sent
  <2>1. \A t \in reclaimed : t \in Nat /\ t < ticket[P]
    BY DEF Reclaiming, TypeOK, HeaderOK, Tickets
  <2>2. pc[P] = "abort" => owner[scan.index] \in Nat /\ owner[scan.index] < ticket[P]
    BY TouchedSlots DEF RingInv, SlotInHand, Tickets
  <2>3. ticket[P] <= Sent
    BY <1>t DEF Sent, One
  <2>4. QED
    BY <1>t, <2>1, <2>2, <2>3 DEF WrittenOff
<1>1. CASE /\ UNCHANGED <<state, Sent, Released, ticket, WrittenOff>>
           /\ pc'[P] = "publish" <=> pc[P] = "publish"
           /\ pc'[C] = "release" <=> pc[C] = "release"
  BY <1>1 DEF StatesFit
<1>2. CASE MarkReady
  <2>1. /\ pc[P] = "mark" /\ pc' = [pc EXCEPT ![P] = "publish"]
        /\ state' = [state EXCEPT ![Slot(ticket[P])] = kReady]
        /\ UNCHANGED <<ticket, reclaimed>>
    BY <1>2 DEF MarkReady, Goto
  <2>2. Sent = ticket[P] /\ Sent' = Sent /\ Released' = Released
    BY <1>t, <2>1 DEF Sent, Released, One
  <2>3. Sent < Released + kRingSlots
    BY <2>1 DEF RingInv, Positions
  <2>4. reclaimed = {} /\ WrittenOff' = {}
    BY <1>t, <2>1 DEF Reclaiming, Leaving, WrittenOff
  <2>5. ASSUME NEW t \in Released .. Released + kRingSlots - 1, t # ticket[P]
        PROVE  state'[Slot(t)] = state[Slot(t)]
    <3>1. t \in Nat /\ Slot(t) # Slot(ticket[P])
      BY <1>t, <1>p, <2>2, <2>3, <2>5, SlotDistinct
    <3>2. QED
      BY <1>t, <2>1, <3>1, SlotInRange
  <2>6. pc[C] = "release" => ticket[C] = Released /\ ticket[C] < ticket[P]
    BY <1>t, <2>2 DEF RingInv, Positions, Released, One
  <2>7. \A t \in Released .. Released + kRingSlots - 1 :
          t >= Sent => state'[Slot(t)] = kFree \/ t = ticket[P]
    BY <1>t, <2>1, <2>5 DEF StatesFit
  <2>8. pc[C] = "release" => state'[Slot(ticket[C])] = kFree
    BY <1>t, <2>5, <2>6 DEF StatesFit
  <2>9. QED
    BY <1>t, <2>1, <2>2, <2>4, <2>7, <2>8 DEF StatesFit
<1>3. CASE Publish
  <2>1. /\ pc[P] = "publish" /\ pc' = [pc EXCEPT ![P] = "count"]
        /\ UNCHANGED <<state, ticket, reclaimed>>
    BY <1>3 DEF Publish, Goto, slots
  <2>2. Sent = ticket[P] /\ Sent' = Sent + 1 /\ Released' = Released
    BY <1>t, <2>1 DEF Sent, Released, One
  <2>3. WrittenOff' = WrittenOff
    BY <1>t, <2>1 DEF WrittenOff
  <2>4. QED
    BY <1>t, <2>1, <2>2, <2>3 DEF StatesFit
<1>4. CASE CountPublished
  <2>1. /\ pc[P] = "count" /\ pc' = [pc EXCEPT ![P] = LoopHead(P, ticket[P] + 1)]
        /\ LoopHead(P, ticket[P] + 1) \in {"finish", "wait"}
        /\ ticket' = [ticket EXCEPT ![P] = ticket[P] + 1]
        /\ UNCHANGED <<state, reclaimed>>
    BY <1>4 DEF CountPublished, Goto, LoopHead, slots
  <2>2. Sent' = Sent /\ Released' = Released
    BY <1>t, <2>1 DEF Sent, Released, One
  <2>3. WrittenOff' = WrittenOff
    BY <1>t, <2>1 DEF WrittenOff
  <2>4. QED
    BY <1>t, <2>1, <2>2, <2>3 DEF StatesFit
<1>5. CASE CasAborted
  <2> DEFINE i == scan.index
  <2>1. /\ pc[P] = "cas" /\ pc' = [pc EXCEPT ![P] = "abort"]
        /\ state' = [state EXCEPT ![i] = kAborted]
        /\ UNCHANGED <<ticket, reclaimed, owner, scan>>
    BY <1>5 DEF CasAborted, Goto
  <2>2. /\ i \in SlotIds /\ owner[i] \in Released .. Sent - 1 /\ Slot(owner[i]) = i
        /\ state[i] # kFree
    BY <1>5, AbortTarget
  <2>3. Sent' = Sent /\ Released' = Released
    BY <1>t, <2>1 DEF Sent, Released, One
  <2>4. WrittenOff' = reclaimed \cup {owner[i]} /\ reclaimed \subseteq WrittenOff
    BY <1>t, <2>1 DEF WrittenOff
  <2>5. \A t \in Nat : state[Slot(t)] = kFree => state'[Slot(t)] = kFree \/ Slot(t) = i
    BY <1>t, <2>1, <2>2, SlotInRange
  <2>6. \A t \in Nat : state[Slot(t)] = kFree => Slot(t) # i
    BY <2>2
  <2>7. \A t \in WrittenOff' : t >= Released => state'[Slot(t)] \in {kFree, kAborted}
    <3>1. state'[Slot(owner[i])] = kAborted
      BY <1>t, <2>1, <2>2
    <3>2. ASSUME NEW t \in reclaimed, t >= Released
          PROVE  state'[Slot(t)] \in {kFree, kAborted}
      <4>1. t \in Nat /\ state[Slot(t)] \in {kFree, kAborted}
        BY <1>o, <2>4, <3>2 DEF StatesFit
      <4>2. Slot(t) \in SlotIds
        BY <4>1, SlotInRange
      <4>3. QED
        BY <1>t, <2>1, <4>1, <4>2
    <3>3. QED
      BY <2>4, <3>1, <3>2
  <2>8. \A t \in Released .. Released + kRingSlots - 1 :
          t >= Sent => state'[Slot(t)] = kFree
    BY <1>t, <2>1, <2>5, <2>6 DEF StatesFit
  <2>9. pc[C] = "release" => state'[Slot(ticket[C])] = kFree
    BY <1>t, <2>5, <2>6 DEF StatesFit
  <2>10. QED
    BY <1>t, <2>1, <2>3, <2>7, <2>8, <2>9 DEF StatesFit
<1>6. CASE ReclaimSlot
  <2> DEFINE i == scan.index
  <2>1. /\ pc[P] = "abort" /\ pc' = [pc EXCEPT ![P] = "scan"]
        /\ state' = [state EXCEPT ![i] = kFree]
        /\ reclaimed' = reclaimed \cup {owner[i]}
        /\ UNCHANGED ticket
    BY <1>6 DEF ReclaimSlot, Goto
  <2>2. Sent' = Sent /\ Released' = Released
    BY <1>t, <2>1 DEF Sent, Released, One
  <2>3. WrittenOff' = WrittenOff
    BY <1>t, <2>1 DEF WrittenOff
  <2>4. \A t \in Nat : state'[Slot(t)] \in {kFree, state[Slot(t)]}
    BY <1>t, <2>1, SlotInRange
  <2>5. QED
    BY <1>t, <1>o, <2>1, <2>2, <2>3, <2>4 DEF StatesFit
<1>7. CASE CasConsuming
  <2>1. /\ pc[C] = "claim" /\ pc' = [pc EXCEPT ![C] = "verify"]
        /\ state[Slot(ticket[C])] = kReady
        /\ state' = [state EXCEPT ![Slot(ticket[C])] = kConsuming]
        /\ UNCHANGED <<ticket, reclaimed, owner, scan>>
    BY <1>7 DEF CasConsuming, Goto
  <2>2. Sent' = Sent /\ Released' = Released /\ Released = ticket[C] /\ ticket[C] < Sent
    BY <1>t, <2>1 DEF Sent, Released, One, RingInv, Positions
  <2>3. WrittenOff' = WrittenOff
    BY <1>t, <2>1 DEF WrittenOff
  <2>4. ASSUME NEW t \in Nat, t > Released, t < Released + kRingSlots
        PROVE  state'[Slot(t)] = state[Slot(t)]
    <3>1. Slot(t) # Slot(ticket[C])
      BY <1>t, <2>2, <2>4, SlotDistinct
    <3>2. QED
      BY <1>t, <2>1, <3>1, SlotInRange
  <2>5. \A t \in Released .. Released + kRingSlots - 1 :
          t >= Sent => state'[Slot(t)] = kFree \/ (t = ticket[P] /\ pc[P] = "publish")
    BY <1>t, <2>2, <2>4 DEF StatesFit
  <2>6. ASSUME NEW t \in WrittenOff, t >= Released
        PROVE  state'[Slot(t)] \in {kFree, kAborted}
    <3>1. t \in Nat /\ t < Sent /\ state[Slot(t)] \in {kFree, kAborted}
      BY <1>o, <2>6 DEF StatesFit
    <3>2. t # Released
      BY <2>1, <2>2, <3>1
    <3>3. QED
      BY <1>t, <1>p, <2>4, <2>6, <3>1, <3>2
  <2>7. QED
    BY <1>t, <2>1, <2>2, <2>3, <2>5, <2>6 DEF StatesFit
<1>8. CASE FreeSlot
  <2>1. /\ pc[C] = "free" /\ pc' = [pc EXCEPT ![C] = "release"]
        /\ state' = [state EXCEPT ![Slot(ticket[C])] = kFree]
        /\ UNCHANGED <<ticket, reclaimed, owner, scan>>
    BY <1>8 DEF FreeSlot, Goto
  <2>2. Sent' = Sent /\ Released' = Released
    BY <1>t, <2>1 DEF Sent, Released, One
  <2>3. WrittenOff' = WrittenOff
    BY <1>t, <2>1 DEF WrittenOff
  <2>4. \A t \in Nat : state'[Slot(t)] \in {kFree, state[Slot(t)]}
    BY <1>t, <2>1, SlotInRange
  <2>5. state'[Slot(ticket[C])] = kFree
    BY <1>t, <2>1, SlotInRange
  <2>6. QED
    BY <1>t, <1>o, <2>1, <2>2, <2>3, <2>4, <2>5 DEF StatesFit
<1>9. CASE ReleaseSlot
  <2>1. /\ pc[C] = "release" /\ pc' = [pc EXCEPT ![C] = "count"]
        /\ UNCHANGED <<state, ticket, reclaimed, owner, scan>>
    BY <1>9 DEF ReleaseSlot, Goto
  <2>2. Sent' = Sent /\ Released' = Released + 1 /\ Released = ticket[C]
    BY <1>t, <2>1 DEF Sent, Released, One
  <2>3. WrittenOff' = WrittenOff
    BY <1>t, <2>1 DEF WrittenOff
  <2>4. state[Slot(Released + kRingSlots)] = kFree
    BY <1>t, <2>1, <2>2, SlotDistinct DEF StatesFit
  <2>5. \A t \in Released + 1 .. Released + kRingSlots :
          t = Released + kRingSlots \/ t \in Released .. Released + kRingSlots - 1
    BY <1>t
  <2>6. QED
    BY <1>t, <1>o, <2>1, <2>2, <2>3, <2>4, <2>5 DEF StatesFit
<1>10. CASE CountCompleted
  <2>1. /\ pc[C] = "count" /\ pc' = [pc EXCEPT ![C] = LoopHead(C, ticket[C] + 1)]
        /\ LoopHead(C, ticket[C] + 1) \in {"finish", "fault", "wait"}
        /\ ticket' = [ticket EXCEPT ![C] = ticket[C] + 1]
        /\ UNCHANGED <<state, reclaimed, owner, scan>>
    BY <1>10 DEF CountCompleted, Goto, LoopHead, slots
  <2>2. Sent' = Sent /\ Released' = Released
    BY <1>t, <2>1 DEF Sent, Released, One
  <2>3. WrittenOff' = WrittenOff
    BY <1>t, <2>1 DEF WrittenOff
  <2>4. QED
    BY <1>t, <2>1, <2>2, <2>3 DEF StatesFit
<1>11. QED
  BY <1>1, <1>2, <1>3, <1>4, <1>5, <1>6, <1>7, <1>8, <1>9, <1>10, Frames

\* Counters, positions, slots, events and exit codes fit together in every state.
THEOREM VerdictInvariant == Spec => [](TypeOK /\ RingInv /\ VerdictInv)
<1>1. Init => TypeOK /\ RingInv /\ VerdictInv
  BY TypeInit, RingInit, VerdictInit
<1>2. TypeOK /\ RingInv /\ VerdictInv /\ [Next]_vars
        => (TypeOK /\ RingInv /\ VerdictInv)'
  BY HeaderStep, SlotsStep, ControlStep, FamilyStep, PositionsStep, ContentsStep,
     InHandStep, CountedStep, ReclaimingStep, RecordedStep, StatesFitStep,
     LeavesStep, FaultPointStep, VerdictsStep
  DEF TypeOK, RingInv, VerdictInv
<1>3. QED
  BY <1>1, <1>2, PTL DEF Spec, Safety

\* The parent says "ok" only of a run that delivered every ticket and left every
\* slot free for its next one.
THEOREM OkDelivered == Spec => []OkMeansDelivered
<1>1. TypeOK /\ RingInv /\ VerdictInv => OkMeansDelivered
  <2> SUFFICES ASSUME TypeOK, RingInv, VerdictInv, verdict = "ok"
               PROVE  /\ \A t \in Tickets : event[t] = kDone
                      /\ reclaimed = {}
                      /\ \A i \in SlotIds : state[i] = kFree /\ sequence[i] >= Requests
    BY DEF OkMeansDelivered
  <2>1. /\ \A p \in Children : status[p] = 0
        /\ ticket[P] = Requests /\ ticket[C] = Requests
    BY DEF VerdictInv, Verdicts, NormalSuccess, Counted
  <2>2. pc[P] = "unmap" /\ pc[C] = "unmap"
    BY <2>1 DEF VerdictInv, Leaves
  <2>3. reclaimed = {}
    BY <2>1 DEF VerdictInv, Reclaiming
  <2>4. \A t \in Tickets : event[t] = kDone
    BY <2>1, <2>3 DEF VerdictInv, Recorded, Verified, Tickets
  <2>5. Sent = Requests /\ Released = Requests
    BY <2>1, <2>2 DEF Sent, Released, One
  <2>6. ASSUME NEW i \in SlotIds PROVE state[i] = kFree /\ sequence[i] >= Requests
    <3>1. PICK t \in Requests .. Requests + kRingSlots - 1 : Slot(t) = i
      BY SlotDistinct
    <3>2. t >= Sent /\ ~(t < Sent) /\ t \in Released .. Released + kRingSlots - 1
      BY <2>5, <3>1
    <3>3. state[i] = kFree
      BY <2>2, <3>1, <3>2 DEF VerdictInv, StatesFit
    <3>4. sequence[i] = t
      BY <3>1, <3>2 DEF RingInv, SlotContents, Holds
    <3>5. QED
      BY <3>1, <3>3, <3>4
  <2>7. QED
    BY <2>3, <2>4, <2>6
<1>2. QED
  BY <1>1, VerdictInvariant, PTL

\* The parent says "fault-ok" only of a run whose consumer handled exactly the
\* tickets before the fault, none after, and whose producer wrote off published ones.
THEOREM FaultOkRecovered == Spec => []FaultOkMeansRecovered
<1>1. TypeOK /\ RingInv /\ VerdictInv => FaultOkMeansRecovered
  <2> SUFFICES ASSUME TypeOK, RingInv, VerdictInv, verdict = "fault-ok"
               PROVE  /\ completed = failAfter
                      /\ \A t \in 0 .. failAfter - 1 : event[t] = kDone \/ t \in reclaimed
                      /\ \A t \in failAfter .. Requests - 1 : event[t] # kDone
                      /\ reclaimed # {} /\ reclaimed \subseteq 0 .. published - 1
                      /\ published - completed \in 0 .. kRingSlots
    BY DEF FaultOkMeansRecovered
  <2>1. status[P] = 0 /\ status[C] = kFaultExit /\ reclaimed # {}
    BY DEF VerdictInv, Verdicts, FaultSuccess
  <2>2. /\ pc[P] = "unmap" /\ pc[C] = "unmap"
        /\ failAfter >= 0 /\ ticket[C] = failAfter
    BY <2>1 DEF VerdictInv, Leaves, FaultPoint
  <2>3. published = ticket[P] /\ completed = ticket[C]
    BY DEF VerdictInv, Counted
  <2>4. ticket[P] \in Nat /\ ticket[C] \in Nat /\ ticket[C] <= Requests
    BY DEF TypeOK, ControlOK
  <2>5. \A t \in Tickets : Verified(t) <=> t < failAfter
    BY <2>2 DEF Verified, Finishing
  <2>6. \A t \in 0 .. failAfter - 1 : event[t] = kDone \/ t \in reclaimed
    BY <2>2, <2>4, <2>5 DEF VerdictInv, Recorded, Tickets
  <2>7. \A t \in failAfter .. Requests - 1 : event[t] # kDone
    BY <2>2, <2>4, <2>5 DEF VerdictInv, Recorded, Tickets
  <2>8. reclaimed \subseteq 0 .. published - 1
    BY <2>3, <2>4 DEF VerdictInv, Reclaiming, TypeOK, HeaderOK, Tickets
  <2>9. published - completed \in 0 .. kRingSlots
    BY <2>2, <2>3, <2>4 DEF RingInv, Positions, Sent, Released, One
  <2>10. QED
    BY <2>1, <2>2, <2>3, <2>6, <2>7, <2>8, <2>9
<1>2. QED
  BY <1>1, VerdictInvariant, PTL

(***************************************************************************)
(* Refinement: every step of the ring is a step of the hand-off, or none.  *)
(***************************************************************************)

taken == ticket[C] + One(Holding)

\* Which steps the abstract hand-off may see at all.
LEMMA HandoffFrames ==
  TypeOK /\ [Next]_vars =>
    \/ UNCHANGED <<Sent, Released, taken, WrittenOff, error[C]>>
    \/ Publish \/ CountPublished \/ CasAborted \/ ReclaimSlot
    \/ CasConsuming \/ ReleaseSlot \/ CountCompleted
    \/ VerifyFails \/ InjectFault \/ InitFails(C) \/ InitThrows(C)
<1> DEFINE Goal ==
    \/ UNCHANGED <<Sent, Released, taken, WrittenOff, error[C]>>
    \/ Publish \/ CountPublished \/ CasAborted \/ ReclaimSlot
    \/ CasConsuming \/ ReleaseSlot \/ CountCompleted
    \/ VerifyFails \/ InjectFault \/ InitFails(C) \/ InitThrows(C)
<1> SUFFICES ASSUME TypeOK, [Next]_vars PROVE Goal
  OBVIOUS
<1>t. /\ pc \in [Children -> ProducerPcs \cup ConsumerPcs]
      /\ ticket \in [Children -> 0 .. Requests]
      /\ error \in [Children -> {0, 1, kFaultExit}]
  BY DEF TypeOK, ControlOK, HeaderOK
<1>1. ASSUME NEW p \in Children, InitSucceeds(p) PROVE Goal
  BY <1>1, <1>t DEF InitSucceeds, Goto, counters, slots, Sent, Released, One, taken,
      Holding, WrittenOff
<1>2. ASSUME NEW p \in Children, InitFails(p) PROVE Goal
  BY <1>2, <1>t DEF InitFails, counters, slots, Sent, Released, One, taken, Holding,
      WrittenOff
<1>3. ASSUME NEW p \in Children, InitThrows(p) PROVE Goal
  BY <1>3, <1>t DEF InitThrows, Goto, counters, slots, Sent, Released, One, taken,
      Holding, WrittenOff
<1>4. ASSUME NEW p \in Children, SetAlive(p) PROVE Goal
  BY <1>4, <1>t DEF SetAlive, Goto, counters, slots, Sent, Released, One, taken,
      Holding, WrittenOff
<1>5. ASSUME NEW p \in Children, SeeStart(p) PROVE Goal
  BY <1>5, <1>t DEF SeeStart, LoopHead, Goto, handshake, counters, slots, Sent,
      Released, One, taken, Holding, WrittenOff
<1>6. ASSUME NEW p \in Children, MissSlot(p) PROVE Goal
  BY <1>6, <1>t DEF MissSlot, Goto, handshake, counters, slots, Sent, Released, One,
      taken, Holding, WrittenOff
<1>7. ASSUME NEW p \in Children, PollAgain(p) PROVE Goal
  BY <1>7, <1>t DEF PollAgain, Goto, handshake, counters, slots, Sent, Released,
      One, taken, Holding, WrittenOff
<1>8. ASSUME NEW p \in Children, ClearAlive(p) PROVE Goal
  BY <1>8, <1>t DEF ClearAlive, Goto, counters, slots, Sent, Released, One, taken,
      Holding, WrittenOff
<1>9. ASSUME NEW p \in Children, Exit(p) PROVE Goal
  BY <1>9, <1>t DEF Exit, handshake, counters, slots, Sent, Released, One, taken,
      Holding, WrittenOff
<1>10. ASSUME NEW p \in Children, WaitTimesOut(p) PROVE Goal
  BY <1>10, <1>t DEF WaitTimesOut, Goto, handshake, slots, Sent, Released, One,
      taken, Holding, WrittenOff
<1>11. ASSUME NEW p \in Children, Crash(p) PROVE Goal
  BY <1>11, <1>t DEF Crash, handshake, counters, slots, Sent, Released, One, taken,
      Holding, WrittenOff
<1>12. CASE SeeConsumerDead
  BY <1>12, <1>t DEF SeeConsumerDead, Goto, handshake, slots, Sent, Released, One,
      taken, Holding, WrittenOff
<1>13. CASE ReclaimAgain
  BY <1>13, <1>t DEF ReclaimAgain, BeginPass, Goto, handshake, counters, slots,
      Sent, Released, One, taken, Holding, WrittenOff
<1>14. CASE ReclaimLast
  BY <1>14, <1>t DEF ReclaimLast, BeginPass, Goto, handshake, counters, slots, Sent,
      Released, One, taken, Holding, WrittenOff
<1>15. CASE ScanSkip
  BY <1>15, <1>t DEF ScanSkip, Goto, handshake, counters, slots, Sent, Released,
      One, taken, Holding, WrittenOff
<1>16. CASE ScanSelect
  BY <1>16, <1>t DEF ScanSelect, Goto, handshake, counters, slots, Sent, Released,
      One, taken, Holding, WrittenOff
<1>17. CASE CasAborted
  BY <1>17
<1>18. CASE CasLost
  BY <1>18, <1>t DEF CasLost, Goto, handshake, counters, slots, Sent, Released, One,
      taken, Holding, WrittenOff
<1>19. CASE ReclaimSlot
  BY <1>19
<1>20. CASE EndPass
  BY <1>20, <1>t DEF EndPass, Goto, handshake, counters, slots, Sent, Released, One,
      taken, Holding, WrittenOff
<1>21. CASE ReclaimDeadline
  BY <1>21, <1>t DEF ReclaimDeadline, BeginPass, Goto, handshake, counters, slots,
      Sent, Released, One, taken, Holding, WrittenOff
<1>22. CASE ClaimFree
  BY <1>22, <1>t DEF ClaimFree, Goto, handshake, counters, Sent, Released, One,
      taken, Holding, WrittenOff
<1>23. CASE WriteDone
  BY <1>23, <1>t DEF WriteDone, Goto, handshake, counters, Sent, Released, One,
      taken, Holding, WrittenOff
<1>24. CASE WriteFails
  BY <1>24, <1>t DEF WriteFails, Goto, counters, slots, Sent, Released, One, taken,
      Holding, WrittenOff
<1>25. CASE MarkReady
  BY <1>25, <1>t DEF MarkReady, Goto, handshake, counters, Sent, Released, One,
      taken, Holding, WrittenOff
<1>26. CASE Publish
  BY <1>26
<1>27. CASE CountPublished
  BY <1>27
<1>28. CASE InjectFault
  BY <1>28
<1>29. CASE SeeProducerDead
  BY <1>29, <1>t DEF SeeProducerDead, Goto, handshake, slots, Sent, Released, One,
      taken, Holding, WrittenOff
<1>30. CASE SeeReady
  BY <1>30, <1>t DEF SeeReady, Goto, handshake, counters, slots, Sent, Released,
      One, taken, Holding, WrittenOff
<1>31. CASE CasConsuming
  BY <1>31
<1>32. CASE CasConsumingLost
  BY <1>32, <1>t DEF CasConsumingLost, LoopHead, Goto, handshake, counters, slots,
      Sent, Released, One, taken, Holding, WrittenOff
<1>33. CASE VerifyDone
  BY <1>33, <1>t DEF VerifyDone, Goto, handshake, counters, slots, Sent, Released,
      One, taken, Holding, WrittenOff
<1>34. CASE VerifyFails
  BY <1>34
<1>35. CASE FreeSlot
  BY <1>35, <1>t DEF FreeSlot, Goto, handshake, counters, Sent, Released, One,
      taken, Holding, WrittenOff
<1>36. CASE ReleaseSlot
  BY <1>36
<1>37. CASE CountCompleted
  BY <1>37
<1>38. CASE StartBoth
  BY <1>38, <1>t DEF StartBoth, counters, slots, Sent, Released, One, taken,
      Holding, WrittenOff
<1>39. CASE ReadinessTimesOut
  BY <1>39, <1>t DEF ReadinessTimesOut, handshake, counters, slots, Sent, Released,
      One, taken, Holding, WrittenOff
<1>40. CASE ReapProducer
  BY <1>40, <1>t DEF ReapProducer, handshake, counters, slots, Sent, Released, One,
      taken, Holding, WrittenOff
<1>41. CASE ReapConsumer
  BY <1>41, <1>t DEF ReapConsumer, handshake, counters, slots, Sent, Released, One,
      taken, Holding, WrittenOff
<1>42. CASE UNCHANGED vars
  BY <1>42, <1>t DEF vars, handshake, counters, slots, Sent, Released, One, taken,
      Holding, WrittenOff
<1> HIDE DEF Goal
<1>43. QED
  BY <1>1, <1>2, <1>3, <1>4, <1>5, <1>6, <1>7, <1>8, <1>9, <1>10, <1>11, <1>12,
      <1>13, <1>14, <1>15, <1>16, <1>17, <1>18, <1>19, <1>20, <1>21, <1>22, <1>23,
      <1>24, <1>25, <1>26, <1>27, <1>28, <1>29, <1>30, <1>31, <1>32, <1>33, <1>34,
      <1>35, <1>36, <1>37, <1>38, <1>39, <1>40, <1>41, <1>42
  DEF Next, ProducerStep, ConsumerStep, ParentStep, ChildStep, Reclaim, Finished

\* What the refinement mapping makes of the sides that take part.
Open == {s \in {"sender", "receiver"} :
           IF s = "sender" THEN WrittenOff = {} ELSE error[C] = 0}

LEMMA HandoffStep ==
  TypeOK /\ RingInv /\ VerdictInv /\ [Next]_vars => [Handoff!Next]_(Handoff!vars)
<1> DEFINE Goal == Handoff!Next \/ UNCHANGED <<taken, Sent, Released, WrittenOff, Open>>
<1> SUFFICES ASSUME TypeOK, RingInv, VerdictInv, [Next]_vars PROVE Goal
  BY DEF Handoff!vars, taken, Open
<1> USE DEF VerdictInv
<1>t. /\ pc \in [Children -> ProducerPcs \cup ConsumerPcs]
      /\ ticket \in [Children -> 0 .. Requests]
      /\ error \in [Children -> {0, 1, kFaultExit}]
      /\ Sent \in Nat /\ Released \in Nat /\ ticket[P] \in Nat /\ ticket[C] \in Nat
  BY DEF TypeOK, ControlOK, HeaderOK, Sent, Released, One
<1>e. ASSUME error[C] # 0, status[C] = Running PROVE pc[C] \in {"finish", "unmap"}
  BY <1>e DEF Leaves
<1>1. CASE UNCHANGED <<Sent, Released, taken, WrittenOff, error[C]>>
  BY <1>1 DEF Open
<1>2. CASE Publish
  <2>1. /\ pc[P] = "publish" /\ pc' = [pc EXCEPT ![P] = "count"]
        /\ UNCHANGED <<ticket, reclaimed, error>>
    BY <1>2 DEF Publish, Goto, handshake
  <2>2. /\ Sent' = Sent + 1 /\ Released' = Released /\ taken' = taken
        /\ Sent - Released < kRingSlots
    BY <1>t, <2>1 DEF Sent, Released, taken, Holding, One, RingInv, Positions
  <2>3. WrittenOff = {} /\ WrittenOff' = {}
    BY <1>t, <2>1 DEF WrittenOff, Reclaiming, Leaving
  <2>4. "sender" \in Open /\ Open' = Open
    BY <2>1, <2>3 DEF Open
  <2>5. Handoff!Send
    BY <2>2, <2>3, <2>4 DEF Handoff!Send, Open, taken
  <2>6. QED
    BY <2>5 DEF Handoff!Next
<1>3. CASE CountPublished
  <2>1. /\ pc[P] = "count" /\ pc' = [pc EXCEPT ![P] = LoopHead(P, ticket[P] + 1)]
        /\ LoopHead(P, ticket[P] + 1) \in {"finish", "wait"}
        /\ ticket' = [ticket EXCEPT ![P] = ticket[P] + 1]
        /\ UNCHANGED <<reclaimed, error>>
    BY <1>3 DEF CountPublished, Goto, LoopHead, handshake
  <2>2. UNCHANGED <<Sent, Released, taken, WrittenOff, Open>>
    BY <1>t, <2>1 DEF Sent, Released, taken, Holding, One, WrittenOff, Open
  <2>3. QED
    BY <2>2
<1>4. CASE CasAborted
  <2> DEFINE o == owner[scan.index]
  <2>1. /\ pc[P] = "cas" /\ pc' = [pc EXCEPT ![P] = "abort"]
        /\ UNCHANGED <<ticket, reclaimed, owner, scan, error>>
    BY <1>4 DEF CasAborted, Goto, handshake
  <2>2. o \in Released .. Sent - 1 /\ o \notin reclaimed
    BY <1>4, AbortTarget
  <2>3. UNCHANGED <<Sent, Released, taken>>
    BY <1>t, <2>1 DEF Sent, Released, taken, Holding, One
  <2>4. WrittenOff = reclaimed /\ WrittenOff' = WrittenOff \cup {o}
    BY <1>t, <2>1 DEF WrittenOff
  <2>5. Open' = Open \ {"sender"}
    <3>1. WrittenOff' # {}
      BY <2>4
    <3>2. QED
      BY <2>1, <3>1 DEF Open
  <2>6. Handoff!WriteOff
    BY <2>2, <2>3, <2>4, <2>5 DEF Handoff!WriteOff, Open, taken
  <2>7. QED
    BY <2>6 DEF Handoff!Next
<1>5. CASE ReclaimSlot
  <2>1. /\ pc[P] = "abort" /\ pc' = [pc EXCEPT ![P] = "scan"]
        /\ reclaimed' = reclaimed \cup {owner[scan.index]}
        /\ UNCHANGED <<ticket, error>>
    BY <1>5 DEF ReclaimSlot, Goto, handshake
  <2>2. UNCHANGED <<Sent, Released, taken, WrittenOff>>
    BY <1>t, <2>1 DEF Sent, Released, taken, Holding, One, WrittenOff
  <2>3. QED
    BY <2>1, <2>2 DEF Open
<1>6. CASE CasConsuming
  <2>1. /\ pc[C] = "claim" /\ pc' = [pc EXCEPT ![C] = "verify"]
        /\ status[C] = Running
        /\ state[Slot(ticket[C])] = kReady
        /\ UNCHANGED <<ticket, reclaimed, owner, scan, error>>
    BY <1>6 DEF CasConsuming, Goto, handshake
  <2>2. /\ taken = Released /\ taken' = taken + 1 /\ taken = ticket[C]
        /\ UNCHANGED <<Sent, Released>> /\ taken < Sent
    BY <1>t, <2>1 DEF Sent, Released, taken, Holding, One, RingInv, Positions
  <2>3. WrittenOff' = WrittenOff
    BY <1>t, <2>1 DEF WrittenOff
  <2>4. taken \notin WrittenOff
    BY <1>t, <2>1, <2>2 DEF StatesFit
  <2>5. "receiver" \in Open /\ Open' = Open
    BY <1>e, <2>1, <2>3 DEF Open
  <2>6. Handoff!Take
    BY <2>2, <2>3, <2>4, <2>5 DEF Handoff!Take, Open, taken
  <2>7. QED
    BY <2>6 DEF Handoff!Next
<1>7. CASE ReleaseSlot
  <2>1. /\ pc[C] = "release" /\ pc' = [pc EXCEPT ![C] = "count"]
        /\ status[C] = Running
        /\ UNCHANGED <<ticket, reclaimed, owner, scan, error>>
    BY <1>7 DEF ReleaseSlot, Goto, handshake
  <2>2. /\ Released < taken /\ Released' = taken /\ UNCHANGED <<Sent, taken>>
    BY <1>t, <2>1 DEF Sent, Released, taken, Holding, One
  <2>3. WrittenOff' = WrittenOff
    BY <1>t, <2>1 DEF WrittenOff
  <2>4. "receiver" \in Open /\ Open' = Open
    BY <1>e, <2>1, <2>3 DEF Open
  <2>5. Handoff!Finish
    BY <2>2, <2>3, <2>4 DEF Handoff!Finish, Open, taken
  <2>6. QED
    BY <2>5 DEF Handoff!Next
<1>8. CASE CountCompleted
  <2>1. /\ pc[C] = "count" /\ pc' = [pc EXCEPT ![C] = LoopHead(C, ticket[C] + 1)]
        /\ LoopHead(C, ticket[C] + 1) \in {"finish", "fault", "wait"}
        /\ ticket' = [ticket EXCEPT ![C] = ticket[C] + 1]
        /\ UNCHANGED <<reclaimed, owner, scan, error>>
    BY <1>8 DEF CountCompleted, Goto, LoopHead, handshake, slots
  <2>2. UNCHANGED <<Sent, Released, taken, WrittenOff, Open>>
    BY <1>t, <2>1 DEF Sent, Released, taken, Holding, One, WrittenOff, Open
  <2>3. QED
    BY <2>2
<1>9. ASSUME /\ status[C] = Running /\ pc[C] \in {"init", "verify", "fault"}
             /\ pc'[P] = pc[P]
             /\ pc'[C] \notin {"verify", "free", "release", "count"}
             /\ error' = [error EXCEPT ![C] = error'[C]] /\ error'[C] # 0
             /\ UNCHANGED <<ticket, reclaimed, owner, scan>>
      PROVE  Goal
  <2>1. /\ taken' = Released /\ UNCHANGED <<Sent, Released>>
    BY <1>t, <1>9 DEF Sent, Released, taken, Holding, One
  <2>2. WrittenOff' = WrittenOff
    BY <1>t, <1>9 DEF WrittenOff
  <2>3. "receiver" \in Open /\ Open' = Open \ {"receiver"}
    BY <1>e, <1>9, <2>2 DEF Open
  <2>4. Handoff!Quit
    BY <2>1, <2>2, <2>3 DEF Handoff!Quit, Open, taken
  <2>5. QED
    BY <2>4 DEF Handoff!Next
<1>10. CASE VerifyFails
  BY <1>t, <1>9, <1>10 DEF VerifyFails, Goto, slots
<1>11. CASE InjectFault
  BY <1>t, <1>9, <1>11 DEF InjectFault, Goto, slots
<1>12. CASE InitFails(C)
  BY <1>t, <1>9, <1>12 DEF InitFails, slots
<1>13. CASE InitThrows(C)
  BY <1>t, <1>9, <1>13 DEF InitThrows, Goto, slots
<1> HIDE DEF Goal
<1>14. QED
  BY <1>1, <1>2, <1>3, <1>4, <1>5, <1>6, <1>7, <1>8, <1>10, <1>11, <1>12, <1>13,
     HandoffFrames

\* The ring is a hand-off: in order, each ticket claimed at most once, never more
\* than three in flight, none claimed after it was written off, and nothing sent
\* after the first write-off.
THEOREM RingIsHandoff == Spec => ImplementsHandoff
<1>1. Init => Handoff!Init
  BY DEF Init, Handoff!Init, Sent, Released, Holding, One, WrittenOff
<1>2. TypeOK /\ RingInv /\ VerdictInv /\ [Next]_vars => [Handoff!Next]_(Handoff!vars)
  BY HandoffStep
<1>3. QED
  BY <1>1, <1>2, VerdictInvariant, PTL
  DEF Spec, Safety, ImplementsHandoff, Handoff!Spec

=============================================================================
