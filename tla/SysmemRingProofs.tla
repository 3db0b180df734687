-------------------------- MODULE SysmemRingProofs --------------------------
(***************************************************************************)
(* Proofs about the ring, for every number of requests and every fault     *)
(* point, with device failures and crashes allowed or not.                 *)
(***************************************************************************)
EXTENDS SysmemRing, TLAPS

USE RingAssumption
USE DEF P, C, Children, kRingSlots, kFree, kReady, kConsuming, kDone, kAborted,
        kFaultExit, Torn, Running

(***************************************************************************)
(* Type correctness.                                                       *)
(***************************************************************************)

LEMMA SlotInRange == \A t \in Nat : Slot(t) \in SlotIds
BY DEF Slot, SlotIds

LEMMA TypeInit == Init => TypeOK
<1> SUFFICES ASSUME Init PROVE TypeOK
  OBVIOUS
<1>1. HeaderOK
  BY DEF Init, HeaderOK, Tickets
<1>2. SlotsOK
  BY DEF Init, SlotsOK, SlotIds, Tickets
<1>3. ControlOK
  BY DEF Init, ControlOK, ProducerPcs, ConsumerPcs, ChildPcs
<1>4. FamilyOK
  BY DEF Init, FamilyOK, ExitStatuses
<1>5. QED
  BY <1>1, <1>2, <1>3, <1>4 DEF TypeOK

\* The slots the two sides and the reclaim pass touch exist.
LEMMA TouchedSlots ==
  ASSUME TypeOK, Positions, SlotInHand
  PROVE  /\ \A p \in Children : Slot(ticket[p]) \in SlotIds
         /\ \A p \in Children :
              pc[p] \in {"wait", "write", "mark", "publish", "count", "claim",
                        "verify", "free", "release"} => ticket[p] \in Tickets
         /\ pc[P] \in {"cas", "abort"} =>
              scan.index \in SlotIds /\ owner[scan.index] \in Tickets
<1>1. \A p \in Children : ticket[p] \in Nat
  BY DEF TypeOK, ControlOK
<1>2. QED
  BY <1>1, SlotInRange, SMTT(30)
  DEF TypeOK, ControlOK, SlotsOK, Positions, SlotInHand, SlotIds, Tickets

LEMMA HeaderStep == TypeOK /\ Positions /\ SlotInHand /\ [Next]_vars => HeaderOK'
<1> SUFFICES ASSUME TypeOK, Positions, SlotInHand, [Next]_vars PROVE HeaderOK'
  OBVIOUS
<1>s. ASSUME UNCHANGED <<handshake, counters, reclaimed>> PROVE HeaderOK'
  BY <1>s DEF TypeOK, HeaderOK, handshake, counters
<1>1. ASSUME NEW p \in Children, InitSucceeds(p) PROVE HeaderOK'
  BY <1>1 DEF InitSucceeds, TypeOK, HeaderOK, Goto, handshake, counters
<1>2. ASSUME NEW p \in Children, InitFails(p) PROVE HeaderOK'
  BY <1>2 DEF InitFails, TypeOK, HeaderOK, Goto, handshake, counters
<1>3. ASSUME NEW p \in Children, InitThrows(p) PROVE HeaderOK'
  BY <1>3 DEF InitThrows, TypeOK, HeaderOK, Goto, handshake, counters
<1>4. ASSUME NEW p \in Children, SetAlive(p) PROVE HeaderOK'
  BY <1>4 DEF SetAlive, TypeOK, HeaderOK, Goto, handshake, counters
<1>5. ASSUME NEW p \in Children, SeeStart(p) PROVE HeaderOK'
  BY <1>5, <1>s DEF SeeStart, Goto
<1>6. ASSUME NEW p \in Children, MissSlot(p) PROVE HeaderOK'
  BY <1>6, <1>s DEF MissSlot, Goto
<1>7. ASSUME NEW p \in Children, PollAgain(p) PROVE HeaderOK'
  BY <1>7, <1>s DEF PollAgain, Goto
<1>8. ASSUME NEW p \in Children, ClearAlive(p) PROVE HeaderOK'
  BY <1>8 DEF ClearAlive, TypeOK, HeaderOK, Goto, handshake, counters
<1>9. ASSUME NEW p \in Children, Exit(p) PROVE HeaderOK'
  BY <1>9, <1>s DEF Exit, Goto
<1>10. ASSUME NEW p \in Children, WaitTimesOut(p) PROVE HeaderOK'
  BY <1>10 DEF WaitTimesOut, TypeOK, HeaderOK, Goto, handshake, counters
<1>11. ASSUME NEW p \in Children, Crash(p) PROVE HeaderOK'
  BY <1>11, <1>s DEF Crash, Goto
<1>12. CASE SeeConsumerDead
  BY <1>12 DEF SeeConsumerDead, TypeOK, HeaderOK, Goto, handshake, counters
<1>13. CASE ReclaimAgain
  BY <1>13, <1>s DEF ReclaimAgain, Goto, BeginPass
<1>14. CASE ReclaimLast
  BY <1>14, <1>s DEF ReclaimLast, Goto, BeginPass
<1>15. CASE ScanSkip
  BY <1>15, <1>s DEF ScanSkip, Goto
<1>16. CASE ScanSelect
  BY <1>16, <1>s DEF ScanSelect, Goto
<1>17. CASE CasAborted
  BY <1>17, <1>s DEF CasAborted, Goto
<1>18. CASE CasLost
  BY <1>18, <1>s DEF CasLost, Goto
<1>19. CASE ReclaimSlot
  BY <1>19, TouchedSlots DEF ReclaimSlot, TypeOK, HeaderOK, Goto, handshake, counters
<1>20. CASE EndPass
  BY <1>20, <1>s DEF EndPass, Goto
<1>21. CASE ReclaimDeadline
  BY <1>21, <1>s DEF ReclaimDeadline, Goto, BeginPass
<1>22. CASE ClaimFree
  BY <1>22, <1>s DEF ClaimFree, Goto
<1>23. CASE WriteDone
  BY <1>23, <1>s DEF WriteDone, Goto
<1>24. CASE WriteFails
  BY <1>24 DEF WriteFails, TypeOK, HeaderOK, Goto, handshake, counters
<1>25. CASE MarkReady
  BY <1>25, <1>s DEF MarkReady, Goto
<1>26. CASE Publish
  BY <1>26, <1>s DEF Publish, Goto
<1>27. CASE CountPublished
  BY <1>27 DEF CountPublished, TypeOK, HeaderOK, Goto, handshake, counters
<1>28. CASE InjectFault
  BY <1>28 DEF InjectFault, TypeOK, HeaderOK, Goto, handshake, counters
<1>29. CASE SeeProducerDead
  BY <1>29 DEF SeeProducerDead, TypeOK, HeaderOK, Goto, handshake, counters
<1>30. CASE SeeReady
  BY <1>30, <1>s DEF SeeReady, Goto
<1>31. CASE CasConsuming
  BY <1>31, <1>s DEF CasConsuming, Goto
<1>32. CASE CasConsumingLost
  BY <1>32, <1>s DEF CasConsumingLost, Goto
<1>33. CASE VerifyDone
  BY <1>33, <1>s DEF VerifyDone, Goto
<1>34. CASE VerifyFails
  BY <1>34 DEF VerifyFails, TypeOK, HeaderOK, Goto, handshake, counters
<1>35. CASE FreeSlot
  BY <1>35, <1>s DEF FreeSlot, Goto
<1>36. CASE ReleaseSlot
  BY <1>36, <1>s DEF ReleaseSlot, Goto
<1>37. CASE CountCompleted
  BY <1>37 DEF CountCompleted, TypeOK, HeaderOK, Goto, handshake, counters
<1>38. CASE StartBoth
  BY <1>38 DEF StartBoth, TypeOK, HeaderOK, Goto, handshake, counters
<1>39. CASE ReadinessTimesOut
  BY <1>39, <1>s DEF ReadinessTimesOut, Goto
<1>40. CASE ReapProducer
  BY <1>40, <1>s DEF ReapProducer, Goto
<1>41. CASE ReapConsumer
  BY <1>41, <1>s DEF ReapConsumer, Goto
<1>42. CASE UNCHANGED vars
  BY <1>42, <1>s DEF vars
<1>43. QED
  BY <1>1, <1>2, <1>3, <1>4, <1>5, <1>6, <1>7, <1>8, <1>9, <1>10, <1>11, <1>12, <1>13, <1>14, <1>15, <1>16, <1>17, <1>18, <1>19, <1>20, <1>21, <1>22, <1>23, <1>24, <1>25, <1>26, <1>27, <1>28, <1>29, <1>30, <1>31, <1>32, <1>33, <1>34, <1>35, <1>36, <1>37, <1>38, <1>39, <1>40, <1>41, <1>42
  DEF Next, ProducerStep, ConsumerStep, ParentStep, ChildStep, Reclaim, Finished

LEMMA SlotsStep == TypeOK /\ Positions /\ SlotInHand /\ [Next]_vars => SlotsOK'
<1> SUFFICES ASSUME TypeOK, Positions, SlotInHand, [Next]_vars PROVE SlotsOK'
  OBVIOUS
<1>s. ASSUME UNCHANGED <<slots, event>> PROVE SlotsOK'
  BY <1>s DEF TypeOK, SlotsOK, slots
<1>1. ASSUME NEW p \in Children, InitSucceeds(p) PROVE SlotsOK'
  BY <1>1, <1>s DEF InitSucceeds, Goto
<1>2. ASSUME NEW p \in Children, InitFails(p) PROVE SlotsOK'
  BY <1>2, <1>s DEF InitFails, Goto
<1>3. ASSUME NEW p \in Children, InitThrows(p) PROVE SlotsOK'
  BY <1>3, <1>s DEF InitThrows, Goto
<1>4. ASSUME NEW p \in Children, SetAlive(p) PROVE SlotsOK'
  BY <1>4, <1>s DEF SetAlive, Goto
<1>5. ASSUME NEW p \in Children, SeeStart(p) PROVE SlotsOK'
  BY <1>5, <1>s DEF SeeStart, Goto
<1>6. ASSUME NEW p \in Children, MissSlot(p) PROVE SlotsOK'
  BY <1>6, <1>s DEF MissSlot, Goto
<1>7. ASSUME NEW p \in Children, PollAgain(p) PROVE SlotsOK'
  BY <1>7, <1>s DEF PollAgain, Goto
<1>8. ASSUME NEW p \in Children, ClearAlive(p) PROVE SlotsOK'
  BY <1>8, <1>s DEF ClearAlive, Goto
<1>9. ASSUME NEW p \in Children, Exit(p) PROVE SlotsOK'
  BY <1>9, <1>s DEF Exit, Goto
<1>10. ASSUME NEW p \in Children, WaitTimesOut(p) PROVE SlotsOK'
  BY <1>10, <1>s DEF WaitTimesOut, Goto
<1>11. ASSUME NEW p \in Children, Crash(p) PROVE SlotsOK'
  BY <1>11, <1>s DEF Crash, Goto
<1>12. CASE SeeConsumerDead
  BY <1>12, <1>s DEF SeeConsumerDead, Goto
<1>13. CASE ReclaimAgain
  BY <1>13, <1>s DEF ReclaimAgain, Goto, BeginPass
<1>14. CASE ReclaimLast
  BY <1>14, <1>s DEF ReclaimLast, Goto, BeginPass
<1>15. CASE ScanSkip
  BY <1>15, <1>s DEF ScanSkip, Goto
<1>16. CASE ScanSelect
  BY <1>16, <1>s DEF ScanSelect, Goto
<1>17. CASE CasAborted
  BY <1>17, TouchedSlots DEF CasAborted, TypeOK, SlotsOK, Goto, Tickets
<1>18. CASE CasLost
  BY <1>18, <1>s DEF CasLost, Goto
<1>19. CASE ReclaimSlot
  <2>1. scan.index \in SlotIds /\ owner[scan.index] \in Tickets
    BY <1>19, TouchedSlots DEF ReclaimSlot, Goto
  <2>2. owner[scan.index] + kRingSlots \in Nat
    BY <2>1 DEF Tickets
  <2>3. QED
    BY <1>19, <2>1, <2>2 DEF ReclaimSlot, TypeOK, SlotsOK
<1>20. CASE EndPass
  BY <1>20, <1>s DEF EndPass, Goto
<1>21. CASE ReclaimDeadline
  BY <1>21, <1>s DEF ReclaimDeadline, Goto, BeginPass
<1>22. CASE ClaimFree
  BY <1>22, TouchedSlots DEF ClaimFree, TypeOK, SlotsOK, Goto, Tickets
<1>23. CASE WriteDone
  BY <1>23, TouchedSlots DEF WriteDone, TypeOK, SlotsOK, Goto, Tickets
<1>24. CASE WriteFails
  BY <1>24, <1>s DEF WriteFails, Goto
<1>25. CASE MarkReady
  BY <1>25, TouchedSlots DEF MarkReady, TypeOK, SlotsOK, Goto, Tickets
<1>26. CASE Publish
  BY <1>26, TouchedSlots DEF Publish, TypeOK, SlotsOK, Goto, Tickets
<1>27. CASE CountPublished
  BY <1>27, <1>s DEF CountPublished, Goto
<1>28. CASE InjectFault
  BY <1>28, <1>s DEF InjectFault, Goto
<1>29. CASE SeeProducerDead
  BY <1>29, <1>s DEF SeeProducerDead, Goto
<1>30. CASE SeeReady
  BY <1>30, <1>s DEF SeeReady, Goto
<1>31. CASE CasConsuming
  BY <1>31, TouchedSlots DEF CasConsuming, TypeOK, SlotsOK, Goto, Tickets
<1>32. CASE CasConsumingLost
  BY <1>32, <1>s DEF CasConsumingLost, Goto
<1>33. CASE VerifyDone
  <2>1. ticket[C] \in Tickets
    BY <1>33, TouchedSlots DEF VerifyDone, Goto
  <2>2. QED
    BY <1>33, <2>1 DEF VerifyDone, slots, TypeOK, SlotsOK
<1>34. CASE VerifyFails
  <2>1. ticket[C] \in Tickets
    BY <1>34, TouchedSlots DEF VerifyFails, Goto
  <2>2. QED
    BY <1>34, <2>1 DEF VerifyFails, slots, TypeOK, SlotsOK
<1>35. CASE FreeSlot
  BY <1>35, TouchedSlots DEF FreeSlot, TypeOK, SlotsOK, Goto, Tickets
<1>36. CASE ReleaseSlot
  <2>1. ticket[C] \in Tickets
    BY <1>36, TouchedSlots DEF ReleaseSlot, Goto
  <2>2. sequence' \in [SlotIds -> Nat]
    <3>1. sequence' = [sequence EXCEPT ![Slot(ticket[C])] = ticket[C] + kRingSlots]
      BY <1>36 DEF ReleaseSlot
    <3>2. sequence \in [SlotIds -> Nat]
      BY DEF TypeOK, SlotsOK
    <3>3. ticket[C] + kRingSlots \in Nat
      BY <2>1 DEF Tickets
    <3>4. QED
      BY <3>1, <3>2, <3>3
  <2>3. UNCHANGED <<state, owner, payload, event>>
    BY <1>36 DEF ReleaseSlot
  <2>4. QED
    BY <2>2, <2>3 DEF TypeOK, SlotsOK
<1>37. CASE CountCompleted
  BY <1>37, <1>s DEF CountCompleted, Goto
<1>38. CASE StartBoth
  BY <1>38, <1>s DEF StartBoth, Goto
<1>39. CASE ReadinessTimesOut
  BY <1>39, <1>s DEF ReadinessTimesOut, Goto
<1>40. CASE ReapProducer
  BY <1>40, <1>s DEF ReapProducer, Goto
<1>41. CASE ReapConsumer
  BY <1>41, <1>s DEF ReapConsumer, Goto
<1>42. CASE UNCHANGED vars
  BY <1>42, <1>s DEF vars
<1>43. QED
  BY <1>1, <1>2, <1>3, <1>4, <1>5, <1>6, <1>7, <1>8, <1>9, <1>10, <1>11, <1>12, <1>13, <1>14, <1>15, <1>16, <1>17, <1>18, <1>19, <1>20, <1>21, <1>22, <1>23, <1>24, <1>25, <1>26, <1>27, <1>28, <1>29, <1>30, <1>31, <1>32, <1>33, <1>34, <1>35, <1>36, <1>37, <1>38, <1>39, <1>40, <1>41, <1>42
  DEF Next, ProducerStep, ConsumerStep, ParentStep, ChildStep, Reclaim, Finished

LEMMA ControlStep == TypeOK /\ Positions /\ SlotInHand /\ [Next]_vars => ControlOK'
<1> SUFFICES ASSUME TypeOK, Positions, SlotInHand, [Next]_vars PROVE ControlOK'
  OBVIOUS
<1>s. ASSUME UNCHANGED <<pc, ticket, scan>> PROVE ControlOK'
  BY <1>s DEF TypeOK, ControlOK
<1>1. ASSUME NEW p \in Children, InitSucceeds(p) PROVE ControlOK'
  BY <1>1 DEF InitSucceeds, TypeOK, ControlOK, Goto, ProducerPcs, ConsumerPcs, ChildPcs
<1>2. ASSUME NEW p \in Children, InitFails(p) PROVE ControlOK'
  BY <1>2, <1>s DEF InitFails, Goto
<1>3. ASSUME NEW p \in Children, InitThrows(p) PROVE ControlOK'
  BY <1>3 DEF InitThrows, TypeOK, ControlOK, Goto, ProducerPcs, ConsumerPcs, ChildPcs
<1>4. ASSUME NEW p \in Children, SetAlive(p) PROVE ControlOK'
  BY <1>4 DEF SetAlive, TypeOK, ControlOK, Goto, ProducerPcs, ConsumerPcs, ChildPcs
<1>5. ASSUME NEW p \in Children, SeeStart(p) PROVE ControlOK'
  BY <1>5 DEF SeeStart, TypeOK, ControlOK, Goto, ProducerPcs, ConsumerPcs, ChildPcs, LoopHead
<1>6. ASSUME NEW p \in Children, MissSlot(p) PROVE ControlOK'
  BY <1>6 DEF MissSlot, TypeOK, ControlOK, Goto, ProducerPcs, ConsumerPcs, ChildPcs
<1>7. ASSUME NEW p \in Children, PollAgain(p) PROVE ControlOK'
  BY <1>7 DEF PollAgain, TypeOK, ControlOK, Goto, ProducerPcs, ConsumerPcs, ChildPcs
<1>8. ASSUME NEW p \in Children, ClearAlive(p) PROVE ControlOK'
  BY <1>8 DEF ClearAlive, TypeOK, ControlOK, Goto, ProducerPcs, ConsumerPcs, ChildPcs
<1>9. ASSUME NEW p \in Children, Exit(p) PROVE ControlOK'
  BY <1>9, <1>s DEF Exit, Goto
<1>10. ASSUME NEW p \in Children, WaitTimesOut(p) PROVE ControlOK'
  BY <1>10 DEF WaitTimesOut, TypeOK, ControlOK, Goto, ProducerPcs, ConsumerPcs, ChildPcs
<1>11. ASSUME NEW p \in Children, Crash(p) PROVE ControlOK'
  BY <1>11, <1>s DEF Crash, Goto
<1>12. CASE SeeConsumerDead
  BY <1>12 DEF SeeConsumerDead, TypeOK, ControlOK, Goto, ProducerPcs, ConsumerPcs, ChildPcs
<1>13. CASE ReclaimAgain
  <2>1. PICK young \in scan.young .. ticket[P] :
             scan' = [index |-> 0, young |-> young, last |-> FALSE, seen |-> scan.seen]
    BY <1>13 DEF ReclaimAgain, BeginPass
  <2>2. young \in 0 .. Requests /\ scan.seen \in {kFree, kReady, kConsuming}
    BY <2>1 DEF TypeOK, ControlOK
  <2>3. scan' \in [index : 0 .. kRingSlots, young : 0 .. Requests,
                  last : BOOLEAN, seen : {kFree, kReady, kConsuming}]
    BY <2>1, <2>2
  <2>4. QED
    BY <1>13, <2>3 DEF ReclaimAgain, BeginPass, Goto, TypeOK, ControlOK, ProducerPcs,
                    ConsumerPcs, ChildPcs
<1>14. CASE ReclaimLast
  <2>1. PICK young \in scan.young .. ticket[P] :
             scan' = [index |-> 0, young |-> young, last |-> TRUE, seen |-> scan.seen]
    BY <1>14 DEF ReclaimLast, BeginPass
  <2>2. young \in 0 .. Requests /\ scan.seen \in {kFree, kReady, kConsuming}
    BY <2>1 DEF TypeOK, ControlOK
  <2>3. scan' \in [index : 0 .. kRingSlots, young : 0 .. Requests,
                  last : BOOLEAN, seen : {kFree, kReady, kConsuming}]
    BY <2>1, <2>2
  <2>4. QED
    BY <1>14, <2>3 DEF ReclaimLast, BeginPass, Goto, TypeOK, ControlOK, ProducerPcs,
                    ConsumerPcs, ChildPcs
<1>15. CASE ScanSkip
  BY <1>15 DEF ScanSkip, TypeOK, ControlOK, Goto, ProducerPcs, ConsumerPcs, ChildPcs
<1>16. CASE ScanSelect
  BY <1>16 DEF ScanSelect, TypeOK, ControlOK, Goto, ProducerPcs, ConsumerPcs, ChildPcs, Reclaimable, SlotsOK, SlotIds
<1>17. CASE CasAborted
  BY <1>17 DEF CasAborted, TypeOK, ControlOK, Goto, ProducerPcs, ConsumerPcs, ChildPcs
<1>18. CASE CasLost
  <2>1. scan.index + 1 \in 0 .. kRingSlots
    BY <1>18 DEF CasLost, Goto, SlotInHand, TypeOK, ControlOK
  <2>2. scan' \in [index : 0 .. kRingSlots, young : 0 .. Requests,
                  last : BOOLEAN, seen : {kFree, kReady, kConsuming}]
    BY <1>18, <2>1 DEF CasLost, TypeOK, ControlOK
  <2>3. QED
    BY <1>18, <2>2 DEF CasLost, Goto, TypeOK, ControlOK, ProducerPcs, ConsumerPcs,
                    ChildPcs
<1>19. CASE ReclaimSlot
  <2>1. scan.index + 1 \in 0 .. kRingSlots
    BY <1>19 DEF ReclaimSlot, Goto, SlotInHand, TypeOK, ControlOK
  <2>2. scan' \in [index : 0 .. kRingSlots, young : 0 .. Requests,
                  last : BOOLEAN, seen : {kFree, kReady, kConsuming}]
    BY <1>19, <2>1 DEF ReclaimSlot, TypeOK, ControlOK
  <2>3. QED
    BY <1>19, <2>2 DEF ReclaimSlot, Goto, TypeOK, ControlOK, ProducerPcs, ConsumerPcs,
                    ChildPcs
<1>20. CASE EndPass
  BY <1>20 DEF EndPass, TypeOK, ControlOK, Goto, ProducerPcs, ConsumerPcs, ChildPcs
<1>21. CASE ReclaimDeadline
  <2>1. PICK young \in {ticket[P]} :
             scan' = [index |-> 0, young |-> young, last |-> TRUE, seen |-> scan.seen]
    BY <1>21 DEF ReclaimDeadline, BeginPass
  <2>2. young \in 0 .. Requests /\ scan.seen \in {kFree, kReady, kConsuming}
    BY <2>1 DEF TypeOK, ControlOK
  <2>3. scan' \in [index : 0 .. kRingSlots, young : 0 .. Requests,
                  last : BOOLEAN, seen : {kFree, kReady, kConsuming}]
    BY <2>1, <2>2
  <2>4. QED
    BY <1>21, <2>3 DEF ReclaimDeadline, BeginPass, Goto, TypeOK, ControlOK, ProducerPcs,
                    ConsumerPcs, ChildPcs
<1>22. CASE ClaimFree
  BY <1>22 DEF ClaimFree, TypeOK, ControlOK, Goto, ProducerPcs, ConsumerPcs, ChildPcs
<1>23. CASE WriteDone
  BY <1>23 DEF WriteDone, TypeOK, ControlOK, Goto, ProducerPcs, ConsumerPcs, ChildPcs
<1>24. CASE WriteFails
  BY <1>24 DEF WriteFails, TypeOK, ControlOK, Goto, ProducerPcs, ConsumerPcs, ChildPcs
<1>25. CASE MarkReady
  BY <1>25 DEF MarkReady, TypeOK, ControlOK, Goto, ProducerPcs, ConsumerPcs, ChildPcs
<1>26. CASE Publish
  BY <1>26 DEF Publish, TypeOK, ControlOK, Goto, ProducerPcs, ConsumerPcs, ChildPcs
<1>27. CASE CountPublished
  BY <1>27 DEF CountPublished, TypeOK, ControlOK, Goto, ProducerPcs, ConsumerPcs, ChildPcs, LoopHead, Positions
<1>28. CASE InjectFault
  BY <1>28 DEF InjectFault, TypeOK, ControlOK, Goto, ProducerPcs, ConsumerPcs, ChildPcs
<1>29. CASE SeeProducerDead
  BY <1>29 DEF SeeProducerDead, TypeOK, ControlOK, Goto, ProducerPcs, ConsumerPcs, ChildPcs
<1>30. CASE SeeReady
  BY <1>30 DEF SeeReady, TypeOK, ControlOK, Goto, ProducerPcs, ConsumerPcs, ChildPcs
<1>31. CASE CasConsuming
  BY <1>31 DEF CasConsuming, TypeOK, ControlOK, Goto, ProducerPcs, ConsumerPcs, ChildPcs
<1>32. CASE CasConsumingLost
  BY <1>32 DEF CasConsumingLost, TypeOK, ControlOK, Goto, ProducerPcs, ConsumerPcs, ChildPcs, LoopHead
<1>33. CASE VerifyDone
  BY <1>33 DEF VerifyDone, TypeOK, ControlOK, Goto, ProducerPcs, ConsumerPcs, ChildPcs
<1>34. CASE VerifyFails
  BY <1>34 DEF VerifyFails, TypeOK, ControlOK, Goto, ProducerPcs, ConsumerPcs, ChildPcs
<1>35. CASE FreeSlot
  BY <1>35 DEF FreeSlot, TypeOK, ControlOK, Goto, ProducerPcs, ConsumerPcs, ChildPcs
<1>36. CASE ReleaseSlot
  BY <1>36 DEF ReleaseSlot, TypeOK, ControlOK, Goto, ProducerPcs, ConsumerPcs, ChildPcs
<1>37. CASE CountCompleted
  BY <1>37 DEF CountCompleted, TypeOK, ControlOK, Goto, ProducerPcs, ConsumerPcs, ChildPcs, LoopHead, Positions
<1>38. CASE StartBoth
  BY <1>38, <1>s DEF StartBoth, Goto
<1>39. CASE ReadinessTimesOut
  BY <1>39, <1>s DEF ReadinessTimesOut, Goto
<1>40. CASE ReapProducer
  BY <1>40, <1>s DEF ReapProducer, Goto
<1>41. CASE ReapConsumer
  BY <1>41, <1>s DEF ReapConsumer, Goto
<1>42. CASE UNCHANGED vars
  BY <1>42, <1>s DEF vars
<1>43. QED
  BY <1>1, <1>2, <1>3, <1>4, <1>5, <1>6, <1>7, <1>8, <1>9, <1>10, <1>11, <1>12, <1>13, <1>14, <1>15, <1>16, <1>17, <1>18, <1>19, <1>20, <1>21, <1>22, <1>23, <1>24, <1>25, <1>26, <1>27, <1>28, <1>29, <1>30, <1>31, <1>32, <1>33, <1>34, <1>35, <1>36, <1>37, <1>38, <1>39, <1>40, <1>41, <1>42
  DEF Next, ProducerStep, ConsumerStep, ParentStep, ChildStep, Reclaim, Finished

LEMMA FamilyStep == TypeOK /\ Positions /\ SlotInHand /\ [Next]_vars => FamilyOK'
<1> SUFFICES ASSUME TypeOK, Positions, SlotInHand, [Next]_vars PROVE FamilyOK'
  OBVIOUS
<1>s. ASSUME UNCHANGED family PROVE FamilyOK'
  BY <1>s DEF TypeOK, FamilyOK, family
<1>1. ASSUME NEW p \in Children, InitSucceeds(p) PROVE FamilyOK'
  BY <1>1, <1>s DEF InitSucceeds, Goto
<1>2. ASSUME NEW p \in Children, InitFails(p) PROVE FamilyOK'
  BY <1>2 DEF InitFails, TypeOK, FamilyOK, ExitStatuses
<1>3. ASSUME NEW p \in Children, InitThrows(p) PROVE FamilyOK'
  BY <1>3, <1>s DEF InitThrows, Goto
<1>4. ASSUME NEW p \in Children, SetAlive(p) PROVE FamilyOK'
  BY <1>4, <1>s DEF SetAlive, Goto
<1>5. ASSUME NEW p \in Children, SeeStart(p) PROVE FamilyOK'
  BY <1>5, <1>s DEF SeeStart, Goto
<1>6. ASSUME NEW p \in Children, MissSlot(p) PROVE FamilyOK'
  BY <1>6, <1>s DEF MissSlot, Goto
<1>7. ASSUME NEW p \in Children, PollAgain(p) PROVE FamilyOK'
  BY <1>7, <1>s DEF PollAgain, Goto
<1>8. ASSUME NEW p \in Children, ClearAlive(p) PROVE FamilyOK'
  BY <1>8, <1>s DEF ClearAlive, Goto
<1>9. ASSUME NEW p \in Children, Exit(p) PROVE FamilyOK'
  <2>1. ExitCodes(p) \subseteq ExitStatuses
    BY DEF ExitCodes, ExitStatuses
  <2>2. QED
    BY <1>9, <2>1 DEF Exit, TypeOK, FamilyOK
<1>10. ASSUME NEW p \in Children, WaitTimesOut(p) PROVE FamilyOK'
  BY <1>10, <1>s DEF WaitTimesOut, Goto
<1>11. ASSUME NEW p \in Children, Crash(p) PROVE FamilyOK'
  BY <1>11 DEF Crash, TypeOK, FamilyOK, ExitStatuses
<1>12. CASE SeeConsumerDead
  BY <1>12, <1>s DEF SeeConsumerDead, Goto
<1>13. CASE ReclaimAgain
  BY <1>13, <1>s DEF ReclaimAgain, Goto, BeginPass
<1>14. CASE ReclaimLast
  BY <1>14, <1>s DEF ReclaimLast, Goto, BeginPass
<1>15. CASE ScanSkip
  BY <1>15, <1>s DEF ScanSkip, Goto
<1>16. CASE ScanSelect
  BY <1>16, <1>s DEF ScanSelect, Goto
<1>17. CASE CasAborted
  BY <1>17, <1>s DEF CasAborted, Goto
<1>18. CASE CasLost
  BY <1>18, <1>s DEF CasLost, Goto
<1>19. CASE ReclaimSlot
  BY <1>19, <1>s DEF ReclaimSlot, Goto
<1>20. CASE EndPass
  BY <1>20, <1>s DEF EndPass, Goto
<1>21. CASE ReclaimDeadline
  BY <1>21, <1>s DEF ReclaimDeadline, Goto, BeginPass
<1>22. CASE ClaimFree
  BY <1>22, <1>s DEF ClaimFree, Goto
<1>23. CASE WriteDone
  BY <1>23, <1>s DEF WriteDone, Goto
<1>24. CASE WriteFails
  BY <1>24, <1>s DEF WriteFails, Goto
<1>25. CASE MarkReady
  BY <1>25, <1>s DEF MarkReady, Goto
<1>26. CASE Publish
  BY <1>26, <1>s DEF Publish, Goto
<1>27. CASE CountPublished
  BY <1>27, <1>s DEF CountPublished, Goto
<1>28. CASE InjectFault
  BY <1>28, <1>s DEF InjectFault, Goto
<1>29. CASE SeeProducerDead
  BY <1>29, <1>s DEF SeeProducerDead, Goto
<1>30. CASE SeeReady
  BY <1>30, <1>s DEF SeeReady, Goto
<1>31. CASE CasConsuming
  BY <1>31, <1>s DEF CasConsuming, Goto
<1>32. CASE CasConsumingLost
  BY <1>32, <1>s DEF CasConsumingLost, Goto
<1>33. CASE VerifyDone
  BY <1>33, <1>s DEF VerifyDone, Goto
<1>34. CASE VerifyFails
  BY <1>34, <1>s DEF VerifyFails, Goto
<1>35. CASE FreeSlot
  BY <1>35, <1>s DEF FreeSlot, Goto
<1>36. CASE ReleaseSlot
  BY <1>36, <1>s DEF ReleaseSlot, Goto
<1>37. CASE CountCompleted
  BY <1>37, <1>s DEF CountCompleted, Goto
<1>38. CASE StartBoth
  BY <1>38 DEF StartBoth, TypeOK, FamilyOK
<1>39. CASE ReadinessTimesOut
  <2>1. status' \in [Children -> ExitStatuses]
    <3>1. status' = [p \in Children |-> IF status[p] = Running THEN 143 ELSE status[p]]
      BY <1>39 DEF ReadinessTimesOut
    <3>2. status \in [Children -> ExitStatuses] /\ 143 \in ExitStatuses
      BY DEF TypeOK, FamilyOK, ExitStatuses
    <3>3. QED
      BY <3>1, <3>2
  <2>2. parent' = "done" /\ verdict' = "readiness timed out" /\ failAfter' = failAfter
    BY <1>39 DEF ReadinessTimesOut
  <2>3. QED
    BY <2>1, <2>2 DEF TypeOK, FamilyOK
<1>40. CASE ReapProducer
  BY <1>40 DEF ReapProducer, TypeOK, FamilyOK
<1>41. CASE ReapConsumer
  BY <1>41 DEF ReapConsumer, TypeOK, FamilyOK
<1>42. CASE UNCHANGED vars
  BY <1>42, <1>s DEF vars
<1>43. QED
  BY <1>1, <1>2, <1>3, <1>4, <1>5, <1>6, <1>7, <1>8, <1>9, <1>10, <1>11, <1>12, <1>13, <1>14, <1>15, <1>16, <1>17, <1>18, <1>19, <1>20, <1>21, <1>22, <1>23, <1>24, <1>25, <1>26, <1>27, <1>28, <1>29, <1>30, <1>31, <1>32, <1>33, <1>34, <1>35, <1>36, <1>37, <1>38, <1>39, <1>40, <1>41, <1>42
  DEF Next, ProducerStep, ConsumerStep, ParentStep, ChildStep, Reclaim, Finished

(***************************************************************************)
(* The sequence protocol.                                                  *)
(***************************************************************************)

LEMMA RingInit == Init => RingInv
<1> SUFFICES ASSUME Init PROVE RingInv
  OBVIOUS
<1>1. Positions
  BY DEF Init, Positions, Sent, Released, One
<1>2. SlotContents
  BY DEF Init, SlotContents, Holds, Sent, Released, One, Slot, SlotIds
<1>3. SlotInHand
  BY DEF Init, SlotInHand, SlotIds
<1>4. QED
  BY <1>1, <1>2, <1>3 DEF RingInv

\* The consumer's slot is published when it is ready for the consumer's ticket,
\* and the producer is within the ring when a slot is free for its ticket.
LEMMA AvailableSlots ==
  ASSUME TypeOK, RingInv
  PROVE  /\ pc[P] = "wait" /\ SlotAvailable(P) => Sent < Released + kRingSlots
         /\ pc[C] = "wait" /\ SlotAvailable(C) => ticket[C] < Sent
<1> USE DEF RingInv
<1> /\ ticket[P] \in Nat /\ ticket[C] \in Nat /\ Sent \in Nat /\ Released \in Nat
  BY DEF TypeOK, ControlOK, Sent, Released, One
<1>1. ASSUME pc[P] = "wait", SlotAvailable(P) PROVE Sent < Released + kRingSlots
  <2> SUFFICES ASSUME Sent = Released + kRingSlots PROVE FALSE
    BY DEF Positions
  <2>1. Sent = ticket[P] /\ ~Leaving
    BY <1>1 DEF Sent, One, Leaving
  <2>2. Slot(ticket[P]) = Slot(Released)
    BY <2>1 DEF Slot
  <2>3. sequence[Slot(Released)] = Released + 1
    BY <2>1 DEF SlotContents, Holds
  <2>4. QED
    BY <1>1, <2>1, <2>2, <2>3 DEF SlotAvailable
<1>2. ASSUME pc[C] = "wait", SlotAvailable(C) PROVE ticket[C] < Sent
  <2>1. Released = ticket[C]
    BY <1>2 DEF Released, One
  <2>2. SUFFICES ASSUME ~(ticket[C] < Sent) PROVE FALSE
    OBVIOUS
  <2>3. sequence[Slot(ticket[C])] = ticket[C]
    BY <2>1, <2>2 DEF SlotContents, Holds
  <2>4. QED
    BY <1>2, <2>3 DEF SlotAvailable
<1>3. QED
  BY <1>1, <1>2

LEMMA PositionsStep == TypeOK /\ RingInv /\ [Next]_vars => Positions'
<1> SUFFICES ASSUME TypeOK, RingInv, [Next]_vars PROVE Positions'
  OBVIOUS
<1> USE DEF RingInv, TypeOK, ControlOK
<1>1. ASSUME NEW p \in Children, InitSucceeds(p) PROVE Positions'
  BY <1>1 DEF InitSucceeds, Goto, Positions, Sent, Released, One
<1>2. ASSUME NEW p \in Children, InitFails(p) PROVE Positions'
  BY <1>2 DEF InitFails, Goto, Positions, Sent, Released, One
<1>3. ASSUME NEW p \in Children, InitThrows(p) PROVE Positions'
  BY <1>3 DEF InitThrows, Goto, Positions, Sent, Released, One
<1>4. ASSUME NEW p \in Children, SetAlive(p) PROVE Positions'
  BY <1>4 DEF SetAlive, Goto, Positions, Sent, Released, One
<1>5. ASSUME NEW p \in Children, SeeStart(p) PROVE Positions'
  BY <1>5 DEF SeeStart, Goto, LoopHead, Positions, Sent, Released, One
<1>6. ASSUME NEW p \in Children, MissSlot(p) PROVE Positions'
  BY <1>6 DEF MissSlot, Goto, Positions, Sent, Released, One
<1>7. ASSUME NEW p \in Children, PollAgain(p) PROVE Positions'
  BY <1>7 DEF PollAgain, Goto, Positions, Sent, Released, One
<1>8. ASSUME NEW p \in Children, ClearAlive(p) PROVE Positions'
  BY <1>8 DEF ClearAlive, Goto, Positions, Sent, Released, One
<1>9. ASSUME NEW p \in Children, Exit(p) PROVE Positions'
  BY <1>9 DEF Exit, Goto, Positions, Sent, Released, One
<1>10. ASSUME NEW p \in Children, WaitTimesOut(p) PROVE Positions'
  BY <1>10 DEF WaitTimesOut, Goto, Positions, Sent, Released, One
<1>11. ASSUME NEW p \in Children, Crash(p) PROVE Positions'
  BY <1>11 DEF Crash, Goto, Positions, Sent, Released, One
<1>12. CASE SeeConsumerDead
  BY <1>12 DEF SeeConsumerDead, Goto, Positions, Sent, Released, One
<1>13. CASE ReclaimAgain
  BY <1>13 DEF ReclaimAgain, BeginPass, Goto, Positions, Sent, Released, One
<1>14. CASE ReclaimLast
  BY <1>14 DEF ReclaimLast, BeginPass, Goto, Positions, Sent, Released, One
<1>15. CASE ScanSkip
  BY <1>15 DEF ScanSkip, Goto, Positions, Sent, Released, One
<1>16. CASE ScanSelect
  BY <1>16 DEF ScanSelect, Goto, Positions, Sent, Released, One
<1>17. CASE CasAborted
  BY <1>17 DEF CasAborted, Goto, Positions, Sent, Released, One
<1>18. CASE CasLost
  BY <1>18 DEF CasLost, Goto, Positions, Sent, Released, One
<1>19. CASE ReclaimSlot
  BY <1>19 DEF ReclaimSlot, Goto, Positions, Sent, Released, One
<1>20. CASE EndPass
  BY <1>20 DEF EndPass, Goto, Positions, Sent, Released, One
<1>21. CASE ReclaimDeadline
  BY <1>21 DEF ReclaimDeadline, BeginPass, Goto, Positions, Sent, Released, One
<1>22. CASE ClaimFree
  BY <1>22, AvailableSlots DEF ClaimFree, Goto, Positions, Sent, Released, One
<1>23. CASE WriteDone
  BY <1>23 DEF WriteDone, Goto, Positions, Sent, Released, One
<1>24. CASE WriteFails
  BY <1>24 DEF WriteFails, Goto, Positions, Sent, Released, One
<1>25. CASE MarkReady
  BY <1>25 DEF MarkReady, Goto, Positions, Sent, Released, One
<1>26. CASE Publish
  BY <1>26 DEF Publish, Goto, Positions, Sent, Released, One
<1>27. CASE CountPublished
  BY <1>27 DEF CountPublished, Goto, LoopHead, Positions, Sent, Released, One
<1>28. CASE InjectFault
  BY <1>28 DEF InjectFault, Goto, Positions, Sent, Released, One
<1>29. CASE SeeProducerDead
  BY <1>29 DEF SeeProducerDead, Goto, Positions, Sent, Released, One
<1>30. CASE SeeReady
  BY <1>30, AvailableSlots DEF SeeReady, Goto, Positions, Sent, Released, One
<1>31. CASE CasConsuming
  BY <1>31 DEF CasConsuming, Goto, Positions, Sent, Released, One
<1>32. CASE CasConsumingLost
  BY <1>32 DEF CasConsumingLost, Goto, LoopHead, Positions, Sent, Released, One
<1>33. CASE VerifyDone
  BY <1>33 DEF VerifyDone, Goto, Positions, Sent, Released, One
<1>34. CASE VerifyFails
  BY <1>34 DEF VerifyFails, Goto, Positions, Sent, Released, One
<1>35. CASE FreeSlot
  BY <1>35 DEF FreeSlot, Goto, Positions, Sent, Released, One
<1>36. CASE ReleaseSlot
  BY <1>36 DEF ReleaseSlot, Goto, Positions, Sent, Released, One
<1>37. CASE CountCompleted
  BY <1>37 DEF CountCompleted, Goto, LoopHead, Positions, Sent, Released, One
<1>38. CASE StartBoth
  BY <1>38 DEF StartBoth, Goto, Positions, Sent, Released, One
<1>39. CASE ReadinessTimesOut
  BY <1>39 DEF ReadinessTimesOut, Goto, Positions, Sent, Released, One
<1>40. CASE ReapProducer
  BY <1>40 DEF ReapProducer, Goto, Positions, Sent, Released, One
<1>41. CASE ReapConsumer
  BY <1>41 DEF ReapConsumer, Goto, Positions, Sent, Released, One
<1>42. CASE UNCHANGED vars
  BY <1>42 DEF vars, Positions, Sent, Released, One
<1>43. QED
  BY <1>1, <1>2, <1>3, <1>4, <1>5, <1>6, <1>7, <1>8, <1>9, <1>10, <1>11, <1>12, <1>13, <1>14, <1>15, <1>16, <1>17, <1>18, <1>19, <1>20, <1>21, <1>22, <1>23, <1>24, <1>25, <1>26, <1>27, <1>28, <1>29, <1>30, <1>31, <1>32, <1>33, <1>34, <1>35, <1>36, <1>37, <1>38, <1>39, <1>40, <1>41, <1>42
  DEF Next, ProducerStep, ConsumerStep, ParentStep, ChildStep, Reclaim, Finished

\* Tickets less than a ring apart use different slots; a ring apart, the same.
LEMMA SlotDistinct ==
  /\ \A a, b \in Nat : a < b /\ b < a + kRingSlots => Slot(a) # Slot(b)
  /\ \A a \in Nat : Slot(a + kRingSlots) = Slot(a)
  /\ \A a \in Nat, i \in SlotIds :
       \E t \in a .. a + kRingSlots - 1 : Slot(t) = i
<1>1. \A a, b \in Nat : a < b /\ b < a + kRingSlots => Slot(a) # Slot(b)
  BY DEF Slot
<1>2. \A a \in Nat : Slot(a + kRingSlots) = Slot(a)
  BY DEF Slot
<1>3. ASSUME NEW a \in Nat, NEW i \in SlotIds
      PROVE  \E t \in a .. a + kRingSlots - 1 : Slot(t) = i
  <2>1. Slot(a) = i \/ Slot(a + 1) = i \/ Slot(a + 2) = i
    BY DEF Slot, SlotIds
  <2>2. QED
    BY <2>1
<1>4. QED
  BY <1>1, <1>2, <1>3

\* A step that leaves tickets, numbers and bytes alone keeps the slots' contents.
LEMMA ContentsFrame ==
  ASSUME TypeOK, RingInv, UNCHANGED <<ticket, sequence, owner, payload>>,
         Sent' = Sent, Released' = Released, Leaving => Leaving',
         Writing => Writing'
  PROVE  SlotContents'
BY DEF RingInv, SlotContents, Holds

LEMMA ContentsStep == TypeOK /\ RingInv /\ [Next]_vars => SlotContents'
<1> SUFFICES ASSUME TypeOK, RingInv, [Next]_vars PROVE SlotContents'
  OBVIOUS
<1> USE DEF RingInv
<1> /\ ticket[P] \in Nat /\ ticket[C] \in Nat /\ Sent \in Nat /\ Released \in Nat
  BY DEF TypeOK, ControlOK, Sent, Released, One
<1>1. ASSUME NEW p \in Children, InitSucceeds(p) PROVE SlotContents'
  BY <1>1, ContentsFrame DEF InitSucceeds, Goto, slots, Sent, Released, One, Leaving, Writing, TypeOK, ControlOK
<1>2. ASSUME NEW p \in Children, InitFails(p) PROVE SlotContents'
  BY <1>2, ContentsFrame DEF InitFails, Goto, slots, Sent, Released, One, Leaving, Writing, TypeOK, ControlOK
<1>3. ASSUME NEW p \in Children, InitThrows(p) PROVE SlotContents'
  BY <1>3, ContentsFrame DEF InitThrows, Goto, slots, Sent, Released, One, Leaving, Writing, TypeOK, ControlOK
<1>4. ASSUME NEW p \in Children, SetAlive(p) PROVE SlotContents'
  BY <1>4, ContentsFrame DEF SetAlive, Goto, slots, Sent, Released, One, Leaving, Writing, TypeOK, ControlOK
<1>5. ASSUME NEW p \in Children, SeeStart(p) PROVE SlotContents'
  BY <1>5, ContentsFrame DEF SeeStart, LoopHead, Goto, slots, Sent, Released, One, Leaving, Writing, TypeOK, ControlOK
<1>6. ASSUME NEW p \in Children, MissSlot(p) PROVE SlotContents'
  BY <1>6, ContentsFrame DEF MissSlot, Goto, slots, Sent, Released, One, Leaving, Writing, TypeOK, ControlOK
<1>7. ASSUME NEW p \in Children, PollAgain(p) PROVE SlotContents'
  BY <1>7, ContentsFrame DEF PollAgain, Goto, slots, Sent, Released, One, Leaving, Writing, TypeOK, ControlOK
<1>8. ASSUME NEW p \in Children, ClearAlive(p) PROVE SlotContents'
  BY <1>8, ContentsFrame DEF ClearAlive, Goto, slots, Sent, Released, One, Leaving, Writing, TypeOK, ControlOK
<1>9. ASSUME NEW p \in Children, Exit(p) PROVE SlotContents'
  BY <1>9, ContentsFrame DEF Exit, Goto, slots, Sent, Released, One, Leaving, Writing, TypeOK, ControlOK
<1>10. ASSUME NEW p \in Children, WaitTimesOut(p) PROVE SlotContents'
  BY <1>10, ContentsFrame DEF WaitTimesOut, Goto, slots, Sent, Released, One, Leaving, Writing, TypeOK, ControlOK
<1>11. ASSUME NEW p \in Children, Crash(p) PROVE SlotContents'
  BY <1>11, ContentsFrame DEF Crash, Goto, slots, Sent, Released, One, Leaving, Writing, TypeOK, ControlOK
<1>12. CASE SeeConsumerDead
  BY <1>12, ContentsFrame DEF SeeConsumerDead, Goto, slots, Sent, Released, One, Leaving, Writing, TypeOK, ControlOK
<1>13. CASE ReclaimAgain
  BY <1>13, ContentsFrame DEF ReclaimAgain, BeginPass, Goto, slots, Sent, Released, One, Leaving, Writing, TypeOK, ControlOK
<1>14. CASE ReclaimLast
  BY <1>14, ContentsFrame DEF ReclaimLast, BeginPass, Goto, slots, Sent, Released, One, Leaving, Writing, TypeOK, ControlOK
<1>15. CASE ScanSkip
  BY <1>15, ContentsFrame DEF ScanSkip, Goto, slots, Sent, Released, One, Leaving, Writing, TypeOK, ControlOK
<1>16. CASE ScanSelect
  BY <1>16, ContentsFrame DEF ScanSelect, Goto, slots, Sent, Released, One, Leaving, Writing, TypeOK, ControlOK
<1>17. CASE CasAborted
  BY <1>17, ContentsFrame DEF CasAborted, Goto, slots, Sent, Released, One, Leaving, Writing, TypeOK, ControlOK
<1>18. CASE CasLost
  BY <1>18, ContentsFrame DEF CasLost, Goto, slots, Sent, Released, One, Leaving, Writing, TypeOK, ControlOK
<1>19. CASE ReclaimSlot
  <2> DEFINE i == scan.index
             u == owner[scan.index]
  <2>1. /\ Sent' = Sent /\ Released' = Released /\ ticket' = ticket
        /\ Sent = ticket[P] /\ ~Writing /\ ~Writing' /\ Leaving /\ Leaving'
    BY <1>19 DEF ReclaimSlot, Goto, Sent, Released, One, Leaving, Writing, TypeOK,
              ControlOK
  <2>2. i \in SlotIds /\ u \in Nat /\ u < Sent /\ Slot(u) = i
    BY <1>19, <2>1, TouchedSlots DEF ReclaimSlot, Goto, SlotInHand, Tickets
  <2>3. sequence' = [sequence EXCEPT ![i] = u + kRingSlots]
    BY <1>19 DEF ReclaimSlot
  <2>4. ASSUME NEW t \in Released .. Released + kRingSlots - 1 PROVE Holds(t)'
    <3>1. Holds(t) /\ Slot(t) \in SlotIds
      BY SlotInRange DEF SlotContents
    <3>2. CASE Slot(t) # i
      <4>1. sequence'[Slot(t)] = sequence[Slot(t)]
        BY <2>2, <2>3, <3>1, <3>2 DEF TypeOK, SlotsOK
      <4>2. QED
        BY <1>19, <2>1, <3>1, <4>1 DEF ReclaimSlot, Holds
    <3>3. CASE Slot(t) = i
      <4>1. sequence'[Slot(t)] = u + kRingSlots
        BY <2>2, <2>3, <3>3 DEF TypeOK, SlotsOK
      <4>2. CASE t < Sent
        BY <1>19, <2>1, <3>1, <3>3, <4>1, <4>2 DEF ReclaimSlot, Holds
      <4>3. CASE ~(t < Sent)
        <5>1. t >= kRingSlots
          BY <2>2, <3>3, <4>3 DEF Slot
        <5>2. owner[Slot(t)] = t - kRingSlots
          BY <2>1, <3>1, <4>3, <5>1 DEF Holds
        <5>3. QED
          BY <1>19, <2>1, <3>1, <3>3, <4>1, <4>3, <5>2 DEF ReclaimSlot, Holds
      <4>4. QED
        BY <4>2, <4>3
    <3>4. QED
      BY <3>2, <3>3
  <2>5. QED
    BY <2>1, <2>4 DEF SlotContents
<1>20. CASE EndPass
  BY <1>20, ContentsFrame DEF EndPass, Goto, slots, Sent, Released, One, Leaving, Writing, TypeOK, ControlOK
<1>21. CASE ReclaimDeadline
  BY <1>21, ContentsFrame DEF ReclaimDeadline, BeginPass, Goto, slots, Sent, Released, One, Leaving, Writing, TypeOK, ControlOK
<1>22. CASE ClaimFree
  BY <1>22, SlotDistinct, AvailableSlots, TouchedSlots DEF ClaimFree, Goto, SlotContents, Holds, SlotInHand, Positions, Sent, Released, One, Leaving, Writing, TypeOK, ControlOK, SlotsOK
<1>23. CASE WriteDone
  BY <1>23, SlotDistinct, AvailableSlots, TouchedSlots DEF WriteDone, Goto, SlotContents, Holds, SlotInHand, Positions, Sent, Released, One, Leaving, Writing, TypeOK, ControlOK, SlotsOK
<1>24. CASE WriteFails
  BY <1>24, ContentsFrame DEF WriteFails, Goto, slots, Sent, Released, One, Leaving, Writing, TypeOK, ControlOK
<1>25. CASE MarkReady
  BY <1>25, ContentsFrame DEF MarkReady, Goto, slots, Sent, Released, One, Leaving, Writing, TypeOK, ControlOK
<1>26. CASE Publish
  <2>1. /\ ticket[P] = Sent /\ Sent' = Sent + 1 /\ Sent < Released + kRingSlots
        /\ Released <= Sent /\ Released' = Released /\ ~Leaving /\ ticket' = ticket
    BY <1>26 DEF Publish, Goto, Positions, Sent, Released, One, Leaving, TypeOK,
              ControlOK
  <2>2. ASSUME NEW t \in Released .. Released + kRingSlots - 1 PROVE Holds(t)'
    <3>1. Holds(t) /\ Slot(t) \in SlotIds
      BY SlotInRange DEF SlotContents
    <3>2. CASE t = Sent
      BY <1>26, <2>1, <3>1, <3>2 DEF Publish, Goto, Holds, SlotInHand, TypeOK, SlotsOK
    <3>3. CASE t # Sent
      <4>1. Slot(t) # Slot(ticket[P])
        BY <2>1, <3>3, SlotDistinct
      <4>2. sequence'[Slot(t)] = sequence[Slot(t)]
        BY <1>26, <3>1, <4>1 DEF Publish, TypeOK, SlotsOK
      <4>3. (t < Sent) = (t < Sent')
        BY <2>1, <3>3
      <4>4. QED
        BY <1>26, <2>1, <3>1, <3>3, <4>2, <4>3 DEF Publish, Holds
    <3>4. QED
      BY <3>2, <3>3
  <2>3. QED
    BY <2>1, <2>2 DEF SlotContents
<1>27. CASE CountPublished
  BY <1>27, SlotDistinct DEF CountPublished, Goto, LoopHead, SlotContents, Holds, slots, Positions, Sent, Released, One, Leaving, Writing, TypeOK, ControlOK
<1>28. CASE InjectFault
  BY <1>28, ContentsFrame DEF InjectFault, Goto, slots, Sent, Released, One, Leaving, Writing, TypeOK, ControlOK
<1>29. CASE SeeProducerDead
  BY <1>29, ContentsFrame DEF SeeProducerDead, Goto, slots, Sent, Released, One, Leaving, Writing, TypeOK, ControlOK
<1>30. CASE SeeReady
  BY <1>30, ContentsFrame DEF SeeReady, Goto, slots, Sent, Released, One, Leaving, Writing, TypeOK, ControlOK
<1>31. CASE CasConsuming
  BY <1>31, ContentsFrame DEF CasConsuming, Goto, slots, Sent, Released, One, Leaving, Writing, TypeOK, ControlOK
<1>32. CASE CasConsumingLost
  BY <1>32, ContentsFrame DEF CasConsumingLost, LoopHead, Goto, slots, Sent, Released, One, Leaving, Writing, TypeOK, ControlOK
<1>33. CASE VerifyDone
  BY <1>33, ContentsFrame DEF VerifyDone, Goto, slots, Sent, Released, One, Leaving, Writing, TypeOK, ControlOK
<1>34. CASE VerifyFails
  BY <1>34, ContentsFrame DEF VerifyFails, Goto, slots, Sent, Released, One, Leaving, Writing, TypeOK, ControlOK
<1>35. CASE FreeSlot
  BY <1>35, ContentsFrame DEF FreeSlot, Goto, slots, Sent, Released, One, Leaving, Writing, TypeOK, ControlOK
<1>36. CASE ReleaseSlot
  <2>1. /\ ticket[C] = Released /\ Released' = Released + 1 /\ Released < Sent
        /\ Sent' = Sent /\ ticket' = ticket
        /\ Sent <= Released + kRingSlots /\ Writing' = Writing /\ Leaving' = Leaving
    BY <1>36 DEF ReleaseSlot, Goto, Positions, Sent, Released, One, Leaving, Writing,
              TypeOK, ControlOK
  <2>2. ASSUME NEW t \in Released + 1 .. Released + kRingSlots PROVE Holds(t)'
    <3>1. CASE t = Released + kRingSlots
      <4>1. Slot(t) = Slot(Released) /\ Slot(t) \in SlotIds
        BY <3>1, SlotDistinct, SlotInRange
      <4>2. owner[Slot(t)] = Released
        BY <2>1, <4>1 DEF SlotContents, Holds
      <4>3. sequence'[Slot(t)] = t
        BY <1>36, <2>1, <3>1, <4>1 DEF ReleaseSlot, TypeOK, SlotsOK
      <4>4. QED
        BY <1>36, <2>1, <3>1, <4>2, <4>3 DEF ReleaseSlot, Holds
    <3>2. CASE t # Released + kRingSlots
      <4>1. Slot(t) # Slot(Released) /\ Slot(t) \in SlotIds /\ Holds(t)
        BY <3>2, SlotDistinct, SlotInRange DEF SlotContents
      <4>2. sequence'[Slot(t)] = sequence[Slot(t)]
        BY <1>36, <2>1, <4>1 DEF ReleaseSlot, TypeOK, SlotsOK
      <4>3. QED
        BY <1>36, <2>1, <4>1, <4>2 DEF ReleaseSlot, Holds
    <3>3. QED
      BY <3>1, <3>2
  <2>3. QED
    BY <2>1, <2>2 DEF SlotContents
<1>37. CASE CountCompleted
  BY <1>37, SlotDistinct DEF CountCompleted, Goto, LoopHead, SlotContents, Holds, slots, Positions, Sent, Released, One, Leaving, Writing, TypeOK, ControlOK
<1>38. CASE StartBoth
  BY <1>38, ContentsFrame DEF StartBoth, Goto, slots, Sent, Released, One, Leaving, Writing, TypeOK, ControlOK
<1>39. CASE ReadinessTimesOut
  BY <1>39, ContentsFrame DEF ReadinessTimesOut, Goto, slots, Sent, Released, One, Leaving, Writing, TypeOK, ControlOK
<1>40. CASE ReapProducer
  BY <1>40, ContentsFrame DEF ReapProducer, Goto, slots, Sent, Released, One, Leaving, Writing, TypeOK, ControlOK
<1>41. CASE ReapConsumer
  BY <1>41, ContentsFrame DEF ReapConsumer, Goto, slots, Sent, Released, One, Leaving, Writing, TypeOK, ControlOK
<1>42. CASE UNCHANGED vars
  BY <1>42, ContentsFrame DEF vars, slots, Sent, Released, One, Leaving, Writing
<1>43. QED
  BY <1>1, <1>2, <1>3, <1>4, <1>5, <1>6, <1>7, <1>8, <1>9, <1>10, <1>11, <1>12, <1>13, <1>14, <1>15, <1>16, <1>17, <1>18, <1>19, <1>20, <1>21, <1>22, <1>23, <1>24, <1>25, <1>26, <1>27, <1>28, <1>29, <1>30, <1>31, <1>32, <1>33, <1>34, <1>35, <1>36, <1>37, <1>38, <1>39, <1>40, <1>41, <1>42
  DEF Next, ProducerStep, ConsumerStep, ParentStep, ChildStep, Reclaim, Finished

LEMMA InHandStep == TypeOK /\ RingInv /\ [Next]_vars => SlotInHand'
<1> SUFFICES ASSUME TypeOK, RingInv, [Next]_vars PROVE SlotInHand'
  OBVIOUS
<1> USE DEF RingInv
<1> /\ ticket[P] \in Nat /\ ticket[C] \in Nat /\ Sent \in Nat /\ Released \in Nat
  BY DEF TypeOK, ControlOK, Sent, Released, One
<1>1. ASSUME NEW p \in Children, InitSucceeds(p) PROVE SlotInHand'
  BY <1>1 DEF InitSucceeds, Goto, slots, SlotInHand, TypeOK, ControlOK, SlotsOK
<1>2. ASSUME NEW p \in Children, InitFails(p) PROVE SlotInHand'
  BY <1>2 DEF InitFails, Goto, slots, SlotInHand, TypeOK, ControlOK, SlotsOK
<1>3. ASSUME NEW p \in Children, InitThrows(p) PROVE SlotInHand'
  BY <1>3 DEF InitThrows, Goto, slots, SlotInHand, TypeOK, ControlOK, SlotsOK
<1>4. ASSUME NEW p \in Children, SetAlive(p) PROVE SlotInHand'
  BY <1>4 DEF SetAlive, Goto, slots, SlotInHand, TypeOK, ControlOK, SlotsOK
<1>5. ASSUME NEW p \in Children, SeeStart(p) PROVE SlotInHand'
  BY <1>5 DEF SeeStart, LoopHead, Goto, slots, SlotInHand, TypeOK, ControlOK, SlotsOK
<1>6. ASSUME NEW p \in Children, MissSlot(p) PROVE SlotInHand'
  BY <1>6 DEF MissSlot, Goto, slots, SlotInHand, TypeOK, ControlOK, SlotsOK
<1>7. ASSUME NEW p \in Children, PollAgain(p) PROVE SlotInHand'
  BY <1>7 DEF PollAgain, Goto, slots, SlotInHand, TypeOK, ControlOK, SlotsOK
<1>8. ASSUME NEW p \in Children, ClearAlive(p) PROVE SlotInHand'
  BY <1>8 DEF ClearAlive, Goto, slots, SlotInHand, TypeOK, ControlOK, SlotsOK
<1>9. ASSUME NEW p \in Children, Exit(p) PROVE SlotInHand'
  BY <1>9 DEF Exit, Goto, slots, SlotInHand, TypeOK, ControlOK, SlotsOK
<1>10. ASSUME NEW p \in Children, WaitTimesOut(p) PROVE SlotInHand'
  BY <1>10 DEF WaitTimesOut, Goto, slots, SlotInHand, TypeOK, ControlOK, SlotsOK
<1>11. ASSUME NEW p \in Children, Crash(p) PROVE SlotInHand'
  BY <1>11 DEF Crash, Goto, slots, SlotInHand, TypeOK, ControlOK, SlotsOK
<1>12. CASE SeeConsumerDead
  BY <1>12 DEF SeeConsumerDead, Goto, slots, SlotInHand, TypeOK, ControlOK, SlotsOK
<1>13. CASE ReclaimAgain
  BY <1>13 DEF ReclaimAgain, BeginPass, Goto, slots, SlotInHand, TypeOK, ControlOK, SlotsOK
<1>14. CASE ReclaimLast
  BY <1>14 DEF ReclaimLast, BeginPass, Goto, slots, SlotInHand, TypeOK, ControlOK, SlotsOK
<1>15. CASE ScanSkip
  BY <1>15 DEF ScanSkip, Goto, slots, SlotInHand, TypeOK, ControlOK, SlotsOK
<1>16. CASE ScanSelect
  <2>1. /\ scan.index \in SlotIds /\ state[scan.index] # kFree
        /\ owner[scan.index] < scan.young /\ scan.young <= ticket[P]
    BY <1>16 DEF ScanSelect, Reclaimable, SlotInHand, TypeOK, ControlOK, SlotIds
  <2>2. scan'.index = scan.index /\ scan'.young = scan.young
    BY <1>16 DEF ScanSelect, TypeOK, ControlOK
  <2>3. owner[scan.index] < ticket[P] /\ scan.index < kRingSlots
    BY <2>1 DEF TypeOK, ControlOK, SlotsOK, SlotIds, Tickets
  <2>4. QED
    BY <1>16, <2>1, <2>2, <2>3 DEF ScanSelect, Goto, slots, SlotInHand, TypeOK,
                                ControlOK
<1>17. CASE CasAborted
  BY <1>17 DEF CasAborted, Goto, slots, SlotInHand, TypeOK, ControlOK, SlotsOK
<1>18. CASE CasLost
  BY <1>18 DEF CasLost, Goto, slots, SlotInHand, TypeOK, ControlOK, SlotsOK
<1>19. CASE ReclaimSlot
  BY <1>19, SlotDistinct, TouchedSlots DEF ReclaimSlot, Goto, slots, Reclaimable, Positions, Sent, Released, One, SlotInHand, TypeOK, ControlOK, SlotsOK
<1>20. CASE EndPass
  BY <1>20 DEF EndPass, Goto, slots, SlotInHand, TypeOK, ControlOK, SlotsOK
<1>21. CASE ReclaimDeadline
  BY <1>21 DEF ReclaimDeadline, BeginPass, Goto, slots, SlotInHand, TypeOK, ControlOK, SlotsOK
<1>22. CASE ClaimFree
  <2>1. Slot(ticket[P]) \in SlotIds /\ state[Slot(ticket[P])] = kFree
    BY <1>22, TouchedSlots DEF ClaimFree, SlotAvailable
  <2>2. /\ owner'[Slot(ticket[P])] = ticket[P] /\ UNCHANGED <<ticket, state, scan>>
        /\ \A j \in SlotIds : j # Slot(ticket[P]) => owner'[j] = owner[j]
        /\ pc'[P] = "write"
    BY <1>22, <2>1 DEF ClaimFree, Goto, TypeOK, SlotsOK, ControlOK
  <2>3. QED
    BY <2>1, <2>2 DEF SlotInHand
<1>23. CASE WriteDone
  BY <1>23, SlotDistinct, TouchedSlots DEF WriteDone, Goto, slots, Reclaimable, Positions, Sent, Released, One, SlotInHand, TypeOK, ControlOK, SlotsOK
<1>24. CASE WriteFails
  BY <1>24 DEF WriteFails, Goto, slots, SlotInHand, TypeOK, ControlOK, SlotsOK
<1>25. CASE MarkReady
  BY <1>25, SlotDistinct, TouchedSlots DEF MarkReady, Goto, slots, Reclaimable, Positions, Sent, Released, One, SlotInHand, TypeOK, ControlOK, SlotsOK
<1>26. CASE Publish
  BY <1>26 DEF Publish, Goto, slots, SlotInHand, TypeOK, ControlOK, SlotsOK
<1>27. CASE CountPublished
  BY <1>27 DEF CountPublished, LoopHead, Goto, slots, SlotInHand, TypeOK, ControlOK, SlotsOK
<1>28. CASE InjectFault
  BY <1>28 DEF InjectFault, Goto, slots, SlotInHand, TypeOK, ControlOK, SlotsOK
<1>29. CASE SeeProducerDead
  BY <1>29 DEF SeeProducerDead, Goto, slots, SlotInHand, TypeOK, ControlOK, SlotsOK
<1>30. CASE SeeReady
  BY <1>30 DEF SeeReady, Goto, slots, SlotInHand, TypeOK, ControlOK, SlotsOK
<1>31. CASE CasConsuming
  BY <1>31, SlotDistinct, TouchedSlots DEF CasConsuming, Goto, slots, Reclaimable, Positions, Sent, Released, One, SlotInHand, TypeOK, ControlOK, SlotsOK
<1>32. CASE CasConsumingLost
  BY <1>32 DEF CasConsumingLost, LoopHead, Goto, slots, SlotInHand, TypeOK, ControlOK, SlotsOK
<1>33. CASE VerifyDone
  BY <1>33 DEF VerifyDone, Goto, slots, SlotInHand, TypeOK, ControlOK, SlotsOK
<1>34. CASE VerifyFails
  BY <1>34 DEF VerifyFails, Goto, slots, SlotInHand, TypeOK, ControlOK, SlotsOK
<1>35. CASE FreeSlot
  BY <1>35, SlotDistinct, TouchedSlots DEF FreeSlot, Goto, slots, Reclaimable, Positions, Sent, Released, One, SlotInHand, TypeOK, ControlOK, SlotsOK
<1>36. CASE ReleaseSlot
  BY <1>36 DEF ReleaseSlot, Goto, slots, SlotInHand, TypeOK, ControlOK, SlotsOK
<1>37. CASE CountCompleted
  BY <1>37 DEF CountCompleted, LoopHead, Goto, slots, SlotInHand, TypeOK, ControlOK, SlotsOK
<1>38. CASE StartBoth
  BY <1>38 DEF StartBoth, Goto, slots, SlotInHand
<1>39. CASE ReadinessTimesOut
  BY <1>39 DEF ReadinessTimesOut, Goto, slots, SlotInHand
<1>40. CASE ReapProducer
  BY <1>40 DEF ReapProducer, Goto, slots, SlotInHand
<1>41. CASE ReapConsumer
  BY <1>41 DEF ReapConsumer, Goto, slots, SlotInHand
<1>42. CASE UNCHANGED vars
  BY <1>42 DEF vars, slots, SlotInHand
<1>43. QED
  BY <1>1, <1>2, <1>3, <1>4, <1>5, <1>6, <1>7, <1>8, <1>9, <1>10, <1>11, <1>12, <1>13, <1>14, <1>15, <1>16, <1>17, <1>18, <1>19, <1>20, <1>21, <1>22, <1>23, <1>24, <1>25, <1>26, <1>27, <1>28, <1>29, <1>30, <1>31, <1>32, <1>33, <1>34, <1>35, <1>36, <1>37, <1>38, <1>39, <1>40, <1>41, <1>42
  DEF Next, ProducerStep, ConsumerStep, ParentStep, ChildStep, Reclaim, Finished

(***************************************************************************)
(* The theorems.                                                           *)
(***************************************************************************)

\* Every reachable state of the ring is well typed and satisfies the sequence
\* protocol, for any number of requests, under failures, crashes and timeouts.
THEOREM RingInvariant == Spec => [](TypeOK /\ RingInv)
<1>1. Init => TypeOK /\ RingInv
  BY TypeInit, RingInit
<1>2. TypeOK /\ RingInv /\ [Next]_vars => TypeOK' /\ RingInv'
  BY HeaderStep, SlotsStep, ControlStep, FamilyStep, PositionsStep,
     ContentsStep, InHandStep DEF TypeOK, RingInv
<1>3. QED
  BY <1>1, <1>2, PTL DEF Spec, Safety

\* Every header field, slot, event and program counter keeps its type.
THEOREM TypeCorrect == Spec => []TypeOK
BY RingInvariant, PTL

\* The consumer never verifies bytes of another ticket, nor half-written ones.
THEOREM VerifiedWhole == Spec => []VerifiesItsTicket
<1>1. TypeOK /\ RingInv => VerifiesItsTicket
  <2> SUFFICES ASSUME TypeOK, RingInv, pc[C] = "verify"
               PROVE  payload[Slot(ticket[C])] = ticket[C]
    BY DEF VerifiesItsTicket
  <2>1. ticket[C] = Released /\ ticket[C] < Sent /\ ticket[C] \in Nat
    BY DEF RingInv, Positions, Released, One, TypeOK, ControlOK
  <2>2. Holds(ticket[C])
    BY <2>1 DEF RingInv, SlotContents
  <2>3. QED
    BY <2>1, <2>2 DEF Holds
<1>2. QED
  BY <1>1, RingInvariant, PTL

\* Only three steps store a sequence number, and only two write payload bytes.
LEMMA Writers ==
  [Next]_vars => /\ UNCHANGED sequence \/ Publish \/ ReleaseSlot \/ ReclaimSlot
                 /\ UNCHANGED payload \/ ClaimFree \/ WriteDone
<1> DEFINE Goal == /\ UNCHANGED sequence \/ Publish \/ ReleaseSlot \/ ReclaimSlot
                   /\ UNCHANGED payload \/ ClaimFree \/ WriteDone
<1> SUFFICES ASSUME [Next]_vars PROVE Goal
  OBVIOUS
<1>1. ASSUME NEW p \in Children, InitSucceeds(p) PROVE Goal
  BY <1>1 DEF InitSucceeds, slots
<1>2. ASSUME NEW p \in Children, InitFails(p) PROVE Goal
  BY <1>2 DEF InitFails, slots
<1>3. ASSUME NEW p \in Children, InitThrows(p) PROVE Goal
  BY <1>3 DEF InitThrows, slots
<1>4. ASSUME NEW p \in Children, SetAlive(p) PROVE Goal
  BY <1>4 DEF SetAlive, slots
<1>5. ASSUME NEW p \in Children, SeeStart(p) PROVE Goal
  BY <1>5 DEF SeeStart, slots
<1>6. ASSUME NEW p \in Children, MissSlot(p) PROVE Goal
  BY <1>6 DEF MissSlot, slots
<1>7. ASSUME NEW p \in Children, PollAgain(p) PROVE Goal
  BY <1>7 DEF PollAgain, slots
<1>8. ASSUME NEW p \in Children, ClearAlive(p) PROVE Goal
  BY <1>8 DEF ClearAlive, slots
<1>9. ASSUME NEW p \in Children, Exit(p) PROVE Goal
  BY <1>9 DEF Exit, slots
<1>10. ASSUME NEW p \in Children, WaitTimesOut(p) PROVE Goal
  BY <1>10 DEF WaitTimesOut, slots
<1>11. ASSUME NEW p \in Children, Crash(p) PROVE Goal
  BY <1>11 DEF Crash, slots
<1>12. CASE SeeConsumerDead
  BY <1>12 DEF SeeConsumerDead, slots
<1>13. CASE ReclaimAgain
  BY <1>13 DEF ReclaimAgain, BeginPass, slots
<1>14. CASE ReclaimLast
  BY <1>14 DEF ReclaimLast, BeginPass, slots
<1>15. CASE ScanSkip
  BY <1>15 DEF ScanSkip, slots
<1>16. CASE ScanSelect
  BY <1>16 DEF ScanSelect, slots
<1>17. CASE CasAborted
  BY <1>17 DEF CasAborted, slots
<1>18. CASE CasLost
  BY <1>18 DEF CasLost, slots
<1>19. CASE ReclaimSlot
  BY <1>19 DEF ReclaimSlot, slots
<1>20. CASE EndPass
  BY <1>20 DEF EndPass, slots
<1>21. CASE ReclaimDeadline
  BY <1>21 DEF ReclaimDeadline, BeginPass, slots
<1>22. CASE ClaimFree
  BY <1>22 DEF ClaimFree, slots
<1>23. CASE WriteDone
  BY <1>23 DEF WriteDone, slots
<1>24. CASE WriteFails
  BY <1>24 DEF WriteFails, slots
<1>25. CASE MarkReady
  BY <1>25 DEF MarkReady, slots
<1>26. CASE Publish
  BY <1>26 DEF Publish, slots
<1>27. CASE CountPublished
  BY <1>27 DEF CountPublished, slots
<1>28. CASE InjectFault
  BY <1>28 DEF InjectFault, slots
<1>29. CASE SeeProducerDead
  BY <1>29 DEF SeeProducerDead, slots
<1>30. CASE SeeReady
  BY <1>30 DEF SeeReady, slots
<1>31. CASE CasConsuming
  BY <1>31 DEF CasConsuming, slots
<1>32. CASE CasConsumingLost
  BY <1>32 DEF CasConsumingLost, slots
<1>33. CASE VerifyDone
  BY <1>33 DEF VerifyDone, slots
<1>34. CASE VerifyFails
  BY <1>34 DEF VerifyFails, slots
<1>35. CASE FreeSlot
  BY <1>35 DEF FreeSlot, slots
<1>36. CASE ReleaseSlot
  BY <1>36 DEF ReleaseSlot, slots
<1>37. CASE CountCompleted
  BY <1>37 DEF CountCompleted, slots
<1>38. CASE StartBoth
  BY <1>38 DEF StartBoth, slots
<1>39. CASE ReadinessTimesOut
  BY <1>39 DEF ReadinessTimesOut, slots
<1>40. CASE ReapProducer
  BY <1>40 DEF ReapProducer, slots
<1>41. CASE ReapConsumer
  BY <1>41 DEF ReapConsumer, slots
<1>42. CASE UNCHANGED vars
  BY <1>42 DEF vars, slots
<1> HIDE DEF Goal
<1>43. QED
  BY <1>1, <1>2, <1>3, <1>4, <1>5, <1>6, <1>7, <1>8, <1>9, <1>10, <1>11, <1>12, <1>13, <1>14, <1>15, <1>16, <1>17, <1>18, <1>19, <1>20, <1>21, <1>22, <1>23, <1>24, <1>25, <1>26, <1>27, <1>28, <1>29, <1>30, <1>31, <1>32, <1>33, <1>34, <1>35, <1>36, <1>37, <1>38, <1>39, <1>40, <1>41, <1>42
  DEF Next, ProducerStep, ConsumerStep, ParentStep, ChildStep, Reclaim, Finished

\* A slot's sequence number never goes back, even through a reclaim that races
\* with the release of a consumer that was wrongly taken for dead.
LEMMA SequenceStep ==
  ASSUME TypeOK, RingInv, [Next]_vars
  PROVE  \A i \in SlotIds : sequence'[i] >= sequence[i]
<1> USE DEF RingInv
<1>0. \A i \in SlotIds : sequence[i] \in Nat
  BY DEF TypeOK, SlotsOK
<1>1. CASE UNCHANGED sequence
  BY <1>0, <1>1
<1>2. CASE Publish
  <2>1. ticket[P] \in Released .. Released + kRingSlots - 1 /\ ~(ticket[P] < Sent)
    BY <1>2 DEF Publish, Goto, Positions, Sent, Released, One, TypeOK,
                      ControlOK
  <2>2. sequence[Slot(ticket[P])] = ticket[P] /\ ticket[P] \in Nat
    BY <2>1 DEF SlotContents, Holds, TypeOK, ControlOK
  <2>3. QED
    BY <1>0, <1>2, <2>2 DEF Publish, TypeOK, SlotsOK
<1>3. CASE ReleaseSlot
  <2>1. ticket[C] = Released /\ ticket[C] < Sent /\ ticket[C] \in Nat
    BY <1>3 DEF ReleaseSlot, Goto, Positions, Released, One, TypeOK,
                      ControlOK
  <2>2. sequence[Slot(ticket[C])] <= ticket[C] + kRingSlots
    BY <2>1 DEF SlotContents, Holds
  <2>3. QED
    BY <1>0, <1>3, <2>1, <2>2 DEF ReleaseSlot, TypeOK, SlotsOK
<1>4. CASE ReclaimSlot
  <2> DEFINE i == scan.index
             u == owner[scan.index]
  <2>1. i \in SlotIds /\ u \in Nat /\ u < ticket[P] /\ Slot(u) = i
    BY <1>4, TouchedSlots DEF ReclaimSlot, Goto, SlotInHand, Tickets
  <2>2. Sent = ticket[P] /\ ~Writing /\ Released \in Nat /\ Sent \in Nat
    BY <1>4 DEF ReclaimSlot, Goto, Sent, Released, One, Writing, TypeOK,
                      ControlOK
  <2>3. PICK t \in Released .. Released + kRingSlots - 1 : Slot(t) = i
    BY <2>1, <2>2, SlotDistinct
  <2>4. Holds(t)
    BY DEF SlotContents
  <2>5. sequence[i] <= u + kRingSlots
    <3>1. CASE t < Sent
      BY <2>2, <2>3, <2>4, <3>1 DEF Holds
    <3>2. CASE ~(t < Sent)
      <4>1. t >= kRingSlots
        BY <2>1, <2>2, <2>3, <3>2 DEF Slot
      <4>2. QED
        BY <2>2, <2>3, <2>4, <3>2, <4>1 DEF Holds
    <3>3. QED
      BY <3>1, <3>2
  <2>6. sequence' = [sequence EXCEPT ![i] = u + kRingSlots]
    BY <1>4 DEF ReclaimSlot
  <2>7. QED
    BY <1>0, <2>1, <2>5, <2>6 DEF TypeOK, SlotsOK
<1>5. QED
  BY <1>1, <1>2, <1>3, <1>4, Writers

\* READY data are never overwritten: bytes change only in a free slot that the
\* consumer is not reading.
LEMMA PayloadStep ==
  ASSUME TypeOK, RingInv, [Next]_vars
  PROVE  \A i \in SlotIds :
           payload'[i] # payload[i] =>
             state[i] = kFree /\ ~(pc[C] = "verify" /\ Slot(ticket[C]) = i)
<1> USE DEF RingInv
<1>1. CASE UNCHANGED payload
  BY <1>1
<1>2. CASE ClaimFree \/ WriteDone
  <2>1. /\ state[Slot(ticket[P])] = kFree
        /\ ticket[P] = Sent /\ Sent < Released + kRingSlots
        /\ ticket[P] \in Nat /\ ticket[C] \in Nat
    BY <1>2, AvailableSlots
    DEF ClaimFree, WriteDone, Goto, SlotAvailable, SlotInHand, Positions, Sent,
        One, TypeOK, ControlOK
  <2>2. \A i \in SlotIds : i # Slot(ticket[P]) => payload'[i] = payload[i]
    BY <1>2 DEF ClaimFree, WriteDone, TypeOK, SlotsOK
  <2>3. ASSUME pc[C] = "verify" PROVE Slot(ticket[C]) # Slot(ticket[P])
    <3>1. ticket[C] = Released /\ ticket[C] < Sent
      BY <2>1, <2>3 DEF Positions, Released, One, TypeOK, ControlOK
    <3>2. QED
      BY <2>1, <3>1, SlotDistinct
  <2>4. QED
    BY <2>1, <2>2, <2>3
<1>3. QED
  BY <1>1, <1>2, Writers

\* READY data are never overwritten and slots are used in the order of their sequence
\* numbers, whoever reclaims or releases them.
THEOREM SlotsKept == Spec => SlotsTurnOver
<1>1. TypeOK /\ RingInv /\ [Next]_vars =>
        [\A i \in SlotIds :
           /\ payload'[i] # payload[i] =>
                state[i] = kFree /\ ~(pc[C] = "verify" /\ Slot(ticket[C]) = i)
           /\ sequence'[i] >= sequence[i]]_vars
  BY SequenceStep, PayloadStep
<1>2. QED
  BY <1>1, RingInvariant, PTL DEF Spec, Safety, SlotsTurnOver

=============================================================================
