------------------------- MODULE WhisperPipelineProofs -------------------------
(***************************************************************************)
(* Proofs about the Whisper pipeline, for every number of requests and of  *)
(* gate processes, with exceptions, exits and kills allowed or not.  Each  *)
(* part of the inductive invariant is carried through every action by a    *)
(* lemma of its own; the theorems read it off.                             *)
(***************************************************************************)
EXTENDS WhisperPipeline, TLAPS

USE WhisperAssumption
USE DEF P, C, Children, Gates, PipelineSlots, NoRequest, Running, Broken, Termed,
        Crashed, Requests

\* Requests less than a window apart use different slots.
LEMMA SlotsDiffer ==
  ASSUME slots \in PipelineSlots, NEW a \in Int, NEW b \in Int, a < b, b < a + slots
  PROVE  SlotOf(a) # SlotOf(b)
<1>1. CASE slots = 1
  BY <1>1
<1>2. CASE slots = 3
  BY <1>2 DEF SlotOf
<1>3. QED
  BY <1>1, <1>2

\* Every request has a slot of the mapping.
LEMMA SlotInRange ==
  ASSUME slots \in PipelineSlots, NEW r \in Int
  PROVE  SlotOf(r) \in 0 .. slots - 1
BY DEF SlotOf

\* Appending an element of S to a sequence over S.
LEMMA AppendTyped ==
  ASSUME NEW S, NEW s \in Seq(S), NEW e \in S
  PROVE  Append(s, e) \in Seq(S)
OBVIOUS

\* Signals take gate states to gate states.
LEMMA SignalsTyped ==
  ASSUME NEW s \in GateStates
  PROVE  Stop(s) \in GateStates /\ Continue(s) \in GateStates
BY DEF Stop, Continue, GateStates

\* The part of the type invariant that is about the children.
ChildrenOK ==
  /\ pc \in [Children -> ProducerLabels \cup ConsumerLabels]
  /\ pc[P] \in ProducerLabels /\ pc[C] \in ConsumerLabels
  /\ status \in [Children -> {Running, 0, 3, 4, 5, Broken, Termed, Crashed}]

\* A producer that goes to a label of its own stays typed.
LEMMA ProducerGoes ==
  ASSUME TypeOK, NEW l \in ProducerLabels, Goto(P, l)
  PROVE  ChildrenOK'
<1>1. pc' = [pc EXCEPT ![P] = l] /\ status' = status
  BY DEF Goto
<1>2. pc'[P] = l /\ pc'[C] = pc[C]
  BY <1>1 DEF TypeOK
<1>3. pc' \in [Children -> ProducerLabels \cup ConsumerLabels]
  BY <1>1 DEF TypeOK
<1>4. QED
  BY <1>1, <1>2, <1>3 DEF TypeOK, ChildrenOK

\* So does a consumer.
LEMMA ConsumerGoes ==
  ASSUME TypeOK, NEW l \in ConsumerLabels, Goto(C, l)
  PROVE  ChildrenOK'
<1>1. pc' = [pc EXCEPT ![C] = l] /\ status' = status
  BY DEF Goto
<1>2. pc'[C] = l /\ pc'[P] = pc[P]
  BY <1>1 DEF TypeOK
<1>3. pc' \in [Children -> ProducerLabels \cup ConsumerLabels]
  BY <1>1 DEF TypeOK
<1>4. QED
  BY <1>1, <1>2, <1>3 DEF TypeOK, ChildrenOK

\* Either of them, to a label both have.
LEMMA ChildGoes ==
  ASSUME TypeOK, NEW c \in Children, NEW l \in ProducerLabels \cap ConsumerLabels, Goto(c, l)
  PROVE  ChildrenOK'
BY ProducerGoes, ConsumerGoes

\* Either of them ends with one of the statuses.
LEMMA ChildLeaves ==
  ASSUME TypeOK, NEW c \in Children,
         NEW s \in {Running, 0, 3, 4, 5, Broken, Termed, Crashed}, Leave(c, s)
  PROVE  ChildrenOK'
<1>1. pc' = [pc EXCEPT ![c] = "gone"] /\ status' = [status EXCEPT ![c] = s]
  BY DEF Leave
<1>2. "gone" \in ProducerLabels /\ "gone" \in ConsumerLabels
  BY DEF ProducerLabels, ConsumerLabels
<1>3. pc' \in [Children -> ProducerLabels \cup ConsumerLabels]
  BY <1>1, <1>2 DEF TypeOK
<1>4. pc'[P] \in ProducerLabels /\ pc'[C] \in ConsumerLabels
  BY <1>1, <1>2 DEF TypeOK
<1>5. status' \in [Children -> {Running, 0, 3, 4, 5, Broken, Termed, Crashed}]
  BY <1>1 DEF TypeOK
<1>6. QED
  BY <1>3, <1>4, <1>5 DEF ChildrenOK

\* A step of a child that changes nothing else.
LEMMA OnlyChildren ==
  ASSUME TypeOK, ChildrenOK', UNCHANGED <<slots, pipes, flow, gate, main, verdict>>
  PROVE  TypeOK'
BY DEF TypeOK, ChildrenOK, pipes, flow

\* Every action gives every variable a value of its type.
LEMMA TypeStep ==
  ASSUME TypeOK, Counts, [Next]_vars
  PROVE  TypeOK'
<1>1. ASSUME NEW c \in Children, InitOk(c) PROVE TypeOK'
  <2>1. readyPipe' \in Seq({0, 1})
    <3>1. readyPipe \in Seq({0, 1})
      BY DEF TypeOK
    <3>2. readyPipe' = Append(readyPipe, 0) \/ readyPipe' = readyPipe
      BY <1>1 DEF InitOk
    <3>3. Append(readyPipe, 0) \in Seq({0, 1})
      BY <3>1, AppendTyped
    <3>4. QED
      BY <3>1, <3>2, <3>3
  <2>2. ChildrenOK'
    <3>1. CASE Goto(c, "go")
      BY <3>1, ChildGoes DEF ProducerLabels, ConsumerLabels
    <3>2. CASE Leave(c, Broken)
      BY <3>2, ChildLeaves
    <3>3. QED
      BY <1>1, <3>1, <3>2 DEF InitOk
  <2>3. UNCHANGED <<slots, readiness, go, flow, gate, main, verdict>>
    BY <1>1 DEF InitOk
  <2>4. QED
    BY <2>1, <2>2, <2>3 DEF TypeOK, ChildrenOK, flow
<1>2. ASSUME NEW c \in Children, StartFails(c) PROVE TypeOK'
  <2>1. ChildrenOK'
    <3>1. CASE c = P
      BY <1>2, <3>1, ProducerGoes DEF StartFails, Handler, ProducerLabels
    <3>2. CASE c = C
      BY <1>2, <3>2, ConsumerGoes DEF StartFails, Handler, ConsumerLabels
    <3>3. QED
      BY <3>1, <3>2
  <2>2. UNCHANGED <<slots, pipes, flow, gate, main, verdict>>
    BY <1>2 DEF StartFails
  <2>3. QED
    BY <2>1, <2>2, OnlyChildren
<1>3. ASSUME NEW c \in Children, Report(c) PROVE TypeOK'
  <2>1. readyPipe' \in Seq({0, 1})
    <3>1. readyPipe \in Seq({0, 1})
      BY DEF TypeOK
    <3>2. readyPipe' = Append(readyPipe, 1) \/ readyPipe' = readyPipe
      BY <1>3 DEF Report
    <3>3. Append(readyPipe, 1) \in Seq({0, 1})
      BY <3>1, AppendTyped
    <3>4. QED
      BY <3>1, <3>2, <3>3
  <2>2. ChildrenOK'
    <3>1. CASE Leave(c, 5)
      BY <3>1, ChildLeaves
    <3>2. CASE Leave(c, Broken)
      BY <3>2, ChildLeaves
    <3>3. QED
      BY <1>3, <3>1, <3>2 DEF Report
  <2>3. UNCHANGED <<slots, readiness, go, flow, gate, main, verdict>>
    BY <1>3 DEF Report
  <2>4. QED
    BY <2>1, <2>2, <2>3 DEF TypeOK, ChildrenOK, flow
<1>4. ASSUME NEW c \in Children, ReadGo(c) PROVE TypeOK'
  <2>1. ChildrenOK'
    BY <1>4, ChildGoes DEF ReadGo, ProducerLabels, ConsumerLabels
  <2>2. UNCHANGED <<slots, pipes, flow, gate, main, verdict>>
    BY <1>4 DEF ReadGo
  <2>3. QED
    BY <2>1, <2>2, OnlyChildren
<1>5. ASSUME NEW c \in Children, GoClosed(c) PROVE TypeOK'
  <2>1. ChildrenOK'
    BY <1>5, ChildLeaves DEF GoClosed
  <2>2. UNCHANGED <<slots, pipes, flow, gate, main, verdict>>
    BY <1>5 DEF GoClosed
  <2>3. QED
    BY <2>1, <2>2, OnlyChildren
<1>6. ASSUME NEW c \in Children, SetupOk(c) PROVE TypeOK'
  <2>1. ChildrenOK'
    <3>1. CASE c = P
      BY <1>6, <3>1, ProducerGoes DEF SetupOk, ProducerLabels
    <3>2. CASE c = C
      BY <1>6, <3>2, ConsumerGoes DEF SetupOk, ConsumerLabels
    <3>3. QED
      BY <3>1, <3>2
  <2>2. UNCHANGED <<slots, pipes, flow, gate, main, verdict>>
    BY <1>6 DEF SetupOk
  <2>3. QED
    BY <2>1, <2>2, OnlyChildren
<1>7. ASSUME NEW c \in Children, Crash(c) PROVE TypeOK'
  <2>1. ChildrenOK'
    BY <1>7, ChildLeaves DEF Crash
  <2>2. UNCHANGED <<slots, pipes, flow, gate, main, verdict>>
    BY <1>7 DEF Crash
  <2>3. QED
    BY <2>1, <2>2, OnlyChildren
<1>8. CASE GateTurns
  <2>1. gate' \in [Gates -> GateStates]
    BY <1>8 DEF GateTurns, TypeOK, GateStates
  <2>2. QED
    BY <1>8, <2>1 DEF GateTurns, TypeOK, pipes, flow
<1>9. CASE GateExits
  <2>1. gate' \in [Gates -> GateStates]
    BY <1>9 DEF GateExits, TypeOK, GateStates
  <2>2. QED
    BY <1>9, <2>1 DEF GateExits, TypeOK, pipes, flow
<1>10. CASE GetCredit
  <2>1. ChildrenOK'
    BY <1>10, ProducerGoes DEF GetCredit, ProducerLabels
  <2>2. acks' \in 0 .. Total
    <3>1. acks' = acks \/ (acks < acked /\ acks' = acks + 1)
      BY <1>10 DEF GetCredit
    <3>2. acks \in 0 .. Total /\ acked \in 0 .. Total
      BY DEF TypeOK
    <3>3. QED
      BY <3>1, <3>2
  <2>3. UNCHANGED <<slots, pipes, sent, taken, acked, activation, decoded, collected,
                    gate, main, verdict>>
    BY <1>10 DEF GetCredit
  <2>4. QED
    BY <2>1, <2>2, <2>3 DEF TypeOK, ChildrenOK, pipes
<1>11. CASE NoMoreCredit
  <2>1. ChildrenOK'
    BY <1>11, ChildLeaves DEF NoMoreCredit
  <2>2. UNCHANGED <<slots, pipes, flow, gate, main, verdict>>
    BY <1>11 DEF NoMoreCredit
  <2>3. QED
    BY <2>1, <2>2, OnlyChildren
<1>12. CASE PauseSignals
  <2>1. gate' \in [Gates -> GateStates]
    BY <1>12, SignalsTyped DEF PauseSignals, TypeOK
  <2>2. ChildrenOK'
    BY <1>12, ProducerGoes DEF PauseSignals, ProducerLabels
  <2>3. UNCHANGED <<slots, pipes, flow, main, verdict>>
    BY <1>12 DEF PauseSignals
  <2>4. QED
    BY <2>1, <2>2, <2>3 DEF TypeOK, ChildrenOK, pipes, flow
<1>13. CASE PauseSeen
  <2>1. ChildrenOK'
    BY <1>13, ProducerGoes DEF PauseSeen, ProducerLabels
  <2>2. UNCHANGED <<slots, pipes, flow, gate, main, verdict>>
    BY <1>13 DEF PauseSeen
  <2>3. QED
    BY <2>1, <2>2, OnlyChildren
<1>14. CASE PauseFails
  <2>1. ChildrenOK'
    BY <1>14, ProducerGoes DEF PauseFails, ProducerLabels
  <2>2. UNCHANGED <<slots, pipes, flow, gate, main, verdict>>
    BY <1>14 DEF PauseFails
  <2>3. QED
    BY <2>1, <2>2, OnlyChildren
<1>15. CASE EncodeDone
  <2>1. SlotOf(sent) \in 0 .. slots - 1 /\ sent \in Requests
    <3>1. sent \in Int /\ 0 <= sent /\ sent < Total
      BY <1>15 DEF EncodeDone, TypeOK, Counts, Ahead
    <3>2. SlotOf(sent) \in 0 .. slots - 1
      <4>1. slots \in PipelineSlots
        BY DEF TypeOK
      <4>2. QED
        BY <3>1, <4>1, SlotInRange
    <3>3. QED
      BY <3>1, <3>2
  <2>2. activation' \in [0 .. slots - 1 -> Requests \cup {NoRequest}]
    BY <1>15, <2>1 DEF EncodeDone, TypeOK
  <2>3. ChildrenOK'
    BY <1>15, ProducerGoes DEF EncodeDone, ProducerLabels
  <2>4. UNCHANGED <<slots, pipes, sent, taken, acked, acks, decoded, collected, gate,
                    main, verdict>>
    BY <1>15 DEF EncodeDone
  <2>5. QED
    BY <2>2, <2>3, <2>4 DEF TypeOK, ChildrenOK, pipes
<1>16. CASE EncodeFails
  <2>1. activation' \in [0 .. slots - 1 -> Requests \cup {NoRequest}]
    BY <1>16 DEF EncodeFails, TypeOK
  <2>2. ChildrenOK'
    BY <1>16, ProducerGoes DEF EncodeFails, ProducerLabels
  <2>3. UNCHANGED <<slots, pipes, sent, taken, acked, acks, decoded, collected, gate,
                    main, verdict>>
    BY <1>16 DEF EncodeFails
  <2>4. QED
    BY <2>1, <2>2, <2>3 DEF TypeOK, ChildrenOK, pipes
<1>17. CASE ResumeSignals
  <2>1. gate' \in [Gates -> GateStates]
    BY <1>17, SignalsTyped DEF ResumeSignals, TypeOK
  <2>2. ChildrenOK'
    BY <1>17, ProducerGoes DEF ResumeSignals, ProducerLabels
  <2>3. UNCHANGED <<slots, pipes, flow, main, verdict>>
    BY <1>17 DEF ResumeSignals
  <2>4. QED
    BY <2>1, <2>2, <2>3 DEF TypeOK, ChildrenOK, pipes, flow
<1>18. CASE ResumeSeen
  <2>1. ChildrenOK'
    BY <1>18, ProducerGoes DEF ResumeSeen, ProducerLabels
  <2>2. UNCHANGED <<slots, pipes, flow, gate, main, verdict>>
    BY <1>18 DEF ResumeSeen
  <2>3. QED
    BY <2>1, <2>2, OnlyChildren
<1>19. CASE ResumeFails
  <2>1. ChildrenOK'
    BY <1>19, ProducerGoes DEF ResumeFails, ProducerLabels
  <2>2. UNCHANGED <<slots, pipes, flow, gate, main, verdict>>
    BY <1>19 DEF ResumeFails
  <2>3. QED
    BY <2>1, <2>2, OnlyChildren
<1>20. CASE Send
  <2>1. sent' \in 0 .. Total
    BY <1>20 DEF Send, Ahead, Counts, TypeOK
  <2>2. ChildrenOK'
    <3>1. CASE Goto(P, "next")
      BY <3>1, ProducerGoes DEF ProducerLabels
    <3>2. CASE Leave(P, Broken)
      BY <3>2, ChildLeaves
    <3>3. QED
      BY <1>20, <3>1, <3>2 DEF Send
  <2>3. UNCHANGED <<slots, pipes, taken, acked, acks, activation, decoded, collected,
                    gate, main, verdict>>
    BY <1>20 DEF Send
  <2>4. QED
    BY <2>1, <2>2, <2>3 DEF TypeOK, ChildrenOK, pipes
<1>21. CASE Drain
  <2>1. acks' \in 0 .. Total
    <3>1. acks < acked /\ acks' = acks + 1
      BY <1>21 DEF Drain
    <3>2. acks \in 0 .. Total /\ acked \in 0 .. Total
      BY DEF TypeOK
    <3>3. QED
      BY <3>1, <3>2
  <2>2. UNCHANGED <<slots, pc, status, pipes, sent, taken, acked, activation, decoded,
                    collected, gate, main, verdict>>
    BY <1>21 DEF Drain
  <2>3. QED
    BY <2>1, <2>2 DEF TypeOK, pipes
<1>22. CASE ProducerExits
  <2>1. ChildrenOK'
    BY <1>22, ChildLeaves DEF ProducerExits
  <2>2. UNCHANGED <<slots, pipes, flow, gate, main, verdict>>
    BY <1>22 DEF ProducerExits
  <2>3. QED
    BY <2>1, <2>2, OnlyChildren
<1>23. CASE Ungate
  <2>1. gate' \in [Gates -> GateStates]
    BY <1>23, SignalsTyped DEF Ungate, TypeOK
  <2>2. ChildrenOK'
    BY <1>23, ProducerGoes DEF Ungate, ProducerLabels
  <2>3. UNCHANGED <<slots, pipes, flow, main, verdict>>
    BY <1>23 DEF Ungate
  <2>4. QED
    BY <2>1, <2>2, <2>3 DEF TypeOK, ChildrenOK, pipes, flow
<1>24. CASE Receive
  <2>1. taken' \in 0 .. Total
    <3>1. taken < sent /\ taken' = taken + 1
      BY <1>24 DEF Receive
    <3>2. taken \in 0 .. Total /\ sent \in 0 .. Total
      BY DEF TypeOK
    <3>3. QED
      BY <3>1, <3>2
  <2>2. ChildrenOK'
    BY <1>24, ConsumerGoes DEF Receive, ConsumerLabels
  <2>3. UNCHANGED <<slots, pipes, sent, acked, acks, activation, decoded, collected,
                    gate, main, verdict>>
    BY <1>24 DEF Receive
  <2>4. QED
    BY <2>1, <2>2, <2>3 DEF TypeOK, ChildrenOK, pipes
<1>25. CASE EndOfTransfers
  <2>1. ChildrenOK'
    BY <1>25, ChildLeaves DEF EndOfTransfers
  <2>2. UNCHANGED <<slots, pipes, flow, gate, main, verdict>>
    BY <1>25 DEF EndOfTransfers
  <2>3. QED
    BY <2>1, <2>2, OnlyChildren
<1>26. CASE DecodeDone
  <2>1. InHand \in Int
    BY DEF InHand, TypeOK
  <2>2. activation[SlotOf(InHand)] \in Requests \cup {NoRequest}
    BY <2>1, SlotInRange DEF TypeOK
  <2>3. decoded' \in Seq(Requests \cup {NoRequest})
    <3>1. decoded \in Seq(Requests \cup {NoRequest})
      BY DEF TypeOK
    <3>2. \/ decoded' = Append(decoded, activation[SlotOf(InHand)])
          \/ decoded' = decoded
      BY <1>26 DEF DecodeDone
    <3>3. Append(decoded, activation[SlotOf(InHand)]) \in Seq(Requests \cup {NoRequest})
      BY <2>2, <3>1, AppendTyped
    <3>4. QED
      BY <3>1, <3>2, <3>3
  <2>4. ChildrenOK'
    <3>1. CASE Goto(C, "ack")
      BY <3>1, ConsumerGoes DEF ConsumerLabels
    <3>2. CASE Leave(C, Broken)
      BY <3>2, ChildLeaves
    <3>3. QED
      BY <1>26, <3>1, <3>2 DEF DecodeDone
  <2>5. UNCHANGED <<slots, pipes, sent, taken, acked, acks, activation, collected,
                    gate, main, verdict>>
    BY <1>26 DEF DecodeDone
  <2>6. QED
    BY <2>3, <2>4, <2>5 DEF TypeOK, ChildrenOK, pipes
<1>27. CASE DecodeFails
  <2>1. ChildrenOK'
    BY <1>27, ConsumerGoes DEF DecodeFails, ConsumerLabels
  <2>2. UNCHANGED <<slots, pipes, flow, gate, main, verdict>>
    BY <1>27 DEF DecodeFails
  <2>3. QED
    BY <2>1, <2>2, OnlyChildren
<1>28. CASE Ack
  <2>1. acked' \in 0 .. Total
    <3>1. pc[C] = "ack" /\ acked' \in {acked, acked + 1}
      BY <1>28 DEF Ack
    <3>2. acked = taken - 1
      BY <3>1 DEF Counts
    <3>3. acked \in 0 .. Total /\ taken \in 0 .. Total
      BY DEF TypeOK
    <3>4. QED
      BY <3>1, <3>2, <3>3
  <2>2. ChildrenOK'
    <3>1. CASE Goto(C, "receive")
      BY <3>1, ConsumerGoes DEF ConsumerLabels
    <3>2. CASE Leave(C, Broken)
      BY <3>2, ChildLeaves
    <3>3. QED
      BY <1>28, <3>1, <3>2 DEF Ack
  <2>3. UNCHANGED <<slots, pipes, sent, taken, acks, activation, decoded, collected,
                    gate, main, verdict>>
    BY <1>28 DEF Ack
  <2>4. QED
    BY <2>1, <2>2, <2>3 DEF TypeOK, ChildrenOK, pipes
<1>29. CASE MainReadsReady
  <2>1. /\ readyPipe # <<>>
        /\ readiness' = Append(readiness, Head(readyPipe)) /\ readyPipe' = Tail(readyPipe)
    BY <1>29 DEF MainReadsReady
  <2>2. readyPipe \in Seq({0, 1}) /\ readiness \in Seq({0, 1})
    BY DEF TypeOK
  <2>3. Head(readyPipe) \in {0, 1} /\ Tail(readyPipe) \in Seq({0, 1})
    BY <2>1, <2>2
  <2>4. readiness' \in Seq({0, 1})
    BY <2>1, <2>2, <2>3, AppendTyped
  <2>5. UNCHANGED <<slots, pc, status, go, flow, gate, main, verdict>>
    BY <1>29 DEF MainReadsReady
  <2>6. QED
    BY <2>1, <2>3, <2>4, <2>5 DEF TypeOK, flow
<1>30. CASE MainTerminates
  <2>1. /\ pc' = [c \in Children |-> "gone"]
        /\ status' = [c \in Children |-> IF Alive(c) THEN Termed ELSE status[c]]
        /\ main' = "done" /\ verdict' = "failed"
        /\ UNCHANGED <<slots, pipes, flow, gate>>
    BY <1>30 DEF MainTerminates
  <2>2. ChildrenOK'
    BY <2>1 DEF TypeOK, ChildrenOK, ProducerLabels, ConsumerLabels
  <2>3. QED
    BY <2>1, <2>2 DEF TypeOK, ChildrenOK, pipes, flow
<1>31. CASE MainSeesReady
  <2>1. main' = "go" /\ UNCHANGED <<slots, pc, status, pipes, flow, gate, verdict>>
    BY <1>31 DEF MainSeesReady
  <2>2. QED
    BY <2>1 DEF TypeOK, pipes, flow
<1>32. CASE GoProducer
  <2>1. /\ UNCHANGED <<slots, pc, status, readyPipe, readiness, flow, gate>>
        /\ main' \in {"go2", "gone"} /\ verdict' \in {"failed", verdict}
        /\ go' \in {go, go \cup {P}}
    BY <1>32 DEF GoProducer, GiveGo
  <2>2. QED
    BY <2>1 DEF TypeOK, flow
<1>33. CASE GoConsumer
  <2>1. go' \subseteq Children
    <3>1. go' = go \cup {C} \/ go' = go
      BY <1>33 DEF GoConsumer, GiveGo
    <3>2. go \subseteq Children
      BY DEF TypeOK
    <3>3. QED
      BY <3>1, <3>2
  <2>2. main' \in {"collect", "gone"} /\ verdict' \in {verdict, "failed"}
    BY <1>33 DEF GoConsumer, GiveGo
  <2>3. QED
    BY <1>33, <2>1, <2>2 DEF GoConsumer, GiveGo, TypeOK, flow
<1>34. CASE Collect
  <2>1. /\ collected < Total /\ collected' = collected + 1
        /\ UNCHANGED <<slots, pc, status, pipes, sent, taken, acked, acks, activation,
                       decoded, gate, main, verdict>>
    BY <1>34 DEF Collect
  <2>2. QED
    BY <2>1 DEF TypeOK, pipes
<1>35. CASE CollectEnds
  <2>1. main' = "reap" /\ UNCHANGED <<slots, pc, status, pipes, flow, gate, verdict>>
    BY <1>35 DEF CollectEnds
  <2>2. QED
    BY <2>1 DEF TypeOK, pipes, flow
<1>36. CASE Reap
  <2>1. main' = "done" /\ verdict' \in {"ok", "failed"} /\ UNCHANGED <<slots, pc, status, pipes, flow, gate>>
    BY <1>36 DEF Reap
  <2>2. QED
    BY <2>1 DEF TypeOK, pipes, flow
<1>37. CASE MainKilled
  <2>1. main' = "gone" /\ verdict' = "failed" /\ UNCHANGED <<slots, pc, status, pipes, flow, gate>>
    BY <1>37 DEF MainKilled
  <2>2. QED
    BY <2>1 DEF TypeOK, pipes, flow
<1>38. CASE UNCHANGED vars
  BY <1>38 DEF vars, TypeOK, pipes, flow
<1>39. QED
  BY <1>1, <1>2, <1>3, <1>4, <1>5, <1>6, <1>7, <1>8, <1>9, <1>10, <1>11, <1>12, <1>13, <1>14, <1>15, <1>16, <1>17, <1>18, <1>19, <1>20, <1>21, <1>22, <1>23, <1>24, <1>25, <1>26, <1>27, <1>28, <1>29, <1>30, <1>31, <1>32, <1>33, <1>34, <1>35, <1>36, <1>37, <1>38
  DEF Next, ProducerSteps, ConsumerSteps, MainSteps, Mishaps, ChildSteps, Finished

\* Credits lag decodes and decodes lag transfers.
LEMMA CountsStep ==
  ASSUME TypeOK, Counts, [Next]_vars
  PROVE  Counts'
<1>1. ASSUME NEW c \in Children, InitOk(c) PROVE Counts'
  BY <1>1 DEF InitOk, TypeOK, Counts, Ahead, Goto, Leave, pipes, flow
<1>2. ASSUME NEW c \in Children, StartFails(c) PROVE Counts'
  BY <1>2 DEF StartFails, Handler, TypeOK, Counts, Ahead, Goto, Leave, pipes, flow
<1>3. ASSUME NEW c \in Children, Report(c) PROVE Counts'
  BY <1>3 DEF Report, TypeOK, Counts, Ahead, Goto, Leave, pipes, flow
<1>4. ASSUME NEW c \in Children, ReadGo(c) PROVE Counts'
  BY <1>4 DEF ReadGo, TypeOK, Counts, Ahead, Goto, Leave, pipes, flow
<1>5. ASSUME NEW c \in Children, GoClosed(c) PROVE Counts'
  BY <1>5 DEF GoClosed, TypeOK, Counts, Ahead, Goto, Leave, pipes, flow
<1>6. ASSUME NEW c \in Children, SetupOk(c) PROVE Counts'
  BY <1>6 DEF SetupOk, TypeOK, Counts, Ahead, Goto, Leave, pipes, flow
<1>7. ASSUME NEW c \in Children, Crash(c) PROVE Counts'
  BY <1>7 DEF Crash, TypeOK, Counts, Ahead, Goto, Leave, pipes, flow
<1>8. CASE NoMoreCredit
  BY <1>8 DEF NoMoreCredit, TypeOK, Counts, Ahead, Goto, Leave, pipes, flow
<1>9. CASE PauseSignals
  BY <1>9 DEF PauseSignals, TypeOK, Counts, Ahead, Goto, Leave, pipes, flow
<1>10. CASE PauseSeen
  BY <1>10 DEF PauseSeen, TypeOK, Counts, Ahead, Goto, Leave, pipes, flow
<1>11. CASE PauseFails
  BY <1>11 DEF PauseFails, TypeOK, Counts, Ahead, Goto, Leave, pipes, flow
<1>12. CASE ResumeSignals
  BY <1>12 DEF ResumeSignals, TypeOK, Counts, Ahead, Goto, Leave, pipes, flow
<1>13. CASE ResumeSeen
  BY <1>13 DEF ResumeSeen, TypeOK, Counts, Ahead, Goto, Leave, pipes, flow
<1>14. CASE ResumeFails
  BY <1>14 DEF ResumeFails, TypeOK, Counts, Ahead, Goto, Leave, pipes, flow
<1>15. CASE Ungate
  BY <1>15 DEF Ungate, TypeOK, Counts, Ahead, Goto, Leave, pipes, flow
<1>16. CASE EndOfTransfers
  BY <1>16 DEF EndOfTransfers, TypeOK, Counts, Ahead, Goto, Leave, pipes, flow
<1>17. CASE DecodeFails
  BY <1>17 DEF DecodeFails, TypeOK, Counts, Ahead, Goto, Leave, pipes, flow
<1>18. CASE ProducerExits
  BY <1>18 DEF ProducerExits, TypeOK, Counts, Ahead, Goto, Leave, pipes, flow
<1>19. CASE GateTurns
  BY <1>19 DEF GateTurns, TypeOK, Counts, Ahead, Goto, Leave, pipes, flow
<1>20. CASE GateExits
  BY <1>20 DEF GateExits, TypeOK, Counts, Ahead, Goto, Leave, pipes, flow
<1>21. CASE MainReadsReady
  BY <1>21 DEF MainReadsReady, TypeOK, Counts, Ahead, Goto, Leave, pipes, flow
<1>22. CASE MainSeesReady
  BY <1>22 DEF MainSeesReady, TypeOK, Counts, Ahead, Goto, Leave, pipes, flow
<1>23. CASE MainKilled
  BY <1>23 DEF MainKilled, TypeOK, Counts, Ahead, Goto, Leave, pipes, flow
<1>24. CASE GoProducer
  BY <1>24 DEF GoProducer, GiveGo, TypeOK, Counts, Ahead, Goto, Leave, pipes, flow
<1>25. CASE GoConsumer
  BY <1>25 DEF GoConsumer, GiveGo, TypeOK, Counts, Ahead, Goto, Leave, pipes, flow
<1>26. CASE CollectEnds
  BY <1>26 DEF CollectEnds, TypeOK, Counts, Ahead, Goto, Leave, pipes, flow
<1>27. CASE GetCredit
  <2>1. pc[P] = "next" /\ pc' = [pc EXCEPT ![P] = "pause"] /\ sent < Total
    BY <1>27 DEF GetCredit, Goto
  <2>2. /\ slots' = slots /\ sent' = sent /\ taken' = taken /\ acked' = acked
        /\ decoded' = decoded
    BY <1>27 DEF GetCredit
  <2>3. \/ sent >= slots /\ acks < acked /\ acks' = acks + 1
        \/ sent < slots /\ acks' = acks
    BY <1>27 DEF GetCredit, CreditNeeded, TypeOK
  <2>4. Ahead' /\ pc'[C] = pc[C]
    BY <2>1 DEF TypeOK, Ahead
  <2>5. sent < acks' + slots /\ sent <= acks' + slots /\ acks' <= acked
    <3>1. /\ sent <= acks + slots /\ acks <= acked
          /\ slots \in Nat /\ sent \in Nat /\ acks \in Nat /\ acked \in Nat
      BY DEF TypeOK, Counts
    <3>2. slots >= 1 /\ (sent < slots => sent < acks + slots)
      BY <3>1 DEF TypeOK
    <3>3. QED
      BY <2>3, <3>1, <3>2
  <2>6. /\ Len(decoded') = Len(decoded)
        /\ Ahead' => sent' < Total /\ sent' < acks' + slots'
        /\ acks' <= acked' /\ sent' <= acks' + slots' /\ sent' <= Total
    BY <2>1, <2>2, <2>5 DEF Counts
  <2>7. QED
    BY <2>2, <2>4, <2>6 DEF Counts
<1>28. CASE EncodeDone
  BY <1>28 DEF EncodeDone, TypeOK, Counts, Ahead, Goto, Leave, pipes, flow
<1>29. CASE EncodeFails
  BY <1>29 DEF EncodeFails, TypeOK, Counts, Ahead, Goto, Leave, pipes, flow
<1>30. CASE Send
  <2>1. /\ sent < Total /\ sent < acks + slots
        /\ sent \in Nat /\ taken \in Nat /\ acks \in Nat /\ slots \in Nat
    BY <1>30 DEF Send, TypeOK, Counts, Ahead
  <2>2. UNCHANGED <<slots, taken, acked, acks, decoded>>
    BY <1>30 DEF Send
  <2>3. pc'[P] \in {"next", "gone"} /\ pc'[C] = pc[C]
    BY <1>30 DEF Send, Goto, Leave, TypeOK
  <2>4. sent' \in {sent, sent + 1}
    BY <1>30 DEF Send
  <2>5. taken <= sent' /\ sent' <= Total /\ sent' <= acks + slots
    <3>1. taken <= sent /\ sent <= acks + slots /\ Total \in Nat
      BY <2>1 DEF Counts
    <3>2. QED
      BY <2>1, <2>4, <3>1
  <2>6. QED
    BY <2>2, <2>3, <2>5 DEF Counts, Ahead
<1>31. CASE Drain
  BY <1>31 DEF Drain, TypeOK, Counts, Ahead, Goto, Leave, pipes, flow
<1>32. CASE Receive
  BY <1>32 DEF Receive, TypeOK, Counts, Ahead, Goto, Leave, pipes, flow
<1>33. CASE DecodeDone
  BY <1>33 DEF DecodeDone, TypeOK, Counts, Ahead, Goto, Leave, pipes, flow
<1>34. CASE Ack
  BY <1>34 DEF Ack, TypeOK, Counts, Ahead, Goto, Leave, pipes, flow
<1>35. CASE MainTerminates
  BY <1>35 DEF MainTerminates, TypeOK, Counts, Ahead, Goto, Leave, pipes, flow
<1>36. CASE Collect
  BY <1>36 DEF Collect, TypeOK, Counts, Ahead, Goto, Leave, pipes, flow
<1>37. CASE Reap
  BY <1>37 DEF Reap, TypeOK, Counts, Ahead, Goto, Leave, pipes, flow
<1>38. CASE UNCHANGED vars
  BY <1>38 DEF vars, TypeOK, Counts, Ahead, Goto, Leave, pipes, flow
<1>39. QED
  BY <1>1, <1>2, <1>3, <1>4, <1>5, <1>6, <1>7, <1>8, <1>9, <1>10, <1>11,
     <1>12, <1>13, <1>14, <1>15, <1>16, <1>17, <1>18, <1>19, <1>20, <1>21,
     <1>22, <1>23, <1>24, <1>25, <1>26, <1>27, <1>28, <1>29, <1>30, <1>31,
     <1>32, <1>33, <1>34, <1>35, <1>36, <1>37, <1>38
  DEF Next, ProducerSteps, ConsumerSteps, MainSteps, Mishaps, ChildSteps, Finished

\* No slot is encoded into before its request is decoded.
LEMMA ContentsStep ==
  ASSUME TypeOK, Counts, Contents, [Next]_vars
  PROVE  Contents'
<1>1. ASSUME NEW c \in Children, InitOk(c) PROVE Contents'
  BY <1>1 DEF InitOk, TypeOK, Contents, SlotOf, Goto, Leave, pipes, flow
<1>2. ASSUME NEW c \in Children, StartFails(c) PROVE Contents'
  BY <1>2 DEF StartFails, Handler, TypeOK, Contents, SlotOf, Goto, Leave, pipes, flow
<1>3. ASSUME NEW c \in Children, Report(c) PROVE Contents'
  BY <1>3 DEF Report, TypeOK, Contents, SlotOf, Goto, Leave, pipes, flow
<1>4. ASSUME NEW c \in Children, ReadGo(c) PROVE Contents'
  BY <1>4 DEF ReadGo, TypeOK, Contents, SlotOf, Goto, Leave, pipes, flow
<1>5. ASSUME NEW c \in Children, GoClosed(c) PROVE Contents'
  BY <1>5 DEF GoClosed, TypeOK, Contents, SlotOf, Goto, Leave, pipes, flow
<1>6. ASSUME NEW c \in Children, SetupOk(c) PROVE Contents'
  BY <1>6 DEF SetupOk, TypeOK, Contents, SlotOf, Goto, Leave, pipes, flow
<1>7. ASSUME NEW c \in Children, Crash(c) PROVE Contents'
  BY <1>7 DEF Crash, TypeOK, Contents, SlotOf, Goto, Leave, pipes, flow
<1>8. CASE NoMoreCredit
  BY <1>8 DEF NoMoreCredit, TypeOK, Contents, SlotOf, Goto, Leave, pipes, flow
<1>9. CASE PauseSignals
  BY <1>9 DEF PauseSignals, TypeOK, Contents, SlotOf, Goto, Leave, pipes, flow
<1>10. CASE PauseSeen
  BY <1>10 DEF PauseSeen, TypeOK, Contents, SlotOf, Goto, Leave, pipes, flow
<1>11. CASE PauseFails
  BY <1>11 DEF PauseFails, TypeOK, Contents, SlotOf, Goto, Leave, pipes, flow
<1>12. CASE ResumeSignals
  BY <1>12 DEF ResumeSignals, TypeOK, Contents, SlotOf, Goto, Leave, pipes, flow
<1>13. CASE ResumeSeen
  BY <1>13 DEF ResumeSeen, TypeOK, Contents, SlotOf, Goto, Leave, pipes, flow
<1>14. CASE ResumeFails
  BY <1>14 DEF ResumeFails, TypeOK, Contents, SlotOf, Goto, Leave, pipes, flow
<1>15. CASE Ungate
  BY <1>15 DEF Ungate, TypeOK, Contents, SlotOf, Goto, Leave, pipes, flow
<1>16. CASE EndOfTransfers
  BY <1>16 DEF EndOfTransfers, TypeOK, Contents, SlotOf, Goto, Leave, pipes, flow
<1>17. CASE DecodeFails
  BY <1>17 DEF DecodeFails, TypeOK, Contents, SlotOf, Goto, Leave, pipes, flow
<1>18. CASE ProducerExits
  BY <1>18 DEF ProducerExits, TypeOK, Contents, SlotOf, Goto, Leave, pipes, flow
<1>19. CASE GateTurns
  BY <1>19 DEF GateTurns, TypeOK, Contents, SlotOf, Goto, Leave, pipes, flow
<1>20. CASE GateExits
  BY <1>20 DEF GateExits, TypeOK, Contents, SlotOf, Goto, Leave, pipes, flow
<1>21. CASE MainReadsReady
  BY <1>21 DEF MainReadsReady, TypeOK, Contents, SlotOf, Goto, Leave, pipes, flow
<1>22. CASE MainSeesReady
  BY <1>22 DEF MainSeesReady, TypeOK, Contents, SlotOf, Goto, Leave, pipes, flow
<1>23. CASE MainKilled
  BY <1>23 DEF MainKilled, TypeOK, Contents, SlotOf, Goto, Leave, pipes, flow
<1>24. CASE GoProducer
  BY <1>24 DEF GoProducer, GiveGo, TypeOK, Contents, SlotOf, Goto, Leave, pipes, flow
<1>25. CASE GoConsumer
  BY <1>25 DEF GoConsumer, GiveGo, TypeOK, Contents, SlotOf, Goto, Leave, pipes, flow
<1>26. CASE CollectEnds
  BY <1>26 DEF CollectEnds, TypeOK, Contents, SlotOf, Goto, Leave, pipes, flow
<1>27. CASE GetCredit
  BY <1>27 DEF GetCredit, TypeOK, Contents, SlotOf, Goto, Leave, pipes, flow
<1>28. CASE EncodeDone
  <2>1. /\ pc[P] = "encode" /\ pc' = [pc EXCEPT ![P] = "resume"]
        /\ activation' = [activation EXCEPT ![SlotOf(sent)] = sent]
        /\ slots' = slots /\ sent' = sent /\ decoded' = decoded
    BY <1>28 DEF EncodeDone, Goto
  <2>2. sent < Len(decoded) + slots /\ sent \in Int /\ Len(decoded) \in Int
    BY <2>1 DEF TypeOK, Counts, Ahead
  <2>3. activation'[SlotOf(sent)] = sent
    BY <2>1, <2>2, SlotInRange DEF TypeOK
  <2>4. ASSUME NEW r \in Requests, Len(decoded) <= r, r < sent
        PROVE  activation'[SlotOf(r)] = r
    <3>1. SlotOf(r) # SlotOf(sent)
      BY <2>2, <2>4, SlotsDiffer DEF TypeOK
    <3>2. activation[SlotOf(r)] = r
      BY <2>4 DEF Contents
    <3>3. SlotOf(r) \in 0 .. slots - 1
      <4>1. r \in Int /\ slots \in PipelineSlots
        BY DEF TypeOK
      <4>2. QED
        BY <4>1, SlotInRange
    <3>4. QED
      BY <2>1, <3>1, <3>2, <3>3 DEF TypeOK
  <2>5. \A r : SlotOf(r)' = SlotOf(r)
    BY <2>1 DEF SlotOf
  <2>6. QED
    BY <2>1, <2>3, <2>4, <2>5 DEF Contents
<1>29. CASE EncodeFails
  <2>1. /\ pc[P] = "encode" /\ pc' = [pc EXCEPT ![P] = "throw"]
        /\ activation' = [activation EXCEPT ![SlotOf(sent)] = NoRequest]
        /\ slots' = slots /\ sent' = sent /\ decoded' = decoded
    BY <1>29 DEF EncodeFails, Goto
  <2>2. sent < Len(decoded) + slots /\ sent \in Int /\ Len(decoded) \in Int
    BY <2>1 DEF TypeOK, Counts, Ahead
  <2>3. ASSUME NEW r \in Requests, Len(decoded) <= r, r < sent
        PROVE  activation'[SlotOf(r)] = r
    <3>1. SlotOf(r) # SlotOf(sent)
      BY <2>2, <2>3, SlotsDiffer DEF TypeOK
    <3>2. activation[SlotOf(r)] = r
      BY <2>3 DEF Contents
    <3>3. SlotOf(r) \in 0 .. slots - 1
      <4>1. r \in Int /\ slots \in PipelineSlots
        BY DEF TypeOK
      <4>2. QED
        BY <4>1, SlotInRange
    <3>4. QED
      BY <2>1, <3>1, <3>2, <3>3 DEF TypeOK
  <2>4. \A r : SlotOf(r)' = SlotOf(r)
    BY <2>1 DEF SlotOf
  <2>5. pc'[P] = "throw"
    BY <2>1 DEF TypeOK
  <2>6. QED
    BY <2>1, <2>3, <2>4, <2>5 DEF Contents
<1>30. CASE Send
  <2>1. /\ pc[P] = "send" /\ slots' = slots /\ activation' = activation
        /\ decoded' = decoded /\ sent' \in {sent, sent + 1}
        /\ pc'[P] \in {"next", "gone"}
    BY <1>30 DEF Send, Goto, Leave, TypeOK
  <2>2. activation[SlotOf(sent)] = sent
    BY <2>1 DEF Contents
  <2>3. \A r : SlotOf(r)' = SlotOf(r)
    BY <2>1 DEF SlotOf
  <2>4. sent \in Int
    BY DEF TypeOK
  <2>5. ASSUME NEW r \in Requests, Len(decoded) <= r, r < sent'
        PROVE  activation'[SlotOf(r)] = r
    <3>1. CASE r = sent
      BY <2>1, <2>2, <3>1
    <3>2. CASE r < sent
      BY <2>1, <2>5, <3>2 DEF Contents
    <3>3. QED
      BY <2>1, <2>4, <2>5, <3>1, <3>2
  <2>6. QED
    BY <2>1, <2>3, <2>5 DEF Contents
<1>31. CASE Drain
  BY <1>31 DEF Drain, TypeOK, Contents, SlotOf, Goto, Leave, pipes, flow
<1>32. CASE Receive
  BY <1>32 DEF Receive, TypeOK, Contents, SlotOf, Goto, Leave, pipes, flow
<1>33. CASE DecodeDone
  BY <1>33 DEF DecodeDone, TypeOK, Contents, SlotOf, Goto, Leave, pipes, flow
<1>34. CASE Ack
  BY <1>34 DEF Ack, TypeOK, Contents, SlotOf, Goto, Leave, pipes, flow
<1>35. CASE MainTerminates
  BY <1>35 DEF MainTerminates, TypeOK, Contents, SlotOf, Goto, Leave, pipes, flow
<1>36. CASE Collect
  BY <1>36 DEF Collect, TypeOK, Contents, SlotOf, Goto, Leave, pipes, flow
<1>37. CASE Reap
  BY <1>37 DEF Reap, TypeOK, Contents, SlotOf, Goto, Leave, pipes, flow
<1>38. CASE UNCHANGED vars
  BY <1>38 DEF vars, TypeOK, Contents, SlotOf, Goto, Leave, pipes, flow
<1>39. QED
  BY <1>1, <1>2, <1>3, <1>4, <1>5, <1>6, <1>7, <1>8, <1>9, <1>10, <1>11,
     <1>12, <1>13, <1>14, <1>15, <1>16, <1>17, <1>18, <1>19, <1>20, <1>21,
     <1>22, <1>23, <1>24, <1>25, <1>26, <1>27, <1>28, <1>29, <1>30, <1>31,
     <1>32, <1>33, <1>34, <1>35, <1>36, <1>37, <1>38
  DEF Next, ProducerSteps, ConsumerSteps, MainSteps, Mishaps, ChildSteps, Finished

\* Results are whole, and main counts them.
LEMMA ResultsStep ==
  ASSUME TypeOK, Counts, Contents, Results, [Next]_vars
  PROVE  Results'
<1>1. ASSUME NEW c \in Children, InitOk(c) PROVE Results'
  BY <1>1 DEF InitOk, TypeOK, Results, Goto, Leave, pipes, flow
<1>2. ASSUME NEW c \in Children, StartFails(c) PROVE Results'
  BY <1>2 DEF StartFails, Handler, TypeOK, Results, Goto, Leave, pipes, flow
<1>3. ASSUME NEW c \in Children, Report(c) PROVE Results'
  BY <1>3 DEF Report, TypeOK, Results, Goto, Leave, pipes, flow
<1>4. ASSUME NEW c \in Children, ReadGo(c) PROVE Results'
  BY <1>4 DEF ReadGo, TypeOK, Results, Goto, Leave, pipes, flow
<1>5. ASSUME NEW c \in Children, GoClosed(c) PROVE Results'
  BY <1>5 DEF GoClosed, TypeOK, Results, Goto, Leave, pipes, flow
<1>6. ASSUME NEW c \in Children, SetupOk(c) PROVE Results'
  BY <1>6 DEF SetupOk, TypeOK, Results, Goto, Leave, pipes, flow
<1>7. ASSUME NEW c \in Children, Crash(c) PROVE Results'
  BY <1>7 DEF Crash, TypeOK, Results, Goto, Leave, pipes, flow
<1>8. CASE NoMoreCredit
  BY <1>8 DEF NoMoreCredit, TypeOK, Results, Goto, Leave, pipes, flow
<1>9. CASE PauseSignals
  BY <1>9 DEF PauseSignals, TypeOK, Results, Goto, Leave, pipes, flow
<1>10. CASE PauseSeen
  BY <1>10 DEF PauseSeen, TypeOK, Results, Goto, Leave, pipes, flow
<1>11. CASE PauseFails
  BY <1>11 DEF PauseFails, TypeOK, Results, Goto, Leave, pipes, flow
<1>12. CASE ResumeSignals
  BY <1>12 DEF ResumeSignals, TypeOK, Results, Goto, Leave, pipes, flow
<1>13. CASE ResumeSeen
  BY <1>13 DEF ResumeSeen, TypeOK, Results, Goto, Leave, pipes, flow
<1>14. CASE ResumeFails
  BY <1>14 DEF ResumeFails, TypeOK, Results, Goto, Leave, pipes, flow
<1>15. CASE Ungate
  BY <1>15 DEF Ungate, TypeOK, Results, Goto, Leave, pipes, flow
<1>16. CASE EndOfTransfers
  BY <1>16 DEF EndOfTransfers, TypeOK, Results, Goto, Leave, pipes, flow
<1>17. CASE DecodeFails
  BY <1>17 DEF DecodeFails, TypeOK, Results, Goto, Leave, pipes, flow
<1>18. CASE ProducerExits
  BY <1>18 DEF ProducerExits, TypeOK, Results, Goto, Leave, pipes, flow
<1>19. CASE GateTurns
  BY <1>19 DEF GateTurns, TypeOK, Results, Goto, Leave, pipes, flow
<1>20. CASE GateExits
  BY <1>20 DEF GateExits, TypeOK, Results, Goto, Leave, pipes, flow
<1>21. CASE MainReadsReady
  BY <1>21 DEF MainReadsReady, TypeOK, Results, Goto, Leave, pipes, flow
<1>22. CASE MainSeesReady
  BY <1>22 DEF MainSeesReady, TypeOK, Results, Goto, Leave, pipes, flow
<1>23. CASE MainKilled
  BY <1>23 DEF MainKilled, TypeOK, Results, Goto, Leave, pipes, flow
<1>24. CASE GoProducer
  BY <1>24 DEF GoProducer, GiveGo, TypeOK, Results, Goto, Leave, pipes, flow
<1>25. CASE GoConsumer
  BY <1>25 DEF GoConsumer, GiveGo, TypeOK, Results, Goto, Leave, pipes, flow
<1>26. CASE CollectEnds
  BY <1>26 DEF CollectEnds, TypeOK, Results, Goto, Leave, pipes, flow
<1>27. CASE GetCredit
  BY <1>27 DEF GetCredit, TypeOK, Results, Goto, Leave, pipes, flow
<1>28. CASE EncodeDone
  BY <1>28 DEF EncodeDone, TypeOK, Results, Goto, Leave, pipes, flow
<1>29. CASE EncodeFails
  BY <1>29 DEF EncodeFails, TypeOK, Results, Goto, Leave, pipes, flow
<1>30. CASE Send
  BY <1>30 DEF Send, TypeOK, Results, Goto, Leave, pipes, flow
<1>31. CASE Drain
  BY <1>31 DEF Drain, TypeOK, Results, Goto, Leave, pipes, flow
<1>32. CASE Receive
  BY <1>32 DEF Receive, TypeOK, Results, Goto, Leave, pipes, flow
<1>33. CASE DecodeDone
  <2>1. CASE decoded' = decoded
    BY <1>33, <2>1 DEF DecodeDone, Results
  <2>2. CASE decoded' = Append(decoded, activation[SlotOf(InHand)])
    <3>1. /\ pc[C] = "decode" /\ collected' = collected /\ verdict' = verdict
      BY <1>33 DEF DecodeDone
    <3>2. /\ InHand = Len(decoded) /\ InHand < sent /\ InHand \in Requests
          /\ Len(decoded) < Total
      BY <3>1 DEF InHand, TypeOK, Counts
    <3>3. activation[SlotOf(InHand)] = InHand
      BY <3>2 DEF Contents
    <3>4. decoded \in Seq(Requests \cup {NoRequest})
      BY DEF TypeOK
    <3>5. /\ Len(decoded') = Len(decoded) + 1
          /\ \A k \in 1 .. Len(decoded) : decoded'[k] = decoded[k]
          /\ decoded'[Len(decoded) + 1] = InHand
      BY <2>2, <3>2, <3>3, <3>4
    <3>6. Len(decoded) \in Nat /\ collected \in Int
      BY <3>4 DEF TypeOK
    <3>7. QED
      BY <3>1, <3>2, <3>5, <3>6 DEF Results
  <2>3. QED
    BY <1>33, <2>1, <2>2 DEF DecodeDone
<1>34. CASE Ack
  BY <1>34 DEF Ack, TypeOK, Results, Goto, Leave, pipes, flow
<1>35. CASE MainTerminates
  BY <1>35 DEF MainTerminates, TypeOK, Results, Goto, Leave, pipes, flow
<1>36. CASE Collect
  BY <1>36 DEF Collect, TypeOK, Results, Goto, Leave, pipes, flow
<1>37. CASE Reap
  <2>1. /\ decoded' = decoded /\ collected' = collected
        /\ verdict' = "ok" => collected = Total
    BY <1>37 DEF Reap, Complete, flow
  <2>2. Len(decoded) <= Total /\ Len(decoded) \in Int /\ collected \in Int
    BY DEF TypeOK, Counts
  <2>3. QED
    BY <2>1, <2>2 DEF Results
<1>38. CASE UNCHANGED vars
  BY <1>38 DEF vars, TypeOK, Results, Goto, Leave, pipes, flow
<1>39. QED
  BY <1>1, <1>2, <1>3, <1>4, <1>5, <1>6, <1>7, <1>8, <1>9, <1>10, <1>11,
     <1>12, <1>13, <1>14, <1>15, <1>16, <1>17, <1>18, <1>19, <1>20, <1>21,
     <1>22, <1>23, <1>24, <1>25, <1>26, <1>27, <1>28, <1>29, <1>30, <1>31,
     <1>32, <1>33, <1>34, <1>35, <1>36, <1>37, <1>38
  DEF Next, ProducerSteps, ConsumerSteps, MainSteps, Mishaps, ChildSteps, Finished

\* No path of the producer leaves a gate stopped behind it.
LEMMA GateStep ==
  ASSUME TypeOK, GateInv, [Next]_vars
  PROVE  GateInv'
<1>1. ASSUME NEW c \in Children, InitOk(c) PROVE GateInv'
  <2>1. pc'[P] \in {pc[P], "go", "gone"} /\ gate' = gate /\ go' = go /\ main' = main
    BY <1>1 DEF InitOk, TypeOK, Goto, Leave
  <2>2. CASE c = P
    <3>1. \A g \in Gates : gate[g] \in {"run", "zombie", "gone"}
      BY <1>1, <2>2 DEF InitOk, GateInv
    <3>2. pc'[P] \in {"go", "gone"}
      BY <1>1, <2>2 DEF InitOk, TypeOK, Goto, Leave
    <3>3. QED
      BY <2>1, <3>1, <3>2 DEF GateInv
  <2>3. CASE c # P
    <3>1. pc'[P] = pc[P] /\ status'[P] = status[P]
      BY <1>1, <2>3 DEF InitOk, TypeOK, Goto, Leave
    <3>2. QED
      BY <2>1, <3>1 DEF GateInv
  <2>4. QED
    BY <2>2, <2>3
<1>2. ASSUME NEW c \in Children, StartFails(c) PROVE GateInv'
  BY <1>2 DEF StartFails, Handler, TypeOK, GateInv, Goto, Leave, pipes, flow
<1>3. ASSUME NEW c \in Children, Report(c) PROVE GateInv'
  BY <1>3 DEF Report, TypeOK, GateInv, Goto, Leave, pipes, flow
<1>4. ASSUME NEW c \in Children, ReadGo(c) PROVE GateInv'
  BY <1>4 DEF ReadGo, TypeOK, GateInv, Goto, Leave, pipes, flow
<1>5. ASSUME NEW c \in Children, GoClosed(c) PROVE GateInv'
  <2>1. /\ pc[c] = "go" /\ pc' = [pc EXCEPT ![c] = "gone"]
        /\ status' = [status EXCEPT ![c] = 3] /\ UNCHANGED <<gate, go, main>>
    BY <1>5 DEF GoClosed, Leave, pipes
  <2>2. pc'[c] = "gone" /\ (c # P => pc'[P] = pc[P] /\ status'[P] = status[P])
    <3>1. pc \in [Children -> ProducerLabels \cup ConsumerLabels]
          /\ status \in [Children -> {Running, 0, 3, 4, 5, Broken, Termed, Crashed}]
      BY DEF TypeOK
    <3>2. QED
      BY <2>1, <3>1
  <2>3. CASE c = P
    <3>1. \A g \in Gates : gate[g] \in {"run", "zombie", "gone"}
      BY <2>1, <2>3 DEF GateInv
    <3>2. QED
      BY <2>1, <2>2, <2>3, <3>1 DEF GateInv
  <2>4. CASE c # P
    BY <2>1, <2>2, <2>4 DEF GateInv
  <2>5. QED
    BY <2>3, <2>4
<1>6. ASSUME NEW c \in Children, SetupOk(c) PROVE GateInv'
  BY <1>6 DEF SetupOk, TypeOK, GateInv, Goto, Leave, pipes, flow
<1>7. ASSUME NEW c \in Children, Crash(c) PROVE GateInv'
  BY <1>7 DEF Crash, TypeOK, GateInv, Goto, Leave, pipes, flow
<1>8. CASE NoMoreCredit
  BY <1>8 DEF NoMoreCredit, TypeOK, GateInv, Goto, Leave, pipes, flow
<1>9. CASE PauseSignals
  <2>1. /\ pc[P] = "pause" /\ pc'[P] \in {"stopping", "throw"}
        /\ go' = go /\ main' = main
    BY <1>9 DEF PauseSignals, Goto, TypeOK, pipes
  <2>2. \A g \in Gates : gate[g] \in {"run", "zombie", "gone"}
    BY <2>1 DEF GateInv
  <2>3. CASE pc'[P] = "throw"
    BY <2>1, <2>3 DEF GateInv
  <2>4. CASE pc'[P] = "stopping"
    <3>1. \A g \in Gates : Reached(g)
      BY <1>9, <2>4 DEF PauseSignals, Goto, TypeOK, Reachable, Reached
    <3>2. \A g \in Gates : gate'[g] = Stop(gate[g])
      BY <1>9, <3>1 DEF PauseSignals
    <3>3. \A g \in Gates : gate'[g] \in {"stopping", "stopped", "zombie", "gone"}
      BY <2>2, <3>2 DEF Stop
    <3>4. QED
      BY <2>1, <2>4, <3>3 DEF GateInv
  <2>5. QED
    BY <2>1, <2>3, <2>4
<1>10. CASE PauseSeen
  BY <1>10 DEF PauseSeen, AllStopped, StoppedStates, TypeOK, GateInv, Goto, pipes
<1>11. CASE PauseFails
  BY <1>11 DEF PauseFails, TypeOK, GateInv, Goto, Leave, pipes, flow
<1>12. CASE ResumeSignals
  <2>1. /\ pc[P] = "resume" /\ pc'[P] \in {"resuming", "throw"}
        /\ go' = go /\ main' = main
    BY <1>12 DEF ResumeSignals, Goto, TypeOK, pipes
  <2>2. \A g \in Gates : gate[g] \in {"stopped", "zombie", "gone"}
    BY <2>1 DEF GateInv
  <2>3. CASE pc'[P] = "throw"
    BY <2>1, <2>3 DEF GateInv
  <2>4. CASE pc'[P] = "resuming"
    <3>1. \A g \in Gates : Reached(g)
      BY <1>12, <2>4 DEF ResumeSignals, Goto, TypeOK, Reachable, Reached
    <3>2. \A g \in Gates : gate'[g] = Continue(gate[g])
      BY <1>12, <3>1 DEF ResumeSignals
    <3>3. \A g \in Gates : gate'[g] \in {"run", "waking", "zombie", "gone"}
      BY <2>2, <3>2 DEF Continue
    <3>4. QED
      BY <2>1, <2>4, <3>3 DEF GateInv
  <2>5. QED
    BY <2>1, <2>3, <2>4
<1>13. CASE ResumeSeen
  BY <1>13 DEF ResumeSeen, AllRunning, StoppedStates, TypeOK, GateInv, Goto, pipes
<1>14. CASE ResumeFails
  BY <1>14 DEF ResumeFails, TypeOK, GateInv, Goto, Leave, pipes, flow
<1>15. CASE Ungate
  <2>1. /\ pc[P] = "throw" /\ pc'[P] = "report"
        /\ go' = go /\ main' = main
        /\ \A g \in Gates : gate'[g] = Continue(gate[g])
    BY <1>15 DEF Ungate, Goto, TypeOK, pipes
  <2>2. \A g \in Gates : gate[g] \in GateStates
    BY DEF TypeOK
  <2>3. \A g \in Gates : gate'[g] \notin {"stopping", "stopped"}
    BY <2>1, <2>2 DEF Continue, GateStates
  <2>4. P \notin go => \A g \in Gates : gate'[g] \in {"run", "zombie", "gone"}
    BY <2>1 DEF Continue, GateInv
  <2>5. QED
    BY <2>1, <2>3, <2>4 DEF GateInv
<1>16. CASE EndOfTransfers
  BY <1>16 DEF EndOfTransfers, TypeOK, GateInv, Goto, Leave, pipes, flow
<1>17. CASE DecodeFails
  BY <1>17 DEF DecodeFails, TypeOK, GateInv, Goto, Leave, pipes, flow
<1>18. CASE ProducerExits
  BY <1>18 DEF ProducerExits, TypeOK, GateInv, Goto, Leave, pipes, flow
<1>19. CASE GateTurns
  BY <1>19 DEF GateTurns, TypeOK, GateInv, Goto, Leave, pipes, flow
<1>20. CASE GateExits
  BY <1>20 DEF GateExits, TypeOK, GateInv, Goto, Leave, pipes, flow
<1>21. CASE MainReadsReady
  BY <1>21 DEF MainReadsReady, TypeOK, GateInv, Goto, Leave, pipes, flow
<1>22. CASE MainSeesReady
  BY <1>22 DEF MainSeesReady, TypeOK, GateInv, Goto, Leave, pipes, flow
<1>23. CASE MainKilled
  BY <1>23 DEF MainKilled, TypeOK, GateInv, Goto, Leave, pipes, flow
<1>24. CASE GoProducer
  BY <1>24 DEF GoProducer, GiveGo, TypeOK, GateInv, Goto, Leave, pipes, flow
<1>25. CASE GoConsumer
  BY <1>25 DEF GoConsumer, GiveGo, TypeOK, GateInv, Goto, Leave, pipes, flow
<1>26. CASE CollectEnds
  BY <1>26 DEF CollectEnds, TypeOK, GateInv, Goto, Leave, pipes, flow
<1>27. CASE GetCredit
  BY <1>27 DEF GetCredit, TypeOK, GateInv, Goto, Leave, pipes, flow
<1>28. CASE EncodeDone
  BY <1>28 DEF EncodeDone, TypeOK, GateInv, Goto, Leave, pipes, flow
<1>29. CASE EncodeFails
  BY <1>29 DEF EncodeFails, TypeOK, GateInv, Goto, Leave, pipes, flow
<1>30. CASE Send
  <2>1. /\ pc[P] = "send" /\ pc'[P] \in {"next", "gone"}
        /\ go' = go /\ main' = main /\ gate' = gate
    BY <1>30 DEF Send, Goto, Leave, TypeOK, pipes
  <2>2. (\A g \in Gates : gate[g] \in {"run", "zombie", "gone"}) /\ P \in go
    BY <2>1 DEF GateInv
  <2>3. QED
    BY <2>1, <2>2 DEF GateInv
<1>31. CASE Drain
  BY <1>31 DEF Drain, TypeOK, GateInv, Goto, Leave, pipes, flow
<1>32. CASE Receive
  BY <1>32 DEF Receive, TypeOK, GateInv, Goto, Leave, pipes, flow
<1>33. CASE DecodeDone
  BY <1>33 DEF DecodeDone, TypeOK, GateInv, Goto, Leave, pipes, flow
<1>34. CASE Ack
  BY <1>34 DEF Ack, TypeOK, GateInv, Goto, Leave, pipes, flow
<1>35. CASE MainTerminates
  <2>1. main = "ready" /\ pc' = [c \in Children |-> "gone"] /\ UNCHANGED <<gate, go>>
    BY <1>35 DEF MainTerminates, pipes
  <2>2. pc'[P] = "gone" /\ P \notin go' /\ \A g \in Gates : gate'[g] \in {"run", "zombie", "gone"}
    BY <2>1 DEF GateInv
  <2>3. main' = "done"
    BY <1>35 DEF MainTerminates
  <2>4. QED
    BY <2>2, <2>3 DEF GateInv
<1>36. CASE Collect
  BY <1>36 DEF Collect, TypeOK, GateInv, Goto, Leave, pipes, flow
<1>37. CASE Reap
  BY <1>37 DEF Reap, TypeOK, GateInv, Goto, Leave, pipes, flow
<1>38. CASE UNCHANGED vars
  BY <1>38 DEF vars, TypeOK, GateInv, Goto, Leave, pipes, flow
<1>39. QED
  BY <1>1, <1>2, <1>3, <1>4, <1>5, <1>6, <1>7, <1>8, <1>9, <1>10, <1>11,
     <1>12, <1>13, <1>14, <1>15, <1>16, <1>17, <1>18, <1>19, <1>20, <1>21,
     <1>22, <1>23, <1>24, <1>25, <1>26, <1>27, <1>28, <1>29, <1>30, <1>31,
     <1>32, <1>33, <1>34, <1>35, <1>36, <1>37, <1>38
  DEF Next, ProducerSteps, ConsumerSteps, MainSteps, Mishaps, ChildSteps, Finished

\* The inductive invariant.
Inv == TypeOK /\ WindowInv /\ GateInv

LEMMA InvInit == Init => Inv
<1> SUFFICES ASSUME Init PROVE Inv
  OBVIOUS
<1>1. TypeOK
  BY DEF Init, TypeOK, ProducerLabels, ConsumerLabels, GateStates
<1>2. Counts /\ Contents /\ Results
  BY DEF Init, Counts, Contents, Results, Ahead
<1>3. GateInv
  BY DEF Init, GateInv
<1>4. QED
  BY <1>1, <1>2, <1>3 DEF Inv, WindowInv

LEMMA InvStep == Inv /\ [Next]_vars => Inv'
BY TypeStep, CountsStep, ContentsStep, ResultsStep, GateStep DEF Inv, WindowInv

LEMMA InvAlways == Spec => []Inv
BY InvInit, InvStep, PTL DEF Spec

\* Every variable of the pipeline keeps its type, in every run.
THEOREM WhisperTyped == Spec => []TypeOK
<1>1. Inv => TypeOK
  BY DEF Inv
<1>2. QED
  BY <1>1, InvAlways, PTL

\* The window and the gates keep the shape the other theorems rest on.
THEOREM WindowKept == Spec => []WindowInv
<1>1. Inv => WindowInv
  BY DEF Inv
<1>2. QED
  BY <1>1, InvAlways, PTL

\* The decoder only reads whole activations of its own request.
THEOREM ActivationWhole == Spec => []WholeActivation
<1>1. ASSUME Inv PROVE WholeActivation
  <2>1. SUFFICES ASSUME pc[C] = "decode"
                 PROVE  /\ activation[SlotOf(InHand)] = InHand
                        /\ pc[P] = "encode" => SlotOf(sent) # SlotOf(InHand)
    BY DEF WholeActivation
  <2>2. /\ InHand = Len(decoded) /\ InHand < sent /\ InHand \in Requests
        /\ sent \in Int
    BY <1>1, <2>1 DEF InHand, Inv, TypeOK, WindowInv, Counts
  <2>3. activation[SlotOf(InHand)] = InHand
    BY <1>1, <2>2 DEF Inv, WindowInv, Contents
  <2>4. ASSUME pc[P] = "encode" PROVE SlotOf(sent) # SlotOf(InHand)
    <3>1. sent < InHand + slots
      BY <1>1, <2>2, <2>4 DEF Inv, TypeOK, WindowInv, Counts, Ahead
    <3>2. slots \in PipelineSlots
      BY <1>1 DEF Inv, TypeOK
    <3>3. QED
      BY <2>2, <3>1, <3>2, SlotsDiffer
  <2>5. QED
    BY <2>3, <2>4
<1>2. QED
  BY <1>1, InvAlways, PTL

\* Success means every request was decoded once, in order, from its own encoding.
THEOREM OkSound == Spec => []OkMeansAllDecoded
<1>1. ASSUME Inv PROVE OkMeansAllDecoded
  <2>1. SUFFICES ASSUME verdict = "ok" PROVE decoded = [k \in 1 .. Total |-> k - 1]
    BY DEF OkMeansAllDecoded
  <2>2. Len(decoded) = Total /\ \A k \in 1 .. Total : decoded[k] = k - 1
    BY <1>1, <2>1 DEF Inv, WindowInv, Results
  <2>3. decoded \in Seq(Requests \cup {NoRequest})
    BY <1>1 DEF Inv, TypeOK
  <2>4. decoded = [k \in 1 .. Len(decoded) |-> decoded[k]]
    BY <2>3
  <2>5. QED
    BY <2>2, <2>4
<1>2. QED
  BY <1>1, InvAlways, PTL

\* No best-effort process runs while the encoder does.
THEOREM EncoderAlone == Spec => []EncodesAlone
<1>1. Inv => EncodesAlone
  BY DEF Inv, GateInv, EncodesAlone
<1>2. QED
  BY <1>1, InvAlways, PTL

\* No end of the producer but a sudden death leaves a gate process stopped.
THEOREM NoGateLeftStopped == Spec => []GatesReleased
<1>1. Inv => GatesReleased
  BY DEF Inv, GateInv, GatesReleased, Alive
<1>2. QED
  BY <1>1, InvAlways, PTL

\* The pipeline implements the abstract credit window, for every Total.
THEOREM WindowImplemented == Spec => ImplementsWindow
<1>1. Init => Window!Init
  BY DEF Init, Window!Init
<1>2. ASSUME Inv, [Next]_vars PROVE [Window!Next]_Window!vars
  <2>1. /\ Len(decoded) \in Int /\ sent \in Int /\ Len(decoded) <= sent
        /\ sent <= Total
    BY <1>2 DEF Inv, TypeOK, WindowInv, Counts
  <2>2. CASE Send
    <3>1. /\ pc[P] = "send" /\ slots' = slots /\ decoded' = decoded
          /\ sent' \in {sent, sent + 1}
      BY <2>2 DEF Send
    <3>2. sent < Total /\ sent - Len(decoded) < slots
      BY <1>2, <2>1, <3>1 DEF Inv, TypeOK, WindowInv, Counts, Ahead
    <3>3. QED
      BY <2>1, <3>1, <3>2 DEF Window!Next, Window!Publish, Window!vars
  <2>3. CASE DecodeDone
    <3>1. /\ pc[C] = "decode" /\ slots' = slots /\ sent' = sent
          /\ \/ decoded' = decoded
             \/ decoded' = Append(decoded, activation[SlotOf(InHand)])
      BY <2>3 DEF DecodeDone
    <3>2. Len(decoded) < sent /\ decoded \in Seq(Requests \cup {NoRequest})
      BY <1>2, <3>1 DEF Inv, TypeOK, WindowInv, Counts
    <3>3. Len(decoded') \in {Len(decoded), Len(decoded) + 1}
      BY <3>1, <3>2
    <3>4. QED
      BY <2>1, <3>1, <3>2, <3>3 DEF Window!Next, Window!Finish, Window!vars
  <2>4. CASE UNCHANGED <<slots, sent, decoded>>
    BY <2>4 DEF Window!vars
  <2>5. Send \/ DecodeDone \/ UNCHANGED <<slots, sent, decoded>>
    <3>1. ASSUME NEW c \in Children,
                 InitOk(c) \/ StartFails(c) \/ Report(c) \/ ReadGo(c) \/
                 GoClosed(c) \/ SetupOk(c) \/ Crash(c)
          PROVE  UNCHANGED <<slots, sent, decoded>>
      BY <3>1 DEF InitOk, StartFails, Report, ReadGo, GoClosed, SetupOk, Crash, flow
    <3>2. ASSUME NoMoreCredit \/ PauseSignals \/ PauseSeen \/ PauseFails \/
                 ResumeSignals \/ ResumeSeen \/ ResumeFails
                 \/ Ungate \/ EndOfTransfers \/ DecodeFails
          PROVE  UNCHANGED <<slots, sent, decoded>>
      BY <3>2 DEF NoMoreCredit, PauseSignals, PauseSeen, PauseFails,
         ResumeSignals, ResumeSeen, ResumeFails, Ungate, EndOfTransfers,
         DecodeFails, GiveGo, flow
    <3>3. ASSUME ProducerExits \/ GateTurns \/ GateExits \/ MainReadsReady \/
                 MainSeesReady \/ MainKilled \/ GoProducer
                 \/ GoConsumer \/ CollectEnds
          PROVE  UNCHANGED <<slots, sent, decoded>>
      BY <3>3 DEF ProducerExits, GateTurns, GateExits, MainReadsReady,
         MainSeesReady, MainKilled, GoProducer, GoConsumer, CollectEnds,
         GiveGo, flow
    <3>4. ASSUME GetCredit \/ EncodeDone \/ EncodeFails \/ Drain \/ Receive
                 \/ Ack \/ MainTerminates \/ Collect \/ Reap
          PROVE  UNCHANGED <<slots, sent, decoded>>
      BY <3>4 DEF GetCredit, EncodeDone, EncodeFails, Drain, Receive, Ack,
         MainTerminates, Collect, Reap, GiveGo, flow
    <3>5. CASE UNCHANGED vars
      BY <3>5 DEF vars, flow
    <3>6. QED
      BY <1>2, <3>1, <3>2, <3>3, <3>4, <3>5
      DEF Next, ProducerSteps, ConsumerSteps, MainSteps, Mishaps, ChildSteps, Finished
  <2>6. QED
    BY <2>2, <2>3, <2>4, <2>5
<1>3. QED
  BY <1>1, <1>2, InvAlways, PTL DEF Spec, ImplementsWindow, Window!Spec

-----------------------------------------------------------------------------
(***************************************************************************)
(* No circular wait, and steps that run out.  Most actions move one child  *)
(* and touch nothing that a wait or StepsLeft depends on; they are treated *)
(* as one kind, Moves, the others one by one.                              *)
(***************************************************************************)

AheadLabels == {"pause", "stopping", "encode", "resume", "resuming", "send"}
Still == <<slots, pipes, sent, taken, acked, acks, decoded, collected, main>>
LeftOf(c, l) == IF c = P THEN ProducerLeft(l) ELSE ConsumerLeft(l)

\* Child c goes from label a to label b.
Turns(c, a, b) ==
  /\ a # "gone" /\ pc[c] = a /\ pc' = [pc EXCEPT ![c] = b]
  /\ LeftOf(c, b) < LeftOf(c, a)
  /\ \/ b \in {"throw", "report", "gone"}
     \/ a = "go" /\ b = "setup" /\ c \in go
     \/ a = "setup" /\ b = (IF c = P THEN "next" ELSE "receive")
     \/ c = P /\ a \in AheadLabels /\ b \in AheadLabels
Moves == UNCHANGED Still /\ \E c \in Children : \E a, b \in ProducerLabels \cup ConsumerLabels : Turns(c, a, b)

\* Every label has its number of steps.
LEMMA LeftTyped ==
  /\ \A l \in ProducerLabels : ProducerLeft(l) \in Nat
  /\ \A l \in ConsumerLabels : ConsumerLeft(l) \in Nat
  /\ \A l \in {"ready", "go", "go2", "collect", "reap", "done", "gone"} : MainLeft(l) \in Nat
<1>1. ASSUME NEW l \in ProducerLabels PROVE ProducerLeft(l) \in Nat
  BY DEF ProducerLabels, ProducerLeft
<1>2. ASSUME NEW l \in ConsumerLabels PROVE ConsumerLeft(l) \in Nat
  BY DEF ConsumerLabels, ConsumerLeft
<1>3. ASSUME NEW l \in {"ready", "go", "go2", "collect", "reap", "done", "gone"}
      PROVE  MainLeft(l) \in Nat
  BY DEF MainLeft
<1>4. QED
  BY <1>1, <1>2, <1>3

\* A child that ends has no steps left, any other has.
LEMMA GoneLeft ==
  ASSUME TypeOK, NEW c \in Children, pc[c] # "gone"
  PROVE  LeftOf(c, "gone") < LeftOf(c, pc[c])
<1>1. CASE c = P
  <2>1. pc[P] \in ProducerLabels
    BY DEF TypeOK
  <2>2. ASSUME NEW l \in ProducerLabels, l # "gone" PROVE ProducerLeft("gone") < ProducerLeft(l)
    BY <2>2 DEF ProducerLabels, ProducerLeft
  <2>3. QED
    BY <1>1, <2>1, <2>2 DEF LeftOf
<1>2. CASE c = C
  <2>1. pc[C] \in ConsumerLabels
    BY DEF TypeOK
  <2>2. ASSUME NEW l \in ConsumerLabels, l # "gone" PROVE ConsumerLeft("gone") < ConsumerLeft(l)
    BY <2>2 DEF ConsumerLabels, ConsumerLeft
  <2>3. QED
    BY <1>2, <2>1, <2>2 DEF LeftOf
<1>3. QED
  BY <1>1, <1>2

\* A child that leaves moves.
LEMMA LeaveMoves ==
  ASSUME TypeOK, NEW c \in Children, NEW s, pc[c] # "gone", Leave(c, s), UNCHANGED Still
  PROVE  Moves
<1>1. LeftOf(c, "gone") < LeftOf(c, pc[c])
  BY GoneLeft
<1>2. pc' = [pc EXCEPT ![c] = "gone"]
  BY DEF Leave
<1>3. Turns(c, pc[c], "gone")
  BY <1>1, <1>2 DEF Turns
<1>4. "gone" \in ProducerLabels \cup ConsumerLabels /\ pc[c] \in ProducerLabels \cup ConsumerLabels
  BY DEF TypeOK, ProducerLabels
<1>5. QED
  BY <1>3, <1>4 DEF Moves

\* The actions that only move a child.
LEMMA MovingActions ==
  ASSUME TypeOK,
         \/ \E c \in Children : StartFails(c) \/ ReadGo(c) \/ GoClosed(c) \/ SetupOk(c) \/ Crash(c)
         \/ NoMoreCredit \/ PauseSignals \/ PauseSeen \/ PauseFails \/ EncodeDone \/ EncodeFails
         \/ ResumeSignals \/ ResumeSeen \/ ResumeFails \/ ProducerExits \/ Ungate
         \/ EndOfTransfers \/ DecodeFails
  PROVE  Moves
<1> DEFINE Labels == ProducerLabels \cup ConsumerLabels
<1>1. ASSUME NEW c \in Children, GoClosed(c) PROVE Moves
  <2>1. UNCHANGED Still
    BY <1>1 DEF GoClosed, Still, flow
  <2>2. pc[c] # "gone" /\ Leave(c, 3)
    BY <1>1 DEF GoClosed, Alive
  <2>3. QED
    BY <2>1, <2>2, LeaveMoves
<1>2. ASSUME NEW c \in Children, Crash(c) PROVE Moves
  <2>1. UNCHANGED Still
    BY <1>2 DEF Crash, Still, flow
  <2>2. pc[c] # "gone" /\ Leave(c, Crashed)
    BY <1>2 DEF Crash, Alive
  <2>3. QED
    BY <2>1, <2>2, LeaveMoves
<1>3. CASE NoMoreCredit
  <2>1. UNCHANGED Still
    BY <1>3 DEF NoMoreCredit, Still, flow
  <2>2. pc[P] # "gone" /\ Leave(P, 4)
    BY <1>3 DEF NoMoreCredit, Alive
  <2>3. QED
    BY <2>1, <2>2, LeaveMoves
<1>4. CASE ProducerExits
  <2>1. UNCHANGED Still
    BY <1>4 DEF ProducerExits, Still, flow
  <2>2. pc[P] # "gone" /\ Leave(P, 0)
    BY <1>4 DEF ProducerExits, Alive
  <2>3. QED
    BY <2>1, <2>2, LeaveMoves
<1>5. CASE EndOfTransfers
  <2>1. UNCHANGED Still
    BY <1>5 DEF EndOfTransfers, Still, flow
  <2>2. pc[C] # "gone" /\ Leave(C, 0)
    BY <1>5 DEF EndOfTransfers, Alive
  <2>3. QED
    BY <2>1, <2>2, LeaveMoves
<1>6. CASE PauseSignals
  <2>1. UNCHANGED Still
    BY <1>6 DEF PauseSignals, Still, flow
  <2>2. Turns(P, "pause", "stopping") \/ Turns(P, "pause", "throw")
    <3>1. CASE Reachable
      <4>1. pc[P] = "pause" /\ Goto(P, "stopping")
        BY <1>6, <3>1 DEF PauseSignals
      <4>2. Turns(P, "pause", "stopping")
        BY <4>1 DEF Goto, Turns, LeftOf, ProducerLeft, AheadLabels
      <4>3. QED
        BY <4>2
    <3>2. CASE ~Reachable
      <4>1. pc[P] = "pause" /\ Goto(P, "throw")
        BY <1>6, <3>2 DEF PauseSignals
      <4>2. Turns(P, "pause", "throw")
        BY <4>1 DEF Goto, Turns, LeftOf, ProducerLeft
      <4>3. QED
        BY <4>2
    <3>3. QED
      BY <3>1, <3>2
  <2>3. "pause" \in Labels /\ "stopping" \in Labels /\ "throw" \in Labels
    BY DEF ProducerLabels
  <2>4. QED
    BY <2>1, <2>2, <2>3 DEF Moves
<1>7. CASE PauseSeen
  <2>1. UNCHANGED Still
    BY <1>7 DEF PauseSeen, Still, flow
  <2>2. Turns(P, "stopping", "encode")
    BY <1>7 DEF PauseSeen, Goto, Turns, LeftOf, ProducerLeft, AheadLabels
  <2>3. "encode" \in Labels /\ "stopping" \in Labels
    BY DEF ProducerLabels
  <2>4. QED
    BY <2>1, <2>2, <2>3 DEF Moves
<1>8. CASE PauseFails
  <2>1. UNCHANGED Still
    BY <1>8 DEF PauseFails, Still, flow
  <2>2. Turns(P, "stopping", "throw")
    BY <1>8 DEF PauseFails, Goto, Turns, LeftOf, ProducerLeft, AheadLabels
  <2>3. "stopping" \in Labels /\ "throw" \in Labels
    BY DEF ProducerLabels
  <2>4. QED
    BY <2>1, <2>2, <2>3 DEF Moves
<1>9. CASE EncodeDone
  <2>1. UNCHANGED Still
    BY <1>9 DEF EncodeDone, Still, flow
  <2>2. Turns(P, "encode", "resume")
    BY <1>9 DEF EncodeDone, Goto, Turns, LeftOf, ProducerLeft, AheadLabels
  <2>3. "encode" \in Labels /\ "resume" \in Labels
    BY DEF ProducerLabels
  <2>4. QED
    BY <2>1, <2>2, <2>3 DEF Moves
<1>10. CASE EncodeFails
  <2>1. UNCHANGED Still
    BY <1>10 DEF EncodeFails, Still, flow
  <2>2. Turns(P, "encode", "throw")
    BY <1>10 DEF EncodeFails, Goto, Turns, LeftOf, ProducerLeft, AheadLabels
  <2>3. "encode" \in Labels /\ "throw" \in Labels
    BY DEF ProducerLabels
  <2>4. QED
    BY <2>1, <2>2, <2>3 DEF Moves
<1>11. CASE ResumeSignals
  <2>1. UNCHANGED Still
    BY <1>11 DEF ResumeSignals, Still, flow
  <2>2. Turns(P, "resume", "resuming") \/ Turns(P, "resume", "throw")
    <3>1. CASE Reachable
      <4>1. pc[P] = "resume" /\ Goto(P, "resuming")
        BY <1>11, <3>1 DEF ResumeSignals
      <4>2. Turns(P, "resume", "resuming")
        BY <4>1 DEF Goto, Turns, LeftOf, ProducerLeft, AheadLabels
      <4>3. QED
        BY <4>2
    <3>2. CASE ~Reachable
      <4>1. pc[P] = "resume" /\ Goto(P, "throw")
        BY <1>11, <3>2 DEF ResumeSignals
      <4>2. Turns(P, "resume", "throw")
        BY <4>1 DEF Goto, Turns, LeftOf, ProducerLeft
      <4>3. QED
        BY <4>2
    <3>3. QED
      BY <3>1, <3>2
  <2>3. "resume" \in Labels /\ "resuming" \in Labels /\ "throw" \in Labels
    BY DEF ProducerLabels
  <2>4. QED
    BY <2>1, <2>2, <2>3 DEF Moves
<1>12. CASE ResumeSeen
  <2>1. UNCHANGED Still
    BY <1>12 DEF ResumeSeen, Still, flow
  <2>2. Turns(P, "resuming", "send")
    BY <1>12 DEF ResumeSeen, Goto, Turns, LeftOf, ProducerLeft, AheadLabels
  <2>3. "resuming" \in Labels /\ "send" \in Labels
    BY DEF ProducerLabels
  <2>4. QED
    BY <2>1, <2>2, <2>3 DEF Moves
<1>13. CASE ResumeFails
  <2>1. UNCHANGED Still
    BY <1>13 DEF ResumeFails, Still, flow
  <2>2. Turns(P, "resuming", "throw")
    BY <1>13 DEF ResumeFails, Goto, Turns, LeftOf, ProducerLeft, AheadLabels
  <2>3. "resuming" \in Labels /\ "throw" \in Labels
    BY DEF ProducerLabels
  <2>4. QED
    BY <2>1, <2>2, <2>3 DEF Moves
<1>14. CASE Ungate
  <2>1. UNCHANGED Still
    BY <1>14 DEF Ungate, Still, flow
  <2>2. Turns(P, "throw", "report")
    BY <1>14 DEF Ungate, Goto, Turns, LeftOf, ProducerLeft, AheadLabels
  <2>3. "report" \in Labels /\ "throw" \in Labels
    BY DEF ProducerLabels
  <2>4. QED
    BY <2>1, <2>2, <2>3 DEF Moves
<1>15. CASE DecodeFails
  <2>1. UNCHANGED Still
    BY <1>15 DEF DecodeFails, Still, flow
  <2>2. Turns(C, "decode", "report")
    BY <1>15 DEF DecodeFails, Goto, Turns, LeftOf, ConsumerLeft, AheadLabels
  <2>3. "decode" \in Labels /\ "report" \in Labels
    BY DEF ConsumerLabels
  <2>4. QED
    BY <2>1, <2>2, <2>3 DEF Moves
<1>16. ASSUME NEW c \in Children, StartFails(c) PROVE Moves
  <2>1. UNCHANGED Still
    BY <1>16 DEF StartFails, Still, flow
  <2>2. CASE c = P
    <3>1. Turns(P, "init", "throw") \/ Turns(P, "setup", "throw")
      BY <1>16, <2>2 DEF StartFails, Handler, Goto, Turns, LeftOf, ProducerLeft
    <3>2. "init" \in Labels /\ "report" \in Labels /\ "setup" \in Labels /\ "throw" \in Labels
      BY DEF ProducerLabels, ConsumerLabels
    <3>3. QED
      BY <2>1, <3>1, <3>2 DEF Moves
  <2>3. CASE c = C
    <3>1. Turns(C, "init", "report") \/ Turns(C, "setup", "report")
      BY <1>16, <2>3 DEF StartFails, Handler, Goto, Turns, LeftOf, ConsumerLeft
    <3>2. "init" \in Labels /\ "report" \in Labels /\ "setup" \in Labels /\ "throw" \in Labels
      BY DEF ProducerLabels, ConsumerLabels
    <3>3. QED
      BY <2>1, <3>1, <3>2 DEF Moves
  <2>4. QED
    BY <2>2, <2>3
<1>17. ASSUME NEW c \in Children, ReadGo(c) PROVE Moves
  <2>1. UNCHANGED Still
    BY <1>17 DEF ReadGo, Still, flow
  <2>2. CASE c = P
    <3>1. Turns(P, "go", "setup")
      BY <1>17, <2>2 DEF ReadGo, Goto, Turns, LeftOf, ProducerLeft
    <3>2. "go" \in Labels /\ "setup" \in Labels
      BY DEF ProducerLabels, ConsumerLabels
    <3>3. QED
      BY <2>1, <3>1, <3>2 DEF Moves
  <2>3. CASE c = C
    <3>1. Turns(C, "go", "setup")
      BY <1>17, <2>3 DEF ReadGo, Goto, Turns, LeftOf, ConsumerLeft
    <3>2. "go" \in Labels /\ "setup" \in Labels
      BY DEF ProducerLabels, ConsumerLabels
    <3>3. QED
      BY <2>1, <3>1, <3>2 DEF Moves
  <2>4. QED
    BY <2>2, <2>3
<1>18. ASSUME NEW c \in Children, SetupOk(c) PROVE Moves
  <2>1. UNCHANGED Still
    BY <1>18 DEF SetupOk, Still, flow
  <2>2. CASE c = P
    <3>1. Turns(P, "setup", "next")
      BY <1>18, <2>2 DEF SetupOk, Goto, Turns, LeftOf, ProducerLeft
    <3>2. "next" \in Labels /\ "receive" \in Labels /\ "setup" \in Labels
      BY DEF ProducerLabels, ConsumerLabels
    <3>3. QED
      BY <2>1, <3>1, <3>2 DEF Moves
  <2>3. CASE c = C
    <3>1. Turns(C, "setup", "receive")
      BY <1>18, <2>3 DEF SetupOk, Goto, Turns, LeftOf, ConsumerLeft
    <3>2. "next" \in Labels /\ "receive" \in Labels /\ "setup" \in Labels
      BY DEF ProducerLabels, ConsumerLabels
    <3>3. QED
      BY <2>1, <3>1, <3>2 DEF Moves
  <2>4. QED
    BY <2>2, <2>3
<1>19. QED
  BY <1>1, <1>2, <1>3, <1>4, <1>5, <1>6, <1>7, <1>8, <1>9,
     <1>10, <1>11, <1>12, <1>13, <1>14, <1>15, <1>16, <1>17, <1>18

\* What a step can be, for the waits and for the steps that are left.
LEMMA StepKinds ==
  ASSUME TypeOK, [Next]_vars
  PROVE  \/ Moves
         \/ \E c \in Children : InitOk(c) \/ Report(c)
         \/ GetCredit \/ Send \/ Drain \/ Receive \/ DecodeDone \/ Ack
         \/ MainReadsReady \/ MainTerminates \/ MainSeesReady \/ GoProducer \/ GoConsumer
         \/ Collect \/ CollectEnds \/ Reap \/ MainKilled
         \/ UNCHANGED <<slots, pc, status, pipes, flow, main, verdict>>
<1>1. GateTurns \/ GateExits => UNCHANGED <<slots, pc, status, pipes, flow, main, verdict>>
  BY DEF GateTurns, GateExits
<1>2. UNCHANGED vars => UNCHANGED <<slots, pc, status, pipes, flow, main, verdict>>
  BY DEF vars
<1>3. QED
  BY <1>1, <1>2, MovingActions
  DEF Next, ProducerSteps, ConsumerSteps, MainSteps, Mishaps, ChildSteps, Finished

\* What a turn does to the labels of both children.
LEMMA TurnFacts ==
  ASSUME TypeOK, NEW c \in Children, NEW a, NEW b, Turns(c, a, b)
  PROVE  pc[c] = a /\ pc'[c] = b /\ \A d \in Children \ {c} : pc'[d] = pc[d]
BY DEF TypeOK, Turns

\* Going ahead without touching a counter keeps the credits exact.
LEMMA CreditsFrame ==
  ASSUME TypeOK, CreditsExact, UNCHANGED <<slots, sent, acks>>,
         \/ pc'[P] = pc[P]
         \/ pc'[P] \in {"throw", "report", "gone"}
         \/ pc[P] \in {"init", "go"} /\ pc'[P] \in {"go", "setup"}
         \/ pc[P] = "setup" /\ pc'[P] = "next"
         \/ pc[P] \in AheadLabels /\ pc'[P] \in AheadLabels
  PROVE  CreditsExact'
<1>1. slots \in Nat \ {0}
  BY DEF TypeOK
<1>2. CASE pc'[P] = pc[P]
  BY <1>2 DEF CreditsExact, Ahead
<1>3. CASE pc'[P] \in {"throw", "report", "gone"}
  BY <1>3 DEF CreditsExact, Ahead
<1>4. CASE pc[P] \in {"init", "go"} /\ pc'[P] \in {"go", "setup"}
  BY <1>4 DEF CreditsExact, Ahead
<1>5. CASE pc[P] = "setup" /\ pc'[P] = "next"
  <2>1. sent = 0 /\ acks = 0
    BY <1>5 DEF CreditsExact
  <2>2. sent' < slots' /\ acks' = 0
    BY <1>1, <2>1
  <2>3. QED
    BY <1>5, <2>2 DEF CreditsExact, Ahead
<1>6. CASE pc[P] \in AheadLabels /\ pc'[P] \in AheadLabels
  BY <1>6 DEF CreditsExact, Ahead, AheadLabels
<1>7. QED
  BY <1>2, <1>3, <1>4, <1>5, <1>6

\* Each step reads as many credits as the window asks for.
LEMMA CreditsStep ==
  ASSUME TypeOK, Counts, CreditsExact, [Next]_vars
  PROVE  CreditsExact'
<1>1. CASE Moves
  <2>1. UNCHANGED <<slots, sent, acks>>
    BY <1>1 DEF Moves, Still
  <2>2. PICK c \in Children, a, b \in ProducerLabels \cup ConsumerLabels : Turns(c, a, b)
    BY <1>1 DEF Moves
  <2>3. pc[c] = a /\ pc'[c] = b /\ \A d \in Children \ {c} : pc'[d] = pc[d]
    BY <2>2, TurnFacts
  <2>4. CASE c = P
    <3>1. \/ b \in {"throw", "report", "gone"}
          \/ a = "go" /\ b = "setup"
          \/ a = "setup" /\ b = "next"
          \/ a \in AheadLabels /\ b \in AheadLabels
      BY <2>2, <2>4 DEF Turns
    <3>2. QED
      BY <2>1, <2>3, <2>4, <3>1, CreditsFrame
  <2>5. CASE c = C
    BY <2>1, <2>3, <2>5, CreditsFrame
  <2>6. QED
    BY <2>4, <2>5
<1>2. ASSUME NEW c \in Children, InitOk(c) PROVE CreditsExact'
  <2>1. UNCHANGED <<slots, sent, acks>>
    BY <1>2 DEF InitOk, flow
  <2>2. pc[c] = "init" /\ (Goto(c, "go") \/ Leave(c, Broken))
    BY <1>2 DEF InitOk
  <2>3. pc'[P] = pc[P] \/ pc'[P] = "gone" \/ (pc[P] = "init" /\ pc'[P] = "go")
    BY <2>2 DEF TypeOK, Goto, Leave
  <2>4. QED
    BY <2>1, <2>3, CreditsFrame
<1>3. ASSUME NEW c \in Children, Report(c) PROVE CreditsExact'
  <2>1. UNCHANGED <<slots, sent, acks>>
    BY <1>3 DEF Report, flow
  <2>2. Leave(c, 5) \/ Leave(c, Broken)
    BY <1>3 DEF Report
  <2>3. pc'[P] = pc[P] \/ pc'[P] = "gone"
    BY <2>2 DEF TypeOK, Leave
  <2>4. QED
    BY <2>1, <2>3, CreditsFrame
<1>4. CASE GetCredit
  <2>1. /\ pc[P] = "next" /\ pc' = [pc EXCEPT ![P] = "pause"]
        /\ sent < Total /\ UNCHANGED <<slots, sent>>
    BY <1>4 DEF GetCredit, Goto
  <2>2. acks = IF sent < slots THEN 0 ELSE sent - slots
    BY <2>1 DEF CreditsExact
  <2>3. \/ sent >= slots /\ acks' = acks + 1
        \/ ~(sent >= slots) /\ acks' = acks
    BY <1>4 DEF GetCredit, CreditNeeded
  <2>4. sent \in Nat /\ slots \in Nat
    BY DEF TypeOK
  <2>5. acks' = IF sent < slots THEN 0 ELSE sent + 1 - slots
    BY <2>2, <2>3, <2>4
  <2>6. pc'[P] = "pause"
    BY <2>1 DEF TypeOK
  <2>7. QED
    BY <2>1, <2>5, <2>6 DEF CreditsExact
<1>5. CASE Send
  <2>1. /\ pc[P] = "send" /\ UNCHANGED <<slots, acks>>
        /\ \/ Goto(P, "next") /\ sent' = sent + 1
           \/ Leave(P, Broken) /\ sent' = sent
    BY <1>5 DEF Send
  <2>2. acks = IF sent < slots THEN 0 ELSE sent + 1 - slots
    BY <2>1 DEF CreditsExact, Ahead
  <2>3. sent \in Nat /\ slots \in Nat
    BY DEF TypeOK
  <2>4. CASE Goto(P, "next") /\ sent' = sent + 1
    <3>1. pc'[P] = "next"
      BY <2>4 DEF TypeOK, Goto
    <3>2. acks' = IF sent' < slots' THEN 0 ELSE sent' - slots'
      BY <2>1, <2>2, <2>3, <2>4
    <3>3. QED
      BY <3>1, <3>2 DEF CreditsExact, Ahead
  <2>5. CASE Leave(P, Broken)
    <3>1. pc'[P] = "gone"
      BY <2>5 DEF TypeOK, Leave
    <3>2. QED
      BY <3>1 DEF CreditsExact, Ahead
  <2>6. QED
    BY <2>1, <2>4, <2>5
<1>6. CASE Drain
  <2>1. pc[P] = "next" /\ sent = Total /\ UNCHANGED <<pc, sent>>
    BY <1>6 DEF Drain
  <2>2. Total \in Nat
    OBVIOUS
  <2>3. QED
    BY <2>1, <2>2 DEF CreditsExact, Ahead
<1>7. CASE Receive \/ DecodeDone \/ Ack
  <2>1. UNCHANGED <<slots, sent, acks>>
    BY <1>7 DEF Receive, DecodeDone, Ack
  <2>2. \E l : pc' = [pc EXCEPT ![C] = l]
    BY <1>7 DEF Receive, DecodeDone, Ack, Goto, Leave
  <2>3. pc'[P] = pc[P]
    BY <2>2 DEF TypeOK
  <2>4. QED
    BY <2>1, <2>3, CreditsFrame
<1>8. CASE MainTerminates
  <2>1. UNCHANGED <<slots, sent, acks>> /\ pc'[P] = "gone"
    BY <1>8 DEF MainTerminates, flow
  <2>2. QED
    BY <2>1, CreditsFrame
<1>9. CASE MainReadsReady \/ MainSeesReady \/ GoProducer \/ GoConsumer
  <2>1. UNCHANGED <<slots, pc, sent, acks>>
    BY <1>9 DEF MainReadsReady, MainSeesReady, GoProducer, GoConsumer, GiveGo, flow
  <2>2. QED
    BY <2>1, CreditsFrame
<1>10. CASE Collect \/ CollectEnds \/ Reap \/ MainKilled
  <2>1. UNCHANGED <<slots, pc, sent, acks>>
    BY <1>10 DEF Collect, CollectEnds, Reap, MainKilled, flow
  <2>2. QED
    BY <2>1, CreditsFrame
<1>11. CASE UNCHANGED <<slots, pc, status, pipes, flow, main, verdict>>
  <2>1. UNCHANGED <<slots, pc, sent, acks>>
    BY <1>11 DEF flow
  <2>2. QED
    BY <2>1, CreditsFrame
<1>12. QED
  BY StepKinds, <1>1, <1>2, <1>3, <1>4, <1>5, <1>6, <1>7, <1>8, <1>9, <1>10, <1>11

\* The start-up hand-shake does not look at a child that already has its go.
LEMMA HandshakeFrame ==
  ASSUME HandshakeInv, UNCHANGED <<readiness, readyPipe, go, main>>,
         \A c \in Children :
           \/ pc'[c] = pc[c]
           \/ /\ pc[c] # "gone"
              /\ pc'[c] \in {"throw", "report", "gone"} \/ (c \in go /\ pc'[c] # "go")
  PROVE  HandshakeInv'
<1>1. \A c \in Children : pc'[c] = "go" => pc[c] = "go"
  OBVIOUS
<1>2. \A c \in Children :
        pc'[c] \notin {"init", "go", "throw", "report", "gone"} => c \in go'
  BY DEF HandshakeInv
<1>3. main' = "done" => \A c \in Children : pc'[c] = "gone"
  BY DEF HandshakeInv, Alive
<1>4. QED
  BY <1>1, <1>2, <1>3 DEF HandshakeInv, Alive

\* Every Ready message is in the pipe or read until main gives the first go.
LEMMA HandshakeStep ==
  ASSUME TypeOK, HandshakeInv, [Next]_vars
  PROVE  HandshakeInv'
<1>0. /\ readyPipe \in Seq({0, 1}) /\ Len(readyPipe) \in Nat
      /\ readiness \in Seq({0, 1}) /\ Len(readiness) \in Nat
  BY DEF TypeOK
<1>1. CASE Moves
  <2>1. UNCHANGED <<readiness, readyPipe, go, main>>
    BY <1>1 DEF Moves, Still, pipes
  <2>2. PICK c \in Children, a, b \in ProducerLabels \cup ConsumerLabels : Turns(c, a, b)
    BY <1>1 DEF Moves
  <2>3. pc[c] = a /\ pc'[c] = b /\ \A d \in Children \ {c} : pc'[d] = pc[d]
    BY <2>2, TurnFacts
  <2>4. a # "gone" /\ (b \in {"throw", "report", "gone"} \/ (c \in go /\ b # "go"))
    <3>1. a = "setup" \/ a \in AheadLabels => c \in go
      BY <2>3 DEF HandshakeInv, AheadLabels
    <3>2. QED
      BY <2>2, <3>1 DEF Turns, AheadLabels
  <2>5. QED
    BY <2>1, <2>3, <2>4, HandshakeFrame
<1>2. ASSUME NEW c \in Children, InitOk(c) PROVE HandshakeInv'
  <2>1. pc[c] = "init" /\ UNCHANGED <<readiness, go, main>>
    BY <1>2 DEF InitOk
  <2>2. CASE ReadyOpen
    <3>1. pc' = [pc EXCEPT ![c] = "go"] /\ readyPipe' = Append(readyPipe, 0) /\ main = "ready"
      BY <1>2, <2>2 DEF InitOk, Goto, ReadyOpen
    <3>2. pc'[c] = "go" /\ \A d \in Children \ {c} : pc'[d] = pc[d]
      BY <3>1 DEF TypeOK
    <3>3. Len(readyPipe') = Len(readyPipe) + 1
      BY <1>0, <3>1
    <3>4. (\E d \in Children \ {c} : pc[d] = "go") => Len(readiness) + Len(readyPipe) >= 1
      BY <3>1 DEF HandshakeInv
    <3>5. /\ Len(readiness') + Len(readyPipe') >= 1
          /\ (\A d \in Children : pc'[d] = "go") => Len(readiness') + Len(readyPipe') >= 2
      <4>1. (\A d \in Children : pc'[d] = "go") => \E d \in Children \ {c} : pc[d] = "go"
        BY <3>2
      <4>2. QED
        BY <1>0, <2>1, <3>3, <3>4, <4>1
    <3>6. go = {}
      BY <3>1 DEF HandshakeInv
    <3>7. \A d \in Children : pc'[d] \in {"init", "go", "throw", "report", "gone"}
      BY <3>2, <3>6 DEF HandshakeInv
    <3>8. QED
      BY <2>1, <3>1, <3>5, <3>6, <3>7 DEF HandshakeInv
  <2>3. CASE ~ReadyOpen
    <3>1. UNCHANGED readyPipe /\ pc' = [pc EXCEPT ![c] = "gone"]
      BY <1>2, <2>3 DEF InitOk, Leave
    <3>2. pc'[c] = "gone" /\ \A d \in Children \ {c} : pc'[d] = pc[d]
      BY <3>1 DEF TypeOK
    <3>3. QED
      BY <2>1, <3>1, <3>2, HandshakeFrame
  <2>4. QED
    BY <2>2, <2>3
<1>3. ASSUME NEW c \in Children, Report(c) PROVE HandshakeInv'
  <2>1. pc[c] = "report" /\ UNCHANGED <<readiness, go, main>>
    BY <1>3 DEF Report
  <2>2. pc' = [pc EXCEPT ![c] = "gone"]
    BY <1>3 DEF Report, Leave
  <2>3. pc'[c] = "gone" /\ \A d \in Children \ {c} : pc'[d] = pc[d]
    BY <2>2 DEF TypeOK
  <2>4. readyPipe' = readyPipe \/ readyPipe' = Append(readyPipe, 1)
    BY <1>3 DEF Report
  <2>5. Len(readyPipe') >= Len(readyPipe) /\ Len(readyPipe') \in Nat
    BY <1>0, <2>4
  <2>6. \A d \in Children : pc'[d] = "go" => pc[d] = "go"
    BY <2>3
  <2>7. main' = "ready" =>
          /\ \A d \in Children : pc'[d] = "go" => Len(readiness') + Len(readyPipe') >= 1
          /\ (\A d \in Children : pc'[d] = "go") => Len(readiness') + Len(readyPipe') >= 2
    <3>1. ASSUME main = "ready", NEW d \in Children, pc'[d] = "go"
          PROVE  Len(readiness') + Len(readyPipe') >= 1
      <4>1. Len(readiness) + Len(readyPipe) >= 1
        BY <2>6, <3>1 DEF HandshakeInv
      <4>2. QED
        BY <1>0, <2>1, <2>5, <4>1
    <3>2. ~\A d \in Children : pc'[d] = "go"
      BY <2>3
    <3>3. QED
      BY <2>1, <3>1, <3>2
  <2>8. main' = "done" => \A d \in Children : ~Alive(d)'
    BY <2>1, <2>3 DEF HandshakeInv, Alive
  <2>9. \A d \in Children :
          pc'[d] \notin {"init", "go", "throw", "report", "gone"} => d \in go'
    BY <2>1, <2>3 DEF HandshakeInv
  <2>10. QED
    BY <2>1, <2>7, <2>8, <2>9 DEF HandshakeInv
<1>4. CASE GetCredit \/ Send \/ Drain \/ Receive \/ DecodeDone \/ Ack
  <2>1. UNCHANGED <<readiness, readyPipe, go, main>>
    BY <1>4 DEF GetCredit, Send, Drain, Receive, DecodeDone, Ack, pipes
  <2>2. PICK c \in Children :
          /\ pc[c] \in {"next", "send", "receive", "decode", "ack"}
          /\ \E l \in {"pause", "next", "decode", "ack", "receive", "gone"} :
               pc' = [pc EXCEPT ![c] = l]
    <3>1. CASE GetCredit
      BY <3>1 DEF GetCredit, Goto
    <3>2. CASE Send
      BY <3>2 DEF Send, Goto, Leave
    <3>3. CASE Drain
      <4>1. pc[P] = "next" /\ pc' = pc
        BY <3>3 DEF Drain
      <4>2. pc' = [pc EXCEPT ![P] = "next"]
        BY <4>1 DEF TypeOK
      <4>3. QED
        BY <4>1, <4>2
    <3>4. CASE Receive
      BY <3>4 DEF Receive, Goto
    <3>5. CASE DecodeDone
      BY <3>5 DEF DecodeDone, Goto, Leave
    <3>6. CASE Ack
      BY <3>6 DEF Ack, Goto, Leave
    <3>7. QED
      BY <1>4, <3>1, <3>2, <3>3, <3>4, <3>5, <3>6
  <2>3. c \in go
    BY <2>2 DEF HandshakeInv
  <2>4. /\ pc'[c] \in {"pause", "next", "decode", "ack", "receive", "gone"}
        /\ \A d \in Children \ {c} : pc'[d] = pc[d]
    BY <2>2 DEF TypeOK
  <2>5. QED
    BY <2>1, <2>2, <2>3, <2>4, HandshakeFrame
<1>5. CASE MainReadsReady
  <2>1. /\ main = "ready" /\ Len(readiness) < 2 /\ readyPipe # <<>>
        /\ readiness' = Append(readiness, Head(readyPipe)) /\ readyPipe' = Tail(readyPipe)
        /\ UNCHANGED <<pc, go, main>>
    BY <1>5 DEF MainReadsReady
  <2>2. Len(readiness') = Len(readiness) + 1
    BY <1>0, <2>1
  <2>3. Len(readyPipe') = Len(readyPipe) - 1
    BY <1>0, <2>1
  <2>4. Len(readiness') <= 2 /\ Len(readiness') + Len(readyPipe') = Len(readiness) + Len(readyPipe)
    BY <1>0, <2>1, <2>2, <2>3
  <2>5. QED
    BY <2>1, <2>4 DEF HandshakeInv, Alive
<1>6. CASE MainTerminates
  <2>1. /\ main = "ready" /\ main' = "done" /\ pc' = [c \in Children |-> "gone"]
        /\ UNCHANGED <<readiness, go>>
    BY <1>6 DEF MainTerminates, pipes
  <2>2. \A c \in Children : pc'[c] = "gone"
    BY <2>1
  <2>3. QED
    BY <2>1, <2>2 DEF HandshakeInv, Alive
<1>7. CASE MainSeesReady
  <2>1. main = "ready" /\ main' = "go" /\ UNCHANGED <<pc, readiness, readyPipe, go>>
    BY <1>7 DEF MainSeesReady, pipes
  <2>2. QED
    BY <2>1 DEF HandshakeInv, Alive
<1>8. CASE GoProducer \/ GoConsumer
  <2>1. /\ UNCHANGED <<pc, readiness>>
        /\ \/ main' = "gone" /\ go' = go
           \/ main = "go" /\ main' = "go2" /\ go' = go \cup {P}
           \/ main = "go2" /\ main' = "collect" /\ go' = go \cup {C}
    BY <1>8 DEF GoProducer, GoConsumer, GiveGo
  <2>2. go \subseteq go'
    BY <2>1
  <2>3. C \in go' => P \in go'
    BY <2>1 DEF HandshakeInv
  <2>4. (main' = "go2" => go' = {P}) /\ (main' = "collect" => go' = Children)
    BY <2>1 DEF HandshakeInv
  <2>5. QED
    BY <2>1, <2>2, <2>3, <2>4 DEF HandshakeInv
<1>9. CASE Collect
  <2>1. UNCHANGED <<pc, readiness, readyPipe, go, main>>
    BY <1>9 DEF Collect, pipes
  <2>2. QED
    BY <2>1, HandshakeFrame
<1>10. CASE CollectEnds
  <2>1. main = "collect" /\ main' = "reap" /\ UNCHANGED <<pc, readiness, readyPipe, go>>
    BY <1>10 DEF CollectEnds, pipes
  <2>2. QED
    BY <2>1 DEF HandshakeInv
<1>11. CASE Reap
  <2>1. /\ main' = "done" /\ UNCHANGED <<pc, readiness, readyPipe, go>>
        /\ \A c \in Children : ~Alive(c)
    BY <1>11 DEF Reap, pipes
  <2>2. QED
    BY <2>1 DEF HandshakeInv, Alive
<1>12. CASE MainKilled
  <2>1. main' = "gone" /\ UNCHANGED <<pc, readiness, readyPipe, go>>
    BY <1>12 DEF MainKilled, pipes
  <2>2. QED
    BY <2>1 DEF HandshakeInv
<1>13. CASE UNCHANGED <<slots, pc, status, pipes, flow, main, verdict>>
  <2>1. UNCHANGED <<pc, readiness, readyPipe, go, main>>
    BY <1>13 DEF pipes
  <2>2. QED
    BY <2>1, HandshakeFrame
<1>14. QED
  BY StepKinds, <1>1, <1>2, <1>3, <1>4, <1>5, <1>6, <1>7, <1>8, <1>9, <1>10, <1>11, <1>12, <1>13

\* Initially nobody waits.
LEMMA WaitInit == Init => WaitInv
BY DEF Init, WaitInv, CreditsExact, HandshakeInv, Ahead, Alive

\* What waiting processes know holds in every state.
LEMMA WaitAlways == Spec => []WaitInv
<1>1. ASSUME Inv, WaitInv, [Next]_vars PROVE WaitInv'
  <2>1. TypeOK /\ Counts
    BY <1>1 DEF Inv, WindowInv
  <2>2. CreditsExact' /\ HandshakeInv'
    BY <1>1, <2>1, CreditsStep, HandshakeStep DEF WaitInv
  <2>3. QED
    BY <2>2 DEF WaitInv
<1>2. QED
  BY <1>1, WaitInit, InvAlways, PTL DEF Spec

\* main, encoder and decoder never wait for each other in a circle.
THEOREM NobodyWaitsInCircle == Spec => []NoCircularWait
<1>1. ASSUME Inv, WaitInv, AllBlocked PROVE Over \/ ReadyLost
  <2>0. /\ TypeOK /\ Counts /\ CreditsExact /\ HandshakeInv
        /\ slots \in Nat \ {0} /\ sent \in Nat /\ acks \in Nat /\ acked \in Nat /\ taken \in Nat
        /\ main \in {"ready", "go", "go2", "collect", "reap", "done", "gone"}
        /\ pc[P] = "gone" => ~Alive(P)
    BY <1>1 DEF Inv, WindowInv, WaitInv, TypeOK, Alive
  <2>1. CASE main = "done"
    BY <2>0, <2>1 DEF Over, HandshakeInv
  <2>2. ASSUME pc[P] = "next", ProducerBlocked, pc[C] = "receive", ConsumerBlocked PROVE FALSE
    <3>1. acks = acked /\ taken = sent /\ acked = taken
      BY <2>0, <2>2 DEF ProducerBlocked, ConsumerBlocked, Counts
    <3>2. CASE sent < Total /\ CreditNeeded
      <4>1. acks = IF sent < slots THEN 0 ELSE sent - slots
        BY <2>0, <2>2, <3>2 DEF CreditsExact
      <4>2. sent >= slots
        BY <3>2 DEF CreditNeeded
      <4>3. QED
        BY <2>0, <3>1, <4>1, <4>2
    <3>3. CASE sent = Total /\ acks < Total
      BY <2>0, <3>1, <3>3
    <3>4. QED
      BY <2>2, <3>2, <3>3 DEF ProducerBlocked
  <2>3. Alive(P) => (pc[P] = "go" /\ P \notin go /\ main # "gone") \/ (pc[P] = "next" /\ Alive(C))
    BY <1>1 DEF AllBlocked, ProducerBlocked
  <2>4. Alive(C) => (pc[C] = "go" /\ C \notin go /\ main # "gone") \/ (pc[C] = "receive" /\ Alive(P))
    BY <1>1 DEF AllBlocked, ConsumerBlocked
  <2>5. ~(pc[P] = "next" /\ pc[C] = "receive")
    BY <1>1, <2>2 DEF AllBlocked, Alive
  <2>6. CASE main = "gone"
    <3>1. ~Alive(P) /\ ~Alive(C)
      BY <2>3, <2>4, <2>5, <2>6
    <3>2. QED
      BY <2>6, <3>1 DEF Over
  <2>7. CASE main \in {"go", "go2"}
    BY <1>1, <2>7 DEF AllBlocked, MainBlocked
  <2>8. CASE main \in {"collect", "reap"}
    <3>1. go = Children
      BY <2>0, <2>8 DEF HandshakeInv
    <3>2. ~Alive(P) /\ ~Alive(C)
      BY <2>3, <2>4, <2>5, <3>1
    <3>3. QED
      BY <1>1, <2>8, <3>2 DEF AllBlocked, MainBlocked
  <2>9. CASE main = "ready"
    <3>1. Len(readiness) < 2 /\ readyPipe = <<>> /\ \E c \in Children : Alive(c)
      BY <1>1, <2>9 DEF AllBlocked, MainBlocked
    <3>2. go = {} /\ \A c \in Children : pc[c] \in {"init", "go", "throw", "report", "gone"}
      BY <2>0, <2>9 DEF HandshakeInv
    <3>3. \A c \in Children : Alive(c) => pc[c] = "go"
      BY <2>3, <2>4, <3>2
    <3>4. Len(readiness) \in Nat /\ Len(readyPipe) = 0
      BY <2>0, <3>1 DEF TypeOK
    <3>5. Len(readiness) + Len(readyPipe) < 2
      BY <3>1, <3>4
    <3>6. ~\A c \in Children : pc[c] = "go"
      BY <2>0, <2>9, <3>1, <3>4 DEF HandshakeInv
    <3>7. PICK c \in Children : ~Alive(c)
      BY <3>3, <3>6
    <3>8. (CHOOSE d \in Children : d # c) \in Children \ {c}
      OBVIOUS
    <3>9. Alive(CHOOSE d \in Children : d # c)
      BY <3>1, <3>7, <3>8
    <3>10. QED
      BY <2>9, <3>3, <3>5, <3>7, <3>9 DEF ReadyLost
  <2>10. QED
    BY <2>0, <2>1, <2>6, <2>7, <2>8, <2>9
<1>2. Inv /\ WaitInv => NoCircularWait
  BY <1>1 DEF NoCircularWait
<1>3. QED
  BY <1>2, InvAlways, WaitAlways, PTL

\* The numbers that make up StepsLeft.
LEMMA LeftParts ==
  ASSUME TypeOK
  PROVE  /\ Total \in Nat /\ sent \in 0 .. Total /\ acks \in 0 .. Total
         /\ acked \in 0 .. Total /\ collected \in 0 .. Total
         /\ Len(readiness) \in Nat /\ ProducerLeft(pc[P]) \in Nat
         /\ ConsumerLeft(pc[C]) \in Nat /\ MainLeft(main) \in Nat
<1>1. /\ pc[P] \in ProducerLabels /\ pc[C] \in ConsumerLabels
      /\ main \in {"ready", "go", "go2", "collect", "reap", "done", "gone"}
      /\ sent \in 0 .. Total /\ acks \in 0 .. Total
      /\ acked \in 0 .. Total /\ collected \in 0 .. Total /\ Len(readiness) \in Nat
  BY DEF TypeOK
<1>2. QED
  BY <1>1, LeftTyped

\* A child that leaves has fewer steps left; the other has as many as before.
LEMMA LeavingLeft ==
  ASSUME TypeOK, NEW c \in Children, pc[c] # "gone", pc' = [pc EXCEPT ![c] = "gone"]
  PROVE  /\ ProducerLeft(pc'[P]) <= ProducerLeft(pc[P])
         /\ ConsumerLeft(pc'[C]) <= ConsumerLeft(pc[C])
         /\ \/ ProducerLeft(pc'[P]) < ProducerLeft(pc[P])
            \/ ConsumerLeft(pc'[C]) < ConsumerLeft(pc[C])
<1>1. LeftOf(c, "gone") < LeftOf(c, pc[c])
  BY GoneLeft
<1>2. pc'[c] = "gone" /\ \A d \in Children \ {c} : pc'[d] = pc[d]
  BY DEF TypeOK
<1>3. ProducerLeft(pc[P]) \in Nat /\ ConsumerLeft(pc[C]) \in Nat
  BY LeftParts
<1>4. ProducerLeft("gone") = 0 /\ ConsumerLeft("gone") = 0
  BY DEF ProducerLeft, ConsumerLeft
<1>5. CASE c = P
  BY <1>1, <1>2, <1>3, <1>4, <1>5 DEF LeftOf
<1>6. CASE c = C
  BY <1>1, <1>2, <1>3, <1>4, <1>6 DEF LeftOf
<1>7. QED
  BY <1>5, <1>6

\* Three numbers have a smaller sum when one of them drops and no other grows.
LEMMA SumDrops ==
  ASSUME NEW e \in Int, NEW d \in Int, NEW m \in Int,
         NEW e1 \in Int, NEW d1 \in Int, NEW m1 \in Int,
         e1 <= e, d1 <= d, m1 <= m, e1 < e \/ d1 < d \/ m1 < m
  PROVE  e1 + d1 + m1 < e + d + m
OBVIOUS

\* What is left of a number after a smaller one is taken from it is natural, and so is
\* a sum of naturals.
LEMMA LeftOver ==
  ASSUME NEW t \in Nat, NEW a \in Int, a <= t
  PROVE  t - a \in Nat
OBVIOUS
LEMMA SumNatural ==
  ASSUME NEW e \in Nat, NEW d \in Nat, NEW m \in Nat
  PROVE  0 <= e + d + m
OBVIOUS

\* The steps that each of the three has left are a number, before and after a step.
LEMMA LeftNumbers ==
  ASSUME TypeOK
  PROVE  EncoderLeft \in Int /\ DecoderLeft \in Int /\ CallerLeft \in Int
<1>1. Total \in Int /\ sent \in Int /\ acks \in Int /\ acked \in Int /\ collected \in Int
  BY LeftParts
<1>2. Len(readiness) \in Int /\ ProducerLeft(pc[P]) \in Int /\ ConsumerLeft(pc[C]) \in Int
      /\ MainLeft(main) \in Int
  BY LeftParts
<1>3. EncoderLeft \in Int
  BY <1>1, <1>2 DEF EncoderLeft
<1>4. DecoderLeft \in Int
  BY <1>1, <1>2 DEF DecoderLeft
<1>5. CallerLeft \in Int
  BY <1>1, <1>2 DEF CallerLeft
<1>6. QED
  BY <1>3, <1>4, <1>5

\* The same after a step.
LEMMA LeftNumbersNext ==
  ASSUME TypeOK'
  PROVE  EncoderLeft' \in Int /\ DecoderLeft' \in Int /\ CallerLeft' \in Int
<1>1. /\ Total \in Int /\ sent' \in Int /\ acks' \in Int /\ acked' \in Int
      /\ collected' \in Int /\ Len(readiness') \in Int
      /\ pc'[P] \in ProducerLabels /\ pc'[C] \in ConsumerLabels
      /\ main' \in {"ready", "go", "go2", "collect", "reap", "done", "gone"}
  BY WhisperAssumption DEF TypeOK
<1>2. ProducerLeft(pc'[P]) \in Int /\ ConsumerLeft(pc'[C]) \in Int /\ MainLeft(main') \in Int
  BY <1>1, LeftTyped
<1>3. EncoderLeft' \in Int
  BY <1>1, <1>2 DEF EncoderLeft
<1>4. DecoderLeft' \in Int
  BY <1>1, <1>2 DEF DecoderLeft
<1>5. CallerLeft' \in Int
  BY <1>1, <1>2 DEF CallerLeft
<1>6. QED
  BY <1>3, <1>4, <1>5

\* What a process has left drops with its label when its counters stay.
LEMMA LabelDrops ==
  ASSUME TypeOK, TypeOK'
  PROVE  /\ UNCHANGED <<sent, acks>> /\ ProducerLeft(pc'[P]) <= ProducerLeft(pc[P])
            => EncoderLeft' <= EncoderLeft
         /\ UNCHANGED <<sent, acks>> /\ ProducerLeft(pc'[P]) < ProducerLeft(pc[P])
            => EncoderLeft' < EncoderLeft
         /\ acked' = acked /\ ConsumerLeft(pc'[C]) <= ConsumerLeft(pc[C])
            => DecoderLeft' <= DecoderLeft
         /\ acked' = acked /\ ConsumerLeft(pc'[C]) < ConsumerLeft(pc[C])
            => DecoderLeft' < DecoderLeft
         /\ UNCHANGED <<readiness, collected>> /\ MainLeft(main') < MainLeft(main)
            => CallerLeft' < CallerLeft
<1>1. /\ Total \in Int /\ sent \in Int /\ acks \in Int /\ acked \in Int /\ collected \in Int
      /\ Len(readiness) \in Int /\ ProducerLeft(pc[P]) \in Int /\ ConsumerLeft(pc[C]) \in Int
      /\ MainLeft(main) \in Int
  BY LeftParts
<1>2. ProducerLeft(pc'[P]) \in Int /\ ConsumerLeft(pc'[C]) \in Int /\ MainLeft(main') \in Int
  <2>1. /\ pc'[P] \in ProducerLabels /\ pc'[C] \in ConsumerLabels
        /\ main' \in {"ready", "go", "go2", "collect", "reap", "done", "gone"}
    BY DEF TypeOK
  <2>2. QED
    BY <2>1, LeftTyped
<1>3. ASSUME UNCHANGED <<sent, acks>>
      PROVE  EncoderLeft' - EncoderLeft = ProducerLeft(pc'[P]) - ProducerLeft(pc[P])
  <2>1. /\ EncoderLeft = 7 * (Total - sent) + (Total - acks) + ProducerLeft(pc[P])
        /\ EncoderLeft' = 7 * (Total - sent) + (Total - acks) + ProducerLeft(pc'[P])
    BY <1>3 DEF EncoderLeft
  <2>2. QED
    BY <1>1, <1>2, <2>1
<1>4. ASSUME acked' = acked
      PROVE  DecoderLeft' - DecoderLeft = ConsumerLeft(pc'[C]) - ConsumerLeft(pc[C])
  <2>1. /\ DecoderLeft = 3 * (Total - acked) + ConsumerLeft(pc[C])
        /\ DecoderLeft' = 3 * (Total - acked) + ConsumerLeft(pc'[C])
    BY <1>4 DEF DecoderLeft
  <2>2. QED
    BY <1>1, <1>2, <2>1
<1>5. ASSUME UNCHANGED <<readiness, collected>>
      PROVE  CallerLeft' - CallerLeft = MainLeft(main') - MainLeft(main)
  <2>1. /\ CallerLeft = (2 - Len(readiness)) + (Total - collected) + MainLeft(main)
        /\ CallerLeft' = (2 - Len(readiness)) + (Total - collected) + MainLeft(main')
    BY <1>5 DEF CallerLeft
  <2>2. QED
    BY <1>1, <1>2, <2>1
<1>6. /\ EncoderLeft \in Int /\ DecoderLeft \in Int /\ CallerLeft \in Int
      /\ EncoderLeft' \in Int /\ DecoderLeft' \in Int /\ CallerLeft' \in Int
  BY LeftNumbers, LeftNumbersNext
<1>7. UNCHANGED <<sent, acks>> => EncoderLeft' - EncoderLeft = ProducerLeft(pc'[P]) - ProducerLeft(pc[P])
  BY <1>3
<1>8. acked' = acked => DecoderLeft' - DecoderLeft = ConsumerLeft(pc'[C]) - ConsumerLeft(pc[C])
  BY <1>4
<1>9. UNCHANGED <<readiness, collected>> => CallerLeft' - CallerLeft = MainLeft(main') - MainLeft(main)
  BY <1>5
<1>10. QED
  BY <1>1, <1>2, <1>6, <1>7, <1>8, <1>9

\* Every step of the three, whatever it is, leaves one step less.
LEMMA LeftStep ==
  ASSUME TypeOK, TypeOK', [Next]_vars,
         ~UNCHANGED <<pc, status, pipes, flow, main, verdict>>
  PROVE  StepsLeft' < StepsLeft
<1>1. /\ Total \in Int /\ sent \in Int /\ acks \in Int /\ acked \in Int /\ collected \in Int
  BY LeftParts
<1>2. /\ EncoderLeft \in Int /\ DecoderLeft \in Int /\ CallerLeft \in Int
      /\ EncoderLeft' \in Int /\ DecoderLeft' \in Int /\ CallerLeft' \in Int
  BY LeftNumbers, LeftNumbersNext
<1>3. ASSUME EncoderLeft' <= EncoderLeft, DecoderLeft' <= DecoderLeft, CallerLeft' <= CallerLeft,
             \/ EncoderLeft' < EncoderLeft \/ DecoderLeft' < DecoderLeft
             \/ CallerLeft' < CallerLeft
      PROVE  StepsLeft' < StepsLeft
  <2>1. EncoderLeft' + DecoderLeft' + CallerLeft' < EncoderLeft + DecoderLeft + CallerLeft
    BY <1>2, <1>3, SumDrops
  <2>2. QED
    BY <2>1 DEF StepsLeft
<1>4. ASSUME UNCHANGED <<sent, acks>>, pc'[P] = pc[P] PROVE EncoderLeft' = EncoderLeft
  BY <1>4 DEF EncoderLeft
<1>5. ASSUME acked' = acked, pc'[C] = pc[C] PROVE DecoderLeft' = DecoderLeft
  BY <1>5 DEF DecoderLeft
<1>6. ASSUME UNCHANGED <<readiness, collected, main>> PROVE CallerLeft' = CallerLeft
  BY <1>6 DEF CallerLeft
<1>7. ASSUME NEW c \in Children, pc[c] # "gone", pc' = [pc EXCEPT ![c] = "gone"],
               UNCHANGED <<sent, acks, acked, readiness, collected, main>>
        PROVE  StepsLeft' < StepsLeft
  <2>1. /\ ProducerLeft(pc'[P]) <= ProducerLeft(pc[P])
        /\ ConsumerLeft(pc'[C]) <= ConsumerLeft(pc[C])
        /\ \/ ProducerLeft(pc'[P]) < ProducerLeft(pc[P])
           \/ ConsumerLeft(pc'[C]) < ConsumerLeft(pc[C])
    BY <1>7, LeavingLeft
  <2>2. EncoderLeft' <= EncoderLeft /\ DecoderLeft' <= DecoderLeft
    BY <1>7, <2>1, LabelDrops
  <2>3. EncoderLeft' < EncoderLeft \/ DecoderLeft' < DecoderLeft
    BY <1>7, <2>1, LabelDrops
  <2>4. CallerLeft' = CallerLeft
    BY <1>7, <1>6
  <2>5. CallerLeft' <= CallerLeft
    BY <1>2, <2>4
  <2>6. QED
    BY <1>3, <2>2, <2>3, <2>5
<1>8. ASSUME NEW c \in Children, LeftOf(c, pc'[c]) < LeftOf(c, pc[c]),
               \A d \in Children \ {c} : pc'[d] = pc[d],
               UNCHANGED <<sent, acks, acked, readiness, collected, main>>
        PROVE  StepsLeft' < StepsLeft
  <2>1. CallerLeft' = CallerLeft
    BY <1>8, <1>6
  <2>2. CASE c = P
    <3>1. pc'[C] = pc[C] /\ ProducerLeft(pc'[P]) < ProducerLeft(pc[P])
      BY <1>8, <2>2 DEF LeftOf
    <3>2. EncoderLeft' < EncoderLeft
      BY <1>8, <3>1, LabelDrops
    <3>3. DecoderLeft' = DecoderLeft
      BY <1>8, <3>1, <1>5
    <3>4. QED
      BY <1>2, <1>3, <2>1, <3>2, <3>3
  <2>3. CASE c = C
    <3>1. pc'[P] = pc[P] /\ ConsumerLeft(pc'[C]) < ConsumerLeft(pc[C])
      BY <1>8, <2>3 DEF LeftOf
    <3>2. DecoderLeft' < DecoderLeft
      BY <1>8, <3>1, LabelDrops
    <3>3. EncoderLeft' = EncoderLeft
      BY <1>8, <3>1, <1>4
    <3>4. QED
      BY <1>2, <1>3, <2>1, <3>2, <3>3
  <2>4. QED
    BY <2>2, <2>3
<1>9. ASSUME UNCHANGED <<sent, acks, acked, pc, readiness, collected>>,
               MainLeft(main') < MainLeft(main)
        PROVE  StepsLeft' < StepsLeft
  <2>1. EncoderLeft' = EncoderLeft /\ DecoderLeft' = DecoderLeft
    BY <1>9 DEF EncoderLeft, DecoderLeft
  <2>2. CallerLeft' < CallerLeft
    BY <1>9, LabelDrops
  <2>3. QED
    BY <1>2, <1>3, <2>1, <2>2
<1>10. CASE Moves
  <2>1. UNCHANGED <<sent, acks, acked, readiness, collected, main>>
    BY <1>10 DEF Moves, Still, pipes
  <2>2. PICK c \in Children, a, b \in ProducerLabels \cup ConsumerLabels : Turns(c, a, b)
    BY <1>10 DEF Moves
  <2>3. pc[c] = a /\ pc'[c] = b /\ \A d \in Children \ {c} : pc'[d] = pc[d]
    BY <2>2, TurnFacts
  <2>4. LeftOf(c, b) < LeftOf(c, a)
    BY <2>2 DEF Turns
  <2>5. LeftOf(c, pc'[c]) < LeftOf(c, pc[c])
    BY <2>3, <2>4
  <2>6. QED
    BY <1>8, <2>1, <2>3, <2>5
<1>11. ASSUME NEW c \in Children, InitOk(c) PROVE  StepsLeft' < StepsLeft
  <2>1. pc[c] = "init" /\ (Goto(c, "go") \/ Leave(c, Broken))
    BY <1>11 DEF InitOk
  <2>2. UNCHANGED <<sent, acks, acked, readiness, collected, main>>
    BY <1>11 DEF InitOk, flow
  <2>3. CASE Leave(c, Broken)
    <3>1. pc' = [pc EXCEPT ![c] = "gone"] /\ pc[c] # "gone"
      BY <2>1, <2>3 DEF Leave
    <3>2. QED
      BY <1>7, <2>2, <3>1
  <2>4. CASE Goto(c, "go")
    <3>1. pc'[c] = "go" /\ \A d \in Children \ {c} : pc'[d] = pc[d]
      BY <2>4 DEF Goto, TypeOK
    <3>2. LeftOf(c, "go") < LeftOf(c, "init")
      BY DEF LeftOf, ProducerLeft, ConsumerLeft
    <3>3. QED
      BY <1>8, <2>1, <2>2, <3>1, <3>2
  <2>5. QED
    BY <2>1, <2>3, <2>4
<1>12. ASSUME NEW c \in Children, Report(c) PROVE  StepsLeft' < StepsLeft
  <2>1. pc[c] # "gone" /\ pc' = [pc EXCEPT ![c] = "gone"]
    BY <1>12 DEF Report, Leave
  <2>2. UNCHANGED <<sent, acks, acked, readiness, collected, main>>
    BY <1>12 DEF Report, flow
  <2>3. QED
    BY <1>7, <2>1, <2>2
<1>13. CASE GetCredit
  <2>1. /\ pc[P] = "next" /\ pc' = [pc EXCEPT ![P] = "pause"]
        /\ acks' \in {acks, acks + 1} /\ sent' = sent
    BY <1>13 DEF GetCredit, Goto
  <2>2. UNCHANGED <<acked, collected, readiness, main>>
    BY <1>13 DEF GetCredit, pipes
  <2>3. pc'[P] = "pause" /\ pc'[C] = pc[C]
    BY <2>1 DEF TypeOK
  <2>4. ProducerLeft("next") = 9 /\ ProducerLeft("pause") = 8
    BY DEF ProducerLeft
  <2>5. /\ EncoderLeft = 7 * (Total - sent) + (Total - acks) + 9
        /\ EncoderLeft' = 7 * (Total - sent) + (Total - acks') + 8
    BY <2>1, <2>3, <2>4 DEF EncoderLeft
  <2>6. EncoderLeft' < EncoderLeft
    <3>1. CASE acks' = acks
      BY <1>1, <2>5, <3>1
    <3>2. CASE acks' = acks + 1
      BY <1>1, <2>5, <3>2
    <3>3. QED
      BY <2>1, <3>1, <3>2
  <2>7. DecoderLeft' = DecoderLeft /\ CallerLeft' = CallerLeft
    BY <1>5, <1>6, <2>2, <2>3
  <2>8. QED
    BY <1>2, <1>3, <2>6, <2>7
<1>14. CASE Send
  <2>1. UNCHANGED <<acks, acked, collected, readiness, main>> /\ pc[P] = "send"
    BY <1>14 DEF Send, pipes
  <2>2. \/ sent' = sent + 1 /\ pc' = [pc EXCEPT ![P] = "next"]
        \/ sent' = sent /\ pc' = [pc EXCEPT ![P] = "gone"]
    BY <1>14 DEF Send, Goto, Leave
  <2>3. CASE sent' = sent /\ pc' = [pc EXCEPT ![P] = "gone"]
    BY <1>7, <2>1, <2>3
  <2>4. CASE sent' = sent + 1 /\ pc' = [pc EXCEPT ![P] = "next"]
    <3>1. pc'[P] = "next" /\ pc'[C] = pc[C]
      BY <2>4 DEF TypeOK
    <3>2. ProducerLeft("next") = 9 /\ ProducerLeft("send") = 3
      BY DEF ProducerLeft
    <3>3. /\ EncoderLeft = 7 * (Total - sent) + (Total - acks) + 3
          /\ EncoderLeft' = 7 * (Total - (sent + 1)) + (Total - acks) + 9
      BY <2>1, <2>4, <3>1, <3>2 DEF EncoderLeft
    <3>4. EncoderLeft' < EncoderLeft
      BY <1>1, <3>3
    <3>5. DecoderLeft' = DecoderLeft /\ CallerLeft' = CallerLeft
      BY <1>5, <1>6, <2>1, <3>1
    <3>6. QED
      BY <1>2, <1>3, <3>4, <3>5
  <2>5. QED
    BY <2>2, <2>3, <2>4
<1>15. CASE Drain
  <2>1. acks' = acks + 1 /\ UNCHANGED <<sent, acked, collected, readiness, main, pc>>
    BY <1>15 DEF Drain, pipes
  <2>2. /\ EncoderLeft = 7 * (Total - sent) + (Total - acks) + ProducerLeft(pc[P])
        /\ EncoderLeft' = 7 * (Total - sent) + (Total - (acks + 1)) + ProducerLeft(pc[P])
    BY <2>1 DEF EncoderLeft
  <2>3. ProducerLeft(pc[P]) \in Int
    BY LeftParts
  <2>4. EncoderLeft' < EncoderLeft
    BY <1>1, <2>2, <2>3
  <2>5. DecoderLeft' = DecoderLeft /\ CallerLeft' = CallerLeft
    BY <2>1 DEF DecoderLeft, CallerLeft
  <2>6. QED
    BY <1>2, <1>3, <2>4, <2>5
<1>16. CASE Receive
  <2>1. pc[C] = "receive" /\ pc' = [pc EXCEPT ![C] = "decode"]
    BY <1>16 DEF Receive, Goto
  <2>2. UNCHANGED <<sent, acks, acked, readiness, collected, main>>
    BY <1>16 DEF Receive, pipes
  <2>3. pc'[C] = "decode" /\ \A d \in Children \ {C} : pc'[d] = pc[d]
    BY <2>1 DEF TypeOK
  <2>4. LeftOf(C, "decode") < LeftOf(C, "receive")
    BY DEF LeftOf, ConsumerLeft
  <2>5. QED
    BY <1>8, <2>1, <2>2, <2>3, <2>4
<1>17. CASE DecodeDone
  <2>1. /\ pc[C] = "decode"
        /\ pc' = [pc EXCEPT ![C] = "ack"] \/ pc' = [pc EXCEPT ![C] = "gone"]
    BY <1>17 DEF DecodeDone, Goto, Leave
  <2>2. UNCHANGED <<sent, acks, acked, readiness, collected, main>>
    BY <1>17 DEF DecodeDone, pipes
  <2>3. CASE pc' = [pc EXCEPT ![C] = "gone"]
    BY <1>7, <2>1, <2>2, <2>3
  <2>4. CASE pc' = [pc EXCEPT ![C] = "ack"]
    <3>1. pc'[C] = "ack" /\ \A d \in Children \ {C} : pc'[d] = pc[d]
      BY <2>4 DEF TypeOK
    <3>2. LeftOf(C, "ack") < LeftOf(C, "decode")
      BY DEF LeftOf, ConsumerLeft
    <3>3. QED
      BY <1>8, <2>1, <2>2, <3>1, <3>2
  <2>5. QED
    BY <2>1, <2>3, <2>4
<1>18. CASE Ack
  <2>1. UNCHANGED <<sent, acks, collected, readiness, main>> /\ pc[C] = "ack"
    BY <1>18 DEF Ack, pipes
  <2>2. \/ acked' = acked + 1 /\ pc' = [pc EXCEPT ![C] = "receive"]
        \/ acked' = acked /\ pc' = [pc EXCEPT ![C] = "gone"]
    BY <1>18 DEF Ack, Goto, Leave
  <2>3. CASE acked' = acked /\ pc' = [pc EXCEPT ![C] = "gone"]
    BY <1>7, <2>1, <2>3
  <2>4. CASE acked' = acked + 1 /\ pc' = [pc EXCEPT ![C] = "receive"]
    <3>1. pc'[C] = "receive" /\ pc'[P] = pc[P]
      BY <2>4 DEF TypeOK
    <3>2. ConsumerLeft("receive") = 4 /\ ConsumerLeft("ack") = 2
      BY DEF ConsumerLeft
    <3>3. /\ DecoderLeft = 3 * (Total - acked) + 2
          /\ DecoderLeft' = 3 * (Total - (acked + 1)) + 4
      BY <2>1, <2>4, <3>1, <3>2 DEF DecoderLeft
    <3>4. DecoderLeft' < DecoderLeft
      BY <1>1, <3>3
    <3>5. EncoderLeft' = EncoderLeft /\ CallerLeft' = CallerLeft
      BY <1>4, <1>6, <2>1, <3>1
    <3>6. QED
      BY <1>2, <1>3, <3>4, <3>5
  <2>5. QED
    BY <2>2, <2>3, <2>4
<1>19. CASE MainReadsReady
  <2>1. UNCHANGED <<sent, acks, acked, collected, main, pc>>
    BY <1>19 DEF MainReadsReady, flow
  <2>2. readiness \in Seq({0, 1}) /\ readiness' = Append(readiness, Head(readyPipe))
    BY <1>19 DEF MainReadsReady, TypeOK
  <2>3. Len(readiness') = Len(readiness) + 1 /\ Len(readiness) \in Int /\ MainLeft(main) \in Int
    BY <2>2, LeftParts
  <2>4. /\ CallerLeft = (2 - Len(readiness)) + (Total - collected) + MainLeft(main)
        /\ CallerLeft' = (2 - (Len(readiness) + 1)) + (Total - collected) + MainLeft(main)
    BY <2>1, <2>3 DEF CallerLeft
  <2>5. CallerLeft' < CallerLeft
    BY <1>1, <2>3, <2>4
  <2>6. EncoderLeft' = EncoderLeft /\ DecoderLeft' = DecoderLeft
    BY <2>1 DEF EncoderLeft, DecoderLeft
  <2>7. QED
    BY <1>2, <1>3, <2>5, <2>6
<1>20. CASE MainTerminates
  <2>1. UNCHANGED <<sent, acks, acked, collected, readiness>>
    BY <1>20 DEF MainTerminates, pipes, flow
  <2>2. main = "ready" /\ main' = "done" /\ pc'[P] = "gone" /\ pc'[C] = "gone"
    BY <1>20 DEF MainTerminates
  <2>3. /\ ProducerLeft(pc'[P]) = 0 /\ ConsumerLeft(pc'[C]) = 0
        /\ MainLeft(main) = 5 /\ MainLeft(main') = 0
    BY <2>2 DEF MainLeft, ProducerLeft, ConsumerLeft
  <2>4. ProducerLeft(pc[P]) \in Nat /\ ConsumerLeft(pc[C]) \in Nat
    BY LeftParts
  <2>5. /\ ProducerLeft(pc'[P]) <= ProducerLeft(pc[P])
        /\ ConsumerLeft(pc'[C]) <= ConsumerLeft(pc[C])
        /\ MainLeft(main') < MainLeft(main)
    BY <2>3, <2>4
  <2>6. EncoderLeft' <= EncoderLeft /\ DecoderLeft' <= DecoderLeft
    BY <2>1, <2>5, LabelDrops
  <2>7. CallerLeft' < CallerLeft
    BY <2>1, <2>5, LabelDrops
  <2>8. QED
    BY <1>2, <1>3, <2>6, <2>7
<1>21. CASE MainSeesReady \/ CollectEnds \/ Reap
  <2>1. UNCHANGED <<sent, acks, acked, pc, readiness, collected>>
    BY <1>21 DEF MainSeesReady, CollectEnds, Reap, pipes, flow
  <2>2. \/ main = "ready" /\ main' = "go"
        \/ main = "collect" /\ main' = "reap"
        \/ main = "reap" /\ main' = "done"
    BY <1>21 DEF MainSeesReady, CollectEnds, Reap
  <2>3. MainLeft(main') < MainLeft(main)
    BY <2>2 DEF MainLeft
  <2>4. QED
    BY <1>9, <2>1, <2>3
<1>22. CASE GoProducer \/ GoConsumer
  <2>1. UNCHANGED <<sent, acks, acked, pc, readiness, collected>>
    BY <1>22 DEF GoProducer, GoConsumer, GiveGo, flow
  <2>2. \/ main = "go" /\ main' \in {"go2", "gone"}
        \/ main = "go2" /\ main' \in {"collect", "gone"}
    BY <1>22 DEF GoProducer, GoConsumer, GiveGo
  <2>3. MainLeft(main') < MainLeft(main)
    BY <2>2 DEF MainLeft
  <2>4. QED
    BY <1>9, <2>1, <2>3
<1>23. CASE Collect
  <2>1. collected' = collected + 1 /\ UNCHANGED <<sent, acks, acked, readiness, main, pc>>
    BY <1>23 DEF Collect, pipes
  <2>2. Len(readiness) \in Int /\ MainLeft(main) \in Int
    BY LeftParts
  <2>3. /\ CallerLeft = (2 - Len(readiness)) + (Total - collected) + MainLeft(main)
        /\ CallerLeft' = (2 - Len(readiness)) + (Total - (collected + 1)) + MainLeft(main)
    BY <2>1 DEF CallerLeft
  <2>4. CallerLeft' < CallerLeft
    BY <1>1, <2>2, <2>3
  <2>5. EncoderLeft' = EncoderLeft /\ DecoderLeft' = DecoderLeft
    BY <2>1 DEF EncoderLeft, DecoderLeft
  <2>6. QED
    BY <1>2, <1>3, <2>4, <2>5
<1>24. CASE MainKilled
  <2>1. UNCHANGED <<sent, acks, acked, pc, readiness, collected>>
    BY <1>24 DEF MainKilled, pipes, flow
  <2>2. main \in {"ready", "go", "go2", "collect", "reap"} /\ main' = "gone"
    BY <1>24 DEF MainKilled, TypeOK
  <2>3. MainLeft(main') < MainLeft(main)
    BY <2>2 DEF MainLeft
  <2>4. QED
    BY <1>9, <2>1, <2>3
<1>25. QED
  BY StepKinds, <1>10, <1>11, <1>12, <1>13, <1>14, <1>15, <1>16, <1>17, <1>18,
     <1>19, <1>20, <1>21, <1>22, <1>23, <1>24

\* A gate process takes a few turns at most between two signals.
LEMMA GateLeftStep ==
  ASSUME TypeOK, [Next]_vars, pc' = pc, NEW g \in Gates, gate'[g] # gate[g]
  PROVE  GateLeft(gate'[g]) < GateLeft(gate[g])
<1>1. gate \in [Gates -> GateStates]
  BY DEF TypeOK
<1>2. CASE GateTurns
  <2>1. PICK h \in Gates :
          /\ gate[h] \in {"stopping", "waking"}
          /\ gate' = [gate EXCEPT ![h] = IF @ = "stopping" THEN "stopped" ELSE "run"]
    BY <1>2 DEF GateTurns
  <2>2. h = g /\ gate'[g] = IF gate[g] = "stopping" THEN "stopped" ELSE "run"
    BY <1>1, <2>1
  <2>3. QED
    BY <2>1, <2>2 DEF GateLeft
<1>3. CASE GateExits
  <2>1. PICK h \in Gates, s \in {"zombie", "gone"} :
          gate[h] \notin {"gone", s} /\ gate' = [gate EXCEPT ![h] = s]
    BY <1>3 DEF GateExits
  <2>2. h = g /\ gate'[g] = s /\ gate[g] \in GateStates
    BY <1>1, <2>1
  <2>3. QED
    BY <2>1, <2>2 DEF GateLeft, GateStates
<1>4. CASE PauseSignals \/ ResumeSignals \/ Ungate
  <2>1. \E l \in {"stopping", "throw", "resuming", "report"} :
          pc' = [pc EXCEPT ![P] = l] /\ pc[P] # l
    <3>1. CASE PauseSignals
      BY <3>1 DEF PauseSignals, Goto
    <3>2. CASE ResumeSignals
      BY <3>2 DEF ResumeSignals, Goto
    <3>3. CASE Ungate
      BY <3>3 DEF Ungate, Goto
    <3>4. QED
      BY <1>4, <3>1, <3>2, <3>3
  <2>2. pc'[P] # pc[P]
    BY <2>1 DEF TypeOK
  <2>3. QED
    BY <2>2
<1>5. CASE gate' = gate
  BY <1>5
<1>6. GateTurns \/ GateExits \/ PauseSignals \/ ResumeSignals \/ Ungate \/ gate' = gate
  <2>1. ASSUME NEW c \in Children,
               InitOk(c) \/ StartFails(c) \/ Report(c) \/ ReadGo(c) \/ GoClosed(c) \/ SetupOk(c)
               \/ Crash(c)
        PROVE  gate' = gate
    BY <2>1 DEF InitOk, StartFails, Report, ReadGo, GoClosed, SetupOk, Crash
  <2>2. ASSUME GetCredit \/ NoMoreCredit \/ PauseSeen \/ PauseFails \/ EncodeDone \/ EncodeFails
               \/ ResumeSeen \/ ResumeFails \/ Send \/ Drain \/ ProducerExits
        PROVE  gate' = gate
    BY <2>2 DEF GetCredit, NoMoreCredit, PauseSeen, PauseFails, EncodeDone, EncodeFails,
       ResumeSeen, ResumeFails, Send, Drain, ProducerExits
  <2>3. ASSUME Receive \/ EndOfTransfers \/ DecodeDone \/ DecodeFails \/ Ack
        PROVE  gate' = gate
    BY <2>3 DEF Receive, EndOfTransfers, DecodeDone, DecodeFails, Ack
  <2>4. ASSUME MainReadsReady \/ MainTerminates \/ MainSeesReady \/ GoProducer \/ GoConsumer
               \/ Collect \/ CollectEnds \/ Reap \/ MainKilled
        PROVE  gate' = gate
    BY <2>4 DEF MainReadsReady, MainTerminates, MainSeesReady, GoProducer, GoConsumer, GiveGo,
       Collect, CollectEnds, Reap, MainKilled
  <2>5. UNCHANGED vars => gate' = gate
    BY DEF vars
  <2>6. QED
    BY <2>1, <2>2, <2>3, <2>4, <2>5
    DEF Next, ProducerSteps, ConsumerSteps, MainSteps, Mishaps, ChildSteps, Finished
<1>7. QED
  BY <1>2, <1>3, <1>4, <1>5, <1>6

\* Nothing is tried again for ever: the steps of main and the children run out, and so
\* do the turns of a gate process between two signals.
THEOREM NothingRetriedForEver == Spec => StepsRunOut
<1>1. ASSUME Inv, Inv', WaitInv', [Next]_vars
      PROVE  [0 <= StepsLeft' /\ StepsLeft' < StepsLeft]_<<pc, status, pipes, flow, main, verdict>>
  <2>1. TypeOK /\ TypeOK'
    BY <1>1 DEF Inv
  <2>2. 0 <= StepsLeft'
    <3>1. /\ sent' \in 0 .. Total /\ acks' \in 0 .. Total
          /\ acked' \in 0 .. Total /\ collected' \in 0 .. Total /\ Len(readiness') \in Nat
          /\ pc'[P] \in ProducerLabels /\ pc'[C] \in ConsumerLabels
          /\ main' \in {"ready", "go", "go2", "collect", "reap", "done", "gone"}
      BY <2>1 DEF TypeOK
    <3>2. /\ ProducerLeft(pc'[P]) \in Nat /\ ConsumerLeft(pc'[C]) \in Nat
          /\ MainLeft(main') \in Nat
      BY <3>1, LeftTyped
    <3>3. Len(readiness') <= 2
      BY <1>1 DEF WaitInv, HandshakeInv
    <3>4. Total \in Nat
      BY WhisperAssumption
    <3>5. Total - sent' \in Nat /\ Total - acks' \in Nat
      <4>1. sent' \in Int /\ sent' <= Total /\ acks' \in Int /\ acks' <= Total
        BY <3>1, <3>4
      <4>2. QED
        BY <3>4, <4>1, LeftOver
    <3>6. Total - acked' \in Nat /\ Total - collected' \in Nat
      <4>1. acked' \in Int /\ acked' <= Total /\ collected' \in Int /\ collected' <= Total
        BY <3>1, <3>4
      <4>2. QED
        BY <3>4, <4>1, LeftOver
    <3>7. 2 - Len(readiness') \in Nat
      <4>1. Len(readiness') \in Int
        BY <3>1
      <4>2. QED
        BY <3>3, <4>1, LeftOver
    <3>8. EncoderLeft' \in Nat /\ DecoderLeft' \in Nat /\ CallerLeft' \in Nat
      <4>1. 7 * (Total - sent') \in Nat /\ 3 * (Total - acked') \in Nat
        BY <3>5, <3>6
      <4>2. 7 * (Total - sent') + (Total - acks') + ProducerLeft(pc'[P]) \in Nat
        BY <3>2, <3>5, <4>1
      <4>3. 3 * (Total - acked') + ConsumerLeft(pc'[C]) \in Nat
        BY <3>2, <4>1
      <4>4. (2 - Len(readiness')) + (Total - collected') + MainLeft(main') \in Nat
        BY <3>2, <3>6, <3>7
      <4>5. QED
        BY <4>2, <4>3, <4>4 DEF EncoderLeft, DecoderLeft, CallerLeft
    <3>9. StepsLeft' = EncoderLeft' + DecoderLeft' + CallerLeft'
      BY DEF StepsLeft
    <3>10. 0 <= EncoderLeft' + DecoderLeft' + CallerLeft'
      BY <3>8, SumNatural
    <3>11. QED
      BY <3>9, <3>10
  <2>3. CASE UNCHANGED <<pc, status, pipes, flow, main, verdict>>
    BY <2>3
  <2>4. CASE ~UNCHANGED <<pc, status, pipes, flow, main, verdict>>
    <3>1. StepsLeft' < StepsLeft
      BY <1>1, <2>1, <2>4, LeftStep
    <3>2. QED
      BY <2>2, <3>1
  <2>5. QED
    BY <2>3, <2>4
<1>2. ASSUME Inv, [Next]_vars
      PROVE  [pc' = pc => \A g \in Gates :
                gate'[g] # gate[g] => GateLeft(gate'[g]) < GateLeft(gate[g])]_gate
  BY <1>2, GateLeftStep DEF Inv
<1>3. QED
  BY <1>1, <1>2, InvAlways, WaitAlways, PTL DEF Spec, StepsRunOut

=============================================================================
