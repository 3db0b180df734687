---------------------------- MODULE WhisperPipeline ----------------------------
(***************************************************************************)
(* The two-process Whisper pipeline of benchmarks/mig_whisper_asr.cpp.     *)
(* main forks an encoder (producer) and a decoder (consumer) that share an *)
(* activation mapping of one or three slots and talk over pipes: ready and *)
(* go at start-up, transfer towards the decoder, one ack byte (a credit)   *)
(* back, result to main.  Around each encode the producer stops the        *)
(* best-effort "gate" processes with SIGSTOP and continues them after it.  *)
(*                                                                         *)
(* A pipe is the count of what was written to it and of what was read: it  *)
(* is a FIFO whose k-th transfer is request k.  A write to a pipe nobody   *)
(* can read any more kills the writer (SIGPIPE keeps its default action);  *)
(* a read of an empty pipe whose writers are gone is the end of file.      *)
(* Time is abstracted: a 100 ms deadline may pass at any poll that is not  *)
(* yet satisfied.  Time stamps and the trace files are left out.           *)
(***************************************************************************)
EXTENDS Integers, Sequences

CONSTANTS
  Total,         \* --warmup plus --iterations
  GateCount,     \* how many --gate-pids
  GateMayExit,   \* may a gate process end during the run?
  MayThrow,      \* may a CUDA or TensorRT call of a child throw?
  MayCrash       \* may a process be killed at any point?

ASSUME WhisperAssumption ==
  /\ Total \in Nat \ {0}
  /\ GateCount \in Nat
  /\ GateMayExit \in BOOLEAN
  /\ MayThrow \in BOOLEAN
  /\ MayCrash \in BOOLEAN

VARIABLES
  slots,             \* --pipeline-slots of this run
  pc, status,        \* the two children and their wait statuses
  readyPipe,         \* Ready messages in the pipe: the status of each
  readiness,         \* the statuses main has read
  go,                \* the children whose go byte is written
  sent, taken,       \* transfers written by the producer, read by the consumer
  acked, acks,       \* acks written by the consumer, read by the producer
  activation,        \* which request's encoding each slot holds
  decoded,           \* what each result written to main was decoded from
  collected,         \* results main has read
  gate,              \* the gate processes
  main, verdict      \* main() and its outcome

pipes == <<readyPipe, readiness, go>>
flow == <<sent, taken, acked, acks, activation, decoded, collected>>
vars == <<slots, pc, status, pipes, flow, gate, main, verdict>>

P == "producer"
C == "consumer"
Children == {P, C}
Gates == 1 .. GateCount
PipelineSlots == {1, 3}
NoRequest == -1

\* A child's wait status while it runs, after a SIGPIPE, a SIGTERM, a crash.
Running == -1
Broken  == 141
Termed  == 143
Crashed == 139

SlotOf(request) == request % slots
Alive(c) == pc[c] # "gone"

\* The read ends main holds: ready[0] until both children answered, result[0]
\* until the results are in.
ReadyOpen  == main = "ready"
ResultOpen == main \in {"ready", "go", "go2", "collect"}

Init ==
  /\ slots \in PipelineSlots
  /\ pc = [c \in Children |-> "init"]
  /\ status = [c \in Children |-> Running]
  /\ readyPipe = <<>> /\ readiness = <<>> /\ go = {}
  /\ sent = 0 /\ taken = 0 /\ acked = 0 /\ acks = 0
  /\ activation = [s \in 0 .. slots - 1 |-> NoRequest]
  /\ decoded = <<>> /\ collected = 0
  /\ gate = [g \in Gates |-> "run"]
  /\ main = "ready" /\ verdict = "none"

(***************************************************************************)
(* Both children                                                           *)
(***************************************************************************)

Goto(c, l) == pc' = [pc EXCEPT ![c] = l] /\ UNCHANGED status
Leave(c, s) ==
  /\ pc' = [pc EXCEPT ![c] = "gone"]
  /\ status' = [status EXCEPT ![c] = s]

\* set_cuda_environment and initialize_cuda, then the Ready message.
InitOk(c) ==
  /\ pc[c] = "init"
  /\ IF ReadyOpen
     THEN Goto(c, "go") /\ readyPipe' = Append(readyPipe, 0)
     ELSE Leave(c, Broken) /\ UNCHANGED readyPipe
  /\ UNCHANGED <<slots, readiness, go, flow, gate, main, verdict>>

\* An exception before the first request: the producer's handler continues the
\* gates first, the consumer's has nothing to do but report.
Handler(c) == IF c = P THEN "throw" ELSE "report"
StartFails(c) ==
  /\ MayThrow /\ pc[c] \in {"init", "setup"}
  /\ Goto(c, Handler(c))
  /\ UNCHANGED <<slots, pipes, flow, gate, main, verdict>>

\* The handler's Ready{role, 1}, and _exit(5) if the write survives.
Report(c) ==
  /\ pc[c] = "report"
  /\ IF ReadyOpen
     THEN Leave(c, 5) /\ readyPipe' = Append(readyPipe, 1)
     ELSE Leave(c, Broken) /\ UNCHANGED readyPipe
  /\ UNCHANGED <<slots, readiness, go, flow, gate, main, verdict>>

ReadGo(c) ==
  /\ pc[c] = "go" /\ c \in go
  /\ Goto(c, "setup")
  /\ UNCHANGED <<slots, pipes, flow, gate, main, verdict>>

GoClosed(c) ==
  /\ pc[c] = "go" /\ c \notin go /\ main = "gone"
  /\ Leave(c, 3)
  /\ UNCHANGED <<slots, pipes, flow, gate, main, verdict>>

\* Traces, mappings and engines are there.
SetupOk(c) ==
  /\ pc[c] = "setup"
  /\ Goto(c, IF c = P THEN "next" ELSE "receive")
  /\ UNCHANGED <<slots, pipes, flow, gate, main, verdict>>

Crash(c) ==
  /\ MayCrash /\ Alive(c)
  /\ Leave(c, Crashed)
  /\ UNCHANGED <<slots, pipes, flow, gate, main, verdict>>

(***************************************************************************)
(* Gate processes: the kernel's side of SIGSTOP and SIGCONT                *)
(***************************************************************************)

\* /proc/PID/stat reads T from the stop until the wake-up is done.
StoppedStates == {"stopped", "waking"}

\* SIGSTOP to a process whose state is not T, SIGCONT to any.
Stop(s) == IF s = "run" THEN "stopping" ELSE s
Continue(s) == CASE s = "stopped"  -> "waking"
                 [] s = "stopping" -> "run"       \* discards a pending stop
                 [] OTHER -> s

\* A loop over the PIDs that throws at the first one that is gone.
Reached(g) == \A h \in 1 .. g : gate[h] # "gone"
Reachable == \A g \in Gates : gate[g] # "gone"

GateTurns ==
  /\ \E g \in Gates :
       /\ gate[g] \in {"stopping", "waking"}
       /\ gate' = [gate EXCEPT ![g] = IF @ = "stopping" THEN "stopped" ELSE "run"]
  /\ UNCHANGED <<slots, pc, status, pipes, flow, main, verdict>>

\* It ends, and is reaped by whoever started it.
GateExits ==
  /\ GateMayExit
  /\ \E g \in Gates, s \in {"zombie", "gone"} :
       /\ gate[g] \notin {"gone", s}
       /\ gate' = [gate EXCEPT ![g] = s]
  /\ UNCHANGED <<slots, pc, status, pipes, flow, main, verdict>>

(***************************************************************************)
(* Producer                                                                *)
(***************************************************************************)

\* Variants: the credit is read one request late, or not before the end.
CreditOneLate == sent > slots
CreditNever == FALSE
\* Variant: one credit too early; with one slot, before the first request.
CreditOneEarly == sent + 1 >= slots

\* The first `slots' requests need no credit, each later one reads one first.
CreditNeeded == sent >= slots
\* Variant: the loop bound is off by one.
GetCreditPastTotal ==
  /\ pc[P] = "next" /\ sent <= Total
  /\ IF CreditNeeded THEN acks < acked /\ acks' = acks + 1 ELSE UNCHANGED acks
  /\ Goto(P, "pause")
  /\ UNCHANGED <<slots, pipes, sent, taken, acked, activation, decoded, collected,
                 gate, main, verdict>>

GetCredit ==
  /\ pc[P] = "next" /\ sent < Total
  /\ IF CreditNeeded THEN acks < acked /\ acks' = acks + 1 ELSE UNCHANGED acks
  /\ Goto(P, "pause")
  /\ UNCHANGED <<slots, pipes, sent, taken, acked, activation, decoded, collected,
                 gate, main, verdict>>

\* Variant: the drain at the end takes the end of file for "not yet".
NoMoreCreditInLoop ==
  /\ pc[P] = "next" /\ sent < Total /\ CreditNeeded
  /\ acks = acked /\ ~Alive(C)
  /\ Leave(P, 4)
  /\ UNCHANGED <<slots, pipes, flow, gate, main, verdict>>

NoMoreCredit ==
  /\ \/ pc[P] = "next" /\ sent < Total /\ CreditNeeded
     \/ pc[P] = "next" /\ sent = Total /\ acks < Total
  /\ acks = acked /\ ~Alive(C)
  /\ Leave(P, 4)
  /\ UNCHANGED <<slots, pipes, flow, gate, main, verdict>>

PauseSignals ==
  /\ pc[P] = "pause"
  /\ gate' = [g \in Gates |-> IF Reached(g) THEN Stop(gate[g]) ELSE gate[g]]
  /\ Goto(P, IF Reachable THEN "stopping" ELSE "throw")
  /\ UNCHANGED <<slots, pipes, flow, main, verdict>>

AllStopped == \A g \in Gates : gate[g] \in StoppedStates
PauseSeen ==
  /\ pc[P] = "stopping" /\ AllStopped
  /\ Goto(P, "encode")
  /\ UNCHANGED <<slots, pipes, flow, gate, main, verdict>>

\* Variant: a pause that was not seen in time is tried again.
PauseRetries ==
  /\ pc[P] = "stopping" /\ ~AllStopped
  /\ Goto(P, "pause")
  /\ UNCHANGED <<slots, pipes, flow, gate, main, verdict>>

\* A PID without a /proc entry, or 100 ms without every gate stopped.
PauseFails ==
  /\ pc[P] = "stopping" /\ ~AllStopped
  /\ Goto(P, "throw")
  /\ UNCHANGED <<slots, pipes, flow, gate, main, verdict>>

\* While pc is "encode" the slot of request `sent' is being written.
EncodeDone ==
  /\ pc[P] = "encode"
  /\ activation' = [activation EXCEPT ![SlotOf(sent)] = sent]
  /\ Goto(P, "resume")
  /\ UNCHANGED <<slots, pipes, sent, taken, acked, acks, decoded, collected, gate,
                 main, verdict>>

\* Variant: a failed encode is reported without the handler's SIGCONTs.
EncodeFailsGated ==
  /\ MayThrow /\ pc[P] = "encode"
  /\ activation' = [activation EXCEPT ![SlotOf(sent)] = NoRequest]
  /\ Goto(P, "report")
  /\ UNCHANGED <<slots, pipes, sent, taken, acked, acks, decoded, collected, gate,
                 main, verdict>>

EncodeFails ==
  /\ MayThrow /\ pc[P] = "encode"
  /\ activation' = [activation EXCEPT ![SlotOf(sent)] = NoRequest]
  /\ Goto(P, "throw")
  /\ UNCHANGED <<slots, pipes, sent, taken, acked, acks, decoded, collected, gate,
                 main, verdict>>

ResumeSignals ==
  /\ pc[P] = "resume"
  /\ gate' = [g \in Gates |-> IF Reached(g) THEN Continue(gate[g]) ELSE gate[g]]
  /\ Goto(P, IF Reachable THEN "resuming" ELSE "throw")
  /\ UNCHANGED <<slots, pipes, flow, main, verdict>>

AllRunning == \A g \in Gates : gate[g] \notin StoppedStates \cup {"gone"}
\* Variant: the producer does not wait for the wake-ups.
ResumeUnseen ==
  /\ pc[P] = "resuming"
  /\ Goto(P, "send")
  /\ UNCHANGED <<slots, pipes, flow, gate, main, verdict>>

ResumeSeen ==
  /\ pc[P] = "resuming" /\ AllRunning
  /\ Goto(P, "send")
  /\ UNCHANGED <<slots, pipes, flow, gate, main, verdict>>

ResumeFails ==
  /\ pc[P] = "resuming" /\ ~AllRunning
  /\ Goto(P, "throw")
  /\ UNCHANGED <<slots, pipes, flow, gate, main, verdict>>

Send ==
  /\ pc[P] = "send"
  /\ IF Alive(C) THEN Goto(P, "next") /\ sent' = sent + 1
                 ELSE Leave(P, Broken) /\ UNCHANGED sent
  /\ UNCHANGED <<slots, pipes, taken, acked, acks, activation, decoded, collected,
                 gate, main, verdict>>

\* After the last request the outstanding acks are collected.
Drain ==
  /\ pc[P] = "next" /\ sent = Total /\ acks < acked
  /\ acks' = acks + 1
  /\ UNCHANGED <<slots, pc, status, pipes, sent, taken, acked, activation, decoded,
                 collected, gate, main, verdict>>

ProducerExits ==
  /\ pc[P] = "next" /\ sent = Total /\ acks = Total
  /\ Leave(P, 0)
  /\ UNCHANGED <<slots, pipes, flow, gate, main, verdict>>

\* Variant: the failure is reported before the gates are continued.
ReportThenUngate ==
  /\ pc[P] = "throw"
  /\ IF ReadyOpen
     THEN /\ readyPipe' = Append(readyPipe, 1) /\ Leave(P, 5)
          /\ gate' = [g \in Gates |-> Continue(gate[g])]
     ELSE Leave(P, Broken) /\ UNCHANGED <<readyPipe, gate>>
  /\ UNCHANGED <<slots, readiness, go, flow, main, verdict>>

\* catch: SIGCONT to every gate, errors ignored, before anything can kill us.
Ungate ==
  /\ pc[P] = "throw"
  /\ gate' = [g \in Gates |-> Continue(gate[g])]
  /\ Goto(P, "report")
  /\ UNCHANGED <<slots, pipes, flow, main, verdict>>

(***************************************************************************)
(* Consumer                                                                *)
(***************************************************************************)

Receive ==
  /\ pc[C] = "receive" /\ taken < sent
  /\ taken' = taken + 1
  /\ Goto(C, "decode")
  /\ UNCHANGED <<slots, pipes, sent, acked, acks, activation, decoded, collected,
                 gate, main, verdict>>

EndOfTransfers ==
  /\ pc[C] = "receive" /\ taken = sent /\ ~Alive(P)
  /\ Leave(C, 0)
  /\ UNCHANGED <<slots, pipes, flow, gate, main, verdict>>

\* While pc is "decode" the slot of request InHand is being read.
InHand == taken - 1
DecodeDone ==
  /\ pc[C] = "decode"
  /\ IF ResultOpen
     THEN decoded' = Append(decoded, activation[SlotOf(InHand)]) /\ Goto(C, "ack")
     ELSE UNCHANGED decoded /\ Leave(C, Broken)
  /\ UNCHANGED <<slots, pipes, sent, taken, acked, acks, activation, collected,
                 gate, main, verdict>>

DecodeFails ==
  /\ MayThrow /\ pc[C] = "decode"
  /\ Goto(C, "report")
  /\ UNCHANGED <<slots, pipes, flow, gate, main, verdict>>

Ack ==
  /\ pc[C] = "ack"
  /\ IF Alive(P) THEN acked' = acked + 1 /\ Goto(C, "receive")
                 ELSE UNCHANGED acked /\ Leave(C, Broken)
  /\ UNCHANGED <<slots, pipes, sent, taken, acks, activation, decoded, collected,
                 gate, main, verdict>>

(***************************************************************************)
(* main                                                                    *)
(***************************************************************************)

MainReadsReady ==
  /\ main = "ready" /\ Len(readiness) < 2 /\ readyPipe # <<>>
  /\ readiness' = Append(readiness, Head(readyPipe))
  /\ readyPipe' = Tail(readyPipe)
  /\ UNCHANGED <<slots, pc, status, go, flow, gate, main, verdict>>

\* Both write ends of the ready pipe closed with a message missing, or a child
\* that reports a failure: SIGTERM to both and wait for them.
MainTerminates ==
  /\ main = "ready"
  /\ \/ Len(readiness) < 2 /\ readyPipe = <<>> /\ \A c \in Children : ~Alive(c)
     \/ Len(readiness) = 2 /\ readiness # <<0, 0>>
  /\ pc' = [c \in Children |-> "gone"]
  /\ status' = [c \in Children |-> IF Alive(c) THEN Termed ELSE status[c]]
  /\ main' = "done" /\ verdict' = "failed"
  /\ UNCHANGED <<slots, pipes, flow, gate>>

MainSeesReady ==
  /\ main = "ready" /\ readiness = <<0, 0>>
  /\ main' = "go"
  /\ UNCHANGED <<slots, pc, status, pipes, flow, gate, verdict>>

\* Two writes: a child that died after its Ready kills main here.
GiveGo(c, next) ==
  /\ IF Alive(c) THEN main' = next /\ go' = go \cup {c} /\ UNCHANGED verdict
                 ELSE main' = "gone" /\ verdict' = "failed" /\ UNCHANGED go
  /\ UNCHANGED <<slots, pc, status, readyPipe, readiness, flow, gate>>
GoProducer == main = "go"  /\ GiveGo(P, "go2")
GoConsumer == main = "go2" /\ GiveGo(C, "collect")

Collect ==
  /\ main = "collect" /\ collected < Total /\ collected < Len(decoded)
  /\ collected' = collected + 1
  /\ UNCHANGED <<slots, pc, status, pipes, sent, taken, acked, acks, activation,
                 decoded, gate, main, verdict>>

CollectEnds ==
  /\ main = "collect"
  /\ \/ collected = Total
     \/ collected = Len(decoded) /\ ~Alive(C)
  /\ main' = "reap"
  /\ UNCHANGED <<slots, pc, status, pipes, flow, gate, verdict>>

\* waitpid for both, then "require all requests completed".
Complete == collected = Total /\ status[P] = 0 /\ status[C] = 0
Reap ==
  /\ main = "reap" /\ \A c \in Children : ~Alive(c)
  /\ main' = "done"
  /\ verdict' = IF Complete THEN "ok" ELSE "failed"
  /\ UNCHANGED <<slots, pc, status, pipes, flow, gate>>

\* The driver's 180 s timeout kills main alone; its children live on.
MainKilled ==
  /\ MayCrash /\ main \notin {"done", "gone"}
  /\ main' = "gone" /\ verdict' = "failed"
  /\ UNCHANGED <<slots, pc, status, pipes, flow, gate>>

(***************************************************************************)
(* Specification                                                           *)
(***************************************************************************)

\* What a child does when nothing goes wrong, and how it reacts to the others.
ChildSteps(c) == InitOk(c) \/ Report(c) \/ ReadGo(c) \/ GoClosed(c) \/ SetupOk(c)
ProducerSteps ==
  \/ ChildSteps(P) \/ GetCredit \/ NoMoreCredit \/ PauseSignals \/ PauseSeen
  \/ PauseFails \/ EncodeDone \/ ResumeSignals \/ ResumeSeen \/ ResumeFails
  \/ Send \/ Drain \/ ProducerExits \/ Ungate
ConsumerSteps ==
  \/ ChildSteps(C) \/ Receive \/ EndOfTransfers \/ DecodeDone \/ Ack
MainSteps ==
  \/ MainReadsReady \/ MainTerminates \/ MainSeesReady \/ GoProducer \/ GoConsumer
  \/ Collect \/ CollectEnds \/ Reap
Mishaps ==
  \/ \E c \in Children : StartFails(c) \/ Crash(c)
  \/ EncodeFails \/ DecodeFails \/ GateExits \/ MainKilled

Over == main \in {"done", "gone"} /\ \A c \in Children : ~Alive(c)
Finished == Over /\ UNCHANGED vars

Next ==
  ProducerSteps \/ ConsumerSteps \/ MainSteps \/ GateTurns \/ Mishaps \/ Finished

\* Every process is scheduled, and the kernel completes stops and wake-ups.
Fairness ==
  /\ WF_vars(ProducerSteps) /\ WF_vars(ConsumerSteps) /\ WF_vars(MainSteps)
  /\ WF_vars(GateTurns)

Spec == Init /\ [][Next]_vars
FairSpec == Spec /\ Fairness

(***************************************************************************)
(* Properties                                                              *)
(***************************************************************************)

Requests == 0 .. Total - 1
ProducerLabels == {"init", "go", "setup", "next", "pause", "stopping", "encode",
                   "resume", "resuming", "send", "throw", "report", "gone"}
ConsumerLabels == {"init", "go", "setup", "receive", "decode", "ack", "report", "gone"}

GateStates == {"run", "stopping", "stopped", "waking", "zombie", "gone"}

\* Every variable holds a value the program can give it.
TypeOK ==
  /\ slots \in PipelineSlots
  /\ pc \in [Children -> ProducerLabels \cup ConsumerLabels]
  /\ pc[P] \in ProducerLabels /\ pc[C] \in ConsumerLabels
  /\ status \in [Children -> {Running, 0, 3, 4, 5, Broken, Termed, Crashed}]
  /\ readyPipe \in Seq({0, 1}) /\ readiness \in Seq({0, 1})
  /\ go \subseteq Children
  /\ sent \in 0 .. Total /\ taken \in 0 .. Total
  /\ acked \in 0 .. Total /\ acks \in 0 .. Total
  /\ activation \in [0 .. slots - 1 -> Requests \cup {NoRequest}]
  /\ decoded \in Seq(Requests \cup {NoRequest})
  /\ collected \in 0 .. Total
  /\ gate \in [Gates -> GateStates]
  /\ main \in {"ready", "go", "go2", "collect", "reap", "done", "gone"}
  /\ verdict \in {"none", "ok", "failed"}

\* While the decoder reads a slot it holds the encoding of the request in hand
\* and the encoder is not writing it: "the producer must receive a credit before
\* reusing that slot" is enough, with one slot and with three.
WholeActivation ==
  pc[C] = "decode" =>
    /\ activation[SlotOf(InHand)] = InHand
    /\ pc[P] = "encode" => SlotOf(sent) # SlotOf(InHand)

\* No best-effort process runs while the encoder does: the /proc poll never takes
\* a process that is still waking from the last request for a stopped one.
EncodesAlone ==
  pc[P] = "encode" =>
    \A g \in Gates : gate[g] \in {"stopped", "zombie", "gone"}

\* However the producer ends (done, failed, a peer gone, SIGPIPE, SIGTERM), it
\* leaves no gate process stopped; only its own sudden death can.
GatesReleased ==
  ~Alive(P) /\ status[P] # Crashed =>
    \A g \in Gates : gate[g] \notin {"stopping", "stopped"}

\* When main succeeds, every request was decoded once, in order, from its own
\* encoding.
OkMeansAllDecoded ==
  verdict = "ok" => decoded = [k \in 1 .. Total |-> k - 1]

\* Why the window is enough: the inductive invariant behind WholeActivation and
\* OkMeansAllDecoded.  Credits lag decodes, decodes lag transfers, a producer past
\* its credit has room, and every slot of an undecoded transfer holds it.
Ahead == pc[P] \in {"pause", "stopping", "encode", "resume", "resuming", "send"}
Counts ==
  /\ acks <= acked /\ acked <= Len(decoded) /\ Len(decoded) <= taken
  /\ taken <= sent /\ sent <= Total
  /\ pc[C] \in {"init", "go", "setup", "receive"} =>
       Len(decoded) = taken /\ acked = taken
  /\ pc[C] = "decode" => Len(decoded) = taken - 1 /\ acked = taken - 1
  /\ pc[C] = "ack" => Len(decoded) = taken /\ acked = taken - 1
  /\ sent <= acks + slots
  /\ Ahead => sent < Total /\ sent < acks + slots
Contents ==
  /\ pc[P] \in {"resume", "resuming", "send"} => activation[SlotOf(sent)] = sent
  /\ \A r \in Requests : Len(decoded) <= r /\ r < sent => activation[SlotOf(r)] = r
Results ==
  /\ \A k \in 1 .. Len(decoded) : decoded[k] = k - 1
  /\ collected <= Len(decoded)
  /\ verdict = "ok" => Len(decoded) = Total
WindowInv == Counts /\ Contents /\ Results

\* Where the gates can be at each step of the producer: the inductive invariant
\* behind EncodesAlone and GatesReleased.
GateInv ==
  /\ main = "ready" => go = {}
  /\ P \notin go => /\ pc[P] \in {"init", "go", "throw", "report", "gone"}
                    /\ \A g \in Gates : gate[g] \in {"run", "zombie", "gone"}
  /\ pc[P] \in {"init", "go", "setup", "next", "pause", "send"} =>
       \A g \in Gates : gate[g] \in {"run", "zombie", "gone"}
  /\ pc[P] = "stopping" =>
       \A g \in Gates : gate[g] \in {"stopping", "stopped", "zombie", "gone"}
  /\ pc[P] \in {"encode", "resume"} =>
       \A g \in Gates : gate[g] \in {"stopped", "zombie", "gone"}
  /\ pc[P] = "resuming" =>
       \A g \in Gates : gate[g] \in {"run", "waking", "zombie", "gone"}
  /\ pc[P] = "report" \/ (pc[P] = "gone" /\ status[P] # Crashed) =>
       \A g \in Gates : gate[g] \notin {"stopping", "stopped"}

\* From its transfer to the end of its decode a request holds a slot, and the
\* requests that do obey the abstract credit window.
Window == INSTANCE CreditWindow WITH
  Windows <- PipelineSlots, window <- slots,
  published <- sent, finished <- Len(decoded)
ImplementsWindow == Window!Spec

\* A gate process that is told to stop runs again, ends, or has lost its producer
\* to a sudden death: no failure path forgets the SIGCONT.
EveryPauseEnds ==
  \A g \in Gates :
    gate[g] \in {"stopping", "stopped"}
      ~> gate[g] \notin {"stopping", "stopped"} \/ status[P] = Crashed

\* A child died before its Ready message while the other holds the ready pipe open.
ReadyLost ==
  /\ main = "ready" /\ Len(readiness) + Len(readyPipe) < 2
  /\ \E c \in Children : ~Alive(c) /\ Alive(CHOOSE d \in Children : d # c)
  /\ \A c \in Children : Alive(c) => pc[c] = "go"

\* Unless a child is lost before its Ready message, main and both children end,
\* whatever fails, dies or is killed on the way.
RunEnds == []~ReadyLost => <>Over

(***************************************************************************)
(* Why the run ends, step by step: what RunEnds rests on besides fairness. *)
(***************************************************************************)

\* A live process that cannot move: it reads a pipe that is empty while somebody
\* may still write to it, or waits for a child.
ProducerBlocked ==
  \/ pc[P] = "go" /\ P \notin go /\ main # "gone"
  \/ /\ pc[P] = "next" /\ acks = acked /\ Alive(C)
     /\ (sent < Total /\ CreditNeeded) \/ (sent = Total /\ acks < Total)
ConsumerBlocked ==
  \/ pc[C] = "go" /\ C \notin go /\ main # "gone"
  \/ pc[C] = "receive" /\ taken = sent /\ Alive(P)
MainBlocked ==
  \/ main = "ready" /\ Len(readiness) < 2 /\ readyPipe = <<>> /\ \E c \in Children : Alive(c)
  \/ main = "collect" /\ collected < Total /\ collected = Len(decoded) /\ Alive(C)
  \/ main = "reap" /\ \E c \in Children : Alive(c)
AllBlocked ==
  /\ Alive(P) => ProducerBlocked
  /\ Alive(C) => ConsumerBlocked
  /\ main \notin {"done", "gone"} => MainBlocked

\* main, encoder and decoder never wait for each other in a circle: the credits, the
\* transfers and the start-up hand-shake always leave one of them a step to take,
\* but for the Ready message that a dead child did not send.
NoCircularWait == AllBlocked => Over \/ ReadyLost

\* An upper bound of the steps that the three have left.
ProducerLeft(l) ==
  CASE l = "init" -> 12    [] l = "go" -> 11       [] l = "setup" -> 10
    [] l = "next" -> 9     [] l = "pause" -> 8     [] l = "stopping" -> 7
    [] l = "encode" -> 6   [] l = "resume" -> 5    [] l = "resuming" -> 4
    [] l = "send" -> 3     [] l = "throw" -> 2     [] l = "report" -> 1
    [] l = "gone" -> 0
ConsumerLeft(l) ==
  CASE l = "init" -> 7     [] l = "go" -> 6        [] l = "setup" -> 5
    [] l = "receive" -> 4  [] l = "decode" -> 3    [] l = "ack" -> 2
    [] l = "report" -> 1   [] l = "gone" -> 0
MainLeft(l) ==
  CASE l = "ready" -> 5    [] l = "go" -> 4        [] l = "go2" -> 3
    [] l = "collect" -> 2  [] l = "reap" -> 1      [] l \in {"done", "gone"} -> 0
EncoderLeft == 7 * (Total - sent) + (Total - acks) + ProducerLeft(pc[P])
DecoderLeft == 3 * (Total - acked) + ConsumerLeft(pc[C])
CallerLeft  == (2 - Len(readiness)) + (Total - collected) + MainLeft(main)
StepsLeft   == EncoderLeft + DecoderLeft + CallerLeft
GateLeft(s) ==
  CASE s \in {"stopping", "waking"} -> 3 [] s \in {"run", "stopped"} -> 2
    [] s = "zombie" -> 1 [] s = "gone" -> 0

\* Nothing is tried again for ever: every step of main and of the children, the
\* failures and the handlers included, uses up one of the steps they have left, and
\* between two signals a gate process changes its state a few times at most.
StepsRunOut ==
  /\ [][0 <= StepsLeft' /\ StepsLeft' < StepsLeft]_<<pc, status, pipes, flow, main, verdict>>
  /\ [][pc' = pc => \A g \in Gates :
           gate'[g] # gate[g] => GateLeft(gate'[g]) < GateLeft(gate[g])]_gate

\* What a process that waits knows: the credits read follow the window exactly; each
\* child that waits for its go has sent its Ready message, which is in the pipe or
\* read; and main only collects when both have their go.
CreditsExact ==
  /\ pc[P] \in {"init", "go", "setup"} => sent = 0 /\ acks = 0
  /\ pc[P] = "next" /\ sent < Total => acks = IF sent < slots THEN 0 ELSE sent - slots
  /\ Ahead => acks = IF sent < slots THEN 0 ELSE sent + 1 - slots
HandshakeInv ==
  /\ Len(readiness) <= 2
  /\ main = "ready" =>
       /\ \A c \in Children : pc[c] = "go" => Len(readiness) + Len(readyPipe) >= 1
       /\ (\A c \in Children : pc[c] = "go") => Len(readiness) + Len(readyPipe) >= 2
  /\ main \in {"ready", "go"} => go = {}
  /\ main = "go2" => go = {P}
  /\ main \in {"collect", "reap"} => go = Children
  /\ C \in go => P \in go
  /\ \A c \in Children : pc[c] \notin {"init", "go", "throw", "report", "gone"} => c \in go
  /\ main = "done" => \A c \in Children : ~Alive(c)
WaitInv == CreditsExact /\ HandshakeInv

(***************************************************************************)
(* What main's own branch says and the code does not keep.                 *)
(***************************************************************************)

\* main notices a child that is lost before it is ready: its branch for a short
\* read of the ready pipe says so.  False: that read only ends when the other
\* child, which waits for main, has closed the pipe as well.
LostChildIsNoticed == <>Over

==============================================================================
