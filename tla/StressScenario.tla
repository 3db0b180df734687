---------------------------- MODULE StressScenario ----------------------------
(***************************************************************************)
(* One scenario of scripts/run_p9_dependent_stress_smoke.py.  The driver   *)
(* starts a best-effort TensorRT process (trt_inference.cpp, role          *)
(* pressure), waits until it has stopped itself, runs the split pipeline   *)
(* of benchmarks/mig_trt_pipeline.cpp under a timeout, and then stops the  *)
(* background.  The pipeline's producer and consumer serve one request at  *)
(* a time: transfer, result, one ack.  A gate closes around the producer,  *)
(* the consumer or both: SIGSTOP, or SIGUSR1 asking the background to stop *)
(* itself, a /proc poll, and SIGCONT.  With --orion-profile-aware the      *)
(* producer also runs a best-effort thread behind two condition variables. *)
(*                                                                         *)
(* A pipe is the count of what was written and read.  Time is abstracted:  *)
(* a poll that is not satisfied may always reach its deadline, except the  *)
(* 30 s the stopped background has, which is longer than a running one     *)
(* needs.  Time stamps, traces and statistics are left out.                *)
(***************************************************************************)
EXTENDS Integers, Sequences

CONSTANTS
  Total,       \* --warmup plus --iterations
  MayThrow,    \* may a CUDA or TensorRT call throw?
  MayCrash     \* may a child of the pipeline be killed?

ASSUME StressAssumption ==
  Total \in Nat \ {0} /\ MayThrow \in BOOLEAN /\ MayCrash \in BOOLEAN

VARIABLES
  run,               \* the scenario and the options that matter
  pc, status,        \* the pipeline's children and their wait statuses
  sent, taken,       \* transfers written and read
  acked, acks,       \* acks written and read: acks is the producer's loop index
  activation,        \* which request's activation the mapping holds
  results,           \* what each result was computed from
  main, ready, go, collected, verdict,        \* main() of the pipeline
  bpc, halt, pause, stop, served, bstatus,    \* the background process
  worker, started, quit, completed,           \* the Orion thread of the producer
  driver, outcome                             \* the Python driver

flow == <<sent, taken, acked, acks, activation, results>>
parent == <<main, ready, go, collected, verdict>>
background == <<bpc, halt, pause, stop, served, bstatus>>
orion == <<worker, started, quit, completed>>
smoke == <<driver, outcome>>
vars == <<run, pc, status, flow, parent, background, orion, smoke>>

P == "producer"
C == "consumer"
Children == {P, C}
NoRequest == -1
Running == -1
Broken  == 141
Crashed == 139

\* parse_options: the consumer scope needs the dependent mode.  Orion runs without
\* a background process of the driver.
Scopes == {"none", "producer", "consumer", "pipeline"}
Runs ==
  {r \in [dep: {"dependent", "independent"}, scope: Scopes,
          mode: {"stop", "cooperative"}, admitted: BOOLEAN, orion: BOOLEAN] :
     /\ r.scope = "consumer" => r.dep = "dependent"
     /\ r.scope = "none" => r.mode = "stop"
     /\ ~r.admitted => r.scope = "none"
     /\ r.orion => ~r.admitted /\ r.dep = "dependent"}

Dependent == run.dep = "dependent"
Gated == run.scope # "none"
Alive(c) == pc[c] \notin {"off", "gone"}
ReadyOpen == main = "ready"
ResultOpen == main \in {"ready", "go", "go2", "collect"}

Init ==
  /\ run \in Runs
  /\ pc = [c \in Children |-> "off"] /\ status = [c \in Children |-> Running]
  /\ sent = 0 /\ taken = 0 /\ acked = 0 /\ acks = 0
  /\ activation = NoRequest /\ results = <<>>
  /\ main = "off" /\ ready = [c \in Children |-> "none"] /\ go = {}
  /\ collected = 0 /\ verdict = "none"
  /\ bpc = (IF run.admitted THEN "boot" ELSE "gone") /\ halt = "run"
  /\ pause = FALSE /\ stop = FALSE /\ served = FALSE
  /\ bstatus = (IF run.admitted THEN "none" ELSE "ok")
  /\ worker = "none" /\ started = FALSE /\ quit = FALSE /\ completed = FALSE
  /\ driver = "barrier" /\ outcome = "none"

(***************************************************************************)
(* The background process                                                  *)
(***************************************************************************)

\* A signal that is on its way does not hold its target yet.
BRuns == halt \in {"run", "stopping"}
BGoes(from, to) ==
  /\ BRuns /\ bpc = from /\ bpc' = to
  /\ UNCHANGED <<run, pc, status, flow, parent, halt, pause, stop, served, bstatus,
                 orion, smoke>>

\* raise(SIGSTOP), at the start barrier and wherever a pause is honoured.
Raise ==
  /\ BRuns /\ bpc \in {"boot", "raise"}
  /\ halt' = "stopped" /\ bpc' = "top"
  /\ UNCHANGED <<run, pc, status, flow, parent, pause, stop, served, bstatus, orion,
                 smoke>>

\* Variant: The flag stays set.
HonorKeepsFlag ==
  /\ BRuns /\ bpc = "top" /\ pause
  /\ bpc' = "raise"
  /\ UNCHANGED <<run, pc, status, flow, parent, halt, pause, stop, served, bstatus,
                 orion, smoke>>

\* honor_pause_request: the flag is cleared before the process stops itself.
Honor ==
  /\ BRuns /\ bpc = "top" /\ pause
  /\ pause' = FALSE /\ bpc' = "raise"
  /\ UNCHANGED <<run, pc, status, flow, parent, halt, stop, served, bstatus, orion,
                 smoke>>

Look == ~pause /\ BGoes("top", "check")
\* The stop flag, the sleep until the next release (which looks again), inference.
Proceed == ~stop /\ (BGoes("check", "top") \/ BGoes("check", "infer"))

Infer ==
  /\ BRuns /\ bpc = "infer"
  /\ bpc' = "top" /\ served' = TRUE
  /\ UNCHANGED <<run, pc, status, flow, parent, halt, pause, stop, bstatus, orion,
                 smoke>>

BEnds(s) ==
  /\ bpc' = "gone" /\ halt' = "run" /\ bstatus' = s
  /\ UNCHANGED <<run, pc, status, flow, parent, pause, stop, served, orion, smoke>>

\* A report without a sample is an error.
BLeaves ==
  /\ BRuns /\ bpc = "check" /\ stop
  /\ BEnds(IF served THEN "ok" ELSE "error")
BThrows == MayThrow /\ BRuns /\ bpc \in {"boot", "infer"} /\ BEnds("error")

\* The kernel completes a stop and a wake-up.
Kernel ==
  /\ halt \in {"stopping", "waking"}
  /\ halt' = IF halt = "stopping" THEN "stopped" ELSE "run"
  /\ UNCHANGED <<run, pc, status, flow, parent, bpc, pause, stop, served, bstatus,
                 orion, smoke>>

BackgroundSteps == Raise \/ Honor \/ Look \/ Proceed \/ Infer \/ BLeaves \/ Kernel

\* Signals from others.  /proc reads T until the wake-up is done; a SIGCONT
\* discards a SIGSTOP that is pending.
InT == bpc # "gone" /\ halt \in {"stopped", "waking"}
Sigcont == CASE halt = "stopped"  -> "waking"
             [] halt = "stopping" -> "run"
             [] OTHER -> halt

(***************************************************************************)
(* The two children of the pipeline                                        *)
(***************************************************************************)

Goto(c, l) == pc' = [pc EXCEPT ![c] = l] /\ UNCHANGED status
Leave(c, s) ==
  /\ pc' = [pc EXCEPT ![c] = "gone"]
  /\ status' = [status EXCEPT ![c] = s]

\* An exception: _exit(5) with no Ready message and no SIGCONT, after the Orion
\* thread has been shut down.
Throw(c) == IF c = P /\ run.orion THEN Goto(c, "unwind") ELSE Leave(c, 5)

\* A step of c that only moves it, and one that throws.
CGoes(c, from, to) ==
  /\ pc[c] = from /\ Goto(c, to)
  /\ UNCHANGED <<run, flow, parent, background, orion, smoke>>
CFails(c, from) ==
  /\ pc[c] = from /\ Throw(c)
  /\ UNCHANGED <<run, flow, parent, background, orion, smoke>>

\* CUDA is initialised; a status other than success is reported and _exit(2).
InitCuda(c) == CGoes(c, "init", IF c = P /\ run.orion THEN "orion" ELSE "setup")
InitFails(c) ==
  /\ MayThrow /\ pc[c] = "init"
  /\ Leave(c, IF ReadyOpen THEN 2 ELSE Broken)
  /\ ready' = [ready EXCEPT ![c] = IF ReadyOpen THEN "bad" ELSE @]
  /\ UNCHANGED <<run, flow, main, go, collected, verdict, background, orion, smoke>>

\* Mappings, engines and traces, then the Ready message.
Setup(c) ==
  /\ pc[c] = "setup"
  /\ IF ReadyOpen THEN Goto(c, "go") ELSE Leave(c, Broken)
  /\ ready' = [ready EXCEPT ![c] = IF ReadyOpen THEN "ok" ELSE @]
  /\ UNCHANGED <<run, flow, main, go, collected, verdict, background, orion, smoke>>
SetupFails(c) == MayThrow /\ CFails(c, "setup")

\* go; start_work sets started_ under the mutex, which the thread holds while it
\* evaluates its predicate.
ReadGo(c) ==
  /\ pc[c] = "go" /\ c \in go /\ (c = P => worker # "dozing")
  /\ Goto(c, IF c = P THEN "arrive" ELSE "receive")
  /\ started' = (started \/ (c = P /\ run.orion))
  /\ worker' = IF c = P /\ worker = "parked" THEN "look" ELSE worker
  /\ UNCHANGED <<run, flow, parent, background, quit, completed, smoke>>
\* The end of file (3) or 30 s without a byte (5).
NoGo(c) ==
  /\ pc[c] = "go" /\ c \notin go
  /\ \/ main = "gone" /\ Leave(c, 3)
     \/ main # "gone" /\ Throw(c)
  /\ UNCHANGED <<run, flow, parent, background, orion, smoke>>

Crash(c) ==
  /\ MayCrash /\ Alive(c) /\ Leave(c, Crashed)
  /\ UNCHANGED <<run, flow, parent, background, orion, smoke>>

(***************************************************************************)
(* The gate: pause_processes and resume_processes, by child c              *)
(***************************************************************************)

\* SIGSTOP, or SIGUSR1 (which sets a flag), unless the process is in state T.  A
\* process that was reaped has no /proc entry.
PauseSignal(c) ==
  /\ pc[c] = "pause"
  /\ IF driver = "done" THEN Throw(c) ELSE Goto(c, "pausing")
  /\ halt' = IF bpc # "gone" /\ run.mode = "stop" /\ halt = "run" THEN "stopping"
             ELSE halt
  /\ pause' = (pause \/ (bpc # "gone" /\ run.mode = "cooperative" /\ ~InT))
  /\ UNCHANGED <<run, flow, parent, bpc, stop, served, bstatus, orion, smoke>>

AfterPause == IF run.scope = "consumer" THEN "publish" ELSE "begin"
Paused(c) == InT /\ CGoes(c, "pausing", AfterPause)
PauseTimesOut(c) == ~InT /\ CFails(c, "pausing")

ResumeSignal(c) ==
  /\ pc[c] = "resume"
  /\ IF driver = "done" THEN Throw(c) ELSE Goto(c, "resuming")
  /\ halt' = Sigcont
  /\ UNCHANGED <<run, flow, parent, bpc, pause, stop, served, bstatus, orion, smoke>>

AfterResume(c) == IF c = P THEN "ack" ELSE "report"
\* Variant: The wake-up is not waited for.
ResumedUnseen(c) == CGoes(c, "resuming", AfterResume(c))
Resumed(c) == ~InT /\ CGoes(c, "resuming", AfterResume(c))
ResumeTimesOut(c) == InT /\ CFails(c, "resuming")

(***************************************************************************)
(* Producer                                                                *)
(***************************************************************************)

\* The next request has arrived.
Arrive ==
  /\ acks < Total
  /\ CGoes(P, "arrive", IF Gated /\ run.scope # "consumer" THEN "pause" ELSE "begin")

Transmit(next) ==
  /\ IF Alive(C) THEN sent' = sent + 1 /\ Goto(P, next)
                 ELSE UNCHANGED sent /\ Leave(P, Broken)
  /\ UNCHANGED <<run, taken, acked, acks, activation, results, parent, background,
                 orion, smoke>>

\* Variant: Every consumer is released before the inference.
BeginReleases == pc[P] = "begin" /\ Transmit("infer")

\* The independent consumer is released before the inference.
Begin ==
  \/ pc[P] = "begin" /\ ~Dependent /\ Transmit("infer")
  \/ Dependent /\ CGoes(P, "begin", "infer")

Produce ==
  /\ pc[P] = "infer"
  /\ activation' = acks
  /\ Goto(P, IF run.scope = "consumer" THEN "pause" ELSE "publish")
  /\ UNCHANGED <<run, sent, taken, acked, acks, results, parent, background, orion,
                 smoke>>
ProduceFails == MayThrow /\ CFails(P, "infer")

AfterPublish == IF run.scope = "producer" THEN "resume" ELSE "ack"
Publish ==
  \/ pc[P] = "publish" /\ Dependent /\ Transmit(AfterPublish)
  \/ ~Dependent /\ CGoes(P, "publish", AfterPublish)

\* Variant: The loop goes on without the ack.
ReadNoAck ==
  /\ pc[P] = "ack"
  /\ acks' = acks + 1 /\ Goto(P, "arrive")
  /\ UNCHANGED <<run, sent, taken, acked, activation, results, parent, background,
                 orion, smoke>>

\* Checksums, the metadata record, and the ack.
ReadAck ==
  /\ pc[P] = "ack" /\ acks < acked
  /\ acks' = acks + 1 /\ Goto(P, "arrive")
  /\ UNCHANGED <<run, sent, taken, acked, activation, results, parent, background,
                 orion, smoke>>
NoAck ==
  /\ pc[P] = "ack" /\ acks = acked
  /\ IF Alive(C) THEN Throw(P) ELSE Leave(P, 4)
  /\ UNCHANGED <<run, flow, parent, background, orion, smoke>>

ProducerEnds ==
  /\ pc[P] = "arrive" /\ acks = Total
  /\ IF run.orion THEN Goto(P, "finish") ELSE Leave(P, 0)
  /\ UNCHANGED <<run, flow, parent, background, orion, smoke>>

(***************************************************************************)
(* OrionBackground: the thread, and its owner the producer                 *)
(***************************************************************************)

WGoes(from, to) ==
  /\ Alive(P) /\ worker = from /\ worker' = to
  /\ UNCHANGED <<run, pc, status, flow, parent, background, started, quit, completed,
                 smoke>>

\* The constructor starts the thread and waits 10 s for it to be ready.
StartThread ==
  /\ pc[P] = "orion" /\ worker = "none"
  /\ worker' = "boot"
  /\ UNCHANGED <<run, pc, status, flow, parent, background, started, quit, completed,
                 smoke>>
ThreadReady == worker \notin {"none", "boot", "failed"} /\ CGoes(P, "orion", "setup")
ThreadNotReady == worker \in {"boot", "failed"} /\ CGoes(P, "orion", "unwind")

\* The thread: registered and ready; then its predicate, evaluated with the mutex
\* held, and the wait, which only a later notify ends.
Register == WGoes("boot", "look")
RegisterFails == MayThrow /\ WGoes("boot", "failed")
Predicate == IF started \/ quit THEN WGoes("look", "woken") ELSE WGoes("look", "dozing")
Park == WGoes("dozing", "parked")
Woken == WGoes("woken", IF quit THEN "ended" ELSE "work")
Work ==
  /\ Alive(P) /\ worker = "work"
  /\ IF quit THEN worker' = "ended" /\ UNCHANGED completed
             ELSE UNCHANGED worker /\ completed' = TRUE
  /\ UNCHANGED <<run, pc, status, flow, parent, background, started, quit, smoke>>
WorkFails == MayThrow /\ WGoes("work", "failed")

\* shutdown stores stop_ and notifies, both without the mutex, and joins.
Shutdown ==
  /\ pc[P] \in {"finish", "unwind"} /\ ~quit
  /\ quit' = TRUE
  /\ worker' = IF worker = "parked" THEN "look" ELSE worker
  /\ UNCHANGED <<run, pc, status, flow, parent, background, started, completed, smoke>>
Join ==
  /\ pc[P] \in {"finish", "unwind"} /\ quit /\ worker \in {"ended", "failed"}
  /\ Leave(P, IF pc[P] = "finish" /\ worker = "ended" /\ completed THEN 0 ELSE 5)
  /\ worker' = "none"
  /\ UNCHANGED <<run, flow, parent, background, started, quit, completed, smoke>>

\* The notify came between the predicate and the wait: nothing wakes the thread.
LostWakeup == quit /\ worker \in {"dozing", "parked"}

(***************************************************************************)
(* Consumer                                                                *)
(***************************************************************************)

Receive ==
  /\ pc[C] = "receive" /\ taken < sent
  /\ taken' = taken + 1 /\ Goto(C, "infer")
  /\ UNCHANGED <<run, sent, acked, acks, activation, results, parent, background,
                 orion, smoke>>
\* The end of the transfers, or 30 s without one.
NoTransfer ==
  /\ pc[C] = "receive" /\ taken = sent
  /\ IF Alive(P) THEN Leave(C, 5) ELSE Leave(C, 0)
  /\ UNCHANGED <<run, flow, parent, background, orion, smoke>>

\* While pc is "infer" a dependent consumer reads the mapping, an independent one
\* its own replay of the activation.
InHand == taken - 1
Consume ==
  CGoes(C, "infer", IF run.scope \in {"pipeline", "consumer"} THEN "resume" ELSE "report")
ConsumeFails == MayThrow /\ CFails(C, "infer")

Report ==
  /\ pc[C] = "report"
  /\ IF ResultOpen
     THEN /\ results' = Append(results, IF Dependent THEN activation ELSE InHand)
          /\ Goto(C, "ack")
     ELSE UNCHANGED results /\ Leave(C, Broken)
  /\ UNCHANGED <<run, sent, taken, acked, acks, activation, parent, background, orion,
                 smoke>>

Ack ==
  /\ pc[C] = "ack"
  /\ IF Alive(P) THEN acked' = acked + 1 /\ Goto(C, "receive")
                 ELSE UNCHANGED acked /\ Leave(C, Broken)
  /\ UNCHANGED <<run, sent, taken, acks, activation, results, parent, background,
                 orion, smoke>>

ChildSteps(c) == InitCuda(c) \/ Setup(c) \/ ReadGo(c) \/ NoGo(c)
GateSteps(c) ==
  \/ PauseSignal(c) \/ Paused(c) \/ PauseTimesOut(c)
  \/ ResumeSignal(c) \/ Resumed(c) \/ ResumeTimesOut(c)
ProducerSteps ==
  \/ ChildSteps(P) \/ GateSteps(P) \/ Arrive \/ Begin \/ Produce \/ Publish \/ ReadAck
  \/ NoAck \/ ProducerEnds \/ StartThread \/ ThreadReady \/ ThreadNotReady
  \/ Shutdown \/ Join
ThreadSteps == Register \/ Predicate \/ Park \/ Woken \/ Work
ConsumerSteps ==
  ChildSteps(C) \/ GateSteps(C) \/ Receive \/ NoTransfer \/ Consume \/ Report \/ Ack

(***************************************************************************)
(* main() of the pipeline                                                  *)
(***************************************************************************)

MGoes(from, to) ==
  /\ main = from /\ main' = to
  /\ verdict' = IF to = "gone" THEN "failed" ELSE verdict
  /\ UNCHANGED <<run, pc, status, flow, ready, go, collected, background, orion, smoke>>

SeesReady == (\A c \in Children : ready[c] = "ok") /\ MGoes("ready", "go")
\* A short read, a status, or 30 s without a message: main fails and leaves the
\* children to the end of file of their go pipes.  (Its two SIGTERMs after a short
\* read find both children dead: either holds the pipe open.)
NotReady == (\E c \in Children : ready[c] # "ok") /\ MGoes("ready", "gone")

\* A child that died after its Ready message kills main here.
GiveGo(c, from, next) ==
  /\ main = from
  /\ main' = IF Alive(c) THEN next ELSE "gone"
  /\ go' = IF Alive(c) THEN go \cup {c} ELSE go
  /\ verdict' = IF Alive(c) THEN verdict ELSE "failed"
  /\ UNCHANGED <<run, pc, status, flow, ready, collected, background, orion, smoke>>
GoProducer == GiveGo(P, "go", "go2")
GoConsumer == GiveGo(C, "go2", "collect")

Collect ==
  /\ main = "collect" /\ collected < Total /\ collected < Len(results)
  /\ collected' = collected + 1
  /\ UNCHANGED <<run, pc, status, flow, main, ready, go, verdict, background, orion,
                 smoke>>
CollectEnds ==
  /\ collected = Total \/ (collected = Len(results) /\ ~Alive(C))
  /\ MGoes("collect", "reap")
\* 30 s without a result: main ends and does not wait for its children.
CollectTimesOut ==
  /\ collected < Total /\ collected = Len(results) /\ Alive(C)
  /\ MGoes("collect", "gone")

\* Every result is there and both children returned 0.
Complete == collected = Total /\ status[P] = 0 /\ status[C] = 0
Reap ==
  /\ main = "reap" /\ \A c \in Children : ~Alive(c)
  /\ main' = "gone" /\ verdict' = IF Complete THEN "ok" ELSE "failed"
  /\ UNCHANGED <<run, pc, status, flow, ready, go, collected, background, orion, smoke>>

MainSteps ==
  \/ SeesReady \/ NotReady \/ GoProducer \/ GoConsumer \/ Collect \/ CollectEnds
  \/ CollectTimesOut \/ Reap

(***************************************************************************)
(* The driver: one pass of main's scenario loop                            *)
(***************************************************************************)

\* The background stopped itself; it is continued unless a gate will open first, and
\* runs long before the pipeline's children have their engines.
Launch ==
  /\ driver = "barrier" /\ driver' = "pipeline"
  /\ run.admitted => InT
  /\ halt' = IF run.scope \in {"none", "consumer"} THEN "run" ELSE halt
  /\ main' = "ready" /\ pc' = [c \in Children |-> "init"]
  /\ UNCHANGED <<run, status, flow, ready, go, collected, verdict, bpc, pause, stop,
                 served, bstatus, orion, outcome>>
\* It ended, or 30 s are over.
NoLaunch ==
  /\ driver = "barrier" /\ run.admitted /\ ~InT
  /\ driver' = "stop" /\ outcome' = "failed"
  /\ UNCHANGED <<run, pc, status, flow, parent, background, orion>>

PipelineEnds ==
  /\ driver = "pipeline" /\ main = "gone"
  /\ driver' = "stop"
  /\ outcome' = IF verdict = "ok" THEN outcome ELSE "failed"
  /\ UNCHANGED <<run, pc, status, flow, parent, background, orion>>
\* 180 s: subprocess.run kills main, and main alone.
PipelineTimesOut ==
  /\ driver = "pipeline" /\ main # "gone"
  /\ main' = "gone" /\ verdict' = "failed"
  /\ driver' = "stop" /\ outcome' = "failed"
  /\ UNCHANGED <<run, pc, status, flow, ready, go, collected, background, orion>>

\* stop(): SIGCONT and SIGINT.  Before its handlers are installed SIGINT kills.
StopBackground ==
  /\ driver = "stop" /\ driver' = "reap"
  /\ halt' = Sigcont
  /\ \/ stop' = (stop \/ bpc # "gone") /\ UNCHANGED <<bpc, bstatus>>
     \/ bpc = "boot" /\ bpc' = "gone" /\ bstatus' = "error" /\ UNCHANGED stop
  /\ UNCHANGED <<run, pc, status, flow, parent, pause, served, orion, outcome>>

\* Variant: SIGTERM, which a stopped process does not handle.
TerminateBackground ==
  /\ driver = "reap" /\ bpc # "gone" /\ halt = "stopped" /\ ~stop
  /\ stop' = TRUE
  /\ UNCHANGED <<run, pc, status, flow, parent, bpc, halt, pause, served, bstatus,
                 orion, smoke>>

\* 30 s later a process that does not run is still there.
KillBackground ==
  /\ driver = "reap" /\ bpc # "gone" /\ halt = "stopped"
  /\ bpc' = "gone" /\ bstatus' = "killed" /\ halt' = "run"
  /\ UNCHANGED <<run, pc, status, flow, parent, pause, stop, served, orion, smoke>>

DriverEnds ==
  /\ driver = "reap" /\ bpc = "gone"
  /\ driver' = "done"
  /\ outcome' = IF outcome = "none" /\ bstatus = "ok" THEN "ok" ELSE "failed"
  /\ UNCHANGED <<run, pc, status, flow, parent, background, orion>>

DriverSteps ==
  Launch \/ NoLaunch \/ PipelineEnds \/ StopBackground \/ KillBackground \/ DriverEnds

(***************************************************************************)
(* Specification                                                           *)
(***************************************************************************)

Mishaps ==
  \/ \E c \in Children : InitFails(c) \/ SetupFails(c) \/ Crash(c)
  \/ ProduceFails \/ ConsumeFails \/ BThrows \/ RegisterFails \/ WorkFails
  \/ PipelineTimesOut

Over == driver = "done" /\ \A c \in Children : ~Alive(c)
Finished == Over /\ UNCHANGED vars

Next ==
  \/ ProducerSteps \/ ThreadSteps \/ ConsumerSteps \/ MainSteps \/ BackgroundSteps
  \/ DriverSteps \/ Mishaps \/ Finished

\* Every process is scheduled, and a deadline that stays unmet is reached.
Fairness ==
  /\ WF_vars(ProducerSteps) /\ WF_vars(ThreadSteps) /\ WF_vars(ConsumerSteps)
  /\ WF_vars(MainSteps) /\ WF_vars(BackgroundSteps) /\ WF_vars(DriverSteps)

Spec == Init /\ [][Next]_vars
FairSpec == Spec /\ Fairness

(***************************************************************************)
(* Properties                                                              *)
(***************************************************************************)

Requests == 0 .. Total - 1
ProducerLabels == {"off", "init", "orion", "setup", "go", "arrive", "pause", "pausing",
                   "begin", "infer", "publish", "resume", "resuming", "ack", "finish",
                   "unwind", "gone"}
ConsumerLabels == {"off", "init", "setup", "go", "receive", "infer", "resume",
                   "resuming", "report", "ack", "gone"}

\* Every variable holds a value the program can give it.
TypeOK ==
  /\ run \in Runs
  /\ pc \in [Children -> ProducerLabels \cup ConsumerLabels]
  /\ pc[P] \in ProducerLabels /\ pc[C] \in ConsumerLabels
  /\ status \in [Children -> {Running, 0, 2, 3, 4, 5, Broken, Crashed}]
  /\ sent \in 0 .. Total /\ taken \in 0 .. Total
  /\ acked \in 0 .. Total /\ acks \in 0 .. Total
  /\ activation \in Requests \cup {NoRequest}
  /\ results \in Seq(Requests \cup {NoRequest})
  /\ main \in {"off", "ready", "go", "go2", "collect", "reap", "gone"}
  /\ ready \in [Children -> {"none", "ok", "bad"}] /\ go \subseteq Children
  /\ collected \in 0 .. Total /\ verdict \in {"none", "ok", "failed"}
  /\ bpc \in {"boot", "top", "raise", "check", "infer", "gone"}
  /\ halt \in {"run", "stopping", "stopped", "waking"}
  /\ pause \in BOOLEAN /\ stop \in BOOLEAN /\ served \in BOOLEAN
  /\ bstatus \in {"none", "ok", "error", "killed"}
  /\ worker \in {"none", "boot", "look", "dozing", "parked", "woken", "work", "ended",
                 "failed"}
  /\ started \in BOOLEAN /\ quit \in BOOLEAN /\ completed \in BOOLEAN
  /\ driver \in {"barrier", "pipeline", "stop", "reap", "done"}
  /\ outcome \in {"none", "ok", "failed"}

\* A held background runs nothing.  One that stops itself has no inference in flight;
\* SIGSTOP may catch it in the middle of one.
Held == bpc = "gone" \/ (halt = "stopped" /\ (run.mode = "cooperative" => bpc # "infer"))

\* While the driver waits for the pipeline, the stages inside the gate's scope run
\* alone.  With an independent consumer the pipeline scope protects the producer only
\* until that consumer is done: it is the one that reopens the gate.
ProtectedStages ==
  driver = "pipeline" =>
    /\ pc[P] = "infer" =>
         \/ run.scope \in {"none", "consumer"}
         \/ ~Dependent /\ run.scope = "pipeline"
              /\ taken > acks /\ pc[C] # "infer"
         \/ Held
    /\ pc[C] = "infer" /\ run.scope \in {"consumer", "pipeline"} => Held

\* Whatever fails first, a consumer that is told the mapping is ready finds the
\* activation of the request in hand there until it has reported it.
WholeActivation ==
  Dependent /\ pc[C] \in {"infer", "resume", "resuming", "report"} =>
    activation = InHand /\ pc[P] # "infer"

\* A successful scenario answered every request once, in order, from its own
\* activation, and left no child behind.
OkMeansAllServed ==
  outcome = "ok" =>
    /\ results = [k \in 1 .. Total |-> k - 1]
    /\ \A c \in Children : ~Alive(c)

\* A pipeline that succeeded leaves nothing that stops the background again: only
\* after a failure does the driver have to kill it.
KilledOnlyAfterFailure == bstatus = "killed" => verdict # "ok"

\* The ack makes the pipeline a credit window of one request.
Window == INSTANCE CreditWindow WITH
  Windows <- {1}, window <- 1, published <- sent, finished <- Len(results)
ImplementsWindow == Window!Spec

\* Unless the Orion thread misses the notify of a shutdown, the driver and the
\* pipeline's processes end, and the background with them: every pause that a failure
\* leaves behind is undone by the driver or by its kill.
RunEnds == []~LostWakeup => <>Over

==============================================================================
