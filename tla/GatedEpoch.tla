------------------------------ MODULE GatedEpoch ------------------------------
(***************************************************************************)
(* One measured epoch of runtime/mig_slack_governor.py (run_policy): the   *)
(* governor starts best-effort workers and one critical process, all of    *)
(* benchmarks/trt_inference.cpp, lets them meet at a barrier of stopped    *)
(* processes, releases the workers and then the critical process, collects *)
(* its result and stops the workers.                                       *)
(*                                                                         *)
(* During the epoch the critical process closes a gate around each burst:  *)
(* SIGUSR1 asks the gated workers to pause, each of them stops itself      *)
(* (raise(SIGSTOP)) at its next check, the critical process polls /proc    *)
(* until all are stopped, runs the burst, and sends SIGCONT.               *)
(*                                                                         *)
(* A signal sets its flag when it is sent: a stopped worker cannot look    *)
(* before it is continued.  Time is abstracted: a wait may time out at any *)
(* poll that is not satisfied, except the 30 s a stopping worker is given, *)
(* which is longer than anything a running worker does.                    *)
(***************************************************************************)
EXTENDS Integers, FiniteSets

CONSTANTS
  Workers,       \* the tenants of the epoch's placement plan
  Pipes,         \* dependency pipes, <<upstream, downstream>>
  PipeCapacity,  \* tokens a pipe holds before a writer blocks
  Samples,       \* --samples of the critical process
  Burst,         \* --burst-size
  MayThrow       \* may an inference or a set-up throw?

ASSUME EpochAssumption ==
  /\ Pipes \subseteq Workers \X Workers
  /\ PipeCapacity \in Nat \ {0}
  /\ Samples \in Nat \ {0} /\ Burst \in Nat \ {0}
  /\ MayThrow \in BOOLEAN

VARIABLES
  gate,                   \* --gate-pids: the workers this policy gates
  wpc, ret,               \* each worker, and where it goes after a raise
  stopped,                \* workers in state T
  pause, stop,            \* g_pause_requested, g_stop_requested
  served,                 \* workers with at least one sample
  wstatus,                \* how each worker ended
  tokens,                 \* unread tokens of each dependency pipe
  cpc, cstopped, index,   \* the critical process and its loop variable
  closed,                 \* ProcessGate::paused_
  cstatus,                \* how it ended
  gov, error,             \* run_policy, and whether an error is pending
  lapse                   \* what went wrong before the workers were stopped

signals == <<stopped, pause, stop>>
worker == <<wpc, ret, signals, served, wstatus, tokens>>
critical == <<cpc, cstopped, index, closed, cstatus>>
governor == <<gov, error, lapse>>
vars == <<gate, worker, critical, governor>>

Init ==
  /\ gate \in SUBSET Workers
  /\ wpc = [w \in Workers |-> "boot"] /\ ret = [w \in Workers |-> "top"]
  /\ stopped = {} /\ pause = {} /\ stop = {} /\ served = {}
  /\ wstatus = [w \in Workers |-> "none"]
  /\ tokens = [p \in Pipes |-> 0]
  /\ cpc = "warm" /\ cstopped = FALSE /\ index = 0 /\ closed = FALSE
  /\ cstatus = "none"
  /\ gov = "barrier" /\ error = FALSE /\ lapse = {}

(***************************************************************************)
(* A best-effort worker                                                    *)
(***************************************************************************)

Runs(w) == wpc[w] # "gone" /\ w \notin stopped
Move(w, l) == wpc' = [wpc EXCEPT ![w] = l]
Ends(w, s) == Move(w, "gone") /\ wstatus' = [wstatus EXCEPT ![w] = s]

\* A step of w that only moves it.
Goes(w, from, to) ==
  /\ Runs(w) /\ wpc[w] = from /\ Move(w, to)
  /\ UNCHANGED <<gate, ret, signals, served, wstatus, tokens, critical, governor>>

\* (mutant) The pause flag is never cleared.
HonorsAgain(w, from, back) ==
  /\ Runs(w) /\ wpc[w] = from /\ w \in pause
  /\ Move(w, "raise") /\ ret' = [ret EXCEPT ![w] = back]
  /\ UNCHANGED <<gate, stopped, pause, stop, served, wstatus, tokens, critical,
                 governor>>

\* honor_pause_request at `from': clear the flag and go on to raise(SIGSTOP),
\* coming back to `back'.
Honors(w, from, back) ==
  /\ Runs(w) /\ wpc[w] = from /\ w \in pause
  /\ pause' = pause \ {w}
  /\ Move(w, "raise") /\ ret' = [ret EXCEPT ![w] = back]
  /\ UNCHANGED <<gate, stopped, stop, served, wstatus, tokens, critical, governor>>

Raise(w) ==
  /\ Runs(w) /\ wpc[w] = "raise"
  /\ stopped' = stopped \cup {w}
  /\ Move(w, ret[w]) /\ ret' = [ret EXCEPT ![w] = "top"]
  /\ UNCHANGED <<gate, pause, stop, served, wstatus, tokens, critical, governor>>

\* Handlers are installed before the engine is loaded.
InstallHandlers(w) == Goes(w, "boot", "warm")

\* After the warm-up a worker stops itself, whatever was asked of it meanwhile.
Warmup(w) ==
  /\ Runs(w) /\ wpc[w] = "warm"
  /\ Move(w, "raise") /\ ret' = [ret EXCEPT ![w] = "top"]
  /\ UNCHANGED <<gate, signals, served, wstatus, tokens, critical, governor>>

\* The top of measure's loop; the honor at the end of the previous round is the
\* one made here.
Top(w) == Honors(w, "top", "check") \/ (w \notin pause /\ Goes(w, "top", "check"))

Check(w) ==
  IF w \in stop THEN Goes(w, "check", "leave") ELSE Goes(w, "check", "token")

\* wait_dependency_token: poll for a token, honouring pause and stop.
Upstream(w) == {p \in Pipes : p[2] = w}
AfterToken == {"sleep", "dispatch"}   \* a worker without a period does not sleep

\* (mutant) A worker that waits for a token looks for pauses only.
GetTokenUnstoppable(w) ==
  \/ Honors(w, "token", "token")
  \/ Upstream(w) = {} /\ \E l \in AfterToken : Goes(w, "token", l)
  \/ /\ Runs(w) /\ wpc[w] = "token" /\ w \notin pause
     /\ \E p \in Upstream(w) :
          tokens[p] > 0 /\ tokens' = [tokens EXCEPT ![p] = @ - 1]
     /\ \E l \in AfterToken : Move(w, l)
     /\ UNCHANGED <<gate, ret, signals, served, wstatus, critical, governor>>

GetToken(w) ==
  \/ Honors(w, "token", "token")
  \/ w \notin pause /\ w \in stop /\ Upstream(w) # {} /\ Goes(w, "token", "leave")
  \/ Upstream(w) = {} /\ \E l \in AfterToken : Goes(w, "token", l)
  \/ /\ Runs(w) /\ wpc[w] = "token" /\ w \notin pause \cup stop
     /\ \E p \in Upstream(w) :
          tokens[p] > 0 /\ tokens' = [tokens EXCEPT ![p] = @ - 1]
     /\ \E l \in AfterToken : Move(w, l)
     /\ UNCHANGED <<gate, ret, signals, served, wstatus, critical, governor>>

\* sleep_until_honoring_pause: look at the pause flag, then at the stop flag, then
\* nanosleep.  A signal wakes a worker that naps; one that comes between the look
\* and the nap does not.
Sleep(w) ==
  \/ Honors(w, "sleep", "rest")
  \/ w \notin pause /\ Goes(w, "sleep", "rest")
  \/ Goes(w, "sleep", "wake")                       \* past the release
Rest(w) ==
  \/ Goes(w, "rest", "dispatch")                    \* stopped, or just in time
  \/ w \notin stop /\ Goes(w, "rest", "doze")
Nap(w) == Goes(w, "doze", "nap")
NapEnds(w) == Goes(w, "nap", "wake")
Wake(w) ==
  Honors(w, "wake", "dispatch") \/ (w \notin pause /\ Goes(w, "wake", "dispatch"))

Dispatch(w) ==
  IF w \in stop THEN Goes(w, "dispatch", "leave") ELSE Goes(w, "dispatch", "infer")

InferDone(w) ==
  /\ Runs(w) /\ wpc[w] = "infer"
  /\ Move(w, "signal")
  /\ UNCHANGED <<gate, ret, signals, served, wstatus, tokens, critical, governor>>

\* signal_dependency_token: a write to a full pipe blocks, and is restarted by
\* the handlers std::signal installs.
Downstream(w) == {p \in Pipes : p[1] = w}
Blocked(w) == \E p \in Downstream(w) : tokens[p] = PipeCapacity

\* (mutant) The pipe never fills.
PutTokenUnbounded(w) ==
  /\ Runs(w) /\ wpc[w] = "signal"
  /\ tokens' = [p \in Pipes |-> IF p \in Downstream(w) THEN tokens[p] + 1 ELSE tokens[p]]
  /\ served' = served \cup {w}
  /\ Move(w, "top")
  /\ UNCHANGED <<gate, ret, signals, wstatus, critical, governor>>

PutToken(w) ==
  /\ Runs(w) /\ wpc[w] = "signal" /\ ~Blocked(w)
  /\ tokens' = [p \in Pipes |-> IF p \in Downstream(w) THEN tokens[p] + 1 ELSE tokens[p]]
  /\ served' = served \cup {w}
  /\ Move(w, "top")
  /\ UNCHANGED <<gate, ret, signals, wstatus, critical, governor>>

\* The report: "measurement produced no samples" is a failure.
Report(w) ==
  /\ Runs(w) /\ wpc[w] = "leave"
  /\ Ends(w, IF w \in served THEN "ok" ELSE "error")
  /\ UNCHANGED <<gate, ret, signals, served, tokens, critical, governor>>

WorkerThrows(w) ==
  /\ MayThrow /\ Runs(w) /\ wpc[w] \in {"warm", "infer"}
  /\ Ends(w, "error")
  /\ UNCHANGED <<gate, ret, signals, served, tokens, critical, governor>>

WorkerSteps(w) ==
  \/ Raise(w) \/ InstallHandlers(w) \/ Warmup(w) \/ Top(w) \/ Check(w)
  \/ GetToken(w) \/ Sleep(w) \/ Rest(w) \/ Nap(w) \/ NapEnds(w) \/ Wake(w) \/ Dispatch(w)
  \/ InferDone(w) \/ PutToken(w) \/ Report(w)

\* Signals to the workers in S.  A nap ends; a SIGINT before the handlers are
\* installed kills; SIGCONT wakes whoever is stopped.
Interrupt(S) ==
  [w \in Workers |-> IF w \in S /\ w \notin stopped /\ wpc[w] = "nap" THEN "sleep"
                     ELSE wpc[w]]

(***************************************************************************)
(* The critical process                                                    *)
(***************************************************************************)

CRuns == cpc # "gone" /\ ~cstopped
BurstStart == index % Burst = 0
BurstEnd == (index + 1) % Burst = 0 \/ index + 1 = Samples

CWarm ==
  /\ CRuns /\ cpc = "warm"
  /\ cpc' = "loop" /\ cstopped' = TRUE
  /\ UNCHANGED <<gate, worker, index, closed, cstatus, governor>>

\* The next request; a burst that starts waits for its guard and closes the gate.
CLoop ==
  /\ CRuns /\ cpc = "loop" /\ index < Samples
  /\ cpc' = IF BurstStart /\ gate # {} THEN "pause" ELSE "infer"
  /\ UNCHANGED <<gate, worker, cstopped, index, closed, cstatus, governor>>

\* ProcessGate::pause: SIGUSR1 to every gated worker.
CPause ==
  /\ CRuns /\ cpc = "pause"
  /\ pause' = pause \cup gate
  /\ wpc' = Interrupt(gate)
  /\ closed' = TRUE /\ cpc' = "drain"
  /\ UNCHANGED <<gate, ret, stopped, stop, served, wstatus, tokens, cstopped, index,
                 cstatus, governor>>

\* (mutant) std::any_of for std::all_of.
DrainedAny == gate \cap stopped # {}

\* wait_for_drain: every gated worker is in state T.
Drained == gate \subseteq stopped
CDrained ==
  /\ CRuns /\ cpc = "drain" /\ Drained
  /\ cpc' = "infer"
  /\ UNCHANGED <<gate, worker, cstopped, index, closed, cstatus, governor>>

\* The guard is over first: SIGCONT, and an exception that ends the process.
CDrainTimesOut ==
  /\ CRuns /\ cpc = "drain" /\ ~Drained
  /\ stopped' = stopped \ gate /\ closed' = FALSE
  /\ cpc' = "gone" /\ cstatus' = "error" /\ lapse' = lapse \cup {"drain"}
  /\ UNCHANGED <<gate, wpc, ret, pause, stop, served, wstatus, tokens, cstopped,
                 index, gov, error>>

CInferDone ==
  /\ CRuns /\ cpc = "infer"
  /\ index' = index + 1
  /\ IF gate # {} /\ BurstEnd
     THEN stopped' = stopped \ gate /\ closed' = FALSE
     ELSE UNCHANGED <<stopped, closed>>
  /\ cpc' = "loop"
  /\ UNCHANGED <<gate, wpc, ret, pause, stop, served, wstatus, tokens, cstopped,
                 cstatus, governor>>

\* (mutant) ProcessGate has no destructor.
CThrowsGateClosed ==
  /\ MayThrow /\ CRuns /\ cpc \in {"warm", "infer"}
  /\ cpc' = "gone" /\ cstatus' = "error"
  /\ UNCHANGED <<gate, worker, cstopped, index, closed, governor>>

\* An exception unwinds through ~ProcessGate.
CThrows ==
  /\ MayThrow /\ CRuns /\ cpc \in {"warm", "infer"}
  /\ stopped' = IF closed THEN stopped \ gate ELSE stopped
  /\ cpc' = "gone" /\ cstatus' = "error"
  /\ UNCHANGED <<gate, wpc, ret, pause, stop, served, wstatus, tokens, cstopped,
                 index, closed, governor>>

\* After the last request: SIGINT to every worker, and the report.
CFinishes ==
  /\ CRuns /\ cpc = "loop" /\ index = Samples
  /\ stop' = stop \cup Workers
  /\ wpc' = Interrupt(Workers)
  /\ cpc' = "gone" /\ cstatus' = "ok"
  /\ UNCHANGED <<gate, ret, stopped, pause, served, wstatus, tokens, cstopped, index,
                 closed, governor>>

CriticalSteps ==
  CWarm \/ CLoop \/ CPause \/ CDrained \/ CDrainTimesOut \/ CInferDone \/ CFinishes

(***************************************************************************)
(* The governor                                                            *)
(***************************************************************************)

AllParked == stopped = Workers /\ cstopped
SomeoneGone == cpc = "gone" \/ \E w \in Workers : wpc[w] = "gone"

\* wait_until_paused, with the affinity and thermal checks that follow it.
GovBarrier ==
  /\ gov = "barrier" /\ AllParked
  /\ gov' = "release"
  /\ UNCHANGED <<gate, worker, critical, error, lapse>>

GovBarrierFails ==
  /\ gov \in {"barrier", "release"}
  /\ gov = "barrier" => SomeoneGone \/ ~AllParked
  /\ gov' = "terminate" /\ error' = TRUE /\ lapse' = lapse \cup {"barrier"}
  /\ UNCHANGED <<gate, worker, critical>>

GovReleaseWorkers ==
  /\ gov = "release"
  /\ stopped' = {} /\ gov' = "released"
  /\ UNCHANGED <<gate, wpc, ret, pause, stop, served, wstatus, tokens, critical,
                 error, lapse>>

\* wait_until_resumed for the workers, then SIGCONT to the critical process.
GovReleaseCritical ==
  /\ gov = "released" /\ stopped = {} /\ \A w \in Workers : wpc[w] # "gone"
  /\ cstopped' = FALSE /\ gov' = "collect"
  /\ UNCHANGED <<gate, worker, cpc, index, closed, cstatus, error, lapse>>

GovReleaseFails ==
  /\ gov = "released" /\ \E w \in Workers : wpc[w] = "gone"
  /\ gov' = "terminate" /\ error' = TRUE /\ lapse' = lapse \cup {"release"}
  /\ UNCHANGED <<gate, worker, critical>>

\* collect_json, or its timeout and kill.
GovCollect ==
  /\ gov = "collect" /\ cpc = "gone"
  /\ gov' = "terminate" /\ error' = (cstatus # "ok")
  /\ UNCHANGED <<gate, worker, critical, lapse>>

GovCollectTimesOut ==
  /\ gov = "collect" /\ cpc # "gone"
  /\ cpc' = "gone" /\ cstatus' = "error"
  /\ gov' = "terminate" /\ error' = TRUE /\ lapse' = lapse \cup {"collect"}
  /\ UNCHANGED <<gate, worker, cstopped, index, closed>>

\* terminate_process(critical): SIGCONT and SIGTERM, which it does not handle.
GovTerminate ==
  /\ gov = "terminate"
  /\ IF cpc = "gone" THEN UNCHANGED <<cpc, cstatus>>
                     ELSE cpc' = "gone" /\ cstatus' = "error"
  /\ gov' = "stop"
  /\ UNCHANGED <<gate, worker, cstopped, index, closed, error, lapse>>

\* stop_workers: SIGCONT and SIGINT to each worker that still lives.
GovStopWorkers ==
  /\ gov = "stop"
  /\ LET Early == {w \in Workers : wpc[w] = "boot"}
     IN /\ stopped' = {} /\ stop' = stop \cup Workers
        /\ wpc' = [w \in Workers |-> IF w \in Early THEN "gone" ELSE Interrupt(Workers)[w]]
        /\ wstatus' = [w \in Workers |-> IF w \in Early THEN "error" ELSE wstatus[w]]
  /\ gov' = "reap"
  /\ UNCHANGED <<gate, ret, pause, served, tokens, critical, error, lapse>>

\* communicate(timeout=30): a worker that is stopped, or blocked in a write, is
\* still there when it is over and is killed.
Stuck(w) == wpc[w] # "gone" /\ (w \in stopped \/ (wpc[w] = "signal" /\ Blocked(w)))
GovKill(w) ==
  /\ gov = "reap" /\ Stuck(w)
  /\ Ends(w, "killed")
  /\ stopped' = stopped \ {w}
  /\ UNCHANGED <<gate, ret, pause, stop, served, tokens, critical, governor>>

GovDone ==
  /\ gov = "reap" /\ \A w \in Workers : wpc[w] = "gone"
  /\ gov' = "done"
  /\ error' = (error \/ \E w \in Workers : wstatus[w] # "ok")
  /\ UNCHANGED <<gate, worker, critical, lapse>>

GovernorSteps ==
  \/ GovBarrier \/ GovBarrierFails \/ GovReleaseWorkers \/ GovReleaseCritical
  \/ GovReleaseFails \/ GovCollect \/ GovTerminate
  \/ GovStopWorkers \/ GovDone \/ \E w \in Workers : GovKill(w)

Finished == gov = "done" /\ UNCHANGED vars

Next ==
  \/ \E w \in Workers : WorkerSteps(w) \/ WorkerThrows(w)
  \/ CriticalSteps \/ CThrows
  \/ GovernorSteps \/ GovCollectTimesOut
  \/ Finished

\* Every process is scheduled.
Fairness ==
  /\ \A w \in Workers : WF_vars(WorkerSteps(w))
  /\ WF_vars(CriticalSteps) /\ WF_vars(GovernorSteps)

Spec == Init /\ [][Next]_vars
FairSpec == Spec /\ Fairness

(***************************************************************************)
(* Properties                                                              *)
(***************************************************************************)

WorkerLabels == {"boot", "warm", "raise", "top", "check", "token", "sleep", "rest",
                 "doze", "nap",
                 "wake", "dispatch", "infer", "signal", "leave", "gone"}
Returns == {"top", "check", "token", "rest", "dispatch"}

\* Every variable holds a value the program can give it.
TypeOK ==
  /\ gate \subseteq Workers
  /\ wpc \in [Workers -> WorkerLabels] /\ ret \in [Workers -> Returns]
  /\ stopped \subseteq Workers /\ pause \subseteq Workers /\ stop \subseteq Workers
  /\ served \subseteq Workers
  /\ wstatus \in [Workers -> {"none", "ok", "error", "killed"}]
  /\ tokens \in [Pipes -> 0 .. PipeCapacity]
  /\ cpc \in {"warm", "loop", "pause", "drain", "infer", "gone"}
  /\ cstopped \in BOOLEAN /\ closed \in BOOLEAN
  /\ index \in 0 .. Samples
  /\ cstatus \in {"none", "ok", "error"}
  /\ gov \in {"barrier", "release", "released", "collect", "terminate", "stop",
             "reap", "done"}
  /\ error \in BOOLEAN
  /\ lapse \subseteq {"barrier", "release", "drain", "collect"}

\* While the critical process infers behind a gate no gated worker runs: the T
\* states the drain saw are neither the start barrier's nor a pause the worker
\* has left, and nobody continues a worker until the burst is over.
CriticalAlone == cpc = "infer" => gate \subseteq stopped

\* A worker is asked to pause, or on its way to stop itself.
Pausing(w) == w \in pause \/ wpc[w] = "raise"

\* Outside a drain nobody is on the way to a stop: every pause is acknowledged
\* before its SIGCONT is sent, so no SIGCONT is lost.  So however the critical
\* process ends by itself, short of a drain timeout, it leaves the gate open: its
\* workers run and will not stop again.
GateLeftOpen ==
  gov \in {"collect", "terminate"} /\ lapse = {} =>
    /\ cpc # "drain" => \A w \in Workers : ~Pausing(w)
    /\ cpc = "gone" => stopped = {}

\* A worker that has to be killed at the end has missed its SIGCONT in a failed
\* barrier or drain, or is blocked on a full dependency pipe.
KillsExplained ==
  \A w \in Workers :
    wstatus[w] = "killed" =>
      lapse # {} \/ \E p \in Downstream(w) : tokens[p] = PipeCapacity

\* Every epoch ends, with every process gone.
EpochEnds ==
  <>[](gov = "done" /\ cpc = "gone" /\ \A w \in Workers : wpc[w] = "gone")

\* "The cooperative worker now acknowledges a pause signal while sleeping between
\* requests": no worker naps with a pause request pending.  False: a signal that
\* comes between the look at the flag and the nanosleep waits for the release.
AcksWhileSleeping == \A w \in Workers : ~(wpc[w] = "nap" /\ w \in pause)

=============================================================================
