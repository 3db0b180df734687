--------------------------- MODULE GatedEpochProofs ---------------------------
(***************************************************************************)
(* Proofs about GatedEpoch, for every set of workers and pipes and every   *)
(* number of requests.  The heart is EpochInv: before its release the      *)
(* critical process has no request behind it, in the middle of a burst the *)
(* gate is closed, and the governor continues workers only before the      *)
(* release and after the critical process is gone.  PauseInv then follows  *)
(* each pause request from SIGUSR1 to the stop it causes and to its        *)
(* SIGCONT.                                                                *)
(***************************************************************************)
EXTENDS GatedEpoch, TLAPS

USE EpochAssumption

\* A request the critical process works on is one of its samples.
Bounded == cpc \in {"pause", "drain", "infer"} => index < Samples

\* Signals move workers from label to label.
LEMMA InterruptTyped ==
  ASSUME TypeOK, NEW S
  PROVE  Interrupt(S) \in [Workers -> WorkerLabels]
BY DEF TypeOK, Interrupt, WorkerLabels

LEMMA GoesTyped ==
  ASSUME TypeOK, NEW w \in Workers, NEW from, NEW to \in WorkerLabels, Goes(w, from, to)
  PROVE  TypeOK'
BY DEF TypeOK, Goes, Move, signals, critical, governor

LEMMA HonorsTyped ==
  ASSUME TypeOK, NEW w \in Workers, NEW from, NEW back \in Returns, Honors(w, from, back)
  PROVE  TypeOK'
<1>1. wpc' \in [Workers -> WorkerLabels]
  BY DEF TypeOK, Honors, Move, WorkerLabels
<1>2. ret' \in [Workers -> Returns] /\ pause' \subseteq Workers
  BY DEF TypeOK, Honors
<1>3. QED
  BY <1>1, <1>2 DEF TypeOK, Honors, critical, governor

\* A worker's step gives every variable a value of its type.
LEMMA WorkerTyped ==
  ASSUME TypeOK, NEW w \in Workers, WorkerSteps(w) \/ WorkerThrows(w)
  PROVE  TypeOK'
<1>1. CASE Raise(w)
  <2>1. ret[w] \in WorkerLabels
    BY DEF TypeOK, Returns, WorkerLabels
  <2>2. wpc' \in [Workers -> WorkerLabels]
    BY <1>1, <2>1 DEF TypeOK, Raise, Move
  <2>3. ret' \in [Workers -> Returns] /\ stopped' \subseteq Workers
    BY <1>1 DEF TypeOK, Raise, Returns
  <2>4. QED
    BY <1>1, <2>2, <2>3 DEF TypeOK, Raise, critical, governor
<1>2. CASE InstallHandlers(w)
  BY <1>2, GoesTyped DEF InstallHandlers, WorkerLabels
<1>3. CASE Warmup(w)
  <2>1. wpc' \in [Workers -> WorkerLabels] /\ ret' \in [Workers -> Returns]
    BY <1>3 DEF TypeOK, Warmup, Move, WorkerLabels, Returns
  <2>2. QED
    BY <1>3, <2>1 DEF TypeOK, Warmup, signals, critical, governor
<1>4. CASE Top(w)
  BY <1>4, GoesTyped, HonorsTyped DEF Top, WorkerLabels, Returns
<1>5. CASE Check(w)
  BY <1>5, GoesTyped DEF Check, WorkerLabels
<1>6. CASE GetToken(w)
  <2>1. CASE Honors(w, "token", "token")
    BY <2>1, HonorsTyped DEF Returns
  <2>2. CASE Goes(w, "token", "leave")
    BY <2>2, GoesTyped DEF WorkerLabels
  <2>3. CASE \E l \in AfterToken : Goes(w, "token", l)
    BY <2>3, GoesTyped DEF AfterToken, WorkerLabels
  <2>4. ASSUME NEW p \in Upstream(w), tokens[p] > 0,
               tokens' = [tokens EXCEPT ![p] = @ - 1],
               \E l \in AfterToken : Move(w, l),
               UNCHANGED <<gate, ret, signals, served, wstatus, critical, governor>>
        PROVE  TypeOK'
    <3>1. wpc' \in [Workers -> WorkerLabels]
      BY <2>4 DEF TypeOK, Move, AfterToken, WorkerLabels
    <3>2. tokens' \in [Pipes -> 0 .. PipeCapacity]
      BY <2>4 DEF TypeOK, Upstream
    <3>3. QED
      BY <2>4, <3>1, <3>2 DEF TypeOK, signals, critical, governor
  <2>5. QED
    BY <1>6, <2>1, <2>2, <2>3, <2>4 DEF GetToken
<1>7. CASE Sleep(w)
  BY <1>7, GoesTyped, HonorsTyped DEF Sleep, WorkerLabels, Returns
<1>8. CASE Rest(w)
  BY <1>8, GoesTyped DEF Rest, WorkerLabels
<1>9. CASE Nap(w) \/ NapEnds(w)
  BY <1>9, GoesTyped DEF Nap, NapEnds, WorkerLabels
<1>10. CASE Wake(w)
  BY <1>10, GoesTyped, HonorsTyped DEF Wake, WorkerLabels, Returns
<1>11. CASE Dispatch(w)
  BY <1>11, GoesTyped DEF Dispatch, WorkerLabels
<1>12. CASE InferDone(w)
  <2>1. wpc' \in [Workers -> WorkerLabels]
    BY <1>12 DEF TypeOK, InferDone, Move, WorkerLabels
  <2>2. QED
    BY <1>12, <2>1 DEF TypeOK, InferDone, signals, critical, governor
<1>13. CASE PutToken(w)
  <2>1. wpc' \in [Workers -> WorkerLabels]
    BY <1>13 DEF TypeOK, PutToken, Move, WorkerLabels
  <2>2. tokens' \in [Pipes -> 0 .. PipeCapacity]
    <3>1. tokens' = [p \in Pipes |->
                       IF p \in Downstream(w) THEN tokens[p] + 1 ELSE tokens[p]]
      BY <1>13 DEF PutToken
    <3>2. tokens \in [Pipes -> 0 .. PipeCapacity]
      BY DEF TypeOK
    <3>3. \A p \in Pipes : p \in Downstream(w) => tokens[p] # PipeCapacity
      BY <1>13 DEF PutToken, Blocked, Downstream
    <3>4. ASSUME NEW p \in Pipes
          PROVE  (IF p \in Downstream(w) THEN tokens[p] + 1 ELSE tokens[p])
                   \in 0 .. PipeCapacity
      <4>1. tokens[p] \in 0 .. PipeCapacity /\ PipeCapacity \in Nat
        BY <3>2 DEF EpochAssumption
      <4>2. QED
        BY <3>3, <4>1
    <3>5. QED
      BY <3>1, <3>4
  <2>3. served' \subseteq Workers
    BY <1>13 DEF TypeOK, PutToken
  <2>4. QED
    BY <1>13, <2>1, <2>2, <2>3 DEF TypeOK, PutToken, signals, critical, governor
<1>14. CASE Report(w) \/ WorkerThrows(w)
  <2>1. wpc' \in [Workers -> WorkerLabels]
    BY <1>14 DEF TypeOK, Report, WorkerThrows, Ends, Move, WorkerLabels
  <2>2. wstatus' \in [Workers -> {"none", "ok", "error", "killed"}]
    BY <1>14 DEF TypeOK, Report, WorkerThrows, Ends
  <2>3. UNCHANGED <<gate, ret, signals, served, tokens, critical, governor>>
    <3>1. CASE Report(w)
      BY <3>1 DEF Report
    <3>2. CASE WorkerThrows(w)
      BY <3>2 DEF WorkerThrows
    <3>3. QED
      BY <1>14, <3>1, <3>2
  <2>4. QED
    BY <2>1, <2>2, <2>3 DEF TypeOK, signals, critical, governor
<1>15. QED
  BY <1>1, <1>2, <1>3, <1>4, <1>5, <1>6, <1>7, <1>8, <1>9, <1>10, <1>11, <1>12, <1>13,
     <1>14 DEF WorkerSteps

\* So does a step of the critical process.
LEMMA CriticalTyped ==
  ASSUME TypeOK, Bounded, CriticalSteps \/ CThrows
  PROVE  TypeOK'
<1>1. CASE CWarm
  BY <1>1 DEF CWarm, TypeOK, worker, signals, governor
<1>2. CASE CLoop
  BY <1>2 DEF CLoop, TypeOK, worker, signals, governor
<1>3. CASE CPause
  BY <1>3, InterruptTyped DEF CPause, TypeOK, governor
<1>4. CASE CDrained
  BY <1>4 DEF CDrained, TypeOK, worker, signals, governor
<1>5. CASE CDrainTimesOut
  BY <1>5 DEF CDrainTimesOut, TypeOK
<1>6. CASE CInferDone
  <2>1. index' \in 0 .. Samples
    BY <1>6 DEF CInferDone, TypeOK, Bounded
  <2>2. QED
    BY <1>6, <2>1 DEF CInferDone, TypeOK, governor
<1>7. CASE CThrows
  BY <1>7 DEF CThrows, TypeOK, governor
<1>8. CASE CFinishes
  BY <1>8, InterruptTyped DEF CFinishes, TypeOK, governor
<1>9. QED
  BY <1>1, <1>2, <1>3, <1>4, <1>5, <1>6, <1>7, <1>8 DEF CriticalSteps

\* And a step of the governor.
LEMMA GovernorTyped ==
  ASSUME TypeOK, GovernorSteps \/ GovCollectTimesOut
  PROVE  TypeOK'
<1>1. CASE GovBarrier \/ GovBarrierFails
  BY <1>1 DEF GovBarrier, GovBarrierFails, TypeOK, worker, signals, critical
<1>2. CASE GovReleaseWorkers
  BY <1>2 DEF GovReleaseWorkers, TypeOK, critical
<1>3. CASE GovReleaseCritical \/ GovReleaseFails
  BY <1>3 DEF GovReleaseCritical, GovReleaseFails, TypeOK, worker, signals, critical
<1>4. CASE GovCollect \/ GovCollectTimesOut \/ GovTerminate
  BY <1>4 DEF GovCollect, GovCollectTimesOut, GovTerminate, TypeOK, worker, signals, critical
<1>5. CASE GovStopWorkers
  <2>1. wpc' \in [Workers -> WorkerLabels]
    BY <1>5, InterruptTyped DEF GovStopWorkers, WorkerLabels, TypeOK
  <2>2. wstatus' \in [Workers -> {"none", "ok", "error", "killed"}]
    BY <1>5 DEF GovStopWorkers, TypeOK
  <2>3. QED
    BY <1>5, <2>1, <2>2 DEF GovStopWorkers, TypeOK, critical
<1>6. ASSUME NEW w \in Workers, GovKill(w) PROVE TypeOK'
  <2>1. wpc' \in [Workers -> WorkerLabels]
    BY <1>6 DEF GovKill, Ends, Move, WorkerLabels, TypeOK
  <2>2. wstatus' \in [Workers -> {"none", "ok", "error", "killed"}]
    BY <1>6 DEF GovKill, Ends, TypeOK
  <2>3. QED
    BY <1>6, <2>1, <2>2 DEF GovKill, TypeOK, critical, governor
<1>7. CASE GovDone
  BY <1>7 DEF GovDone, TypeOK, worker, signals, critical
<1>8. QED
  BY <1>1, <1>2, <1>3, <1>4, <1>5, <1>6, <1>7 DEF GovernorSteps

LEMMA TypeStep ==
  ASSUME TypeOK, Bounded, [Next]_vars
  PROVE  TypeOK'
<1>1. CASE UNCHANGED vars
  BY <1>1 DEF TypeOK, vars, worker, signals, critical, governor
<1>2. CASE Next
  BY <1>1, <1>2, WorkerTyped, CriticalTyped, GovernorTyped DEF Next, Finished
<1>3. QED
  BY <1>1, <1>2

\* A worker can only join the stopped ones: it never continues another.
LEMMA WorkerStops ==
  ASSUME NEW w \in Workers, WorkerSteps(w) \/ WorkerThrows(w)
  PROVE  /\ stopped \subseteq stopped'
         /\ UNCHANGED <<gate, critical, governor>>
<1>1. ASSUME NEW from, NEW to, Goes(w, from, to)
      PROVE  /\ stopped \subseteq stopped'
             /\ UNCHANGED <<gate, critical, governor>>
  BY <1>1 DEF Goes, signals
<1>2. ASSUME NEW from, NEW back, Honors(w, from, back)
      PROVE  /\ stopped \subseteq stopped'
             /\ UNCHANGED <<gate, critical, governor>>
  BY <1>2 DEF Honors
<1>3. CASE Raise(w)
  BY <1>3 DEF Raise
<1>4. CASE \/ InstallHandlers(w) \/ Top(w) \/ Check(w) \/ Sleep(w) \/ Rest(w) \/ Nap(w)
           \/ NapEnds(w) \/ Wake(w) \/ Dispatch(w)
  BY <1>1, <1>2, <1>4 DEF InstallHandlers, Top, Check, Sleep, Rest, Nap, NapEnds, Wake, Dispatch
<1>5. CASE GetToken(w)
  BY <1>1, <1>2, <1>5 DEF GetToken, signals
<1>6. CASE Warmup(w) \/ InferDone(w) \/ PutToken(w) \/ Report(w) \/ WorkerThrows(w)
  BY <1>6 DEF Warmup, InferDone, PutToken, Report, WorkerThrows, signals
<1>7. QED
  BY <1>3, <1>4, <1>5, <1>6 DEF WorkerSteps

LEMMA BoundedStep ==
  ASSUME TypeOK, Bounded, [Next]_vars
  PROVE  Bounded'
<1>1. CASE UNCHANGED vars
  BY <1>1 DEF Bounded, vars, critical
<1>2. ASSUME NEW w \in Workers, WorkerSteps(w) \/ WorkerThrows(w) PROVE Bounded'
  BY <1>2, WorkerStops DEF Bounded, critical
<1>3. CASE CriticalSteps \/ CThrows
  BY <1>3 DEF CriticalSteps, CWarm, CLoop, CPause, CDrained, CDrainTimesOut, CInferDone,
              CThrows, CFinishes, Bounded
<1>4. CASE GovernorSteps \/ GovCollectTimesOut
  BY <1>4 DEF GovernorSteps, GovBarrier, GovBarrierFails, GovReleaseWorkers,
              GovReleaseCritical, GovReleaseFails, GovCollect, GovCollectTimesOut,
              GovTerminate, GovStopWorkers, GovKill, GovDone, critical, Bounded
<1>5. QED
  BY <1>1, <1>2, <1>3, <1>4 DEF Next, Finished

LEMMA TypeInit == Init => TypeOK /\ Bounded
<1> SUFFICES ASSUME Init PROVE TypeOK /\ Bounded
  OBVIOUS
<1>1. wpc \in [Workers -> WorkerLabels] /\ ret \in [Workers -> Returns]
  BY DEF Init, WorkerLabels, Returns
<1>2. wstatus \in [Workers -> {"none", "ok", "error", "killed"}]
  BY DEF Init
<1>3. tokens \in [Pipes -> 0 .. PipeCapacity]
  BY DEF Init
<1>4. gate \subseteq Workers /\ index \in 0 .. Samples
  BY DEF Init
<1>5. stopped \subseteq Workers /\ pause \subseteq Workers /\ stop \subseteq Workers
      /\ served \subseteq Workers /\ lapse \subseteq {"barrier", "release", "drain", "collect"}
  BY DEF Init
<1>6. cpc = "warm" /\ ~cstopped /\ ~closed /\ cstatus = "none" /\ gov = "barrier" /\ ~error
      /\ cstopped \in BOOLEAN /\ closed \in BOOLEAN /\ error \in BOOLEAN
  BY DEF Init
<1>7. QED
  BY <1>1, <1>2, <1>3, <1>4, <1>5, <1>6 DEF TypeOK, Bounded

\* Every variable of the epoch keeps its type, whatever the workers, the pipes
\* and the number of requests.
THEOREM EpochTyped == Spec => []TypeOK
<1>1. Init => TypeOK /\ Bounded
  BY TypeInit
<1>2. TypeOK /\ Bounded /\ [Next]_vars => (TypeOK /\ Bounded)'
  BY TypeStep, BoundedStep
<1>3. QED
  BY <1>1, <1>2, PTL DEF Spec

\* Until the governor releases it, the critical process has run no request.
NotReleased ==
  /\ cpc = "warm" => index = 0
  /\ gov \in {"barrier", "release", "released"} =>
       index = 0 /\ (cpc \in {"warm", "gone"} \/ (cpc = "loop" /\ cstopped))

\* The governor stops the workers after the critical process is gone.
CriticalFirst == gov \in {"stop", "reap", "done"} => cpc = "gone"

\* In the middle of a burst the gate stays closed.
BurstKeepsGate == cpc = "loop" /\ ~BurstStart /\ index < Samples => gate \subseteq stopped

EpochInv == NotReleased /\ CriticalFirst /\ BurstKeepsGate /\ CriticalAlone

\* The first request starts a burst.
LEMMA FirstStarts ==
  ASSUME index = 0
  PROVE  BurstStart
BY DEF BurstStart

LEMMA CriticalKeeps ==
  ASSUME TypeOK, EpochInv, CriticalSteps \/ CThrows
  PROVE  EpochInv'
<1> USE DEF EpochInv, NotReleased, CriticalFirst, BurstKeepsGate, CriticalAlone, CRuns
<1>1. CASE CWarm
  <2>1. gov \notin {"stop", "reap", "done"} /\ UNCHANGED <<gate, stopped, index, gov>>
    BY <1>1 DEF CWarm, worker, signals, governor
  <2>2. QED
    BY <1>1, <2>1, FirstStarts DEF CWarm, BurstStart
<1>2. CASE CLoop
  BY <1>2 DEF CLoop, worker, signals, governor
<1>3. CASE CPause
  BY <1>3 DEF CPause, governor
<1>4. CASE CDrained
  BY <1>4 DEF CDrained, Drained, worker, signals, governor
<1>5. CASE CDrainTimesOut
  BY <1>5 DEF CDrainTimesOut
<1>6. CASE CInferDone
  <2>1. index' < Samples /\ ~BurstStart' => gate = {} \/ ~BurstEnd
    BY <1>6 DEF CInferDone, BurstStart, BurstEnd, TypeOK
  <2>2. gate = {} \/ ~BurstEnd => gate' \subseteq stopped'
    BY <1>6 DEF CInferDone
  <2>3. QED
    BY <1>6, <2>1, <2>2 DEF CInferDone, governor
<1>7. CASE CThrows
  BY <1>7 DEF CThrows, governor
<1>8. CASE CFinishes
  BY <1>8 DEF CFinishes, governor
<1>9. QED
  BY <1>1, <1>2, <1>3, <1>4, <1>5, <1>6, <1>7, <1>8 DEF CriticalSteps

LEMMA GovernorKeeps ==
  ASSUME TypeOK, EpochInv, GovernorSteps \/ GovCollectTimesOut
  PROVE  EpochInv'
<1> USE DEF EpochInv, NotReleased, CriticalFirst, BurstKeepsGate, CriticalAlone
<1>1. CASE GovBarrier \/ GovBarrierFails \/ GovReleaseCritical \/ GovReleaseFails
  BY <1>1 DEF GovBarrier, GovBarrierFails, GovReleaseCritical, GovReleaseFails, BurstStart,
              worker, signals, critical
<1>2. CASE GovReleaseWorkers
  BY <1>2, FirstStarts DEF GovReleaseWorkers, BurstStart, critical
<1>3. CASE GovCollect \/ GovCollectTimesOut \/ GovTerminate
  BY <1>3 DEF GovCollect, GovCollectTimesOut, GovTerminate, worker, signals, critical, BurstStart
<1>4. CASE GovStopWorkers
  BY <1>4 DEF GovStopWorkers, critical
<1>5. ASSUME NEW w \in Workers, GovKill(w) PROVE EpochInv'
  BY <1>5 DEF GovKill, critical, governor
<1>6. CASE GovDone
  BY <1>6 DEF GovDone, worker, signals, critical
<1>7. QED
  BY <1>1, <1>2, <1>3, <1>4, <1>5, <1>6 DEF GovernorSteps

LEMMA EpochStep ==
  ASSUME TypeOK, EpochInv, [Next]_vars
  PROVE  EpochInv'
<1> USE DEF EpochInv, NotReleased, CriticalFirst, BurstKeepsGate, CriticalAlone
<1>1. CASE UNCHANGED vars
  BY <1>1 DEF vars, worker, signals, critical, governor, BurstStart
<1>2. ASSUME NEW w \in Workers, WorkerSteps(w) \/ WorkerThrows(w) PROVE EpochInv'
  <2>1. stopped \subseteq stopped' /\ UNCHANGED <<gate, cpc, cstopped, index, gov>>
    BY <1>2, WorkerStops DEF critical, governor
  <2>2. QED
    BY <2>1 DEF BurstStart
<1>3. QED
  BY <1>1, <1>2, CriticalKeeps, GovernorKeeps DEF Next, Finished

\* While the critical process infers behind a closed gate every gated worker is
\* stopped: the T states the drain polled are the ones its own pause caused, and
\* nobody sends a SIGCONT before the burst is over.
THEOREM InfersAlone == Spec => []CriticalAlone
<1>1. Init => TypeOK /\ Bounded /\ EpochInv
  BY TypeInit DEF Init, EpochInv, NotReleased, CriticalFirst, BurstKeepsGate, CriticalAlone
<1>2. TypeOK /\ Bounded /\ EpochInv /\ [Next]_vars => (TypeOK /\ Bounded /\ EpochInv)'
  BY TypeStep, BoundedStep, EpochStep
<1>3. EpochInv => CriticalAlone
  BY DEF EpochInv
<1>4. QED
  BY <1>1, <1>2, <1>3, PTL DEF Spec

(***************************************************************************)
(* Pauses.  PauseInv says phase by phase where a worker can be on its way  *)
(* to a stop, and who is stopped.                                          *)
(***************************************************************************)

\* A worker that never entered its loop, or is about to stop itself.
Starting(w) == wpc[w] \in {"boot", "warm"}
Quiet == \A w \in Workers : ~Starting(w) /\ ~Pausing(w)

\* Up to the release each worker is before its first stop, in it, or gone.
BarrierInv ==
  gov \in {"barrier", "release"} =>
    /\ pause = {} /\ ~closed
    /\ \A w \in Workers :
         /\ wpc[w] \in {"boot", "warm", "raise", "top", "gone"} /\ ret[w] = "top"
         /\ w \in stopped <=> wpc[w] = "top"
    /\ cstopped => cpc = "loop"
    /\ gov = "release" => stopped = Workers /\ cstopped

\* The workers are released before the critical process is.
ReleasedInv == gov = "released" => stopped = {} /\ Quiet /\ cstopped /\ cpc = "loop"

\* Between two bursts the critical process has the gate open.
Between ==
  cpc \in {"pause", "gone"} \/ (cpc = "loop" /\ (BurstStart \/ index = Samples))

\* While the critical process runs: only gated workers pause or are stopped, only
\* in a drain is a pause on its way, and only in a burst is somebody stopped.
BurstInv ==
  gov \in {"collect", "terminate"} /\ lapse = {} =>
    /\ cpc # "warm" /\ (gov = "terminate" => cpc = "gone") /\ (cpc = "drain" => closed)
    /\ \A w \in Workers : /\ ~Starting(w) /\ (Pausing(w) => cpc = "drain" /\ w \in gate)
                          /\ ~(w \in pause /\ wpc[w] = "raise")
    /\ \A w \in stopped : w \in gate /\ ~Pausing(w)
    /\ stopped # {} => closed /\ ~Between

\* Afterwards nobody is stopped, and nobody takes a token any more.
ReapInv ==
  gov \in {"stop", "reap", "done"} =>
    /\ lapse = {} => stopped = {} /\ Quiet
    /\ gov # "stop" => stop = Workers

\* Only the end of the epoch kills.
KillInv ==
  /\ \A w \in Workers : wstatus[w] = "killed" => gov \in {"reap", "done"}
  /\ KillsExplained

PauseInv == BarrierInv /\ ReleasedInv /\ BurstInv /\ ReapInv /\ KillInv

\* What a step of one worker can do to the pauses: it acknowledges its own, it stops
\* itself only where it was about to, and it fills pipes but empties none once it
\* was told to stop.
WorkerEffect(w) ==
  /\ Runs(w)
  /\ \A v \in Workers \ {w} : wpc'[v] = wpc[v] /\ ret'[v] = ret[v]
  /\ \A v \in Workers : wstatus'[v] = "killed" => wstatus[v] = "killed"
  /\ wpc'[w] # "boot"
  /\ wpc[w] = "boot" => wpc'[w] \in {"warm", "gone"} /\ ret'[w] = ret[w]
  /\ wpc[w] = "warm" => wpc'[w] \in {"raise", "gone"} /\ ret'[w] \in {"top", ret[w]}
  /\ wpc'[w] = "warm" => wpc[w] = "boot"
  /\ wpc'[w] = "raise" => wpc[w] = "warm" \/ (w \in pause /\ pause' = pause \ {w})
  /\ \/ stopped' = stopped /\ wpc[w] # "raise"
     \/ /\ stopped' = stopped \cup {w} /\ pause' = pause
        /\ wpc[w] = "raise" /\ wpc'[w] = ret[w] /\ ret'[w] = "top"
  /\ pause' \in {pause, pause \ {w}}
  /\ \A p \in Pipes : tokens[p] = PipeCapacity /\ w \in stop => tokens'[p] = PipeCapacity
  /\ UNCHANGED <<gate, stop, critical, governor>>

LEMMA GoesEffect ==
  ASSUME TypeOK, NEW w \in Workers, NEW from, NEW to, Goes(w, from, to),
         from \notin {"warm", "raise"}, to \notin {"boot", "raise"},
         to = "warm" => from = "boot", from = "boot" => to \in {"warm", "gone"}
  PROVE  WorkerEffect(w)
BY DEF TypeOK, Goes, Move, WorkerEffect, signals

LEMMA HonorsEffect ==
  ASSUME TypeOK, NEW w \in Workers, NEW from, NEW back, Honors(w, from, back),
         from \notin {"boot", "warm", "raise"}
  PROVE  WorkerEffect(w)
BY DEF TypeOK, Honors, Move, WorkerEffect

LEMMA WorkerEffects ==
  ASSUME TypeOK, NEW w \in Workers, WorkerSteps(w) \/ WorkerThrows(w)
  PROVE  WorkerEffect(w)
<1>1. CASE Raise(w)
  <2>1. ret[w] \notin {"boot", "warm", "raise"}
    BY DEF TypeOK, Returns
  <2>2. QED
    BY <1>1, <2>1 DEF TypeOK, Raise, Move, WorkerEffect
<1>2. CASE InstallHandlers(w)
  BY <1>2, GoesEffect DEF InstallHandlers
<1>3. CASE Warmup(w)
  BY <1>3 DEF TypeOK, Warmup, Move, WorkerEffect, signals
<1>4. CASE Top(w)
  BY <1>4, GoesEffect, HonorsEffect DEF Top
<1>5. CASE Check(w)
  BY <1>5, GoesEffect DEF Check
<1>6. CASE GetToken(w)
  <2>1. CASE Honors(w, "token", "token")
    BY <2>1, HonorsEffect
  <2>2. CASE Goes(w, "token", "leave")
    BY <2>2, GoesEffect
  <2>3. CASE \E l \in AfterToken : Goes(w, "token", l)
    BY <2>3, GoesEffect DEF AfterToken
  <2>4. ASSUME Runs(w), wpc[w] = "token", w \notin pause \cup stop,
               \E l \in AfterToken : Move(w, l),
               UNCHANGED <<gate, ret, signals, served, wstatus, critical, governor>>
        PROVE  WorkerEffect(w)
    BY <2>4 DEF TypeOK, Move, AfterToken, WorkerEffect, signals
  <2>5. QED
    BY <1>6, <2>1, <2>2, <2>3, <2>4 DEF GetToken
<1>7. CASE Sleep(w)
  BY <1>7, GoesEffect, HonorsEffect DEF Sleep
<1>8. CASE Rest(w) \/ Nap(w) \/ NapEnds(w)
  BY <1>8, GoesEffect DEF Rest, Nap, NapEnds
<1>9. CASE Wake(w)
  BY <1>9, GoesEffect, HonorsEffect DEF Wake
<1>10. CASE Dispatch(w)
  BY <1>10, GoesEffect DEF Dispatch
<1>11. CASE InferDone(w)
  BY <1>11 DEF TypeOK, InferDone, Move, WorkerEffect, signals
<1>12. CASE PutToken(w)
  <2>1. \A p \in Pipes : tokens[p] = PipeCapacity => tokens'[p] = PipeCapacity
    BY <1>12 DEF PutToken, Blocked
  <2>2. QED
    BY <1>12, <2>1 DEF TypeOK, PutToken, Move, WorkerEffect, signals
<1>13. CASE Report(w)
  BY <1>13 DEF TypeOK, Report, Ends, Move, WorkerEffect, signals
<1>14. CASE WorkerThrows(w)
  BY <1>14 DEF TypeOK, WorkerThrows, Ends, Move, WorkerEffect, signals
<1>15. QED
  BY <1>1, <1>2, <1>3, <1>4, <1>5, <1>6, <1>7, <1>8, <1>9, <1>10, <1>11, <1>12, <1>13,
     <1>14 DEF WorkerSteps

\* A full pipe explains a kill as long as nobody takes tokens.
LEMMA KillsStayExplained ==
  ASSUME TypeOK, ReapInv, KillInv, NEW w \in Workers, WorkerEffect(w)
  PROVE  KillInv'
<1>1. ASSUME NEW v \in Workers, wstatus'[v] = "killed"
      PROVE  /\ gov' \in {"reap", "done"}
             /\ lapse' # {} \/ \E p \in Downstream(v) : tokens'[p] = PipeCapacity
  <2>1. wstatus[v] = "killed" /\ UNCHANGED <<stop, gov, lapse>>
    BY <1>1 DEF WorkerEffect, governor
  <2>2. gov \in {"reap", "done"} /\ w \in stop
    BY <2>1 DEF KillInv, ReapInv
  <2>3. lapse # {} \/ \E p \in Downstream(v) : tokens[p] = PipeCapacity
    BY <2>1 DEF KillInv, KillsExplained
  <2>4. QED
    BY <2>1, <2>2, <2>3 DEF WorkerEffect, Downstream
<1>2. QED
  BY <1>1 DEF KillInv, KillsExplained, Downstream

LEMMA WorkerPauses ==
  ASSUME TypeOK, PauseInv, NEW w \in Workers, WorkerSteps(w) \/ WorkerThrows(w)
  PROVE  PauseInv'
<1> USE DEF PauseInv
<1>0. WorkerEffect(w)
  BY WorkerEffects
<1>1. UNCHANGED <<gate, stop, cpc, cstopped, index, closed, gov, lapse>>
  BY <1>0 DEF WorkerEffect, critical, governor
<1>2. Between' = Between
  BY <1>1 DEF Between, BurstStart
<1>3. BarrierInv'
  BY <1>0, <1>1 DEF BarrierInv, WorkerEffect, Runs, TypeOK
<1>4. ASSUME NEW v \in Workers, ~Starting(v), ~Pausing(v)
      PROVE  (~Starting(v) /\ ~Pausing(v))' /\ (v \in stopped' => v \in stopped)
  BY <1>0, <1>4 DEF WorkerEffect, Starting, Pausing
<1>5. ASSUME stopped = {}, Quiet PROVE stopped' = {} /\ Quiet'
  <2>1. \A v \in Workers : (~Starting(v) /\ ~Pausing(v))'
    BY <1>4, <1>5 DEF Quiet
  <2>2. stopped' = {}
    BY <1>0, <1>5 DEF WorkerEffect, Quiet, Pausing
  <2>3. QED
    BY <2>1, <2>2 DEF Quiet
<1>9. ReleasedInv'
  BY <1>1, <1>5 DEF ReleasedInv
<1>6. BurstInv'
  <2> SUFFICES ASSUME gov \in {"collect", "terminate"}, lapse = {}
               PROVE  BurstInv'
    BY <1>1 DEF BurstInv
  <2>1. /\ cpc # "warm" /\ (gov = "terminate" => cpc = "gone") /\ (cpc = "drain" => closed)
        /\ \A v \in Workers : /\ ~Starting(v) /\ (Pausing(v) => cpc = "drain" /\ v \in gate)
                              /\ ~(v \in pause /\ wpc[v] = "raise")
        /\ \A v \in stopped : v \in gate /\ ~Pausing(v)
        /\ stopped # {} => closed /\ ~Between
    BY DEF BurstInv
  <2>2. ASSUME NEW v \in Workers
        PROVE  /\ ~Starting(v)' /\ (Pausing(v)' => Pausing(v))
               /\ ~(v \in pause /\ wpc[v] = "raise")'
    BY <1>0, <2>1 DEF WorkerEffect, Starting, Pausing
  <2>3. ASSUME NEW v \in stopped' PROVE v \in gate /\ ~Pausing(v)'
    <3>1. CASE v \in stopped
      BY <2>1, <2>2, <3>1 DEF TypeOK
    <3>2. CASE v = w /\ wpc[w] = "raise"
      BY <1>0, <2>1, <3>2 DEF WorkerEffect, Pausing, TypeOK, Returns
    <3>3. QED
      BY <1>0, <3>1, <3>2 DEF WorkerEffect
  <2>4. stopped' # {} => closed /\ ~Between
    <3>1. CASE stopped' = stopped
      BY <2>1, <3>1
    <3>2. CASE wpc[w] = "raise"
      BY <2>1, <3>2 DEF Pausing, Between
    <3>3. QED
      BY <1>0, <3>1, <3>2 DEF WorkerEffect
  <2>5. QED
    BY <1>1, <1>2, <2>1, <2>2, <2>3, <2>4 DEF BurstInv
<1>7. ReapInv'
  BY <1>1, <1>5 DEF ReapInv
<1>8. QED
  BY <1>0, <1>3, <1>9, <1>6, <1>7, KillsStayExplained

\* The critical process.
LEMMA InterruptQuiet ==
  ASSUME TypeOK, NEW S, NEW w \in Workers, wpc' = Interrupt(S)
  PROVE  /\ Starting(w)' = Starting(w)
         /\ wpc'[w] = "raise" <=> wpc[w] = "raise"
         /\ wpc'[w] = "gone" <=> wpc[w] = "gone"
BY DEF TypeOK, Interrupt, Starting

LEMMA CriticalPauses ==
  ASSUME TypeOK, Bounded, NotReleased, CriticalFirst, PauseInv, CriticalSteps \/ CThrows
  PROVE  PauseInv'
<1> USE DEF PauseInv
<1>1. CRuns
  BY DEF CriticalSteps, CWarm, CLoop, CPause, CDrained, CDrainTimesOut, CInferDone, CFinishes,
         CThrows
<1>2. gov \in {"barrier", "collect", "terminate"} /\ (gov = "terminate" => lapse # {})
  BY <1>1 DEF CRuns, CriticalFirst, BarrierInv, ReleasedInv, BurstInv, TypeOK
<1>3. gov' = gov /\ wstatus' = wstatus /\ gate' = gate /\ lapse \subseteq lapse'
  BY DEF CriticalSteps, CWarm, CLoop, CPause, CDrained, CDrainTimesOut, CInferDone, CFinishes,
         CThrows, worker, governor
<1>4. ReleasedInv' /\ ReapInv' /\ KillInv'
  BY <1>2, <1>3 DEF ReleasedInv, ReapInv, KillInv, KillsExplained
<1>5. CASE gov = "barrier"
  <2>1. CWarm \/ (CThrows /\ cpc = "warm")
    BY <1>1, <1>5 DEF NotReleased, CriticalSteps, CLoop, CPause, CDrained, CDrainTimesOut,
                      CInferDone, CFinishes, CThrows, CRuns
  <2>2. UNCHANGED <<wpc, ret, pause>>
    BY <2>1 DEF CWarm, CThrows, worker, signals
  <2>3. stopped' = stopped /\ closed' = closed /\ (cstopped' => cpc' = "loop")
    BY <1>5, <2>1 DEF CWarm, CThrows, worker, signals, BarrierInv, CRuns
  <2>4. BarrierInv' /\ BurstInv'
    BY <1>3, <1>5, <2>2, <2>3 DEF BarrierInv, BurstInv
  <2>5. QED
    BY <1>4, <2>4
<1>6. CASE lapse # {} /\ gov # "barrier"
  BY <1>2, <1>3, <1>4, <1>6 DEF BarrierInv, BurstInv
<1>7. CASE gov = "collect" /\ lapse = {}
  <2>1. /\ cpc # "warm" /\ (cpc = "drain" => closed)
        /\ \A v \in Workers : /\ ~Starting(v) /\ (Pausing(v) => cpc = "drain" /\ v \in gate)
                              /\ ~(v \in pause /\ wpc[v] = "raise")
        /\ \A v \in stopped : v \in gate /\ ~Pausing(v)
        /\ stopped # {} => closed /\ ~Between
    BY <1>7 DEF BurstInv
  <2>2. BarrierInv'
    BY <1>3, <1>7 DEF BarrierInv
  <2> SUFFICES BurstInv'
    BY <1>4, <2>2
  <2>3. CASE CWarm
    BY <2>1, <2>3 DEF CWarm
  <2>4. CASE CLoop
    BY <1>7, <2>1, <2>4 DEF CLoop, BurstInv, Between, BurstStart, Starting, Pausing, worker,
                            signals, governor, TypeOK
  <2>5. CASE CPause
    <3>1. stopped = {} /\ \A v \in Workers : ~Pausing(v)
      BY <2>1, <2>5 DEF CPause, Between
    <3>2. /\ UNCHANGED <<gate, stopped, gov, lapse>> /\ closed' /\ cpc' = "drain"
          /\ pause' = pause \cup gate /\ wpc' = Interrupt(gate)
      BY <2>5 DEF CPause, governor
    <3>3. ASSUME NEW v \in Workers
          PROVE  /\ ~Starting(v)' /\ (Pausing(v)' => v \in gate)
                 /\ ~(v \in pause /\ wpc[v] = "raise")'
      BY <2>1, <3>1, <3>2, InterruptQuiet DEF Pausing
    <3>4. QED
      BY <1>7, <3>1, <3>2, <3>3 DEF BurstInv
  <2>6. CASE CDrained
    <3>1. UNCHANGED <<gate, wpc, pause, stopped, closed, gov, lapse>> /\ cpc' = "infer"
          /\ gate \subseteq stopped /\ closed
      BY <2>1, <2>6 DEF CDrained, Drained, worker, signals, governor
    <3>2. \A v \in Workers : ~Pausing(v)
      BY <2>1, <3>1
    <3>3. QED
      BY <1>7, <2>1, <3>1, <3>2 DEF BurstInv, Between, Starting, Pausing
  <2>7. CASE CDrainTimesOut
    BY <2>7 DEF CDrainTimesOut, BurstInv
  <2>8. CASE CInferDone
    <3>1. /\ UNCHANGED <<gate, wpc, pause, gov, lapse>> /\ cpc = "infer" /\ cpc' = "loop"
          /\ stopped' \subseteq stopped
      BY <2>8 DEF CInferDone, governor
    <3>2. \A v \in Workers : ~Pausing(v)
      BY <2>1, <3>1
    <3>3. ASSUME stopped' # {} PROVE closed' /\ ~Between'
      <4>1. ~(gate # {} /\ BurstEnd) /\ stopped # {} /\ closed' = closed
        BY <2>1, <2>8, <3>3 DEF CInferDone
      <4>2. ~BurstEnd
        BY <2>1, <4>1
      <4>3. QED
        BY <2>1, <2>8, <4>1, <4>2 DEF CInferDone, BurstEnd, Between, BurstStart
    <3>4. QED
      BY <1>7, <2>1, <3>1, <3>2, <3>3 DEF BurstInv, Starting, Pausing
  <2>9. CASE CThrows
    <3>1. /\ UNCHANGED <<gate, wpc, pause, gov, lapse>> /\ cpc = "infer" /\ cpc' = "gone"
          /\ stopped' = {}
      BY <2>1, <2>9 DEF CThrows, governor
    <3>2. QED
      BY <1>7, <2>1, <3>1 DEF BurstInv, Starting, Pausing
  <2>10. CASE CFinishes
    <3>1. /\ UNCHANGED <<gate, pause, stopped, gov, lapse>> /\ cpc = "loop" /\ cpc' = "gone"
          /\ wpc' = Interrupt(Workers) /\ Between
      BY <2>10 DEF CFinishes, Between, governor
    <3>2. stopped = {} /\ \A v \in Workers : ~Pausing(v)
      BY <2>1, <3>1
    <3>3. \A v \in Workers : ~Starting(v)' /\ ~Pausing(v)'
      BY <2>1, <3>1, <3>2, InterruptQuiet DEF Pausing
    <3>4. QED
      BY <1>7, <3>1, <3>2, <3>3 DEF BurstInv, Pausing
  <2>11. QED
    BY <2>3, <2>4, <2>5, <2>6, <2>7, <2>8, <2>9, <2>10 DEF CriticalSteps
<1>8. QED
  BY <1>2, <1>5, <1>6, <1>7

\* The governor.
LEMMA GovernorPauses ==
  ASSUME TypeOK, NotReleased, CriticalFirst, PauseInv, GovernorSteps \/ GovCollectTimesOut
  PROVE  PauseInv'
<1> USE DEF PauseInv
<1>1. CASE GovBarrier
  BY <1>1 DEF GovBarrier, AllParked, BarrierInv, ReleasedInv, BurstInv, ReapInv, KillInv,
              KillsExplained, worker, signals, critical
<1>2. CASE GovBarrierFails \/ GovReleaseFails \/ GovCollectTimesOut
  <2>1. /\ gov' = "terminate" /\ lapse' # {} /\ wstatus' = wstatus
        /\ gov \notin {"reap", "done"}
    BY <1>2 DEF GovBarrierFails, GovReleaseFails, GovCollectTimesOut, worker
  <2>2. QED
    BY <2>1 DEF BarrierInv, ReleasedInv, BurstInv, ReapInv, KillInv, KillsExplained
<1>3. CASE GovReleaseWorkers
  <2>1. stopped' = {} /\ UNCHANGED <<wpc, pause, wstatus, cpc, cstopped>> /\ gov' = "released"
        /\ gov = "release"
    BY <1>3 DEF GovReleaseWorkers, critical
  <2>2. Quiet'
    BY <2>1 DEF BarrierInv, Quiet, Starting, Pausing
  <2>3. QED
    BY <2>1, <2>2 DEF BarrierInv, ReleasedInv, BurstInv, ReapInv, KillInv, KillsExplained
<1>4. CASE GovReleaseCritical
  <2>1. /\ gov = "released" /\ gov' = "collect" /\ UNCHANGED <<wpc, pause, stopped, wstatus, cpc>>
    BY <1>4 DEF GovReleaseCritical, worker, signals
  <2>2. stopped = {} /\ Quiet /\ cpc = "loop"
    BY <2>1 DEF ReleasedInv
  <2>3. \A v \in Workers : ~Starting(v)' /\ ~Pausing(v)'
    BY <2>1, <2>2 DEF Quiet, Starting, Pausing
  <2>4. QED
    BY <2>1, <2>2, <2>3 DEF BarrierInv, ReleasedInv, BurstInv, ReapInv, KillInv, KillsExplained,
                           Pausing
<1>5. CASE GovCollect
  <2>1. /\ gov = "collect" /\ gov' = "terminate" /\ cpc = "gone"
        /\ UNCHANGED <<gate, wpc, pause, stopped, closed, index, wstatus, cpc, lapse>>
    BY <1>5 DEF GovCollect, worker, signals, critical
  <2>2. QED
    BY <2>1 DEF BarrierInv, ReleasedInv, BurstInv, ReapInv, KillInv, KillsExplained, Between,
                BurstStart, Starting, Pausing
<1>6. CASE GovTerminate
  <2>1. /\ gov = "terminate" /\ gov' = "stop"
        /\ UNCHANGED <<wpc, pause, stopped, wstatus, lapse>>
    BY <1>6 DEF GovTerminate, worker, signals
  <2>2. lapse = {} => stopped = {} /\ Quiet
    BY <2>1 DEF BurstInv, Between, Quiet
  <2>3. QED
    BY <2>1, <2>2 DEF BarrierInv, ReleasedInv, BurstInv, ReapInv, KillInv, KillsExplained,
                      Quiet, Starting, Pausing
<1>7. CASE GovStopWorkers
  <2>1. /\ gov = "stop" /\ gov' = "reap" /\ stopped' = {} /\ stop' = Workers
        /\ UNCHANGED <<pause, lapse>>
    BY <1>7 DEF GovStopWorkers, TypeOK
  <2>2. \A v \in Workers : wstatus'[v] # "killed"
    BY <1>7, <2>1 DEF GovStopWorkers, KillInv
  <2>3. ASSUME lapse = {}, NEW v \in Workers PROVE ~Starting(v)' /\ ~Pausing(v)'
    <3>1. ~Starting(v) /\ ~Pausing(v)
      BY <2>1, <2>3 DEF ReapInv, Quiet
    <3>2. wpc'[v] \in {wpc[v], "gone", "sleep"}
      BY <1>7 DEF GovStopWorkers, Interrupt
    <3>3. QED
      BY <2>1, <3>1, <3>2 DEF Starting, Pausing
  <2>4. QED
    BY <2>1, <2>2, <2>3 DEF BarrierInv, ReleasedInv, BurstInv, ReapInv, KillInv, KillsExplained,
                            Quiet
<1>8. ASSUME NEW w \in Workers, GovKill(w) PROVE PauseInv'
  <2>1. /\ gov = "reap" /\ UNCHANGED <<pause, stop, tokens, gov, lapse>>
        /\ stopped' \subseteq stopped /\ Stuck(w)
        /\ \A v \in Workers : wpc'[v] \in {wpc[v], "gone"}
        /\ \A v \in Workers \ {w} : wstatus'[v] = wstatus[v]
    BY <1>8 DEF GovKill, Ends, Move, governor, TypeOK
  <2>2. ReapInv'
    BY <2>1 DEF ReapInv, Quiet, Starting, Pausing
  <2>3. lapse # {} \/ \E p \in Downstream(w) : tokens[p] = PipeCapacity
    BY <2>1 DEF ReapInv, Stuck, Blocked
  <2>4. KillInv'
    BY <2>1, <2>3 DEF KillInv, KillsExplained, Downstream
  <2>5. QED
    BY <2>1, <2>2, <2>4 DEF BarrierInv, ReleasedInv, BurstInv
<1>9. CASE GovDone
  BY <1>9 DEF GovDone, BarrierInv, ReleasedInv, BurstInv, ReapInv, KillInv, KillsExplained,
              Quiet, Starting, Pausing, Downstream, worker, signals
<1>10. QED
  BY <1>1, <1>2, <1>3, <1>4, <1>5, <1>6, <1>7, <1>8, <1>9 DEF GovernorSteps

LEMMA PauseStep ==
  ASSUME TypeOK, Bounded, NotReleased, CriticalFirst, PauseInv, [Next]_vars
  PROVE  PauseInv'
<1>1. CASE UNCHANGED vars
  BY <1>1 DEF vars, worker, signals, critical, governor, PauseInv, BarrierInv, ReleasedInv,
              BurstInv, ReapInv, KillInv, KillsExplained, Quiet, Starting, Pausing, Between,
              BurstStart, Downstream
<1>2. CASE Next
  BY <1>1, <1>2, WorkerPauses, CriticalPauses, GovernorPauses DEF Next, Finished
<1>3. QED
  BY <1>1, <1>2

LEMMA PauseInit == Init => PauseInv
BY DEF Init, PauseInv, BarrierInv, ReleasedInv, BurstInv, ReapInv, KillInv, KillsExplained

\* PauseInv holds in every epoch: between its clauses no SIGCONT can be lost, unless a
\* barrier, a release, a drain or the collection has failed.
THEOREM PausesKept == Spec => []PauseInv
<1>1. Init => TypeOK /\ Bounded /\ EpochInv /\ PauseInv
  BY TypeInit, PauseInit
     DEF Init, EpochInv, NotReleased, CriticalFirst, BurstKeepsGate, CriticalAlone
<1>2. TypeOK /\ Bounded /\ EpochInv /\ PauseInv /\ [Next]_vars
        => (TypeOK /\ Bounded /\ EpochInv /\ PauseInv)'
  BY TypeStep, BoundedStep, EpochStep, PauseStep DEF EpochInv
<1>3. QED
  BY <1>1, <1>2, PTL DEF Spec

\* Outside a drain no worker is on its way to stop itself (honor_pause_request clears the
\* flag before it raises), so the SIGCONT that ends a burst finds every worker it is for;
\* however the critical process ends, ~ProcessGate included, its gate is open and stays
\* open.
THEOREM GateOpened == Spec => []GateLeftOpen
<1>1. PauseInv => (gov \in {"collect", "terminate"} /\ lapse = {} /\ cpc # "drain" =>
                     \A w \in Workers : ~Pausing(w))
  BY DEF PauseInv, BurstInv
<1>2. PauseInv => (gov \in {"collect", "terminate"} /\ lapse = {} /\ cpc = "gone" =>
                     stopped = {})
  BY DEF PauseInv, BurstInv, Between
<1>3. PauseInv => GateLeftOpen
  BY <1>1, <1>2 DEF GateLeftOpen
<1>4. QED
  BY <1>3, PausesKept, PTL

\* stop_workers() kills only after a failure, or a worker that blocks on a full pipe.
THEOREM KillExplained == Spec => []KillsExplained
<1>1. PauseInv => KillsExplained
  BY DEF PauseInv, KillInv
<1>2. QED
  BY <1>1, PausesKept, PTL

=============================================================================
