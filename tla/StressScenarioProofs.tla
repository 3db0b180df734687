------------------------- MODULE StressScenarioProofs -------------------------
(***************************************************************************)
(* Proofs about a stress scenario, for every number of requests, every     *)
(* scope, mode and placement, with exceptions, kills and timeouts allowed  *)
(* or not.  A step either leaves the requests alone and moves each child   *)
(* along its program, or is one of seven that carry a request on; the      *)
(* inductive invariant is carried through these eight cases.               *)
(***************************************************************************)
EXTENDS StressScenario, TLAPS

USE StressAssumption
USE DEF P, C, Children, NoRequest, Running, Broken, Crashed, Requests

\* Appending an element of S to a sequence over S.
LEMMA AppendTyped ==
  ASSUME NEW S, NEW s \in Seq(S), NEW e \in S
  PROVE  /\ Append(s, e) \in Seq(S) /\ Len(Append(s, e)) = Len(s) + 1
         /\ \A k \in 1 .. Len(s) : Append(s, e)[k] = s[k]
         /\ Append(s, e)[Len(s) + 1] = e
OBVIOUS

-----------------------------------------------------------------------------
(* The inductive invariants *)

\* Why one activation is enough, the inductive invariant behind WholeActivation and
\* OkMeansAllServed: the counts of a request never differ by more than one, and where
\* a child is tells which of them it has raised.
Unsent ==
  \/ pc[P] \in {"off", "init", "orion", "setup", "go", "arrive", "pause", "pausing", "begin"}
  \/ Dependent /\ pc[P] \in {"infer", "publish"}
Passed ==
  \/ pc[P] \in {"resume", "resuming", "ack"}
  \/ ~Dependent /\ pc[P] \in {"infer", "publish"}
Counts ==
  /\ acks <= acked /\ acked <= Len(results) /\ Len(results) <= taken
  /\ taken <= sent /\ sent <= acks + 1 /\ sent <= Total
  /\ Unsent => sent = acks
  /\ Passed => acks < sent
  /\ pc[P] \in {"pause", "pausing", "begin", "infer", "publish"} => acks < Total
  /\ pc[C] \in {"off", "init", "setup", "go", "receive"} => acked = taken
  /\ pc[C] \in {"infer", "resume", "resuming", "report"} => Len(results) < taken
  /\ pc[C] = "ack" => acked < Len(results)
Contents ==
  /\ Dependent /\ acks < sent => activation = acks
  /\ pc[P] = "publish" => activation = acks
  /\ pc[P] \in {"pause", "pausing"} /\ run.scope = "consumer" => activation = acks
  /\ \A k \in 1 .. Len(results) : results[k] = k - 1
Verdicts ==
  /\ driver = "barrier" => main = "off"
  /\ driver = "pipeline" => main # "off"
  /\ main = "off" => \A c \in Children : pc[c] = "off"
  /\ main \notin {"off", "gone"} => \A c \in Children : pc[c] # "off"
  /\ main # "gone" => verdict = "none"
  /\ driver \in {"barrier", "pipeline"} => outcome = "none"
  /\ driver \in {"stop", "reap"} /\ outcome = "none" => verdict = "ok"
  /\ outcome = "ok" => verdict = "ok"
  /\ collected <= Len(results)
  /\ verdict = "ok" => Len(results) = Total /\ \A c \in Children : pc[c] = "gone"
ServedInv == Counts /\ Contents /\ Verdicts

\* Who holds the gate: the inductive invariant behind ProtectedStages.  It is shut
\* from the poll that saw the pause to the SIGCONT of whoever reopens it, and its
\* target is not still waking up from there when the next pause polls for it.
Closes == run.scope \in {"consumer", "pipeline"}
Shut ==
  \/ run.scope = "producer" /\ pc[P] \in {"begin", "infer", "publish", "resume"}
  \/ run.scope = "pipeline" /\ pc[P] = "begin"
  \/ run.scope = "pipeline" /\ Dependent /\ pc[P] \in {"infer", "publish"}
  \/ run.scope = "consumer" /\ pc[P] = "publish"
  \/ Closes /\ (taken < sent \/ pc[C] \in {"infer", "resume"})
Calm ==
  \/ sent = acks /\ ~Shut
  \/ run.scope = "producer" /\ pc[P] = "ack"
  \/ Closes /\ (acks < acked \/ pc[C] \in {"report", "ack"})
GateInv ==
  /\ bpc \in {"boot", "gone"} => halt = "run"
  /\ bpc = "boot" => main = "off"
  /\ ~run.admitted => bpc = "gone"
  /\ driver = "barrier" => halt # "waking"
  /\ run.mode = "cooperative" => halt # "stopping" /\ (halt = "stopped" => bpc \notin {"infer", "raise"})
  /\ pc[P] \in {"pause", "pausing"} => Gated
  /\ pc[P] \in {"resume", "resuming"} => run.scope = "producer"
  /\ pc[C] \in {"resume", "resuming"} => Closes
  /\ driver = "pipeline" /\ Gated => (Shut => Held) /\ (Calm => halt # "waking")

\* No stop is on its way outside a pause, the inductive invariant behind
\* KilledOnlyAfterFailure.
Pausing == pc[P] = "pausing" \/ (pc[P] = "gone" /\ status[P] # 0)
Tidy == ~pause /\ bpc \notin {"raise", "boot"} /\ halt # "stopping"
TidyInv ==
  /\ run.mode = "stop" => ~pause /\ bpc # "raise"
  /\ main \notin {"off", "gone"} => driver = "pipeline"
  /\ \A c \in Children : status[c] = 0 => pc[c] = "gone"
  /\ verdict = "ok" => status[P] = 0
  /\ driver = "barrier" => ~pause /\ bpc # "raise" /\ halt # "stopping"
  /\ driver = "pipeline" \/ verdict = "ok" => Pausing \/ Tidy
  /\ driver = "pipeline" /\ (bpc = "raise" \/ halt = "stopped") => ~pause
  /\ verdict = "ok" /\ driver \in {"reap", "done"} => halt \in {"run", "waking"}
  /\ bstatus = "killed" => driver \in {"reap", "done"} /\ verdict # "ok"

-----------------------------------------------------------------------------
(* What a step does to the requests and to the places of the children *)

\* The producer stays, leaves, or takes a step that carries no request on.
ProducerMoves ==
  \/ pc'[P] = pc[P]
  \/ pc[P] # "off" /\ pc'[P] \in {"unwind", "finish", "gone"}
  \/ /\ pc[P] \in {"off", "init", "orion", "setup", "go"}
     /\ pc'[P] \in {"init", "orion", "setup", "go", "arrive"}
  \/ /\ pc[P] = "arrive" /\ acks < Total
     /\ \/ pc'[P] = "begin"
        \/ pc'[P] = "pause" /\ run.scope # "consumer"
  \/ pc[P] = "pause" /\ pc'[P] = "pausing"
  \/ pc[P] = "pausing" /\ pc'[P] = AfterPause
  \/ pc[P] = "begin" /\ Dependent /\ pc'[P] = "infer"
  \/ pc[P] = "publish" /\ ~Dependent /\ pc'[P] \in {"resume", "ack"}
  \/ pc[P] = "resume" /\ pc'[P] = "resuming"
  \/ pc[P] = "resuming" /\ pc'[P] = "ack"

\* The consumer likewise.
ConsumerMoves ==
  \/ pc'[C] = pc[C]
  \/ pc[C] # "off" /\ pc'[C] = "gone"
  \/ /\ pc[C] \in {"off", "init", "setup", "go"}
     /\ pc'[C] \in {"init", "setup", "go", "receive"}
  \/ pc[C] = "infer" /\ pc'[C] \in {"resume", "report"}
  \/ pc[C] = "resume" /\ pc'[C] = "resuming"
  \/ pc[C] = "resuming" /\ pc'[C] = "report"

Quiet == UNCHANGED <<run, flow>> /\ ProducerMoves /\ ConsumerMoves

\* The producer wrote a transfer.
Sends ==
  /\ sent' = sent + 1 /\ UNCHANGED <<run, taken, acked, acks, activation, results>>
  /\ \/ pc[P] = "begin" /\ ~Dependent /\ pc'[P] = "infer"
     \/ pc[P] = "publish" /\ Dependent /\ pc'[P] \in {"resume", "ack"}
  /\ pc'[C] = pc[C]

\* The steps that carry a request on.
Carries == Sends \/ Produce \/ ReadAck \/ Receive \/ Report \/ Ack

\* Launch is the only step that starts a child, and a child that ended is gone.
Lives ==
  \A c \in Children :
    /\ pc[c] = "gone" => pc'[c] = "gone"
    /\ pc[c] # "off" => pc'[c] # "off"

\* Every step is quiet or carries a request on.
LEMMA Moves ==
  ASSUME TypeOK, Verdicts, [Next]_vars
  PROVE  (Quiet \/ Carries) /\ Lives
<1>1. ASSUME NEW c \in Children, InitCuda(c) PROVE (Quiet \/ Carries) /\ Lives
  BY <1>1 DEF InitCuda, CGoes, Quiet, ProducerMoves, ConsumerMoves, Lives, TypeOK, Goto,
      ProducerLabels, ConsumerLabels, flow, parent, background, orion, smoke
<1>2. ASSUME NEW c \in Children, InitFails(c) PROVE (Quiet \/ Carries) /\ Lives
  BY <1>2 DEF InitFails, Quiet, ProducerMoves, ConsumerMoves, Lives, TypeOK, Leave,
      ProducerLabels, ConsumerLabels, flow, background, orion, smoke
<1>3. ASSUME NEW c \in Children, Setup(c) PROVE (Quiet \/ Carries) /\ Lives
  BY <1>3 DEF Setup, Quiet, ProducerMoves, ConsumerMoves, Lives, TypeOK, Goto, Leave,
      ProducerLabels, ConsumerLabels, flow, background, orion, smoke
<1>4. ASSUME NEW c \in Children, SetupFails(c) PROVE (Quiet \/ Carries) /\ Lives
  BY <1>4 DEF SetupFails, CFails, Throw, Quiet, ProducerMoves, ConsumerMoves, Lives, TypeOK, Goto,
      Leave, ProducerLabels, ConsumerLabels, flow, parent, background, orion, smoke
<1>5. ASSUME NEW c \in Children, ReadGo(c) PROVE (Quiet \/ Carries) /\ Lives
  BY <1>5 DEF ReadGo, Quiet, ProducerMoves, ConsumerMoves, Lives, TypeOK, Goto, ProducerLabels,
      ConsumerLabels, flow, parent, background, orion, smoke
<1>6. ASSUME NEW c \in Children, NoGo(c) PROVE (Quiet \/ Carries) /\ Lives
  BY <1>6 DEF NoGo, Throw, Quiet, ProducerMoves, ConsumerMoves, Lives, TypeOK, Goto, Leave,
      ProducerLabels, ConsumerLabels, flow, parent, background, orion, smoke
<1>7. ASSUME NEW c \in Children, Crash(c) PROVE (Quiet \/ Carries) /\ Lives
  BY <1>7 DEF Crash, Alive, Quiet, ProducerMoves, ConsumerMoves, Lives, TypeOK, Leave,
      ProducerLabels, ConsumerLabels, flow, parent, background, orion, smoke
<1>8. ASSUME NEW c \in Children, PauseSignal(c) PROVE (Quiet \/ Carries) /\ Lives
  BY <1>8 DEF PauseSignal, Throw, InT, Quiet, ProducerMoves, ConsumerMoves, Lives, TypeOK, Goto,
      Leave, ProducerLabels, ConsumerLabels, flow, parent, orion, smoke
<1>9. ASSUME NEW c \in Children, Paused(c) PROVE (Quiet \/ Carries) /\ Lives
  BY <1>9 DEF Paused, CGoes, AfterPause, InT, Quiet, ProducerMoves, ConsumerMoves, Lives, TypeOK,
      Goto, ProducerLabels, ConsumerLabels, flow, parent, background, orion, smoke
<1>10. ASSUME NEW c \in Children, PauseTimesOut(c) PROVE (Quiet \/ Carries) /\ Lives
  BY <1>10 DEF PauseTimesOut, CFails, Throw, InT, Quiet, ProducerMoves, ConsumerMoves, Lives,
      TypeOK, Goto, Leave, ProducerLabels, ConsumerLabels, flow, parent, background,
      orion, smoke
<1>11. ASSUME NEW c \in Children, ResumeSignal(c) PROVE (Quiet \/ Carries) /\ Lives
  BY <1>11 DEF ResumeSignal, Throw, Sigcont, Quiet, ProducerMoves, ConsumerMoves, Lives, TypeOK,
      Goto, Leave, ProducerLabels, ConsumerLabels, flow, parent, orion, smoke
<1>12. ASSUME NEW c \in Children, Resumed(c) PROVE (Quiet \/ Carries) /\ Lives
  BY <1>12 DEF Resumed, CGoes, AfterResume, InT, Quiet, ProducerMoves, ConsumerMoves, Lives,
      TypeOK, Goto, ProducerLabels, ConsumerLabels, flow, parent, background, orion,
      smoke
<1>13. ASSUME NEW c \in Children, ResumeTimesOut(c) PROVE (Quiet \/ Carries) /\ Lives
  BY <1>13 DEF ResumeTimesOut, CFails, Throw, InT, Quiet, ProducerMoves, ConsumerMoves, Lives,
      TypeOK, Goto, Leave, ProducerLabels, ConsumerLabels, flow, parent, background,
      orion, smoke
<1>14. CASE Arrive
  BY <1>14 DEF Arrive, CGoes, Quiet, ProducerMoves, ConsumerMoves, Lives, TypeOK, Goto,
      ProducerLabels, ConsumerLabels, flow, parent, background, orion, smoke
<1>15. CASE Begin
  BY <1>15 DEF Begin, CGoes, Transmit, Quiet, Carries, Sends, ProducerMoves, ConsumerMoves, Lives,
      TypeOK, Goto, Leave, ProducerLabels, ConsumerLabels, flow
<1>16. CASE Produce
  BY <1>16 DEF Produce, Carries, Lives, TypeOK, Goto, ProducerLabels, ConsumerLabels
<1>17. CASE Publish
  BY <1>17 DEF Publish, AfterPublish, CGoes, Transmit, Quiet, Carries, Sends, ProducerMoves,
      ConsumerMoves, Lives, TypeOK, Goto, Leave, ProducerLabels, ConsumerLabels,
      flow
<1>18. CASE ReadAck
  BY <1>18 DEF ReadAck, Carries, Lives, TypeOK, Goto, ProducerLabels, ConsumerLabels
<1>19. CASE NoAck
  BY <1>19 DEF NoAck, Throw, Quiet, ProducerMoves, ConsumerMoves, Lives, TypeOK, Goto, Leave,
      ProducerLabels, ConsumerLabels, flow, parent, background, orion, smoke
<1>20. CASE ProducerEnds
  BY <1>20 DEF ProducerEnds, Quiet, ProducerMoves, ConsumerMoves, Lives, TypeOK, Goto, Leave,
      ProducerLabels, ConsumerLabels, flow, parent, background, orion, smoke
<1>21. CASE StartThread
  BY <1>21 DEF StartThread, Quiet, ProducerMoves, ConsumerMoves, Lives, TypeOK, ProducerLabels,
      ConsumerLabels, flow, parent, background, orion, smoke
<1>22. CASE ThreadReady
  BY <1>22 DEF ThreadReady, CGoes, Quiet, ProducerMoves, ConsumerMoves, Lives, TypeOK, Goto,
      ProducerLabels, ConsumerLabels, flow, parent, background, orion, smoke
<1>23. CASE ThreadNotReady
  BY <1>23 DEF ThreadNotReady, CGoes, Quiet, ProducerMoves, ConsumerMoves, Lives, TypeOK, Goto,
      ProducerLabels, ConsumerLabels, flow, parent, background, orion, smoke
<1>24. CASE Shutdown
  BY <1>24 DEF Shutdown, Quiet, ProducerMoves, ConsumerMoves, Lives, TypeOK, ProducerLabels,
      ConsumerLabels, flow, parent, background, orion, smoke
<1>25. CASE Join
  BY <1>25 DEF Join, Quiet, ProducerMoves, ConsumerMoves, Lives, TypeOK, Leave, ProducerLabels,
      ConsumerLabels, flow, parent, background, orion, smoke
<1>26. CASE Register
  BY <1>26 DEF Register, WGoes, Quiet, ProducerMoves, ConsumerMoves, Lives, TypeOK, ProducerLabels,
      ConsumerLabels, flow, parent, background, orion, smoke
<1>27. CASE Predicate
  BY <1>27 DEF Predicate, WGoes, Quiet, ProducerMoves, ConsumerMoves, Lives, TypeOK,
      ProducerLabels, ConsumerLabels, flow, parent, background, orion, smoke
<1>28. CASE Park
  BY <1>28 DEF Park, WGoes, Quiet, ProducerMoves, ConsumerMoves, Lives, TypeOK, ProducerLabels,
      ConsumerLabels, flow, parent, background, orion, smoke
<1>29. CASE Woken
  BY <1>29 DEF Woken, WGoes, Quiet, ProducerMoves, ConsumerMoves, Lives, TypeOK, ProducerLabels,
      ConsumerLabels, flow, parent, background, orion, smoke
<1>30. CASE Work
  BY <1>30 DEF Work, Quiet, ProducerMoves, ConsumerMoves, Lives, TypeOK, ProducerLabels,
      ConsumerLabels, flow, parent, background, orion, smoke
<1>31. CASE Receive
  BY <1>31 DEF Receive, Carries, Lives, TypeOK, Goto, ProducerLabels, ConsumerLabels
<1>32. CASE NoTransfer
  BY <1>32 DEF NoTransfer, Quiet, ProducerMoves, ConsumerMoves, Lives, TypeOK, Leave,
      ProducerLabels, ConsumerLabels, flow, parent, background, orion, smoke
<1>33. CASE Consume
  BY <1>33 DEF Consume, CGoes, Quiet, ProducerMoves, ConsumerMoves, Lives, TypeOK, Goto,
      ProducerLabels, ConsumerLabels, flow, parent, background, orion, smoke
<1>34. CASE Report
  BY <1>34 DEF Report, Carries, Lives, TypeOK, Goto, Leave, ProducerLabels, ConsumerLabels
<1>35. CASE Ack
  BY <1>35 DEF Ack, Carries, Lives, TypeOK, Goto, Leave, ProducerLabels, ConsumerLabels
<1>36. CASE SeesReady
  BY <1>36 DEF SeesReady, MGoes, Quiet, ProducerMoves, ConsumerMoves, Lives, TypeOK,
      ProducerLabels, ConsumerLabels, flow, background, orion, smoke
<1>37. CASE NotReady
  BY <1>37 DEF NotReady, MGoes, Quiet, ProducerMoves, ConsumerMoves, Lives, TypeOK, ProducerLabels,
      ConsumerLabels, flow, background, orion, smoke
<1>38. CASE GoProducer
  BY <1>38 DEF GoProducer, GiveGo, Quiet, ProducerMoves, ConsumerMoves, Lives, TypeOK,
      ProducerLabels, ConsumerLabels, flow, background, orion, smoke
<1>39. CASE GoConsumer
  BY <1>39 DEF GoConsumer, GiveGo, Quiet, ProducerMoves, ConsumerMoves, Lives, TypeOK,
      ProducerLabels, ConsumerLabels, flow, background, orion, smoke
<1>40. CASE Collect
  BY <1>40 DEF Collect, Quiet, ProducerMoves, ConsumerMoves, Lives, TypeOK, ProducerLabels,
      ConsumerLabels, flow, background, orion, smoke
<1>41. CASE CollectEnds
  BY <1>41 DEF CollectEnds, MGoes, Quiet, ProducerMoves, ConsumerMoves, Lives, TypeOK,
      ProducerLabels, ConsumerLabels, flow, background, orion, smoke
<1>42. CASE CollectTimesOut
  BY <1>42 DEF CollectTimesOut, MGoes, Quiet, ProducerMoves, ConsumerMoves, Lives, TypeOK,
      ProducerLabels, ConsumerLabels, flow, background, orion, smoke
<1>43. CASE Reap
  BY <1>43 DEF Reap, Complete, Quiet, ProducerMoves, ConsumerMoves, Lives, TypeOK, ProducerLabels,
      ConsumerLabels, flow, background, orion, smoke
<1>44. CASE Raise
  BY <1>44 DEF Raise, Quiet, ProducerMoves, ConsumerMoves, Lives, TypeOK, ProducerLabels,
      ConsumerLabels, flow, parent, orion, smoke
<1>45. CASE Honor
  BY <1>45 DEF Honor, Quiet, ProducerMoves, ConsumerMoves, Lives, TypeOK, ProducerLabels,
      ConsumerLabels, flow, parent, orion, smoke
<1>46. CASE Look
  BY <1>46 DEF Look, BGoes, Quiet, ProducerMoves, ConsumerMoves, Lives, TypeOK, ProducerLabels,
      ConsumerLabels, flow, parent, orion, smoke
<1>47. CASE Proceed
  BY <1>47 DEF Proceed, BGoes, Quiet, ProducerMoves, ConsumerMoves, Lives, TypeOK, ProducerLabels,
      ConsumerLabels, flow, parent, orion, smoke
<1>48. CASE Infer
  BY <1>48 DEF Infer, Quiet, ProducerMoves, ConsumerMoves, Lives, TypeOK, ProducerLabels,
      ConsumerLabels, flow, parent, orion, smoke
<1>49. CASE BLeaves
  BY <1>49 DEF BLeaves, BEnds, Quiet, ProducerMoves, ConsumerMoves, Lives, TypeOK, ProducerLabels,
      ConsumerLabels, flow, parent, orion, smoke
<1>50. CASE Kernel
  BY <1>50 DEF Kernel, Quiet, ProducerMoves, ConsumerMoves, Lives, TypeOK, ProducerLabels,
      ConsumerLabels, flow, parent, orion, smoke
<1>51. CASE Launch
  BY <1>51 DEF Launch, Verdicts, Quiet, ProducerMoves, ConsumerMoves, Lives, TypeOK, flow
<1>52. CASE NoLaunch
  BY <1>52 DEF NoLaunch, InT, Quiet, ProducerMoves, ConsumerMoves, Lives, TypeOK, ProducerLabels,
      ConsumerLabels, flow, parent, background, orion
<1>53. CASE PipelineEnds
  BY <1>53 DEF PipelineEnds, Quiet, ProducerMoves, ConsumerMoves, Lives, TypeOK, ProducerLabels,
      ConsumerLabels, flow, parent, background, orion
<1>54. CASE StopBackground
  BY <1>54 DEF StopBackground, Sigcont, Quiet, ProducerMoves, ConsumerMoves, Lives, TypeOK,
      ProducerLabels, ConsumerLabels, flow, parent, orion
<1>55. CASE KillBackground
  BY <1>55 DEF KillBackground, Quiet, ProducerMoves, ConsumerMoves, Lives, TypeOK, ProducerLabels,
      ConsumerLabels, flow, parent, orion, smoke
<1>56. CASE DriverEnds
  BY <1>56 DEF DriverEnds, Quiet, ProducerMoves, ConsumerMoves, Lives, TypeOK, ProducerLabels,
      ConsumerLabels, flow, parent, background, orion
<1>57. CASE ProduceFails
  BY <1>57 DEF ProduceFails, CFails, Throw, Quiet, ProducerMoves, ConsumerMoves, Lives, TypeOK,
      Goto, Leave, ProducerLabels, ConsumerLabels, flow, parent, background, orion,
      smoke
<1>58. CASE ConsumeFails
  BY <1>58 DEF ConsumeFails, CFails, Throw, Quiet, ProducerMoves, ConsumerMoves, Lives, TypeOK,
      Goto, Leave, ProducerLabels, ConsumerLabels, flow, parent, background, orion,
      smoke
<1>59. CASE BThrows
  BY <1>59 DEF BThrows, BEnds, Quiet, ProducerMoves, ConsumerMoves, Lives, TypeOK, ProducerLabels,
      ConsumerLabels, flow, parent, orion, smoke
<1>60. CASE RegisterFails
  BY <1>60 DEF RegisterFails, WGoes, Quiet, ProducerMoves, ConsumerMoves, Lives, TypeOK,
      ProducerLabels, ConsumerLabels, flow, parent, background, orion, smoke
<1>61. CASE WorkFails
  BY <1>61 DEF WorkFails, WGoes, Quiet, ProducerMoves, ConsumerMoves, Lives, TypeOK,
      ProducerLabels, ConsumerLabels, flow, parent, background, orion, smoke
<1>62. CASE PipelineTimesOut
  BY <1>62 DEF PipelineTimesOut, Quiet, ProducerMoves, ConsumerMoves, Lives, TypeOK,
      ProducerLabels, ConsumerLabels, flow, background, orion
<1>63. CASE UNCHANGED vars
  BY <1>63 DEF vars, Quiet, ProducerMoves, ConsumerMoves, Lives, flow
<1>64. QED
  BY <1>1, <1>2, <1>3, <1>4, <1>5, <1>6, <1>7, <1>8, <1>9, <1>10, <1>11, <1>12,
     <1>13, <1>14, <1>15, <1>16, <1>17, <1>18, <1>19, <1>20, <1>21, <1>22, <1>23,
     <1>24, <1>25, <1>26, <1>27, <1>28, <1>29, <1>30, <1>31, <1>32, <1>33, <1>34,
     <1>35, <1>36, <1>37, <1>38, <1>39, <1>40, <1>41, <1>42, <1>43, <1>44, <1>45,
     <1>46, <1>47, <1>48, <1>49, <1>50, <1>51, <1>52, <1>53, <1>54, <1>55, <1>56,
     <1>57, <1>58, <1>59, <1>60, <1>61, <1>62, <1>63
  DEF Next, ProducerSteps, ThreadSteps, ConsumerSteps, MainSteps, BackgroundSteps,
      DriverSteps, Mishaps, ChildSteps, GateSteps, Finished

-----------------------------------------------------------------------------
(* The parts of the inductive invariant *)

\* The counts stay within one request of each other.
LEMMA CountsStep ==
  ASSUME TypeOK, Counts, Verdicts, [Next]_vars
  PROVE  Counts'
<1>1. /\ acks \in Int /\ acked \in Int /\ taken \in Int /\ sent \in Int
      /\ Len(results) \in Int /\ results \in Seq(Requests \cup {NoRequest})
      /\ Total \in Int
  BY DEF TypeOK
<1>2. CASE Quiet
  <2>1. /\ sent' = sent /\ taken' = taken /\ acked' = acked /\ acks' = acks
        /\ results' = results /\ run' = run
    BY <1>2 DEF Quiet, flow
  <2>2. Unsent' => sent = acks
    BY <1>2, <2>1 DEF Quiet, ProducerMoves, AfterPause, Counts, Unsent, Passed, Dependent
  <2>3. pc'[P] \in {"pause", "pausing", "begin", "infer", "publish"} => acks < Total
    BY <1>2 DEF Quiet, ProducerMoves, AfterPause, Counts
  <2>4. /\ pc'[C] \in {"off", "init", "setup", "go", "receive"} => acked = taken
        /\ pc'[C] \in {"infer", "resume", "resuming", "report"} => Len(results) < taken
        /\ pc'[C] = "ack" => acked < Len(results)
    BY <1>2 DEF Quiet, ConsumerMoves, Counts
  <2>5. Passed' => acks < sent
    BY <1>2, <2>1 DEF Quiet, ProducerMoves, AfterPause, Counts, Passed, Dependent, Runs, TypeOK
  <2>6. QED
    BY <2>1, <2>2, <2>3, <2>4, <2>5 DEF Counts
<1>3. CASE Sends
  BY <1>1, <1>3 DEF Sends, Counts, Unsent, Passed, Dependent
<1>4. CASE Produce
  BY <1>1, <1>4 DEF Produce, Counts, Unsent, Passed, Dependent, Runs, Goto, TypeOK
<1>5. CASE ReadAck
  BY <1>1, <1>5 DEF ReadAck, Counts, Unsent, Passed, Dependent, Goto, TypeOK
<1>6. CASE Receive
  BY <1>1, <1>6 DEF Receive, Counts, Unsent, Passed, Dependent, Goto, TypeOK
<1>7. CASE Report
  BY <1>1, <1>7 DEF Report, Counts, Unsent, Passed, Dependent, Goto, Leave, TypeOK
<1>8. CASE Ack
  BY <1>1, <1>8 DEF Ack, Counts, Unsent, Passed, Dependent, Goto, Leave, TypeOK
<1>9. QED
  BY <1>2, <1>3, <1>4, <1>5, <1>6, <1>7, <1>8, Moves DEF Carries

\* What the mapping and the results hold.
LEMMA ContentsStep ==
  ASSUME TypeOK, Counts, Contents, Verdicts, [Next]_vars
  PROVE  Contents'
<1>1. /\ acks \in Int /\ acked \in Int /\ taken \in Int /\ sent \in Int
      /\ Len(results) \in Int /\ results \in Seq(Requests \cup {NoRequest})
      /\ activation \in Requests \cup {NoRequest} /\ Total \in Int /\ run \in Runs
  BY DEF TypeOK
<1>2. CASE Quiet
  BY <1>1, <1>2 DEF Quiet, ProducerMoves, AfterPause, Contents, Dependent, Runs, flow
<1>3. CASE Sends
  BY <1>1, <1>3 DEF Sends, Counts, Unsent, Contents, Dependent
<1>4. CASE Produce
  BY <1>1, <1>4 DEF Produce, Counts, Unsent, Contents, Dependent, Goto, TypeOK
<1>5. CASE ReadAck
  BY <1>1, <1>5 DEF ReadAck, Counts, Unsent, Contents, Dependent, Goto, TypeOK
<1>6. CASE Receive
  BY <1>1, <1>6 DEF Receive, Counts, Unsent, Contents, Dependent, Goto, TypeOK
<1>7. CASE Report
  <2>1. /\ pc[C] = "report" /\ pc' = [pc EXCEPT ![C] = pc'[C]] /\ pc'[C] \in {"ack", "gone"}
        /\ UNCHANGED <<run, sent, taken, acked, acks, activation>>
    BY <1>7 DEF Report, Goto, Leave, TypeOK
  <2>2. /\ taken = sent /\ sent = acks + 1 /\ Len(results) = acks
        /\ (Dependent => activation = InHand) /\ InHand = Len(results)
    BY <1>1, <2>1 DEF Counts, Contents, InHand
  <2>3. results' = results \/ results' = Append(results, InHand)
    BY <1>7, <2>2 DEF Report
  <2>4. \A k \in 1 .. Len(results') : results'[k] = k - 1
    BY <1>1, <2>2, <2>3, AppendTyped DEF Contents, InHand
  <2>5. QED
    BY <2>1, <2>4 DEF Contents, Dependent, TypeOK
<1>8. CASE Ack
  BY <1>1, <1>8 DEF Ack, Counts, Unsent, Contents, Dependent, Goto, Leave, TypeOK
<1>9. QED
  BY <1>2, <1>3, <1>4, <1>5, <1>6, <1>7, <1>8, Moves DEF Carries

\* Every action gives every variable a value of its type.
LEMMA TypeStep ==
  ASSUME TypeOK, Counts, [Next]_vars
  PROVE  TypeOK'
<1>1. ASSUME NEW c \in Children, InitCuda(c) PROVE TypeOK'
  BY <1>1 DEF InitCuda, CGoes, TypeOK, Goto, ProducerLabels, ConsumerLabels, flow, parent,
      background, orion, smoke
<1>2. ASSUME NEW c \in Children, InitFails(c) PROVE TypeOK'
  BY <1>2 DEF InitFails, TypeOK, Leave, ProducerLabels, ConsumerLabels, flow, background, orion,
      smoke
<1>3. ASSUME NEW c \in Children, Setup(c) PROVE TypeOK'
  BY <1>3 DEF Setup, TypeOK, Goto, Leave, ProducerLabels, ConsumerLabels, flow, background, orion,
      smoke
<1>4. ASSUME NEW c \in Children, SetupFails(c) PROVE TypeOK'
  BY <1>4 DEF SetupFails, CFails, Throw, TypeOK, Goto, Leave, ProducerLabels, ConsumerLabels,
      flow, parent, background, orion, smoke
<1>5. ASSUME NEW c \in Children, ReadGo(c) PROVE TypeOK'
  BY <1>5 DEF ReadGo, TypeOK, Goto, ProducerLabels, ConsumerLabels, flow, parent, background,
      orion, smoke
<1>6. ASSUME NEW c \in Children, NoGo(c) PROVE TypeOK'
  BY <1>6 DEF NoGo, Throw, TypeOK, Goto, Leave, ProducerLabels, ConsumerLabels, flow, parent,
      background, orion, smoke
<1>7. ASSUME NEW c \in Children, Crash(c) PROVE TypeOK'
  BY <1>7 DEF Crash, Alive, TypeOK, Leave, ProducerLabels, ConsumerLabels, flow, parent,
      background, orion, smoke
<1>8. ASSUME NEW c \in Children, PauseSignal(c) PROVE TypeOK'
  BY <1>8 DEF PauseSignal, Throw, InT, TypeOK, Goto, Leave, ProducerLabels, ConsumerLabels, flow,
      parent, orion, smoke
<1>9. ASSUME NEW c \in Children, Paused(c) PROVE TypeOK'
  BY <1>9 DEF Paused, CGoes, AfterPause, InT, TypeOK, Goto, ProducerLabels, ConsumerLabels, flow,
      parent, background, orion, smoke
<1>10. ASSUME NEW c \in Children, PauseTimesOut(c) PROVE TypeOK'
  BY <1>10 DEF PauseTimesOut, CFails, Throw, InT, TypeOK, Goto, Leave, ProducerLabels,
      ConsumerLabels, flow, parent, background, orion, smoke
<1>11. ASSUME NEW c \in Children, ResumeSignal(c) PROVE TypeOK'
  BY <1>11, SMTT(30) DEF ResumeSignal, Throw, Sigcont, TypeOK, Goto, Leave, ProducerLabels, ConsumerLabels,
      flow, parent, orion, smoke
<1>12. ASSUME NEW c \in Children, Resumed(c) PROVE TypeOK'
  BY <1>12 DEF Resumed, CGoes, AfterResume, InT, TypeOK, Goto, ProducerLabels, ConsumerLabels,
      flow, parent, background, orion, smoke
<1>13. ASSUME NEW c \in Children, ResumeTimesOut(c) PROVE TypeOK'
  BY <1>13 DEF ResumeTimesOut, CFails, Throw, InT, TypeOK, Goto, Leave, ProducerLabels,
      ConsumerLabels, flow, parent, background, orion, smoke
<1>14. CASE Arrive
  BY <1>14 DEF Arrive, CGoes, TypeOK, Goto, ProducerLabels, ConsumerLabels, flow, parent,
      background, orion, smoke
<1>15. CASE Begin
  <2>1. sent' \in 0 .. Total
    <3>1. sent' \in {sent, sent + 1} /\ (sent' # sent => sent < Total)
      BY <1>15 DEF Begin, CGoes, Transmit, flow, Counts, Unsent, Dependent, TypeOK
    <3>2. QED
      BY <3>1 DEF TypeOK
  <2>2. /\ pc' \in [Children -> ProducerLabels \cup ConsumerLabels]
        /\ pc'[P] \in ProducerLabels /\ pc'[C] \in ConsumerLabels
    BY <1>15 DEF Begin, CGoes, Transmit, AfterPublish, TypeOK, Goto, Leave, ProducerLabels,
      ConsumerLabels
  <2>3. status' \in [Children -> {Running, 0, 2, 3, 4, 5, Broken, Crashed}]
    BY <1>15 DEF Begin, CGoes, Transmit, TypeOK, Goto, Leave
  <2>4. UNCHANGED <<run, taken, acked, acks, activation, results, parent, background,
                    orion, smoke>>
    BY <1>15 DEF Begin, CGoes, Transmit, flow
  <2>5. QED
    BY <2>1, <2>2, <2>3, <2>4 DEF TypeOK, parent, background, orion, smoke
<1>16. CASE Produce
  BY <1>16 DEF Produce, Counts, Unsent, Dependent, TypeOK, Goto, ProducerLabels, ConsumerLabels,
      parent, background, orion, smoke
<1>17. CASE Publish
  <2>1. sent' \in 0 .. Total
    <3>1. sent' \in {sent, sent + 1} /\ (sent' # sent => sent < Total)
      BY <1>17 DEF Publish, CGoes, Transmit, flow, Counts, Unsent, Dependent, TypeOK
    <3>2. QED
      BY <3>1 DEF TypeOK
  <2>2. /\ pc' \in [Children -> ProducerLabels \cup ConsumerLabels]
        /\ pc'[P] \in ProducerLabels /\ pc'[C] \in ConsumerLabels
    BY <1>17 DEF Publish, CGoes, Transmit, AfterPublish, TypeOK, Goto, Leave, ProducerLabels,
      ConsumerLabels
  <2>3. status' \in [Children -> {Running, 0, 2, 3, 4, 5, Broken, Crashed}]
    BY <1>17 DEF Publish, CGoes, Transmit, TypeOK, Goto, Leave
  <2>4. UNCHANGED <<run, taken, acked, acks, activation, results, parent, background,
                    orion, smoke>>
    BY <1>17 DEF Publish, CGoes, Transmit, flow
  <2>5. QED
    BY <2>1, <2>2, <2>3, <2>4 DEF TypeOK, parent, background, orion, smoke
<1>18. CASE ReadAck
  BY <1>18 DEF ReadAck, Counts, Unsent, Dependent, TypeOK, Goto, ProducerLabels, ConsumerLabels,
      parent, background, orion, smoke
<1>19. CASE NoAck
  BY <1>19 DEF NoAck, Throw, TypeOK, Goto, Leave, ProducerLabels, ConsumerLabels, flow, parent,
      background, orion, smoke
<1>20. CASE ProducerEnds
  BY <1>20 DEF ProducerEnds, TypeOK, Goto, Leave, ProducerLabels, ConsumerLabels, flow, parent,
      background, orion, smoke
<1>21. CASE StartThread
  BY <1>21 DEF StartThread, TypeOK, ProducerLabels, ConsumerLabels, flow, parent, background,
      orion, smoke
<1>22. CASE ThreadReady
  BY <1>22 DEF ThreadReady, CGoes, TypeOK, Goto, ProducerLabels, ConsumerLabels, flow, parent,
      background, orion, smoke
<1>23. CASE ThreadNotReady
  BY <1>23 DEF ThreadNotReady, CGoes, TypeOK, Goto, ProducerLabels, ConsumerLabels, flow, parent,
      background, orion, smoke
<1>24. CASE Shutdown
  BY <1>24 DEF Shutdown, TypeOK, ProducerLabels, ConsumerLabels, flow, parent, background, orion,
      smoke
<1>25. CASE Join
  BY <1>25 DEF Join, TypeOK, Leave, ProducerLabels, ConsumerLabels, flow, parent, background,
      orion, smoke
<1>26. CASE Register
  BY <1>26 DEF Register, WGoes, TypeOK, ProducerLabels, ConsumerLabels, flow, parent, background,
      orion, smoke
<1>27. CASE Predicate
  <2>1. /\ worker' \in {"woken", "dozing"}
        /\ UNCHANGED <<run, pc, status, flow, parent, background, started, quit, completed, smoke>>
    BY <1>27 DEF Predicate, WGoes
  <2>2. QED
    BY <2>1 DEF TypeOK, flow, parent, background, smoke
<1>28. CASE Park
  BY <1>28 DEF Park, WGoes, TypeOK, ProducerLabels, ConsumerLabels, flow, parent, background,
      orion, smoke
<1>29. CASE Woken
  BY <1>29 DEF Woken, WGoes, TypeOK, ProducerLabels, ConsumerLabels, flow, parent, background,
      orion, smoke
<1>30. CASE Work
  <2>1. /\ worker' \in {"ended", worker} /\ completed' \in {TRUE, completed}
        /\ UNCHANGED <<run, pc, status, flow, parent, background, started, quit, smoke>>
    BY <1>30 DEF Work
  <2>2. completed' \in BOOLEAN
    BY <2>1 DEF TypeOK
  <2>3. QED
    BY <2>1, <2>2 DEF TypeOK, flow, parent, background, smoke
<1>31. CASE Receive
  BY <1>31 DEF Receive, Counts, Unsent, Dependent, TypeOK, Goto, ProducerLabels, ConsumerLabels,
      parent, background, orion, smoke
<1>32. CASE NoTransfer
  BY <1>32 DEF NoTransfer, TypeOK, Leave, ProducerLabels, ConsumerLabels, flow, parent, background,
      orion, smoke
<1>33. CASE Consume
  BY <1>33 DEF Consume, CGoes, TypeOK, Goto, ProducerLabels, ConsumerLabels, flow, parent,
      background, orion, smoke
<1>34. CASE Report
  <2>1. results' \in Seq(Requests \cup {NoRequest})
    <3>1. results' \in {results, Append(results, activation), Append(results, InHand)}
      BY <1>34 DEF Report
    <3>2. /\ activation \in Requests \cup {NoRequest}
          /\ InHand \in Requests \cup {NoRequest}
          /\ results \in Seq(Requests \cup {NoRequest})
      BY DEF InHand, TypeOK
    <3>3. QED
      BY <3>1, <3>2, AppendTyped
  <2>2. QED
    BY <1>34, <2>1 DEF Report, TypeOK, Goto, Leave, ProducerLabels, ConsumerLabels, parent, background,
      orion, smoke
<1>35. CASE Ack
  BY <1>35 DEF Ack, Counts, Unsent, Dependent, TypeOK, Goto, Leave, ProducerLabels, ConsumerLabels,
      parent, background, orion, smoke
<1>36. CASE SeesReady
  BY <1>36 DEF SeesReady, MGoes, TypeOK, ProducerLabels, ConsumerLabels, flow, background, orion,
      smoke
<1>37. CASE NotReady
  BY <1>37 DEF NotReady, MGoes, TypeOK, ProducerLabels, ConsumerLabels, flow, background, orion,
      smoke
<1>38. CASE GoProducer
  BY <1>38 DEF GoProducer, GiveGo, TypeOK, ProducerLabels, ConsumerLabels, flow, background, orion,
      smoke
<1>39. CASE GoConsumer
  BY <1>39 DEF GoConsumer, GiveGo, TypeOK, ProducerLabels, ConsumerLabels, flow, background, orion,
      smoke
<1>40. CASE Collect
  BY <1>40 DEF Collect, TypeOK, ProducerLabels, ConsumerLabels, flow, background, orion, smoke
<1>41. CASE CollectEnds
  BY <1>41 DEF CollectEnds, MGoes, TypeOK, ProducerLabels, ConsumerLabels, flow, background, orion,
      smoke
<1>42. CASE CollectTimesOut
  BY <1>42 DEF CollectTimesOut, MGoes, TypeOK, ProducerLabels, ConsumerLabels, flow, background,
      orion, smoke
<1>43. CASE Reap
  BY <1>43 DEF Reap, Complete, TypeOK, ProducerLabels, ConsumerLabels, flow, background, orion,
      smoke
<1>44. CASE Raise
  BY <1>44 DEF Raise, TypeOK, ProducerLabels, ConsumerLabels, flow, parent, orion, smoke
<1>45. CASE Honor
  <2>1. /\ bpc' = "raise"
        /\ UNCHANGED <<run, pc, status, flow, parent, halt, stop, served, bstatus, orion, smoke>>
    BY <1>45 DEF Honor
  <2>2. pause' \in BOOLEAN
    BY <1>45 DEF Honor
  <2>3. QED
    BY <2>1, <2>2 DEF TypeOK, flow, parent, orion, smoke
<1>46. CASE Look
  BY <1>46 DEF Look, BGoes, TypeOK, ProducerLabels, ConsumerLabels, flow, parent, orion, smoke
<1>47. CASE Proceed
  <2>1. /\ bpc' \in {"top", "infer"}
        /\ UNCHANGED <<run, pc, status, flow, parent, halt, pause, stop, served, bstatus, orion, smoke>>
    BY <1>47 DEF Proceed, BGoes
  <2>2. QED
    BY <2>1 DEF TypeOK, flow, parent, orion, smoke
<1>48. CASE Infer
  BY <1>48 DEF Infer, TypeOK, ProducerLabels, ConsumerLabels, flow, parent, orion, smoke
<1>49. CASE BLeaves
  BY <1>49 DEF BLeaves, BEnds, TypeOK, ProducerLabels, ConsumerLabels, flow, parent, orion, smoke
<1>50. CASE Kernel
  BY <1>50 DEF Kernel, TypeOK, ProducerLabels, ConsumerLabels, flow, parent, orion, smoke
<1>51. CASE Launch
  BY <1>51 DEF Launch, InT, TypeOK, ProducerLabels, ConsumerLabels, flow, orion
<1>52. CASE NoLaunch
  BY <1>52 DEF NoLaunch, InT, TypeOK, ProducerLabels, ConsumerLabels, flow, parent, background,
      orion
<1>53. CASE PipelineEnds
  BY <1>53 DEF PipelineEnds, TypeOK, ProducerLabels, ConsumerLabels, flow, parent, background,
      orion
<1>54. CASE StopBackground
  <2>1. /\ bpc' \in {bpc, "gone"} /\ bstatus' \in {bstatus, "error"} /\ driver' = "reap"
        /\ UNCHANGED <<run, pc, status, flow, parent, pause, served, orion, outcome>>
    BY <1>54 DEF StopBackground
  <2>2. halt' \in {"run", "stopping", "stopped", "waking"}
    BY <1>54 DEF StopBackground, Sigcont, TypeOK
  <2>3. stop' \in BOOLEAN
    BY <1>54 DEF StopBackground, TypeOK
  <2>4. QED
    BY <2>1, <2>2, <2>3 DEF TypeOK, flow, parent, orion
<1>55. CASE KillBackground
  BY <1>55 DEF KillBackground, TypeOK, ProducerLabels, ConsumerLabels, flow, parent, orion, smoke
<1>56. CASE DriverEnds
  BY <1>56 DEF DriverEnds, TypeOK, ProducerLabels, ConsumerLabels, flow, parent, background, orion
<1>57. CASE ProduceFails
  BY <1>57 DEF ProduceFails, CFails, Throw, TypeOK, Goto, Leave, ProducerLabels, ConsumerLabels,
      flow, parent, background, orion, smoke
<1>58. CASE ConsumeFails
  BY <1>58 DEF ConsumeFails, CFails, Throw, TypeOK, Goto, Leave, ProducerLabels, ConsumerLabels,
      flow, parent, background, orion, smoke
<1>59. CASE BThrows
  BY <1>59 DEF BThrows, BEnds, TypeOK, ProducerLabels, ConsumerLabels, flow, parent, orion, smoke
<1>60. CASE RegisterFails
  BY <1>60 DEF RegisterFails, WGoes, TypeOK, ProducerLabels, ConsumerLabels, flow, parent,
      background, orion, smoke
<1>61. CASE WorkFails
  BY <1>61 DEF WorkFails, WGoes, TypeOK, ProducerLabels, ConsumerLabels, flow, parent, background,
      orion, smoke
<1>62. CASE PipelineTimesOut
  BY <1>62 DEF PipelineTimesOut, TypeOK, ProducerLabels, ConsumerLabels, flow, background, orion
<1>63. CASE UNCHANGED vars
  BY <1>63 DEF vars, TypeOK, flow, parent, background, orion, smoke
<1>64. QED
  BY <1>1, <1>2, <1>3, <1>4, <1>5, <1>6, <1>7, <1>8, <1>9, <1>10, <1>11, <1>12,
     <1>13, <1>14, <1>15, <1>16, <1>17, <1>18, <1>19, <1>20, <1>21, <1>22, <1>23,
     <1>24, <1>25, <1>26, <1>27, <1>28, <1>29, <1>30, <1>31, <1>32, <1>33, <1>34,
     <1>35, <1>36, <1>37, <1>38, <1>39, <1>40, <1>41, <1>42, <1>43, <1>44, <1>45,
     <1>46, <1>47, <1>48, <1>49, <1>50, <1>51, <1>52, <1>53, <1>54, <1>55, <1>56,
     <1>57, <1>58, <1>59, <1>60, <1>61, <1>62, <1>63
  DEF Next, ProducerSteps, ThreadSteps, ConsumerSteps, MainSteps, BackgroundSteps,
      DriverSteps, Mishaps, ChildSteps, GateSteps, Finished

\* What main and the driver conclude, and when.
LEMMA VerdictsStep ==
  ASSUME TypeOK, Counts, Verdicts, [Next]_vars
  PROVE  Verdicts'
<1>0. /\ collected \in Int /\ Len(results) \in Int /\ Total \in Int
      /\ results \in Seq(Requests \cup {NoRequest})
      /\ collected <= Total /\ Len(results) <= Total /\ Len(results) <= Len(results')
      /\ Lives
  <2>1. /\ Len(results) \in Int /\ Len(results) <= Total
        /\ collected \in Int /\ collected <= Total /\ Total \in Int
        /\ results \in Seq(Requests \cup {NoRequest})
    BY DEF TypeOK, Counts
  <2>2. results' = results \/ \E e \in Int : results' = Append(results, e)
    <3>1. activation \in Int /\ InHand \in Int
      BY DEF TypeOK, InHand
    <3>2. QED
      BY <3>1, Moves DEF Carries, Quiet, Sends, Produce, ReadAck, Receive, Report, Ack, flow
  <2>3. Len(results) <= Len(results')
    BY <2>1, <2>2
  <2>4. QED
    BY <2>1, <2>3, Moves
<1>1. ASSUME NEW c \in Children, InitCuda(c) PROVE Verdicts'
  BY <1>1, <1>0 DEF InitCuda, CGoes, Verdicts, TypeOK, Goto, flow, parent, background, orion, smoke
<1>2. ASSUME NEW c \in Children, InitFails(c) PROVE Verdicts'
  BY <1>2, <1>0 DEF InitFails, Verdicts, TypeOK, Leave, flow, background, orion, smoke
<1>3. ASSUME NEW c \in Children, Setup(c) PROVE Verdicts'
  BY <1>3, <1>0 DEF Setup, Verdicts, TypeOK, Goto, Leave, flow, background, orion, smoke
<1>4. ASSUME NEW c \in Children, SetupFails(c) PROVE Verdicts'
  BY <1>4, <1>0 DEF SetupFails, CFails, Throw, Verdicts, TypeOK, Goto, Leave, flow, parent, background,
      orion, smoke
<1>5. ASSUME NEW c \in Children, ReadGo(c) PROVE Verdicts'
  BY <1>5, <1>0 DEF ReadGo, Verdicts, TypeOK, Goto, flow, parent, background, orion, smoke
<1>6. ASSUME NEW c \in Children, NoGo(c) PROVE Verdicts'
  BY <1>6, <1>0 DEF NoGo, Throw, Verdicts, TypeOK, Goto, Leave, flow, parent, background, orion, smoke
<1>7. ASSUME NEW c \in Children, Crash(c) PROVE Verdicts'
  BY <1>7, <1>0 DEF Crash, Alive, Verdicts, TypeOK, Leave, flow, parent, background, orion, smoke
<1>8. ASSUME NEW c \in Children, PauseSignal(c) PROVE Verdicts'
  BY <1>8, <1>0 DEF PauseSignal, Throw, InT, Verdicts, TypeOK, Goto, Leave, flow, parent, orion, smoke
<1>9. ASSUME NEW c \in Children, Paused(c) PROVE Verdicts'
  BY <1>9, <1>0 DEF Paused, CGoes, AfterPause, InT, Verdicts, TypeOK, Goto, flow, parent, background,
      orion, smoke
<1>10. ASSUME NEW c \in Children, PauseTimesOut(c) PROVE Verdicts'
  BY <1>10, <1>0 DEF PauseTimesOut, CFails, Throw, InT, Verdicts, TypeOK, Goto, Leave, flow, parent,
      background, orion, smoke
<1>11. ASSUME NEW c \in Children, ResumeSignal(c) PROVE Verdicts'
  BY <1>11, <1>0 DEF ResumeSignal, Throw, Sigcont, Verdicts, TypeOK, Goto, Leave, flow, parent, orion,
      smoke
<1>12. ASSUME NEW c \in Children, Resumed(c) PROVE Verdicts'
  BY <1>12, <1>0 DEF Resumed, CGoes, AfterResume, InT, Verdicts, TypeOK, Goto, flow, parent, background,
      orion, smoke
<1>13. ASSUME NEW c \in Children, ResumeTimesOut(c) PROVE Verdicts'
  BY <1>13, <1>0 DEF ResumeTimesOut, CFails, Throw, InT, Verdicts, TypeOK, Goto, Leave, flow, parent,
      background, orion, smoke
<1>14. CASE Arrive
  BY <1>14, <1>0 DEF Arrive, CGoes, Verdicts, TypeOK, Goto, flow, parent, background, orion, smoke
<1>15. CASE Begin
  BY <1>15, <1>0 DEF Begin, CGoes, Transmit, Dependent, Verdicts, TypeOK, Goto, Leave, flow, parent,
      background, orion, smoke
<1>16. CASE Produce
  BY <1>16, <1>0 DEF Produce, Verdicts, TypeOK, Goto, parent, background, orion, smoke
<1>17. CASE Publish
  BY <1>17, <1>0 DEF Publish, CGoes, Transmit, AfterPublish, Dependent, Verdicts, TypeOK, Goto, Leave,
      flow, parent, background, orion, smoke
<1>18. CASE ReadAck
  BY <1>18, <1>0 DEF ReadAck, Verdicts, TypeOK, Goto, parent, background, orion, smoke
<1>19. CASE NoAck
  BY <1>19, <1>0 DEF NoAck, Throw, Verdicts, TypeOK, Goto, Leave, flow, parent, background, orion, smoke
<1>20. CASE ProducerEnds
  BY <1>20, <1>0 DEF ProducerEnds, Verdicts, TypeOK, Goto, Leave, flow, parent, background, orion, smoke
<1>21. CASE StartThread
  BY <1>21, <1>0 DEF StartThread, Verdicts, TypeOK, flow, parent, background, orion, smoke
<1>22. CASE ThreadReady
  BY <1>22, <1>0 DEF ThreadReady, CGoes, Verdicts, TypeOK, Goto, flow, parent, background, orion, smoke
<1>23. CASE ThreadNotReady
  BY <1>23, <1>0 DEF ThreadNotReady, CGoes, Verdicts, TypeOK, Goto, flow, parent, background, orion,
      smoke
<1>24. CASE Shutdown
  BY <1>24, <1>0 DEF Shutdown, Verdicts, TypeOK, flow, parent, background, smoke
<1>25. CASE Join
  BY <1>25, <1>0 DEF Join, Verdicts, TypeOK, Leave, flow, parent, background, smoke
<1>26. CASE Register
  BY <1>26, <1>0 DEF Register, WGoes, Verdicts, TypeOK, flow, parent, background, smoke
<1>27. CASE Predicate
  BY <1>27, <1>0 DEF Predicate, WGoes, Verdicts, TypeOK, flow, parent, background, smoke
<1>28. CASE Park
  BY <1>28, <1>0 DEF Park, WGoes, Verdicts, TypeOK, flow, parent, background, smoke
<1>29. CASE Woken
  BY <1>29, <1>0 DEF Woken, WGoes, Verdicts, TypeOK, flow, parent, background, smoke
<1>30. CASE Work
  BY <1>30, <1>0 DEF Work, Verdicts, TypeOK, flow, parent, background, smoke
<1>31. CASE Receive
  BY <1>31, <1>0 DEF Receive, Verdicts, TypeOK, Goto, parent, background, orion, smoke
<1>32. CASE NoTransfer
  BY <1>32, <1>0 DEF NoTransfer, Verdicts, TypeOK, Leave, flow, parent, background, orion, smoke
<1>33. CASE Consume
  BY <1>33, <1>0 DEF Consume, CGoes, Verdicts, TypeOK, Goto, flow, parent, background, orion, smoke
<1>34. CASE Report
  BY <1>34, <1>0 DEF Report, Verdicts, TypeOK, Goto, Leave, parent, background, orion, smoke
<1>35. CASE Ack
  BY <1>35, <1>0 DEF Ack, Verdicts, TypeOK, Goto, Leave, parent, background, orion, smoke
<1>36. CASE SeesReady
  BY <1>36, <1>0 DEF SeesReady, MGoes, Verdicts, TypeOK, flow, background, orion, smoke
<1>37. CASE NotReady
  BY <1>37, <1>0 DEF NotReady, MGoes, Verdicts, TypeOK, flow, background, orion, smoke
<1>38. CASE GoProducer
  BY <1>38, <1>0 DEF GoProducer, GiveGo, Verdicts, TypeOK, flow, background, orion, smoke
<1>39. CASE GoConsumer
  BY <1>39, <1>0 DEF GoConsumer, GiveGo, Verdicts, TypeOK, flow, background, orion, smoke
<1>40. CASE Collect
  BY <1>40, <1>0 DEF Collect, Verdicts, TypeOK, flow, background, orion, smoke
<1>41. CASE CollectEnds
  BY <1>41, <1>0 DEF CollectEnds, MGoes, Verdicts, TypeOK, flow, background, orion, smoke
<1>42. CASE CollectTimesOut
  BY <1>42, <1>0 DEF CollectTimesOut, MGoes, Verdicts, TypeOK, flow, background, orion, smoke
<1>43. CASE Reap
  <2>1. /\ main = "reap" /\ main' = "gone" /\ verdict' \in {"ok", "failed"}
        /\ \A c \in Children : ~Alive(c)
        /\ UNCHANGED <<run, pc, status, flow, ready, go, collected, background, orion, smoke>>
        /\ verdict' = "ok" => collected = Total
    BY <1>43 DEF Reap, Complete
  <2>2. /\ driver # "barrier" /\ verdict = "none"
        /\ \A c \in Children : pc[c] = "gone"
    BY <2>1 DEF Verdicts, Alive
  <2>3. verdict' = "ok" => Len(results) = Total
    BY <1>0, <2>1 DEF Verdicts
  <2>4. QED
    BY <1>0, <2>1, <2>2, <2>3 DEF Verdicts, flow, smoke
<1>44. CASE Raise
  BY <1>44, <1>0 DEF Raise, Verdicts, TypeOK, flow, parent, orion, smoke
<1>45. CASE Honor
  BY <1>45, <1>0 DEF Honor, Verdicts, TypeOK, flow, parent, orion, smoke
<1>46. CASE Look
  BY <1>46, <1>0 DEF Look, BGoes, Verdicts, TypeOK, flow, parent, orion, smoke
<1>47. CASE Proceed
  BY <1>47, <1>0 DEF Proceed, BGoes, Verdicts, TypeOK, flow, parent, orion, smoke
<1>48. CASE Infer
  BY <1>48, <1>0 DEF Infer, Verdicts, TypeOK, flow, parent, orion, smoke
<1>49. CASE BLeaves
  BY <1>49, <1>0 DEF BLeaves, BEnds, Verdicts, TypeOK, flow, parent, orion, smoke
<1>50. CASE Kernel
  BY <1>50, <1>0 DEF Kernel, Verdicts, TypeOK, flow, parent, orion, smoke
<1>51. CASE Launch
  BY <1>51, <1>0 DEF Launch, InT, Verdicts, TypeOK, flow, orion
<1>52. CASE NoLaunch
  BY <1>52, <1>0 DEF NoLaunch, InT, Verdicts, TypeOK, flow, parent, background, orion
<1>53. CASE PipelineEnds
  BY <1>53, <1>0 DEF PipelineEnds, Verdicts, TypeOK, flow, parent, background, orion
<1>54. CASE StopBackground
  BY <1>54, <1>0 DEF StopBackground, Sigcont, Verdicts, TypeOK, flow, parent, orion
<1>55. CASE KillBackground
  BY <1>55, <1>0 DEF KillBackground, Verdicts, TypeOK, flow, parent, orion, smoke
<1>56. CASE DriverEnds
  BY <1>56, <1>0 DEF DriverEnds, Verdicts, TypeOK, flow, parent, background, orion
<1>57. CASE ProduceFails
  BY <1>57, <1>0 DEF ProduceFails, CFails, Throw, Verdicts, TypeOK, Goto, Leave, flow, parent,
      background, orion, smoke
<1>58. CASE ConsumeFails
  BY <1>58, <1>0 DEF ConsumeFails, CFails, Throw, Verdicts, TypeOK, Goto, Leave, flow, parent,
      background, orion, smoke
<1>59. CASE BThrows
  BY <1>59, <1>0 DEF BThrows, BEnds, Verdicts, TypeOK, flow, parent, orion, smoke
<1>60. CASE RegisterFails
  BY <1>60, <1>0 DEF RegisterFails, WGoes, Verdicts, TypeOK, flow, parent, background, smoke
<1>61. CASE WorkFails
  BY <1>61, <1>0 DEF WorkFails, WGoes, Verdicts, TypeOK, flow, parent, background, smoke
<1>62. CASE PipelineTimesOut
  BY <1>62, <1>0 DEF PipelineTimesOut, Verdicts, TypeOK, flow, background, orion
<1>63. CASE UNCHANGED vars
  BY <1>63, <1>0 DEF vars, Verdicts, TypeOK, flow, parent, background, orion, smoke
<1>64. QED
  BY <1>1, <1>2, <1>3, <1>4, <1>5, <1>6, <1>7, <1>8, <1>9, <1>10, <1>11, <1>12,
     <1>13, <1>14, <1>15, <1>16, <1>17, <1>18, <1>19, <1>20, <1>21, <1>22, <1>23,
     <1>24, <1>25, <1>26, <1>27, <1>28, <1>29, <1>30, <1>31, <1>32, <1>33, <1>34,
     <1>35, <1>36, <1>37, <1>38, <1>39, <1>40, <1>41, <1>42, <1>43, <1>44, <1>45,
     <1>46, <1>47, <1>48, <1>49, <1>50, <1>51, <1>52, <1>53, <1>54, <1>55, <1>56,
     <1>57, <1>58, <1>59, <1>60, <1>61, <1>62, <1>63
  DEF Next, ProducerSteps, ThreadSteps, ConsumerSteps, MainSteps, BackgroundSteps,
      DriverSteps, Mishaps, ChildSteps, GateSteps, Finished

\* The gate stays shut around the stages it protects, and is never on its way open
\* when the next pause polls for it.
LEMMA GateStep ==
  ASSUME TypeOK, Counts, Verdicts, GateInv, [Next]_vars
  PROVE  GateInv'
<1>0. /\ acks \in Int /\ acked \in Int /\ taken \in Int /\ sent \in Int
      /\ Len(results) \in Int /\ run \in Runs
  BY DEF TypeOK
<1>1. ASSUME NEW c \in Children, InitCuda(c) PROVE GateInv'
  BY <1>1, <1>0 DEF InitCuda, CGoes, GateInv, Shut, Calm, Held, Closes, Gated, Dependent, Counts,
      Unsent, Passed, TypeOK, ProducerLabels, ConsumerLabels, Goto, flow, parent,
      background, orion, smoke
<1>2. ASSUME NEW c \in Children, InitFails(c) PROVE GateInv'
  BY <1>2, <1>0 DEF InitFails, GateInv, Shut, Calm, Held, Closes, Gated, Dependent, Counts, Unsent,
      Passed, TypeOK, ProducerLabels, ConsumerLabels, Leave, flow, background,
      orion, smoke
<1>3. ASSUME NEW c \in Children, Setup(c) PROVE GateInv'
  BY <1>3, <1>0 DEF Setup, GateInv, Shut, Calm, Held, Closes, Gated, Dependent, Counts, Unsent, Passed,
      TypeOK, ProducerLabels, ConsumerLabels, Goto, Leave, flow, background, orion,
      smoke
<1>4. ASSUME NEW c \in Children, SetupFails(c) PROVE GateInv'
  BY <1>4, <1>0 DEF SetupFails, CFails, Throw, GateInv, Shut, Calm, Held, Closes, Gated, Dependent,
      Counts, Unsent, Passed, TypeOK, ProducerLabels, ConsumerLabels, Goto, Leave,
      flow, parent, background, orion, smoke
<1>5. ASSUME NEW c \in Children, ReadGo(c) PROVE GateInv'
  BY <1>5, <1>0 DEF ReadGo, GateInv, Shut, Calm, Held, Closes, Gated, Dependent, Counts, Unsent, Passed,
      TypeOK, ProducerLabels, ConsumerLabels, Goto, flow, parent, background, orion,
      smoke
<1>6. ASSUME NEW c \in Children, NoGo(c) PROVE GateInv'
  BY <1>6, <1>0 DEF NoGo, Throw, GateInv, Shut, Calm, Held, Closes, Gated, Dependent, Counts, Unsent,
      Passed, TypeOK, ProducerLabels, ConsumerLabels, Goto, Leave, flow, parent,
      background, orion, smoke
<1>7. ASSUME NEW c \in Children, Crash(c) PROVE GateInv'
  BY <1>7, <1>0 DEF Crash, Alive, GateInv, Shut, Calm, Held, Closes, Gated, Dependent, Counts, Unsent,
      Passed, TypeOK, ProducerLabels, ConsumerLabels, Leave, flow, parent,
      background, orion, smoke
<1>8. ASSUME NEW c \in Children, PauseSignal(c) PROVE GateInv'
  <2>1. /\ c = P /\ pc[P] = "pause" /\ pc'[P] \in {"pausing", "gone", "unwind"}
        /\ pc'[C] = pc[C] /\ (driver = "pipeline" => pc'[P] = "pausing")
        /\ UNCHANGED <<run, flow, bpc, main, driver>>
    BY <1>8 DEF PauseSignal, Throw, Goto, Leave, TypeOK, ConsumerLabels, parent, smoke
  <2>2. halt' = halt \/ (run.mode = "stop" /\ halt = "run" /\ halt' = "stopping" /\ bpc # "gone")
    BY <1>8 DEF PauseSignal
  <2>3. main # "off" /\ driver # "barrier" /\ Gated
    BY <2>1 DEF Verdicts, GateInv
  <2>4. sent = acks /\ taken = sent /\ Len(results) = taken /\ acked = acks
    BY <1>0, <2>1 DEF Counts, Unsent
  <2>5. Calm
    BY <1>0, <2>1, <2>4 DEF Calm, Shut, Counts
  <2>6. driver = "pipeline" => ~Shut'
    BY <1>0, <2>1, <2>4 DEF Shut, Closes, Dependent, Counts, flow
  <2>7. QED
    BY <2>1, <2>2, <2>3, <2>5, <2>6 DEF GateInv, Closes, Gated
<1>9. ASSUME NEW c \in Children, Paused(c) PROVE GateInv'
  BY <1>9, <1>0 DEF Paused, CGoes, AfterPause, InT, GateInv, Shut, Calm, Held, Closes, Gated, Dependent,
      Counts, Unsent, Passed, TypeOK, ProducerLabels, ConsumerLabels, Goto, flow,
      parent, background, orion, smoke
<1>10. ASSUME NEW c \in Children, PauseTimesOut(c) PROVE GateInv'
  BY <1>10, <1>0 DEF PauseTimesOut, CFails, Throw, InT, GateInv, Shut, Calm, Held, Closes, Gated,
      Dependent, Counts, Unsent, Passed, TypeOK, ProducerLabels, ConsumerLabels,
      Goto, Leave, flow, parent, background, orion, smoke
<1>11. ASSUME NEW c \in Children, ResumeSignal(c) PROVE GateInv'
  <2>1. /\ pc[c] = "resume" /\ halt' = Sigcont
        /\ UNCHANGED <<run, flow, main, bpc, driver>>
    BY <1>11 DEF ResumeSignal, parent, smoke
  <2>2. driver = "pipeline" => pc' = [pc EXCEPT ![c] = "resuming"]
    BY <1>11 DEF ResumeSignal, Goto
  <2>3. /\ pc'[P] \notin {"pause", "pausing", "resume"} \/ pc'[P] = pc[P]
        /\ pc'[P] = "resuming" => pc[P] \in {"resuming", "resume"}
        /\ pc'[C] \in {"resume", "resuming"} => pc[C] \in {"resuming", "resume"}
    BY <1>11 DEF ResumeSignal, Throw, Goto, Leave, TypeOK
  <2>4. ASSUME driver = "pipeline", Gated PROVE ~Shut' /\ ~Calm'
    <3>1. CASE c = P
      <4>1. run.scope = "producer" /\ pc'[P] = "resuming" /\ acks < sent
        BY <2>1, <2>2, <2>4, <3>1 DEF GateInv, Counts, Passed, TypeOK
      <4>2. QED
        BY <1>0, <2>1, <4>1 DEF Shut, Calm, Closes, Dependent, flow
    <3>2. CASE c = C
      <4>1. Closes /\ pc'[C] = "resuming" /\ pc'[P] = pc[P] /\ Len(results) < taken
        BY <2>1, <2>2, <2>4, <3>2 DEF GateInv, Counts, TypeOK
      <4>2. sent = acks + 1 /\ taken = sent /\ acked = acks
        BY <1>0, <4>1 DEF Counts
      <4>3. ~Unsent
        BY <4>2, <1>0 DEF Counts
      <4>4. QED
        BY <1>0, <2>1, <4>1, <4>2, <4>3 DEF Shut, Calm, Closes, Dependent, Unsent, Passed, Counts, flow, Runs, TypeOK
    <3>3. QED
      BY <3>1, <3>2
  <2>5. QED
    <3>1. driver # "barrier" /\ main # "off"
      BY <2>1 DEF Verdicts
    <3>2. QED
      BY <2>1, <2>3, <2>4, <3>1 DEF GateInv, Sigcont, Closes, Gated, TypeOK
<1>12. ASSUME NEW c \in Children, Resumed(c) PROVE GateInv'
  BY <1>12, <1>0 DEF Resumed, CGoes, AfterResume, InT, GateInv, Shut, Calm, Held, Closes, Gated,
      Dependent, Counts, Unsent, Passed, TypeOK, ProducerLabels, ConsumerLabels,
      Goto, flow, parent, background, orion, smoke
<1>13. ASSUME NEW c \in Children, ResumeTimesOut(c) PROVE GateInv'
  BY <1>13, <1>0 DEF ResumeTimesOut, CFails, Throw, InT, GateInv, Shut, Calm, Held, Closes, Gated,
      Dependent, Counts, Unsent, Passed, TypeOK, ProducerLabels, ConsumerLabels,
      Goto, Leave, flow, parent, background, orion, smoke
<1>14. CASE Arrive
  BY <1>14, <1>0 DEF Arrive, CGoes, GateInv, Shut, Calm, Held, Closes, Gated, Dependent, Counts, Unsent,
      Passed, TypeOK, ProducerLabels, ConsumerLabels, Goto, flow, parent,
      background, orion, smoke
<1>15. CASE Begin
  <2>1. CASE Dependent
    BY <1>15, <1>0, <2>1 DEF Begin, CGoes, GateInv, Shut, Calm, Held, Closes, Gated, Dependent, Counts, Unsent,
      TypeOK, Goto, flow, parent, background, orion, smoke
  <2>2. CASE ~Dependent
    <3>1. /\ pc[P] = "begin" /\ pc'[P] \in {"infer", "gone"} /\ pc'[C] = pc[C]
          /\ sent' \in {sent, sent + 1} /\ (pc'[P] = "infer" => sent' = sent + 1)
          /\ UNCHANGED <<run, taken, acked, acks, main, background, driver>>
      BY <1>15, <2>2 DEF Begin, Transmit, Goto, Leave, TypeOK, parent, smoke
    <3>2. sent = acks /\ taken = acks /\ acked = acks /\ pc[C] \notin {"infer", "resume"}
      BY <1>0, <3>1 DEF Counts, Unsent
    <3>3. driver = "pipeline" /\ Gated /\ Shut' => Shut
      BY <2>2, <3>1, <3>2 DEF Shut, Closes, Dependent, Runs, TypeOK
    <3>4. driver = "pipeline" /\ Gated /\ Calm' => Calm \/ (Shut /\ halt # "waking")
      BY <2>2, <3>1, <3>2 DEF Shut, Calm, Closes, Dependent, GateInv, Held, background, Gated, Runs, Scopes,
      TypeOK
    <3>5. QED
      BY <3>1, <3>3, <3>4 DEF GateInv, Held, Closes, Gated, background
  <2>3. QED
    BY <2>1, <2>2
<1>16. CASE Produce
  BY <1>16, <1>0 DEF Produce, GateInv, Shut, Calm, Held, Closes, Gated, Dependent, Counts, Unsent,
      Passed, TypeOK, ProducerLabels, ConsumerLabels, Goto, parent, background,
      orion, smoke
<1>17. CASE Publish
  BY <1>17, <1>0 DEF Publish, CGoes, Transmit, AfterPublish, Dependent, GateInv, Shut, Calm, Held,
      Closes, Gated, Counts, Unsent, Passed, TypeOK, ProducerLabels, ConsumerLabels,
      Goto, Leave, flow, parent, background, orion, smoke
<1>18. CASE ReadAck
  <2>1. /\ pc[P] = "ack" /\ pc' = [pc EXCEPT ![P] = "arrive"]
        /\ acks < acked /\ acks' = acks + 1
        /\ UNCHANGED <<run, sent, taken, acked, results, background, main, driver>>
    BY <1>18 DEF ReadAck, Goto, parent, smoke
  <2>2. sent = acks + 1 /\ acked = sent /\ taken = sent /\ Len(results) = taken
    BY <1>0, <2>1 DEF Counts
  <2>3. pc'[P] = "arrive" /\ pc'[C] = pc[C] /\ pc[C] \notin {"infer", "resume"}
    BY <1>0, <2>1, <2>2 DEF TypeOK, Counts
  <2>4. driver = "pipeline" /\ Gated => halt # "waking"
    BY <2>1, <2>2 DEF GateInv, Calm, Closes, Gated, Runs, Scopes, TypeOK
  <2>5. ~Shut'
    BY <2>1, <2>2, <2>3 DEF Shut, Closes, Dependent
  <2>6. QED
    BY <2>1, <2>3, <2>4, <2>5 DEF GateInv, Held, Gated, Closes, background
<1>19. CASE NoAck
  BY <1>19, <1>0 DEF NoAck, Throw, GateInv, Shut, Calm, Held, Closes, Gated, Dependent, Counts, Unsent,
      Passed, TypeOK, ProducerLabels, ConsumerLabels, Goto, Leave, flow, parent,
      background, orion, smoke
<1>20. CASE ProducerEnds
  BY <1>20, <1>0 DEF ProducerEnds, GateInv, Shut, Calm, Held, Closes, Gated, Dependent, Counts, Unsent,
      Passed, TypeOK, ProducerLabels, ConsumerLabels, Goto, Leave, flow, parent,
      background, orion, smoke
<1>21. CASE StartThread
  BY <1>21, <1>0 DEF StartThread, GateInv, Shut, Calm, Held, Closes, Gated, Dependent, Counts, Unsent,
      Passed, TypeOK, ProducerLabels, ConsumerLabels, flow, parent, background,
      orion, smoke
<1>22. CASE ThreadReady
  BY <1>22, <1>0 DEF ThreadReady, CGoes, GateInv, Shut, Calm, Held, Closes, Gated, Dependent, Counts,
      Unsent, Passed, TypeOK, ProducerLabels, ConsumerLabels, Goto, flow, parent,
      background, orion, smoke
<1>23. CASE ThreadNotReady
  BY <1>23, <1>0 DEF ThreadNotReady, CGoes, GateInv, Shut, Calm, Held, Closes, Gated, Dependent, Counts,
      Unsent, Passed, TypeOK, ProducerLabels, ConsumerLabels, Goto, flow, parent,
      background, orion, smoke
<1>24. CASE Shutdown
  BY <1>24, <1>0 DEF Shutdown, GateInv, Shut, Calm, Held, Closes, Gated, Dependent, Counts, Unsent,
      Passed, TypeOK, ProducerLabels, ConsumerLabels, flow, parent, background,
      orion, smoke
<1>25. CASE Join
  BY <1>25, <1>0 DEF Join, GateInv, Shut, Calm, Held, Closes, Gated, Dependent, Counts, Unsent, Passed,
      TypeOK, ProducerLabels, ConsumerLabels, Leave, flow, parent, background,
      orion, smoke
<1>26. CASE Register
  BY <1>26, <1>0 DEF Register, WGoes, GateInv, Shut, Calm, Held, Closes, Gated, Dependent, Counts,
      Unsent, Passed, TypeOK, ProducerLabels, ConsumerLabels, flow, parent,
      background, orion, smoke
<1>27. CASE Predicate
  BY <1>27, <1>0 DEF Predicate, WGoes, GateInv, Shut, Calm, Held, Closes, Gated, Dependent, Counts,
      Unsent, Passed, TypeOK, ProducerLabels, ConsumerLabels, flow, parent,
      background, orion, smoke
<1>28. CASE Park
  BY <1>28, <1>0 DEF Park, WGoes, GateInv, Shut, Calm, Held, Closes, Gated, Dependent, Counts, Unsent,
      Passed, TypeOK, ProducerLabels, ConsumerLabels, flow, parent, background,
      orion, smoke
<1>29. CASE Woken
  BY <1>29, <1>0 DEF Woken, WGoes, GateInv, Shut, Calm, Held, Closes, Gated, Dependent, Counts, Unsent,
      Passed, TypeOK, ProducerLabels, ConsumerLabels, flow, parent, background,
      orion, smoke
<1>30. CASE Work
  BY <1>30, <1>0 DEF Work, GateInv, Shut, Calm, Held, Closes, Gated, Dependent, Counts, Unsent, Passed,
      TypeOK, ProducerLabels, ConsumerLabels, flow, parent, background, orion, smoke
<1>31. CASE Receive
  BY <1>31, <1>0 DEF Receive, GateInv, Shut, Calm, Held, Closes, Gated, Dependent, Counts, Unsent,
      Passed, TypeOK, ProducerLabels, ConsumerLabels, Goto, parent, background,
      orion, smoke
<1>32. CASE NoTransfer
  BY <1>32, <1>0 DEF NoTransfer, GateInv, Shut, Calm, Held, Closes, Gated, Dependent, Counts, Unsent,
      Passed, TypeOK, ProducerLabels, ConsumerLabels, Leave, flow, parent,
      background, orion, smoke
<1>33. CASE Consume
  BY <1>33, <1>0 DEF Consume, CGoes, GateInv, Shut, Calm, Held, Closes, Gated, Dependent, Counts, Unsent,
      Passed, TypeOK, ProducerLabels, ConsumerLabels, Goto, flow, parent,
      background, orion, smoke
<1>34. CASE Report
  BY <1>34, <1>0 DEF Report, GateInv, Shut, Calm, Held, Closes, Gated, Dependent, Counts, Unsent, Passed,
      TypeOK, ProducerLabels, ConsumerLabels, Goto, Leave, parent, background,
      orion, smoke
<1>35. CASE Ack
  BY <1>35, <1>0 DEF Ack, GateInv, Shut, Calm, Held, Closes, Gated, Dependent, Counts, Unsent, Passed,
      TypeOK, ProducerLabels, ConsumerLabels, Goto, Leave, parent, background,
      orion, smoke
<1>36. CASE SeesReady
  BY <1>36, <1>0 DEF SeesReady, MGoes, GateInv, Shut, Calm, Held, Closes, Gated, Dependent, Counts,
      Unsent, Passed, TypeOK, ProducerLabels, ConsumerLabels, flow, background,
      orion, smoke
<1>37. CASE NotReady
  BY <1>37, <1>0 DEF NotReady, MGoes, GateInv, Shut, Calm, Held, Closes, Gated, Dependent, Counts,
      Unsent, Passed, TypeOK, ProducerLabels, ConsumerLabels, flow, background,
      orion, smoke
<1>38. CASE GoProducer
  BY <1>38, <1>0 DEF GoProducer, GiveGo, GateInv, Shut, Calm, Held, Closes, Gated, Dependent, Counts,
      Unsent, Passed, TypeOK, ProducerLabels, ConsumerLabels, flow, background,
      orion, smoke
<1>39. CASE GoConsumer
  BY <1>39, <1>0 DEF GoConsumer, GiveGo, GateInv, Shut, Calm, Held, Closes, Gated, Dependent, Counts,
      Unsent, Passed, TypeOK, ProducerLabels, ConsumerLabels, flow, background,
      orion, smoke
<1>40. CASE Collect
  BY <1>40, <1>0 DEF Collect, GateInv, Shut, Calm, Held, Closes, Gated, Dependent, Counts, Unsent,
      Passed, TypeOK, ProducerLabels, ConsumerLabels, flow, background, orion, smoke
<1>41. CASE CollectEnds
  BY <1>41, <1>0 DEF CollectEnds, MGoes, GateInv, Shut, Calm, Held, Closes, Gated, Dependent, Counts,
      Unsent, Passed, TypeOK, ProducerLabels, ConsumerLabels, flow, background,
      orion, smoke
<1>42. CASE CollectTimesOut
  BY <1>42, <1>0 DEF CollectTimesOut, MGoes, GateInv, Shut, Calm, Held, Closes, Gated, Dependent, Counts,
      Unsent, Passed, TypeOK, ProducerLabels, ConsumerLabels, flow, background,
      orion, smoke
<1>43. CASE Reap
  BY <1>43, <1>0 DEF Reap, Complete, GateInv, Shut, Calm, Held, Closes, Gated, Dependent, Counts, Unsent,
      Passed, TypeOK, ProducerLabels, ConsumerLabels, flow, background, orion, smoke
<1>44. CASE Raise
  BY <1>44, <1>0 DEF Raise, GateInv, Shut, Calm, Held, Closes, Gated, Dependent, Counts, Unsent, Passed,
      TypeOK, ProducerLabels, ConsumerLabels, flow, parent, orion, smoke
<1>45. CASE Honor
  <2>1. /\ bpc = "top" /\ bpc' = "raise" /\ halt \in {"run", "stopping"}
        /\ UNCHANGED <<run, pc, flow, halt, main, driver>>
    BY <1>45 DEF Honor, BRuns, parent, smoke
  <2>2. QED
    BY <2>1 DEF GateInv, Shut, Calm, Held, Closes, Gated, Dependent, flow
<1>46. CASE Look
  BY <1>46, <1>0 DEF Look, BGoes, GateInv, Shut, Calm, Held, Closes, Gated, Dependent, Counts, Unsent,
      Passed, TypeOK, ProducerLabels, ConsumerLabels, flow, parent, orion, smoke
<1>47. CASE Proceed
  <2>1. /\ bpc' \in {"top", "infer"} /\ halt \in {"run", "stopping"} /\ bpc = "check"
        /\ UNCHANGED <<run, pc, flow, halt, driver>>
    BY <1>47 DEF Proceed, BGoes, BRuns, smoke
  <2>2. QED
    BY <2>1 DEF GateInv, Shut, Calm, Held, Closes, Gated, Dependent, flow
<1>48. CASE Infer
  BY <1>48, <1>0 DEF Infer, GateInv, Shut, Calm, Held, Closes, Gated, Dependent, Counts, Unsent, Passed,
      TypeOK, ProducerLabels, ConsumerLabels, flow, parent, orion, smoke
<1>49. CASE BLeaves
  BY <1>49, <1>0 DEF BLeaves, BEnds, GateInv, Shut, Calm, Held, Closes, Gated, Dependent, Counts, Unsent,
      Passed, TypeOK, ProducerLabels, ConsumerLabels, flow, parent, orion, smoke
<1>50. CASE Kernel
  BY <1>50, <1>0 DEF Kernel, GateInv, Shut, Calm, Held, Closes, Gated, Dependent, Counts, Unsent, Passed,
      TypeOK, ProducerLabels, ConsumerLabels, flow, parent, orion, smoke
<1>51. CASE Launch
  <2>1. /\ driver' = "pipeline" /\ pc' = [c \in Children |-> "init"]
        /\ UNCHANGED <<run, flow, bpc>>
        /\ halt' = IF run.scope \in {"none", "consumer"} THEN "run" ELSE halt
    BY <1>51 DEF Launch
  <2>2. /\ pc[P] = "off" /\ pc[C] = "off" /\ driver = "barrier"
    BY <1>51 DEF Launch, Verdicts
  <2>3. sent = acks /\ taken = sent /\ acked = taken
    BY <1>0, <2>2 DEF Counts, Unsent
  <2>4. ~Shut'
    BY <1>0, <2>1, <2>3 DEF Shut, Closes, flow
  <2>5. halt' # "waking" /\ (halt' = halt \/ halt' = "run")
    BY <2>1, <2>2 DEF GateInv
  <2>6. bpc # "boot" /\ pc'[P] = "init" /\ pc'[C] = "init"
    BY <1>51, <2>1 DEF Launch, InT, GateInv
  <2>7. QED
    BY <2>1, <2>2, <2>4, <2>5, <2>6 DEF GateInv, Closes, Gated
<1>52. CASE NoLaunch
  BY <1>52, <1>0 DEF NoLaunch, InT, GateInv, Shut, Calm, Held, Closes, Gated, Dependent, Counts, Unsent,
      Passed, TypeOK, ProducerLabels, ConsumerLabels, flow, parent, background,
      orion
<1>53. CASE PipelineEnds
  BY <1>53, <1>0 DEF PipelineEnds, GateInv, Shut, Calm, Held, Closes, Gated, Dependent, Counts, Unsent,
      Passed, TypeOK, ProducerLabels, ConsumerLabels, flow, parent, background,
      orion
<1>54. CASE StopBackground
  <2>1. /\ bpc' \in {bpc, "gone"} /\ (bpc' # bpc => bpc = "boot") /\ driver' = "reap"
        /\ halt' = Sigcont /\ UNCHANGED <<run, pc, flow, main>>
    BY <1>54 DEF StopBackground, parent
  <2>2. QED
    BY <2>1 DEF GateInv, Sigcont, Closes, Gated, flow, TypeOK
<1>55. CASE KillBackground
  BY <1>55, <1>0 DEF KillBackground, GateInv, Shut, Calm, Held, Closes, Gated, Dependent, Counts, Unsent,
      Passed, TypeOK, ProducerLabels, ConsumerLabels, flow, parent, orion, smoke
<1>56. CASE DriverEnds
  BY <1>56, <1>0 DEF DriverEnds, GateInv, Shut, Calm, Held, Closes, Gated, Dependent, Counts, Unsent,
      Passed, TypeOK, ProducerLabels, ConsumerLabels, flow, parent, background,
      orion
<1>57. CASE ProduceFails
  BY <1>57, <1>0 DEF ProduceFails, CFails, Throw, GateInv, Shut, Calm, Held, Closes, Gated, Dependent,
      Counts, Unsent, Passed, TypeOK, ProducerLabels, ConsumerLabels, Goto, Leave,
      flow, parent, background, orion, smoke
<1>58. CASE ConsumeFails
  BY <1>58, <1>0 DEF ConsumeFails, CFails, Throw, GateInv, Shut, Calm, Held, Closes, Gated, Dependent,
      Counts, Unsent, Passed, TypeOK, ProducerLabels, ConsumerLabels, Goto, Leave,
      flow, parent, background, orion, smoke
<1>59. CASE BThrows
  BY <1>59, <1>0 DEF BThrows, BEnds, GateInv, Shut, Calm, Held, Closes, Gated, Dependent, Counts, Unsent,
      Passed, TypeOK, ProducerLabels, ConsumerLabels, flow, parent, orion, smoke
<1>60. CASE RegisterFails
  BY <1>60, <1>0 DEF RegisterFails, WGoes, GateInv, Shut, Calm, Held, Closes, Gated, Dependent, Counts,
      Unsent, Passed, TypeOK, ProducerLabels, ConsumerLabels, flow, parent,
      background, orion, smoke
<1>61. CASE WorkFails
  BY <1>61, <1>0 DEF WorkFails, WGoes, GateInv, Shut, Calm, Held, Closes, Gated, Dependent, Counts,
      Unsent, Passed, TypeOK, ProducerLabels, ConsumerLabels, flow, parent,
      background, orion, smoke
<1>62. CASE PipelineTimesOut
  <2>1. main # "off" /\ driver = "pipeline" /\ driver' = "stop"
    BY <1>62 DEF PipelineTimesOut, Verdicts
  <2>2. UNCHANGED <<run, pc, flow, halt, bpc>>
    BY <1>62 DEF PipelineTimesOut, background
  <2>3. QED
    BY <2>1, <2>2 DEF GateInv, Closes, Gated
<1>63. CASE UNCHANGED vars
  BY <1>63, <1>0 DEF vars, GateInv, Shut, Calm, Held, Closes, Gated, Dependent, Counts, Unsent, Passed,
      TypeOK, ProducerLabels, ConsumerLabels, flow, parent, background, orion, smoke
<1>64. QED
  BY <1>1, <1>2, <1>3, <1>4, <1>5, <1>6, <1>7, <1>8, <1>9, <1>10, <1>11, <1>12,
     <1>13, <1>14, <1>15, <1>16, <1>17, <1>18, <1>19, <1>20, <1>21, <1>22, <1>23,
     <1>24, <1>25, <1>26, <1>27, <1>28, <1>29, <1>30, <1>31, <1>32, <1>33, <1>34,
     <1>35, <1>36, <1>37, <1>38, <1>39, <1>40, <1>41, <1>42, <1>43, <1>44, <1>45,
     <1>46, <1>47, <1>48, <1>49, <1>50, <1>51, <1>52, <1>53, <1>54, <1>55, <1>56,
     <1>57, <1>58, <1>59, <1>60, <1>61, <1>62, <1>63
  DEF Next, ProducerSteps, ThreadSteps, ConsumerSteps, MainSteps, BackgroundSteps,
      DriverSteps, Mishaps, ChildSteps, GateSteps, Finished

\* A producer that polls for its pause finds no target that is still waking up.
LEMMA CalmWhilePausing ==
  ASSUME TypeOK, Counts, pc[P] = "pausing"
  PROVE  Calm
<1>1. /\ acks \in Int /\ acked \in Int /\ taken \in Int /\ sent \in Int
      /\ Len(results) \in Int
  BY DEF TypeOK
<1>2. sent = acks /\ taken = sent /\ Len(results) = taken
  BY <1>1 DEF Counts, Unsent
<1>3. QED
  BY <1>1, <1>2 DEF Calm, Shut, Counts

\* No stop is on its way outside a pause.
LEMMA TidyStep ==
  ASSUME TypeOK, Counts, Verdicts, GateInv, TidyInv, [Next]_vars
  PROVE  TidyInv'
<1>0. Lives
  BY Moves
<1>1. ASSUME NEW c \in Children, InitCuda(c) PROVE TidyInv'
  BY <1>1, <1>0 DEF InitCuda, CGoes, TidyInv, Pausing, Tidy, GateInv, Shut, Calm, Verdicts, TypeOK,
      ProducerLabels, ConsumerLabels, Goto, flow, parent, background, orion, smoke
<1>2. ASSUME NEW c \in Children, InitFails(c) PROVE TidyInv'
  BY <1>2, <1>0 DEF InitFails, TidyInv, Pausing, Tidy, GateInv, Shut, Calm, Verdicts, TypeOK,
      ProducerLabels, ConsumerLabels, Leave, flow, background, orion, smoke
<1>3. ASSUME NEW c \in Children, Setup(c) PROVE TidyInv'
  BY <1>3, <1>0 DEF Setup, TidyInv, Pausing, Tidy, GateInv, Shut, Calm, Verdicts, TypeOK,
      ProducerLabels, ConsumerLabels, Goto, Leave, flow, background, orion, smoke
<1>4. ASSUME NEW c \in Children, SetupFails(c) PROVE TidyInv'
  BY <1>4, <1>0 DEF SetupFails, CFails, Throw, TidyInv, Pausing, Tidy, GateInv, Shut, Calm, Verdicts,
      TypeOK, ProducerLabels, ConsumerLabels, Goto, Leave, flow, parent, background,
      orion, smoke
<1>5. ASSUME NEW c \in Children, ReadGo(c) PROVE TidyInv'
  BY <1>5, <1>0 DEF ReadGo, TidyInv, Pausing, Tidy, GateInv, Shut, Calm, Verdicts, TypeOK,
      ProducerLabels, ConsumerLabels, Goto, flow, parent, background, orion, smoke
<1>6. ASSUME NEW c \in Children, NoGo(c) PROVE TidyInv'
  BY <1>6, <1>0 DEF NoGo, Throw, TidyInv, Pausing, Tidy, GateInv, Shut, Calm, Verdicts, TypeOK,
      ProducerLabels, ConsumerLabels, Goto, Leave, flow, parent, background, orion,
      smoke
<1>7. ASSUME NEW c \in Children, Crash(c) PROVE TidyInv'
  BY <1>7, <1>0 DEF Crash, Alive, TidyInv, Pausing, Tidy, GateInv, Shut, Calm, Verdicts, TypeOK,
      ProducerLabels, ConsumerLabels, Leave, flow, parent, background, orion, smoke
<1>8. ASSUME NEW c \in Children, PauseSignal(c) PROVE TidyInv'
  BY <1>8, <1>0 DEF PauseSignal, Throw, InT, TidyInv, Pausing, Tidy, GateInv, Shut, Calm, Verdicts,
      TypeOK, ProducerLabels, ConsumerLabels, Goto, Leave, flow, parent, orion,
      smoke
<1>9. ASSUME NEW c \in Children, Paused(c) PROVE TidyInv'
  <2>1. /\ c = P /\ pc[P] = "pausing" /\ InT /\ pc'[P] \in {"publish", "begin"}
        /\ pc'[C] = pc[C]
        /\ UNCHANGED <<run, status, main, verdict, driver, halt, bpc, bstatus, pause>>
    BY <1>9 DEF Paused, CGoes, Goto, AfterPause, TypeOK, ConsumerLabels, background, parent, smoke
  <2>2. verdict # "ok" /\ Gated /\ status[P] # 0
    BY <2>1 DEF Verdicts, GateInv, TidyInv
  <2>3. driver = "pipeline" => halt = "stopped"
    <3>1. Calm
      BY <2>1, CalmWhilePausing
    <3>2. QED
      BY <2>1, <2>2, <3>1 DEF GateInv, InT
  <2>4. driver = "pipeline" => ~pause
    BY <2>3 DEF TidyInv
  <2>5. driver = "pipeline" => bpc \notin {"raise", "boot"}
    BY <2>3 DEF TidyInv, GateInv, TypeOK, Runs
  <2>6. driver = "pipeline" => Tidy'
    BY <2>1, <2>3, <2>4, <2>5 DEF Tidy
  <2>7. QED
    BY <2>1, <2>2, <2>6 DEF TidyInv
<1>10. ASSUME NEW c \in Children, PauseTimesOut(c) PROVE TidyInv'
  <2>1. /\ c = P /\ pc[P] = "pausing" /\ Throw(P)
        /\ UNCHANGED <<run, main, verdict, driver, halt, bpc, bstatus, pause>>
    BY <1>10 DEF PauseTimesOut, CFails, TypeOK, ConsumerLabels, background, parent, smoke
  <2>2. ~run.orion
    BY <2>1 DEF GateInv, Gated, Runs, TypeOK
  <2>3. pc'[P] = "gone" /\ status'[P] = 5 /\ pc'[C] = pc[C] /\ status'[C] = status[C]
    BY <2>1, <2>2 DEF Throw, Leave, TypeOK
  <2>4. verdict # "ok" /\ Pausing'
    BY <2>1, <2>3 DEF Verdicts, Pausing
  <2>5. QED
    BY <2>1, <2>3, <2>4 DEF TidyInv
<1>11. ASSUME NEW c \in Children, ResumeSignal(c) PROVE TidyInv'
  BY <1>11, <1>0 DEF ResumeSignal, Throw, Sigcont, TidyInv, Pausing, Tidy, GateInv, Shut, Calm, Verdicts,
      TypeOK, ProducerLabels, ConsumerLabels, Goto, Leave, flow, parent, orion,
      smoke
<1>12. ASSUME NEW c \in Children, Resumed(c) PROVE TidyInv'
  BY <1>12, <1>0 DEF Resumed, CGoes, AfterResume, InT, TidyInv, Pausing, Tidy, GateInv, Shut, Calm,
      Verdicts, TypeOK, ProducerLabels, ConsumerLabels, Goto, flow, parent,
      background, orion, smoke
<1>13. ASSUME NEW c \in Children, ResumeTimesOut(c) PROVE TidyInv'
  BY <1>13, <1>0 DEF ResumeTimesOut, CFails, Throw, InT, TidyInv, Pausing, Tidy, GateInv, Shut, Calm,
      Verdicts, TypeOK, ProducerLabels, ConsumerLabels, Goto, Leave, flow, parent,
      background, orion, smoke
<1>14. CASE Arrive
  BY <1>14, <1>0 DEF Arrive, CGoes, TidyInv, Pausing, Tidy, GateInv, Shut, Calm, Verdicts, TypeOK,
      ProducerLabels, ConsumerLabels, Goto, flow, parent, background, orion, smoke
<1>15. CASE Begin
  BY <1>15, <1>0 DEF Begin, CGoes, Transmit, Dependent, TidyInv, Pausing, Tidy, GateInv, Shut, Calm,
      Verdicts, TypeOK, ProducerLabels, ConsumerLabels, Goto, Leave, flow, parent,
      background, orion, smoke
<1>16. CASE Produce
  BY <1>16, <1>0 DEF Produce, TidyInv, Pausing, Tidy, GateInv, Shut, Calm, Verdicts, TypeOK,
      ProducerLabels, ConsumerLabels, Goto, parent, background, orion, smoke
<1>17. CASE Publish
  BY <1>17, <1>0 DEF Publish, CGoes, Transmit, AfterPublish, Dependent, TidyInv, Pausing, Tidy, GateInv,
      Shut, Calm, Verdicts, TypeOK, ProducerLabels, ConsumerLabels, Goto, Leave,
      flow, parent, background, orion, smoke
<1>18. CASE ReadAck
  BY <1>18, <1>0 DEF ReadAck, TidyInv, Pausing, Tidy, GateInv, Shut, Calm, Verdicts, TypeOK,
      ProducerLabels, ConsumerLabels, Goto, parent, background, orion, smoke
<1>19. CASE NoAck
  BY <1>19, <1>0 DEF NoAck, Throw, TidyInv, Pausing, Tidy, GateInv, Shut, Calm, Verdicts, TypeOK,
      ProducerLabels, ConsumerLabels, Goto, Leave, flow, parent, background, orion,
      smoke
<1>20. CASE ProducerEnds
  BY <1>20, <1>0 DEF ProducerEnds, TidyInv, Pausing, Tidy, GateInv, Shut, Calm, Verdicts, TypeOK,
      ProducerLabels, ConsumerLabels, Goto, Leave, flow, parent, background, orion,
      smoke
<1>21. CASE StartThread
  BY <1>21, <1>0 DEF StartThread, TidyInv, Pausing, Tidy, GateInv, Shut, Calm, Verdicts, TypeOK,
      ProducerLabels, ConsumerLabels, flow, parent, background, orion, smoke
<1>22. CASE ThreadReady
  BY <1>22, <1>0 DEF ThreadReady, CGoes, TidyInv, Pausing, Tidy, GateInv, Shut, Calm, Verdicts, TypeOK,
      ProducerLabels, ConsumerLabels, Goto, flow, parent, background, orion, smoke
<1>23. CASE ThreadNotReady
  BY <1>23, <1>0 DEF ThreadNotReady, CGoes, TidyInv, Pausing, Tidy, GateInv, Shut, Calm, Verdicts,
      TypeOK, ProducerLabels, ConsumerLabels, Goto, flow, parent, background, orion,
      smoke
<1>24. CASE Shutdown
  BY <1>24, <1>0 DEF Shutdown, TidyInv, Pausing, Tidy, GateInv, Shut, Calm, Verdicts, TypeOK,
      ProducerLabels, ConsumerLabels, flow, parent, background, orion, smoke
<1>25. CASE Join
  BY <1>25, <1>0 DEF Join, TidyInv, Pausing, Tidy, GateInv, Shut, Calm, Verdicts, TypeOK, ProducerLabels,
      ConsumerLabels, Leave, flow, parent, background, orion, smoke
<1>26. CASE Register
  BY <1>26, <1>0 DEF Register, WGoes, TidyInv, Pausing, Tidy, GateInv, Shut, Calm, Verdicts, TypeOK,
      ProducerLabels, ConsumerLabels, flow, parent, background, orion, smoke
<1>27. CASE Predicate
  BY <1>27, <1>0 DEF Predicate, WGoes, TidyInv, Pausing, Tidy, GateInv, Shut, Calm, Verdicts, TypeOK,
      ProducerLabels, ConsumerLabels, flow, parent, background, orion, smoke
<1>28. CASE Park
  BY <1>28, <1>0 DEF Park, WGoes, TidyInv, Pausing, Tidy, GateInv, Shut, Calm, Verdicts, TypeOK,
      ProducerLabels, ConsumerLabels, flow, parent, background, orion, smoke
<1>29. CASE Woken
  BY <1>29, <1>0 DEF Woken, WGoes, TidyInv, Pausing, Tidy, GateInv, Shut, Calm, Verdicts, TypeOK,
      ProducerLabels, ConsumerLabels, flow, parent, background, orion, smoke
<1>30. CASE Work
  BY <1>30, <1>0 DEF Work, TidyInv, Pausing, Tidy, GateInv, Shut, Calm, Verdicts, TypeOK, ProducerLabels,
      ConsumerLabels, flow, parent, background, orion, smoke
<1>31. CASE Receive
  BY <1>31, <1>0 DEF Receive, TidyInv, Pausing, Tidy, GateInv, Shut, Calm, Verdicts, TypeOK,
      ProducerLabels, ConsumerLabels, Goto, parent, background, orion, smoke
<1>32. CASE NoTransfer
  BY <1>32, <1>0 DEF NoTransfer, TidyInv, Pausing, Tidy, GateInv, Shut, Calm, Verdicts, TypeOK,
      ProducerLabels, ConsumerLabels, Leave, flow, parent, background, orion, smoke
<1>33. CASE Consume
  BY <1>33, <1>0 DEF Consume, CGoes, TidyInv, Pausing, Tidy, GateInv, Shut, Calm, Verdicts, TypeOK,
      ProducerLabels, ConsumerLabels, Goto, flow, parent, background, orion, smoke
<1>34. CASE Report
  BY <1>34, <1>0 DEF Report, TidyInv, Pausing, Tidy, GateInv, Shut, Calm, Verdicts, TypeOK,
      ProducerLabels, ConsumerLabels, Goto, Leave, parent, background, orion, smoke
<1>35. CASE Ack
  BY <1>35, <1>0 DEF Ack, TidyInv, Pausing, Tidy, GateInv, Shut, Calm, Verdicts, TypeOK, ProducerLabels,
      ConsumerLabels, Goto, Leave, parent, background, orion, smoke
<1>36. CASE SeesReady
  BY <1>36, <1>0 DEF SeesReady, MGoes, TidyInv, Pausing, Tidy, GateInv, Shut, Calm, Verdicts, TypeOK,
      ProducerLabels, ConsumerLabels, flow, background, orion, smoke
<1>37. CASE NotReady
  BY <1>37, <1>0 DEF NotReady, MGoes, TidyInv, Pausing, Tidy, GateInv, Shut, Calm, Verdicts, TypeOK,
      ProducerLabels, ConsumerLabels, flow, background, orion, smoke
<1>38. CASE GoProducer
  BY <1>38, <1>0 DEF GoProducer, GiveGo, TidyInv, Pausing, Tidy, GateInv, Shut, Calm, Verdicts, TypeOK,
      ProducerLabels, ConsumerLabels, flow, background, orion, smoke
<1>39. CASE GoConsumer
  BY <1>39, <1>0 DEF GoConsumer, GiveGo, TidyInv, Pausing, Tidy, GateInv, Shut, Calm, Verdicts, TypeOK,
      ProducerLabels, ConsumerLabels, flow, background, orion, smoke
<1>40. CASE Collect
  BY <1>40, <1>0 DEF Collect, TidyInv, Pausing, Tidy, GateInv, Shut, Calm, Verdicts, TypeOK,
      ProducerLabels, ConsumerLabels, flow, background, orion, smoke
<1>41. CASE CollectEnds
  BY <1>41, <1>0 DEF CollectEnds, MGoes, TidyInv, Pausing, Tidy, GateInv, Shut, Calm, Verdicts, TypeOK,
      ProducerLabels, ConsumerLabels, flow, background, orion, smoke
<1>42. CASE CollectTimesOut
  BY <1>42, <1>0 DEF CollectTimesOut, MGoes, TidyInv, Pausing, Tidy, GateInv, Shut, Calm, Verdicts,
      TypeOK, ProducerLabels, ConsumerLabels, flow, background, orion, smoke
<1>43. CASE Reap
  BY <1>43, <1>0 DEF Reap, Complete, TidyInv, Pausing, Tidy, GateInv, Shut, Calm, Verdicts, TypeOK,
      ProducerLabels, ConsumerLabels, flow, background, orion, smoke
<1>44. CASE Raise
  BY <1>44, <1>0 DEF Raise, TidyInv, Pausing, Tidy, GateInv, Shut, Calm, Verdicts, TypeOK,
      ProducerLabels, ConsumerLabels, flow, parent, orion, smoke
<1>45. CASE Honor
  BY <1>45, <1>0 DEF Honor, TidyInv, Pausing, Tidy, GateInv, Shut, Calm, Verdicts, TypeOK,
      ProducerLabels, ConsumerLabels, flow, parent, orion, smoke
<1>46. CASE Look
  BY <1>46, <1>0 DEF Look, BGoes, TidyInv, Pausing, Tidy, GateInv, Shut, Calm, Verdicts, TypeOK,
      ProducerLabels, ConsumerLabels, flow, parent, orion, smoke
<1>47. CASE Proceed
  BY <1>47, <1>0 DEF Proceed, BGoes, TidyInv, Pausing, Tidy, GateInv, Shut, Calm, Verdicts, TypeOK,
      ProducerLabels, ConsumerLabels, flow, parent, orion, smoke
<1>48. CASE Infer
  BY <1>48, <1>0 DEF Infer, TidyInv, Pausing, Tidy, GateInv, Shut, Calm, Verdicts, TypeOK,
      ProducerLabels, ConsumerLabels, flow, parent, orion, smoke
<1>49. CASE BLeaves
  BY <1>49, <1>0 DEF BLeaves, BEnds, TidyInv, Pausing, Tidy, GateInv, Shut, Calm, Verdicts, TypeOK,
      ProducerLabels, ConsumerLabels, flow, parent, orion, smoke
<1>50. CASE Kernel
  <2>1. /\ halt \in {"stopping", "waking"}
        /\ halt' = IF halt = "stopping" THEN "stopped" ELSE "run"
        /\ UNCHANGED <<run, pc, status, main, verdict, driver, bpc, bstatus, pause>>
    BY <1>50 DEF Kernel, parent, smoke
  <2>2. halt = "stopping" => ~pause /\ bpc # "raise"
    BY DEF GateInv, TidyInv, TypeOK, Runs
  <2>3. Tidy => Tidy'
    BY <2>1 DEF Tidy
  <2>4. QED
    BY <2>1, <2>2, <2>3 DEF TidyInv, Pausing, Tidy
<1>51. CASE Launch
  <2>1. /\ driver' = "pipeline" /\ pc' = [c \in Children |-> "init"] /\ driver = "barrier"
        /\ UNCHANGED <<run, status, bpc, bstatus, pause, verdict>>
        /\ halt' \in {"run", halt} /\ (run.admitted => InT) /\ main' = "ready"
    BY <1>51 DEF Launch
  <2>2. /\ \A c \in Children : pc[c] = "off"
        /\ verdict = "none"
    BY <2>1 DEF Verdicts
  <2>3. \A c \in Children : status[c] # 0
    BY <2>2 DEF TidyInv
  <2>4. bpc # "boot"
    BY <2>1 DEF GateInv, InT
  <2>5. bstatus # "killed" /\ halt # "stopping" /\ bpc # "raise"
    BY <2>1 DEF TidyInv
  <2>6. ~pause
    BY <2>1 DEF TidyInv
  <2>7. Tidy'
    BY <2>1, <2>4, <2>5, <2>6 DEF Tidy
  <2>8. QED
    BY <2>1, <2>2, <2>3, <2>4, <2>5, <2>6, <2>7 DEF TidyInv
<1>52. CASE NoLaunch
  BY <1>52, <1>0 DEF NoLaunch, InT, TidyInv, Pausing, Tidy, GateInv, Shut, Calm, Verdicts, TypeOK,
      ProducerLabels, ConsumerLabels, flow, parent, background, orion
<1>53. CASE PipelineEnds
  BY <1>53, <1>0 DEF PipelineEnds, TidyInv, Pausing, Tidy, GateInv, Shut, Calm, Verdicts, TypeOK,
      ProducerLabels, ConsumerLabels, flow, parent, background, orion
<1>54. CASE StopBackground
  BY <1>54, <1>0 DEF StopBackground, Sigcont, TidyInv, Pausing, Tidy, GateInv, Shut, Calm, Verdicts,
      TypeOK, ProducerLabels, ConsumerLabels, flow, parent, orion
<1>55. CASE KillBackground
  BY <1>55, <1>0 DEF KillBackground, TidyInv, Pausing, Tidy, GateInv, Shut, Calm, Verdicts, TypeOK,
      ProducerLabels, ConsumerLabels, flow, parent, orion, smoke
<1>56. CASE DriverEnds
  BY <1>56, <1>0 DEF DriverEnds, TidyInv, Pausing, Tidy, GateInv, Shut, Calm, Verdicts, TypeOK,
      ProducerLabels, ConsumerLabels, flow, parent, background, orion
<1>57. CASE ProduceFails
  BY <1>57, <1>0 DEF ProduceFails, CFails, Throw, TidyInv, Pausing, Tidy, GateInv, Shut, Calm, Verdicts,
      TypeOK, ProducerLabels, ConsumerLabels, Goto, Leave, flow, parent, background,
      orion, smoke
<1>58. CASE ConsumeFails
  BY <1>58, <1>0 DEF ConsumeFails, CFails, Throw, TidyInv, Pausing, Tidy, GateInv, Shut, Calm, Verdicts,
      TypeOK, ProducerLabels, ConsumerLabels, Goto, Leave, flow, parent, background,
      orion, smoke
<1>59. CASE BThrows
  BY <1>59, <1>0 DEF BThrows, BEnds, TidyInv, Pausing, Tidy, GateInv, Shut, Calm, Verdicts, TypeOK,
      ProducerLabels, ConsumerLabels, flow, parent, orion, smoke
<1>60. CASE RegisterFails
  BY <1>60, <1>0 DEF RegisterFails, WGoes, TidyInv, Pausing, Tidy, GateInv, Shut, Calm, Verdicts, TypeOK,
      ProducerLabels, ConsumerLabels, flow, parent, background, orion, smoke
<1>61. CASE WorkFails
  BY <1>61, <1>0 DEF WorkFails, WGoes, TidyInv, Pausing, Tidy, GateInv, Shut, Calm, Verdicts, TypeOK,
      ProducerLabels, ConsumerLabels, flow, parent, background, orion, smoke
<1>62. CASE PipelineTimesOut
  BY <1>62, <1>0 DEF PipelineTimesOut, TidyInv, Pausing, Tidy, GateInv, Shut, Calm, Verdicts, TypeOK,
      ProducerLabels, ConsumerLabels, flow, background, orion
<1>63. CASE UNCHANGED vars
  BY <1>63, <1>0 DEF vars, TidyInv, Pausing, Tidy, GateInv, Shut, Calm, Verdicts, TypeOK, ProducerLabels,
      ConsumerLabels, flow, parent, background, orion, smoke
<1>64. QED
  BY <1>1, <1>2, <1>3, <1>4, <1>5, <1>6, <1>7, <1>8, <1>9, <1>10, <1>11, <1>12,
     <1>13, <1>14, <1>15, <1>16, <1>17, <1>18, <1>19, <1>20, <1>21, <1>22, <1>23,
     <1>24, <1>25, <1>26, <1>27, <1>28, <1>29, <1>30, <1>31, <1>32, <1>33, <1>34,
     <1>35, <1>36, <1>37, <1>38, <1>39, <1>40, <1>41, <1>42, <1>43, <1>44, <1>45,
     <1>46, <1>47, <1>48, <1>49, <1>50, <1>51, <1>52, <1>53, <1>54, <1>55, <1>56,
     <1>57, <1>58, <1>59, <1>60, <1>61, <1>62, <1>63
  DEF Next, ProducerSteps, ThreadSteps, ConsumerSteps, MainSteps, BackgroundSteps,
      DriverSteps, Mishaps, ChildSteps, GateSteps, Finished

-----------------------------------------------------------------------------
(* Theorems *)

\* The inductive invariant.
Inv == TypeOK /\ ServedInv /\ GateInv /\ TidyInv

LEMMA InvInit == Init => Inv
<1> SUFFICES ASSUME Init PROVE Inv
  OBVIOUS
<1>1. TypeOK
  <2>1. run \in Runs /\ run.admitted \in BOOLEAN
    BY DEF Init, Runs
  <2>2. /\ bpc \in {"boot", "top", "raise", "check", "infer", "gone"}
        /\ bstatus \in {"none", "ok", "error", "killed"}
    BY <2>1 DEF Init
  <2>3. results \in Seq(Requests \cup {NoRequest})
    BY DEF Init
  <2>4. /\ sent \in 0 .. Total /\ taken \in 0 .. Total /\ acked \in 0 .. Total
        /\ acks \in 0 .. Total /\ collected \in 0 .. Total
        /\ activation \in Requests \cup {NoRequest}
    BY DEF Init
  <2>5. /\ pc \in [Children -> ProducerLabels \cup ConsumerLabels]
        /\ pc[P] \in ProducerLabels /\ pc[C] \in ConsumerLabels
        /\ status \in [Children -> {Running, 0, 2, 3, 4, 5, Broken, Crashed}]
        /\ ready \in [Children -> {"none", "ok", "bad"}] /\ go \subseteq Children
    BY DEF Init, ProducerLabels, ConsumerLabels
  <2>6. QED
    BY <2>1, <2>2, <2>3, <2>4, <2>5 DEF Init, TypeOK
<1>2. Len(results) = 0
  BY DEF Init
<1>3. Counts /\ Contents /\ Verdicts
  BY <1>2 DEF Init, Counts, Contents, Verdicts, Unsent, Passed
<1>4. GateInv
  BY DEF Init, GateInv, Gated, Runs
<1>5. TidyInv
  <2>1. /\ pause = FALSE /\ driver = "barrier" /\ bpc \in {"boot", "gone"} /\ halt = "run"
        /\ main = "off" /\ verdict = "none" /\ bstatus \in {"none", "ok"}
        /\ \A c \in Children : status[c] = Running
    BY DEF Init
  <2>2. QED
    BY <2>1 DEF TidyInv
<1>6. QED
  BY <1>1, <1>3, <1>4, <1>5 DEF Inv, ServedInv

LEMMA InvStep == Inv /\ [Next]_vars => Inv'
BY TypeStep, CountsStep, ContentsStep, VerdictsStep, GateStep, TidyStep DEF Inv, ServedInv

LEMMA InvAlways == Spec => []Inv
BY InvInit, InvStep, PTL DEF Spec

\* Every variable of a scenario keeps its type: the driver's, the pipeline's three
\* processes', the background's and the Orion thread's.
THEOREM ScenarioTyped == Spec => []TypeOK
<1>1. Inv => TypeOK
  BY DEF Inv
<1>2. QED
  BY <1>1, InvAlways, PTL

\* However a scenario fails, the dependent consumer reads whole activations.
THEOREM ActivationWhole == Spec => []WholeActivation
<1>1. ASSUME Inv PROVE WholeActivation
  <2>1. SUFFICES ASSUME Dependent, pc[C] \in {"infer", "resume", "resuming", "report"}
                 PROVE  activation = InHand /\ pc[P] # "infer"
    BY DEF WholeActivation
  <2>2. /\ acks \in Int /\ acked \in Int /\ taken \in Int /\ sent \in Int
        /\ Len(results) \in Int
    BY <1>1 DEF Inv, TypeOK
  <2>3. sent = acks + 1 /\ taken = sent
    BY <1>1, <2>1, <2>2 DEF Inv, ServedInv, Counts
  <2>4. QED
    BY <1>1, <2>1, <2>2, <2>3 DEF Inv, ServedInv, Counts, Contents, Unsent, InHand
<1>2. QED
  BY <1>1, InvAlways, PTL

\* A successful scenario served every request once, in order, and left no child.
THEOREM OkSound == Spec => []OkMeansAllServed
<1>1. ASSUME Inv PROVE OkMeansAllServed
  <2>1. SUFFICES ASSUME outcome = "ok"
                 PROVE  /\ results = [k \in 1 .. Total |-> k - 1]
                        /\ \A c \in Children : ~Alive(c)
    BY DEF OkMeansAllServed
  <2>2. /\ Len(results) = Total /\ \A c \in Children : pc[c] = "gone"
        /\ \A k \in 1 .. Total : results[k] = k - 1
    BY <1>1, <2>1 DEF Inv, ServedInv, Contents, Verdicts
  <2>3. results \in Seq(Requests \cup {NoRequest})
    BY <1>1 DEF Inv, TypeOK
  <2>4. results = [k \in 1 .. Len(results) |-> results[k]]
    BY <2>3
  <2>5. QED
    BY <2>2, <2>4 DEF Alive
<1>2. QED
  BY <1>1, InvAlways, PTL

\* While the driver waits, the stages inside the gate's scope run alone.
THEOREM StagesProtected == Spec => []ProtectedStages
<1>1. ASSUME Inv PROVE ProtectedStages
  <2>1. SUFFICES ASSUME driver = "pipeline"
                 PROVE  /\ pc[P] = "infer" =>
                             \/ run.scope \in {"none", "consumer"}
                             \/ ~Dependent /\ run.scope = "pipeline"
                                  /\ taken > acks /\ pc[C] # "infer"
                             \/ Held
                        /\ pc[C] = "infer" /\ run.scope \in {"consumer", "pipeline"} => Held
    BY DEF ProtectedStages
  <2>2. Gated /\ Shut => Held
    BY <1>1, <2>1 DEF Inv, GateInv
  <2>3. pc[C] = "infer" /\ run.scope \in {"consumer", "pipeline"} => Held
    BY <2>2 DEF Shut, Closes, Gated
  <2>4. ASSUME pc[P] = "infer", run.scope \notin {"none", "consumer"}
        PROVE  \/ ~Dependent /\ run.scope = "pipeline" /\ taken > acks /\ pc[C] # "infer"
               \/ Held
    <3>1. run.scope \in {"producer", "pipeline"} /\ Gated
      BY <1>1, <2>4 DEF Inv, TypeOK, Runs, Scopes, Gated
    <3>2. CASE run.scope = "producer" \/ Dependent
      BY <2>2, <2>4, <3>1, <3>2 DEF Shut
    <3>3. CASE run.scope = "pipeline" /\ ~Dependent
      <4>1. acks < sent /\ taken \in Int /\ sent \in Int /\ acks \in Int
        BY <1>1, <2>4, <3>3 DEF Inv, TypeOK, ServedInv, Counts, Passed
      <4>2. QED
        BY <2>2, <3>1, <3>3, <4>1 DEF Shut, Closes
    <3>4. QED
      BY <3>1, <3>2, <3>3
  <2>5. QED
    BY <2>3, <2>4
<1>2. QED
  BY <1>1, InvAlways, PTL

\* A pipeline that succeeded leaves no stop behind that the driver has to kill.
THEOREM KillExplained == Spec => []KilledOnlyAfterFailure
<1>1. Inv => KilledOnlyAfterFailure
  BY DEF Inv, TidyInv, KilledOnlyAfterFailure
<1>2. QED
  BY <1>1, InvAlways, PTL

\* The pipeline implements the abstract credit window of one request.
THEOREM WindowImplemented == Spec => ImplementsWindow
<1>1. Init => Window!Init
  BY DEF Init, Window!Init
<1>2. ASSUME Inv, [Next]_vars PROVE [Window!Next]_Window!vars
  <2>1. /\ Len(results) \in Int /\ sent \in Int /\ taken \in Int /\ acks \in Int
        /\ acked \in Int /\ Total \in Int /\ Counts /\ TypeOK
        /\ results \in Seq(Requests \cup {NoRequest})
    BY <1>2 DEF Inv, TypeOK, ServedInv
  <2>2. CASE Sends
    <3>1. sent < Total /\ sent - Len(results) < 1 /\ sent' = sent + 1 /\ results' = results
      BY <2>1, <2>2 DEF Sends, Counts, Unsent, Dependent
    <3>2. QED
      BY <3>1 DEF Window!Next, Window!Publish, Window!vars
  <2>3. CASE Report
    <3>1. /\ sent' = sent /\ Len(results) < sent
          /\ results' \in {results, Append(results, activation), Append(results, InHand)}
      BY <2>1, <2>3 DEF Report, Counts
    <3>2. Len(results') \in {Len(results), Len(results) + 1}
      BY <2>1, <3>1
    <3>3. QED
      BY <2>1, <3>1, <3>2 DEF Window!Next, Window!Finish, Window!vars
  <2>4. CASE Quiet \/ Produce \/ ReadAck \/ Receive \/ Ack
    <3>1. sent' = sent /\ results' = results
      BY <2>4 DEF Quiet, Produce, ReadAck, Receive, Ack, flow
    <3>2. QED
      BY <3>1 DEF Window!vars
  <2>5. Quiet \/ Carries
    BY <1>2, Moves DEF Inv, ServedInv
  <2>6. QED
    BY <2>2, <2>3, <2>4, <2>5 DEF Carries
<1>3. QED
  BY <1>1, <1>2, InvAlways, PTL DEF Spec, ImplementsWindow, Window!Spec

=============================================================================
