----------------------------- MODULE ThermalStart -----------------------------
(***************************************************************************)
(* How a measurement gets a qualified thermal start, and whether its       *)
(* record survives the offline replay.                                     *)
(*                                                                         *)
(* With the measured processes stopped, heating workers run until the      *)
(* stability sensor is in its band; the boundary is marked, the workers    *)
(* are stopped, the cleanup is marked, and the first telemetry sample      *)
(* after it decides the attempt.  Only then are the measured processes     *)
(* released, and the start of the measurement itself is qualified after    *)
(* the fact by the newest sample before it.  Three drivers do this:        *)
(* run_policy and run_calibration_set of runtime/mig_slack_governor.py and *)
(* _run_block_attempt of runtime/profile_p9_guard.py.  A recorder thread   *)
(* writes samples to the same monitor as the driver's marks.               *)
(*                                                                         *)
(* Later, three readers replay the record from the raw file: the summary   *)
(* reads the governor's and that of the calibration repeats of its run,    *)
(* the deadline freezer a calibration's, the guard freezer the guard's.    *)
(*                                                                         *)
(* Time is an integer, from 0 at each attempt; a time stamp costs one unit *)
(* (all stamps of the monitor differ: the readers insist on it) and time   *)
(* may pass between stamps.  Temperatures are three kinds of sample.       *)
(***************************************************************************)
EXTENDS Integers, FiniteSets

CONSTANTS
  Drivers,      \* which of the drivers run
  MaxAttempts,  \* THERMAL_QUALIFICATION_MAX_ATTEMPTS
  MaxBlocks,    \* BLOCK_MAX_ATTEMPTS of the guard
  Endpoints,    \* THERMAL_ACTIVE_STABLE_ENDPOINTS
  Stale,        \* TELEMETRY_STALE_AFTER_MS
  HandoffMax,   \* thermal_handoff_max_ms, strict
  Latest,       \* bound: when time stops passing by itself, per phase
  Horizon       \* bound: no stamp is later

\* run_calibration_set runs alone ("calibration") or before and after the policies
\* ("repeat"); only the reader of its record differs.
AllDrivers == {"governor", "repeat", "calibration", "guard"}
Timed == {"stop", "clean", "poll", "mark", "result", "open", "release", "resume", "run", "collect"}

ASSUME ThermalAssumption ==
  /\ Drivers \subseteq AllDrivers
  /\ {MaxAttempts, MaxBlocks, Endpoints, Stale, HandoffMax, Horizon} \subseteq Nat \ {0}
  /\ Latest \in [Timed -> 0 .. Horizon]

VARIABLES
  driver,     \* the program
  block,      \* the guard's block attempt; 1 for the others
  attempt,    \* the thermal attempt
  pc,         \* where the driver is
  measured,   \* the measured processes: paused, running or gone
  heaters,    \* the heating workers: running or gone
  passes,     \* consecutive stable checks of the heating load
  clock,      \* time since the attempt began
  record,     \* kind of the sample written with a time stamp, or "none"
  flying,     \* stamp of a sample that waits for the monitor's lock, or 0
  hot,        \* was a sample from the boundary to the release at the hard limit?
  at,         \* the marks of this attempt, 0 when not reached
  first,      \* the sample of the qualification, 0 for none
  seen,       \* the sample of the actual start
  valid,      \* did the last completed check pass?
  odd,        \* did something happen that makes the reader refuse a good run?
  refused     \* does the reader refuse the record so far?

place == <<driver, block, attempt>>
processes == <<measured, heaters>>
telemetry == <<record, flying, hot>>
evidence == <<first, seen, valid>>
vars == <<place, pc, processes, passes, clock, telemetry, at, evidence, odd, refused>>

Whole == {"good", "off"}          \* complete, and in the band or outside it
Kinds == Whole \cup {"bad"}       \* or incomplete
Times == 0 .. Horizon
Marks == {"boundary", "cleanup", "qualify", "result", "open", "release", "resume", "begin"}
Over == {"accepted", "aborted"}

Init ==
  /\ driver \in Drivers /\ block = 1 /\ attempt = 1
  /\ pc = "prepare" /\ measured = "paused" /\ heaters = "gone" /\ passes = 0
  /\ clock = 0 /\ record = [t \in Times |-> "none"] /\ flying = 0 /\ hot = FALSE
  /\ at = [m \in Marks |-> 0] /\ first = 0 /\ seen = 0 /\ valid = FALSE
  /\ odd = FALSE /\ refused = FALSE

-----------------------------------------------------------------------------
(* The record *)

\* The samples written with a stamp after s and not after t.
Samples(s, t) == {u \in (s + 1) .. t : record[u] # "none"}
Earliest(S) == CHOOSE u \in S : \A v \in S : u <= v
Newest(S) == CHOOSE u \in S : \A v \in S : v <= u

\* aggregate over the one sample u, fresh at r: u is complete, and the newest
\* complete sample up to r is not stale.
Healthy(u, r) ==
  /\ record[u] \in Whole
  /\ \E v \in u .. r : record[v] \in Whole /\ r - v <= Stale

\* qualify_thermal_start, with u the sample and q the qualification's stamp.
Qualifies(u, q) ==
  /\ u # 0 /\ Healthy(u, q)
  /\ u - at["cleanup"] <= Stale /\ q - u <= Stale /\ record[u] = "good"

\* validate_actual_thermal_start
StartsWell(u, b) == u # 0 /\ Healthy(u, b) /\ b - u <= Stale /\ record[u] = "good"

\* The marks a handoff compares, up to m.
Handoff == {"cleanup", "qualify", "result", "open", "release", "resume", "begin"}
TimelyAtLimit(a) ==
  \A m \in Handoff : a[m] # 0 => a["boundary"] < a[m] /\ a[m] - a["boundary"] <= HandoffMax
Timely(a) ==
  \A m \in Handoff : a[m] # 0 => a["boundary"] < a[m] /\ a[m] - a["boundary"] < HandoffMax

\* The reader of a driver's record.
Reader ==
  CASE driver \in {"governor", "repeat"} -> "summary"
    [] driver = "calibration" -> "deadline"
    [] driver = "guard" -> "guard"

\* No complete sample for longer than the staleness limit, somewhere from s to t.
Silent(s, t) == \E u \in s .. t : u + Stale < t /\ \A v \in (u + 1) .. (u + Stale) : record[v] \notin Whole

\* What the driver does not look at, and yet makes its reader refuse a record that the
\* driver accepted:
\*   short, patchy, peak, torn, late: a heating load with too few samples for a check, with
\*     incomplete samples, with the highest temperature or the limit in an incomplete
\*     sample, or with a boundary that is stale against the last check;
\*   unread: a sample whose memory reading failed, anywhere;
\*   bad, stale: the sample that an attempt failed on was incomplete or came too late;
\*   slipped: a sample between the last look and the mark of a failed qualification;
\*   second: a second sample before the qualification's mark;
\*   sparse, hot: a silence, or a sample at the limit, from the boundary to the release;
\*   across: a sample from before the start was written after the result was read;
\*   sick: the telemetry of the measurement itself has a silence or is at the limit.
Matters ==
  CASE Reader = "summary" ->
         {"short", "torn", "late", "bad", "stale", "slipped", "sparse", "hot", "across", "sick"}
    [] Reader = "deadline" ->
         {"short", "patchy", "peak", "torn", "late", "unread", "bad", "slipped", "across"}
    [] Reader = "guard" ->
         {"peak", "torn", "unread", "bad", "slipped", "second", "across", "sick"}
Happens(S) == odd' = (odd \/ S \cap Matters # {})

-----------------------------------------------------------------------------
(* The replays.  Each decides from the whole record what the driver        *)
(* decided from what it had seen.                                          *)

Causal(q) == Samples(at["cleanup"], q)

\* A qualification without a sample must have none in its interval, one with a
\* sample must have taken the first.
FirstIsCausal(q) ==
  IF first = 0 THEN Causal(q) = {} ELSE Causal(q) # {} /\ Earliest(Causal(q)) = first

\* replay_thermal_qualification of the summary: the aggregate must be healthy, also
\* of an attempt that failed.
SummaryReplays(q, ok) ==
  /\ FirstIsCausal(q)
  /\ first # 0 => Healthy(first, q)
  /\ ok = Qualifies(first, q)

\* replay_deadline_qualification: an incomplete sample has no temperature to compare.
DeadlineReplays(q, ok) ==
  /\ FirstIsCausal(q)
  /\ first # 0 => record[first] \in Whole
  /\ ok = Qualifies(first, q)

\* causal_qualification aggregates the one sample alone, while the runtime's aggregate
\* also reports the newest and the newest complete sample up to q.
GuardReplays(q, ok) ==
  /\ FirstIsCausal(q)
  /\ first # 0 => record[first] \in Whole /\ Newest(Causal(q)) = first
  /\ ok = Qualifies(first, q)

Replays(q, ok) ==
  CASE Reader = "summary" -> SummaryReplays(q, ok)
    [] Reader = "deadline" -> DeadlineReplays(q, ok)
    [] Reader = "guard" -> GuardReplays(q, ok)

\* What each reader refuses of the heating load although run_thermal_load accepted it, whose
\* temperatures are those of complete samples: the summary looks for the limit in all
\* samples and counts those that have the stability sensor, the deadline freezer wants
\* complete samples only, and the guard freezer compares the highest temperature of all.
SummaryRefusesHeat == {"short", "torn", "late"}
DeadlineRefusesHeat == {"short", "patchy", "peak", "torn", "late", "unread"}
GuardRefusesHeat == {"peak", "torn", "unread"}
HeatRefused ==
  CASE Reader = "summary" -> SummaryRefusesHeat
    [] Reader = "deadline" -> DeadlineRefusesHeat
    [] Reader = "guard" -> GuardRefusesHeat

\* The loaders of the two freezers refuse a file with a memory reading that failed.
SampleRefused(flaw) == flaw = "unread" /\ Reader # "summary"

\* The actual start: its sample must be the newest of the record, and complete.  The
\* guard's reader has no aggregate of it.
LastBefore(b, u) ==
  LET before == Samples(at["cleanup"], b)
  IN before # {} /\ Newest(before) = u /\ record[u] \in Whole

\* validate_telemetry_coverage: the complete samples leave no gap over the limit.
CoveredStrictly(s, t) ==
  LET valid_timestamps == {u \in s .. t : record[u] \in Whole}
  IN /\ valid_timestamps # {}
     /\ \A u \in {s} \cup valid_timestamps :
          t - u < Stale \/ \E v \in valid_timestamps : u < v /\ v - u < Stale
Covered(s, t) ==
  LET valid_timestamps == {u \in s .. t : record[u] \in Whole}
  IN /\ valid_timestamps # {}
     /\ \A u \in {s} \cup valid_timestamps :
          t - u <= Stale \/ \E v \in valid_timestamps : u < v /\ v - u <= Stale

\* The summary alone looks at the whole stretch from the boundary to the release: it must
\* be covered, and no sample in it, complete or not, at the limit.
SummaryReplaysStart(b, u, ok) ==
  /\ LastBefore(b, u) /\ Healthy(u, b) /\ ok = StartsWell(u, b)
  /\ Covered(at["boundary"], at["release"]) /\ ~hot
DeadlineReplaysStart(b, u, ok) == LastBefore(b, u) /\ Healthy(u, b) /\ ok = StartsWell(u, b)
GuardReplaysStart(b, u, ok) == LastBefore(b, u) /\ ok = StartsWell(u, b)
StartReplays(b, u, ok) ==
  CASE Reader = "summary" -> SummaryReplaysStart(b, u, ok)
    [] Reader = "deadline" -> DeadlineReplaysStart(b, u, ok)
    [] Reader = "guard" -> GuardReplaysStart(b, u, ok)

\* What each reader refuses of the measurement itself: the summary and the guard freezer
\* want covered and safe telemetry, the deadline freezer looks at none.
SummaryRefusesRun == {"sick"}
DeadlineRefusesRun == {"unread"}
GuardRefusesRun == {"sick", "unread"}
RunRefused ==
  CASE Reader = "summary" -> SummaryRefusesRun
    [] Reader = "deadline" -> DeadlineRefusesRun
    [] Reader = "guard" -> GuardRefusesRun

\* The keys of the metadata that the driver puts on an epoch's markers, and those that
\* its reader compares: the summary looks for exactly its keys, the deadline freezer
\* too, and the guard freezer for a marker that has the keys it asks for.
GovernorKeys == {"policy", "epoch", "scenario"}
CalibrationKeys == {"stage", "repeat"}
GuardKeys == {"case_id", "held_out", "block", "attempt"}
SummaryFinds == GovernorKeys = {"policy", "epoch"}
RepeatFinds == CalibrationKeys = {"stage", "repeat"}
DeadlineFinds == CalibrationKeys = {"stage", "repeat"}
GuardFinds == {"case_id", "block", "attempt"} \subseteq GuardKeys
MarkersFound ==
  CASE driver = "governor" -> SummaryFinds
    [] driver = "repeat" -> RepeatFinds
    [] driver = "calibration" -> DeadlineFinds
    [] driver = "guard" -> GuardFinds

-----------------------------------------------------------------------------
(* The recorder: record_line takes its time under the entry lock and may   *)
(* then wait for the lock that queries take; a mark waits for both.        *)

Stamp ==
  /\ pc \in Timed /\ flying = 0 /\ clock < Latest[pc]
  /\ clock' = clock + 1 /\ flying' = clock + 1
  /\ UNCHANGED <<place, pc, processes, passes, record, hot, at, evidence, odd, refused>>

\* What a sample that comes now is to the qualification under way.
Seems ==
  (IF pc = "mark" /\ first = 0 THEN {"slipped"} ELSE {})
    \cup (IF pc \in {"poll", "mark"} /\ Causal(clock) # {} THEN {"second"} ELSE {})

\* A sample outside the band, also an incomplete one, may be at the hard limit; one whose
\* memory could not be read is incomplete.
Write ==
  /\ flying # 0
  /\ \E k \in Kinds, flaw \in {"none", "limit", "unread"} :
       /\ (flaw = "limit" => k # "good") /\ (flaw = "unread" => k = "bad")
       /\ record' = [record EXCEPT ![flying] = k]
       /\ hot' = (hot \/ (flaw = "limit" /\ at["release"] = 0))
       /\ Happens({flaw} \cup Seems) /\ refused' = (refused \/ SampleRefused(flaw))
  /\ flying' = 0
  /\ UNCHANGED <<place, pc, processes, passes, clock, at, evidence>>

TimePasses ==
  /\ pc \in Timed /\ clock < Latest[pc]
  /\ clock' = clock + 1
  /\ UNCHANGED <<place, pc, processes, passes, telemetry, at, evidence, odd, refused>>

-----------------------------------------------------------------------------
(* The driver *)

Mark(m) ==
  /\ flying = 0 /\ clock < Horizon
  /\ clock' = clock + 1
  /\ at' = [at EXCEPT ![m] = clock + 1]

\* run_thermal_load with a target temperature: its workers start stopped.
StartHeaters ==
  /\ pc = "prepare" /\ measured = "paused"
  /\ heaters' = "running" /\ passes' = 0 /\ pc' = "heat"
  /\ UNCHANGED <<place, measured, clock, telemetry, at, evidence, odd, refused>>

\* One active stability check, and what is wrong with the samples since the last one.  A
\* window with too few complete samples fails; a stable one may hold incomplete ones, up
\* to a fifth, whose temperatures do not count.
Flaws == {"none", "short", "patchy", "peak", "torn", "unread"}
Check(stable, flaw) ==
  /\ pc = "heat" /\ passes < Endpoints
  /\ flaw = "short" => ~stable
  /\ passes' = (IF stable THEN passes + 1 ELSE 0)
  /\ Happens({flaw}) /\ refused' = (refused \/ flaw \in HeatRefused)
  /\ pc' = (IF passes' = Endpoints THEN "boundary" ELSE "heat")
  /\ UNCHANGED <<place, processes, clock, telemetry, at, evidence>>

\* The boundary's stamp may be stale against the sample of the last check.
Boundary ==
  /\ pc = "boundary" /\ Mark("boundary")
  /\ \E flaw \in (Flaws \ {"short"}) \cup {"late"} :
       Happens({flaw}) /\ refused' = (refused \/ flaw \in HeatRefused)
  /\ pc' = "stop"
  /\ UNCHANGED <<place, processes, passes, telemetry, evidence>>

StopHeatersLater ==
  /\ pc = "stop" /\ pc' = "clean"
  /\ UNCHANGED <<place, processes, passes, clock, telemetry, at, evidence, odd, refused>>
StopHeaters ==
  /\ pc = "stop" /\ heaters' = "gone" /\ pc' = "clean"
  /\ UNCHANGED <<place, measured, passes, clock, telemetry, at, evidence, odd, refused>>

CleanupEnds ==
  /\ pc = "clean" /\ Mark("cleanup") /\ pc' = "poll"
  /\ UNCHANGED <<place, processes, passes, telemetry, evidence, odd, refused>>

\* qualify_thermal_start polls every 5 ms for a sample after the cleanup.
DeadlineNever == at["cleanup"] + Horizon
Deadline == at["cleanup"] + Stale
FindNewest ==
  /\ pc = "poll" /\ Causal(clock) # {}
  /\ first' = Newest(Causal(clock)) /\ pc' = "mark"
  /\ UNCHANGED <<place, processes, passes, clock, telemetry, at, seen, valid, odd, refused>>
FindSample ==
  /\ pc = "poll" /\ Causal(clock) # {}
  /\ first' = Earliest(Causal(clock)) /\ pc' = "mark"
  /\ UNCHANGED <<place, processes, passes, clock, telemetry, at, seen, valid, odd, refused>>
FindNone ==
  /\ pc = "poll" /\ Causal(clock) = {} /\ clock >= Deadline
  /\ first' = 0 /\ pc' = "mark"
  /\ UNCHANGED <<place, processes, passes, clock, telemetry, at, seen, valid, odd, refused>>

Qualify ==
  /\ pc = "mark" /\ Mark("qualify")
  /\ valid' = Qualifies(first, clock + 1)
  /\ Happens(IF first = 0 \/ Healthy(first, clock + 1) THEN {}
               ELSE IF record[first] \notin Whole THEN {"bad"} ELSE {"stale"})
  /\ pc' = "result"
  /\ UNCHANGED <<place, processes, passes, telemetry, first, seen, refused>>

\* Give up an attempt: the next one, or RuntimeError after the last.
Fresh ==
  /\ clock' = 0 /\ record' = [t \in Times |-> "none"] /\ flying' = 0 /\ hot' = FALSE
  /\ at' = [m \in Marks |-> 0] /\ first' = 0 /\ seen' = 0 /\ valid' = FALSE
RetryAlways ==
  /\ attempt' = attempt + 1 /\ pc' = "prepare"
  /\ Fresh /\ UNCHANGED <<driver, block, processes, passes>>
Retry ==
  /\ attempt < MaxAttempts /\ attempt' = attempt + 1 /\ pc' = "prepare"
  /\ Fresh /\ UNCHANGED <<driver, block, processes, passes>>
Abort ==
  /\ pc' = "aborted" /\ measured' = "gone" /\ heaters' = "gone" /\ flying' = 0
  /\ UNCHANGED <<place, passes, clock, record, hot, at, evidence>>
GiveUp == Retry \/ (attempt = MaxAttempts /\ Abort)

\* The result mark, behind require_processes_paused.
Result ==
  /\ pc = "result" /\ measured = "paused" /\ flying = 0 /\ clock < Horizon
  /\ refused' = (refused \/ ~Replays(at["qualify"], valid))
  /\ UNCHANGED odd
  /\ IF valid
       THEN /\ Mark("result") /\ pc' = (IF driver = "guard" THEN "open" ELSE "release")
            /\ UNCHANGED <<place, processes, passes, telemetry, evidence>>
       ELSE GiveUp

OpenBlock ==
  /\ pc = "open" /\ Mark("open") /\ pc' = "release"
  /\ UNCHANGED <<place, processes, passes, telemetry, evidence, odd, refused>>

\* The release mark and the first handoff check.  The guard tries again when it is late.
\* Nobody looks back at the stretch from the boundary.
Unwatched(r) ==
  (IF Silent(at["boundary"], r) THEN {"sparse"} ELSE {})
    \cup (IF hot THEN {"hot"} ELSE {})
Release ==
  /\ pc = "release" /\ flying = 0 /\ clock < Horizon
  /\ UNCHANGED refused
  /\ IF Timely([at EXCEPT !["release"] = clock + 1])
       THEN /\ Mark("release") /\ pc' = "resume" /\ Happens(Unwatched(clock + 1))
            /\ UNCHANGED <<place, processes, passes, telemetry, evidence>>
       ELSE /\ UNCHANGED odd
            /\ IF driver = "guard" THEN GiveUp ELSE Abort

\* The guard marks that it is about to continue the processes; then SIGCONT.
Resume ==
  /\ pc = "resume" /\ measured = "paused"
  /\ IF driver = "guard" THEN Mark("resume") ELSE UNCHANGED <<clock, at>>
  /\ measured' = "running" /\ pc' = "run"
  /\ UNCHANGED <<place, heaters, passes, telemetry, evidence, odd, refused>>

\* The critical process takes the measurement's start from the clock, past the monitor.
Begin ==
  /\ pc = "run" /\ measured = "running" /\ clock < Horizon
  /\ clock' = clock + 1 /\ at' = [at EXCEPT !["begin"] = clock + 1]
  /\ pc' = "collect"
  /\ UNCHANGED <<place, processes, passes, telemetry, evidence, odd, refused>>

\* collect_json, validate_actual_thermal_start and the second handoff check.  The
\* guard throws a thermally invalid block away and runs it again.  Unhealthy telemetry of
\* the measurement stops no driver: the governor fails closed in its feedback only, the
\* others do not look.
NextBlock ==
  /\ block < MaxBlocks /\ block' = block + 1 /\ attempt' = 1 /\ pc' = "prepare"
  /\ measured' = "paused" /\ passes' = passes
  /\ Fresh /\ UNCHANGED <<driver, heaters>>
Verdict(u) == StartsWell(u, at["begin"]) /\ Timely(at)
Accept(u) ==
  /\ seen' = u /\ valid' = TRUE /\ pc' = "accepted" /\ measured' = "gone"
  /\ UNCHANGED <<place, heaters, passes, clock, telemetry, at, first>>
Reject == IF driver = "guard" THEN NextBlock \/ (block = MaxBlocks /\ Abort) ELSE Abort
LastSample ==
  LET before == Samples(at["cleanup"], at["begin"])
  IN IF before = {} THEN 0 ELSE Newest(before)
Missed == flying # 0 /\ flying < at["begin"]
Collect ==
  /\ pc = "collect"
  /\ \E flaw \in {"none", "sick", "unread"} :
       /\ Happens({flaw} \cup (IF Missed THEN {"across"} ELSE {})
                    \cup (IF LastSample # 0 /\ record[LastSample] \notin Whole THEN {"bad"} ELSE {}))
       /\ refused' = (refused \/ flaw \in RunRefused \/ Missed
                        \/ ~StartReplays(at["begin"], LastSample, StartsWell(LastSample, at["begin"])))
  /\ IF Verdict(LastSample) THEN Accept(LastSample) ELSE Reject

\* A timeout, a failed start, barrier or collection, telemetry that is unhealthy or hot
\* while heating, a mark that cannot be written: everything is stopped on the way out.
Raise ==
  /\ pc \notin Over /\ Abort
  /\ UNCHANGED <<odd, refused>>

\* The 900 s of the heating load.
HeatTimesOut == pc = "heat" /\ Raise

\* A measured process may die while it waits.
Dies ==
  /\ pc \notin Over /\ measured = "paused" /\ measured' = "gone"
  /\ UNCHANGED <<place, pc, heaters, passes, clock, telemetry, at, evidence, odd, refused>>

Gone == pc \in {"prepare", "result", "resume"} /\ measured = "gone" /\ Raise

-----------------------------------------------------------------------------
Driver ==
  \/ StartHeaters \/ (\E stable \in BOOLEAN, flaw \in Flaws : Check(stable, flaw))
  \/ Boundary \/ StopHeaters \/ CleanupEnds \/ FindSample \/ FindNone \/ Qualify
  \/ Result \/ OpenBlock \/ Release \/ Resume \/ Begin \/ Collect \/ Gone

Stopped == pc \in Over /\ UNCHANGED vars

Next == Driver \/ HeatTimesOut \/ Raise \/ Dies \/ Stamp \/ Write \/ TimePasses \/ Stopped

Spec == Init /\ [][Next]_vars

\* The driver keeps running, a heating load has its timeout, the recorder gets its
\* lock, and time passes.
FairSpec == Spec /\ WF_vars(Driver) /\ WF_vars(HeatTimesOut) /\ WF_vars(Write) /\ WF_vars(TimePasses)

-----------------------------------------------------------------------------
(* Properties *)

\* Every variable keeps its type; the stamps never leave the horizon.
TypeOK ==
  /\ driver \in Drivers /\ block \in 1 .. MaxBlocks /\ attempt \in 1 .. MaxAttempts
  /\ pc \in Timed \cup Over \cup {"prepare", "heat", "boundary"}
  /\ measured \in {"paused", "running", "gone"} /\ heaters \in {"running", "gone"}
  /\ passes \in 0 .. Endpoints
  /\ clock \in Times /\ flying \in Times /\ first \in Times /\ seen \in Times
  /\ record \in [Times -> Kinds \cup {"none"}]
  /\ at \in [Marks -> Times]
  /\ valid \in BOOLEAN /\ hot \in BOOLEAN
  /\ odd \in BOOLEAN /\ refused \in BOOLEAN

\* The samples that were in the record, or on their way to it, before t.
Complete(s, t) == Samples(s, t) \cup ({flying} \cap (s + 1) .. t)

\* An accepted measurement had a qualified start, judged by the record alone once it
\* is complete, whatever was still on its way to the monitor at each decision: the
\* first sample after the cleanup is the qualification's, in the band and in time;
\* the last one before the start is the one that was judged, unless the reader refuses
\* the record, and then at most one came after it; the marks are in order; and the start
\* lies within the handoff limit of the heating's end.
StartIsQualified ==
  pc = "accepted" =>
    /\ Complete(at["cleanup"], at["qualify"]) # {}
    /\ Earliest(Complete(at["cleanup"], at["qualify"])) = first
    /\ record[first] = "good" /\ first - at["cleanup"] <= Stale
    /\ Cardinality({u \in Complete(at["cleanup"], at["begin"]) : seen < u}) <= (IF refused THEN 1 ELSE 0)
    /\ record[seen] = "good" /\ first <= seen /\ at["begin"] - seen <= Stale
    /\ at["boundary"] < at["cleanup"] /\ first < at["qualify"] /\ at["qualify"] < at["result"]
    /\ at["result"] < at["release"] /\ at["release"] < at["begin"]
    /\ at["begin"] - at["boundary"] < HandoffMax

\* The measured processes run only after the heating workers are gone, and only behind
\* a qualification of the same attempt that passed and a release that was in time.
MeasuredAlone ==
  measured = "running" =>
    /\ heaters = "gone" /\ passes = Endpoints
    /\ valid /\ Qualifies(first, at["qualify"])
    /\ at["qualify"] < at["release"] /\ at["release"] - at["boundary"] < HandoffMax

\* The offline replay agrees with the run: a record that the driver accepted is refused
\* by its reader only after something that Matters to it names.
ReplayAccepts == pc = "accepted" /\ ~odd => ~refused

\* A run whose telemetry had nothing odd is summarised: the summary finds the markers
\* of every epoch (validate_epoch_telemetry, test_mig_slack_summary.py:1531).
AcceptedRunIsSummarised == pc = "accepted" /\ ~odd => ~refused /\ MarkersFound

\* Every run ends, accepted or with an error, and leaves no process behind, stopped
\* or running: no attempt waits for a sample for ever.
RunEnds == <>(pc \in Over /\ measured = "gone" /\ heaters = "gone")
=============================================================================
