# QUIET on Jetson Thor: TLA+ models and proofs

QUIET protects latency-critical inference on a Jetson AGX Thor whose GPU is cut
into MIG instances. A governor (Python) starts best-effort TensorRT workers
beside a critical one, stops them around each critical burst, and moves their
share of the GPU up and down between measured epochs. Split models run as two
processes, one per MIG instance, that hand activations to each other through
shared memory. What makes this hard is process control: signals, `/proc` polls,
pipes that end, shared words that two processes write, deadlines, and failures
between any two of these steps.

This directory models that process control, checks it with TLC and proves the
central invariants with TLAPS. Paths below are relative to the repository.

## Inventory

| component | state it keeps | operations | hard behaviours | what makes it correct |
|---|---|---|---|---|
| Activation ring, `benchmarks/mig_sysmem_ring.cu` | three shared slots (state, sequence, owner, payload), alive/ready/start words, counters, one event per ticket | publish, claim, verify, release, reclaim stale slots, verdict | two writers per word without locks, a peer that dies or is taken for dead, CAS races, deadlines | each ticket verified whole and once, no ABA, `ok` and `fault-ok` mean what they say, the run ends |
| Whisper pipeline, `benchmarks/mig_whisper_asr.cpp` | a slot per outstanding request, six pipes, gate processes | encode under a stopped gate, transfer, decode, acknowledge, collect, terminate | end of file and SIGPIPE as failure detection, exceptions between SIGSTOP and SIGCONT | no activation overwritten while it is decoded, no gate process left stopped, `ok` means everything decoded |
| Gated epoch, `benchmarks/trt_inference.cpp` and `run_policy` in `runtime/mig_slack_governor.py` | signal flags, stopped processes, dependency pipes, the governor's phase | start barrier, cooperative pause and drain, burst, resume, collect, stop workers | a flag read and a `raise` or `nanosleep` are two steps, SIGCONT overtaking a stop, drain deadlines, blocked writes | the critical process infers alone, every pause ends, every epoch ends with all processes gone |
| Slack feedback, `runtime/mig_slack_governor.py` | admission, quota and borrower limits, safe-epoch counter | plan, guard check, reclaim, hold, recover, fail closed | long mixes of violations and recoveries | tenants keep being served, capacity is withdrawn fast and given back slowly, plans stay inside the guard profile |
| Split TensorRT pipeline, `benchmarks/mig_trt_pipeline.cpp`, under `scripts/run_p9_dependent_stress_smoke.py` | mapping, transfer/ack/result pipes, gate scope and mode, the background's flags and its stop, the driver's timeout | start the background, pause, infer, publish, consume, resume, acknowledge, stop, kill | pause and resume in different processes, a flag read before a `raise`, an orphan that outlives the killed main | the stages in scope run alone, a success answered every request from its own activation, nothing stays stopped |
| Orion scheduler, `OrionBackground` in `mig_trt_pipeline.cpp` and `baselines/orion/driver_capture` | a thread, two condition variables, a stop flag; client queues and profile | start, ready, work, shutdown, join; submit, schedule | a notify without the mutex | the producer never waits for ever, except after a lost wake-up (thread modelled, scheduler not) |
| DAG contract and stage planner, `runtime/quiet_*_dag.py` | stage graph, candidate plans | validate, select, actuate | rejection of every malformed graph | not modelled yet |
| Other governors, `runtime/{full_gpu,mig,multimodal}_governor.py` | one limit each | reduce, recover | as the slack feedback | not modelled yet |
| Thermal start, `run_thermal_load` to `validate_actual_thermal_start` in `runtime/mig_slack_governor.py`, `runtime/profile_p9_guard.py`, over the monitor of `runtime/tegrastats_telemetry.py` | attempts, marks, samples in the monitor's record, measured and heating processes | heat, mark the boundary, clean up, qualify, release, resume, judge the start, retry | a recorder thread that stamps before it waits for the lock, decisions on a record that still grows, retries with processes stopped | an accepted measurement had a qualified start whatever was in flight; measured processes run behind a passed qualification only |
| Evidence replay, `analysis/summarize_mig_slack_governor.py`, `freeze_p9_deadline.py`, `freeze_p9_guard.py` | the recorded file and markers | replay the heating, each attempt, the start; look up markers | three re-implementations of the run's decisions, each with conditions of its own | a reader accepts what its driver accepted |
| BLESS squads, `baselines/bless` | kernel queue, squads | build a squad, pick a split | pure algorithm with budget boundaries | not modelled yet |
| Reboot one-shots, `scripts/run_p?_after_reboot_once.sh` | marker files, a systemd unit | arm, run once, disarm | a reboot between any two steps | not modelled yet |
| Other profiling, other baselines, configuration scripts, CUDA measurements, the rest of `analysis/`, headers | files | sequential | none of the above | left out |

They meet as follows. The governor plans an epoch from the feedback state (calls
within one process), starts the workers and the critical process (fork, stopped
at a barrier), which signal each other and are joined by dependency pipes; the
epoch's result is the feedback's input. The Whisper and TensorRT pipelines and the
ring are programs of their own: a parent and two children over pipes or shared
memory, with the governor's workers as gate processes. Two models compose what the
programs of one invocation do together: the stress scenario is the Python driver, the
pipeline's three processes and the TensorRT background that they gate; the thermal
start is a driver, the recorder thread of its monitor and the offline reader of its
record. Elsewhere each model covers one program, and where the seam is, the other side
is nondeterministic.

## Modules

| module | what it is |
|---|---|
| `SysmemRing` | producer, consumer and parent of the ring, one action per atomic access that the other side can see |
| `TicketHandoff` | what the ring promises: tickets pass in order, at most once, at most three in flight |
| `MCSysmemRing`, `SysmemRingProofs`, `SysmemRingVerdictProofs` | its TLC instance, the theorems about its protocol, those about the verdict and the refinement |
| `SlackFeedback` | one policy of `run_policy`, epoch by epoch |
| `SummaryReplay` | the same loop with the measured facts that choose the feedback, and the summary's own computation of plan, guard, edges and transition |
| `MCSlackFeedback`, `SlackFeedbackProofs`, `SummaryReplayProofs` | the TLC instance of both (the guard profile of the unit test), the theorems |
| `WhisperPipeline` | encoder, decoder, parent, gate processes and the kernel's side of their signals |
| `CreditWindow` | what the acknowledgements of both pipelines promise: at most `pipeline-slots` (here: one) requests between transfer and end of decode |
| `MCWhisperPipeline`, `WhisperPipelineProofs` | its TLC instance, its theorems |
| `GatedEpoch` | the workers, the critical process and the governor in one epoch |
| `MCGatedEpoch`, `GatedEpochProofs` | its TLC instance, its theorems |
| `StressScenario` | the stress driver, the split pipeline with its Orion thread, and the background process behind the gate |
| `MCStressScenario`, `StressScenarioProofs` | its TLC instance, its theorems |
| `ThermalStart` | a driver's thermal attempts and release, the recorder thread, the reader of the record |
| `MCThermalStart`, `ThermalStartProofs` | its TLC instances, its theorems |

### How state and actions correspond to the code

`PROJECT.json` maps each definition to its lines; this is the outline.

*Ring.* `pc[P]` and `pc[C]` stand at the statements of `producer_main` and
`consumer_main` that touch shared memory; a slot is `state`, `sequence`, `owner`,
`payload`, each written in a step of its own in the order of the code
(`WriteDone`, `MarkReady`, `Publish`; `VerifyDone`, `FreeSlot`, `ReleaseSlot`).
`BeginPass`, `ScanSelect`, `CasAborted`, `ReclaimSlot`, `EndPass` are one pass of
`reclaim_stale_slots`. The payload is the ticket whose bytes it holds. Atomics are
sequentially consistent in the model; the code's acquire/release pairs are on the
word that publishes the others.

*Feedback.* `Prepare` is the head of the epoch loop (offered tenants, plan, guard and its
check against the period), `MeasurementRaises` any error of the epoch, and one action per
branch of `update_feedback` and `fail_closed_feedback` ends it. `fb` is `FeedbackState`;
`calm` and `strikes` are history variables. `SummaryReplay` adds what decides the branch:
`Facts` are the five conditions that `run_policy` derives from the critical process's
report and the telemetry, `report` the epoch's record. `Expected...`, `Transition` and
`ValidState` are translated from the summary, not from the governor; the two only meet
in the property.

*Whisper.* Each child's `pc` stands between the calls that another process can
notice. A pipe is a counter of what was written and read; `Alive` of the only
holder of the other end decides end of file and SIGPIPE. A gate process is `run`,
`stopping` (SIGSTOP sent), `stopped`, `waking` (SIGCONT sent, `/proc` still reads
T), `zombie` or `gone`: a signal and its effect are two steps.

*Gated epoch.* `wpc[w]` follows `measure()` of a worker. `Honors` (clear the flag)
and `Raise` (stop) are two steps, and so are the look at the flag (`Sleep`, `Rest`)
and `nanosleep` (`Nap`): these are the two races of the protocol. `stopped` is the
set of processes `/proc` shows in state T; a signal handler runs at once, which
differs from a pending signal only for a stopped process, which cannot look.
`gov` is the statement of `run_policy` that is next. `lapse` is a history variable:
which of the governor's or the gate's deadlines failed.

*Stress scenario.* `run` holds the options of `parse_options` and the driver's table
that change the protocol: dependent or independent mode, gate scope and mode, a
background process admitted or not, the Orion thread. `pc[P]`, `pc[C]` are the
children's statements between two calls that another process can notice; `main`,
`ready`, `go`, `collected` are `main()` after its forks; pipes are counters as in the
Whisper model. `bpc` is the loop of `measure()` with the two steps of
`honor_pause_request` (`Honor` clears the flag, `Raise` stops), `halt` what `/proc`
shows (`stopping` and `waking` are signals in flight), `pause` and `stop` its flags.
`worker`, `started`, `quit` are `OrionBackground` with its predicate and its wait as
two steps (`Predicate`, `Park`). `driver` is the scenario loop; `PipelineTimesOut` is
`subprocess.run`'s timeout, which kills main and leaves its children.

*Thermal start.* `pc` is the driver's next statement, the same one for the three
programs where they call the same function (`run_thermal_load`,
`qualify_thermal_start`); they differ in what a failed qualification, a late release
or a bad start leads to (`GiveUp`, `Release`, `Collect`). A time stamp costs a unit of
`clock`; `record[t]` is the sample with stamp `t`, and `flying` the one whose stamp is
taken while its writer waits for the monitor's lock (`Stamp`, `Write`). A sample is
`good` (in the band), `off`, or `bad` (a required value is missing); what the hard
limit and a failed memory reading change is remembered apart (`hot`, and `odd`). `at`
holds the marks of the attempt. `run_calibration_set` is two drivers, because its record
has two readers: by itself (`calibration`) the deadline freezer, before and after the
policies of a formal run (`repeat`) the summary. The replay is not a process: the reader's decision about each
attempt and about the start is computed where the driver's decision falls, from the
whole record, and `refused` remembers it; `odd` remembers whether something happened
that is listed in `Matters`, below.

*Feedback.* `fb` is `FeedbackState`; one action per branch of `update_feedback`,
in its order. Measured values do not appear: any branch may be the next one.
`calm` and `strikes` are history variables.

## Runs

All passing runs check for deadlock; stopping is an explicit stuttering action
that only a finished system can take.

| run | instance | distinct states | what it shows |
|---|---|---|---|
| `ring` | 5 requests, an injected fault at ticket 0, 2 or 3, or none, device failures, crashes | 344,155 | type, whole and single verification (`VerifiesItsTicket`), slots overwritten only when free and sequence numbers never reused (`SlotsTurnOver`), verdicts (`OkMeansDelivered`, `FaultOkMeansRecovered`), refinement of `TicketHandoff`, termination (`RunEnds`) |
| `ring_normal_run` | nothing injected | violation | a normal run can lose its last tickets |
| `ring_fault_run` | consumer killed before ticket 1 | violation | `fault-ok` with a slot not reclaimed |
| `slack_feedback` | 7 policies, 48 epochs, every combination of facts | 102,100 | no plan starves or splits a pair of tenants, reclaim in seven epochs, earned recovery, the start-up guard check, and the summary's plan, guard, edges, state and action are the governor's (`SummaryReplaysRun`) |
| `slack_envelope` | the governor, 12 epochs | violation | plans outside the calibrated envelope |
| `whisper` | 5 requests, windows 1 and 3, 2 gate processes, every failure | 184,672 | the encoder alone, whole activations, verdict, refinement of `CreditWindow`, nobody waits in a circle (`NoCircularWait`), nothing is tried for ever (`StepsRunOut`), every pause and every run ends |
| `whisper_lost_child` | 2 requests, crashes only | violation | a child lost before it is ready hangs main |
| `gated_epoch` | 2 workers, 1 pipe of 1 token, 3 requests in bursts of 2, every failure | 171,060 | the critical process alone, no stale pause, the gate left open, kills explained, every epoch ends |
| `sleeping_worker` | the same, nothing fails | violation | a pause can wait for a worker's next release |
| `stress_scenario` | 2 requests, both modes, 4 scopes, both gate modes, with and without background and Orion thread, every failure | 260,171 | the stages in scope alone, whole activations, verdict, a kill only after a failure, refinement of `CreditWindow`, the driver leaves nothing behind |
| `thermal_start` | three drivers, 2 attempts, 2 blocks, 3 checks | 1,486,950 | an accepted start is a qualified one, measured processes alone, the replay agrees, every run ends |
| `thermal_summary` | the governor, one attempt | violation | the summary refuses the markers of every governor run |

**Bounds.** `Requests = 5` wraps the three-slot ring: two slots serve a second ticket,
so that a stale sequence number, a late release and a reclaim meet a successor in
the same slot, while the third slot is left after its first. `Total = 5` does the same for the window of three; a window of one
is reused four times. Two gate processes are the least for which one can be
stopped and the other not, or gone. In the epoch, three requests in bursts of two
give a full burst and one that the end cuts short, hence two pauses; two workers
give any/all differences and one dependency edge; a pipe of one token is full as
soon as the downstream worker is paused (a pipe of the system holds 65,536, which
only makes the block rarer). 48 epochs let the governor lose all of its
capacity (7 strikes) and earn it back (13 steps, three safe epochs each); the
default of the scripts is 12. In the stress scenario the second request is the first
one that meets an acknowledgement, a cleared pause flag and a mapping in use; with a
window of one, the third meets nothing else. In the thermal start a unit of time is a third
of `TELEMETRY_STALE_AFTER_MS` (`Stale = 3`): a sample is fresh, as old as the limit, or
too late, and a run from the boundary to the release can have a silence or none; the
handoff limit of 10 lies above the shortest handoff and below the longest; `Latest` says up to when time passes by itself in each phase (a bound: the
phases it gives 0 only take the stamps of their own marks), and `Horizon = 16` is above
every stamp that results. Two attempts and two blocks (of the code's three)
are the least that have a first and a last one; the three stable endpoints are the code's.
The `repeat` driver is left to the theorems: no property of this run tells it from the
governor, whose steps and reader it shares. Constants `Requests`, `Total`, `Samples` and `Epochs` are
program options, so these bounds cut no counter of the code.

**Fairness.** Every process is weakly fair: the operating system schedules it, and
none of the modelled code waits for a lock. The kernel completes a stop or a wake-up. In the
ring, a deadline that is looked at again and again passes (strong fairness of
`WaitTimesOut` and `ReclaimDeadline`, because the poll in between disables them).
Exceptions, crashes, a killed main and the governor's collection timeout get no
fairness: no property relies on them. Deadlines that end a loop of the code belong to
the fair steps of the process that polls them, because that loop does end: the
readiness deadline of the ring, the 100 ms polls of `PauseFails` and `ResumeFails`,
the barrier's deadline (`GovBarrierFails`), the guard deadline of `CDrainTimesOut`
and the 30 s of `GovKill`, and in the stress scenario the gate's deadlines, main's 30 s
and `KillBackground`. The thermal start adds that time passes (`TimePasses`), that the
recorder gets its lock (`Write`; it is held for a list operation), and the 900 s of a
heating load that never converges (`HeatTimesOut`). The driver's 180 s get no fairness:
the pipeline must end without them.

## What the code does not keep

- `mig_sysmem_ring.cu:492`: a consumer that polls its slot, then sees the producer
  dead, leaves without a second look; the last tickets of a normal run stay unread
  and the verdict is `error`.
- `mig_sysmem_ring.cu:459`: the reclaim loop ends with the first pass that
  reclaimed anything; a younger slot stays READY though main prints `fault-ok`.
- `mig_slack_governor.py:709`: the comment's "never exceed the calibrated
  three-resident envelope" holds for recovery only; reclaim lowers the quota while
  six tenants are admitted.
- `mig_whisper_asr.cpp:1185`: main's branch for a failed readiness read cannot be
  taken while the other child lives; both wait for ever.
- `trt_inference.cpp:77`: a pause signal between the look at the flag and
  `nanosleep` waits for the release, though the performance plan says it is
  acknowledged while sleeping.
- `mig_slack_governor.py:2677`: the epoch markers of `run_policy` carry `scenario`;
  `unique_marker` of the summary (`summarize_mig_slack_governor.py:2269`) compares the
  whole metadata with `{policy, epoch}`, as `tests/test_mig_slack_summary.py:1531`
  writes it, and so refuses the telemetry of every run.

The replay of a thermal start also refuses records that the driver accepted, in cases
that the code may intend. `Matters` names them, and `ReplayAccepts` says that there are no
others in what is modelled: the telemetry of the governor's first epoch, of a calibration
repeat and of a guard block, from the heating to the measurement's end.

| case | refused by | why |
|---|---|---|
| a check of the heating load that failed for lack of samples (`short`) | summary, deadline freezer | both want a healthy aggregate of every check |
| a passed check with an incomplete sample (`patchy`) | deadline freezer | its readers take the temperature of every sample |
| while heating, an incomplete sample with the highest temperature (`peak`) | deadline freezer, guard freezer | the driver's aggregate counts complete samples only; the guard freezer takes the maximum of all |
| while heating, an incomplete sample at the hard limit (`torn`) | all | the same; the summary looks for the limit in every sample |
| a boundary mark that is stale against the last check (`late`) | summary, deadline freezer | the aggregate is taken at the mark |
| a sample whose memory reading failed, anywhere (`unread`) | deadline freezer, guard freezer | their loaders want no collection error in the file; the monitor records it and goes on |
| an attempt that failed on an incomplete sample (`bad`) | all | no temperature to compare |
| an attempt that failed on a sample that came too late (`stale`) | summary | wants a healthy aggregate of failed attempts too |
| a sample between the last look and the mark of an attempt that found none (`slipped`) | all | the reader finds a sample in the interval |
| a second sample before the qualification's mark (`second`) | guard freezer | aggregates the one sample alone; the runtime's aggregate also reports the newest |
| from the boundary to the release, no complete sample for more than 300 ms (`sparse`), or one at the hard limit (`hot`) | summary | `validate_raw_safety_interval`; the driver looks at the first sample after the cleanup and at the last one before the start |
| a sample stamped before the start and written after the result was read (`across`) | all | it is now the newest before the start |
| a silence or a limit in the telemetry of the measurement itself (`sick`) | summary, guard freezer | `run_policy` fails closed in its feedback and goes on, `run_calibration_set` and a guard block do not look |

Two races of the stress scenario end the program late or never, and the properties
name them: a shutdown of `OrionBackground` that notifies between the thread's predicate
and its wait (`LostWakeup`; `join()` does not return), and an orphaned child that
pauses the background after the driver has continued it (the driver's kill ends it).

## What is proved

The theorems hold for every value of the constants under the assumptions that the
modules name: `RingAssumption`, `FeedbackAssumption`, `WhisperAssumption`,
`EpochAssumption`, `StressAssumption`, `ThermalAssumption`. They state what argument parsing enforces, and TLC evaluates them.

*Ring* (`SysmemRingProofs`, `SysmemRingVerdictProofs`). `VerifiesItsTicket` is not
inductive: it needs to know where the producer can be relative to the consumer. `RingInv`
says it: counters and tickets lag each other by at most the ring (`Positions`), each of
the three tickets from the first unreleased one has its slot in a state that fits how far
both sides are (`SlotContents`), and the slot the producer writes is free
(`SlotInHand`). With type correctness it is inductive (`RingInvariant`, `TypeCorrect`)
and gives `VerifiedWhole` and `SlotsKept`.

A verdict is read off counters and exit statuses, of which `RingInv` knows nothing.
`VerdictInv` ties them to the rest: the counters are the positions (`Counted`), a producer
that reclaims has tickets left and never returns to its loop (`Reclaiming`), the event log
says "done" of exactly the verified tickets, but for those written off (`Recorded`), slots
of tickets still to come are free (`StatesFit`), an exit code of main's own means that the
end was reached (`Leaves`), the consumer never passes the injected fault (`FaultPoint`),
and what the parent read still holds when it decides (`Verdicts`). It is inductive with
`RingInv` (`VerdictInvariant`) and gives `OkDelivered`, `FaultOkRecovered` and, step by
step, the refinement of `TicketHandoff` (`RingIsHandoff`).

The attempt to prove `FaultOkMeansRecovered` showed that an earlier form of it, with a
ticket left published at the fault, was too strong: a consumer that is taken for dead
before it sets its alive flag may still empty the whole ring, also of tickets that the
producer writes off, and reach a fault point of 3. The run then prints `fault-ok` with
`published = completed`. The instance includes that fault point since.

*Feedback* (`SlackFeedbackProofs`). The safe counter never runs ahead of the calm
epochs, which makes a rise earned (`RecoveryEarned`); each strike lowers the sum
of the limits or finds it at the floor (`FloorReached`); prefixes of the tenant
list contain an audio tenant with its language tenant (`TenantsServed`).

Guards are sums over sets of tenants, defined by recursion over subsets. No induction
over data is needed for them: there are at most six tenants, so the sum is written out
term by term (`Total`), shown to solve the recursion (`SumExists`), and shown to be its
only solution for sets of up to one, two, ... six tenants (`SumStep`, `SumUnique`). A
bound on each weight then bounds the guard of a plan (`GuardFits`), and the start-up
check covers every plan but the listed ones (`StartupCovers`).

`SummaryReplayProofs` shows that the loop whose facts choose the branch only does what
`SlackFeedback` allows (`FactsRefine`), so these theorems hold of it; that the summary's
transition is the governor's (`FeedbackReplays`); and that its plan, guard and edges are,
in every epoch of every policy (`RunReplayed`). The two sides sum different things, tenants
and recorded identities; both sums are `Total` of the same weights (`ProfiledSum`).

*Whisper* (`WhisperPipelineProofs`). `WindowInv` orders acknowledgements, decodes and
transfers (`Counts`) and fixes the contents of every slot between (`Contents`,
`Results`); two requests less than a window apart have different slots, so
`ActivationWhole`, `OkSound` and the refinement `WindowImplemented` follow.
`GateInv` lists where a gate process can be at each step of the producer and gives
`EncoderAlone` and `NoGateLeftStopped`.

Of the run's end, the two parts that need no fairness are proved. Nobody waits in a circle
(`NobodyWaitsInCircle`): `CreditsExact` says that an encoder that asks for a credit has
read exactly the ones before it, so with `WindowInv` it and the decoder cannot both find
their pipes empty; `HandshakeInv` counts the Ready messages and goes, so main cannot miss
one but by the death of the child that owed it, which is the state of
`whisper_lost_child`. `CreditsExact` is inductive with `Counts`, `HandshakeInv` with type
correctness (`WaitAlways`). And nothing is tried for
ever (`NothingRetriedForEver`): `StepsLeft` weighs what main, encoder and decoder still
have to do, 7 steps for a request to encode, 3 for one to decode, and every one of their
steps, the failures, deaths and handlers included, lowers it and never below zero.
The gate processes' own transitions are bounded between two signals. Both hold for any
number of requests and gate processes. What is missing to `RunEnds` is that a process
that is not blocked has an enabled step and, by weak fairness, takes it; there ENABLED
comes in, and TLC checks `RunEnds` as a whole.

*Epoch* (`GatedEpochProofs`). `InfersAlone`: before its release the critical process
has no request behind it (`NotReleased`), in the middle of a burst its gate stays
closed (`BurstKeepsGate`), and the governor continues workers only before the
release and after the critical process is gone (`CriticalFirst`). That says who is
stopped while the critical process infers, and nothing of who will still stop.
`PauseInv` does, phase by phase: at the barrier a worker is before its first stop, in it,
or gone (`BarrierInv`); released workers have left it and are not asked to pause again
before the critical process runs (`ReleasedInv`); while that one runs, a pause is on its
way only in a drain and somebody is stopped only inside a burst (`BurstInv`); after it,
nobody is (`ReapInv`); the last two say so as long as no deadline has failed. Every step
keeps `PauseInv` (`PausesKept`), and it gives `GateOpened` and, with what a full pipe
does to a worker told to stop (`KillInv`), `KillExplained`.

*Stress scenario* (`StressScenarioProofs`). The inductive `Inv` has three parts. `ServedInv`:
`Counts` orders what was acknowledged, answered, taken and sent, never more than one
apart, `Contents` ties the mapping to the request in hand, and `Verdicts` says what an
outcome stands on; they give `ActivationWhole`, `WindowImplemented` and `OkSound`.
`GateInv` says when the gate is shut in each scope (`Shut`) and that its target is not
still waking up where the next pause polls for it (`Calm`), also after a child died
(`StagesProtected`). `TidyInv` says that no stop is on its way outside a pause
(`KillExplained`).

*Thermal start* (`ThermalStartProofs`). The one hard fact is that a decision taken on a
growing record stays right. Stamps only grow and the sample in flight is later than
every mark (`Stamped`), marks are in the order of the code (`Ordered`), and so what was
the first sample after the cleanup stays it (`FirstKept`). `StartInv` adds what each
phase has decided and gives `MeasuredAloneAlways`; `StartKept`, that the start was
judged by the last sample before it up to one in flight, gives `StartQualifiedAlways`.
`NothingOdd` describes a record without the listed cases and `Watched` its stretch from
the boundary to the release, without a silence since nobody writes there any more; for
them the three replays compute what the driver computed (`ReplayAgrees`). The one fact about numbers, that a set
of naturals has a least element, is proved from the library's well-foundedness of `<`.

Every safety invariant, action property and refinement that a passing run checks is a
theorem. Only model-checked is liveness: `RunEnds` of the ring, of both pipelines and of the
thermal start, `EveryPauseEnds` and `EpochEnds`. Their fairness needs ENABLED, which is
beyond the prover; for the Whisper pipeline, the parts of `RunEnds` without it are proved.

## What is not modelled

Time: a wait may time out at any poll that finds nothing, except the 30 s that a
stopping worker gets, which exceed whatever a running worker does. Weak memory
orders. Failures of fork, pipe and mmap. Tensor contents beyond "whose bytes", and
all measurement, tracing and output. In the feedback, `--guard-override-ms` and the
telemetry counters. In the epoch, thermal qualification (see `ThermalStart`), affinity checks and the
validation of results are the barrier's and the collection's failures; the
measurement window's time stamps and the SIGSTOP gate mode are left out.

In the stress scenario, arrival traces, checksums, statistics and activation capture; its
three transports are one mapping, and the policies that pick scope and quota are the
choice of `run`. In the thermal start, sample values beyond the three kinds and
the two flags, the
heating load with a fixed duration (it has no qualification), parsing and bounded
retention of the monitor, the `tegrastats` process, and of the replay everything but
the thermal decisions, the markers and the feedback: workers, latencies, locks and
hashes. A governor epoch after the first has no thermal attempt; what the summary asks of
its telemetry (a stability window before its release without a gap and below the limit,
`summarize_mig_slack_governor.py`:3792-3821, and a safe measurement) is not modelled.

Two places take several accesses of the code in one step. `ReclaimSlot` of the ring
joins the aborted event, the freed state, the next sequence number and the counter
(`mig_sysmem_ring.cu`:430-434): a death of the producer between these stores is not
covered. The verdict of such a run is `error` either way, because both successes ask that
the producer exited with 0. `Shutdown` of the stress scenario joins the store of the stop flag
and the notify (`mig_trt_pipeline.cpp`:1265-1266); what the thread can do in between,
find the flag set or park and be woken, it can also do right after or right before.

Not modelled at all: the scheduler of the Orion baseline (`driver_capture`), the DAG
contract and stage planner, the three governors with one limit, BLESS, the reboot
one-shots, and the rest of `analysis/`. The last is most of the repository's lines
(over 30,000): validation and plotting of recorded files, without state between calls,
whose content is the wording of hundreds of field checks. A model of it would restate
each check, which is why the map covers only about a sixteenth of the repository.

## What is left of the plan

1. `DagContract` and `StagePlanner`: validation as an operator against a reference
   definition over all graphs of up to four stages; selection and actuation as actions.
2. `OrionScheduler`: client queues and admission by profile, composed with the thread
   of `StressScenario`.
3. Governors with one limit, as an instance of a shared abstract reclaim/recover
   controller that `SlackFeedback` also implements.
4. The measurement window of an epoch: time stamps of release, start and end in
   `GatedEpoch`, and the governor's check of their order (`run_policy`, line 2985).
5. `RebootOnce`: marker and unit across reboots; `BlessSquads`.
6. Proofs: the controller refinement of 3, and the protocol facts of the modules above.
