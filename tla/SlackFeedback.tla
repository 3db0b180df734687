---------------------------- MODULE SlackFeedback ----------------------------
(***************************************************************************)
(* One policy of runtime/mig_slack_governor.py: run_policy() plans every   *)
(* epoch from a feedback state, refuses a plan whose pause guard does not  *)
(* fit the critical period, measures it, and lets update_feedback() or     *)
(* fail_closed_feedback() move the state.  Which of the measured values    *)
(* triggers which branch is left to chance: the environment decides how    *)
(* the critical task fares.  Times are in tenths of a millisecond.         *)
(***************************************************************************)
EXTENDS Integers, FiniteSets, FiniteSetsExt

CONSTANTS
  Policies,        \* the policies to run, one per behaviour
  Epochs,          \* --epochs
  PeriodMs,        \* --period-ms
  ResidentGuard,   \* guard lock: quota index -> modality -> guard of one tenant
  BorrowerGuard    \* guard lock, quota 100: modality -> guard of one tenant

KnownPolicies == {"static-mig", "resident-full-gate", "same-mig",
                  "uncoordinated-borrow", "fixed-borrow", "fixed-full-gate",
                  "mig-governor"}
Modalities == {"audio", "language"}
FullQuota == 2                       \* index into RESIDENT_QUOTAS = (25, 50, 100)
MaxTenants == 6
CalibratedResidents == 3             \* held-out cases at quota 25 and 50

\* maximum_profiled_guard_ms(): six residents at full quota, or three and three.
MaximumProfiledGuard ==
  LET worst(guard) == Max({guard[m] : m \in Modalities})
  IN Max({6 * worst(ResidentGuard[FullQuota]), 3 * worst(BorrowerGuard)}
           \cup {3 * worst(ResidentGuard[q]) : q \in 0 .. FullQuota})

\* What validate_args() and guard_profile_from_lock() insist on.
ASSUME FeedbackAssumption ==
  /\ Policies \subseteq KnownPolicies
  /\ Epochs \in Nat \ {0}
  /\ PeriodMs \in Nat
  /\ ResidentGuard \in [0 .. FullQuota -> [Modalities -> Nat \ {0}]]
  /\ BorrowerGuard \in [Modalities -> Nat \ {0}]
  /\ MaximumProfiledGuard < PeriodMs

VARIABLES
  policy,
  phase,           \* where run_policy() stands, or why it stopped
  epoch,
  fb,              \* FeedbackState
  plan,            \* PlacementPlan of the current epoch
  calm,            \* history: safe epochs in a row that changed no limit
  strikes          \* history: residual-reclaim epochs in a row

vars == <<policy, phase, epoch, fb, plan, calm, strikes>>

NoPlan == [residents |-> {}, borrowers |-> {}, quota |-> FullQuota]

\* FeedbackState with no safe epoch counted.
Limit(admission, quota, borrowers) ==
  [admission |-> admission, quota |-> quota, borrowers |-> borrowers, safe |-> 0]

Dimensions == {"admission", "quota", "borrowers"}

Init ==
  /\ policy \in Policies
  /\ phase = "prepare"
  /\ epoch = 0
  /\ fb = Limit(MaxTenants, FullQuota, MaxTenants)
  /\ plan = NoPlan
  /\ calm = 0 /\ strikes = 0

Least(a, b)    == IF a < b THEN a ELSE b
Greatest(a, b) == IF a > b THEN a ELSE b

(***************************************************************************)
(* Planning.                                                               *)
(***************************************************************************)

\* The scenario trace: two, four, then six tenants, audio and language by turns.
Offered(e)  == 2 * (e % 3) + 2
Modality(t) == IF t % 2 = 0 THEN "audio" ELSE "language"

BorrowerCountWhole(admitted) ==       \* mutant: not half of the admitted tenants
  CASE policy = "mig-governor" -> Least(admitted, fb.borrowers)
    [] policy \in {"static-mig", "resident-full-gate"} -> 0
    [] OTHER -> admitted

BorrowerCount(admitted) ==
  CASE policy = "same-mig" -> admitted
    [] policy \in {"uncoordinated-borrow", "fixed-borrow", "fixed-full-gate"}
         -> admitted \div 2
    [] policy = "mig-governor" -> Least(admitted \div 2, fb.borrowers)
    [] OTHER -> 0

\* plan_for(): the first tenants are resident, the last admitted ones borrow.
PlanFor ==
  LET admitted  == Least(Offered(epoch), fb.admission)
      residents == admitted - BorrowerCount(admitted)
  IN [residents |-> 0 .. residents - 1,
      borrowers |-> residents .. admitted - 1,
      quota     |-> IF policy = "mig-governor" THEN fb.quota ELSE FullQuota]

GatedResidents == policy \in {"resident-full-gate", "fixed-full-gate", "mig-governor"}
GatedBorrowers == policy \in {"fixed-borrow", "fixed-full-gate", "mig-governor"}

GuardForLowestQuota(p) ==             \* mutant: the guard of another quota
  LET resident(t) == ResidentGuard[0][Modality(t)]
  IN IF GatedResidents THEN MapThenSumSet(resident, p.residents) ELSE 0

\* guard_for(): clients of one MIG instance serialise, the instances do not.
GuardFor(p) ==
  LET resident(t) == ResidentGuard[p.quota][Modality(t)]
      borrower(t) == BorrowerGuard[Modality(t)]
  IN Greatest(IF GatedResidents THEN MapThenSumSet(resident, p.residents) ELSE 0,
              IF GatedBorrowers THEN MapThenSumSet(borrower, p.borrowers) ELSE 0)

\* dependency_pipes_for_plan(): a language tenant waits for the audio tenant
\* before it.
DependencyPipes(p) ==
  LET active == p.residents \cup p.borrowers
  IN {t \in active : /\ Modality(t) = "language"
                     /\ t > 0
                     /\ t - 1 \in active /\ Modality(t - 1) = "audio"}

Prepare ==
  /\ phase = "prepare"
  /\ epoch < Epochs
  /\ plan' = PlanFor
  /\ phase' = IF GuardFor(plan') >= PeriodMs THEN "guard too long" ELSE "measure"
  /\ UNCHANGED <<policy, epoch, fb, calm, strikes>>

\* Any step of the epoch raises: a worker fails, the thermal limit is reached ...
MeasurementRaises ==
  /\ phase = "measure"
  /\ phase' = "raised"
  /\ UNCHANGED <<policy, epoch, fb, plan, calm, strikes>>

(***************************************************************************)
(* Feedback.                                                               *)
(***************************************************************************)

CountCalm(state, safe) ==
  IF safe /\ \A d \in Dimensions : state[d] = fb[d]
  THEN Least(calm + 1, 3) ELSE 0

\* The epoch is over: the state becomes what the controller made of it.
EndEpoch(state, safe, struck) ==
  /\ phase = "measure"
  /\ fb' = state
  /\ calm' = CountCalm(state, safe)
  /\ strikes' = IF struck THEN strikes + 1 ELSE 0
  /\ epoch' = epoch + 1
  /\ phase' = IF epoch' = Epochs THEN "done" ELSE "prepare"
  /\ UNCHANGED <<policy, plan>>

NoFeedback ==
  /\ policy # "mig-governor"
  /\ EndEpoch(fb, FALSE, FALSE)

\* fail_closed_feedback(): the telemetry of the epoch is not healthy.
FailClosed ==
  /\ policy = "mig-governor"
  /\ EndEpoch(Limit(1, 0, 0), FALSE, FALSE)

DrainReclaimToZero ==                 \* mutant: the last tenant is not kept
  /\ policy = "mig-governor"
  /\ GuardFor(plan) > 0
  /\ EndEpoch(Limit(Greatest(0, fb.admission - 1), fb.quota,
                    Greatest(0, fb.borrowers - 1)), FALSE, FALSE)

\* The longest drain came near the guard.
DrainReclaim ==
  /\ policy = "mig-governor"
  /\ GuardFor(plan) > 0
  /\ EndEpoch(Limit(Greatest(1, fb.admission - 1), fb.quota,
                    Greatest(0, fb.borrowers - 1)), FALSE, FALSE)

ReclaimedBorrowersOnly ==             \* mutant: residents keep their share
  IF fb.borrowers > 0 THEN Limit(fb.admission, fb.quota, fb.borrowers - 1)
  ELSE Limit(fb.admission, Greatest(0, fb.quota - 1), 0)

Reclaimed ==
  LET borrowers == Greatest(0, fb.borrowers - 1)
  IN IF fb.quota > 0 THEN Limit(fb.admission, fb.quota - 1, borrowers)
     ELSE Limit(Greatest(1, fb.admission - 1), 0, borrowers)

\* The critical task missed its target, or the instance runs hot.
ResidualReclaim ==
  /\ policy = "mig-governor"
  /\ EndEpoch(Reclaimed, FALSE, TRUE)

\* The p99 latency is within a tenth of the deadline.
HoldNearDeadline ==
  /\ policy = "mig-governor"
  /\ EndEpoch([fb EXCEPT !.safe = 0], FALSE, FALSE)

HoldHysteresis ==
  /\ policy = "mig-governor"
  /\ fb.safe + 1 < 3
  /\ EndEpoch([fb EXCEPT !.safe = @ + 1], TRUE, FALSE)

RecoveredNoReset ==                   \* mutant: the safe epochs count on
  IF fb.quota < FullQuota THEN [fb EXCEPT !.quota = @ + 1]
  ELSE IF fb.admission < MaxTenants THEN [fb EXCEPT !.admission = @ + 1]
  ELSE IF fb.borrowers < MaxTenants THEN [fb EXCEPT !.borrowers = @ + 1]
  ELSE fb

Recovered ==
  IF fb.quota < FullQuota THEN Limit(fb.admission, fb.quota + 1, fb.borrowers)
  ELSE IF fb.admission < MaxTenants
       THEN Limit(fb.admission + 1, fb.quota, fb.borrowers)
  ELSE IF fb.borrowers < MaxTenants
       THEN Limit(fb.admission, fb.quota, fb.borrowers + 1)
  ELSE Limit(fb.admission, fb.quota, fb.borrowers)

\* The third safe epoch in a row.
Recover ==
  /\ policy = "mig-governor"
  /\ fb.safe + 1 >= 3
  /\ EndEpoch(Recovered, TRUE, FALSE)

Stopped == phase \in {"done", "raised", "guard too long"}

Next ==
  \/ Prepare \/ MeasurementRaises
  \/ NoFeedback \/ FailClosed \/ DrainReclaim \/ ResidualReclaim
  \/ HoldNearDeadline \/ HoldHysteresis \/ Recover
  \/ Stopped /\ UNCHANGED vars

Spec == Init /\ [][Next]_vars

(***************************************************************************)
(* Properties.                                                             *)
(***************************************************************************)

Limits == [admission : 1 .. MaxTenants, quota : 0 .. FullQuota,
           borrowers : 0 .. MaxTenants, safe : 0 .. 2]

\* The feedback state keeps within its ranges and the plan names real tenants.
TypeOK ==
  /\ policy \in Policies
  /\ phase \in {"prepare", "measure", "done", "raised", "guard too long"}
  /\ epoch \in 0 .. Epochs
  /\ fb \in Limits
  /\ plan \in [residents : SUBSET (0 .. MaxTenants - 1),
               borrowers : SUBSET (0 .. MaxTenants - 1), quota : 0 .. FullQuota]
  /\ calm \in 0 .. 3 /\ strikes \in Nat

\* Whatever the controller has reclaimed, each measured epoch still runs someone,
\* no tenant runs twice, borrowers never outnumber the residents of a policy that
\* splits, and every language tenant has the audio tenant it waits for.
EpochServesItsTenants ==
  phase = "measure" =>
    LET active == plan.residents \cup plan.borrowers
    IN /\ active # {}
       /\ plan.residents \cap plan.borrowers = {}
       /\ policy # "same-mig" =>
            Cardinality(plan.borrowers) <= Cardinality(plan.residents)
       /\ \A t \in active : Modality(t) = "language" => t \in DependencyPipes(plan)

\* A limit that rises in this step had earned it.
RisesAreEarned ==
  \A d \in Dimensions :
    fb'[d] > fb[d] =>
      /\ calm >= 2
      /\ fb'[d] = fb[d] + 1
      /\ \A other \in Dimensions \ {d} : fb'[other] = fb[other]
      /\ d # "quota" => fb.quota = FullQuota
      /\ d = "borrowers" => fb.admission = MaxTenants

\* Capacity comes back in one dimension at a time and by one step, only after
\* three safe epochs in a row that changed nothing: quota first, then admission,
\* then borrowers (update_feedback's hysteresis).
RecoveryIsEarned == [][RisesAreEarned]_vars

\* Pressure is withdrawn in bounded time: n violated epochs in a row leave at most
\* 6-n borrowers and 7-n quota and admission steps above the minimum, so that
\* seven of them reach the state that a telemetry failure is given at once.
ReclaimReachesFloor ==
  /\ fb.borrowers <= Greatest(0, MaxTenants - strikes)
  /\ fb.admission - 1 + fb.quota <= Greatest(0, 7 - strikes)

\* The start-up check of the guard profile covers every plan of every policy but
\* those of the governor with more than three residents at a reduced quota: no
\* other epoch is refused because its guard does not fit the period.
StartupCheckCovers ==
  phase = "guard too long" =>
    /\ policy = "mig-governor"
    /\ plan.quota < FullQuota
    /\ Cardinality(plan.residents) > CalibratedResidents

\* "Restore quota before admission so q25/q50 never exceed the calibrated
\* three-resident envelope": what the comment in update_feedback() says of plans.
CalibratedEnvelope ==
  phase = "measure" /\ plan.quota < FullQuota =>
    Cardinality(plan.residents) <= CalibratedResidents

=============================================================================
