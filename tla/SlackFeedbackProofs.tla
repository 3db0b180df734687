------------------------- MODULE SlackFeedbackProofs -------------------------
(***************************************************************************)
(* What the policy loop keeps for every guard profile, period and number   *)
(* of epochs.                                                              *)
(***************************************************************************)
EXTENDS SlackFeedback, FiniteSetTheorems, TLAPS

\* The two comparisons are the minimum and the maximum of integers.
LEMMA LeastGreatest ==
  ASSUME NEW a \in Int, NEW b \in Int
  PROVE  /\ Least(a, b) \in {a, b} /\ Least(a, b) <= a /\ Least(a, b) <= b
         /\ Greatest(a, b) \in {a, b} /\ Greatest(a, b) >= a /\ Greatest(a, b) >= b
BY DEF Least, Greatest

\* A policy lends at most what it admits, and all but same-mig at most half.
LEMMA BorrowerShare ==
  ASSUME TypeOK, NEW admitted \in 1 .. MaxTenants
  PROVE  /\ BorrowerCount(admitted) \in 0 .. admitted
         /\ policy # "same-mig" => 2 * BorrowerCount(admitted) <= admitted
<1> DEFINE half == admitted \div 2
<1>1. half \in 0 .. admitted /\ 2 * half <= admitted
  BY DEF MaxTenants
<1>2. fb.borrowers \in 0 .. MaxTenants
  BY DEF TypeOK, Limits
<1> HIDE DEF half
<1>3. Least(half, fb.borrowers) \in 0 .. half
  BY <1>1, <1>2 DEF Least, MaxTenants
<1>4. BorrowerCount(admitted) \in {0, admitted, half, Least(half, fb.borrowers)}
  BY DEF BorrowerCount, half
<1>5. policy # "same-mig" =>
        BorrowerCount(admitted) \in {0, half, Least(half, fb.borrowers)}
  BY DEF BorrowerCount, half
<1>6. QED
  BY <1>1, <1>3, <1>4, <1>5 DEF MaxTenants

\* The shape of a plan: residents first, then borrowers, at least one tenant.
LEMMA PlanShape ==
  ASSUME TypeOK
  PROVE  \E admitted \in 1 .. MaxTenants :
           /\ PlanFor = [residents |-> 0 .. admitted - BorrowerCount(admitted) - 1,
                         borrowers |-> admitted - BorrowerCount(admitted) .. admitted - 1,
                         quota |-> IF policy = "mig-governor" THEN fb.quota
                                   ELSE FullQuota]
           /\ fb.quota \in 0 .. FullQuota
<1>4. epoch \in Int
  <2>1. epoch \in 0 .. Epochs
    BY DEF TypeOK
  <2>2. QED
    BY <2>1
<1>5. epoch % 3 \in 0 .. 2
  BY <1>4
<1>1. Offered(epoch) \in 1 .. MaxTenants
  BY <1>5 DEF Offered, MaxTenants
<1>2. fb.admission \in 1 .. MaxTenants /\ fb.quota \in 0 .. FullQuota
  BY DEF TypeOK, Limits
<1>3. Least(Offered(epoch), fb.admission) \in 1 .. MaxTenants
  BY <1>1, <1>2, LeastGreatest DEF MaxTenants
<1>6. QED
  BY <1>2, <1>3 DEF PlanFor

\* The limits stay in range whatever the controller decides.
LEMMA LimitsKept ==
  ASSUME TypeOK
  PROVE  /\ Reclaimed \in Limits
         /\ Recovered \in Limits
         /\ [fb EXCEPT !.safe = 0] \in Limits
         /\ fb.safe + 1 < 3 => [fb EXCEPT !.safe = @ + 1] \in Limits
         /\ Limit(Greatest(1, fb.admission - 1), fb.quota,
                  Greatest(0, fb.borrowers - 1)) \in Limits
<1> DEFINE a == fb.admission
           q == fb.quota
           b == fb.borrowers
<1>1. /\ a \in 1 .. MaxTenants /\ q \in 0 .. FullQuota /\ b \in 0 .. MaxTenants
      /\ fb.safe \in 0 .. 2
  BY DEF TypeOK, Limits
<1>2. \A x \in 1 .. MaxTenants, y \in 0 .. FullQuota, z \in 0 .. MaxTenants :
        Limit(x, y, z) \in Limits
  BY DEF Limit, Limits
<1>3. /\ Greatest(1, a - 1) \in 1 .. MaxTenants
      /\ Greatest(0, b - 1) \in 0 .. MaxTenants
      /\ q > 0 => q - 1 \in 0 .. FullQuota
  BY <1>1 DEF Greatest, MaxTenants, FullQuota
<1>4. /\ q < FullQuota => q + 1 \in 0 .. FullQuota
      /\ a < MaxTenants => a + 1 \in 1 .. MaxTenants
      /\ b < MaxTenants => b + 1 \in 0 .. MaxTenants
      /\ 0 \in 0 .. FullQuota
  BY <1>1 DEF MaxTenants, FullQuota
<1> HIDE DEF a, q, b
<1>5. Reclaimed \in Limits
  BY <1>1, <1>2, <1>3, <1>4 DEF Reclaimed, a, q, b
<1>6. Recovered \in Limits
  BY <1>1, <1>2, <1>4 DEF Recovered, a, q, b
<1>7. /\ [fb EXCEPT !.safe = 0] \in Limits
      /\ fb.safe + 1 < 3 => [fb EXCEPT !.safe = @ + 1] \in Limits
  <2>1. fb \in Limits
    BY DEF TypeOK
  <2>2. \A s \in 0 .. 2 : [fb EXCEPT !.safe = s] \in Limits
    BY <2>1 DEF Limits
  <2>3. fb.safe + 1 < 3 => fb.safe + 1 \in 0 .. 2
    BY <1>1
  <2>4. QED
    BY <2>2, <2>3
<1>8. QED
  BY <1>1, <1>2, <1>3, <1>5, <1>6, <1>7 DEF a, q, b

\* One epoch's feedback keeps the types.
LEMMA EndEpochTyped ==
  ASSUME TypeOK, NEW state \in Limits, NEW safe \in BOOLEAN,
         NEW struck \in BOOLEAN, phase \in {"prepare", "measure"}, epoch < Epochs,
         EndEpoch(state, safe, struck)
  PROVE  TypeOK'
<1>0. CountCalm(state, safe) = 0 \/ CountCalm(state, safe) = Least(calm + 1, 3)
  <2>1. CASE safe /\ \A d \in Dimensions : state[d] = fb[d]
    BY <2>1, Zenon DEF CountCalm
  <2>2. CASE ~(safe /\ \A d \in Dimensions : state[d] = fb[d])
    BY <2>2, Zenon DEF CountCalm
  <2>3. QED
    BY <2>1, <2>2
<1>1. CountCalm(state, safe) \in 0 .. 3
  <2>1. calm \in 0 .. 3
    BY DEF TypeOK
  <2>2. Least(calm + 1, 3) \in 0 .. 3
    BY <2>1 DEF Least
  <2>3. QED
    BY <1>0, <2>2
<1>2. QED
  BY <1>1, FeedbackAssumption DEF EndEpoch, TypeOK

\* The loop of run_policy() measures only epochs below its bound.
EpochInRange == phase = "measure" => epoch < Epochs

\* Each action of the loop keeps the types.
LEMMA TypeStep ==
  ASSUME TypeOK, EpochInRange, [Next]_vars
  PROVE  TypeOK' /\ EpochInRange'
<1>1. CASE Prepare
  <2>1. PICK admitted \in 1 .. MaxTenants :
          PlanFor = [residents |-> 0 .. admitted - BorrowerCount(admitted) - 1,
                     borrowers |-> admitted - BorrowerCount(admitted) .. admitted - 1,
                     quota |-> IF policy = "mig-governor" THEN fb.quota
                               ELSE FullQuota]
    BY PlanShape
  <2>2. BorrowerCount(admitted) \in 0 .. admitted
    BY BorrowerShare
  <2>3. fb.quota \in 0 .. FullQuota
    BY DEF TypeOK, Limits
  <2>4. plan' \in [residents : SUBSET (0 .. MaxTenants - 1),
                   borrowers : SUBSET (0 .. MaxTenants - 1), quota : 0 .. FullQuota]
    <3>1. /\ 0 .. admitted - BorrowerCount(admitted) - 1 \subseteq 0 .. MaxTenants - 1
          /\ admitted - BorrowerCount(admitted) .. admitted - 1
               \subseteq 0 .. MaxTenants - 1
      BY <2>2 DEF MaxTenants
    <3>2. FullQuota \in 0 .. FullQuota
      BY DEF FullQuota
    <3>3. QED
      BY <1>1, <2>1, <2>3, <3>1, <3>2 DEF Prepare
  <2>5. QED
    BY <1>1, <2>4 DEF Prepare, TypeOK, EpochInRange
<1>2. CASE MeasurementRaises
  BY <1>2 DEF MeasurementRaises, TypeOK, EpochInRange
<1>3. CASE NoFeedback \/ FailClosed \/ DrainReclaim \/ ResidualReclaim
             \/ HoldNearDeadline \/ HoldHysteresis \/ Recover
  <2>1. \E state \in Limits, safe \in BOOLEAN, struck \in BOOLEAN :
          EndEpoch(state, safe, struck)
    <3>1. CASE NoFeedback
      BY <3>1 DEF NoFeedback, TypeOK
    <3>2. CASE FailClosed
      <4>1. Limit(1, 0, 0) \in Limits
        BY DEF Limit, Limits, MaxTenants, FullQuota
      <4>2. QED
        BY <3>2, <4>1 DEF FailClosed
    <3>3. CASE DrainReclaim
      BY <3>3, LimitsKept DEF DrainReclaim
    <3>4. CASE ResidualReclaim
      BY <3>4, LimitsKept DEF ResidualReclaim
    <3>5. CASE HoldNearDeadline
      BY <3>5, LimitsKept DEF HoldNearDeadline
    <3>6. CASE HoldHysteresis
      BY <3>6, LimitsKept DEF HoldHysteresis
    <3>7. CASE Recover
      BY <3>7, LimitsKept DEF Recover
    <3>8. QED
      BY <1>3, <3>1, <3>2, <3>3, <3>4, <3>5, <3>6, <3>7
  <2>2. phase = "measure" /\ phase' # "measure"
    BY <2>1 DEF EndEpoch
  <2>3. QED
    BY <2>1, <2>2, EndEpochTyped DEF EpochInRange
<1>4. CASE UNCHANGED vars
  BY <1>4 DEF vars, TypeOK, EpochInRange
<1>5. QED
  BY <1>1, <1>2, <1>3, <1>4 DEF Next

\* The feedback state, the plan and the epoch counter keep their types.
THEOREM FeedbackTyped == Spec => [](TypeOK /\ EpochInRange)
<1>1. Init => TypeOK /\ EpochInRange
  BY FeedbackAssumption DEF Init, TypeOK, EpochInRange, Limits, Limit, NoPlan,
                            MaxTenants, FullQuota
<1>2. QED
  BY <1>1, TypeStep, PTL DEF Spec

\* No reclaim empties an epoch or separates a language tenant from its audio.
THEOREM TenantsServed == Spec => []EpochServesItsTenants
<1>1. Init => EpochServesItsTenants
  BY DEF Init, EpochServesItsTenants
<1>2. ASSUME TypeOK, TypeOK', EpochServesItsTenants, [Next]_vars
      PROVE  EpochServesItsTenants'
  <2>1. CASE Prepare
    <3>1. PICK admitted \in 1 .. MaxTenants :
            PlanFor = [residents |-> 0 .. admitted - BorrowerCount(admitted) - 1,
                       borrowers |-> admitted - BorrowerCount(admitted) .. admitted - 1,
                       quota |-> IF policy = "mig-governor" THEN fb.quota
                                 ELSE FullQuota]
      BY <1>2, PlanShape
    <3> DEFINE n == BorrowerCount(admitted)
    <3>2. n \in 0 .. admitted /\ (policy # "same-mig" => 2 * n <= admitted)
      BY <1>2, BorrowerShare
    <3> HIDE DEF n
    <3>3. /\ plan'.residents = 0 .. admitted - n - 1
          /\ plan'.borrowers = admitted - n .. admitted - 1
          /\ policy' = policy
      BY <2>1, <3>1 DEF Prepare, n
    <3>4. plan'.residents \cup plan'.borrowers = 0 .. admitted - 1
      BY <3>2, <3>3 DEF MaxTenants
    <3>5. plan'.residents \cap plan'.borrowers = {}
      BY <3>2, <3>3 DEF MaxTenants
    <3>6. Cardinality(plan'.residents) = admitted - n /\ Cardinality(plan'.borrowers) = n
      <4>1. admitted \in Int /\ n \in Int /\ 0 <= n /\ n <= admitted
        BY <3>2 DEF MaxTenants
      <4>2. /\ Cardinality(0 .. admitted - n - 1) =
                 IF 0 > admitted - n - 1 THEN 0 ELSE admitted - n - 1 - 0 + 1
            /\ Cardinality(admitted - n .. admitted - 1) =
                 IF admitted - n > admitted - 1 THEN 0
                 ELSE admitted - 1 - (admitted - n) + 1
        BY <4>1, FS_Interval
      <4>3. QED
        BY <3>3, <4>1, <4>2
    <3>7. \A t \in 0 .. admitted - 1 :
            Modality(t) = "language" => t \in DependencyPipes(plan)'
      <4>1. SUFFICES ASSUME NEW t \in 0 .. admitted - 1, Modality(t) = "language"
                     PROVE  t > 0 /\ t - 1 \in 0 .. admitted - 1
                            /\ Modality(t - 1) = "audio"
        BY <3>4 DEF DependencyPipes
      <4>2. QED
        BY <4>1 DEF Modality, MaxTenants
    <3>8. QED
      <4>1. 0 \in 0 .. admitted - 1
        BY DEF MaxTenants
      <4>2. policy' # "same-mig" =>
              Cardinality(plan'.borrowers) <= Cardinality(plan'.residents)
        BY <3>2, <3>3, <3>6 DEF MaxTenants
      <4>3. \A t \in plan'.residents \cup plan'.borrowers :
              Modality(t) = "language" => t \in DependencyPipes(plan)'
        BY <3>4, <3>7
      <4>4. plan'.residents \cup plan'.borrowers # {}
        BY <3>4, <4>1
      <4>5. QED
        BY <3>5, <4>2, <4>3, <4>4 DEF EpochServesItsTenants
  <2>2. CASE phase' # "measure"
    BY <2>2 DEF EpochServesItsTenants
  <2>3. CASE UNCHANGED vars
    BY <1>2, <2>3 DEF vars, EpochServesItsTenants, DependencyPipes
  <2>4. Prepare \/ phase' # "measure" \/ UNCHANGED vars
    BY <1>2 DEF Next, MeasurementRaises, NoFeedback, FailClosed, DrainReclaim,
                ResidualReclaim, HoldNearDeadline, HoldHysteresis, Recover, EndEpoch
  <2>5. QED
    BY <2>1, <2>2, <2>3, <2>4
<1>3. QED
  BY <1>1, <1>2, FeedbackTyped, PTL DEF Spec

\* Seven violated epochs in a row withdraw everything the governor may withdraw.
THEOREM FloorReached == Spec => []ReclaimReachesFloor
<1> USE DEF MaxTenants, FullQuota, Greatest
<1>1. Init => ReclaimReachesFloor
  BY DEF Init, ReclaimReachesFloor, Limit
<1>2. ASSUME TypeOK, EpochInRange, ReclaimReachesFloor, [Next]_vars PROVE ReclaimReachesFloor'
  <2>1. CASE ResidualReclaim
    <3>1. fb' = Reclaimed /\ strikes' = strikes + 1
      BY <2>1 DEF ResidualReclaim, EndEpoch
    <3>2. QED
      <4>1. /\ fb.admission \in 1 .. 6 /\ fb.quota \in 0 .. 2
            /\ fb.borrowers \in 0 .. 6 /\ strikes \in Nat
        BY <1>2 DEF TypeOK, Limits
      <4>2. /\ fb'.borrowers = Greatest(0, fb.borrowers - 1)
            /\ fb.quota > 0 =>
                 fb'.admission = fb.admission /\ fb'.quota = fb.quota - 1
            /\ ~(fb.quota > 0) =>
                 fb'.admission = Greatest(1, fb.admission - 1) /\ fb'.quota = 0
        BY <3>1 DEF Reclaimed, Limit
      <4>3. QED
        BY <1>2, <3>1, <4>1, <4>2 DEF ReclaimReachesFloor
  <2>2. CASE NoFeedback \/ FailClosed \/ DrainReclaim \/ HoldNearDeadline
               \/ HoldHysteresis \/ Recover
    <3>1. strikes' = 0
      BY <2>2 DEF NoFeedback, FailClosed, DrainReclaim, HoldNearDeadline,
                  HoldHysteresis, Recover, EndEpoch
    <3>2. fb' \in Limits
      BY <1>2, TypeStep DEF TypeOK
    <3>3. QED
      BY <3>1, <3>2 DEF ReclaimReachesFloor, Limits
  <2>3. CASE UNCHANGED <<fb, strikes>>
    BY <1>2, <2>3 DEF ReclaimReachesFloor
  <2>4. QED
    BY <1>2, <2>1, <2>2, <2>3 DEF Next, vars, Prepare, MeasurementRaises
<1>3. QED
  BY <1>1, <1>2, FeedbackTyped, PTL DEF Spec

\* The history counter is never behind the controller's own safe-epoch counter,
\* which only the governor uses.
CalmCovers ==
  /\ fb.safe <= calm
  /\ policy # "mig-governor" => fb.safe = 0

\* Recovery follows three quiet safe epochs, one dimension and one step at a time.
THEOREM RecoveryEarned == Spec => RecoveryIsEarned
<1>1. Init => CalmCovers
  BY DEF Init, Limit, CalmCovers
<1>2. ASSUME TypeOK, CalmCovers, [Next]_vars
      PROVE  CalmCovers' /\ (RisesAreEarned \/ UNCHANGED vars)
  <2>1. /\ fb.admission \in 1 .. 6 /\ fb.quota \in 0 .. 2 /\ fb.borrowers \in 0 .. 6
        /\ fb.safe \in 0 .. 2 /\ calm \in 0 .. 3
    <3>1. fb \in Limits /\ calm \in 0 .. 3
      BY <1>2 DEF TypeOK
    <3>2. QED
      BY <3>1 DEF Limits, MaxTenants, FullQuota
  <2>2. CASE Recover
    <3>1. fb' = Recovered /\ fb'.safe = 0 /\ calm >= 2
      BY <1>2, <2>1, <2>2 DEF Recover, EndEpoch, Recovered, Limit, CalmCovers
    <3>2. calm' >= 0
      <4>1. calm' = 0 \/ calm' = Least(calm + 1, 3)
        BY <2>2 DEF Recover, EndEpoch, CountCalm
      <4>2. QED
        BY <2>1, <4>1 DEF Least
    <3>3. RisesAreEarned
      BY <2>1, <3>1 DEF RisesAreEarned, Dimensions, Recovered, Limit, MaxTenants,
                        FullQuota
    <3>4. QED
      BY <3>1, <3>2, <3>3 DEF CalmCovers
  <2>3. CASE HoldHysteresis
    <3>1. /\ fb' = [fb EXCEPT !.safe = @ + 1] /\ fb.safe + 1 < 3 /\ fb \in Limits
          /\ policy = "mig-governor" /\ policy' = policy
      BY <1>2, <2>3 DEF HoldHysteresis, EndEpoch, TypeOK
    <3>2. /\ fb'.safe = fb.safe + 1
          /\ \A d \in Dimensions : fb'[d] = fb[d]
      BY <3>1 DEF Dimensions, Limits
    <3>3. calm' = Least(calm + 1, 3)
      BY <2>3, <3>1, <3>2 DEF HoldHysteresis, EndEpoch, CountCalm
    <3>4. CalmCovers'
      BY <1>2, <2>1, <3>1, <3>2, <3>3 DEF CalmCovers, Least
    <3>5. \A d \in Dimensions : ~(fb'[d] > fb[d])
      BY <2>1, <3>2 DEF Dimensions
    <3>6. QED
      BY <3>4, <3>5 DEF RisesAreEarned
  <2>4. CASE FailClosed \/ DrainReclaim \/ ResidualReclaim \/ HoldNearDeadline
    <3>0. fb \in Limits
      BY <1>2 DEF TypeOK
    <3>1. fb'.safe = 0 /\ calm' = 0
      <4>1. calm' = 0
        BY <2>4 DEF FailClosed, DrainReclaim, ResidualReclaim, HoldNearDeadline,
                    EndEpoch, CountCalm
      <4>2. [fb EXCEPT !.safe = 0].safe = 0
        BY <3>0 DEF Limits
      <4>3. \A x, y, z : Limit(x, y, z).safe = 0
        BY DEF Limit
      <4>4. Reclaimed.safe = 0
        BY <4>3 DEF Reclaimed
      <4>5. CASE FailClosed
        BY <4>1, <4>3, <4>5 DEF FailClosed, EndEpoch
      <4>6. CASE DrainReclaim
        BY <4>1, <4>3, <4>6 DEF DrainReclaim, EndEpoch
      <4>7. CASE ResidualReclaim
        BY <4>1, <4>4, <4>7 DEF ResidualReclaim, EndEpoch
      <4>8. CASE HoldNearDeadline
        BY <4>1, <4>2, <4>8 DEF HoldNearDeadline, EndEpoch
      <4>9. QED
        BY <2>4, <4>5, <4>6, <4>7, <4>8
    <3>2. \A d \in Dimensions : ~(fb'[d] > fb[d])
      <4>1. CASE HoldNearDeadline
        BY <1>2, <2>1, <4>1 DEF HoldNearDeadline, EndEpoch, Dimensions, TypeOK, Limits
      <4>2. CASE FailClosed
        BY <2>1, <4>2 DEF FailClosed, EndEpoch, Dimensions, Limit
      <4>3. CASE DrainReclaim
        BY <2>1, <4>3 DEF DrainReclaim, EndEpoch, Dimensions, Limit, Greatest
      <4>4. CASE ResidualReclaim
        BY <2>1, <4>4 DEF ResidualReclaim, EndEpoch, Dimensions, Reclaimed, Limit,
                          Greatest
      <4>5. QED
        BY <2>4, <4>1, <4>2, <4>3, <4>4
    <3>3. policy' = policy /\ policy = "mig-governor"
      BY <2>4 DEF FailClosed, DrainReclaim, ResidualReclaim, HoldNearDeadline,
                  EndEpoch
    <3>4. QED
      BY <3>1, <3>2, <3>3 DEF CalmCovers, RisesAreEarned
  <2>5. CASE NoFeedback
    <3>1. fb' = fb /\ policy' = policy /\ policy # "mig-governor" /\ calm' = 0
      BY <2>5 DEF NoFeedback, EndEpoch, CountCalm
    <3>2. \A d \in Dimensions : ~(fb'[d] > fb[d])
      BY <2>1, <3>1 DEF Dimensions
    <3>3. QED
      BY <1>2, <3>1, <3>2 DEF CalmCovers, RisesAreEarned
  <2>6. CASE UNCHANGED <<fb, calm, policy>>
    <3>1. \A d \in Dimensions : ~(fb'[d] > fb[d])
      BY <2>1, <2>6 DEF Dimensions
    <3>2. QED
      BY <1>2, <2>6, <3>1 DEF CalmCovers, RisesAreEarned
  <2>7. QED
    BY <1>2, <2>2, <2>3, <2>4, <2>5, <2>6 DEF Next, vars, Prepare, MeasurementRaises
<1>3. QED
  BY <1>1, <1>2, FeedbackTyped, PTL DEF Spec, RecoveryIsEarned

(***************************************************************************)
(* Sums over sets of tenants.                                              *)
(***************************************************************************)

Tenants == 0 .. MaxTenants - 1

\* The sum of the weights of the tenants in T, term by term.
Total(weight, T) ==
  LET term(t) == IF t \in T THEN weight[t] ELSE 0
  IN term(0) + term(1) + term(2) + term(3) + term(4) + term(5)

Picked(s) == CHOOSE x \in s : TRUE

\* The function that MapThenSumSet defines by recursion over the subsets of S, and
\* what is summed: each element of S stands for a tenant of its own.
IsSum(iter, weight, tenant, S) ==
  iter = [s \in SUBSET S |->
            IF s = {} THEN 0
            ELSE weight[tenant[Picked(s)]] + iter[s \ {Picked(s)}]]
Who(tenant, s) == {tenant[x] : x \in s}
Named(tenant, S) ==
  /\ tenant \in [S -> Tenants]
  /\ \A x, y \in S : tenant[x] = tenant[y] => x = y

\* Taking a tenant out of a set takes its weight out of the sum.
LEMMA TotalStep ==
  ASSUME NEW weight \in [Tenants -> Nat], NEW T \in SUBSET Tenants, NEW t \in T
  PROVE  /\ Total(weight, T) \in Nat
         /\ Total(weight, T) = weight[t] + Total(weight, T \ {t})
<1>1. /\ weight[0] \in Nat /\ weight[1] \in Nat /\ weight[2] \in Nat
      /\ weight[3] \in Nat /\ weight[4] \in Nat /\ weight[5] \in Nat
  BY DEF Tenants, MaxTenants
<1>2. t = 0 \/ t = 1 \/ t = 2 \/ t = 3 \/ t = 4 \/ t = 5
  BY DEF Tenants, MaxTenants
<1> DEFINE R == T \ {t}
<1>3. \A i : i \in R <=> i \in T /\ i # t
  OBVIOUS
<1> HIDE DEF R
<1>4. Total(weight, T) \in Nat
  BY <1>1 DEF Total
<1>5. Total(weight, T) = weight[t] + Total(weight, R)
  <2>1. CASE t = 0
    BY <1>1, <1>3, <2>1 DEF Total
  <2>2. CASE t = 1
    BY <1>1, <1>3, <2>2 DEF Total
  <2>3. CASE t = 2
    BY <1>1, <1>3, <2>3 DEF Total
  <2>4. CASE t = 3
    BY <1>1, <1>3, <2>4 DEF Total
  <2>5. CASE t = 4
    BY <1>1, <1>3, <2>5 DEF Total
  <2>6. CASE t = 5
    BY <1>1, <1>3, <2>6 DEF Total
  <2>7. QED
    BY <1>2, <2>1, <2>2, <2>3, <2>4, <2>5, <2>6
<1>6. QED
  BY <1>4, <1>5 DEF R

LEMMA TenantsFinite == IsFiniteSet(Tenants) /\ Cardinality(Tenants) = 6
<1>1. 0 \in Int /\ 5 \in Int /\ Tenants = 0 .. 5
  BY DEF Tenants, MaxTenants
<1>2. IsFiniteSet(0 .. 5) /\ Cardinality(0 .. 5) = IF 0 > 5 THEN 0 ELSE 5 - 0 + 1
  BY <1>1, FS_Interval
<1>3. QED
  BY <1>1, <1>2

LEMMA TotalEmpty == ASSUME NEW weight PROVE Total(weight, {}) = 0
BY DEF Total

\* The element picked last is the tenant taken out.
LEMMA WhoStep ==
  ASSUME NEW S, NEW tenant, Named(tenant, S), NEW s \in SUBSET S, s # {}
  PROVE  /\ Picked(s) \in s /\ tenant[Picked(s)] \in Who(tenant, s)
         /\ s \ {Picked(s)} \in SUBSET S
         /\ Who(tenant, s) \in SUBSET Tenants
         /\ Who(tenant, s \ {Picked(s)}) = Who(tenant, s) \ {tenant[Picked(s)]}
<1>1. Picked(s) \in s
  BY DEF Picked
<1>2. QED
  BY <1>1 DEF Who, Named

\* The recursion has a solution: the explicit sum.
LEMMA SumExists ==
  ASSUME NEW weight \in [Tenants -> Nat], NEW S, NEW tenant, Named(tenant, S)
  PROVE  IsSum([s \in SUBSET S |-> Total(weight, Who(tenant, s))], weight, tenant, S)
<1> DEFINE h == [s \in SUBSET S |-> Total(weight, Who(tenant, s))]
<1>1. ASSUME NEW s \in SUBSET S
      PROVE  h[s] = IF s = {} THEN 0
                    ELSE weight[tenant[Picked(s)]] + h[s \ {Picked(s)}]
  <2>1. CASE s = {}
    <3>1. Who(tenant, s) = {}
      BY <2>1 DEF Who
    <3>2. QED
      BY <2>1, <3>1, TotalEmpty
  <2>2. CASE s # {}
    <3>1. /\ h[s] = Total(weight, Who(tenant, s))
          /\ h[s \ {Picked(s)}] = Total(weight, Who(tenant, s \ {Picked(s)}))
      OBVIOUS
    <3>2. QED
      BY <2>2, <3>1, WhoStep, TotalStep
  <2>3. QED
    BY <2>1, <2>2
<1> HIDE DEF h
<1>2. h = [s \in SUBSET S |-> h[s]]
  BY DEF h
<1>3. h = [s \in SUBSET S |->
             IF s = {} THEN 0 ELSE weight[tenant[Picked(s)]] + h[s \ {Picked(s)}]]
  BY <1>1, <1>2
<1>4. QED
  BY <1>3 DEF IsSum, h

\* It has no other, for sets of at most k tenants: from k to k + 1.
Agrees(iter, weight, tenant, S, k) ==
  \A s \in SUBSET S :
    Cardinality(Who(tenant, s)) <= k => iter[s] = Total(weight, Who(tenant, s))

LEMMA SumStep ==
  ASSUME NEW weight \in [Tenants -> Nat], NEW S, NEW tenant, Named(tenant, S),
         NEW iter, IsSum(iter, weight, tenant, S),
         NEW k \in Nat, Agrees(iter, weight, tenant, S, k)
  PROVE  Agrees(iter, weight, tenant, S, k + 1)
<1> SUFFICES ASSUME NEW s \in SUBSET S, Cardinality(Who(tenant, s)) <= k + 1
             PROVE  iter[s] = Total(weight, Who(tenant, s))
  BY DEF Agrees
<1>1. iter[s] = IF s = {} THEN 0
                ELSE weight[tenant[Picked(s)]] + iter[s \ {Picked(s)}]
  BY DEF IsSum
<1>2. CASE s = {}
  <2>1. Who(tenant, s) = {}
    BY <1>2 DEF Who
  <2>2. QED
    BY <1>1, <1>2, <2>1, TotalEmpty
<1>3. CASE s # {}
  <2>0. /\ Picked(s) \in s /\ tenant[Picked(s)] \in Who(tenant, s)
        /\ s \ {Picked(s)} \in SUBSET S
        /\ Who(tenant, s) \in SUBSET Tenants
        /\ Who(tenant, s \ {Picked(s)}) = Who(tenant, s) \ {tenant[Picked(s)]}
    <3>1. Picked(s) \in s
      BY <1>3 DEF Picked
    <3>2. QED
      BY <3>1 DEF Who, Named
  <2> DEFINE rest == s \ {Picked(s)}
             T == Who(tenant, s)
             t == tenant[Picked(s)]
  <2>1. t \in T /\ rest \in SUBSET S /\ T \in SUBSET Tenants /\ Who(tenant, rest) = T \ {t}
    BY <2>0, Zenon
  <2>2. IsFiniteSet(T)
    BY <2>1, TenantsFinite, FS_Subset
  <2> HIDE DEF rest, T, t
  <2>3. Cardinality(T \ {t}) = Cardinality(T) - 1 /\ Cardinality(T) \in Nat
    BY <2>1, <2>2, FS_RemoveElement, FS_CardinalityType
  <2>4. Cardinality(Who(tenant, rest)) <= k
    BY <2>1, <2>3 DEF T
  <2>5. iter[rest] = Total(weight, T \ {t})
    BY <2>1, <2>4 DEF Agrees
  <2>6. iter[s] = weight[t] + iter[rest]
    BY <1>1, <1>3 DEF t, rest
  <2>7. QED
    BY <2>1, <2>5, <2>6, TotalStep DEF T
<1>4. QED
  BY <1>2, <1>3

LEMMA SumUnique ==
  ASSUME NEW weight \in [Tenants -> Nat], NEW S, NEW tenant, Named(tenant, S),
         NEW iter, IsSum(iter, weight, tenant, S)
  PROVE  iter[S] = Total(weight, Who(tenant, S))
<1> DEFINE A(k) == Agrees(iter, weight, tenant, S, k)
<1>w. ASSUME NEW s \in SUBSET S
      PROVE  /\ Who(tenant, s) \in SUBSET Tenants /\ IsFiniteSet(Who(tenant, s))
             /\ Cardinality(Who(tenant, s)) \in Nat /\ Cardinality(Who(tenant, s)) <= 6
  <2>1. Who(tenant, s) \in SUBSET Tenants
    BY DEF Who, Named
  <2>2. QED
    BY <2>1, TenantsFinite, FS_Subset, FS_CardinalityType
<1>0. A(0)
  <2> SUFFICES ASSUME NEW s \in SUBSET S, Cardinality(Who(tenant, s)) <= 0
               PROVE  iter[s] = Total(weight, Who(tenant, s))
    BY DEF Agrees
  <2>1. Who(tenant, s) = {}
    BY <1>w, FS_EmptySet
  <2>2. s = {}
    BY <2>1 DEF Who
  <2>3. iter[s] = 0
    BY <2>2 DEF IsSum
  <2>4. QED
    BY <2>1, <2>3, TotalEmpty
<1> HIDE DEF A
<1>s. \A k \in Nat : A(k) => A(k + 1)
  BY SumStep DEF A
<1>6. A(6)
  <2>1. A(1)
    BY <1>0, <1>s
  <2>2. A(2)
    BY <2>1, <1>s
  <2>3. A(3)
    BY <2>2, <1>s
  <2>4. A(4)
    BY <2>3, <1>s
  <2>5. A(5)
    BY <2>4, <1>s
  <2>6. QED
    BY <2>5, <1>s
<1>7. QED
  BY <1>6, <1>w DEF A, Agrees

(***************************************************************************)
(* The two sums of guard_for().                                            *)
(***************************************************************************)

\* Guards by tenant.
ResidentWeight(q) == [t \in Tenants |-> ResidentGuard[q][Modality(t)]]
BorrowerWeight == [t \in Tenants |-> BorrowerGuard[Modality(t)]]

LEMMA WeightsTyped ==
  /\ \A q \in 0 .. FullQuota : ResidentWeight(q) \in [Tenants -> Nat]
  /\ BorrowerWeight \in [Tenants -> Nat]
BY FeedbackAssumption DEF ResidentWeight, BorrowerWeight, Modality, Modalities

LEMMA SelfNamed ==
  ASSUME NEW T \in SUBSET Tenants
  PROVE  /\ Named([t \in T |-> t], T)
         /\ Who([t \in T |-> t], T) = T
BY DEF Named, Who

LEMMA ResidentSum ==
  ASSUME NEW q \in 0 .. FullQuota, NEW T \in SUBSET Tenants
  PROVE  LET resident(t) == ResidentGuard[q][Modality(t)]
         IN  MapThenSumSet(resident, T) = Total(ResidentWeight(q), T)
<1> DEFINE resident(t) == ResidentGuard[q][Modality(t)]
           self == [t \in T |-> t]
           Body(g) == [s \in SUBSET T |->
                         IF s = {} THEN 0
                         ELSE ResidentGuard[q][Modality(Picked(s))] + g[s \ {Picked(s)}]]
           sum == CHOOSE g : g = Body(g)
<1>1. MapThenSumSet(resident, T) = sum[T]
  BY DEF MapThenSumSet, MapThenFoldSet, Picked
<1>2. ASSUME NEW g PROVE g = Body(g) <=> IsSum(g, ResidentWeight(q), self, T)
  <2>1. ASSUME NEW s \in SUBSET T, s # {}
        PROVE  ResidentWeight(q)[self[Picked(s)]] = ResidentGuard[q][Modality(Picked(s))]
    <3>1. Picked(s) \in T
      BY <2>1 DEF Picked
    <3>2. QED
      BY <3>1 DEF ResidentWeight
  <2>2. Body(g) = [s \in SUBSET T |->
                     IF s = {} THEN 0
                     ELSE ResidentWeight(q)[self[Picked(s)]] + g[s \ {Picked(s)}]]
    BY <2>1
  <2> HIDE DEF self, Body
  <2>3. QED
    BY <2>2 DEF IsSum
<1>3. Named(self, T) /\ Who(self, T) = T
  BY SelfNamed
<1> HIDE DEF Body, self
<1>4. \E g : g = Body(g)
  BY <1>2, <1>3, WeightsTyped, SumExists
<1>5. sum = Body(sum)
  BY <1>4
<1> HIDE DEF sum
<1>6. sum[T] = Total(ResidentWeight(q), T)
  BY <1>2, <1>3, <1>5, WeightsTyped, SumUnique
<1>7. QED
  BY <1>1, <1>6

LEMMA BorrowerSum ==
  ASSUME NEW T \in SUBSET Tenants
  PROVE  LET borrower(t) == BorrowerGuard[Modality(t)]
         IN  MapThenSumSet(borrower, T) = Total(BorrowerWeight, T)
<1> DEFINE borrower(t) == BorrowerGuard[Modality(t)]
           self == [t \in T |-> t]
           Body(g) == [s \in SUBSET T |->
                         IF s = {} THEN 0
                         ELSE BorrowerGuard[Modality(Picked(s))] + g[s \ {Picked(s)}]]
           sum == CHOOSE g : g = Body(g)
<1>1. MapThenSumSet(borrower, T) = sum[T]
  BY DEF MapThenSumSet, MapThenFoldSet, Picked
<1>2. ASSUME NEW g PROVE g = Body(g) <=> IsSum(g, BorrowerWeight, self, T)
  <2>1. ASSUME NEW s \in SUBSET T, s # {}
        PROVE  BorrowerWeight[self[Picked(s)]] = BorrowerGuard[Modality(Picked(s))]
    <3>1. Picked(s) \in T
      BY <2>1 DEF Picked
    <3>2. QED
      BY <3>1 DEF BorrowerWeight
  <2>2. Body(g) = [s \in SUBSET T |->
                     IF s = {} THEN 0
                     ELSE BorrowerWeight[self[Picked(s)]] + g[s \ {Picked(s)}]]
    BY <2>1
  <2> HIDE DEF self, Body
  <2>3. QED
    BY <2>2 DEF IsSum
<1>3. Named(self, T) /\ Who(self, T) = T
  BY SelfNamed
<1> HIDE DEF Body, self
<1>4. \E g : g = Body(g)
  BY <1>2, <1>3, WeightsTyped, SumExists
<1>5. sum = Body(sum)
  BY <1>4
<1> HIDE DEF sum
<1>6. sum[T] = Total(BorrowerWeight, T)
  BY <1>2, <1>3, <1>5, WeightsTyped, SumUnique
<1>7. QED
  BY <1>1, <1>6

\* A sum is at most the number of tenants times a bound on their weights.
LEMMA TotalBound ==
  ASSUME NEW weight \in [Tenants -> Nat], NEW n \in 0 .. MaxTenants,
         NEW a \in 0 .. MaxTenants, NEW w \in Nat, a <= n,
         \A t \in Tenants : weight[t] <= w
  PROVE  /\ Total(weight, a .. n - 1) \in Nat
         /\ Total(weight, a .. n - 1) <= (n - a) * w
<1>1. /\ weight[0] \in Nat /\ weight[1] \in Nat /\ weight[2] \in Nat
      /\ weight[3] \in Nat /\ weight[4] \in Nat /\ weight[5] \in Nat
      /\ weight[0] <= w /\ weight[1] <= w /\ weight[2] <= w
      /\ weight[3] <= w /\ weight[4] <= w /\ weight[5] <= w
  BY DEF Tenants, MaxTenants
<1> DEFINE T == a .. n - 1
           one(t)  == IF t \in T THEN 1 ELSE 0
           term(t) == IF t \in T THEN weight[t] ELSE 0
           cap(t)  == one(t) * w
<1>2. one(0) + one(1) + one(2) + one(3) + one(4) + one(5) = n - a
  BY DEF MaxTenants
<1> HIDE DEF T
<1>3. Total(weight, T) = term(0) + term(1) + term(2) + term(3) + term(4) + term(5)
  BY DEF Total
<1>4. ASSUME NEW t \in 0 .. 5
      PROVE  /\ term(t) \in Nat /\ one(t) \in {0, 1} /\ cap(t) \in Nat
             /\ term(t) <= cap(t)
  <2>1. weight[t] \in Nat /\ weight[t] <= w /\ 1 * w = w /\ 0 * w = 0
    BY <1>1
  <2>2. CASE t \in T
    BY <2>1, <2>2
  <2>3. CASE t \notin T
    BY <2>1, <2>3
  <2>4. QED
    BY <2>2, <2>3
<1>5. /\ one(0) \in Int /\ one(1) \in Int /\ one(2) \in Int
      /\ one(3) \in Int /\ one(4) \in Int /\ one(5) \in Int
  BY <1>4
<1> HIDE DEF one, term
<1>6. cap(0) + cap(1) + cap(2) + cap(3) + cap(4) + cap(5)
        = (one(0) + one(1) + one(2) + one(3) + one(4) + one(5)) * w
  BY <1>5
<1> HIDE DEF cap
<1>7. /\ term(0) \in Nat /\ term(1) \in Nat /\ term(2) \in Nat
      /\ term(3) \in Nat /\ term(4) \in Nat /\ term(5) \in Nat
      /\ term(0) <= cap(0) /\ term(1) <= cap(1) /\ term(2) <= cap(2)
      /\ term(3) <= cap(3) /\ term(4) <= cap(4) /\ term(5) <= cap(5)
      /\ cap(0) \in Nat /\ cap(1) \in Nat /\ cap(2) \in Nat
      /\ cap(3) \in Nat /\ cap(4) \in Nat /\ cap(5) \in Nat
  BY <1>4
<1>8. cap(0) + cap(1) + cap(2) + cap(3) + cap(4) + cap(5) = (n - a) * w
  BY <1>2, <1>6
<1>9. (n - a) * w \in Int
  OBVIOUS
<1>10. Total(weight, T) \in Nat /\ Total(weight, T) <= (n - a) * w
  BY <1>3, <1>7, <1>8, <1>9
<1>11. QED
  BY <1>10 DEF T

\* The largest of two and of five numbers.
LEMMA MaxOfTwo ==
  ASSUME NEW a \in Int, NEW b \in Int
  PROVE  Max({a, b}) \in {a, b} /\ Max({a, b}) >= a /\ Max({a, b}) >= b
<1>1. \E m \in {a, b} : \A y \in {a, b} : m >= y
  <2>1. CASE a >= b
    BY <2>1
  <2>2. CASE b >= a
    BY <2>2
  <2>3. QED
    BY <2>1, <2>2
<1>2. QED
  BY <1>1 DEF Max

LEMMA MaxOfFive ==
  ASSUME NEW a \in Int, NEW b \in Int, NEW c \in Int, NEW d \in Int, NEW e \in Int
  PROVE  /\ Max({a, b, c, d, e}) \in {a, b, c, d, e}
         /\ \A y \in {a, b, c, d, e} : Max({a, b, c, d, e}) >= y
<1> DEFINE S == {a, b, c, d, e}
<1>1. \E m \in S : \A y \in S : m >= y
  <2>1. PICK m \in {a, b} : m >= a /\ m >= b
    BY MaxOfTwo
  <2>2. PICK n \in {m, c} : n >= m /\ n >= c
    BY <2>1, MaxOfTwo
  <2>3. PICK o \in {n, d} : o >= n /\ o >= d
    BY <2>1, <2>2, MaxOfTwo
  <2>4. PICK p \in {o, e} : p >= o /\ p >= e
    BY <2>1, <2>2, <2>3, MaxOfTwo
  <2>5. p \in S /\ \A y \in S : p >= y
    BY <2>1, <2>2, <2>3, <2>4
  <2>6. QED
    BY <2>5
<1> HIDE DEF S
<1>2. Max(S) \in S /\ \A y \in S : Max(S) >= y
  BY <1>1 DEF Max
<1>3. QED
  BY <1>2 DEF S

\* What the start-up check promises: six residents at full quota, three at any
\* quota and three borrowers fit the period.
LEMMA CheckedGuards ==
  /\ \A q \in 0 .. FullQuota :
       \E w \in Nat : /\ \A t \in Tenants : ResidentWeight(q)[t] <= w
                      /\ 3 * w < PeriodMs
                      /\ q = FullQuota => 6 * w < PeriodMs
  /\ \E w \in Nat : /\ \A t \in Tenants : BorrowerWeight[t] <= w
                    /\ 3 * w < PeriodMs
<1> DEFINE worst(guard) == Max({guard[m] : m \in Modalities})
           a == 6 * worst(ResidentGuard[FullQuota])
           b == 3 * worst(BorrowerGuard)
           c(q) == 3 * worst(ResidentGuard[q])
<1>1. ASSUME NEW guard \in [Modalities -> Nat \ {0}]
      PROVE  /\ worst(guard) \in Nat
             /\ \A t \in Tenants : guard[Modality(t)] <= worst(guard)
  <2>1. {guard[m] : m \in Modalities} = {guard["audio"], guard["language"]}
    BY DEF Modalities
  <2>2. guard["audio"] \in Nat /\ guard["language"] \in Nat
    BY DEF Modalities
  <2>3. worst(guard) = Max({guard["audio"], guard["language"]})
    BY <2>1
  <2> HIDE DEF worst
  <2>4. PICK x \in Nat, y \in Nat : x = guard["audio"] /\ y = guard["language"]
    BY <2>2
  <2>5. Max({x, y}) \in {x, y} /\ Max({x, y}) >= x /\ Max({x, y}) >= y
    <3>1. x \in Int /\ y \in Int
      OBVIOUS
    <3>2. QED
      BY <3>1, MaxOfTwo
  <2>6. worst(guard) = Max({x, y})
    BY <2>3, <2>4
  <2>7. QED
    BY <2>4, <2>5, <2>6 DEF Modality
<1>2. BorrowerGuard \in [Modalities -> Nat \ {0}]
      /\ \A q \in 0 .. FullQuota : ResidentGuard[q] \in [Modalities -> Nat \ {0}]
  BY FeedbackAssumption
<1>3. /\ worst(BorrowerGuard) \in Nat
      /\ \A q \in 0 .. FullQuota : worst(ResidentGuard[q]) \in Nat
  BY <1>1, <1>2
<1> HIDE DEF worst
<1>4. /\ a \in Int /\ b \in Int /\ c(0) \in Int /\ c(1) \in Int /\ c(2) \in Int
  BY <1>3 DEF FullQuota
<1>5. MaximumProfiledGuard = Max({a, b} \cup {c(q) : q \in 0 .. FullQuota})
  BY DEF MaximumProfiledGuard, worst
<1>6. {a, b} \cup {c(q) : q \in 0 .. FullQuota} = {a, b, c(0), c(1), c(2)}
  <2> HIDE DEF a, b, c
  <2>1. 0 .. FullQuota = {0, 1, 2}
    BY DEF FullQuota
  <2>2. QED
    BY <2>1
<1> HIDE DEF a, b, c
<1>7. a <= MaximumProfiledGuard /\ b <= MaximumProfiledGuard
      /\ c(0) <= MaximumProfiledGuard /\ c(1) <= MaximumProfiledGuard
      /\ c(2) <= MaximumProfiledGuard /\ MaximumProfiledGuard \in {a, b, c(0), c(1), c(2)}
  <2> DEFINE m == Max({a, b, c(0), c(1), c(2)})
  <2>1. m >= a /\ m >= b /\ m >= c(0) /\ m >= c(1) /\ m >= c(2) /\ m \in {a, b, c(0), c(1), c(2)}
    BY <1>4, MaxOfFive
  <2>2. m = MaximumProfiledGuard
    BY <1>5, <1>6
  <2> HIDE DEF m
  <2>3. m \in Int
    BY <1>4, <2>1
  <2>4. QED
    BY <1>4, <2>1, <2>2, <2>3
<1>8. MaximumProfiledGuard \in Int /\ MaximumProfiledGuard < PeriodMs /\ PeriodMs \in Nat
  BY <1>4, <1>7, FeedbackAssumption
<1>9. a < PeriodMs /\ b < PeriodMs /\ \A q \in 0 .. FullQuota : c(q) < PeriodMs
  BY <1>4, <1>7, <1>8 DEF FullQuota
<1>10. ASSUME NEW q \in 0 .. FullQuota
       PROVE  \E w \in Nat : /\ \A t \in Tenants : ResidentWeight(q)[t] <= w
                             /\ 3 * w < PeriodMs
                             /\ q = FullQuota => 6 * w < PeriodMs
  <2>1. \A t \in Tenants : ResidentWeight(q)[t] <= worst(ResidentGuard[q])
    BY <1>1, <1>2 DEF ResidentWeight, worst
  <2>2. QED
    BY <1>3, <1>9, <2>1 DEF a, c
<1>11. \A t \in Tenants : BorrowerWeight[t] <= worst(BorrowerGuard)
  BY <1>1, <1>2 DEF BorrowerWeight, worst
<1>12. 3 * worst(BorrowerGuard) < PeriodMs
  BY <1>9 DEF b
<1>13. QED
  BY <1>3, <1>10, <1>11, <1>12

\* A plan's guard fits the period unless it is the governor's, at a reduced quota,
\* with more than three residents.
LEMMA GuardFits ==
  ASSUME TypeOK,
         ~(/\ policy = "mig-governor" /\ PlanFor.quota < FullQuota
           /\ Cardinality(PlanFor.residents) > CalibratedResidents)
  PROVE  GuardFor(PlanFor) \in Nat /\ GuardFor(PlanFor) < PeriodMs
<1>1. PICK admitted \in 1 .. MaxTenants :
        /\ PlanFor = [residents |-> 0 .. admitted - BorrowerCount(admitted) - 1,
                      borrowers |-> admitted - BorrowerCount(admitted) .. admitted - 1,
                      quota |-> IF policy = "mig-governor" THEN fb.quota ELSE FullQuota]
        /\ fb.quota \in 0 .. FullQuota
  BY PlanShape
<1> DEFINE n == BorrowerCount(admitted)
           r == admitted - n
           q == PlanFor.quota
<1>2. n \in 0 .. admitted /\ (policy # "same-mig" => 2 * n <= admitted)
  BY BorrowerShare
<1>3. q \in 0 .. FullQuota /\ (q < FullQuota => policy = "mig-governor")
  BY <1>1 DEF FullQuota
<1>4. PlanFor.residents = 0 .. r - 1 /\ PlanFor.borrowers = r .. admitted - 1
  BY <1>1
<1> HIDE DEF n
<1>5. r \in 0 .. MaxTenants /\ r <= admitted
  BY <1>2 DEF MaxTenants
<1>6. Cardinality(PlanFor.residents) = r
  <2>1. 0 \in Int /\ r - 1 \in Int
    BY <1>5 DEF MaxTenants
  <2>2. Cardinality(0 .. r - 1) = IF 0 > r - 1 THEN 0 ELSE r - 1 - 0 + 1
    BY <2>1, FS_Interval
  <2>3. QED
    BY <1>4, <1>5, <2>2 DEF MaxTenants
<1>7. PlanFor.residents \in SUBSET Tenants /\ PlanFor.borrowers \in SUBSET Tenants
  BY <1>2, <1>4 DEF Tenants, MaxTenants
<1> DEFINE R == Total(ResidentWeight(q), PlanFor.residents)
           B == Total(BorrowerWeight, PlanFor.borrowers)
<1>8. GuardFor(PlanFor) = Greatest(IF GatedResidents THEN R ELSE 0,
                                   IF GatedBorrowers THEN B ELSE 0)
  BY <1>3, <1>7, ResidentSum, BorrowerSum DEF GuardFor
<1>9. R \in Nat /\ R < PeriodMs
  <2>1. PICK w \in Nat : /\ \A t \in Tenants : ResidentWeight(q)[t] <= w
                         /\ 3 * w < PeriodMs
                         /\ q = FullQuota => 6 * w < PeriodMs
    BY <1>3, CheckedGuards
  <2>2. R \in Nat /\ R <= (r - 0) * w
    <3>1. ResidentWeight(q) \in [Tenants -> Nat] /\ 0 \in 0 .. MaxTenants /\ 0 <= r
      BY <1>3, <1>5, WeightsTyped DEF MaxTenants
    <3>2. PlanFor.residents = 0 .. r - 1
      BY <1>4
    <3>3. r \in 0 .. MaxTenants
      BY <1>5
    <3> HIDE DEF q, r
    <3>4. QED
      BY <2>1, <3>1, <3>2, <3>3, TotalBound
  <2>3. (r - 0) * w = r * w /\ (r <= 3 => r * w <= 3 * w) /\ r * w <= 6 * w
    <3>1. r \in 0 .. 6
      BY <1>5 DEF MaxTenants
    <3>2. r = 0 \/ r = 1 \/ r = 2 \/ r = 3 \/ r = 4 \/ r = 5 \/ r = 6
      BY <3>1
    <3> HIDE DEF r
    <3>3. QED
      BY <3>1, <3>2
  <2>4. r <= 3 \/ q = FullQuota
    BY <1>3, <1>5, <1>6 DEF CalibratedResidents, FullQuota, MaxTenants
  <2>5. PeriodMs \in Nat
    BY FeedbackAssumption
  <2> HIDE DEF R, r, q
  <2>6. r * w \in Int
    BY <1>5 DEF MaxTenants
  <2>7. QED
    BY <2>1, <2>2, <2>3, <2>4, <2>5, <2>6
<1>10. GatedBorrowers => B \in Nat /\ B < PeriodMs
  <2> SUFFICES ASSUME GatedBorrowers PROVE B \in Nat /\ B < PeriodMs
    OBVIOUS
  <2>1. PICK w \in Nat : /\ \A t \in Tenants : BorrowerWeight[t] <= w
                         /\ 3 * w < PeriodMs
    BY CheckedGuards
  <2>2. B \in Nat /\ B <= (admitted - r) * w
    <3>1. PlanFor.borrowers = r .. admitted - 1 /\ admitted \in 0 .. MaxTenants
      BY <1>4 DEF MaxTenants
    <3>2. r \in 0 .. MaxTenants /\ r <= admitted
      BY <1>5
    <3> HIDE DEF r
    <3>3. QED
      BY <2>1, <3>1, <3>2, WeightsTyped, TotalBound
  <2>3. n \in 0 .. 3 /\ admitted - r = n
    BY <1>2 DEF GatedBorrowers, MaxTenants
  <2>4. n * w <= 3 * w /\ n * w \in Int
    <3>1. n = 0 \/ n = 1 \/ n = 2 \/ n = 3
      BY <2>3
    <3>2. QED
      BY <3>1
  <2>5. PeriodMs \in Nat
    BY FeedbackAssumption
  <2> HIDE DEF B, r
  <2>6. QED
    BY <2>1, <2>2, <2>3, <2>4, <2>5
<1>11. 0 < PeriodMs
  BY <1>9, FeedbackAssumption
<1> HIDE DEF R, B
<1>12. QED
  BY <1>8, <1>9, <1>10, <1>11, FeedbackAssumption DEF Greatest

\* The start-up check of the guard profile covers every plan but those of the
\* governor with more than three residents at a reduced quota.
THEOREM StartupCovers == Spec => []StartupCheckCovers
<1>1. Init => StartupCheckCovers
  BY DEF Init, StartupCheckCovers
<1>2. ASSUME TypeOK, StartupCheckCovers, [Next]_vars PROVE StartupCheckCovers'
  <2>1. CASE Prepare
    <3>1. /\ plan' = PlanFor /\ policy' = policy
          /\ phase' = IF GuardFor(plan') >= PeriodMs THEN "guard too long" ELSE "measure"
      BY <2>1 DEF Prepare
    <3>2. SUFFICES ASSUME phase' = "guard too long"
                   PROVE  /\ policy = "mig-governor" /\ PlanFor.quota < FullQuota
                          /\ Cardinality(PlanFor.residents) > CalibratedResidents
      BY <3>1 DEF StartupCheckCovers
    <3>3. GuardFor(PlanFor) >= PeriodMs
      BY <3>1, <3>2
    <3>4. SUFFICES ASSUME ~(/\ policy = "mig-governor" /\ PlanFor.quota < FullQuota
                            /\ Cardinality(PlanFor.residents) > CalibratedResidents)
                   PROVE  FALSE
      OBVIOUS
    <3>5. GuardFor(PlanFor) < PeriodMs /\ GuardFor(PlanFor) \in Int
      BY <1>2, <3>4, GuardFits
    <3>6. QED
      BY <3>3, <3>5, FeedbackAssumption
  <2>2. CASE phase' # "guard too long"
    BY <2>2 DEF StartupCheckCovers
  <2>3. CASE UNCHANGED vars
    BY <1>2, <2>3 DEF vars, StartupCheckCovers
  <2>4. Prepare \/ phase' # "guard too long" \/ UNCHANGED vars
    BY <1>2 DEF Next, MeasurementRaises, NoFeedback, FailClosed, DrainReclaim,
                ResidualReclaim, HoldNearDeadline, HoldHysteresis, Recover, EndEpoch
  <2>5. QED
    BY <2>1, <2>2, <2>3, <2>4
<1>3. QED
  BY <1>1, <1>2, FeedbackTyped, PTL DEF Spec

=============================================================================
