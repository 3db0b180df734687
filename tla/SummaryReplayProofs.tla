-------------------------- MODULE SummaryReplayProofs --------------------------
(***************************************************************************)
(* The facts of an epoch only decide which branch SlackFeedback takes, so  *)
(* that what is proved of its loop holds of this one; and the transitions, *)
(* plans, guards and edges that the summary computes are the governor's,   *)
(* for every guard profile, period and number of epochs.                   *)
(***************************************************************************)
EXTENDS SummaryReplay, SlackFeedbackProofs

LEMMA StepRefines == [ReplayNext]_replayVars => [Next]_vars
<1>1. CASE Plans
  BY <1>1 DEF Plans, Next
<1>2. ASSUME NEW f \in Facts, Ends(f) PROVE Next
  BY <1>2 DEF Ends, Ungoverned, Unhealthy, Drains, Reclaims, Holds, Waits, Recovers, Next
<1>3. CASE UNCHANGED replayVars
  BY <1>3 DEF replayVars
<1>4. QED
  BY <1>1, <1>2, <1>3 DEF ReplayNext

\* The measured loop is the policy loop: every step is one of its steps.
THEOREM FactsRefine == ReplaySpec => Spec
<1>1. ReplayInit => Init
  BY DEF ReplayInit
<1>2. QED
  BY <1>1, StepRefines, PTL DEF ReplaySpec, Spec

LEMMA MaxIsGreatest ==
  ASSUME NEW a \in Int, NEW b \in Int
  PROVE  Max({a, b}) = Greatest(a, b)
<1>1. Greatest(a, b) \in {a, b} /\ \A y \in {a, b} : Greatest(a, b) >= y
  BY DEF Greatest
<1>2. \A x \in {a, b} : (\A y \in {a, b} : x >= y) => x = Greatest(a, b)
  BY DEF Greatest
<1>3. QED
  BY <1>1, <1>2 DEF Max

\* What the summary's steps make of a state, given its fields.
StepsOf(state, a, q, b, s) ==
  /\ Zeroed(state) = Limit(a, q, b)
  /\ Zeroed([state EXCEPT !.quota = @ + 1]) = Limit(a, q + 1, b)
  /\ Zeroed([state EXCEPT !.quota = @ - 1]) = Limit(a, q - 1, b)
  /\ Zeroed([state EXCEPT !.admission = @ + 1]) = Limit(a + 1, q, b)
  /\ Zeroed([state EXCEPT !.borrowers = @ + 1]) = Limit(a, q, b + 1)
  /\ Minus(state) = [admission |-> a, quota |-> q, borrowers |-> Max({0, b - 1}), safe |-> s]
  /\ Squeezed(state) = [admission |-> Max({1, a - 1}), quota |-> q, borrowers |-> b, safe |-> s]

LEMMA StepsAre ==
  ASSUME NEW a, NEW q, NEW b, NEW s, NEW state,
         state = [admission |-> a, quota |-> q, borrowers |-> b, safe |-> s]
  PROVE  StepsOf(state, a, q, b, s)
<1>1. [state EXCEPT !.quota = @ + 1] = [admission |-> a, quota |-> q + 1, borrowers |-> b, safe |-> s]
  OBVIOUS
<1>2. [state EXCEPT !.quota = @ - 1] = [admission |-> a, quota |-> q - 1, borrowers |-> b, safe |-> s]
  OBVIOUS
<1>3. [state EXCEPT !.admission = @ + 1] = [admission |-> a + 1, quota |-> q, borrowers |-> b, safe |-> s]
  OBVIOUS
<1>4. [state EXCEPT !.borrowers = @ + 1] = [admission |-> a, quota |-> q, borrowers |-> b + 1, safe |-> s]
  OBVIOUS
<1>5. \A x, y, z : Zeroed([admission |-> x, quota |-> y, borrowers |-> z, safe |-> s]) = Limit(x, y, z)
  BY DEF Zeroed, Limit
<1>6. Minus(state) = [admission |-> a, quota |-> q, borrowers |-> Max({0, b - 1}), safe |-> s]
  BY DEF Minus
<1>7. Squeezed(state) = [admission |-> Max({1, a - 1}), quota |-> q, borrowers |-> b, safe |-> s]
  BY DEF Squeezed
<1>8. QED
  BY <1>1, <1>2, <1>3, <1>4, <1>5, <1>6, <1>7 DEF StepsOf

\* Only the governor ever moves the state.
OthersKeep == policy # "mig-governor" => fb = Default

LEMMA LimitIs ==
  ASSUME NEW state \in Limits
  PROVE  /\ state = [admission |-> state.admission, quota |-> state.quota,
                     borrowers |-> state.borrowers, safe |-> state.safe]
         /\ state.admission \in 1 .. 6 /\ state.quota \in 0 .. 2
         /\ state.borrowers \in 0 .. 6 /\ state.safe \in 0 .. 2
BY DEF Limits, MaxTenants, FullQuota

LEMMA EndIs ==
  ASSUME NEW state, NEW safe, NEW struck, EndEpoch(state, safe, struck)
  PROVE  fb' = state /\ policy' = policy
BY DEF EndEpoch

\* One epoch's feedback is the summary's transition.
LEMMA GovernedReplays ==
  ASSUME TypeOK, NEW f \in Facts, Ends(f), policy = "mig-governor"
  PROVE  Transition(fb, report'.facts) = <<fb', report'.action>>
<1> DEFINE a == fb.admission
           q == fb.quota
           b == fb.borrowers
           s == fb.safe
<1>1. /\ fb = [admission |-> a, quota |-> q, borrowers |-> b, safe |-> s]
      /\ a \in 1 .. 6 /\ q \in 0 .. 2 /\ b \in 0 .. 6 /\ s \in 0 .. 2
  BY LimitIs DEF TypeOK
<1>2. /\ Max({0, b - 1}) = Greatest(0, b - 1)
      /\ Max({1, a - 1}) = Greatest(1, a - 1)
  <2>1. 0 \in Int /\ 1 \in Int /\ a - 1 \in Int /\ b - 1 \in Int
    BY <1>1
  <2>2. QED
    BY <2>1, MaxIsGreatest
<1>3. /\ f.unhealthy \in BOOLEAN /\ f.drain \in BOOLEAN /\ f.violated \in BOOLEAN
      /\ f.hot \in BOOLEAN /\ f.near \in BOOLEAN
  BY DEF Facts
<1> HIDE DEF a, q, b, s
<1>13. fb = [admission |-> a, quota |-> q, borrowers |-> b, safe |-> s]
  BY <1>1
<1>14. /\ Zeroed(fb) = Limit(a, q, b)
       /\ Zeroed([fb EXCEPT !.quota = @ + 1]) = Limit(a, q + 1, b)
       /\ Zeroed([fb EXCEPT !.admission = @ + 1]) = Limit(a + 1, q, b)
       /\ Zeroed([fb EXCEPT !.borrowers = @ + 1]) = Limit(a, q, b + 1)
       /\ Minus(fb) = [admission |-> a, quota |-> q, borrowers |-> Max({0, b - 1}), safe |-> s]
  <2>1. StepsOf(fb, a, q, b, s)
    BY <1>13, StepsAre
  <2>2. QED
    BY <2>1, Zenon DEF StepsOf
<1>4. /\ Minus(fb) = [admission |-> a, quota |-> q, borrowers |-> Greatest(0, b - 1), safe |-> s]
      /\ Squeezed(Minus(fb)) =
           [admission |-> Greatest(1, a - 1), quota |-> q, borrowers |-> Greatest(0, b - 1), safe |-> s]
  <2>1. Minus(fb) = [admission |-> a, quota |-> q, borrowers |-> Greatest(0, b - 1), safe |-> s]
    BY <1>2, <1>14
  <2>2. Squeezed(Minus(fb)) =
          [admission |-> Max({1, a - 1}), quota |-> q, borrowers |-> Greatest(0, b - 1), safe |-> s]
    <3>1. StepsOf(Minus(fb), a, q, Greatest(0, b - 1), s)
      BY <2>1, StepsAre
    <3>2. QED
      BY <3>1, Zenon DEF StepsOf
  <2>3. QED
    BY <1>2, <2>1, <2>2
<1>5. CASE Unhealthy(f)
  BY <1>5, <1>3 DEF Unhealthy, FailClosed, Records, EndEpoch, Limit, Transition
<1>6. CASE Drains(f)
  <2>1. Zeroed(Squeezed(Minus(fb))) = Limit(Greatest(1, a - 1), q, Greatest(0, b - 1))
    BY <1>4 DEF Zeroed, Limit
  <2>2. fb' = Limit(Greatest(1, a - 1), q, Greatest(0, b - 1))
    BY <1>6 DEF Drains, DrainReclaim, EndEpoch, a, b, q
  <2>3. QED
    BY <1>6, <2>1, <2>2 DEF Drains, Records, Transition
<1>7. CASE Reclaims(f)
  <2>1. fb' = Reclaimed
    BY <1>7 DEF Reclaims, ResidualReclaim, EndEpoch
  <2>2. CASE q > 0
    <3>1. Zeroed([Minus(fb) EXCEPT !.quota = @ - 1]) = Limit(a, q - 1, Greatest(0, b - 1))
      <4>1. StepsOf(Minus(fb), a, q, Greatest(0, b - 1), s)
        BY <1>4, StepsAre
      <4>2. QED
        BY <4>1, Zenon DEF StepsOf
    <3>2. Reclaimed = Limit(a, q - 1, Greatest(0, b - 1))
      BY <2>2 DEF Reclaimed, a, b, q
    <3>3. QED
      BY <1>7, <2>1, <2>2, <3>1, <3>2 DEF Reclaims, Records, Transition, q
  <2>3. CASE ~(q > 0)
    <3>1. Zeroed(Squeezed(Minus(fb))) = Limit(Greatest(1, a - 1), 0, Greatest(0, b - 1))
      BY <1>1, <1>4, <2>3 DEF Zeroed, Limit
    <3>2. Reclaimed = Limit(Greatest(1, a - 1), 0, Greatest(0, b - 1))
      BY <2>3 DEF Reclaimed, a, b, q
    <3>3. QED
      BY <1>7, <2>1, <2>3, <3>1, <3>2 DEF Reclaims, Records, Transition, q
  <2>4. QED
    BY <2>2, <2>3
<1>8. CASE Holds(f)
  BY <1>8 DEF Holds, Slack, HoldNearDeadline, EndEpoch, Records, Transition, Zeroed
<1>9. CASE Waits(f)
  BY <1>9 DEF Waits, Slack, HoldHysteresis, EndEpoch, Records, Transition, SafeTransition
<1>10. CASE Recovers(f)
  <2>1. fb' = Recovered /\ ~(s + 1 < 3) /\ Transition(fb, f) = SafeTransition(fb)
        /\ report' = [facts |-> f, action |-> RecoveredDimension]
    BY <1>1, <1>10 DEF Recovers, Slack, Recover, EndEpoch, Records, Transition, s
  <2>2. CASE q < 2
    <3>1. SafeTransition(fb) = <<Zeroed([fb EXCEPT !.quota = @ + 1]), "recover-resident-quota">>
      BY <2>1, <2>2 DEF SafeTransition, q, s
    <3>2. Zeroed([fb EXCEPT !.quota = @ + 1]) = Limit(a, q + 1, b)
      BY <1>14
    <3>3. Recovered = Limit(a, q + 1, b) /\ RecoveredDimension = "recover-resident-quota"
      BY <1>1, <2>2 DEF Recovered, RecoveredDimension, FullQuota, a, b, q
    <3>4. QED
      BY <2>1, <3>1, <3>2, <3>3
  <2>3. CASE q = 2 /\ a < 6
    <3>1. SafeTransition(fb) = <<Zeroed([fb EXCEPT !.admission = @ + 1]), "recover-admission">>
      BY <2>1, <2>3 DEF SafeTransition, q, s, a
    <3>2. Zeroed([fb EXCEPT !.admission = @ + 1]) = Limit(a + 1, q, b)
      BY <1>14
    <3>3. Recovered = Limit(a + 1, q, b) /\ RecoveredDimension = "recover-admission"
      BY <1>1, <2>3 DEF Recovered, RecoveredDimension, FullQuota, MaxTenants, a, b, q
    <3>4. QED
      BY <2>1, <3>1, <3>2, <3>3
  <2>4. CASE q = 2 /\ a = 6 /\ b < 6
    <3>1. SafeTransition(fb) = <<Zeroed([fb EXCEPT !.borrowers = @ + 1]), "recover-borrower">>
      BY <2>1, <2>4 DEF SafeTransition, q, s, a, b
    <3>2. Zeroed([fb EXCEPT !.borrowers = @ + 1]) = Limit(a, q, b + 1)
      BY <1>14
    <3>3. Recovered = Limit(a, q, b + 1) /\ RecoveredDimension = "recover-borrower"
      BY <1>1, <2>4 DEF Recovered, RecoveredDimension, FullQuota, MaxTenants, a, b, q
    <3>4. QED
      BY <2>1, <3>1, <3>2, <3>3
  <2>5. CASE q = 2 /\ a = 6 /\ b = 6
    <3>1. SafeTransition(fb) = <<Zeroed(fb), "hold-full-capacity">>
      BY <2>1, <2>5 DEF SafeTransition, q, s, a, b
    <3>2. Zeroed(fb) = Limit(a, q, b)
      BY <1>14
    <3>3. Recovered = Limit(a, q, b) /\ RecoveredDimension = "hold-full-capacity"
      BY <1>1, <2>5 DEF Recovered, RecoveredDimension, FullQuota, MaxTenants, a, b, q
    <3>4. QED
      BY <2>1, <3>1, <3>2, <3>3
  <2>6. QED
    BY <1>1, <2>2, <2>3, <2>4, <2>5
<1>11. ~Ungoverned(f)
  BY DEF Ungoverned, NoFeedback
<1>12. QED
  BY <1>5, <1>6, <1>7, <1>8, <1>9, <1>10, <1>11 DEF Ends

LEMMA OthersKeepStep ==
  ASSUME OthersKeep, [Next]_vars PROVE OthersKeep'
<1>1. policy' = policy /\ (policy # "mig-governor" => fb' = fb)
  BY DEF Next, vars, Prepare, MeasurementRaises, NoFeedback, FailClosed, DrainReclaim,
         ResidualReclaim, HoldNearDeadline, HoldHysteresis, Recover, EndEpoch
<1>2. QED
  BY <1>1 DEF OthersKeep

\* What the summary's replay of the feedback computes from the record is what the
\* governor did, in every epoch of every policy.
THEOREM FeedbackReplays == ReplaySpec => [][TransitionReplays]_replayVars
<1>1. Spec => []OthersKeep
  <2>1. Init => OthersKeep
    BY DEF Init, OthersKeep, Limit, Default, MaxTenants, FullQuota
  <2>2. QED
    BY <2>1, OthersKeepStep, PTL DEF Spec
<1>2. ASSUME TypeOK, TypeOK', OthersKeep, OthersKeep', [ReplayNext]_replayVars
      PROVE  TransitionReplays
  <2>1. CASE \E f \in Facts : Ends(f)
    <3>1. PICK f \in Facts : Ends(f)
      BY <2>1
    <3>2. ValidState(fb')
      BY <1>2, LimitIs DEF TypeOK, ValidState
    <3>3. policy # "mig-governor" => fb' = Default /\ report'.action = "not-applicable"
      <4>1. SUFFICES ASSUME policy # "mig-governor"
                     PROVE  fb' = Default /\ report'.action = "not-applicable"
        OBVIOUS
      <4>2. Ungoverned(f)
        BY <3>1, <4>1 DEF Ends, Unhealthy, Drains, Reclaims, Holds, Waits, Recovers, FailClosed,
                          DrainReclaim, ResidualReclaim, HoldNearDeadline, HoldHysteresis, Recover
      <4>3. QED
        BY <1>2, <4>1, <4>2 DEF Ungoverned, NoFeedback, EndEpoch, Records, OthersKeep
    <3>4. QED
      BY <1>2, <3>1, <3>2, <3>3, GovernedReplays DEF TransitionReplays
  <2>2. CASE epoch' = epoch
    BY <2>2 DEF TransitionReplays
  <2>3. (\E f \in Facts : Ends(f)) \/ epoch' = epoch
    BY <1>2 DEF ReplayNext, Plans, Prepare, MeasurementRaises, replayVars, vars
  <2>4. QED
    BY <2>1, <2>2, <2>3
<1>3. QED
  BY <1>1, <1>2, FactsRefine, FeedbackTyped, PTL DEF ReplaySpec

(***************************************************************************)
(* Plans, guards and dependency edges.                                     *)
(***************************************************************************)

LEMMA MinIsLeast ==
  ASSUME NEW a \in Int, NEW b \in Int
  PROVE  Min({a, b}) = Least(a, b)
<1>1. Least(a, b) \in {a, b} /\ \A y \in {a, b} : Least(a, b) <= y
  BY DEF Least
<1>2. \A x \in {a, b} : (\A y \in {a, b} : x <= y) => x = Least(a, b)
  BY DEF Least
<1>3. QED
  BY <1>1, <1>2 DEF Min

\* The summary's trace of six epochs is the governor's of three, twice.
LEMMA OfferedReplays ==
  ASSUME NEW e \in Nat
  PROVE  /\ Offered(e) \in {2, 4, 6}
         /\ FormalOffered(e) = 0 .. Offered(e) - 1
         /\ Cardinality(FormalOffered(e)) = Offered(e)
<1>1. \/ e % 6 \in {0, 3} /\ e % 3 = 0
      \/ e % 6 \in {1, 4} /\ e % 3 = 1
      \/ e % 6 \in {2, 5} /\ e % 3 = 2
  <2>1. e % 6 \in 0 .. 5 /\ e % 3 = (e % 6) % 3
    OBVIOUS
  <2>2. QED
    BY <2>1
<1>2. Len(FormalTrace) = 6
  BY DEF FormalTrace
<1>3. /\ FormalTrace[1] = 0 .. 1 /\ FormalTrace[2] = 0 .. 3 /\ FormalTrace[3] = 0 .. 5
      /\ FormalTrace[4] = 0 .. 1 /\ FormalTrace[5] = 0 .. 3 /\ FormalTrace[6] = 0 .. 5
  <2>1. {0, 1} = 0 .. 1
    OBVIOUS
  <2>2. QED
    BY <2>1 DEF FormalTrace
<1>4. /\ Offered(e) \in {2, 4, 6}
      /\ FormalOffered(e) = 0 .. Offered(e) - 1
  <2>0. FormalOffered(e) = FormalTrace[1 + (e % 6)]
    BY <1>2 DEF FormalOffered
  <2>1. CASE e % 6 \in {0, 3} /\ e % 3 = 0
    <3>1. Offered(e) = 2 /\ Offered(e) - 1 = 1
      BY <2>1 DEF Offered
    <3>2. 1 + (e % 6) = 1 \/ 1 + (e % 6) = 4
      BY <2>1
    <3>3. FormalOffered(e) = 0 .. 1
      BY <1>3, <2>0, <3>2
    <3>4. QED
      BY <3>1, <3>3
  <2>2. CASE e % 6 \in {1, 4} /\ e % 3 = 1
    <3>1. Offered(e) = 4 /\ Offered(e) - 1 = 3
      BY <2>2 DEF Offered
    <3>2. 1 + (e % 6) = 2 \/ 1 + (e % 6) = 5
      BY <2>2
    <3>3. FormalOffered(e) = 0 .. 3
      BY <1>3, <2>0, <3>2
    <3>4. QED
      BY <3>1, <3>3
  <2>3. CASE e % 6 \in {2, 5} /\ e % 3 = 2
    <3>1. Offered(e) = 6 /\ Offered(e) - 1 = 5
      BY <2>3 DEF Offered
    <3>2. 1 + (e % 6) = 3 \/ 1 + (e % 6) = 6
      BY <2>3
    <3>3. FormalOffered(e) = 0 .. 5
      BY <1>3, <2>0, <3>2
    <3>4. QED
      BY <3>1, <3>3
  <2>4. QED
    BY <1>1, <2>1, <2>2, <2>3
<1>5. Cardinality(0 .. Offered(e) - 1)
        = IF 0 > Offered(e) - 1 THEN 0 ELSE Offered(e) - 1 - 0 + 1
  <2>1. 0 \in Int /\ Offered(e) - 1 \in Int
    BY <1>4
  <2>2. QED
    BY <2>1, FS_Interval, Zenon
<1>6. QED
  BY <1>4, <1>5

LEMMA ModalityReplays == \A t \in Nat : FormalModality(t) = Modality(t)
BY DEF FormalModality, Modality

LEMMA BorrowersReplay ==
  ASSUME TypeOK, NEW admitted \in 1 .. MaxTenants
  PROVE  FormalBorrowers(policy, admitted, fb) = BorrowerCount(admitted)
<1>1. policy \in KnownPolicies
  BY FeedbackAssumption DEF TypeOK
<1>2. fb.borrowers \in Int /\ admitted \div 2 \in Int
  <2>1. fb \in Limits
    BY DEF TypeOK
  <2>2. fb.borrowers \in 0 .. MaxTenants
    BY <2>1 DEF Limits
  <2>3. QED
    BY <2>2 DEF MaxTenants
<1>3. Min({admitted \div 2, fb.borrowers}) = Least(admitted \div 2, fb.borrowers)
  BY <1>2, MinIsLeast
<1>4. QED
  BY <1>1, <1>3 DEF KnownPolicies, FormalBorrowers, BorrowerCount

\* What the two sides plan, in the same words.
Placement(t, residents) == IF t < residents THEN "resident-1g" ELSE "borrower-2g"
PlannedQuota == IF policy = "mig-governor" THEN fb.quota ELSE FullQuota
Planned(admitted, residents) ==
  {[tenant |-> t, placement |-> Placement(t, residents),
    quota |-> IF t < residents THEN PlannedQuota ELSE FullQuota] : t \in 0 .. admitted - 1}

LEMMA PlansReplay ==
  ASSUME TypeOK
  PROVE  \E admitted \in 1 .. MaxTenants : \E residents \in 0 .. admitted :
           /\ PlanFor = [residents |-> 0 .. residents - 1,
                         borrowers |-> residents .. admitted - 1,
                         quota     |-> PlannedQuota]
           /\ PlannedQuota \in 0 .. FullQuota
           /\ admitted <= Offered(epoch)
           /\ Identities(PlanFor) = Planned(admitted, residents)
           /\ ExpectedIdentities(policy, FormalOffered(epoch), fb) =
                Planned(admitted, residents)
<1>1. epoch \in Nat
  <2>1. epoch \in 0 .. Epochs
    BY DEF TypeOK
  <2>2. QED
    BY <2>1
<1>2. /\ fb.admission \in 1 .. MaxTenants /\ PlannedQuota \in 0 .. FullQuota
  <2>1. fb \in Limits
    BY DEF TypeOK
  <2>2. fb.admission \in 1 .. MaxTenants /\ fb.quota \in 0 .. FullQuota
    BY <2>1 DEF Limits
  <2>3. QED
    BY <2>2 DEF PlannedQuota, FullQuota
<1> DEFINE admitted == Least(Offered(epoch), fb.admission)
           residents == admitted - BorrowerCount(admitted)
<1>3. admitted \in 1 .. MaxTenants /\ admitted <= Offered(epoch)
  BY <1>1, <1>2, OfferedReplays DEF Least, MaxTenants
<1>4. PlanFor = [residents |-> 0 .. residents - 1, borrowers |-> residents .. admitted - 1,
                 quota |-> PlannedQuota]
  BY DEF PlanFor, PlannedQuota
<1> HIDE DEF admitted
<1>5. residents \in 0 .. admitted
  BY <1>3, BorrowerShare DEF MaxTenants
<1>6. Min({Cardinality(FormalOffered(epoch)), fb.admission}) = admitted
  <2>1. Offered(epoch) \in Int /\ fb.admission \in Int
    BY <1>1, <1>2, OfferedReplays DEF MaxTenants
  <2>2. QED
    BY <1>1, <2>1, OfferedReplays, MinIsLeast DEF admitted
<1>7. FormalBorrowers(policy, admitted, fb) = BorrowerCount(admitted)
  BY <1>3, BorrowersReplay
<1>8. {u \in FormalOffered(epoch) : u < admitted} = 0 .. admitted - 1
  BY <1>1, <1>3, OfferedReplays DEF MaxTenants
<1>9. ExpectedIdentities(policy, FormalOffered(epoch), fb) = Planned(admitted, residents)
  BY <1>6, <1>7, <1>8 DEF ExpectedIdentities, Planned, Placement, PlannedQuota
<1> HIDE DEF residents
<1>10. Identities(PlanFor) = Planned(admitted, residents)
  <2>1. Identities(PlanFor) =
          {[tenant |-> t, placement |-> "resident-1g", quota |-> PlannedQuota] :
             t \in 0 .. residents - 1}
          \cup {[tenant |-> t, placement |-> "borrower-2g", quota |-> FullQuota] :
             t \in residents .. admitted - 1}
    BY <1>4 DEF Identities
  <2>2. \A t \in 0 .. admitted - 1 :
          /\ t < residents <=> t \in 0 .. residents - 1
          /\ ~(t < residents) <=> t \in residents .. admitted - 1
    BY <1>3, <1>5 DEF MaxTenants
  <2>3. 0 .. residents - 1 \subseteq 0 .. admitted - 1
        /\ residents .. admitted - 1 \subseteq 0 .. admitted - 1
    BY <1>3, <1>5 DEF MaxTenants
  <2>4. QED
    BY <2>1, <2>2, <2>3 DEF Planned, Placement
<1>11. QED
  BY <1>2, <1>3, <1>4, <1>5, <1>9, <1>10

LEMMA PlannedTenants ==
  ASSUME NEW admitted \in 1 .. MaxTenants, NEW residents \in 0 .. admitted
  PROVE  {i.tenant : i \in Planned(admitted, residents)} = 0 .. admitted - 1
<1>1. ASSUME NEW t PROVE [tenant |-> t, placement |-> Placement(t, residents),
                          quota |-> IF t < residents THEN PlannedQuota ELSE FullQuota].tenant = t
  OBVIOUS
<1>2. QED
  BY <1>1 DEF Planned

LEMMA EdgesReplay ==
  ASSUME NEW p, NEW e \in Nat,
         NEW admitted \in 1 .. MaxTenants, NEW residents \in 0 .. admitted,
         admitted <= Offered(e),
         p.residents = 0 .. residents - 1, p.borrowers = residents .. admitted - 1
  PROVE  DependencyPipes(p) = ExpectedEdges(FormalOffered(e), Planned(admitted, residents))
<1> DEFINE T == 0 .. admitted - 1
<1>1. p.residents \cup p.borrowers = T
  BY DEF MaxTenants
<1>2. {i.tenant : i \in Planned(admitted, residents)} = T
  BY PlannedTenants
<1>3. T \subseteq FormalOffered(e)
  BY OfferedReplays DEF MaxTenants
<1>4. \A t \in T : t \in Nat
  OBVIOUS
<1>5. \A t \in T : t > 0 <=> t - 1 \in T
  BY DEF MaxTenants
<1>6. DependencyPipes(p) = {t \in T : /\ Modality(t) = "language"
                                      /\ t > 0
                                      /\ t - 1 \in T /\ Modality(t - 1) = "audio"}
  BY <1>1 DEF DependencyPipes
<1>7. ExpectedEdges(FormalOffered(e), Planned(admitted, residents)) =
        {t \in FormalOffered(e) : /\ FormalModality(t) = "language"
                                  /\ {t - 1, t} \subseteq T
                                  /\ FormalModality(t - 1) = "audio"}
  BY <1>2 DEF ExpectedEdges
<1> HIDE DEF T
<1>8. QED
  BY <1>3, <1>4, <1>5, <1>6, <1>7, ModalityReplays

\* A sum over tenants as the record lists them is a sum over the tenants.
LEMMA ProfiledSum ==
  ASSUME NEW S, NEW weight \in [Tenants -> Nat],
         \A i \in S : i.tenant \in Tenants /\ ProfiledGuard(i) = weight[i.tenant],
         \A i, j \in S : i.tenant = j.tenant => i = j
  PROVE  MapThenSumSet(ProfiledGuard, S) = Total(weight, {i.tenant : i \in S})
<1> DEFINE named == [i \in S |-> i.tenant]
           Body(g) == [s \in SUBSET S |->
                         IF s = {} THEN 0
                         ELSE ProfiledGuard(Picked(s)) + g[s \ {Picked(s)}]]
           sum == CHOOSE g : g = Body(g)
<1>1. MapThenSumSet(ProfiledGuard, S) = sum[S]
  BY DEF MapThenSumSet, MapThenFoldSet, Picked
<1>2. ASSUME NEW g PROVE g = Body(g) <=> IsSum(g, weight, named, S)
  <2>1. ASSUME NEW s \in SUBSET S, s # {}
        PROVE  weight[named[Picked(s)]] = ProfiledGuard(Picked(s))
    <3>1. Picked(s) \in S
      BY <2>1 DEF Picked
    <3>2. QED
      BY <3>1
  <2>2. Body(g) = [s \in SUBSET S |->
                     IF s = {} THEN 0 ELSE weight[named[Picked(s)]] + g[s \ {Picked(s)}]]
    BY <2>1
  <2> HIDE DEF named, Body
  <2>3. QED
    BY <2>2 DEF IsSum
<1>3. Named(named, S)
  BY DEF Named
<1>4. Who(named, S) = {i.tenant : i \in S}
  BY DEF Who
<1> HIDE DEF Body, named
<1>5. \E g : g = Body(g)
  BY <1>2, <1>3, SumExists
<1>6. sum = Body(sum)
  BY <1>5
<1> HIDE DEF sum
<1>7. sum[S] = Total(weight, Who(named, S))
  BY <1>2, <1>3, <1>6, SumUnique
<1>8. QED
  BY <1>1, <1>4, <1>7

\* The tenants of one placement, and the sum of their guards.
At(p, admitted, residents) == {i \in Planned(admitted, residents) : i.placement = p}

LEMMA SumsReplay ==
  ASSUME NEW admitted \in 1 .. MaxTenants, NEW residents \in 0 .. admitted,
         PlannedQuota \in 0 .. FullQuota
  PROVE  /\ MapThenSumSet(ProfiledGuard, At("resident-1g", admitted, residents))
              = Total(ResidentWeight(PlannedQuota), 0 .. residents - 1)
         /\ MapThenSumSet(ProfiledGuard, At("borrower-2g", admitted, residents))
              = Total(BorrowerWeight, residents .. admitted - 1)
         /\ At("resident-1g", admitted, residents) = {} <=> residents = 0
         /\ At("borrower-2g", admitted, residents) = {} <=> residents = admitted
         /\ Planned(admitted, residents) = At("resident-1g", admitted, residents)
                                              \cup At("borrower-2g", admitted, residents)
<1> DEFINE id(t) == [tenant |-> t, placement |-> Placement(t, residents),
                     quota |-> IF t < residents THEN PlannedQuota ELSE FullQuota]
           R == At("resident-1g", admitted, residents)
           B == At("borrower-2g", admitted, residents)
<1>1. \A t : /\ id(t).tenant = t /\ id(t).placement = Placement(t, residents)
             /\ id(t).quota = IF t < residents THEN PlannedQuota ELSE FullQuota
  OBVIOUS
<1>2. Planned(admitted, residents) = {id(t) : t \in 0 .. admitted - 1}
  BY DEF Planned
<1> HIDE DEF id
<1>3. \A t \in 0 .. admitted - 1 :
        /\ t \in Tenants /\ t \in Nat
        /\ t < residents <=> t \in 0 .. residents - 1
        /\ ~(t < residents) <=> t \in residents .. admitted - 1
  BY DEF Tenants, MaxTenants
<1>4. 0 .. residents - 1 \subseteq 0 .. admitted - 1
      /\ residents .. admitted - 1 \subseteq 0 .. admitted - 1
  BY DEF MaxTenants
<1>5. R = {id(t) : t \in 0 .. residents - 1}
  BY <1>1, <1>2, <1>3, <1>4 DEF At, Placement
<1>6. B = {id(t) : t \in residents .. admitted - 1}
  BY <1>1, <1>2, <1>3, <1>4 DEF At, Placement
<1>7. {i.tenant : i \in R} = 0 .. residents - 1
      /\ {i.tenant : i \in B} = residents .. admitted - 1
  BY <1>1, <1>5, <1>6
<1>8. MapThenSumSet(ProfiledGuard, R)
        = Total(ResidentWeight(PlannedQuota), {i.tenant : i \in R})
  <2>1. ASSUME NEW i \in R
        PROVE  /\ i.tenant \in Tenants
               /\ ProfiledGuard(i) = ResidentWeight(PlannedQuota)[i.tenant]
    <3>1. PICK t \in 0 .. residents - 1 : i = id(t)
      BY <1>5
    <3>2. t \in Tenants /\ t \in Nat /\ t < residents
      BY <1>3, <1>4
    <3>3. i.tenant = t /\ i.placement = "resident-1g" /\ i.quota = PlannedQuota
      BY <1>1, <3>1, <3>2 DEF Placement
    <3>4. QED
      BY <3>2, <3>3, ModalityReplays DEF ProfiledGuard, ResidentWeight
  <2>2. \A i, j \in R : i.tenant = j.tenant => i = j
    BY <1>1, <1>5
  <2> HIDE DEF R
  <2>3. ResidentWeight(PlannedQuota) \in [Tenants -> Nat]
    BY WeightsTyped
  <2>4. QED
    BY <2>1, <2>2, <2>3, ProfiledSum
<1>9. MapThenSumSet(ProfiledGuard, B) = Total(BorrowerWeight, {i.tenant : i \in B})
  <2>1. ASSUME NEW i \in B
        PROVE  i.tenant \in Tenants /\ ProfiledGuard(i) = BorrowerWeight[i.tenant]
    <3>1. PICK t \in residents .. admitted - 1 : i = id(t)
      BY <1>6
    <3>2. t \in Tenants /\ t \in Nat /\ ~(t < residents)
      BY <1>3, <1>4
    <3>3. i.tenant = t /\ i.placement = "borrower-2g"
      BY <1>1, <3>1, <3>2 DEF Placement
    <3>4. QED
      BY <3>2, <3>3, ModalityReplays DEF ProfiledGuard, BorrowerWeight
  <2>2. \A i, j \in B : i.tenant = j.tenant => i = j
    BY <1>1, <1>6
  <2> HIDE DEF B
  <2>3. BorrowerWeight \in [Tenants -> Nat]
    BY WeightsTyped
  <2>4. QED
    BY <2>1, <2>2, <2>3, ProfiledSum
<1>10. R = {} <=> residents = 0
  <2>1. 0 .. residents - 1 = {} <=> residents = 0
    BY DEF MaxTenants
  <2>2. QED
    BY <1>5, <2>1
<1>11. B = {} <=> residents = admitted
  <2>1. residents .. admitted - 1 = {} <=> residents = admitted
    BY DEF MaxTenants
  <2>2. QED
    BY <1>6, <2>1
<1>12. Planned(admitted, residents) = R \cup B
  BY <1>1, <1>2 DEF At, Placement
<1>13. QED
  BY <1>7, <1>8, <1>9, <1>10, <1>11, <1>12

LEMMA TotalTyped ==
  ASSUME NEW weight \in [Tenants -> Nat], NEW T \in SUBSET Tenants
  PROVE  Total(weight, T) \in Nat
<1>1. CASE T = {}
  BY <1>1, TotalEmpty
<1>2. CASE T # {}
  <2>1. PICK t \in T : TRUE
    BY <1>2
  <2>2. QED
    BY <2>1, TotalStep
<1>3. QED
  BY <1>1, <1>2

LEMMA MaxOfOne == ASSUME NEW a \in Int PROVE Max({a}) = a
BY DEF Max

\* The summary's guard, from the sum of each placement.
LEMMA GuardReplays ==
  ASSUME TypeOK, NEW p,
         NEW admitted \in 1 .. MaxTenants, NEW residents \in 0 .. admitted,
         PlannedQuota \in 0 .. FullQuota,
         p = [residents |-> 0 .. residents - 1, borrowers |-> residents .. admitted - 1,
              quota |-> PlannedQuota]
  PROVE  GuardFor(p) = ExpectedGuard(policy, Planned(admitted, residents))
<1> DEFINE RS == At("resident-1g", admitted, residents)
           BS == At("borrower-2g", admitted, residents)
           of(x) == MapThenSumSet(ProfiledGuard,
                                  {i \in Planned(admitted, residents) : i.placement = x})
           R == Total(ResidentWeight(PlannedQuota), 0 .. residents - 1)
           B == Total(BorrowerWeight, residents .. admitted - 1)
           gated == {i \in Planned(admitted, residents) :
                       i.placement \in ExpectedScope(policy)}
           guards == {of(i.placement) : i \in gated}
<1>1. policy \in KnownPolicies
  BY FeedbackAssumption DEF TypeOK
<1>2. /\ ExpectedScope(policy) \subseteq {"resident-1g", "borrower-2g"}
      /\ "resident-1g" \in ExpectedScope(policy) <=> GatedResidents
      /\ "borrower-2g" \in ExpectedScope(policy) <=> GatedBorrowers
  BY <1>1 DEF KnownPolicies, ExpectedScope, GatedResidents, GatedBorrowers
<1>3. 0 .. residents - 1 \in SUBSET Tenants /\ residents .. admitted - 1 \in SUBSET Tenants
  BY DEF Tenants, MaxTenants
<1>4. GuardFor(p) = Greatest(IF GatedResidents THEN R ELSE 0,
                             IF GatedBorrowers THEN B ELSE 0)
  <2>1. /\ p.residents = 0 .. residents - 1 /\ p.borrowers = residents .. admitted - 1
        /\ p.quota = PlannedQuota
    OBVIOUS
  <2>2. /\ LET resident(t) == ResidentGuard[p.quota][Modality(t)]
           IN MapThenSumSet(resident, p.residents) = R
        /\ LET borrower(t) == BorrowerGuard[Modality(t)]
           IN MapThenSumSet(borrower, p.borrowers) = B
    BY <1>3, <2>1, ResidentSum, BorrowerSum
  <2>3. QED
    BY <2>2 DEF GuardFor
<1>5. /\ of("resident-1g") = R /\ of("borrower-2g") = B
      /\ RS = {} <=> residents = 0
      /\ BS = {} <=> residents = admitted
      /\ Planned(admitted, residents) = RS \cup BS
  BY SumsReplay DEF At
<1>6. (\A i \in RS : i.placement = "resident-1g") /\ \A i \in BS : i.placement = "borrower-2g"
  BY DEF At
<1>7. R \in Nat /\ B \in Nat
  <2>1. 0 \in 0 .. MaxTenants /\ residents \in 0 .. MaxTenants /\ admitted \in 0 .. MaxTenants
        /\ 0 <= residents /\ residents <= admitted
    BY DEF MaxTenants
  <2>2. R \in Nat
    BY <2>1, <1>3, WeightsTyped, TotalTyped
  <2>3. B \in Nat
    BY <2>1, <1>3, WeightsTyped, TotalTyped
  <2>4. QED
    BY <2>2, <2>3
<1>8. (residents = 0 => R = 0) /\ (residents = admitted => B = 0)
  <2>1. (residents = 0 => 0 .. residents - 1 = {})
        /\ (residents = admitted => residents .. admitted - 1 = {})
    BY DEF MaxTenants
  <2>2. QED
    BY <2>1, TotalEmpty
<1>9. ExpectedGuard(policy, Planned(admitted, residents)) =
        IF gated = {} THEN 0 ELSE Max(guards)
  BY DEF ExpectedGuard
<1>10. gated = (IF GatedResidents THEN RS ELSE {}) \cup (IF GatedBorrowers THEN BS ELSE {})
  BY <1>2, <1>5, <1>6
<1> HIDE DEF RS, BS, of, R, B, gated
<1>11. CASE ~(GatedResidents /\ RS # {}) /\ ~(GatedBorrowers /\ BS # {})
  <2>1. gated = {}
    BY <1>10, <1>11
  <2>2. QED
    BY <1>4, <1>5, <1>8, <1>9, <1>11, <2>1 DEF Greatest
<1>12. CASE (GatedResidents /\ RS # {}) /\ ~(GatedBorrowers /\ BS # {})
  <2>1. gated = RS /\ gated # {}
    BY <1>10, <1>12
  <2>2. guards = {R}
    <3>1. of("resident-1g") = R
      BY <1>5
    <3>2. \A i \in gated : of(i.placement) = R
      BY <1>6, <2>1, <3>1
    <3>3. QED
      BY <2>1, <3>2
  <2>3. Max(guards) = R
    <3>1. Max({R}) = R
      <4>1. R \in Int
        BY <1>7
      <4>2. QED
        BY <4>1, MaxOfOne
    <3>2. QED
      BY <2>2, <3>1
  <2>4. QED
    <3>1. (IF GatedResidents THEN R ELSE 0) = R /\ (IF GatedBorrowers THEN B ELSE 0) = 0
      BY <1>5, <1>8, <1>12
    <3>2. Greatest(R, 0) = R
      BY <1>7 DEF Greatest
    <3>3. GuardFor(p) = R
      BY <1>4, <3>1, <3>2
    <3>4. QED
      BY <1>9, <2>1, <2>3, <3>3
<1>13. CASE ~(GatedResidents /\ RS # {}) /\ (GatedBorrowers /\ BS # {})
  <2>1. gated = BS /\ gated # {}
    BY <1>10, <1>13
  <2>2. guards = {B}
    <3>1. of("borrower-2g") = B
      BY <1>5
    <3>2. \A i \in gated : of(i.placement) = B
      BY <1>6, <2>1, <3>1
    <3>3. QED
      BY <2>1, <3>2
  <2>3. Max(guards) = B
    <3>1. Max({B}) = B
      <4>1. B \in Int
        BY <1>7
      <4>2. QED
        BY <4>1, MaxOfOne
    <3>2. QED
      BY <2>2, <3>1
  <2>4. QED
    <3>1. (IF GatedResidents THEN R ELSE 0) = 0 /\ (IF GatedBorrowers THEN B ELSE 0) = B
      BY <1>5, <1>8, <1>13
    <3>2. Greatest(0, B) = B
      BY <1>7 DEF Greatest
    <3>3. GuardFor(p) = B
      BY <1>4, <3>1, <3>2
    <3>4. QED
      BY <1>9, <2>1, <2>3, <3>3
<1>14. CASE (GatedResidents /\ RS # {}) /\ (GatedBorrowers /\ BS # {})
  <2>1. gated = RS \cup BS /\ gated # {}
    BY <1>10, <1>14
  <2>2. guards = {R, B}
    BY <1>5, <1>6, <1>14, <2>1
  <2>3. Max({R, B}) = Greatest(R, B)
    <3>1. R \in Int /\ B \in Int
      BY <1>7
    <3>2. QED
      BY <3>1, MaxIsGreatest
  <2>4. QED
    BY <1>4, <1>9, <1>14, <2>1, <2>2, <2>3
<1>15. QED
  BY <1>11, <1>12, <1>13, <1>14

\* Every plan that the governor makes, its guard and its edges are the summary's.
LEMMA PreparedReplays == ASSUME TypeOK, Prepare PROVE PlanReplays(plan')
<1>1. PICK admitted \in 1 .. MaxTenants : \E residents \in 0 .. admitted :
         /\ PlanFor = [residents |-> 0 .. residents - 1,
                       borrowers |-> residents .. admitted - 1,
                       quota     |-> PlannedQuota]
         /\ PlannedQuota \in 0 .. FullQuota
         /\ admitted <= Offered(epoch)
         /\ Identities(PlanFor) = Planned(admitted, residents)
         /\ ExpectedIdentities(policy, FormalOffered(epoch), fb) =
              Planned(admitted, residents)
  BY PlansReplay
<1>2. PICK residents \in 0 .. admitted :
         /\ PlanFor = [residents |-> 0 .. residents - 1,
                       borrowers |-> residents .. admitted - 1,
                       quota     |-> PlannedQuota]
         /\ PlannedQuota \in 0 .. FullQuota
         /\ admitted <= Offered(epoch)
         /\ Identities(PlanFor) = Planned(admitted, residents)
         /\ ExpectedIdentities(policy, FormalOffered(epoch), fb) =
              Planned(admitted, residents)
  BY <1>1
<1>3. plan' = PlanFor
  BY DEF Prepare
<1>4. epoch \in Nat
  <2>1. epoch \in 0 .. Epochs
    BY DEF TypeOK
  <2>2. QED
    BY <2>1
<1>5. GuardFor(PlanFor) = ExpectedGuard(policy, Planned(admitted, residents))
  BY <1>2, GuardReplays
<1>6. DependencyPipes(PlanFor) = ExpectedEdges(FormalOffered(epoch), Planned(admitted, residents))
  <2>1. PlanFor.residents = 0 .. residents - 1 /\ PlanFor.borrowers = residents .. admitted - 1
    BY <1>2
  <2>2. QED
    BY <1>2, <1>4, <2>1, EdgesReplay
<1>7. QED
  BY <1>2, <1>3, <1>5, <1>6 DEF PlanReplays

\* recompute_policy_metrics() accepts every epoch of every policy that run_policy() measures:
\* its plan, guard and edges, and its transition.
THEOREM RunReplayed == ReplaySpec => SummaryReplaysRun
<1>1. ASSUME TypeOK, [ReplayNext]_replayVars, TransitionReplays PROVE RunReplays
  <2>1. phase = "prepare" /\ phase' = "measure" => Prepare
    BY <1>1 DEF ReplayNext, Plans, MeasurementRaises, Ends, Ungoverned, Unhealthy, Drains,
                Reclaims, Holds, Waits, Recovers, NoFeedback, FailClosed, DrainReclaim,
                ResidualReclaim, HoldNearDeadline, HoldHysteresis, Recover, EndEpoch,
                replayVars, vars
  <2>2. QED
    BY <1>1, <2>1, PreparedReplays DEF RunReplays
<1>2. QED
  BY <1>1, FactsRefine, FeedbackTyped, FeedbackReplays, PTL DEF ReplaySpec, SummaryReplaysRun

=============================================================================
