----------------------------- MODULE SummaryReplay -----------------------------
(***************************************************************************)
(* The policy loop with what it measures, and the summary that replays it. *)
(*                                                                         *)
(* SlackFeedback leaves to chance which branch of the feedback an epoch    *)
(* takes.  Here run_policy() first derives five facts from the critical    *)
(* process's report and the telemetry, and its feedback decides on them in *)
(* its order.  analysis/summarize_mig_slack_governor.py derives the same   *)
(* facts from the raw trace and holds the run to a plan, a guard, a set of *)
(* dependency edges and a transition that it computes with code of its     *)
(* own.                                                                    *)
(***************************************************************************)
EXTENDS SlackFeedback, Sequences

VARIABLE report     \* what the epoch that just ended recorded

replayVars == <<vars, report>>

Facts == [unhealthy : BOOLEAN,   \* the telemetry of the measurement is not healthy
          drain     : BOOLEAN,   \* the longest drain took 0.8 of the guard or more
          violated  : BOOLEAN,   \* p99 above the deadline, or too many misses
          hot       : BOOLEAN,   \* the stability sensor left its band upwards
          near      : BOOLEAN]   \* p99 at 0.9 of the deadline or above

\* No guard, no drain; without healthy telemetry nobody looks at the sensor.
Measurable(f) == (f.drain => GuardFor(plan) > 0) /\ (f.hot => ~f.unhealthy)

NoReport == [action |-> "none"]
Records(f, a) == report' = [facts |-> f, action |-> a]

ReplayInit == Init /\ report = NoReport

(***************************************************************************)
(* run_policy()                                                            *)
(***************************************************************************)

Plans == (Prepare \/ MeasurementRaises) /\ report' = NoReport

Ungoverned(f) == NoFeedback /\ Records(f, "not-applicable")
Unhealthy(f) == f.unhealthy /\ FailClosed /\ Records(f, "telemetry-fail-closed")
Drains(f) ==
  ~f.unhealthy /\ f.drain /\ DrainReclaim /\ Records(f, "drain-reclaim")
Reclaims(f) ==
  /\ ~f.unhealthy /\ ~f.drain /\ (f.violated \/ f.hot)
  /\ ResidualReclaim /\ Records(f, "residual-reclaim")

Slack(f) == ~f.unhealthy /\ ~f.drain /\ ~f.violated /\ ~f.hot
Holds(f) ==
  Slack(f) /\ f.near /\ HoldNearDeadline /\ Records(f, "hold-near-deadline")
Waits(f) ==
  Slack(f) /\ ~f.near /\ HoldHysteresis /\ Records(f, "hold-hysteresis")

RecoveredDimension ==
  CASE fb.quota < FullQuota -> "recover-resident-quota"
    [] fb.quota = FullQuota /\ fb.admission < MaxTenants -> "recover-admission"
    [] fb.quota = FullQuota /\ fb.admission = MaxTenants ->
         IF fb.borrowers < MaxTenants THEN "recover-borrower" ELSE "hold-full-capacity"
Recovers(f) ==
  Slack(f) /\ ~f.near /\ Recover /\ Records(f, RecoveredDimension)

Ends(f) ==
  /\ Measurable(f)
  /\ \/ Ungoverned(f) \/ Unhealthy(f) \/ Drains(f) \/ Reclaims(f)
     \/ Holds(f) \/ Waits(f) \/ Recovers(f)

ReplayNext ==
  \/ Plans
  \/ \E f \in Facts : Ends(f)
  \/ Stopped /\ UNCHANGED replayVars

ReplaySpec == ReplayInit /\ [][ReplayNext]_replayVars

(***************************************************************************)
(* The summary                                                             *)
(***************************************************************************)

Default == [admission |-> 6, quota |-> 2, borrowers |-> 6, safe |-> 0]

\* formal_offered_modalities() of the two scenarios that the governor knows.
FormalTrace == <<{0, 1}, 0 .. 3, 0 .. 5, {0, 1}, 0 .. 3, 0 .. 5>>
FormalOffered(e) == FormalTrace[1 + (e % Len(FormalTrace))]
FormalModality(t) == <<"audio", "language">>[1 + (t % 2)]

\* expected_policy_identities()
FormalBorrowers(name, admitted, state) ==
  CASE name = "same-mig" -> admitted
    [] name \in {"uncoordinated-borrow", "fixed-borrow", "fixed-full-gate"} -> admitted \div 2
    [] name = "mig-governor" -> Min({admitted \div 2, state.borrowers})
    [] name \in {"static-mig", "resident-full-gate"} -> 0
ExpectedIdentities(name, offered, state) ==
  LET admitted == Min({Cardinality(offered), state.admission})
      residents == admitted - FormalBorrowers(name, admitted, state)
      quota == IF name = "mig-governor" THEN state.quota ELSE FullQuota
  IN {[tenant |-> t, placement |-> IF t < residents THEN "resident-1g" ELSE "borrower-2g",
       quota |-> IF t < residents THEN quota ELSE FullQuota] :
        t \in {u \in offered : u < admitted}}

\* expected_gate_scope() and expected_guard_ms()
ExpectedScope(name) ==
  CASE name = "fixed-borrow" -> {"borrower-2g"}
    [] name = "resident-full-gate" -> {"resident-1g"}
    [] name \in {"fixed-full-gate", "mig-governor"} -> {"borrower-2g", "resident-1g"}
    [] OTHER -> {}
ProfiledGuard(i) ==
  IF i.placement = "resident-1g" THEN ResidentGuard[i.quota][FormalModality(i.tenant)]
  ELSE BorrowerGuard[FormalModality(i.tenant)]
ExpectedGuard(name, identities) ==
  LET scope == ExpectedScope(name)
      of(p) == MapThenSumSet(ProfiledGuard, {i \in identities : i.placement = p})
      gated == {i \in identities : i.placement \in scope}
  IN IF gated = {} THEN 0 ELSE Max({of(i.placement) : i \in gated})

\* expected_dependency_edges, by their downstream tenant.
ExpectedEdges(offered, identities) ==
  LET admitted == {i.tenant : i \in identities}
  IN {t \in offered : /\ FormalModality(t) = "language"
                      /\ {t - 1, t} \subseteq admitted
                      /\ FormalModality(t - 1) = "audio"}

\* validated_feedback_state()
ValidState(state) ==
  state.admission \in 1 .. 6 /\ state.quota \in 0 .. 2 /\ state.borrowers \in 0 .. 6

Zeroed(state) == [state EXCEPT !.safe = 0]
Minus(state) == [state EXCEPT !.borrowers = Max({0, @ - 1})]
Squeezed(state) == [state EXCEPT !.admission = Max({1, @ - 1})]

\* replay_governor_transition(): the state after the epoch and the action's name.
SafeTransition(state) ==
  IF state.safe + 1 < 3 THEN <<[state EXCEPT !.safe = @ + 1], "hold-hysteresis">>
  ELSE IF state.quota < 2
    THEN <<Zeroed([state EXCEPT !.quota = @ + 1]), "recover-resident-quota">>
  ELSE IF state.admission < 6
    THEN <<Zeroed([state EXCEPT !.admission = @ + 1]), "recover-admission">>
  ELSE IF state.borrowers < 6
    THEN <<Zeroed([state EXCEPT !.borrowers = @ + 1]), "recover-borrower">>
  ELSE <<Zeroed(state), "hold-full-capacity">>
Transition(state, f) ==
  IF f.unhealthy
    THEN <<[admission |-> 1, quota |-> 0, borrowers |-> 0, safe |-> 0],
           "telemetry-fail-closed">>
  ELSE IF f.drain THEN <<Zeroed(Squeezed(Minus(state))), "drain-reclaim">>
  ELSE IF f.violated \/ f.hot
    THEN <<Zeroed(IF state.quota > 0 THEN [Minus(state) EXCEPT !.quota = @ - 1]
                  ELSE Squeezed(Minus(state))), "residual-reclaim">>
  ELSE IF f.near THEN <<Zeroed(state), "hold-near-deadline">>
  ELSE SafeTransition(state)

(***************************************************************************)
(* Properties                                                              *)
(***************************************************************************)

\* The tenants of a plan as the epoch's record lists them.
Identities(p) ==
  {[tenant |-> t, placement |-> "resident-1g", quota |-> p.quota] : t \in p.residents}
    \cup {[tenant |-> t, placement |-> "borrower-2g", quota |-> FullQuota] : t \in p.borrowers}

\* The plan the summary expects of this epoch is the one the governor measures.
PlanReplays(p) ==
  LET expected == ExpectedIdentities(policy, FormalOffered(epoch), fb)
  IN /\ Identities(p) = expected
     /\ GuardFor(p) = ExpectedGuard(policy, expected)
     /\ DependencyPipes(p) = ExpectedEdges(FormalOffered(epoch), expected)

\* The state and the action after an epoch are what the summary computes from the
\* facts and the state before.
TransitionReplays ==
  epoch' # epoch =>
    /\ ValidState(fb')
    /\ policy = "mig-governor" => Transition(fb, report'.facts) = <<fb', report'.action>>
    /\ policy # "mig-governor" => fb' = Default /\ report'.action = "not-applicable"

\* recompute_policy_metrics() of the summary accepts every epoch of every policy: each measured
\* plan, its guard and its dependency edges, each state and action.  Two programs that
\* nobody runs against each other compute them.
RunReplays ==
  /\ phase = "prepare" /\ phase' = "measure" => PlanReplays(plan')
  /\ TransitionReplays
SummaryReplaysRun == [][RunReplays]_replayVars

=============================================================================
