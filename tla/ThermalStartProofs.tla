-------------------------- MODULE ThermalStartProofs --------------------------
(***************************************************************************)
(* Proofs about a thermal start, for every number of attempts, blocks and  *)
(* checks, every staleness and handoff limit and every horizon.  Stamps    *)
(* only grow and the sample in flight is later than every mark, so what a  *)
(* decision saw of the record is what the record keeps: the inductive      *)
(* invariant StartInv says so phase by phase, and the claims about an      *)
(* accepted start and about its replay follow from it.                     *)
(***************************************************************************)
EXTENDS ThermalStart, FiniteSetTheorems, TLAPS

LEMMA Parameters ==
  /\ MaxAttempts \in Nat \ {0} /\ MaxBlocks \in Nat \ {0} /\ Endpoints \in Nat \ {0}
  /\ Stale \in Nat \ {0} /\ HandoffMax \in Nat \ {0} /\ Horizon \in Nat \ {0}
BY ThermalAssumption
LEMMA LatestTyped == ASSUME NEW p \in Timed PROVE Latest[p] \in 0 .. Horizon
BY ThermalAssumption
LEMMA TimesIs == \A t : t \in Times <=> t \in Nat /\ t <= Horizon
BY Parameters DEF Times

-----------------------------------------------------------------------------
(* The first and the last sample of a set *)

LEMMA Least ==
  ASSUME NEW S \in SUBSET Nat, S # {}
  PROVE  \E n \in S : \A m \in S : n <= m
<1> DEFINE R == OpToRel(<, Nat)
<1>1. IsWellFoundedOn(R, Nat)
  BY NatLessThanWellFounded
<1>2. \A m, n \in Nat : m < n => <<m, n>> \in R
  BY DEF OpToRel
<1> HIDE DEF R
<1>3. \E n \in S : \A m \in S : <<m, n>> \notin R
  BY <1>1, WFMin
<1>4. PICK n \in S : \A m \in S : <<m, n>> \notin R
  BY <1>3
<1>5. ASSUME NEW m \in S PROVE n <= m
  <2>1. <<m, n>> \notin R
    BY <1>4
  <2>2. ~(m < n)
    BY <1>2, <2>1
  <2>3. QED
    BY <2>2
<1>6. QED
  BY <1>5

LEMMA EarliestIs ==
  ASSUME NEW S \in SUBSET Times, S # {}
  PROVE  Earliest(S) \in S /\ \A v \in S : Earliest(S) <= v
<1>1. S \in SUBSET Nat
  BY TimesIs
<1>2. \E u \in S : \A v \in S : u <= v
  BY <1>1, Least
<1>3. QED
  BY <1>2 DEF Earliest

LEMMA NewestIs ==
  ASSUME NEW S \in SUBSET Times, S # {}
  PROVE  Newest(S) \in S /\ \A v \in S : v <= Newest(S)
<1> DEFINE D == {d \in Times : Horizon - d \in S}
<1>1. D \in SUBSET Nat
  BY TimesIs
<1>2. PICK s \in S : TRUE
  OBVIOUS
<1>3. Horizon - s \in D
  BY TimesIs, Parameters
<1>4. PICK d \in D : \A e \in D : d <= e
  BY <1>1, <1>3, Least
<1>5. ASSUME NEW v \in S PROVE v <= Horizon - d
  <2>1. Horizon - v \in D /\ v \in Nat
    BY TimesIs, Parameters
  <2>2. QED
    BY <1>4, <2>1, TimesIs, Parameters
<1>6. \E u \in S : \A v \in S : v <= u
  BY <1>5
<1>7. QED
  BY <1>6 DEF Newest

LEMMA SamplesIs ==
  ASSUME TypeOK, NEW s \in Times, NEW t \in Times
  PROVE  /\ Samples(s, t) \in SUBSET Times
         /\ \A u \in Times : u \in Samples(s, t) <=> s < u /\ u <= t /\ record[u] # "none"
<1>1. (s + 1) .. t \in SUBSET Times
  BY Parameters DEF Times
<1>2. \A u \in Times : u \in (s + 1) .. t <=> s < u /\ u <= t
  BY Parameters DEF Times
<1>3. QED
  BY <1>1, <1>2 DEF Samples

LEMMA CausalIs ==
  ASSUME TypeOK, NEW t \in Times
  PROVE  /\ Causal(t) \in SUBSET Times
         /\ \A u \in Times : u \in Causal(t) <=>
                               at["cleanup"] < u /\ u <= t /\ record[u] # "none"
<1>1. at["cleanup"] \in Times
  BY DEF TypeOK, Marks
<1>2. QED
  BY <1>1, SamplesIs DEF Causal

\* What Collect judges.
LEMMA LastSampleIs ==
  ASSUME TypeOK
  PROVE  /\ LastSample \in Times
         /\ LastSample = 0 <=> Samples(at["cleanup"], at["begin"]) = {}
         /\ LastSample # 0 =>
              /\ LastSample \in Samples(at["cleanup"], at["begin"])
              /\ \A v \in Samples(at["cleanup"], at["begin"]) : v <= LastSample
              /\ LastSample = Newest(Samples(at["cleanup"], at["begin"]))
<1> DEFINE S == Samples(at["cleanup"], at["begin"])
<1>1. at["cleanup"] \in Times /\ at["begin"] \in Times
  BY DEF TypeOK, Marks
<1>2. S \in SUBSET Times /\ \A u \in S : at["cleanup"] < u /\ u # 0
  BY <1>1, SamplesIs, TimesIs
<1>3. 0 \in Times
  BY TimesIs, Parameters
<1>4. CASE S = {}
  BY <1>3, <1>4 DEF LastSample
<1>5. CASE S # {}
  <2>1. Newest(S) \in S /\ \A v \in S : v <= Newest(S)
    BY <1>2, <1>5, NewestIs
  <2>2. LastSample = Newest(S)
    BY <1>5 DEF LastSample
  <2>3. QED
    BY <1>2, <1>5, <2>1, <2>2
<1>6. QED
  BY <1>4, <1>5

-----------------------------------------------------------------------------
(* Types *)

LEMMA StartTyped == Init => TypeOK
<1> SUFFICES ASSUME Init PROVE TypeOK
  OBVIOUS
<1>1. 0 \in Times /\ 1 \in 1 .. MaxBlocks /\ 1 \in 1 .. MaxAttempts /\ 0 \in 0 .. Endpoints
  BY TimesIs, Parameters
<1>2. record \in [Times -> Kinds \cup {"none"}] /\ at \in [Marks -> Times]
  BY <1>1 DEF Init
<1>3. valid \in BOOLEAN /\ hot \in BOOLEAN /\ refused \in BOOLEAN /\ odd \in BOOLEAN
  BY DEF Init
<1>4. QED
  BY <1>1, <1>2, <1>3 DEF Init, TypeOK

LEMMA MarkIs ==
  ASSUME TypeOK, NEW m \in Marks, Mark(m)
  PROVE  /\ flying = 0 /\ clock' = clock + 1 /\ clock' \in Times
         /\ at' \in [Marks -> Times] /\ at'[m] = clock + 1
         /\ \A k \in Marks : k # m => at'[k] = at[k]
<1>1. clock + 1 \in Times
  BY TimesIs, Parameters DEF Mark, TypeOK
<1>2. QED
  BY <1>1 DEF Mark, TypeOK

LEMMA HappensTyped == ASSUME NEW S, Happens(S) PROVE odd' \in BOOLEAN
BY DEF Happens

\* An attempt or a block that is given up keeps the types.
LEMMA GivesUpTyped ==
  ASSUME TypeOK, GiveUp \/ Abort \/ NextBlock, odd' \in BOOLEAN, refused' \in BOOLEAN
  PROVE  TypeOK'
<1>0. 0 \in Times /\ 1 \in 1 .. MaxAttempts
  BY TimesIs, Parameters
<1>1. CASE Abort
  BY <1>0, <1>1 DEF Abort, TypeOK, Over, place, evidence
<1>2. ASSUME Fresh PROVE /\ clock' \in Times /\ flying' \in Times /\ first' \in Times /\ seen' \in Times
                         /\ record' \in [Times -> Kinds \cup {"none"}] /\ at' \in [Marks -> Times]
                         /\ valid' \in BOOLEAN /\ hot' \in BOOLEAN
  BY <1>0, <1>2 DEF Fresh
<1>3. CASE Retry
  <2>1. attempt' \in 1 .. MaxAttempts /\ Fresh /\ pc' = "prepare"
    BY <1>3, Parameters DEF Retry, TypeOK
  <2>2. UNCHANGED <<driver, block, processes, passes>>
    BY <1>3 DEF Retry
  <2>3. QED
    BY <1>2, <2>1, <2>2 DEF TypeOK, processes
<1>4. CASE NextBlock
  <2>1. block' \in 1 .. MaxBlocks /\ attempt' = 1 /\ Fresh /\ pc' = "prepare" /\ measured' = "paused"
    BY <1>4, Parameters DEF NextBlock, TypeOK
  <2>2. UNCHANGED <<driver, heaters, passes>>
    BY <1>4 DEF NextBlock
  <2>3. QED
    BY <1>0, <1>2, <2>1, <2>2 DEF TypeOK
<1>5. QED
  BY <1>1, <1>3, <1>4 DEF GiveUp

LEMMA StepTyped == TypeOK /\ [Next]_vars => TypeOK'
<1> SUFFICES ASSUME TypeOK, [Next]_vars PROVE TypeOK'
  OBVIOUS
<1>0. TypeOK /\ [Next]_vars
  OBVIOUS
<1>1. CASE StartHeaters
  BY <1>1, <1>0, Parameters, TimesIs DEF StartHeaters, place, telemetry, evidence, TypeOK, Timed, Over, Marks
<1>2. CASE \E stable \in BOOLEAN, flaw \in Flaws : Check(stable, flaw)
  BY <1>2, <1>0, Parameters, TimesIs DEF Check, Happens, place, processes, telemetry, evidence, TypeOK, Timed,
      Over, Marks
<1>3. CASE Boundary
  BY <1>3, <1>0, Parameters, TimesIs DEF Boundary, Mark, Happens, place, processes, telemetry, evidence, TypeOK,
      Timed, Over, Marks
<1>4. CASE StopHeaters
  BY <1>4, <1>0, Parameters, TimesIs DEF StopHeaters, place, telemetry, evidence, TypeOK, Timed, Over, Marks
<1>5. CASE CleanupEnds
  BY <1>5, <1>0, Parameters, TimesIs DEF CleanupEnds, Mark, place, processes, telemetry, evidence, TypeOK, Timed,
      Over, Marks
<1>6. CASE FindSample
  <2>1. Causal(clock) \in SUBSET Times /\ Causal(clock) # {}
    BY <1>6, <1>0, CausalIs DEF FindSample, TypeOK
  <2>2. Earliest(Causal(clock)) \in Times
    BY <2>1, EarliestIs
  <2>3. QED
    BY <1>6, <1>0, <2>2 DEF FindSample, TypeOK, place, processes, telemetry, Timed
<1>7. CASE FindNone
  BY <1>7, <1>0, Parameters, TimesIs DEF FindNone, place, processes, telemetry, TypeOK, Timed, Over, Marks
<1>8. CASE Qualify
  <2>1. valid' \in BOOLEAN
    BY <1>8 DEF Qualify, Qualifies
  <2>2. odd' \in BOOLEAN
    BY <1>8, HappensTyped DEF Qualify
  <2>3. clock' \in Times /\ at' \in [Marks -> Times] /\ pc' = "result"
    BY <1>8, <1>0, MarkIs DEF Qualify, Marks
  <2>4. QED
    BY <1>8, <1>0, <2>1, <2>2, <2>3 DEF Qualify, TypeOK, place, processes, telemetry, Timed
<1>9. CASE Result
  <2>1. odd' \in BOOLEAN /\ refused' \in BOOLEAN
    BY <1>9, <1>0 DEF Result, TypeOK
  <2>2. CASE valid
    <3>1. clock' \in Times /\ at' \in [Marks -> Times] /\ pc' \in Timed
      BY <1>9, <1>0, <2>2, Parameters, TimesIs DEF Result, Mark, TypeOK, Timed
    <3>2. UNCHANGED <<place, processes, passes, telemetry, evidence>>
      BY <1>9, <2>2 DEF Result
    <3>3. QED
      BY <1>0, <2>1, <3>1, <3>2 DEF TypeOK, place, processes, telemetry, evidence
  <2>3. CASE ~valid
    BY <1>9, <1>0, <2>1, <2>3, GivesUpTyped DEF Result
  <2>4. QED
    BY <2>2, <2>3
<1>10. CASE OpenBlock
  BY <1>10, <1>0, Parameters, TimesIs DEF OpenBlock, Mark, place, processes, telemetry, evidence, TypeOK, Timed,
      Over, Marks
<1>11. CASE Release
  <2>1. odd' \in BOOLEAN /\ refused' \in BOOLEAN
    BY <1>11, <1>0, HappensTyped DEF Release, TypeOK
  <2>2. CASE Mark("release")
    <3>1. clock' \in Times /\ at' \in [Marks -> Times]
      BY <1>0, <2>2, MarkIs DEF Marks
    <3>2. CASE pc' = "resume" /\ UNCHANGED <<place, processes, passes, telemetry, evidence>>
      BY <1>0, <2>1, <3>1, <3>2 DEF TypeOK, place, processes, telemetry, evidence, Timed
    <3>3. CASE GiveUp \/ Abort
      BY <1>0, <2>1, <3>3, GivesUpTyped
    <3>4. QED
      BY <1>11, <3>2, <3>3 DEF Release
  <2>3. CASE GiveUp \/ Abort
    BY <1>0, <2>1, <2>3, GivesUpTyped
  <2>4. QED
    BY <1>11, <2>2, <2>3 DEF Release
<1>12. CASE Resume
  BY <1>12, <1>0, Parameters, TimesIs DEF Resume, Mark, place, telemetry, evidence, TypeOK, Timed, Over, Marks
<1>13. CASE Begin
  BY <1>13, <1>0, Parameters, TimesIs DEF Begin, place, processes, telemetry, evidence, TypeOK, Timed, Over, Marks
<1>14. CASE Collect
  <2>1. odd' \in BOOLEAN
    BY <1>14, HappensTyped DEF Collect
  <2>2. refused' \in BOOLEAN
    BY <1>14 DEF Collect
  <2>3. CASE Accept(LastSample)
    BY <1>0, <2>1, <2>2, <2>3, LastSampleIs DEF Accept, TypeOK, Over, place, telemetry
  <2>4. CASE NextBlock \/ Abort
    BY <1>0, <2>1, <2>2, <2>4, GivesUpTyped
  <2>5. QED
    BY <1>14, <2>3, <2>4 DEF Collect, Reject
<1>15. CASE Gone
  BY <1>15, <1>0, Parameters, TimesIs DEF Gone, Raise, Abort, place, evidence, TypeOK, Timed, Over, Marks
<1>16. CASE HeatTimesOut
  BY <1>16, <1>0, Parameters, TimesIs DEF HeatTimesOut, Raise, Abort, place, evidence, TypeOK, Timed, Over, Marks
<1>17. CASE Raise
  BY <1>17, <1>0, Parameters, TimesIs DEF Raise, Abort, place, evidence, TypeOK, Timed, Over, Marks
<1>18. CASE Dies
  BY <1>18, <1>0, Parameters, TimesIs DEF Dies, place, telemetry, evidence, TypeOK, Timed, Over, Marks
<1>19. CASE Stamp
  BY <1>19, <1>0, Parameters, TimesIs, LatestTyped DEF Stamp, place, processes, evidence, TypeOK, Timed, Over, Marks
<1>20. CASE Write
  <2>1. odd' \in BOOLEAN
    BY <1>20, HappensTyped DEF Write
  <2>2. record' \in [Times -> Kinds \cup {"none"}] /\ flying' \in Times
    BY <1>20, <1>0, TimesIs, Parameters DEF Write, TypeOK
  <2>3. QED
    BY <1>20, <1>0, <2>1, <2>2 DEF Write, TypeOK, place, processes, evidence
<1>21. CASE TimePasses
  BY <1>21, <1>0, Parameters, TimesIs, LatestTyped DEF TimePasses, place, processes, telemetry, evidence, TypeOK, Timed, Over,
      Marks
<1>22. CASE UNCHANGED vars
  BY <1>22, <1>0, Parameters, TimesIs DEF vars, place, processes, telemetry, evidence, TypeOK, Timed, Over, Marks
<1>23. QED
  BY <1>0, <1>1, <1>2, <1>3, <1>4, <1>5, <1>6, <1>7, <1>8, <1>9, <1>10, <1>11, <1>12,
      <1>13, <1>14, <1>15, <1>16, <1>17, <1>18, <1>19, <1>20, <1>21, <1>22 DEF Next, Driver, Stopped

\* Every variable of a start keeps its type, and no stamp is later than the horizon.
THEOREM ThermalTyped == Spec => []TypeOK
BY StartTyped, StepTyped, PTL DEF Spec

-----------------------------------------------------------------------------
(* The inductive invariant *)

\* The phases of an attempt, each with all that follow it.
Begun == {"collect", "accepted"}
Released == {"resume", "run", "collect", "accepted"}
Approved == {"open", "release", "resume", "run", "collect", "accepted"}
Judged == {"result", "open", "release", "resume", "run", "collect", "accepted"}
Found == {"mark"} \cup Judged
Cleaned == {"poll"} \cup Found
Cold == {"clean"} \cup Cleaned
Heated == {"stop"} \cup Cold

\* Nothing is stamped later than now; the sample in flight, if any, is later than every
\* sample in the record and every mark of the monitor.
Stamped ==
  /\ flying <= clock
  /\ \A m \in Marks : at[m] <= clock
  /\ \A u \in Times : record[u] # "none" => 0 < u /\ u <= clock
  /\ flying # 0 =>
       /\ \A u \in Times : record[u] # "none" => u < flying
       /\ \A m \in Marks : m # "begin" => at[m] < flying
       /\ at["begin"] # flying

\* The marks of a phase are in order.
Ordered ==
  /\ pc \in Heated \cup {"boundary"} => passes = Endpoints
  /\ pc \in Heated => 0 < at["boundary"]
  /\ pc \in Cold => heaters = "gone"
  /\ pc \in Cleaned => at["boundary"] < at["cleanup"]
  /\ pc \in Judged => at["cleanup"] < at["qualify"]
  /\ pc \in Approved => at["qualify"] < at["result"]
  /\ pc \in Released => at["result"] < at["release"] /\ at["release"] - at["boundary"] < HandoffMax
  /\ pc \in Begun => at["release"] < at["begin"]
  /\ measured = "running" => pc \in {"run", "collect"}

\* The sample of the qualification is the first one after the cleanup.
IsFirst ==
  /\ record[first] # "none" /\ at["cleanup"] < first
  /\ \A u \in Times : at["cleanup"] < u /\ u < first => record[u] = "none"
FirstKept ==
  /\ pc \in Found /\ first # 0 => IsFirst
  /\ pc \in Judged => first < at["qualify"]

\* What was decided is what the record says.
Decided ==
  /\ pc \in Judged => (valid <=> Qualifies(first, at["qualify"]))
  /\ pc \in Approved => valid

StartInv == Stamped /\ Ordered /\ FirstKept /\ Decided

\* What a step does to the stamps.
Timeline ==
  \/ UNCHANGED <<clock, telemetry, at>>
  \/ (\E m \in Marks \ {"begin"} : Mark(m)) /\ UNCHANGED telemetry
  \/ Fresh
  \/ flying' = 0 /\ UNCHANGED <<record, clock, at>>
  \/ clock' = clock + 1 /\ at' = [at EXCEPT !["begin"] = clock + 1] /\ UNCHANGED telemetry
  \/ flying = 0 /\ clock' = clock + 1 /\ flying' = clock + 1 /\ UNCHANGED <<record, at>>
  \/ /\ flying # 0 /\ flying' = 0 /\ UNCHANGED <<clock, at>>
     /\ \E k \in Kinds : record' = [record EXCEPT ![flying] = k]
  \/ clock' = clock + 1 /\ UNCHANGED <<telemetry, at>>

LEMMA StepTimeline == TypeOK /\ [Next]_vars => Timeline
<1> SUFFICES ASSUME TypeOK, [Next]_vars PROVE Timeline
  OBVIOUS
<1>0. TypeOK /\ [Next]_vars
  OBVIOUS
<1>1. CASE StartHeaters
  BY <1>1, <1>0 DEF StartHeaters, telemetry, Timeline, Marks
<1>2. CASE \E stable \in BOOLEAN, flaw \in Flaws : Check(stable, flaw)
  BY <1>2, <1>0 DEF Check, Happens, telemetry, Timeline, Marks
<1>3. CASE Boundary
  BY <1>3, <1>0 DEF Boundary, Happens, telemetry, Timeline, Marks
<1>4. CASE StopHeaters
  BY <1>4, <1>0 DEF StopHeaters, telemetry, Timeline, Marks
<1>5. CASE CleanupEnds
  BY <1>5, <1>0 DEF CleanupEnds, telemetry, Timeline, Marks
<1>6. CASE FindSample
  BY <1>6, <1>0 DEF FindSample, telemetry, Timeline, Marks
<1>7. CASE FindNone
  BY <1>7, <1>0 DEF FindNone, telemetry, Timeline, Marks
<1>8. CASE Qualify
  BY <1>8, <1>0 DEF Qualify, Happens, telemetry, Timeline, Marks
<1>9. CASE Result
  BY <1>9, <1>0 DEF Result, GiveUp, Retry, Abort, telemetry, Timeline, Marks
<1>10. CASE OpenBlock
  BY <1>10, <1>0 DEF OpenBlock, telemetry, Timeline, Marks
<1>11. CASE Release
  BY <1>11, <1>0 DEF Release, GiveUp, Retry, Abort, telemetry, Timeline, Marks
<1>12. CASE Resume
  BY <1>12, <1>0 DEF Resume, telemetry, Timeline, Marks
<1>13. CASE Begin
  BY <1>13, <1>0 DEF Begin, telemetry, Timeline, Marks
<1>14. CASE Collect
  BY <1>14, <1>0 DEF Collect, Accept, Reject, NextBlock, Abort, telemetry, Timeline, Marks
<1>15. CASE Gone
  BY <1>15, <1>0 DEF Gone, Raise, Abort, telemetry, Timeline, Marks
<1>16. CASE HeatTimesOut
  BY <1>16, <1>0 DEF HeatTimesOut, Raise, Abort, telemetry, Timeline, Marks
<1>17. CASE Raise
  BY <1>17, <1>0 DEF Raise, Abort, telemetry, Timeline, Marks
<1>18. CASE Dies
  BY <1>18, <1>0 DEF Dies, telemetry, Timeline, Marks
<1>19. CASE Stamp
  BY <1>19, <1>0 DEF Stamp, Timeline, Marks
<1>20. CASE Write
  BY <1>20, <1>0 DEF Write, Timeline, Marks
<1>21. CASE TimePasses
  BY <1>21, <1>0 DEF TimePasses, telemetry, Timeline, Marks
<1>22. CASE UNCHANGED vars
  BY <1>22, <1>0 DEF vars, telemetry, Timeline, Marks
<1>23. QED
  BY <1>0, <1>1, <1>2, <1>3, <1>4, <1>5, <1>6, <1>7, <1>8, <1>9, <1>10, <1>11, <1>12,
      <1>13, <1>14, <1>15, <1>16, <1>17, <1>18, <1>19, <1>20, <1>21, <1>22 DEF Next, Driver, Stopped

LEMMA StampedStep ==
  ASSUME TypeOK, TypeOK', Stamped, Timeline
  PROVE  Stamped'
<1>1. CASE UNCHANGED <<clock, telemetry, at>>
  BY <1>1 DEF Stamped, telemetry
<1>2. CASE (\E m \in Marks \ {"begin"} : Mark(m)) /\ UNCHANGED telemetry
  <2>1. PICK m \in Marks \ {"begin"} : Mark(m)
    BY <1>2
  <2>2. /\ flying = 0 /\ clock' = clock + 1 /\ at'[m] = clock + 1
        /\ \A k \in Marks : k # m => at'[k] = at[k]
        /\ UNCHANGED telemetry
    BY <1>2, <2>1, MarkIs
  <2>3. \A k \in Marks : at'[k] <= clock'
    BY <2>2, TimesIs DEF Stamped, TypeOK
  <2>4. \A u \in Times : record'[u] # "none" => 0 < u /\ u <= clock'
    BY <2>2, TimesIs DEF Stamped, TypeOK, telemetry
  <2>5. QED
    BY <2>2, <2>3, <2>4, TimesIs DEF Stamped, TypeOK, telemetry
<1>3. CASE Fresh
  BY <1>3 DEF Stamped, Fresh
<1>4. CASE flying' = 0 /\ UNCHANGED <<record, clock, at>>
  BY <1>4, TimesIs DEF Stamped, TypeOK
<1>5. CASE clock' = clock + 1 /\ at' = [at EXCEPT !["begin"] = clock + 1] /\ UNCHANGED telemetry
  <2>1. at'["begin"] = clock + 1 /\ \A k \in Marks : k # "begin" => at'[k] = at[k]
    BY <1>5 DEF TypeOK, Marks
  <2>2. flying' <= clock' /\ at'["begin"] # flying'
    BY <1>5, <2>1, TimesIs DEF Stamped, TypeOK, telemetry
  <2>3. \A k \in Marks : at'[k] <= clock'
    BY <1>5, <2>1, TimesIs DEF Stamped, TypeOK
  <2>4. \A u \in Times : record'[u] # "none" => 0 < u /\ u <= clock'
    BY <1>5, TimesIs DEF Stamped, TypeOK, telemetry
  <2>5. QED
    BY <1>5, <2>1, <2>2, <2>3, <2>4 DEF Stamped, telemetry
<1>6. CASE flying = 0 /\ clock' = clock + 1 /\ flying' = clock + 1 /\ UNCHANGED <<record, at>>
  <2>1. \A k \in Marks : at'[k] < clock'
    BY <1>6, TimesIs DEF Stamped, TypeOK
  <2>2. \A u \in Times : record'[u] # "none" => 0 < u /\ u < clock'
    BY <1>6, TimesIs DEF Stamped, TypeOK
  <2>3. QED
    BY <1>6, <2>1, <2>2, TimesIs DEF Stamped, TypeOK, Marks
<1>7. CASE /\ flying # 0 /\ flying' = 0 /\ UNCHANGED <<clock, at>>
           /\ \E k \in Kinds : record' = [record EXCEPT ![flying] = k]
  <2>1. \A u \in Times : u # flying => record'[u] = record[u]
    BY <1>7 DEF TypeOK
  <2>2. QED
    BY <1>7, <2>1, TimesIs DEF Stamped, TypeOK
<1>8. CASE clock' = clock + 1 /\ UNCHANGED <<telemetry, at>>
  BY <1>8, TimesIs DEF Stamped, TypeOK, telemetry
<1>9. QED
  BY <1>1, <1>2, <1>3, <1>4, <1>5, <1>6, <1>7, <1>8 DEF Timeline

\* An attempt or a block that is given up leaves no phase behind.
LEMMA GivesUpIs ==
  ASSUME GiveUp \/ Abort \/ NextBlock, measured # "running" \/ pc = "collect",
         pc = "collect" => ~Retry
  PROVE  pc' \in {"prepare", "aborted"} /\ measured' # "running"
BY DEF GiveUp, Retry, Abort, NextBlock, processes

LEMMA GivenUp ==
  ASSUME pc' \in {"prepare", "aborted"}, measured' # "running"
  PROVE  Ordered' /\ FirstKept' /\ Decided'
BY DEF Ordered, FirstKept, Decided, Heated, Cold, Cleaned, Found, Judged, Approved, Released, Begun

LEMMA OrderedStep ==
  ASSUME TypeOK, TypeOK', Stamped, Ordered, [Next]_vars
  PROVE  Ordered'
<1>0. TypeOK /\ TypeOK' /\ Stamped /\ Ordered /\ [Next]_vars
  OBVIOUS
<1>1. CASE StartHeaters
  BY <1>1, <1>0, TimesIs DEF StartHeaters, place, telemetry, evidence, Ordered, Heated, Cold, Cleaned,
      Found, Judged, Approved, Released, Begun, TypeOK, Stamped, Marks
<1>2. CASE \E stable \in BOOLEAN, flaw \in Flaws : Check(stable, flaw)
  BY <1>2, <1>0, TimesIs DEF Check, Happens, place, processes, telemetry, evidence, Ordered, Heated, Cold,
      Cleaned, Found, Judged, Approved, Released, Begun, TypeOK, Stamped, Marks
<1>3. CASE Boundary
  <2>1. clock' = clock + 1 /\ at'["boundary"] = clock + 1 /\ \A k \in Marks : k # "boundary" => at'[k] = at[k]
    BY <1>3, <1>0, MarkIs DEF Boundary, Marks
  <2>2. QED
    BY <1>3, <1>0, <2>1, TimesIs DEF Boundary, Ordered, Heated, Cold, Cleaned, Found, Judged, Approved,
         Released, Begun, TypeOK, Stamped, Marks, processes
<1>4. CASE StopHeaters
  BY <1>4, <1>0, TimesIs DEF StopHeaters, place, telemetry, evidence, Ordered, Heated, Cold, Cleaned,
      Found, Judged, Approved, Released, Begun, TypeOK, Stamped, Marks
<1>5. CASE CleanupEnds
  <2>1. clock' = clock + 1 /\ at'["cleanup"] = clock + 1 /\ \A k \in Marks : k # "cleanup" => at'[k] = at[k]
    BY <1>5, <1>0, MarkIs DEF CleanupEnds, Marks
  <2>2. QED
    BY <1>5, <1>0, <2>1, TimesIs DEF CleanupEnds, Ordered, Heated, Cold, Cleaned, Found, Judged, Approved,
         Released, Begun, TypeOK, Stamped, Marks, processes
<1>6. CASE FindSample
  BY <1>6, <1>0, TimesIs DEF FindSample, place, processes, telemetry, Ordered, Heated, Cold, Cleaned,
      Found, Judged, Approved, Released, Begun, TypeOK, Stamped, Marks
<1>7. CASE FindNone
  BY <1>7, <1>0, TimesIs DEF FindNone, place, processes, telemetry, Ordered, Heated, Cold, Cleaned, Found,
      Judged, Approved, Released, Begun, TypeOK, Stamped, Marks
<1>8. CASE Qualify
  <2>1. clock' = clock + 1 /\ at'["qualify"] = clock + 1 /\ \A k \in Marks : k # "qualify" => at'[k] = at[k]
    BY <1>8, <1>0, MarkIs DEF Qualify, Marks
  <2>2. QED
    BY <1>8, <1>0, <2>1, TimesIs DEF Qualify, Ordered, Heated, Cold, Cleaned, Found, Judged, Approved,
         Released, Begun, TypeOK, Stamped, Marks, processes
<1>9. CASE Result
  <2>1. CASE valid
    <3>1. /\ clock' = clock + 1 /\ at'["result"] = clock + 1
          /\ \A k \in Marks : k # "result" => at'[k] = at[k]
      BY <1>9, <1>0, <2>1, MarkIs DEF Result, Marks
    <3>2. pc = "result" /\ pc' \in {"open", "release"} /\ UNCHANGED <<processes, passes>>
      BY <1>9, <2>1 DEF Result
    <3>3. QED
      BY <1>0, <3>1, <3>2, TimesIs DEF Ordered, Heated, Cold, Cleaned, Found, Judged, Approved, Released,
           Begun, TypeOK, Stamped, Marks, processes
  <2>2. CASE ~valid
    <3>1. GiveUp /\ measured = "paused" /\ pc = "result"
      BY <1>9, <2>2 DEF Result
    <3>2. QED
      BY <3>1, GivesUpIs, GivenUp
  <2>3. QED
    BY <2>1, <2>2
<1>10. CASE OpenBlock
  <2>1. clock' = clock + 1 /\ at'["open"] = clock + 1 /\ \A k \in Marks : k # "open" => at'[k] = at[k]
    BY <1>10, <1>0, MarkIs DEF OpenBlock, Marks
  <2>2. QED
    BY <1>10, <1>0, <2>1, TimesIs DEF OpenBlock, Ordered, Heated, Cold, Cleaned, Found, Judged, Approved,
         Released, Begun, TypeOK, Stamped, Marks, processes
<1>11. CASE Release
  <2>1. pc = "release" /\ measured # "running"
    BY <1>11, <1>0 DEF Release, Ordered
  <2>2. CASE GiveUp \/ Abort
    BY <2>1, <2>2, GivesUpIs, GivenUp
  <2>3. CASE ~(GiveUp \/ Abort)
    <3>1. /\ Timely([at EXCEPT !["release"] = clock + 1]) /\ Mark("release") /\ pc' = "resume"
          /\ UNCHANGED <<processes, passes>>
      BY <1>11, <2>3 DEF Release
    <3>2. /\ clock' = clock + 1 /\ at'["release"] = clock + 1
          /\ \A k \in Marks : k # "release" => at'[k] = at[k]
      BY <1>0, <3>1, MarkIs DEF Marks
    <3>3. clock + 1 - at["boundary"] < HandoffMax
      <4> DEFINE a == [at EXCEPT !["release"] = clock + 1]
      <4>1. a["release"] = clock + 1 /\ a["boundary"] = at["boundary"]
        BY <1>0 DEF TypeOK, Marks
      <4>2. clock + 1 # 0
        BY <1>0, TimesIs DEF TypeOK
      <4>3. Timely(a)
        BY <3>1
      <4> HIDE DEF a
      <4>4. a["release"] - a["boundary"] < HandoffMax
        BY <4>1, <4>2, <4>3 DEF Timely, Handoff
      <4>5. QED
        BY <1>0, <4>1, <4>4, TimesIs, Parameters DEF TypeOK, Marks
    <3>4. QED
      BY <1>0, <2>1, <3>1, <3>2, <3>3, TimesIs DEF Ordered, Heated, Cold, Cleaned, Found, Judged, Approved, Released,
           Begun, TypeOK, Stamped, Marks, processes
  <2>4. QED
    BY <2>2, <2>3
<1>12. CASE Resume
  <2>1. at'["boundary"] = at["boundary"] /\ at'["cleanup"] = at["cleanup"] /\ at'["qualify"] = at["qualify"]
        /\ at'["result"] = at["result"] /\ at'["release"] = at["release"]
    BY <1>12, <1>0, MarkIs DEF Resume, Marks
  <2>2. QED
    BY <1>12, <1>0, <2>1 DEF Resume, Ordered, Heated, Cold, Cleaned, Found, Judged, Approved, Released,
         Begun
<1>13. CASE Begin
  BY <1>13, <1>0, TimesIs DEF Begin, place, processes, telemetry, evidence, Ordered, Heated, Cold, Cleaned,
      Found, Judged, Approved, Released, Begun, TypeOK, Stamped, Marks
<1>14. CASE Collect
  <2>1. CASE Accept(LastSample)
    BY <1>14, <1>0, <2>1 DEF Collect, Accept, place, telemetry, Ordered, Heated, Cold, Cleaned, Found,
         Judged, Approved, Released, Begun
  <2>2. CASE NextBlock \/ Abort
    <3>1. pc' \in {"prepare", "aborted"} /\ measured' # "running"
      BY <2>2 DEF NextBlock, Abort
    <3>2. QED
      BY <3>1, GivenUp
  <2>3. QED
    BY <1>14, <2>1, <2>2 DEF Collect, Reject
<1>15. CASE Gone
  <2>1. pc' \in {"prepare", "aborted"} /\ measured' # "running"
    BY <1>15 DEF Gone, Raise, Abort
  <2>2. QED
    BY <2>1, GivenUp
<1>16. CASE HeatTimesOut
  <2>1. pc' \in {"prepare", "aborted"} /\ measured' # "running"
    BY <1>16 DEF HeatTimesOut, Raise, Abort
  <2>2. QED
    BY <2>1, GivenUp
<1>17. CASE Raise
  <2>1. pc' \in {"prepare", "aborted"} /\ measured' # "running"
    BY <1>17 DEF Raise, Abort
  <2>2. QED
    BY <2>1, GivenUp
<1>18. CASE Dies
  BY <1>18, <1>0, TimesIs DEF Dies, place, telemetry, evidence, Ordered, Heated, Cold, Cleaned, Found,
      Judged, Approved, Released, Begun, TypeOK, Stamped, Marks
<1>19. CASE Stamp
  BY <1>19, <1>0, TimesIs DEF Stamp, place, processes, evidence, Ordered, Heated, Cold, Cleaned, Found,
      Judged, Approved, Released, Begun, TypeOK, Stamped, Marks
<1>20. CASE Write
  BY <1>20, <1>0, TimesIs DEF Write, place, processes, evidence, Ordered, Heated, Cold, Cleaned, Found,
      Judged, Approved, Released, Begun, TypeOK, Stamped, Marks
<1>21. CASE TimePasses
  BY <1>21, <1>0, TimesIs DEF TimePasses, place, processes, telemetry, evidence, Ordered, Heated, Cold,
      Cleaned, Found, Judged, Approved, Released, Begun, TypeOK, Stamped, Marks
<1>22. CASE UNCHANGED vars
  BY <1>22, <1>0, TimesIs DEF vars, place, processes, telemetry, evidence, Ordered, Heated, Cold, Cleaned,
      Found, Judged, Approved, Released, Begun, TypeOK, Stamped, Marks
<1>23. QED
  BY <1>0, <1>1, <1>2, <1>3, <1>4, <1>5, <1>6, <1>7, <1>8, <1>9, <1>10, <1>11, <1>12,
      <1>13, <1>14, <1>15, <1>16, <1>17, <1>18, <1>19, <1>20, <1>21, <1>22 DEF Next, Driver, Stopped

\* A step that leaves the sample, the record and the two marks of a qualification alone.
Leaves ==
  /\ first' = first /\ record' = record
  /\ at'["cleanup"] = at["cleanup"] /\ at'["qualify"] = at["qualify"]
LEMMA LeavesIs ==
  ASSUME Leaves
  PROVE  IsFirst' <=> IsFirst
BY DEF Leaves, IsFirst
LEMMA QualifiesLeft ==
  ASSUME Leaves
  PROVE  Qualifies(first, at["qualify"])' <=> Qualifies(first, at["qualify"])
BY DEF Leaves, Qualifies, Healthy

LEMMA Framed ==
  ASSUME FirstKept, Decided, Leaves, valid' <=> valid,
         pc' \in Found => pc \in Found, pc' \in Judged => pc \in Judged,
         pc' \in Approved => valid
  PROVE  FirstKept' /\ Decided'
<1>1. FirstKept'
  BY LeavesIs DEF FirstKept, Leaves
<1>2. pc' \in Judged => (valid' <=> Qualifies(first, at["qualify"])')
  BY QualifiesLeft DEF Decided
<1>3. QED
  BY <1>1, <1>2 DEF Decided

\* The recorder writes the sample in flight: later than the marks, it changes nothing
\* that was decided.
LEMMA QualifiesWritten ==
  ASSUME TypeOK, Stamped, Write, pc \in Judged, first < at["qualify"]
  PROVE  Qualifies(first, at["qualify"])' <=> Qualifies(first, at["qualify"])
<1>1. flying # 0 /\ at["qualify"] < flying /\ first \in Times /\ at["qualify"] \in Times /\ flying \in Times
  BY DEF Write, Stamped, TypeOK, Marks
<1>2. \A u \in Times : u # flying => record'[u] = record[u]
  BY DEF Write, TypeOK
<1>3. first' = first /\ at' = at
  BY DEF Write, evidence
<1>4. \A v \in first .. at["qualify"] : v \in Times /\ v # flying
  BY <1>1, Parameters DEF Times
<1>5. record'[first] = record[first] /\ \A v \in first .. at["qualify"] : record'[v] = record[v]
  BY <1>1, <1>2, <1>4, TimesIs
<1>6. QED
  BY <1>3, <1>5 DEF Qualifies, Healthy

LEMMA EvidenceStep ==
  ASSUME TypeOK, TypeOK', Stamped, Ordered, FirstKept, Decided, [Next]_vars
  PROVE  FirstKept' /\ Decided'
<1>0. TypeOK /\ TypeOK' /\ Stamped /\ Ordered /\ FirstKept /\ Decided /\ [Next]_vars
  OBVIOUS
<1>1. CASE StartHeaters
  BY <1>1 DEF StartHeaters, FirstKept, Decided, Found, Judged, Approved, Released, Begun
<1>2. CASE \E stable \in BOOLEAN, flaw \in Flaws : Check(stable, flaw)
  BY <1>2 DEF Check, FirstKept, Decided, Found, Judged, Approved, Released, Begun
<1>3. CASE Boundary
  BY <1>3 DEF Boundary, FirstKept, Decided, Found, Judged, Approved, Released, Begun
<1>4. CASE StopHeaters
  BY <1>4 DEF StopHeaters, FirstKept, Decided, Found, Judged, Approved, Released, Begun
<1>5. CASE CleanupEnds
  BY <1>5 DEF CleanupEnds, FirstKept, Decided, Found, Judged, Approved, Released, Begun
<1>6. CASE FindSample
  <2>1. Causal(clock) \in SUBSET Times /\ Causal(clock) # {} /\ clock \in Times
    BY <1>6, <1>0, CausalIs DEF FindSample, TypeOK
  <2>2. first' \in Causal(clock) /\ \A v \in Causal(clock) : first' <= v
    BY <1>6, <2>1, EarliestIs DEF FindSample
  <2>3. UNCHANGED <<record, at>> /\ pc' = "mark"
    BY <1>6 DEF FindSample, telemetry
  <2>4. record[first'] # "none" /\ at["cleanup"] < first' /\ first' <= clock /\ first' \in Times
    BY <1>0, <2>1, <2>2, CausalIs
  <2>5. \A u \in Times : at["cleanup"] < u /\ u < first' => record[u] = "none"
    <3>1. SUFFICES ASSUME NEW u \in Times, at["cleanup"] < u, u < first', record[u] # "none" PROVE FALSE
      OBVIOUS
    <3>2. u \in Causal(clock)
      BY <1>0, <2>1, <2>4, <3>1, CausalIs, TimesIs
    <3>3. QED
      BY <2>2, <2>4, <3>1, <3>2, TimesIs
  <2>6. QED
    BY <2>3, <2>4, <2>5 DEF FirstKept, IsFirst, Decided, Found, Judged, Approved
<1>7. CASE FindNone
  BY <1>7 DEF FindNone, FirstKept, Decided, Found, Judged, Approved
<1>8. CASE Qualify
  <2>1. /\ clock' = clock + 1 /\ at'["qualify"] = clock + 1 /\ at'["cleanup"] = at["cleanup"]
        /\ UNCHANGED <<first, record>> /\ pc = "mark" /\ pc' = "result"
    BY <1>8, <1>0, MarkIs DEF Qualify, Marks, telemetry
  <2>2. first < clock + 1
    BY <1>0, <2>1, TimesIs DEF FirstKept, IsFirst, Stamped, TypeOK, Found
  <2>3. first # 0 => IsFirst'
    BY <1>0, <2>1 DEF FirstKept, IsFirst, Found
  <2>4. valid' <=> Qualifies(first, clock + 1)
    BY <1>8 DEF Qualify
  <2>5. Qualifies(first, at["qualify"])' <=> Qualifies(first, clock + 1)
    BY <2>1 DEF Qualifies, Healthy
  <2>6. QED
    BY <2>1, <2>2, <2>3, <2>4, <2>5 DEF FirstKept, Decided, Approved
<1>9. CASE Result
  <2>1. CASE valid
    <3>1. at'["cleanup"] = at["cleanup"] /\ at'["qualify"] = at["qualify"]
      BY <1>9, <1>0, <2>1, MarkIs DEF Result, Marks
    <3>2. Leaves /\ (valid' <=> valid)
      BY <1>9, <2>1, <3>1 DEF Result, Leaves, telemetry, evidence
    <3>3. pc = "result"
      BY <1>9 DEF Result
    <3>4. QED
      BY <1>0, <2>1, <3>2, <3>3, Framed DEF Found, Judged
  <2>2. CASE ~valid
    <3>1. GiveUp /\ measured = "paused" /\ pc = "result"
      BY <1>9, <2>2 DEF Result
    <3>2. QED
      BY <3>1, GivesUpIs, GivenUp
  <2>3. QED
    BY <2>1, <2>2
<1>10. CASE OpenBlock
  <2>1. at'["cleanup"] = at["cleanup"] /\ at'["qualify"] = at["qualify"]
    BY <1>10, <1>0, MarkIs DEF OpenBlock, Marks
  <2>2. Leaves /\ (valid' <=> valid)
    BY <1>10, <2>1 DEF OpenBlock, Leaves, telemetry, evidence
  <2>3. pc \in Approved /\ pc' \in Approved
    BY <1>10 DEF OpenBlock, Approved
  <2>4. QED
    BY <1>0, <2>2, <2>3, Framed DEF Decided, Found, Judged, Approved
<1>11. CASE Release
  <2>1. pc = "release" /\ measured # "running"
    BY <1>11, <1>0 DEF Release, Ordered
  <2>2. CASE GiveUp \/ Abort
    BY <2>1, <2>2, GivesUpIs, GivenUp
  <2>3. CASE ~(GiveUp \/ Abort)
    <3>1. Mark("release") /\ pc' = "resume" /\ UNCHANGED <<telemetry, evidence>>
      BY <1>11, <2>3 DEF Release
    <3>2. at'["cleanup"] = at["cleanup"] /\ at'["qualify"] = at["qualify"]
      BY <1>0, <3>1, MarkIs DEF Marks
    <3>3. Leaves /\ (valid' <=> valid)
      BY <3>1, <3>2 DEF Leaves, telemetry, evidence
    <3>4. QED
      BY <1>0, <2>1, <3>3, Framed DEF Decided, Found, Judged, Approved
  <2>4. QED
    BY <2>2, <2>3
<1>12. CASE Resume
  <2>1. at'["cleanup"] = at["cleanup"] /\ at'["qualify"] = at["qualify"]
    BY <1>12, <1>0, MarkIs DEF Resume, Marks
  <2>2. Leaves /\ (valid' <=> valid)
    BY <1>12, <2>1 DEF Resume, Leaves, telemetry, evidence
  <2>3. pc \in Approved /\ pc' \in Approved
    BY <1>12 DEF Resume, Approved
  <2>4. QED
    BY <1>0, <2>2, <2>3, Framed DEF Decided, Found, Judged, Approved
<1>13. CASE Begin
  <2>1. at'["cleanup"] = at["cleanup"] /\ at'["qualify"] = at["qualify"]
    BY <1>13, <1>0 DEF Begin, Marks, TypeOK
  <2>2. Leaves /\ (valid' <=> valid)
    BY <1>13, <2>1 DEF Begin, Leaves, telemetry, evidence
  <2>3. pc \in Approved /\ pc' \in Approved
    BY <1>13 DEF Begin, Approved
  <2>4. QED
    BY <1>0, <2>2, <2>3, Framed DEF Decided, Found, Judged, Approved
<1>14. CASE Collect
  <2>1. CASE Accept(LastSample)
    <3>1. Leaves /\ valid' /\ pc = "collect"
      BY <1>14, <2>1 DEF Collect, Accept, Leaves, telemetry
    <3>2. valid
      BY <1>0, <3>1 DEF Decided, Approved
    <3>3. QED
      BY <1>0, <3>1, <3>2, Framed DEF Found, Judged
  <2>2. CASE NextBlock \/ Abort
    <3>1. pc' \in {"prepare", "aborted"} /\ measured' # "running"
      BY <2>2 DEF NextBlock, Abort
    <3>2. QED
      BY <3>1, GivenUp
  <2>3. QED
    BY <1>14, <2>1, <2>2 DEF Collect, Reject
<1>15. CASE Gone
  <2>1. pc' \in {"prepare", "aborted"} /\ measured' # "running"
    BY <1>15 DEF Gone, Raise, Abort
  <2>2. QED
    BY <2>1, GivenUp
<1>16. CASE HeatTimesOut
  <2>1. pc' \in {"prepare", "aborted"} /\ measured' # "running"
    BY <1>16 DEF HeatTimesOut, Raise, Abort
  <2>2. QED
    BY <2>1, GivenUp
<1>17. CASE Raise
  <2>1. pc' \in {"prepare", "aborted"} /\ measured' # "running"
    BY <1>17 DEF Raise, Abort
  <2>2. QED
    BY <2>1, GivenUp
<1>18. CASE Dies
  <2>1. Leaves /\ (valid' <=> valid) /\ pc' = pc
    BY <1>18 DEF Dies, Leaves, telemetry, evidence
  <2>2. QED
    BY <1>0, <2>1, Framed DEF Decided
<1>19. CASE Stamp
  <2>1. Leaves /\ (valid' <=> valid) /\ pc' = pc
    BY <1>19 DEF Stamp, Leaves, evidence
  <2>2. QED
    BY <1>0, <2>1, Framed DEF Decided
<1>20. CASE Write
  <2>1. flying \in Times /\ \A u \in Times : u # flying => record'[u] = record[u]
    BY <1>20, <1>0 DEF Write, TypeOK
  <2>2. UNCHANGED <<pc, first, valid, at>> /\ flying # 0
    BY <1>20 DEF Write, evidence
  <2>3. ASSUME pc \in Found, first # 0 PROVE IsFirst'
    <3>1. IsFirst /\ first < flying
      BY <1>0, <2>2, <2>3 DEF FirstKept, IsFirst, Stamped, TypeOK
    <3>2. \A u \in Times : at["cleanup"] < u /\ u < first => u # flying
      BY <1>0, <2>1, <3>1, TimesIs DEF TypeOK
    <3>3. first # flying
      BY <1>0, <2>1, <3>1, TimesIs DEF TypeOK
    <3>4. QED
      BY <1>0, <2>1, <2>2, <3>1, <3>2, <3>3 DEF IsFirst, TypeOK
  <2>4. FirstKept'
    BY <1>0, <2>2, <2>3 DEF FirstKept
  <2>5. pc \in Judged => (Qualifies(first, at["qualify"])' <=> Qualifies(first, at["qualify"]))
    BY <1>20, <1>0, QualifiesWritten DEF FirstKept
  <2>6. Decided'
    BY <1>0, <2>2, <2>5 DEF Decided
  <2>7. QED
    BY <2>4, <2>6
<1>21. CASE TimePasses
  <2>1. Leaves /\ (valid' <=> valid) /\ pc' = pc
    BY <1>21 DEF TimePasses, Leaves, telemetry, evidence
  <2>2. QED
    BY <1>0, <2>1, Framed DEF Decided
<1>22. CASE UNCHANGED vars
  <2>1. Leaves /\ (valid' <=> valid) /\ pc' = pc
    BY <1>22 DEF vars, Leaves, telemetry, evidence
  <2>2. QED
    BY <1>0, <2>1, Framed DEF Decided
<1>23. QED
  BY <1>0, <1>1, <1>2, <1>3, <1>4, <1>5, <1>6, <1>7, <1>8, <1>9, <1>10, <1>11, <1>12,
      <1>13, <1>14, <1>15, <1>16, <1>17, <1>18, <1>19, <1>20, <1>21, <1>22 DEF Next, Driver, Stopped

LEMMA StartInvInit == Init => StartInv
<1> SUFFICES ASSUME Init PROVE StartInv
  OBVIOUS
<1>1. Stamped
  BY StartTyped, TimesIs DEF Init, Stamped, TypeOK
<1>2. Ordered /\ FirstKept /\ Decided
  BY DEF Init, Ordered, FirstKept, Decided, Heated, Cold, Cleaned, Found, Judged, Approved, Released, Begun
<1>3. QED
  BY <1>1, <1>2 DEF StartInv

LEMMA StartInvStep == TypeOK /\ StartInv /\ [Next]_vars => StartInv'
BY StepTyped, StepTimeline, StampedStep, OrderedStep, EvidenceStep DEF StartInv

LEMMA StartInvKept == Spec => [](TypeOK /\ StartInv)
BY StartTyped, StepTyped, StartInvInit, StartInvStep, PTL DEF Spec

\* The measured processes run only with the heating workers gone, behind a qualification
\* of the same attempt that passed and a release that was in time.
THEOREM MeasuredAloneAlways == Spec => []MeasuredAlone
<1>1. TypeOK /\ StartInv => MeasuredAlone
  <2> SUFFICES ASSUME TypeOK, StartInv, measured = "running" PROVE MeasuredAlone
    BY DEF MeasuredAlone
  <2>1. pc \in {"run", "collect"}
    BY DEF StartInv, Ordered
  <2>2. heaters = "gone" /\ passes = Endpoints /\ at["release"] - at["boundary"] < HandoffMax
    BY <2>1 DEF StartInv, Ordered, Heated, Cold, Cleaned, Found, Judged, Released
  <2>3. at["qualify"] < at["result"] /\ at["result"] < at["release"]
    BY <2>1 DEF StartInv, Ordered, Approved, Released
  <2>4. at["qualify"] < at["release"]
    BY <2>3, TimesIs DEF TypeOK, Marks
  <2>5. valid /\ Qualifies(first, at["qualify"])
    BY <2>1 DEF StartInv, Decided, Judged, Approved
  <2>6. QED
    BY <2>2, <2>4, <2>5 DEF MeasuredAlone
<1>2. QED
  BY <1>1, StartInvKept, PTL

-----------------------------------------------------------------------------
(* The start of an accepted measurement *)

\* The sample of an accepted start.
StartKept ==
  pc = "accepted" =>
    /\ record[seen] = "good" /\ first <= seen /\ at["begin"] - seen <= Stale /\ Timely(at)
    /\ \A u, v \in Complete(at["cleanup"], at["begin"]) : seen < u /\ seen < v => u = v
    /\ refused \/ \A u \in Complete(at["cleanup"], at["begin"]) : u <= seen

LEMMA CompleteIs ==
  ASSUME TypeOK, NEW s \in Times, NEW t \in Times
  PROVE  /\ Complete(s, t) \in SUBSET Times
         /\ \A u \in Times : u \in Complete(s, t) <=>
              s < u /\ u <= t /\ (record[u] # "none" \/ u = flying)
<1>1. flying \in Times
  BY DEF TypeOK
<1>2. \A u \in Times : u \in (s + 1) .. t <=> s < u /\ u <= t
  BY Parameters DEF Times
<1>3. QED
  BY <1>1, <1>2, SamplesIs DEF Complete

\* A sample that is written was on its way before.
LEMMA CompleteWritten ==
  ASSUME TypeOK, TypeOK', Stamped, Write, NEW m \in Marks, NEW n \in Marks
  PROVE  Complete(at[m], at[n])' = Complete(at[m], at[n])
<1>1. at' = at /\ at[m] \in Times /\ at[n] \in Times
  BY DEF Write, TypeOK
<1>2. /\ flying # 0 /\ flying' = 0 /\ flying \in Times /\ record'[flying] # "none"
      /\ \A u \in Times : u # flying => record'[u] = record[u]
  BY DEF Write, TypeOK, Kinds, Whole
<1>3. \A u \in Times : at[m] < u => u # 0
  BY <1>1, TimesIs
<1>4. /\ Complete(at[m], at[n])' \in SUBSET Times
      /\ \A u \in Times : u \in Complete(at[m], at[n])' <=>
           at[m] < u /\ u <= at[n] /\ (record'[u] # "none" \/ u = 0)
  <2>1. at'[m] \in Times /\ at'[n] \in Times
    BY <1>1
  <2>2. /\ Complete(at[m], at[n])' \in SUBSET Times
        /\ \A u \in Times : u \in Complete(at[m], at[n])' <=>
             at'[m] < u /\ u <= at'[n] /\ (record'[u] # "none" \/ u = flying')
    <3>1. \A u \in Times : u \in (at'[m] + 1) .. at'[n] <=> at'[m] < u /\ u <= at'[n]
      BY <2>1, Parameters DEF Times
    <3>2. (at'[m] + 1) .. at'[n] \in SUBSET Times
      BY <2>1, Parameters DEF Times
    <3>3. QED
      BY <3>1, <3>2 DEF Complete, Samples
  <2>3. QED
    BY <1>1, <1>2, <2>2
<1>5. \A u \in Times : u \in Complete(at[m], at[n])' <=> u \in Complete(at[m], at[n])
  BY <1>1, <1>2, <1>3, <1>4, CompleteIs
<1>6. QED
  BY <1>1, <1>4, <1>5, CompleteIs

\* A measurement is accepted by Collect alone; later only the recorder writes.
LEMMA AcceptedBy ==
  ASSUME [Next]_vars, pc' = "accepted"
  PROVE  \/ Collect /\ Accept(LastSample) /\ Verdict(LastSample)
         \/ pc = "accepted" /\ (Write \/ UNCHANGED vars)
<1>0. [Next]_vars /\ pc' = "accepted"
  OBVIOUS
<1>1. CASE StartHeaters
  BY <1>1, <1>0 DEF StartHeaters
<1>2. CASE \E stable \in BOOLEAN, flaw \in Flaws : Check(stable, flaw)
  BY <1>2, <1>0 DEF Check
<1>3. CASE Boundary
  BY <1>3, <1>0 DEF Boundary
<1>4. CASE StopHeaters
  BY <1>4, <1>0 DEF StopHeaters
<1>5. CASE CleanupEnds
  BY <1>5, <1>0 DEF CleanupEnds
<1>6. CASE FindSample
  BY <1>6, <1>0 DEF FindSample
<1>7. CASE FindNone
  BY <1>7, <1>0 DEF FindNone
<1>8. CASE Qualify
  BY <1>8, <1>0 DEF Qualify
<1>9. CASE Result
  BY <1>9, <1>0 DEF Result, GiveUp, Retry, Abort
<1>10. CASE OpenBlock
  BY <1>10, <1>0 DEF OpenBlock
<1>11. CASE Release
  BY <1>11, <1>0 DEF Release, GiveUp, Retry, Abort
<1>12. CASE Resume
  BY <1>12, <1>0 DEF Resume
<1>13. CASE Begin
  BY <1>13, <1>0 DEF Begin
<1>14. CASE Collect
  BY <1>14, <1>0 DEF Collect, Reject, NextBlock, Abort
<1>15. CASE Gone
  BY <1>15, <1>0 DEF Gone, Raise, Abort
<1>16. CASE HeatTimesOut
  BY <1>16, <1>0 DEF HeatTimesOut, Raise, Abort
<1>17. CASE Raise
  BY <1>17, <1>0 DEF Raise, Abort
<1>18. CASE Dies
  BY <1>18, <1>0 DEF Dies, Over
<1>19. CASE Stamp
  BY <1>19, <1>0 DEF Stamp, Timed
<1>20. CASE Write
  BY <1>20, <1>0 DEF Write
<1>21. CASE TimePasses
  BY <1>21, <1>0 DEF TimePasses, Timed
<1>22. CASE UNCHANGED vars
  BY <1>22, <1>0 DEF vars
<1>23. QED
  BY <1>0, <1>1, <1>2, <1>3, <1>4, <1>5, <1>6, <1>7, <1>8, <1>9, <1>10, <1>11, <1>12,
      <1>13, <1>14, <1>15, <1>16, <1>17, <1>18, <1>19, <1>20, <1>21, <1>22 DEF Next, Driver, Stopped

\* Where the qualification's sample is, once it passed.
LEMMA FirstIs ==
  ASSUME TypeOK, StartInv, pc \in Approved
  PROVE  /\ first \in Times /\ first # 0 /\ record[first] = "good" /\ IsFirst
         /\ at["cleanup"] < first /\ first < at["qualify"] /\ first - at["cleanup"] <= Stale
         /\ at["qualify"] < at["result"]
<1>1. Qualifies(first, at["qualify"])
  BY DEF StartInv, Decided, Approved, Judged
<1>2. first # 0 /\ record[first] = "good" /\ first - at["cleanup"] <= Stale
  BY <1>1 DEF Qualifies
<1>3. IsFirst /\ first < at["qualify"]
  BY <1>2 DEF StartInv, FirstKept, Found, Judged, Approved
<1>4. QED
  BY <1>2, <1>3 DEF IsFirst, TypeOK, StartInv, Ordered

LEMMA ReaderIs ==
  ASSUME TypeOK
  PROVE  Reader \in {"summary", "deadline", "guard"} /\ (Reader = "guard" <=> driver = "guard")
<1>1. driver \in {"governor", "repeat", "calibration", "guard"}
  BY ThermalAssumption DEF TypeOK, AllDrivers
<1>2. QED
  BY <1>1 DEF Reader

LEMMA ReaderSame == ASSUME UNCHANGED driver PROVE UNCHANGED Reader
BY DEF Reader

LEMMA FirstBeforeStart ==
  ASSUME TypeOK, StartInv, pc \in Begun
  PROVE  first \in Samples(at["cleanup"], at["begin"])
<1>1. /\ first \in Times /\ record[first] = "good" /\ at["cleanup"] < first
      /\ first < at["qualify"] /\ at["qualify"] < at["result"]
  BY FirstIs DEF Begun, Approved
<1>2. at["result"] < at["release"] /\ at["release"] < at["begin"]
  BY DEF StartInv, Ordered, Begun, Released
<1>3. \A m \in Marks : at[m] \in Nat /\ at[m] \in Times
  BY TimesIs DEF TypeOK
<1>4. first <= at["begin"]
  BY <1>1, <1>2, <1>3, TimesIs DEF Marks
<1>5. QED
  BY <1>1, <1>3, <1>4, SamplesIs DEF Marks

LEMMA StartKeptStep ==
  ASSUME TypeOK, TypeOK', StartInv, StartKept, [Next]_vars
  PROVE  StartKept'
<1> SUFFICES ASSUME pc' = "accepted" PROVE StartKept'
  BY DEF StartKept
<1>0. at["cleanup"] \in Times /\ at["begin"] \in Times /\ flying \in Times
  BY DEF TypeOK, Marks
<1>1. CASE Collect /\ Accept(LastSample) /\ Verdict(LastSample)
  <2>1. /\ pc = "collect" /\ seen' = LastSample
        /\ UNCHANGED <<at, record, flying, first>>
    BY <1>1 DEF Collect, Accept, telemetry
  <2>2. /\ record[LastSample] = "good" /\ at["begin"] - LastSample <= Stale /\ Timely(at)
        /\ LastSample # 0
    BY <1>1 DEF Verdict, StartsWell
  <2>3. \A v \in Samples(at["cleanup"], at["begin"]) : v <= LastSample
    BY <2>2, LastSampleIs
  <2>4. first <= LastSample
    BY <2>1, <2>3, FirstBeforeStart DEF Begun
  <2>5. \A u \in Complete(at["cleanup"], at["begin"]) : LastSample < u => u = flying
    <3>1. SUFFICES ASSUME NEW u \in Complete(at["cleanup"], at["begin"]), LastSample < u, u # flying
                   PROVE  FALSE
      OBVIOUS
    <3>2. u \in Samples(at["cleanup"], at["begin"])
      BY <3>1 DEF Complete
    <3>3. u <= LastSample /\ u \in Nat /\ LastSample \in Nat
      BY <1>0, <2>3, <3>2, SamplesIs, LastSampleIs, TimesIs
    <3>4. QED
      BY <3>1, <3>3
  <2>6. refused' \/ \A u \in Complete(at["cleanup"], at["begin"]) : u <= LastSample
    <3>1. CASE Missed
      BY <1>1, <3>1 DEF Collect
    <3>2. CASE ~Missed
      <4>1. SUFFICES ASSUME NEW u \in Complete(at["cleanup"], at["begin"]), ~(u <= LastSample)
                     PROVE  FALSE
        OBVIOUS
      <4>2. u \in Times /\ at["cleanup"] < u /\ u <= at["begin"]
        BY <1>0, <4>1, CompleteIs
      <4>3. LastSample < u
        BY <4>1, <4>2, LastSampleIs, TimesIs
      <4>4. u = flying /\ flying # 0
        BY <1>0, <2>5, <4>2, <4>3, TimesIs
      <4>5. flying # at["begin"]
        BY <4>4 DEF StartInv, Stamped
      <4>6. QED
        BY <1>0, <3>2, <4>2, <4>4, <4>5, TimesIs DEF Missed
    <3>3. QED
      BY <3>1, <3>2
  <2>7. Complete(at["cleanup"], at["begin"])' = Complete(at["cleanup"], at["begin"])
    BY <2>1 DEF Complete, Samples
  <2>8. Timely(at)'
    BY <2>1, <2>2
  <2>9. QED
    BY <2>1, <2>2, <2>4, <2>5, <2>6, <2>7, <2>8 DEF StartKept
<1>2. CASE pc = "accepted" /\ Write
  <2>1. /\ flying # 0 /\ UNCHANGED <<at, seen, first>>
        /\ \A u \in Times : u # flying => record'[u] = record[u]
    BY <1>2 DEF Write, evidence, TypeOK
  <2>2. /\ record[seen] = "good" /\ first <= seen /\ at["begin"] - seen <= Stale /\ Timely(at)
        /\ seen \in Times
    BY <1>2 DEF StartKept, TypeOK
  <2>3. seen # flying
    BY <1>0, <2>1, <2>2, TimesIs DEF StartInv, Stamped
  <2>4. Complete(at["cleanup"], at["begin"])' = Complete(at["cleanup"], at["begin"])
    BY <1>2, CompleteWritten DEF StartInv, Marks
  <2>5. refused => refused'
    BY <1>2 DEF Write
  <2>6. record'[seen'] = "good" /\ Timely(at)'
    BY <2>1, <2>2, <2>3
  <2>7. QED
    BY <1>2, <2>1, <2>2, <2>4, <2>5, <2>6 DEF StartKept
<1>3. CASE pc = "accepted" /\ UNCHANGED vars
  BY <1>3 DEF StartKept, vars, telemetry, evidence, Complete, Samples
<1>4. QED
  BY <1>1, <1>2, <1>3, AcceptedBy

LEMMA AtMostOne ==
  ASSUME NEW S, \A u, v \in S : u = v
  PROVE  Cardinality(S) <= 1 /\ Cardinality(S) \in Nat
<1>1. CASE S = {}
  BY <1>1, FS_EmptySet
<1>2. CASE S # {}
  <2>1. PICK x \in S : TRUE
    BY <1>2
  <2>2. S = {x}
    BY <2>1
  <2>3. QED
    BY <2>2, FS_Singleton
<1>3. QED
  BY <1>1, <1>2

\* An accepted measurement had a qualified start, judged by the complete record.
THEOREM StartQualifiedAlways == Spec => []StartIsQualified
<1>1. Init => StartKept
  BY DEF Init, StartKept
<1>2. TypeOK /\ StartInv /\ StartKept /\ [Next]_vars => StartKept'
  BY StepTyped, StartKeptStep
<1>3. TypeOK /\ StartInv /\ StartKept => StartIsQualified
  <2> SUFFICES ASSUME TypeOK, StartInv, StartKept, pc = "accepted" PROVE StartIsQualified
    BY DEF StartIsQualified
  <2> DEFINE S == Complete(at["cleanup"], at["qualify"])
  <2> DEFINE L == {u \in Complete(at["cleanup"], at["begin"]) : seen < u}
  <2>0. \A m \in Marks : at[m] \in Times
    BY DEF TypeOK
  <2>1. /\ first \in Times /\ first # 0 /\ record[first] = "good" /\ IsFirst
        /\ at["cleanup"] < first /\ first < at["qualify"] /\ first - at["cleanup"] <= Stale
        /\ at["qualify"] < at["result"]
    BY FirstIs DEF Approved
  <2>2. S \in SUBSET Times /\ first \in S
    BY <2>0, <2>1, CompleteIs, TimesIs DEF Marks
  <2>3. Earliest(S) \in S /\ Earliest(S) <= first
    BY <2>2, EarliestIs
  <2>4. record[Earliest(S)] # "none" /\ at["cleanup"] < Earliest(S) /\ Earliest(S) \in Times
    <3>1. Earliest(S) \in Times /\ at["cleanup"] < Earliest(S) /\ Earliest(S) <= at["qualify"]
      BY <2>0, <2>2, <2>3, CompleteIs DEF Marks
    <3>2. Earliest(S) # flying
      BY <2>0, <3>1, TimesIs DEF StartInv, Stamped, Marks, TypeOK
    <3>3. QED
      BY <2>0, <2>3, <3>1, <3>2, CompleteIs DEF Marks
  <2>5. Earliest(S) = first
    BY <2>1, <2>3, <2>4, TimesIs DEF IsFirst
  <2>6. /\ at["boundary"] < at["cleanup"] /\ at["result"] < at["release"]
        /\ at["release"] < at["begin"]
    BY DEF StartInv, Ordered, Cleaned, Found, Judged, Released, Begun
  <2>7. /\ record[seen] = "good" /\ first <= seen /\ at["begin"] - seen <= Stale /\ Timely(at)
        /\ \A u, v \in L : u = v
        /\ refused \/ L = {}
    <3>1. \A u \in Complete(at["cleanup"], at["begin"]) : u \in Nat
      BY <2>0, CompleteIs, TimesIs DEF Marks
    <3>2. seen \in Nat
      BY TimesIs DEF TypeOK
    <3>3. QED
      BY <3>1, <3>2 DEF StartKept
  <2>8. at["begin"] - at["boundary"] < HandoffMax
    BY <2>0, <2>6, <2>7, TimesIs DEF Timely, Handoff, Marks
  <2>9. Cardinality(L) <= (IF refused THEN 1 ELSE 0)
    <3>1. CASE refused
      BY <2>7, <3>1, AtMostOne
    <3>2. CASE ~refused
      BY <2>7, <3>2, FS_EmptySet
    <3>3. QED
      BY <3>1, <3>2
  <2>10. QED
    BY <2>1, <2>2, <2>5, <2>6, <2>7, <2>8, <2>9 DEF StartIsQualified
<1>4. QED
  BY <1>1, <1>2, <1>3, StartInvKept, PTL DEF Spec

-----------------------------------------------------------------------------
(* The replay *)

\* As long as nothing odd happened, what a qualification had not seen is not there.
NothingOdd ==
  /\ pc = "mark" /\ first = 0 /\ ~odd => Causal(clock) = {}
  /\ pc = "result" /\ first = 0 /\ ~odd => Causal(at["qualify"]) = {}
  /\ driver = "guard" /\ pc \in {"poll", "mark"} /\ ~odd => \A u, v \in Causal(clock) : u = v
  /\ driver = "guard" /\ pc = "result" /\ first # 0 /\ ~odd => \A u \in Causal(at["qualify"]) : u = first
  /\ pc = "result" /\ first # 0 /\ ~odd =>
       /\ record[first] \in Whole
       /\ Reader = "summary" => Healthy(first, at["qualify"])

\* And the stretch from the boundary to the release has no silence and is not hot.
Watched ==
  pc \in {"resume", "run", "collect"} /\ Reader = "summary" /\ ~odd =>
    ~Silent(at["boundary"], at["release"]) /\ ~hot

ReplayInv == pc # "aborted" /\ ~odd => ~refused

LEMMA OddStays == ASSUME NEW X, Happens(X) PROVE odd => odd'
BY DEF Happens
LEMMA OddNot == ASSUME NEW X, NEW x \in X, Happens(X), ~odd' PROVE x \notin Matters
BY DEF Happens

\* The stamps of a step after which nothing was written: no new sample has appeared.
LEMMA CausalLater ==
  ASSUME TypeOK, TypeOK', Stamped, UNCHANGED <<record, at>>, clock' = clock + 1
  PROVE  Causal(clock)' = Causal(clock)
<1>0. clock \in Times /\ clock' \in Times /\ at["cleanup"] \in Times /\ clock \in Nat
  BY TimesIs DEF TypeOK, Marks
<1>1. \A u \in Times : u \in (at["cleanup"] + 1) .. clock <=> at["cleanup"] < u /\ u <= clock
  BY <1>0, Parameters DEF Times
<1>2. \A u \in Times : u \in (at["cleanup"] + 1) .. clock' <=> at["cleanup"] < u /\ u <= clock'
  BY <1>0, Parameters DEF Times
<1>3. (at["cleanup"] + 1) .. clock \in SUBSET Times /\ (at["cleanup"] + 1) .. clock' \in SUBSET Times
  BY <1>0, Parameters DEF Times
<1>4. \A u \in Times : record[u] # "none" => u <= clock /\ u <= clock'
  BY <1>0, TimesIs DEF Stamped
<1>5. \A u \in Times : record[u] # "none" =>
        (u \in (at["cleanup"] + 1) .. clock <=> u \in (at["cleanup"] + 1) .. clock')
  BY <1>1, <1>2, <1>4
<1>6. {u \in (at["cleanup"] + 1) .. clock' : record[u] # "none"}
        = {u \in (at["cleanup"] + 1) .. clock : record[u] # "none"}
  BY <1>3, <1>5
<1>7. QED
  BY <1>6 DEF Causal, Samples

LEMMA CausalSame ==
  ASSUME UNCHANGED <<record, at, clock>>
  PROVE  Causal(clock)' = Causal(clock) /\ Causal(at["qualify"])' = Causal(at["qualify"])
BY DEF Causal, Samples

\* A qualification that is being decided is not touched by what is written later.
LEMMA CausalWritten ==
  ASSUME TypeOK, Stamped, Write
  PROVE  /\ Causal(at["qualify"])' = Causal(at["qualify"])
         /\ Causal(clock)' \in SUBSET (Causal(clock) \cup {flying})
<1>0. /\ at["cleanup"] \in Times /\ at["qualify"] \in Times /\ flying \in Times /\ clock \in Times
      /\ at' = at /\ clock' = clock /\ at["qualify"] < flying
      /\ \A u \in Times : u # flying => record'[u] = record[u]
  BY DEF TypeOK, Marks, Write, Stamped
<1>1. \A u \in (at["cleanup"] + 1) .. at["qualify"] : u \in Times /\ u # flying
  BY <1>0, Parameters DEF Times
<1>2. \A u \in (at["cleanup"] + 1) .. clock : u \in Times
  BY <1>0, Parameters DEF Times
<1>3. {u \in (at["cleanup"] + 1) .. at["qualify"] : record'[u] # "none"}
        = {u \in (at["cleanup"] + 1) .. at["qualify"] : record[u] # "none"}
  BY <1>0, <1>1
<1>4. {u \in (at["cleanup"] + 1) .. clock : record'[u] # "none"}
        \in SUBSET ({u \in (at["cleanup"] + 1) .. clock : record[u] # "none"} \cup {flying})
  BY <1>0, <1>2
<1>5. QED
  BY <1>0, <1>3, <1>4 DEF Causal, Samples

LEMMA HealthyWritten ==
  ASSUME TypeOK, Stamped, Write, pc = "result", first < at["qualify"]
  PROVE  /\ record'[first] = record[first]
         /\ Healthy(first, at["qualify"]) => Healthy(first, at["qualify"])'
<1>0. /\ first \in Times /\ at["qualify"] \in Times /\ flying \in Times
      /\ at' = at /\ first' = first /\ at["qualify"] < flying
      /\ \A u \in Times : u # flying => record'[u] = record[u]
  BY DEF TypeOK, Marks, Write, Stamped, evidence
<1>1. \A u \in first .. at["qualify"] : u \in Times /\ u # flying
  BY <1>0, Parameters DEF Times
<1>2. first \in Times /\ first # flying
  BY <1>0, TimesIs
<1>3. QED
  BY <1>0, <1>1, <1>2 DEF Healthy

LEMMA OddMatters ==
  ASSUME TypeOK
  PROVE  /\ "slipped" \in Matters /\ "across" \in Matters /\ "bad" \in Matters
         /\ Reader = "guard" => "second" \in Matters
         /\ Reader = "summary" => "stale" \in Matters /\ "sparse" \in Matters /\ "hot" \in Matters
         /\ Reader # "summary" => "unread" \in Matters
         /\ HeatRefused \in SUBSET Matters /\ RunRefused \in SUBSET Matters
<1>1. CASE Reader = "summary"
  BY <1>1 DEF Matters, HeatRefused, SummaryRefusesHeat, RunRefused, SummaryRefusesRun
<1>2. CASE Reader = "deadline"
  BY <1>2 DEF Matters, HeatRefused, DeadlineRefusesHeat, RunRefused, DeadlineRefusesRun
<1>3. CASE Reader = "guard"
  BY <1>3 DEF Matters, HeatRefused, GuardRefusesHeat, RunRefused, GuardRefusesRun
<1>4. QED
  BY <1>1, <1>2, <1>3, ReaderIs

\* What the qualification decides, if nothing odd happens then.
LEMMA QualifyOdd ==
  ASSUME TypeOK, TypeOK', StartInv, NothingOdd, Qualify, ~odd'
  PROVE  /\ first' = 0 => Causal(at["qualify"])' = {}
         /\ driver' = "guard" /\ first' # 0 => \A u \in Causal(at["qualify"])' : u = first'
         /\ first' # 0 =>
              /\ record'[first'] \in Whole
              /\ Reader' = "summary" => Healthy(first, at["qualify"])'
<1>1. /\ clock' = clock + 1 /\ at'["qualify"] = clock + 1 /\ at'["cleanup"] = at["cleanup"]
      /\ UNCHANGED <<first, record, driver>> /\ pc = "mark"
  BY MarkIs DEF Qualify, Marks, telemetry, place
<1>2. ~odd
  BY OddStays DEF Qualify
<1>3. Causal(at["qualify"])' = Causal(clock)
  <2>0. clock \in Times /\ clock + 1 \in Times /\ at["cleanup"] \in Times /\ clock \in Nat
    BY <1>1, TimesIs DEF TypeOK, Marks
  <2>1. \A u \in Times : u \in (at["cleanup"] + 1) .. clock <=> at["cleanup"] < u /\ u <= clock
    BY <2>0, Parameters DEF Times
  <2>2. \A u \in Times : u \in (at["cleanup"] + 1) .. (clock + 1) <=> at["cleanup"] < u /\ u <= clock + 1
    BY <2>0, Parameters DEF Times
  <2>3. (at["cleanup"] + 1) .. clock \in SUBSET Times /\ (at["cleanup"] + 1) .. (clock + 1) \in SUBSET Times
    BY <2>0, Parameters DEF Times
  <2>4. \A u \in Times : record[u] # "none" => u <= clock /\ u <= clock + 1
    BY <2>0, TimesIs DEF StartInv, Stamped
  <2>5. {u \in (at["cleanup"] + 1) .. (clock + 1) : record[u] # "none"}
          = {u \in (at["cleanup"] + 1) .. clock : record[u] # "none"}
    BY <2>1, <2>2, <2>3, <2>4
  <2>6. QED
    BY <1>1, <2>5 DEF Causal, Samples
<1>4. first = 0 => Causal(clock) = {}
  BY <1>1, <1>2 DEF NothingOdd
<1>5. ASSUME driver = "guard", first # 0, NEW u \in Causal(clock) PROVE u = first
  <2>1. clock \in Times /\ first \in Times /\ at["cleanup"] < first /\ record[first] # "none"
    BY <1>1, <1>5 DEF TypeOK, StartInv, FirstKept, IsFirst, Found
  <2>2. first <= clock
    BY <2>1 DEF StartInv, Stamped
  <2>3. first \in Causal(clock)
    BY <2>1, <2>2, CausalIs
  <2>4. QED
    BY <1>1, <1>2, <1>5, <2>3 DEF NothingOdd
<1>6. ASSUME first # 0 PROVE Healthy(first, clock + 1) \/ (record[first] \in Whole /\ Reader # "summary")
  <2>1. CASE Healthy(first, clock + 1)
    BY <2>1
  <2>2. CASE ~Healthy(first, clock + 1)
    <3>1. Happens(IF record[first] \notin Whole THEN {"bad"} ELSE {"stale"})
      BY <1>6, <2>2 DEF Qualify
    <3>2. record[first] \in Whole
      BY <3>1, OddMatters DEF Happens
    <3>3. "stale" \notin Matters
      BY <3>1, <3>2, OddNot
    <3>4. QED
      BY <3>2, <3>3, OddMatters
  <2>3. QED
    BY <2>1, <2>2
<1>7. Healthy(first, clock + 1) => record[first] \in Whole
  BY DEF Healthy
<1>8. Healthy(first, at["qualify"])' <=> Healthy(first, clock + 1)
  BY <1>1 DEF Healthy
<1>9. Reader' = Reader
  BY <1>1, ReaderSame
<1>10. QED
  BY <1>1, <1>3, <1>4, <1>5, <1>6, <1>7, <1>8, <1>9

\* What the recorder writes is odd when a qualification had not seen it.
LEMMA WriteOdd ==
  ASSUME TypeOK, Stamped, Write, ~odd'
  PROVE  /\ ~odd
         /\ pc = "mark" => first # 0
         /\ pc \in {"poll", "mark"} /\ driver = "guard" => Causal(clock) = {}
<1>1. PICK flaw : Happens({flaw} \cup Seems)
  BY DEF Write
<1>2. ~odd
  BY <1>1, OddStays
<1>3. pc = "mark" => first # 0
  <2>1. SUFFICES ASSUME pc = "mark", first = 0 PROVE FALSE
    OBVIOUS
  <2>2. "slipped" \in {flaw} \cup Seems
    BY <2>1 DEF Seems
  <2>3. QED
    BY <1>1, <2>2, OddNot, OddMatters
<1>4. pc \in {"poll", "mark"} /\ driver = "guard" => Causal(clock) = {}
  <2>1. SUFFICES ASSUME pc \in {"poll", "mark"}, driver = "guard", Causal(clock) # {} PROVE FALSE
    OBVIOUS
  <2>2. "second" \in {flaw} \cup Seems
    BY <2>1 DEF Seems
  <2>3. QED
    BY <1>1, <2>1, <2>2, OddNot, OddMatters, ReaderIs
<1>5. QED
  BY <1>2, <1>3, <1>4

LEMMA NothingOddStep ==
  ASSUME TypeOK, TypeOK', StartInv, NothingOdd, [Next]_vars
  PROVE  NothingOdd'
<1>0. TypeOK /\ TypeOK' /\ StartInv /\ NothingOdd /\ [Next]_vars
  OBVIOUS
<1>1. CASE StartHeaters
  <2>1. pc' \notin {"poll", "mark", "result"}
    BY <1>1 DEF StartHeaters
  <2>2. QED
    BY <2>1 DEF NothingOdd
<1>2. CASE \E stable \in BOOLEAN, flaw \in Flaws : Check(stable, flaw)
  <2>1. pc' \notin {"poll", "mark", "result"}
    BY <1>2 DEF Check
  <2>2. QED
    BY <2>1 DEF NothingOdd
<1>3. CASE Boundary
  <2>1. pc' \notin {"poll", "mark", "result"}
    BY <1>3 DEF Boundary
  <2>2. QED
    BY <2>1 DEF NothingOdd
<1>4. CASE StopHeaters
  <2>1. pc' \notin {"poll", "mark", "result"}
    BY <1>4 DEF StopHeaters
  <2>2. QED
    BY <2>1 DEF NothingOdd
<1>5. CASE CleanupEnds
  <2>1. pc' = "poll" /\ at'["cleanup"] = clock'
    BY <1>5, <1>0, MarkIs DEF CleanupEnds, Marks
  <2>2. (clock' + 1) .. clock' = {}
    BY <1>0, TimesIs DEF TypeOK
  <2>3. Causal(clock)' = {}
    BY <2>1, <2>2 DEF Causal, Samples
  <2>4. QED
    BY <2>1, <2>3 DEF NothingOdd
<1>6. CASE FindSample
  <2>1. pc = "poll" /\ pc' = "mark" /\ UNCHANGED <<record, at, clock, driver, odd>>
    BY <1>6 DEF FindSample, telemetry, place
  <2>2. first' # 0
    <3>1. Causal(clock) \in SUBSET Times /\ Causal(clock) # {} /\ clock \in Times
      BY <1>6, <1>0, CausalIs DEF FindSample, TypeOK
    <3>2. first' \in Causal(clock)
      BY <1>6, <3>1, EarliestIs DEF FindSample
    <3>3. at["cleanup"] < first' /\ first' \in Times /\ at["cleanup"] \in Times
      BY <1>0, <3>1, <3>2, CausalIs DEF TypeOK, Marks
    <3>4. QED
      BY <3>3, TimesIs
  <2>3. Causal(clock)' = Causal(clock)
    BY <2>1, CausalSame
  <2>4. QED
    BY <1>0, <2>1, <2>2, <2>3 DEF NothingOdd
<1>7. CASE FindNone
  <2>1. pc = "poll" /\ pc' = "mark" /\ UNCHANGED <<record, at, clock, driver, odd>>
    BY <1>7 DEF FindNone, telemetry, place
  <2>2. first' = 0 => Causal(clock) = {}
    BY <1>7, <1>0, CausalIs, EarliestIs, TimesIs DEF FindNone
  <2>3. Causal(clock)' = Causal(clock)
    BY <2>1, CausalSame
  <2>4. QED
    BY <1>0, <2>1, <2>2, <2>3 DEF NothingOdd
<1>8. CASE Qualify
  <2>1. pc' = "result"
    BY <1>8 DEF Qualify
  <2>2. QED
    BY <1>8, <1>0, <2>1, QualifyOdd DEF NothingOdd
<1>9. CASE Result
  <2>1. pc' \notin {"poll", "mark", "result"}
    BY <1>9 DEF Result, GiveUp, Retry, Abort
  <2>2. QED
    BY <2>1 DEF NothingOdd
<1>10. CASE OpenBlock
  <2>1. pc' \notin {"poll", "mark", "result"}
    BY <1>10 DEF OpenBlock
  <2>2. QED
    BY <2>1 DEF NothingOdd
<1>11. CASE Release
  <2>1. pc' \notin {"poll", "mark", "result"}
    BY <1>11 DEF Release, GiveUp, Retry, Abort
  <2>2. QED
    BY <2>1 DEF NothingOdd
<1>12. CASE Resume
  <2>1. pc' \notin {"poll", "mark", "result"}
    BY <1>12 DEF Resume
  <2>2. QED
    BY <2>1 DEF NothingOdd
<1>13. CASE Begin
  <2>1. pc' \notin {"poll", "mark", "result"}
    BY <1>13 DEF Begin
  <2>2. QED
    BY <2>1 DEF NothingOdd
<1>14. CASE Collect
  <2>1. pc' \notin {"poll", "mark", "result"}
    BY <1>14 DEF Collect, Accept, Reject, NextBlock, Abort
  <2>2. QED
    BY <2>1 DEF NothingOdd
<1>15. CASE Gone
  <2>1. pc' \notin {"poll", "mark", "result"}
    BY <1>15 DEF Gone, Raise, Abort
  <2>2. QED
    BY <2>1 DEF NothingOdd
<1>16. CASE HeatTimesOut
  <2>1. pc' \notin {"poll", "mark", "result"}
    BY <1>16 DEF HeatTimesOut, Raise, Abort
  <2>2. QED
    BY <2>1 DEF NothingOdd
<1>17. CASE Raise
  <2>1. pc' \notin {"poll", "mark", "result"}
    BY <1>17 DEF Raise, Abort
  <2>2. QED
    BY <2>1 DEF NothingOdd
<1>18. CASE Dies
  <2>1. UNCHANGED <<pc, record, at, clock, driver, odd, first>>
    BY <1>18 DEF Dies, telemetry, place, evidence
  <2>2. Healthy(first, at["qualify"])' <=> Healthy(first, at["qualify"])
    BY <2>1 DEF Healthy
  <2>3. QED
    BY <1>0, <2>1, <2>2, CausalSame, ReaderSame DEF NothingOdd
<1>19. CASE Stamp
  <2>1. clock' = clock + 1 /\ UNCHANGED <<pc, record, at, driver, odd, first>>
    BY <1>19 DEF Stamp, place, evidence
  <2>2. Causal(clock)' = Causal(clock)
    BY <1>0, <2>1, CausalLater DEF StartInv
  <2>3. Causal(at["qualify"])' = Causal(at["qualify"])
    BY <2>1 DEF Causal, Samples
  <2>4. Healthy(first, at["qualify"])' <=> Healthy(first, at["qualify"])
    BY <2>1 DEF Healthy
  <2>5. QED
    BY <1>0, <2>1, <2>2, <2>3, <2>4, ReaderSame DEF NothingOdd
<1>20. CASE Write
  <2>1. UNCHANGED <<pc, at, clock, driver, first>>
    BY <1>20 DEF Write, place, evidence
  <2>2. SUFFICES ASSUME ~odd' PROVE NothingOdd'
    BY DEF NothingOdd
  <2>3. /\ ~odd /\ (pc = "mark" => first # 0)
        /\ (pc \in {"poll", "mark"} /\ driver = "guard" => Causal(clock) = {})
    BY <1>20, <1>0, <2>2, WriteOdd DEF StartInv
  <2>4. /\ Causal(at["qualify"])' = Causal(at["qualify"])
        /\ Causal(clock)' \in SUBSET (Causal(clock) \cup {flying})
    BY <1>20, <1>0, CausalWritten DEF StartInv
  <2>5. ASSUME pc = "result" PROVE
          /\ record'[first] = record[first]
          /\ Healthy(first, at["qualify"]) => Healthy(first, at["qualify"])'
    BY <1>20, <1>0, <2>5, HealthyWritten DEF StartInv, FirstKept, Judged
  <2>6. pc \in {"poll", "mark"} /\ driver = "guard" => \A u, v \in Causal(clock)' : u = v
    BY <2>3, <2>4
  <2>7. QED
    BY <1>0, <2>1, <2>3, <2>4, <2>5, <2>6, ReaderSame DEF NothingOdd
<1>21. CASE TimePasses
  <2>1. clock' = clock + 1 /\ UNCHANGED <<pc, record, at, driver, odd, first>>
    BY <1>21 DEF TimePasses, telemetry, place, evidence
  <2>2. Causal(clock)' = Causal(clock)
    BY <1>0, <2>1, CausalLater DEF StartInv
  <2>3. Causal(at["qualify"])' = Causal(at["qualify"])
    BY <2>1 DEF Causal, Samples
  <2>4. Healthy(first, at["qualify"])' <=> Healthy(first, at["qualify"])
    BY <2>1 DEF Healthy
  <2>5. QED
    BY <1>0, <2>1, <2>2, <2>3, <2>4, ReaderSame DEF NothingOdd
<1>22. CASE UNCHANGED vars
  <2>1. UNCHANGED <<pc, record, at, clock, driver, odd, first>>
    BY <1>22 DEF vars, telemetry, place, evidence
  <2>2. Healthy(first, at["qualify"])' <=> Healthy(first, at["qualify"])
    BY <2>1 DEF Healthy
  <2>3. QED
    BY <1>0, <2>1, <2>2, CausalSame, ReaderSame DEF NothingOdd
<1>23. QED
  BY <1>0, <1>1, <1>2, <1>3, <1>4, <1>5, <1>6, <1>7, <1>8, <1>9, <1>10, <1>11, <1>12,
      <1>13, <1>14, <1>15, <1>16, <1>17, <1>18, <1>19, <1>20, <1>21, <1>22 DEF Next, Driver, Stopped

\* The result of a qualification is replayed.
LEMMA ResultReplays ==
  ASSUME TypeOK, StartInv, NothingOdd, pc = "result", ~odd
  PROVE  Replays(at["qualify"], valid)
<1>0. at["qualify"] \in Times /\ first \in Times /\ at["cleanup"] \in Times
  BY DEF TypeOK, Marks
<1> DEFINE S == Causal(at["qualify"])
<1>1. valid <=> Qualifies(first, at["qualify"])
  BY DEF StartInv, Decided, Judged
<1>2. first = 0 => S = {}
  BY DEF NothingOdd
<1>3. ASSUME first # 0 PROVE first \in S /\ Earliest(S) = first /\ S \in SUBSET Times /\ S # {}
  <2>1. IsFirst /\ first < at["qualify"]
    BY <1>3 DEF StartInv, FirstKept, Found, Judged
  <2>2. first \in S /\ S \in SUBSET Times
    BY <1>0, <2>1, CausalIs, TimesIs DEF IsFirst
  <2>3. Earliest(S) \in S /\ Earliest(S) <= first
    BY <2>2, EarliestIs
  <2>4. Earliest(S) \in Times /\ at["cleanup"] < Earliest(S) /\ record[Earliest(S)] # "none"
    BY <1>0, <2>2, <2>3, CausalIs
  <2>5. Earliest(S) = first
    BY <1>0, <2>1, <2>3, <2>4, TimesIs DEF IsFirst
  <2>6. QED
    BY <2>2, <2>5
<1>4. FirstIsCausal(at["qualify"])
  BY <1>2, <1>3 DEF FirstIsCausal
<1>5. first # 0 => record[first] \in Whole /\ (Reader = "summary" => Healthy(first, at["qualify"]))
  BY DEF NothingOdd
<1>6. ASSUME driver = "guard", first # 0 PROVE Newest(S) = first
  <2>1. \A u \in S : u = first
    BY <1>6 DEF NothingOdd
  <2>2. Newest(S) \in S
    BY <1>3, <1>6, NewestIs
  <2>3. QED
    BY <2>1, <2>2
<1>7. CASE Reader = "summary"
  <2>1. SummaryReplays(at["qualify"], valid)
    BY <1>1, <1>4, <1>5, <1>7 DEF SummaryReplays, Qualifies
  <2>2. QED
    BY <1>7, <2>1 DEF Replays
<1>8. CASE Reader = "deadline"
  <2>1. DeadlineReplays(at["qualify"], valid)
    BY <1>1, <1>4, <1>5 DEF DeadlineReplays, Qualifies
  <2>2. QED
    BY <1>8, <2>1 DEF Replays
<1>9. CASE Reader = "guard"
  <2>1. GuardReplays(at["qualify"], valid)
    BY <1>1, <1>4, <1>5, <1>6, <1>9, ReaderIs DEF GuardReplays, Qualifies
  <2>2. QED
    BY <1>9, <2>1 DEF Replays
<1>10. QED
  BY <1>7, <1>8, <1>9, ReaderIs

\* A stretch without a silence in which a complete sample lies is covered.
LEMMA CoveredIs ==
  ASSUME NEW s \in Nat, NEW t \in Nat, ~Silent(s, t), NEW f \in s .. t, record[f] \in Whole
  PROVE  Covered(s, t)
<1> DEFINE valid_timestamps == {u \in s .. t : record[u] \in Whole}
<1>1. f \in valid_timestamps
  OBVIOUS
<1>2. ASSUME NEW u \in {s} \cup valid_timestamps, ~(t - u <= Stale)
      PROVE  \E v \in valid_timestamps : u < v /\ v - u <= Stale
  <2>1. u \in s .. t /\ u + Stale < t
    BY <1>1, <1>2, Parameters
  <2>2. PICK v \in (u + 1) .. (u + Stale) : record[v] \in Whole
    BY <2>1 DEF Silent
  <2>3. v \in s .. t /\ u < v /\ v - u <= Stale
    BY <2>1, <2>2, Parameters
  <2>4. QED
    BY <2>2, <2>3
<1>3. QED
  BY <1>1, <1>2 DEF Covered

\* Nothing is written between the boundary and the release any more.
LEMMA SilenceWritten ==
  ASSUME TypeOK, TypeOK', Stamped, Write
  PROVE  Silent(at["boundary"], at["release"])' <=> Silent(at["boundary"], at["release"])
<1>0. /\ at["boundary"] \in Nat /\ at["release"] \in Nat /\ at["release"] \in Times /\ flying \in Times
      /\ at' = at /\ at["release"] < flying
      /\ \A u \in Times : u # flying => record'[u] = record[u]
  BY TimesIs DEF TypeOK, Marks, Write, Stamped
<1>1. \A u \in at["boundary"] .. at["release"] : u + Stale < at["release"] =>
        \A v \in (u + 1) .. (u + Stale) : v \in Times /\ v # flying
  BY <1>0, Parameters DEF Times
<1>2. \A u \in at["boundary"] .. at["release"] : u + Stale < at["release"] =>
        \A v \in (u + 1) .. (u + Stale) : record'[v] = record[v]
  BY <1>0, <1>1
<1>3. QED
  BY <1>0, <1>2 DEF Silent

LEMMA WatchedStep ==
  ASSUME TypeOK, TypeOK', StartInv, Watched, [Next]_vars
  PROVE  Watched'
<1> SUFFICES ASSUME pc' \in {"resume", "run", "collect"}, Reader' = "summary", ~odd'
             PROVE  ~Silent(at["boundary"], at["release"])' /\ ~hot'
  BY DEF Watched
<1>0. TypeOK /\ StartInv /\ Watched /\ [Next]_vars /\ pc' \in {"resume", "run", "collect"} /\ ~odd'
  OBVIOUS
<1>a. ASSUME pc \in {"resume", "run", "collect"}, UNCHANGED <<driver, record, hot, odd>>,
             at'["boundary"] = at["boundary"], at'["release"] = at["release"]
      PROVE  ~Silent(at["boundary"], at["release"])' /\ ~hot'
  BY <1>0, <1>a, ReaderSame DEF Watched, Silent
<1>1. CASE StartHeaters
  BY <1>1, <1>0 DEF StartHeaters
<1>2. CASE \E stable \in BOOLEAN, flaw \in Flaws : Check(stable, flaw)
  BY <1>2, <1>0 DEF Check
<1>3. CASE Boundary
  BY <1>3, <1>0 DEF Boundary
<1>4. CASE StopHeaters
  BY <1>4, <1>0 DEF StopHeaters
<1>5. CASE CleanupEnds
  BY <1>5, <1>0 DEF CleanupEnds
<1>6. CASE FindSample
  BY <1>6, <1>0 DEF FindSample
<1>7. CASE FindNone
  BY <1>7, <1>0 DEF FindNone
<1>8. CASE Qualify
  BY <1>8, <1>0 DEF Qualify
<1>9. CASE Result
  BY <1>9, <1>0 DEF Result, GiveUp, Retry, Abort
<1>10. CASE OpenBlock
  BY <1>10, <1>0 DEF OpenBlock
<1>11. CASE Release
  <2>1. Mark("release") /\ Happens(Unwatched(clock + 1)) /\ UNCHANGED <<driver, record, hot>>
    BY <1>11, <1>0 DEF Release, GiveUp, Retry, Abort, place, telemetry
  <2>2. at'["boundary"] = at["boundary"] /\ at'["release"] = clock + 1
    BY <1>0, <2>1, MarkIs DEF Marks
  <2>3. Reader = "summary"
    BY <2>1, ReaderSame
  <2>4. "sparse" \in Matters /\ "hot" \in Matters
    BY <1>0, <2>3, OddMatters
  <2>5. "sparse" \notin Unwatched(clock + 1) /\ "hot" \notin Unwatched(clock + 1)
    BY <1>0, <2>1, <2>4, OddNot
  <2>6. ~Silent(at["boundary"], clock + 1) /\ ~hot
    BY <2>5 DEF Unwatched
  <2>7. QED
    BY <2>1, <2>2, <2>6 DEF Silent
<1>12. CASE Resume
  <2>1. pc = "resume" /\ UNCHANGED <<driver, record, hot, odd>>
    BY <1>12 DEF Resume, place, telemetry
  <2>2. at'["boundary"] = at["boundary"] /\ at'["release"] = at["release"]
    BY <1>12, <1>0, MarkIs DEF Resume, Marks
  <2>3. QED
    BY <1>a, <2>1, <2>2
<1>13. CASE Begin
  <2>1. pc = "run" /\ UNCHANGED <<driver, record, hot, odd>>
    BY <1>13 DEF Begin, place, telemetry
  <2>2. at'["boundary"] = at["boundary"] /\ at'["release"] = at["release"]
    BY <1>13, <1>0 DEF Begin, Marks, TypeOK
  <2>3. QED
    BY <1>a, <2>1, <2>2
<1>14. CASE Collect
  BY <1>14, <1>0 DEF Collect, Accept, Reject, NextBlock, Abort
<1>15. CASE Gone
  BY <1>15, <1>0 DEF Gone, Raise, Abort
<1>16. CASE HeatTimesOut
  BY <1>16, <1>0 DEF HeatTimesOut, Raise, Abort
<1>17. CASE Raise
  BY <1>17, <1>0 DEF Raise, Abort
<1>18. CASE Dies
  <2>1. UNCHANGED <<pc, at, driver, record, hot, odd>>
    BY <1>18 DEF Dies, place, telemetry
  <2>2. QED
    BY <1>a, <1>0, <2>1
<1>19. CASE Stamp
  <2>1. UNCHANGED <<pc, at, driver, record, hot, odd>>
    BY <1>19 DEF Stamp, place
  <2>2. QED
    BY <1>a, <1>0, <2>1
<1>20. CASE Write
  <2>1. UNCHANGED <<pc, at, driver>>
    BY <1>20 DEF Write, place
  <2>2. ~odd
    BY <1>20, <1>0, WriteOdd DEF StartInv
  <2>3. ~Silent(at["boundary"], at["release"]) /\ ~hot
    BY <1>0, <2>1, <2>2, ReaderSame DEF Watched
  <2>4. at["release"] # 0
    <3>1. at["result"] < at["release"] /\ at["result"] \in Nat
      BY <1>0, <2>1, TimesIs DEF StartInv, Ordered, Released, Begun, TypeOK, Marks
    <3>2. QED
      BY <3>1
  <2>5. ~hot'
    BY <1>20, <2>3, <2>4 DEF Write
  <2>6. QED
    BY <1>20, <1>0, <2>3, <2>5, SilenceWritten DEF StartInv
<1>21. CASE TimePasses
  <2>1. UNCHANGED <<pc, at, driver, record, hot, odd>>
    BY <1>21 DEF TimePasses, place, telemetry
  <2>2. QED
    BY <1>a, <1>0, <2>1
<1>22. CASE UNCHANGED vars
  <2>1. UNCHANGED <<pc, at, driver, record, hot, odd>>
    BY <1>22 DEF vars, place, telemetry
  <2>2. QED
    BY <1>a, <1>0, <2>1
<1>23. QED
  BY <1>0, <1>1, <1>2, <1>3, <1>4, <1>5, <1>6, <1>7, <1>8, <1>9, <1>10, <1>11, <1>12,
      <1>13, <1>14, <1>15, <1>16, <1>17, <1>18, <1>19, <1>20, <1>21, <1>22 DEF Next, Driver, Stopped

\* The stretch is covered: the qualification's sample lies in it.
LEMMA StretchCovered ==
  ASSUME TypeOK, StartInv, Watched, pc = "collect", Reader = "summary", ~odd
  PROVE  Covered(at["boundary"], at["release"]) /\ ~hot
<1>1. \A m \in Marks : at[m] \in Nat
  BY TimesIs DEF TypeOK
<1>2. at["boundary"] < at["cleanup"] /\ at["result"] < at["release"]
  BY DEF StartInv, Ordered, Cleaned, Found, Judged, Released, Begun
<1>3. /\ first \in Nat /\ record[first] \in Whole
      /\ at["cleanup"] < first /\ first < at["qualify"] /\ at["qualify"] < at["result"]
  BY FirstIs, TimesIs DEF Approved, Whole
<1>4. first \in at["boundary"] .. at["release"]
  BY <1>1, <1>2, <1>3 DEF Marks
<1>5. ~Silent(at["boundary"], at["release"]) /\ ~hot
  BY DEF Watched
<1>6. QED
  BY <1>1, <1>3, <1>4, <1>5, CoveredIs DEF Marks

\* So is the start of a measurement.
LEMMA StartReplaysToo ==
  ASSUME TypeOK, StartInv, Watched, Collect, ~odd', pc' # "aborted"
  PROVE  /\ ~odd /\ ~Missed
         /\ StartReplays(at["begin"], LastSample, StartsWell(LastSample, at["begin"]))
         /\ refused' <=> refused
<1>1. PICK flaw \in {"none", "sick", "unread"} :
        /\ Happens({flaw} \cup (IF Missed THEN {"across"} ELSE {})
                     \cup (IF LastSample # 0 /\ record[LastSample] \notin Whole THEN {"bad"} ELSE {}))
        /\ refused' = (refused \/ flaw \in RunRefused \/ Missed
              \/ ~StartReplays(at["begin"], LastSample, StartsWell(LastSample, at["begin"])))
  BY DEF Collect
<1>2. ~odd
  BY <1>1, OddStays
<1>3. ~Missed
  BY <1>1, OddMatters DEF Happens
<1>4. flaw \notin RunRefused
  BY <1>1, OddMatters DEF Happens
<1>5. LastSample # 0 => record[LastSample] \in Whole
  BY <1>1, OddMatters DEF Happens
<1>6. first \in Samples(at["cleanup"], at["begin"])
  BY FirstBeforeStart DEF Collect, Begun
<1>7. LastSample # 0 /\ LastSample = Newest(Samples(at["cleanup"], at["begin"]))
  BY <1>6, LastSampleIs
<1>8. Reader # "guard" => Healthy(LastSample, at["begin"])
  BY ReaderIs DEF Collect, Reject, Abort, Verdict, StartsWell
<1>9. StartReplays(at["begin"], LastSample, StartsWell(LastSample, at["begin"]))
  <2>1. LastBefore(at["begin"], LastSample)
    BY <1>5, <1>6, <1>7 DEF LastBefore
  <2>2. CASE Reader = "guard"
    BY <2>1, <2>2 DEF StartReplays, GuardReplaysStart
  <2>3. CASE Reader = "summary"
    <3>1. Covered(at["boundary"], at["release"]) /\ ~hot
      BY <1>2, <2>3, StretchCovered DEF Collect
    <3>2. QED
      BY <2>1, <2>3, <3>1, <1>8 DEF StartReplays, SummaryReplaysStart
  <2>4. CASE Reader = "deadline"
    BY <2>1, <2>4, <1>8 DEF StartReplays, DeadlineReplaysStart
  <2>5. QED
    BY <2>2, <2>3, <2>4, ReaderIs
<1>10. refused' <=> refused
  BY <1>1, <1>3, <1>4, <1>9
<1>11. QED
  BY <1>2, <1>3, <1>9, <1>10

LEMMA ReplayStep ==
  ASSUME TypeOK, TypeOK', StartInv, NothingOdd, Watched, ReplayInv, [Next]_vars
  PROVE  ReplayInv'
<1> SUFFICES ASSUME pc' # "aborted", ~odd' PROVE ~refused'
  BY DEF ReplayInv
<1>0. TypeOK /\ StartInv /\ NothingOdd /\ Watched /\ ReplayInv /\ [Next]_vars /\ pc' # "aborted" /\ ~odd'
  OBVIOUS
<1>1. CASE StartHeaters
  <2>1. UNCHANGED <<odd, refused>> /\ pc # "aborted"
    BY <1>1 DEF StartHeaters
  <2>2. QED
    BY <1>0, <2>1 DEF ReplayInv
<1>2. CASE \E stable \in BOOLEAN, flaw \in Flaws : Check(stable, flaw)
  <2>1. PICK stable \in BOOLEAN, flaw \in Flaws : Check(stable, flaw)
    BY <1>2
  <2>2. pc = "heat" /\ Happens({flaw}) /\ refused' = (refused \/ flaw \in HeatRefused)
    BY <2>1 DEF Check
  <2>3. ~odd /\ flaw \notin Matters
    BY <1>0, <2>2, OddStays, OddNot
  <2>4. flaw \notin HeatRefused
    BY <1>0, <2>3, OddMatters
  <2>5. ~refused
    BY <1>0, <2>2, <2>3 DEF ReplayInv
  <2>6. QED
    BY <2>2, <2>4, <2>5
<1>3. CASE Boundary
  <2>1. PICK flaw \in (Flaws \ {"short"}) \cup {"late"} :
          Happens({flaw}) /\ refused' = (refused \/ flaw \in HeatRefused)
    BY <1>3 DEF Boundary
  <2>2. ~odd /\ flaw \notin Matters
    BY <1>0, <2>1, OddStays, OddNot
  <2>3. flaw \notin HeatRefused
    BY <1>0, <2>2, OddMatters
  <2>4. ~refused
    BY <1>3, <1>0, <2>2 DEF ReplayInv, Boundary
  <2>5. QED
    BY <2>1, <2>3, <2>4
<1>4. CASE StopHeaters
  <2>1. UNCHANGED <<odd, refused>> /\ pc # "aborted"
    BY <1>4 DEF StopHeaters
  <2>2. QED
    BY <1>0, <2>1 DEF ReplayInv
<1>5. CASE CleanupEnds
  <2>1. UNCHANGED <<odd, refused>> /\ pc # "aborted"
    BY <1>5 DEF CleanupEnds
  <2>2. QED
    BY <1>0, <2>1 DEF ReplayInv
<1>6. CASE FindSample
  <2>1. UNCHANGED <<odd, refused>> /\ pc # "aborted"
    BY <1>6 DEF FindSample
  <2>2. QED
    BY <1>0, <2>1 DEF ReplayInv
<1>7. CASE FindNone
  <2>1. UNCHANGED <<odd, refused>> /\ pc # "aborted"
    BY <1>7 DEF FindNone
  <2>2. QED
    BY <1>0, <2>1 DEF ReplayInv
<1>8. CASE Qualify
  <2>1. ~odd /\ refused' = refused
    BY <1>8, <1>0, OddStays DEF Qualify
  <2>2. pc # "aborted"
    BY <1>8, <1>0 DEF Qualify
  <2>3. QED
    BY <1>0, <2>1, <2>2 DEF ReplayInv
<1>9. CASE Result
  <2>1. pc = "result" /\ odd' = odd /\ refused' = (refused \/ ~Replays(at["qualify"], valid))
    BY <1>9 DEF Result
  <2>2. Replays(at["qualify"], valid)
    BY <1>0, <2>1, ResultReplays
  <2>3. ~refused
    BY <1>0, <2>1 DEF ReplayInv
  <2>4. QED
    BY <2>1, <2>2, <2>3
<1>10. CASE OpenBlock
  <2>1. UNCHANGED <<odd, refused>> /\ pc # "aborted"
    BY <1>10 DEF OpenBlock
  <2>2. QED
    BY <1>0, <2>1 DEF ReplayInv
<1>11. CASE Release
  <2>1. ~odd /\ refused' = refused /\ pc # "aborted"
    BY <1>11, <1>0, OddStays DEF Release
  <2>2. QED
    BY <1>0, <2>1 DEF ReplayInv
<1>12. CASE Resume
  <2>1. UNCHANGED <<odd, refused>> /\ pc # "aborted"
    BY <1>12 DEF Resume
  <2>2. QED
    BY <1>0, <2>1 DEF ReplayInv
<1>13. CASE Begin
  <2>1. UNCHANGED <<odd, refused>> /\ pc # "aborted"
    BY <1>13 DEF Begin
  <2>2. QED
    BY <1>0, <2>1 DEF ReplayInv
<1>14. CASE Collect
  <2>1. ~odd /\ (refused' <=> refused)
    BY <1>14, <1>0, StartReplaysToo
  <2>2. pc # "aborted"
    BY <1>14 DEF Collect
  <2>3. QED
    BY <1>0, <2>1, <2>2 DEF ReplayInv
<1>15. CASE Gone
  BY <1>15, <1>0 DEF Gone, Raise, Abort
<1>16. CASE HeatTimesOut
  BY <1>16, <1>0 DEF HeatTimesOut, Raise, Abort
<1>17. CASE Raise
  BY <1>17, <1>0 DEF Raise, Abort
<1>18. CASE Dies
  <2>1. UNCHANGED <<odd, refused>> /\ pc # "aborted"
    BY <1>18 DEF Dies, Over
  <2>2. QED
    BY <1>0, <2>1 DEF ReplayInv
<1>19. CASE Stamp
  <2>1. UNCHANGED <<odd, refused>> /\ pc # "aborted"
    BY <1>19 DEF Stamp, Timed
  <2>2. QED
    BY <1>0, <2>1 DEF ReplayInv
<1>20. CASE Write
  <2>1. PICK flaw : Happens({flaw} \cup Seems) /\ refused' = (refused \/ SampleRefused(flaw))
    BY <1>20 DEF Write
  <2>2. ~odd /\ flaw \notin Matters
    BY <1>0, <2>1, OddStays, OddNot
  <2>3. ~SampleRefused(flaw)
    BY <1>0, <2>2, OddMatters DEF SampleRefused
  <2>4. pc # "aborted"
    BY <1>20, <1>0 DEF Write
  <2>5. QED
    BY <1>0, <2>1, <2>2, <2>3, <2>4 DEF ReplayInv
<1>21. CASE TimePasses
  <2>1. UNCHANGED <<odd, refused>> /\ pc # "aborted"
    BY <1>21 DEF TimePasses, Timed
  <2>2. QED
    BY <1>0, <2>1 DEF ReplayInv
<1>22. CASE UNCHANGED vars
  BY <1>22, <1>0 DEF ReplayInv, vars
<1>23. QED
  BY <1>0, <1>1, <1>2, <1>3, <1>4, <1>5, <1>6, <1>7, <1>8, <1>9, <1>10, <1>11, <1>12,
      <1>13, <1>14, <1>15, <1>16, <1>17, <1>18, <1>19, <1>20, <1>21, <1>22 DEF Next, Driver, Stopped

\* The offline replay agrees with the run: a record that the driver accepted is refused
\* by its reader only after something that Matters to it names.
THEOREM ReplayAgrees == Spec => []ReplayAccepts
<1>1. Init => NothingOdd /\ Watched /\ ReplayInv
  BY DEF Init, NothingOdd, Watched, ReplayInv
<1>2. TypeOK /\ StartInv /\ NothingOdd /\ Watched /\ ReplayInv /\ [Next]_vars
        => (NothingOdd /\ Watched /\ ReplayInv)'
  BY StepTyped, NothingOddStep, WatchedStep, ReplayStep
<1>3. ReplayInv => ReplayAccepts
  BY DEF ReplayInv, ReplayAccepts
<1>4. QED
  BY <1>1, <1>2, <1>3, StartInvKept, PTL DEF Spec

=============================================================================
