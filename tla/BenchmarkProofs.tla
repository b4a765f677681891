---------------------------- MODULE BenchmarkProofs ----------------------------
(***************************************************************************)
(* Theorems about Benchmark, for any levels of concurrency, rounds and     *)
(* batch sizes, any policy and any sweeps.                                 *)
(***************************************************************************)
EXTENDS Benchmark, FiniteSetTheorems, TLAPS

MainSteps == {"warmup", "read_before", "submit", "barrier", "waiting", "collect", "read_after",
              "report", "plan", "ended", "raised"}
Underway == {"released", "sent", "answered"} \union Answers
Places == {"none", "queued", "waiting"} \union Underway

(* The main thread's place, the level and the tasks.                       *)
TypeInv ==
    /\ main \in MainSteps
    /\ level \in DOMAIN Levels
    /\ task \in [Slots -> Places]

(* Tasks are there only while the main thread submits, waits or collects,  *)
(* on the near side of the barrier before it opens and beyond it after.    *)
BurstInv ==
    /\ main \in {"barrier", "waiting"} => \A s \in Burst : task[s] \in {"queued", "waiting"}
    /\ main = "collect" => \A s \in Burst : task[s] \in Underway
    /\ main \notin {"barrier", "waiting", "collect"} => \A s \in Slots : task[s] = "none"
    /\ \A s \in Slots \ Burst : task[s] = "none"

LEMMA BurstIsFinite ==
    ASSUME TypeInv
    PROVE  /\ Concurrency \in Slots /\ Burst \subseteq Slots
           /\ IsFiniteSet(Burst) /\ Cardinality(Burst) = Concurrency
<1>1. Concurrency \in Slots
  BY BenchmarkArguments DEF TypeInv, Concurrency
<1>2. Concurrency \in Int /\ 1 \in Int /\ ~(1 > Concurrency) /\ Concurrency - 1 + 1 = Concurrency
  BY <1>1 DEF Slots
<1>3. IsFiniteSet(1..Concurrency)
      /\ Cardinality(1..Concurrency) = IF 1 > Concurrency THEN 0 ELSE Concurrency - 1 + 1
  BY <1>2, FS_Interval, Zenon
<1>4. Burst \subseteq Slots
  BY <1>1 DEF Burst, Slots
<1> QED BY <1>1, <1>2, <1>3, <1>4 DEF Burst

(* The barrier opens when the main thread and every task of the burst wait. *)
LEMMA BarrierTakesAll ==
    ASSUME TypeInv, BarrierOpens
    PROVE  main = "waiting" /\ \A s \in Burst : task[s] = "waiting"
<1> DEFINE waiting == TasksAt({"waiting"})
<1>1. waiting \subseteq Burst
  BY DEF TasksAt
<1>2. /\ IsFiniteSet(waiting) /\ Cardinality(waiting) \in Nat
      /\ Cardinality(waiting) <= Concurrency
      /\ Cardinality(waiting) = Concurrency => waiting = Burst
  BY <1>1, BurstIsFinite, FS_Subset, FS_CardinalityType
<1>3. Cardinality(waiting) + (IF main = "waiting" THEN 1 ELSE 0) = Concurrency + 1
  BY DEF BarrierOpens, Parties
<1>4. Concurrency \in Int
  BY BurstIsFinite DEF Slots
<1>5. main = "waiting" /\ Cardinality(waiting) = Concurrency
  BY <1>2, <1>3, <1>4
<1>6. waiting = Burst
  BY <1>2, <1>5
<1> QED BY <1>5, <1>6 DEF TasksAt

LEMMA BurstIsInductive == Spec => [](TypeInv /\ BurstInv)
<1>1. Init => TypeInv /\ BurstInv
  BY BenchmarkArguments DEF Init, TypeInv, BurstInv, MainSteps, Places
<1>2. TypeInv /\ BurstInv /\ [Next]_vars => (TypeInv /\ BurstInv)'
  <2> SUFFICES ASSUME TypeInv, BurstInv, [Next]_vars PROVE (TypeInv /\ BurstInv)'
    OBVIOUS
  <2> USE DEF TypeInv, BurstInv
  <2>0. Concurrency \in Slots /\ Burst \subseteq Slots
    BY BurstIsFinite
  <2>1. CASE Warmup \/ Raises \/ ReadBefore \/ WriteReport \/ \E csv \in Sweeps : Plan(csv)
    BY <2>1 DEF Warmup, Raises, ReadBefore, WriteReport, Plan, MainSteps, Burst, Concurrency
  <2>2. CASE Submit
    BY <2>0, <2>2 DEF Submit, MainSteps, Places, Burst, Concurrency
  <2>3. CASE MainArrives
    BY <2>3 DEF MainArrives, MainSteps, Burst, Concurrency
  <2>4. CASE BarrierOpens
    <3>1. main = "waiting" /\ \A s \in Burst : task[s] = "waiting"
      BY <2>4, BarrierTakesAll
    <3>2. TypeInv'
      BY <2>4 DEF BarrierOpens, MainSteps, Underway, Places
    <3>3. \A s \in Burst' : task'[s] = "released"
      BY <2>0, <2>4, <3>1 DEF BarrierOpens, Burst, Concurrency
    <3>4. \A s \in (Slots \ Burst)' : task'[s] = "none"
      BY <2>4 DEF BarrierOpens, Burst, Concurrency
    <3> QED BY <2>4, <3>2, <3>3, <3>4 DEF BarrierOpens, Underway
  <2>5. CASE Collect
    BY <2>5 DEF Collect, EndOfRound, MainSteps, Places, Burst, Concurrency
  <2>6. CASE ReadAfter
    <3>1. level' \in DOMAIN Levels
      <4>1. Levels \in Seq(Slots) /\ level \in 1..Len(Levels) /\ DOMAIN Levels = 1..Len(Levels)
        BY BenchmarkArguments
      <4> QED BY <2>6, <4>1 DEF ReadAfter
    <3>2. \A s \in Slots : task'[s] = "none"
      BY <2>6 DEF ReadAfter
    <3> QED BY <2>6, <3>1, <3>2 DEF ReadAfter, MainSteps
  <2>7. CASE ServerExecutes
    <3>1. task' \in [Slots -> Places] /\ UNCHANGED <<main, level>>
      BY <2>7 DEF ServerExecutes, Underway, Places
    <3>2. \A s \in Slots : \/ task'[s] = task[s]
                           \/ s \in Burst /\ task[s] = "sent" /\ task'[s] = "answered"
      BY <2>7 DEF ServerExecutes, TasksAt
    <3> QED BY <2>0, <3>1, <3>2 DEF Underway, Burst, Concurrency
  <2>8. ASSUME NEW s \in Slots, TaskStep(s) PROVE (TypeInv /\ BurstInv)'
    <3>1. task' \in [Slots -> Places] /\ UNCHANGED <<main, level>>
      BY <2>8 DEF TaskStep, TaskArrives, Send, Infer, Underway, Places
    <3>2. \A t \in Slots : \/ task'[t] = task[t]
                           \/ task[t] = "queued" /\ task'[t] = "waiting"
                           \/ task[t] \in {"released", "sent", "answered"} /\ task'[t] \in Underway
      BY <2>8 DEF TaskStep, TaskArrives, Send, Infer, Underway
    <3> QED BY <2>0, <3>1, <3>2 DEF Underway, Answers, Burst, Concurrency
  <2>9. CASE UNCHANGED vars
    BY <2>9 DEF vars, Burst, Concurrency
  <2> QED BY <2>1, <2>2, <2>3, <2>4, <2>5, <2>6, <2>7, <2>8, <2>9 DEF Next, MainStep
<1>3. QED
  BY <1>1, <1>2, PTL DEF Spec

(* No request of a burst is under way before all its tasks are ready: the   *)
(* barrier of the pool's threads and the main one (line 191).              *)
THEOREM BurstsSynchronize == Spec => []BurstsAreSynchronized
<1>1. TypeInv /\ BurstInv => BurstsAreSynchronized
  <2> SUFFICES ASSUME TypeInv, BurstInv,
                      NEW s \in Burst, task[s] \in Underway,
                      NEW t \in Burst, task[t] \in {"queued", "waiting"}
               PROVE  FALSE
    BY DEF BurstsAreSynchronized, TasksAt, Underway
  <2>1. s \in Slots /\ t \in Slots
    BY BurstIsFinite
  <2> QED BY <2>1 DEF BurstInv, Underway, Answers
<1>2. QED
  BY <1>1, BurstIsInductive, PTL

-----------------------------------------------------------------------------
Counters == [inferences : Int, execs : Int]
Scenarios ==
    [concurrency : Slots, requestBatch : Nat, requests : Int, failures : Nat, maxError : Int,
     parity : {"PASS", "FAIL"}, inferences : Int, execs : Int]

DataInv ==
    /\ counters \in Counters /\ before \in Counters
    /\ late \in Nat
    /\ results \in [failed : Nat, wrong : BOOLEAN, first : {"none"} \union Answers]
    /\ scenarios \in Seq(Scenarios)
    /\ DOMAIN history = {"largest", "bad"}

(* Steps between reading the counters before a level and after it, and the *)
(* place of a main thread that the second reading raised in.               *)
InLevel == {"submit", "barrier", "waiting", "collect", "read_after", "raised"}

SomeScenarioFails == \E i \in DOMAIN scenarios : scenarios[i].parity = "FAIL"
ResultsAreBad == results.wrong \/ results.failed > 0
Worse == {"wrong", "failed"}
AnswersAreBad == \E s \in Burst : task[s] \in Worse

(* An answer that failed or was wrong stays with its task until the round   *)
(* is collected, then counts in the level's results until they become a    *)
(* scenario, which fails, and with it the report and plan.                 *)
EvidenceInv ==
    /\ history.bad \subseteq {"nan"} \union Worse
    /\ history.bad \intersect Worse # {} =>
            \/ SomeScenarioFails
            \/ main \in InLevel /\ ResultsAreBad
            \/ main = "collect" /\ AnswersAreBad
    /\ main = "plan" /\ report.status = "PASS" => ~SomeScenarioFails
    /\ main # "ended" => plan = NoPlan
    /\ plan.status = "PASS" => history.bad \intersect Worse = {}

LEMMA ExecuteKeepsCounters ==
    ASSUME DataInv, NEW batch \in Nat, Execute(batch)
    PROVE  counters' \in Counters
<1>1. RequestBatch \in Nat
  BY BenchmarkArguments
<1>2. batch * RequestBatch \in Int
  BY <1>1
<1> QED BY <1>2 DEF DataInv, Execute, Counters

LEMMA ScenarioIsWellFormed ==
    ASSUME TypeInv, DataInv
    PROVE  /\ Scenario \in Scenarios
           /\ ResultsAreBad => Scenario.parity = "FAIL"
<1>1. Concurrency \in Slots /\ Concurrency \in Int
  BY BurstIsFinite DEF Slots
<1>2. RequestBatch \in Nat /\ Rounds \in Int /\ Policy.maxError + 1 \in Int
  BY BenchmarkArguments, CapacityPolicy
<1>3. Rounds * Concurrency \in Int
  BY <1>1, <1>2
<1>4. results.failed \in Nat
  BY DEF DataInv
<1>5. ParityStatus \in {"PASS", "FAIL"} /\ (ResultsAreBad => ParityStatus = "FAIL")
  BY <1>4 DEF ParityStatus, ParityHolds, ResultsAreBad
<1>6. (IF ParityHolds THEN 0 ELSE Policy.maxError + 1) \in Int
  BY <1>2
<1> QED BY <1>1, <1>2, <1>3, <1>4, <1>5, <1>6 DEF Scenario, Scenarios, DataInv, Counters

LEMMA FirstSuccessIsAnAnswer ==
    ASSUME TypeInv, results.first \in {"none"} \union Answers
    PROVE  FirstSuccess \in {"none"} \union Answers
<1> DEFINE successful == TasksAt(Answers \ {"failed"})
<1>1. SUFFICES ASSUME successful # {} PROVE task[Min(successful)] \in Answers
  BY DEF FirstSuccess
<1>2. successful \in SUBSET Burst /\ Burst \subseteq Nat
  BY DEF TasksAt, Burst
<1>3. PICK least \in successful : \A s \in successful : ~(<<s, least>> \in OpToRel(<, Nat))
  BY <1>1, <1>2, WFMin, NatLessThanWellFounded
<1>4. ASSUME NEW s \in successful PROVE least <= s
  <2>1. s \in Nat /\ least \in Nat
    BY <1>2
  <2>2. s < least => <<s, least>> \in OpToRel(<, Nat)
    BY <2>1 DEF OpToRel
  <2>3. ~(s < least)
    BY <1>3, <2>2, Zenon
  <2> QED BY <2>1, <2>3
<1>5. Min(successful) \in successful
  BY <1>4 DEF Min
<1> QED BY <1>5 DEF TasksAt

LEMMA DataIsInductive == Spec => []DataInv
<1>1. Init => DataInv
  BY DEF Init, DataInv, Counters, NoAnswers
<1>2. TypeInv /\ DataInv /\ [Next]_vars => DataInv'
  <2> SUFFICES ASSUME TypeInv, DataInv, [Next]_vars PROVE DataInv'
    OBVIOUS
  <2>1. CASE Warmup
    <3>1. counters' \in Counters
      BY <2>1, ExecuteKeepsCounters DEF Warmup
    <3> QED BY <2>1, <3>1 DEF Warmup, DataInv
  <2>2. CASE Raises \/ Submit \/ MainArrives \/ BarrierOpens \/ WriteReport \/ \E csv \in Sweeps : Plan(csv)
    BY <2>2 DEF Raises, Submit, MainArrives, BarrierOpens, WriteReport, Plan, DataInv
  <2>9. CASE Collect
    <3>1. Cardinality(TasksAt({"failed"})) \in Nat
      <4>1. TasksAt({"failed"}) \in SUBSET Burst
        BY DEF TasksAt
      <4> QED BY <4>1, BurstIsFinite, FS_Subset, FS_CardinalityType
    <3>2. FirstSuccess \in {"none"} \union Answers
      BY <2>9, FirstSuccessIsAnAnswer DEF DataInv
    <3> QED BY <2>9, <3>1, <3>2 DEF Collect, EndOfRound, DataInv
  <2>3. CASE ReadBefore
    BY <2>3 DEF ReadBefore, DataInv, NoAnswers
  <2>4. CASE ReadAfter
    <3>1. scenarios' \in Seq(Scenarios)
      BY <2>4, ScenarioIsWellFormed DEF ReadAfter, DataInv
    <3> QED BY <2>4, <3>1 DEF ReadAfter, DataInv
  <2>5. CASE ServerExecutes
    <3>1. PICK requests \in SUBSET TasksAt({"sent"}), abandoned \in 0..late :
             /\ Execute(Cardinality(requests) + abandoned)
             /\ late' = late - abandoned
      BY <2>5 DEF ServerExecutes
    <3>2. Cardinality(requests) \in Nat
      <4>1. requests \in SUBSET Burst
        BY DEF TasksAt
      <4> QED BY <4>1, BurstIsFinite, FS_Subset, FS_CardinalityType
    <3>3. Cardinality(requests) + abandoned \in Nat /\ late' \in Nat
      BY <3>1, <3>2 DEF DataInv
    <3>4. counters' \in Counters
      BY <3>1, <3>3, ExecuteKeepsCounters
    <3>5. DOMAIN history' = DOMAIN history /\ history'.bad = history.bad
      BY <2>5 DEF ServerExecutes, DataInv
    <3> QED BY <2>5, <3>3, <3>4, <3>5 DEF ServerExecutes, DataInv
  <2>6. ASSUME NEW s \in Slots, TaskArrives(s) \/ Send(s) PROVE DataInv'
    BY <2>6 DEF TaskArrives, Send, DataInv
  <2>7. ASSUME NEW s \in Slots, NEW answer \in Answers, Infer(s, answer) PROVE DataInv'
    <3>1. late' \in Nat
      BY <2>7, BenchmarkArguments DEF Infer, DataInv
    <3>2. DOMAIN history' = DOMAIN history
      BY <2>7 DEF Infer, DataInv
    <3> QED BY <2>7, <3>1, <3>2 DEF Infer, DataInv
  <2>8. CASE UNCHANGED vars
    BY <2>8 DEF vars, DataInv
  <2> QED BY <2>1, <2>2, <2>3, <2>4, <2>5, <2>6, <2>7, <2>8, <2>9 DEF Next, MainStep, TaskStep
<1>3. QED
  BY <1>1, <1>2, BurstIsInductive, PTL DEF Spec

LEMMA EvidenceIsInductive == Spec => []EvidenceInv
<1>1. Init => EvidenceInv
  BY DEF Init, EvidenceInv, NoPlan
<1>2. TypeInv /\ BurstInv /\ DataInv /\ EvidenceInv /\ [Next]_vars => EvidenceInv'
  <2> SUFFICES ASSUME TypeInv, BurstInv, DataInv, EvidenceInv, [Next]_vars PROVE EvidenceInv'
    OBVIOUS
  <2> USE DEF EvidenceInv, SomeScenarioFails, InLevel
  <2>1. CASE Warmup \/ Raises \/ ReadBefore
    BY <2>1 DEF Warmup, Raises, ReadBefore, ResultsAreBad
  <2>2. CASE Submit \/ MainArrives
    BY <2>2 DEF Submit, MainArrives, ResultsAreBad
  <2>3. CASE BarrierOpens
    <3>1. main = "waiting"
      BY <2>3, BarrierTakesAll
    <3> QED BY <2>3, <3>1 DEF BarrierOpens, ResultsAreBad
  <2>4. CASE Collect
    <3>1. main = "collect" /\ main' \in {"submit", "read_after"}
          /\ UNCHANGED <<history, scenarios, report, plan>>
      BY <2>4 DEF Collect, EndOfRound
    <3>2. AnswersAreBad => ResultsAreBad'
      <4> SUFFICES ASSUME NEW s \in Burst, task[s] \in Worse PROVE ResultsAreBad'
        BY DEF AnswersAreBad
      <4>1. CASE task[s] = "wrong"
        BY <2>4, <4>1 DEF Collect, TasksAt, ResultsAreBad
      <4>2. CASE task[s] = "failed"
        <5>1. TasksAt({"failed"}) \in SUBSET Burst /\ s \in TasksAt({"failed"})
          BY <4>2 DEF TasksAt
        <5>2. Cardinality(TasksAt({"failed"})) \in Nat /\ Cardinality(TasksAt({"failed"})) # 0
          BY <5>1, BurstIsFinite, FS_Subset, FS_CardinalityType, FS_EmptySet
        <5>3. results'.failed = results.failed + Cardinality(TasksAt({"failed"}))
          BY <2>4 DEF Collect
        <5> QED BY <5>2, <5>3 DEF DataInv, ResultsAreBad
      <4> QED BY <4>1, <4>2 DEF Worse
    <3>3. ResultsAreBad => ResultsAreBad'
      <4>1. Cardinality(TasksAt({"failed"})) \in Nat
        <5>1. TasksAt({"failed"}) \in SUBSET Burst
          BY DEF TasksAt
        <5> QED BY <5>1, BurstIsFinite, FS_Subset, FS_CardinalityType
      <4>2. /\ results'.failed = results.failed + Cardinality(TasksAt({"failed"}))
            /\ results.wrong => results'.wrong
        BY <2>4 DEF Collect
      <4> QED BY <4>1, <4>2 DEF DataInv, ResultsAreBad
    <3> QED BY <3>1, <3>2, <3>3
  <2>5. CASE ReadAfter
    <3>1. /\ Len(scenarios') = Len(scenarios) + 1 /\ Len(scenarios) \in Nat
          /\ DOMAIN scenarios = 1..Len(scenarios) /\ DOMAIN scenarios' = 1..Len(scenarios')
          /\ \A i \in DOMAIN scenarios : scenarios'[i] = scenarios[i]
          /\ scenarios'[Len(scenarios')] = Scenario
      BY <2>5, ScenarioIsWellFormed DEF ReadAfter, DataInv
    <3>2. history.bad \intersect Worse # {} => SomeScenarioFails'
      <4>1. CASE SomeScenarioFails
        BY <3>1, <4>1
      <4>2. CASE ResultsAreBad
        <5>1. Scenario.parity = "FAIL"
          BY <4>2, ScenarioIsWellFormed
        <5> QED BY <3>1, <5>1
      <4> QED BY <2>5, <4>1, <4>2 DEF ReadAfter
    <3> QED BY <2>5, <3>2 DEF ReadAfter
  <2>6. CASE WriteReport
    BY <2>6 DEF WriteReport
  <2>7. ASSUME NEW csv \in Sweeps, Plan(csv) PROVE EvidenceInv'
    <3>1. plan'.status = "PASS" => report.status = "PASS"
      BY <2>7 DEF Plan, BuildCapacityPlan, Status
    <3> QED BY <2>7, <3>1 DEF Plan
  <2>8. CASE ServerExecutes
    <3>1. history'.bad = history.bad
      BY <2>8 DEF ServerExecutes, DataInv
    <3>2. AnswersAreBad => AnswersAreBad'
      BY <2>8, BurstIsFinite DEF ServerExecutes, AnswersAreBad, TasksAt, Worse, Burst, Concurrency, TypeInv
    <3> QED BY <2>8, <3>1, <3>2 DEF ServerExecutes, ResultsAreBad
  <2>9. ASSUME NEW s \in Slots, TaskArrives(s) \/ Send(s) PROVE EvidenceInv'
    <3>1. AnswersAreBad => AnswersAreBad'
      BY <2>9, BurstIsFinite DEF TaskArrives, Send, AnswersAreBad, Worse, Burst, Concurrency, TypeInv
    <3> QED BY <2>9, <3>1 DEF TaskArrives, Send, ResultsAreBad
  <2>10. ASSUME NEW s \in Slots, NEW answer \in Answers, Infer(s, answer) PROVE EvidenceInv'
    <3>1. s \in Burst /\ main = "collect"
      BY <2>10, BurstIsFinite DEF Infer, BurstInv
    <3>2. history'.bad = history.bad \union ({answer} \ {"right"})
      BY <2>10 DEF Infer, DataInv
    <3>3. UNCHANGED <<main, level, results, scenarios, report, plan>> /\ task' = [task EXCEPT ![s] = answer]
      BY <2>10 DEF Infer
    <3>4. task[s] \notin Worse /\ Burst' = Burst /\ Burst \subseteq Slots
      BY <2>10, <3>3, BurstIsFinite DEF Infer, Worse, Burst, Concurrency
    <3>5. answer \in Worse => AnswersAreBad'
      BY <3>1, <3>3, <3>4 DEF AnswersAreBad, TypeInv
    <3>6. AnswersAreBad => AnswersAreBad'
      BY <3>3, <3>4 DEF AnswersAreBad, TypeInv
    <3>7. plan.status # "PASS"
      BY <3>1 DEF NoPlan
    <3> QED BY <3>1, <3>2, <3>3, <3>5, <3>6, <3>7 DEF Answers, Worse, ResultsAreBad
  <2>11. CASE UNCHANGED vars
    BY <2>11 DEF vars, ResultsAreBad, AnswersAreBad, Burst, Concurrency
  <2> QED BY <2>1, <2>2, <2>3, <2>4, <2>5, <2>6, <2>7, <2>8, <2>9, <2>10, <2>11
          DEF Next, MainStep, TaskStep
<1>3. QED
  BY <1>1, <1>2, BurstIsInductive, DataIsInductive, PTL DEF Spec

(* A plan that passes rests on no answer that failed or was seen to be      *)
(* wrong, at any level: a failure recorded without an error, and an error   *)
(* above the tolerance, each fail the level's parity (lines 227 and 246).   *)
(* What is not shown is that every answer was a number: max may drop a NaN. *)
THEOREM PassesOnAnswersNotSeenBad == Spec => []PassMeansNoBadAnswerSeen
<1>1. EvidenceInv => PassMeansNoBadAnswerSeen
  BY DEF EvidenceInv, PassMeansNoBadAnswerSeen
<1>2. QED
  BY <1>1, EvidenceIsInductive, PTL

-----------------------------------------------------------------------------
(* What the plan is built from: the report's scenarios and a sweep.        *)

PlanInv ==
    /\ report.scenarios = scenarios \/ main \notin {"plan", "ended"}
    /\ main # "ended" => plan = NoPlan
    /\ \/ plan = NoPlan
       \/ /\ sweep \in Sweeps
          /\ plan = BuildCapacityPlan(report, NormalizeRows(sweep))

LEMMA PlanIsInductive == Spec => []PlanInv
<1>1. Init => PlanInv
  BY DEF Init, PlanInv
<1>2. TypeInv /\ BurstInv /\ PlanInv /\ [Next]_vars => PlanInv'
  <2> SUFFICES ASSUME TypeInv, BurstInv, PlanInv, [Next]_vars PROVE PlanInv'
    OBVIOUS
  <2> USE DEF PlanInv
  <2>1. CASE Warmup \/ Raises \/ ReadBefore \/ Submit \/ MainArrives \/ Collect \/ ReadAfter
    BY <2>1 DEF Warmup, Raises, ReadBefore, Submit, MainArrives, Collect, EndOfRound, ReadAfter
  <2>2. CASE BarrierOpens
    BY <2>2, BarrierTakesAll DEF BarrierOpens
  <2>3. CASE WriteReport
    BY <2>3 DEF WriteReport
  <2>4. ASSUME NEW csv \in Sweeps, Plan(csv) PROVE PlanInv'
    BY <2>4 DEF Plan
  <2>5. CASE ServerExecutes
    BY <2>5 DEF ServerExecutes
  <2>6. ASSUME NEW s \in Slots, TaskStep(s) PROVE PlanInv'
    BY <2>6 DEF TaskStep, TaskArrives, Send, Infer
  <2>7. CASE UNCHANGED vars
    BY <2>7 DEF vars
  <2> QED BY <2>1, <2>2, <2>3, <2>4, <2>5, <2>6, <2>7 DEF Next, MainStep
<1>3. QED
  BY <1>1, <1>2, BurstIsInductive, PTL DEF Spec

(* Rows keep their places when they are normalized, so a sweep of them has  *)
(* finitely many that pass.                                                *)
LEMMA PassingRowsAreFinite ==
    ASSUME NEW csv \in Sweeps
    PROVE  LET rows == NormalizeRows(NormalizeRows(csv))
           IN  /\ DOMAIN rows = DOMAIN csv
               /\ IsFiniteSet(PassingRows(rows)) /\ Cardinality(PassingRows(rows)) \in Nat
<1> DEFINE rows == NormalizeRows(NormalizeRows(csv))
<1>1. DOMAIN rows = DOMAIN csv
  BY DEF NormalizeRows
<1>2. PassingRows(rows) \in SUBSET DOMAIN csv
  BY <1>1 DEF PassingRows
<1>3. IsFiniteSet(DOMAIN csv)
  <2>1. DOMAIN csv = 1..Len(csv) /\ Len(csv) \in Nat
    BY SweepRows
  <2>2. IsFiniteSet(1..Len(csv))
    BY <2>1, FS_Interval
  <2> QED BY <2>1, <2>2
<1> QED BY <1>1, <1>2, <1>3, FS_Subset, FS_CardinalityType

(* A decision that names an obstacle of the evidence comes with a status    *)
(* that fails, whatever the policy: the chain of obstacles (lines 143-156)  *)
(* asks for nothing that the checks behind the status (lines 168-179) let  *)
(* through.                                                                *)
THEOREM EvidenceObstaclesFail == Spec => []ObstaclesFailThePlan
<1>1. ASSUME PlanInv, plan # NoPlan PROVE ObstaclesFailThePlan
  <2> DEFINE rows == NormalizeRows(NormalizeRows(sweep))
             sound == report.status = "PASS" /\ SemanticParity(report.scenarios)
                                             /\ SemanticHttp(report.scenarios)
             enough == Cardinality(PassingRows(rows)) >= Policy.minPassing
             unobstructed == sound /\ EffectiveBatching(report.scenarios) /\ rows # <<>> /\ enough
                                   /\ PassingRows(rows) # {}
  <2>1. /\ sweep \in Sweeps
        /\ plan.status = Status(report, rows) /\ plan.decision = Decision(report, rows)
    BY <1>1 DEF PlanInv, BuildCapacityPlan
  <2>2. rows = <<>> => PassingRows(rows) = {}
    BY DEF PassingRows
  <2>3. Cardinality(PassingRows(rows)) < Policy.minPassing <=> ~enough
    <3>1. Cardinality(PassingRows(rows)) \in Nat
      BY <2>1, PassingRowsAreFinite
    <3> QED BY <3>1, CapacityPolicy
  <2>4. ~unobstructed => plan.status = "FAIL"
    BY <2>1, <2>2 DEF Status
  <2>5. unobstructed => plan.decision \in {"REFERENCE_TARGET_EXCEEDS_REPLICA_BOUNDARY",
            "ONE_REPLICA_SUFFICIENT_FOR_REFERENCE_TARGET", "SCALE_REPLICAS_FOR_REFERENCE_TARGET"}
    BY <2>1, <2>3 DEF Decision
  <2> QED
    BY <2>4, <2>5 DEF ObstaclesFailThePlan
<1>2. PlanInv => ObstaclesFailThePlan
  BY <1>1 DEF ObstaclesFailThePlan
<1>3. QED
  BY <1>2, PlanIsInductive, PTL

-----------------------------------------------------------------------------
(* Some element of a finite set has the largest value: one with the fewest  *)
(* elements above it.                                                      *)
LEMMA SomeValueIsLargest ==
    ASSUME NEW S, IsFiniteSet(S), S # {}, NEW value \in [S -> Int]
    PROVE  \E i \in S : \A j \in S : value[j] <= value[i]
<1> DEFINE Above(i) == {j \in S : value[j] > value[i]}
           sizes == {Cardinality(Above(i)) : i \in S}
<1>1. \A i \in S : IsFiniteSet(Above(i)) /\ Cardinality(Above(i)) \in Nat
  <2> TAKE i \in S
  <2>1. Above(i) \in SUBSET S
    OBVIOUS
  <2> QED BY <2>1, FS_Subset, FS_CardinalityType
<1>2. sizes \subseteq Nat /\ sizes # {}
  BY <1>1
<1>3. PICK least \in sizes : \A size \in sizes : ~(<<size, least>> \in OpToRel(<, Nat))
  BY <1>2, WFMin, NatLessThanWellFounded
<1>4. PICK i \in S : least = Cardinality(Above(i))
  OBVIOUS
<1>5. SUFFICES ASSUME NEW j \in S, value[j] > value[i] PROVE FALSE
  OBVIOUS
<1>6. Above(j) \in SUBSET Above(i) /\ j \in Above(i) /\ j \notin Above(j)
  BY <1>5
<1>7. Cardinality(Above(j)) <= Cardinality(Above(i)) /\ Cardinality(Above(j)) # Cardinality(Above(i))
  BY <1>1, <1>6, FS_Subset
<1>8. Cardinality(Above(j)) < least
  BY <1>1, <1>4, <1>7, SMTT(30)
<1>9. <<Cardinality(Above(j)), least>> \in OpToRel(<, Nat)
  BY <1>1, <1>4, <1>8 DEF OpToRel
<1> QED BY <1>3, <1>9

(* The quotient rounded up, q, is the least with q * b >= a.               *)
LEMMA CeilDivIsLeast ==
    ASSUME NEW a \in Nat, NEW b \in Nat, b > 0
    PROVE  /\ CeilDiv(a, b) \in Nat
           /\ CeilDiv(a, b) * b >= a
           /\ (CeilDiv(a, b) - 1) * b < a
<1> DEFINE q == CeilDiv(a, b)
           r == (a + b - 1) % b
<1>1. a + b - 1 = b * q + r /\ r \in 0..(b - 1) /\ q \in Nat
  BY DEF CeilDiv
<1>2. q * b = b * q /\ (q - 1) * b = b * q - b /\ b * q \in Int
  BY <1>1
<1> HIDE DEF q, r
<1> QED BY <1>1, <1>2 DEF q

(* A normalized row that passes comes from a row within the limits in       *)
(* microseconds: the second normalization leaves it as it is (line 30).    *)
LEMMA RowsPassInMicroseconds ==
    ASSUME NEW csv \in Sweeps, NEW i \in PassingRows(NormalizeRows(NormalizeRows(csv)))
    PROVE  LET row == NormalizeRows(NormalizeRows(csv))[i]
           IN  /\ i \in DOMAIN csv
               /\ row.rate = csv[i].rate /\ row.rate \in Nat /\ row.rate > 0
               /\ csv[i].p95 <= 1000 * 1000 * Policy.p95Limit
               /\ csv[i].p99 <= 1000 * 1000 * Policy.p99Limit
<1> DEFINE row == NormalizeRows(NormalizeRows(csv))[i]
           raw == csv[i]
<1>1. i \in DOMAIN csv /\ row = NormalizeRow(NormalizeRow(raw)) /\ RowPasses(row)
  BY DEF PassingRows, NormalizeRows
<1>2. raw \in [unit : {"us"}, concurrency : Int, rate : Int, p95 : Latencies, p99 : Latencies]
  BY <1>1, SweepRows
<1> DEFINE ms(latency) == IF latency = Missing THEN latency ELSE latency \div 1000
<1> DEFINE once == [unit |-> "ms", concurrency |-> raw.concurrency, rate |-> raw.rate,
                    p95 |-> ms(raw.p95), p99 |-> ms(raw.p99)]
<1>3. NormalizeRow(raw) = once
  BY <1>2 DEF NormalizeRow, Milliseconds
<1>4. NormalizeRow(once) = once
  BY DEF NormalizeRow, Milliseconds
<1>5. /\ row.rate = raw.rate /\ row.rate \in Int
      /\ row.p95 = ms(raw.p95) /\ row.p99 = ms(raw.p99)
  BY <1>1, <1>2, <1>3, <1>4
<1>6. ASSUME NEW latency \in Latencies, NEW limit \in Nat, ms(latency) \in 0..1000 * limit
      PROVE  latency <= 1000 * 1000 * limit
  BY <1>6 DEF Latencies, Missing
<1>7. row.rate > 0 /\ row.p95 \in 0..1000 * Policy.p95Limit /\ row.p99 \in 0..1000 * Policy.p99Limit
  BY <1>1 DEF RowPasses
<1>8. Policy.p95Limit \in Nat /\ Policy.p99Limit \in Nat
  BY CapacityPolicy
<1> QED BY <1>1, <1>2, <1>6, <1>7, <1>8, <1>5

(* The capacity of a plan that passes was measured by a row that meets the  *)
(* limits in microseconds although rows are normalized twice (lines 49 and  *)
(* 111), and its replicas are the fewest that cover the target with the     *)
(* headroom (lines 135-141).                                               *)
THEOREM CapacityRestsOnEvidence == Spec => []CapacityIsEvidenced
<1>1. ASSUME PlanInv, plan.status = "PASS" PROVE CapacityIsEvidenced
  <2> DEFINE rows == NormalizeRows(NormalizeRows(sweep))
             passing == PassingRows(rows)
  <2>1. /\ sweep \in Sweeps
        /\ plan.status = Status(report, rows)
        /\ plan.capacity = MeasuredCapacity(rows) /\ plan.replicas = Replicas(rows)
    BY <1>1 DEF PlanInv, BuildCapacityPlan, NoPlan
  <2>2. passing # {}
    BY <1>1, <2>1 DEF Status
  <2>3. PICK best \in passing :
            plan.capacity = rows[best].rate /\ \A i \in passing : rows[i].rate <= plan.capacity
    <3> DEFINE rates == {rows[i].rate : i \in passing}
               value == [i \in passing |-> rows[i].rate]
    <3>1. \A i \in passing : rows[i].rate \in Nat
      BY <2>1, RowsPassInMicroseconds
    <3>2. IsFiniteSet(passing) /\ value \in [passing -> Int]
      BY <2>1, <3>1, PassingRowsAreFinite
    <3>3. \E i \in passing : \A j \in passing : value[j] <= value[i]
      <4> HIDE DEF passing, value
      <4> QED BY <2>2, <3>2, SomeValueIsLargest
    <3>4. \E rate \in rates : \A other \in rates : rate >= other
      BY <3>1, <3>3
    <3>5. Max(rates) \in rates /\ \A other \in rates : Max(rates) >= other
      BY <3>4 DEF Max
    <3>6. plan.capacity = Max(rates)
      BY <2>1, <2>2 DEF MeasuredCapacity
    <3>7. \A rate \in rates : rate \in Nat
      BY <3>1
    <3> QED BY <3>5, <3>6, <3>7
  <2>4. /\ best \in DOMAIN sweep /\ plan.capacity = sweep[best].rate
        /\ plan.capacity \in Nat /\ plan.capacity > 0
        /\ sweep[best].p95 <= 1000 * 1000 * Policy.p95Limit
        /\ sweep[best].p99 <= 1000 * 1000 * Policy.p99Limit
    BY <2>1, <2>3, RowsPassInMicroseconds
  <2> DEFINE a == 100 * Policy.target
             b == Policy.safety * plan.capacity
             q == CeilDiv(a, b)
  <2>5. a \in Nat /\ b \in Nat /\ b > 0
    <3>1. Policy.target \in Nat /\ Policy.safety \in Nat /\ Policy.safety > 0
      BY CapacityPolicy
    <3> QED BY <2>4, <3>1
  <2>6. q \in Nat /\ q * b >= a /\ (q - 1) * b < a
    BY <2>5, CeilDivIsLeast
  <2>7. plan.replicas = IF q > 1 THEN q ELSE 1
    BY <2>1, <2>2 DEF Replicas
  <2> HIDE DEF a, b, q
  <2>8. plan.replicas \in Nat /\ plan.replicas * b >= a
    <3>1. CASE q > 1
      BY <2>6, <2>7, <3>1
    <3>2. CASE q = 1
      BY <2>6, <2>7, <3>2
    <3>3. CASE q = 0
      BY <2>5, <2>6, <2>7, <3>3
    <3> QED BY <2>6, <3>1, <3>2, <3>3
  <2>9. plan.replicas > 1 => (plan.replicas - 1) * b < a
    BY <2>6, <2>7
  <2>10. /\ plan.replicas * Policy.safety * plan.capacity = plan.replicas * b
         /\ (plan.replicas - 1) * Policy.safety * plan.capacity = (plan.replicas - 1) * b
    <3>1. Policy.safety \in Int /\ plan.capacity \in Int /\ plan.replicas \in Int
      BY <2>4, <2>8, CapacityPolicy
    <3> QED BY <3>1 DEF b
  <2> QED
    BY <2>4, <2>8, <2>9, <2>10 DEF CapacityIsEvidenced, a
<1>2. PlanInv => CapacityIsEvidenced
  BY <1>1 DEF CapacityIsEvidenced
<1>3. QED
  BY <1>2, PlanIsInductive, PTL

-----------------------------------------------------------------------------
(* What the counters say of a level.                                       *)

Measuring == {"submit", "barrier", "waiting", "collect", "read_after"}
WithinLargest(inferences, execs, l) ==
    execs >= 0 /\ inferences <= history.largest[l] * RequestBatch * execs

(* The level under way is the next scenario.  While no request has failed   *)
(* the server holds no request the client gave up, so all it executes       *)
(* between the two readings of its counters is batches of the level.       *)
BatchInv ==
    /\ history.largest \in [DOMAIN Levels -> Nat]
    /\ main \in {"warmup", "read_before"} \union Measuring => level = Len(scenarios) + 1
    /\ "failed" \notin history.bad =>
        /\ late = 0
        /\ main \in Measuring => WithinLargest(counters.inferences - before.inferences,
                                               counters.execs - before.execs, level)
        /\ \A i \in DOMAIN scenarios :
                WithinLargest(scenarios[i].inferences, scenarios[i].execs, i)

(* One more batch, at most the largest, keeps the average at most that.    *)
LEMMA BatchesStayWithinLargest ==
    ASSUME NEW inferences \in Int, NEW execs \in Nat, NEW l \in Nat, NEW largest \in Nat,
           NEW batch \in Nat, NEW rows \in Nat,
           inferences <= l * rows * execs, l <= largest, batch <= largest
    PROVE  inferences + batch * rows <= largest * rows * (execs + 1)
<1>1. l * rows <= largest * rows /\ batch * rows <= largest * rows
      /\ l * rows \in Nat /\ batch * rows \in Nat /\ largest * rows \in Nat
  OBVIOUS
<1>2. ASSUME NEW x \in Nat, NEW y \in Nat, x <= y PROVE x * execs <= y * execs
  BY <1>2
<1>3. (l * rows) * execs <= (largest * rows) * execs
  BY <1>1, <1>2
<1>4. (largest * rows) * (execs + 1) = (largest * rows) * execs + largest * rows
  BY <1>1
<1>5. (l * rows) * execs \in Int /\ (largest * rows) * execs \in Int
  BY <1>1
<1> QED BY <1>1, <1>3, <1>4, <1>5

LEMMA BatchIsInductive == Spec => []BatchInv
<1>1. Init => BatchInv
  BY BenchmarkArguments DEF Init, BatchInv, Measuring
<1>2. TypeInv /\ BurstInv /\ DataInv /\ BatchInv /\ [Next]_vars => BatchInv'
  <2> SUFFICES ASSUME TypeInv, BurstInv, DataInv, BatchInv, [Next]_vars PROVE BatchInv'
    OBVIOUS
  <2> USE DEF BatchInv, Measuring
  <2>1. CASE Warmup \/ Raises \/ Submit \/ MainArrives \/ Collect \/ WriteReport
             \/ \E csv \in Sweeps : Plan(csv)
    BY <2>1 DEF Warmup, Raises, Submit, MainArrives, Collect, EndOfRound, WriteReport, Plan, WithinLargest
  <2>2. CASE BarrierOpens
    BY <2>2, BarrierTakesAll DEF BarrierOpens, WithinLargest
  <2>3. CASE ReadBefore
    <3>1. /\ counters'.inferences - before'.inferences = 0 /\ counters'.execs - before'.execs = 0
          /\ history'.largest[level'] * RequestBatch * 0 = 0
      <4>1. history.largest[level] \in Int /\ RequestBatch \in Int
        BY BenchmarkArguments DEF TypeInv
      <4> QED BY <2>3, <4>1 DEF ReadBefore, DataInv, Counters
    <3> QED BY <2>3, <3>1 DEF ReadBefore, WithinLargest
  <2>4. CASE ReadAfter
    <3>1. /\ Len(scenarios') = Len(scenarios) + 1 /\ Len(scenarios) \in Nat
          /\ DOMAIN scenarios = 1..Len(scenarios) /\ DOMAIN scenarios' = 1..Len(scenarios')
          /\ \A i \in DOMAIN scenarios : scenarios'[i] = scenarios[i]
          /\ scenarios'[Len(scenarios')] = Scenario
      BY <2>4, ScenarioIsWellFormed DEF ReadAfter, DataInv
    <3>2. level = Len(scenarios') /\ UNCHANGED <<history, late>>
      BY <2>4, <3>1 DEF ReadAfter
    <3>3. "failed" \notin history.bad => WithinLargest(Scenario.inferences, Scenario.execs, level)
      BY <2>4 DEF ReadAfter, Scenario
    <3>4. main' \notin Measuring /\ (main' = "read_before" => level' = Len(scenarios') + 1)
          /\ main' # "warmup"
      BY <2>4, <3>2 DEF ReadAfter
    <3> QED BY <3>1, <3>2, <3>3, <3>4 DEF WithinLargest
  <2>5. CASE ServerExecutes
    <3>1. PICK requests \in SUBSET TasksAt({"sent"}), abandoned \in 0..late :
             /\ Cardinality(requests) + abandoned > 0
             /\ Execute(Cardinality(requests) + abandoned)
             /\ late' = late - abandoned
             /\ history' = [history EXCEPT !.largest[level] =
                                IF Cardinality(requests) > @ THEN Cardinality(requests) ELSE @]
      BY <2>5 DEF ServerExecutes
    <3> DEFINE batch == Cardinality(requests)
               larger == IF batch > history.largest[level] THEN batch ELSE history.largest[level]
    <3>2. batch \in Nat
      <4>1. requests \in SUBSET Burst
        BY DEF TasksAt
      <4> QED BY <4>1, BurstIsFinite, FS_Subset, FS_CardinalityType
    <3>3. /\ history'.bad = history.bad
          /\ history'.largest = [history.largest EXCEPT ![level] = larger]
      BY <3>1 DEF DataInv
    <3>4. history'.largest \in [DOMAIN Levels -> Nat] /\ history'.largest[level] = larger
      BY <3>2, <3>3 DEF TypeInv
    <3>5. UNCHANGED <<main, level, before, scenarios>>
      BY <2>5 DEF ServerExecutes
    <3>6. ASSUME "failed" \notin history.bad
          PROVE  /\ late' = 0
                 /\ WithinLargest(counters.inferences - before.inferences,
                                  counters.execs - before.execs, level)'
                 /\ \A i \in DOMAIN scenarios : i # level
      <4>1. abandoned = 0 /\ batch > 0 /\ late' = 0
        BY <3>1, <3>2, <3>6
      <4>2. main = "collect"
        <5>0. requests # {}
          <6>1. requests = {} => batch = 0
            BY FS_EmptySet, Zenon
          <6>2. batch # 0
            BY <3>2, <4>1
          <6> QED BY <6>1, <6>2
        <5>1. PICK s \in requests : TRUE
          BY <5>0
        <5>2. task[s] = "sent" /\ s \in Burst
          BY <5>1 DEF TasksAt
        <5> QED BY <5>2, BurstIsFinite DEF BurstInv
      <4>3. /\ counters'.inferences = counters.inferences + batch * RequestBatch
            /\ counters'.execs = counters.execs + 1
        BY <3>1, <3>2, <4>1 DEF Execute
      <4> DEFINE inferences == counters.inferences - before.inferences
                 execs == counters.execs - before.execs
      <4>4. /\ inferences \in Int /\ execs \in Nat
            /\ inferences <= history.largest[level] * RequestBatch * execs
        BY <3>6, <4>2 DEF WithinLargest, DataInv, Counters
      <4>5. history.largest[level] \in Nat /\ larger \in Nat /\ history.largest[level] <= larger
            /\ batch <= larger /\ RequestBatch \in Nat
        BY <3>2, BenchmarkArguments DEF TypeInv
      <4>6. inferences + batch * RequestBatch <= larger * RequestBatch * (execs + 1)
        <5> HIDE DEF inferences, execs, larger, batch
        <5> QED BY <3>2, <4>4, <4>5, BatchesStayWithinLargest
      <4>7. /\ counters'.inferences - before'.inferences = inferences + batch * RequestBatch
            /\ counters'.execs - before'.execs = execs + 1
        <5>1. batch * RequestBatch \in Int
          BY <3>2, <4>5
        <5>2. /\ counters.inferences \in Int /\ counters.execs \in Int
              /\ before.inferences \in Int /\ before.execs \in Int /\ before' = before
          BY <3>5 DEF DataInv, Counters
        <5> QED BY <4>3, <5>1, <5>2
      <4>8. WithinLargest(counters.inferences - before.inferences,
                          counters.execs - before.execs, level)'
        <5> HIDE DEF inferences, execs, larger, batch
        <5> QED BY <3>4, <3>5, <4>4, <4>6, <4>7 DEF WithinLargest
      <4>9. \A i \in DOMAIN scenarios : i # level
        BY <4>2 DEF DataInv
      <4> QED BY <4>1, <4>8, <4>9
    <3>7. \A i \in DOMAIN scenarios : i # level => history'.largest[i] = history.largest[i]
      BY <3>3
    <3> QED BY <3>3, <3>4, <3>5, <3>6, <3>7 DEF WithinLargest
  <2>6. ASSUME NEW s \in Slots, TaskArrives(s) \/ Send(s) PROVE BatchInv'
    BY <2>6 DEF TaskArrives, Send, WithinLargest
  <2>7. ASSUME NEW s \in Slots, NEW answer \in Answers, Infer(s, answer) PROVE BatchInv'
    <3>1. /\ history'.bad = history.bad \union ({answer} \ {"right"}) /\ history'.largest = history.largest
          /\ UNCHANGED <<main, level, before, counters, scenarios>>
          /\ answer # "failed" => late' = late
      BY <2>7 DEF Infer, DataInv
    <3> QED BY <3>1 DEF WithinLargest
  <2>8. CASE UNCHANGED vars
    BY <2>8 DEF vars, WithinLargest
  <2> QED BY <2>1, <2>2, <2>3, <2>4, <2>5, <2>6, <2>7, <2>8 DEF Next, MainStep, TaskStep
<1>3. QED
  BY <1>1, <1>2, BurstIsInductive, DataIsInductive, PTL DEF Spec

(* In a plan that passes, the average batch of a level never exceeds the     *)
(* batches executed for it: the counters are read before and after each     *)
(* level (lines 183 and 210), and a plan that passes rests on a run in       *)
(* which no request was given up and executed later.                       *)
THEOREM BatchingIsMeasuredPerLevel == Spec => []BatchingIsOfItsLevel
<1>1. EvidenceInv /\ BatchInv => BatchingIsOfItsLevel
  BY DEF EvidenceInv, Worse, BatchInv, WithinLargest, BatchingIsOfItsLevel
<1>2. QED
  BY <1>1, EvidenceIsInductive, BatchIsInductive, PTL

=============================================================================
