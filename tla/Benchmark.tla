------------------------------ MODULE Benchmark ------------------------------
(***************************************************************************)
(* src/operations/benchmark_triton_concurrency.py: bursts of concurrent    *)
(* requests to a Triton server, level of concurrency by level, and the     *)
(* report on which the capacity plan is built.                             *)
(*                                                                         *)
(* For every round the main thread submits as many tasks as the level says *)
(* to a pool of that many threads; the tasks and the main thread meet at a *)
(* barrier, and each task then sends one request.  The server groups the   *)
(* requests it holds into batches and counts inferences and executions;    *)
(* the script reads its counters before and after a level.                 *)
(***************************************************************************)
EXTENDS CapacityPlan

CONSTANTS
    Levels,         \* concurrency_levels
    Rounds,         \* rounds_per_level
    RequestBatch,   \* rows in a request
    Sweeps,         \* sweeps as Perf Analyzer writes them, <<>> without a file
    MaxLate         \* bound on requests the server holds after the client's timeout

Slots == 1..10      \* bound on the levels

ASSUME BenchmarkArguments ==
    /\ Levels \in Seq(Slots) /\ Levels # <<>>
    /\ Rounds \in Nat \ {0} /\ RequestBatch \in Nat \ {0} /\ MaxLate \in Nat

(* Whole microseconds, or nothing that parses.                             *)
Latencies == {Missing} \union {latency \in Nat : latency % 1000 = 0}

ASSUME SweepRows ==
    \A csv \in Sweeps :
        /\ DOMAIN csv = 1..Len(csv) /\ Len(csv) \in Nat
        /\ \A i \in DOMAIN csv :
            csv[i] \in [unit : {"us"}, concurrency : Int, rate : Int, p95 : Latencies, p99 : Latencies]

VARIABLES
    main,       \* the main thread's next step
    level, round,
    task,       \* task[slot]: where the slot's task of this round is, its answer at last
    before,     \* counters read before the level
    late,       \* requests given up by the client that the server may still execute
    counters,   \* nv_inference_count and nv_inference_exec_count of support_base
    results,    \* what the report will say of the level's answers so far
    scenarios, report, sweep, plan,
    history     \* the largest batch executed in each level, and the kinds of bad answers so far

vars == <<main, level, round, task, before, counters, late, results, scenarios, report, sweep, plan, history>>

(* nan: probabilities that do not compare, such as a null in the answer.   *)
Answers == {"right", "wrong", "nan", "failed"}
NoAnswers == [failed |-> 0, wrong |-> FALSE, first |-> "none"]
NoReport == [status |-> "none", scenarios |-> <<>>]
NoPlan == [status |-> "none"]
Concurrency == Levels[level]
Burst == 1..Concurrency

Init ==
    /\ main = "warmup" /\ level = 1 /\ round = 1
    /\ task = [s \in Slots |-> "none"]
    /\ counters = [inferences |-> 0, execs |-> 0] /\ before = counters
    /\ late = 0 /\ results = NoAnswers
    /\ scenarios = <<>> /\ report = NoReport /\ sweep = <<>> /\ plan = NoPlan
    /\ history = [largest |-> [l \in DOMAIN Levels |-> 0], bad |-> {}]

Execute(batch) ==
    counters' = [inferences |-> counters.inferences + batch * RequestBatch, execs |-> counters.execs + 1]

(* Requests one by one before the first level; a failure raises.           *)
Warmup ==
    /\ main = "warmup"
    /\ main' = "read_before"
    /\ Execute(1)
    /\ UNCHANGED <<level, round, task, before, late, results, scenarios, report, sweep, plan, history>>

(* Health check, warm-up and counters raise when the server does not answer. *)
Raises ==
    /\ main \in {"warmup", "read_before", "read_after"}
    /\ main' = "raised"
    /\ UNCHANGED <<level, round, task, before, counters, late, results, scenarios, report, sweep, plan, history>>

ReadBefore_once ==
    /\ main = "read_before"
    /\ main' = "submit"
    /\ before' = IF level = 1 THEN counters ELSE before
    /\ results' = NoAnswers
    /\ UNCHANGED <<level, round, task, counters, late, scenarios, report, sweep, plan, history>>

ReadBefore ==
    /\ main = "read_before"
    /\ main' = "submit"
    /\ before' = counters
    /\ results' = NoAnswers
    /\ UNCHANGED <<level, round, task, counters, late, scenarios, report, sweep, plan, history>>

Submit ==
    /\ main = "submit"
    /\ main' = "barrier"
    /\ task' = [s \in Slots |-> IF s \in Burst THEN "queued" ELSE "none"]
    /\ UNCHANGED <<level, round, before, counters, late, results, scenarios, report, sweep, plan, history>>

-----------------------------------------------------------------------------
(* The pool and the barrier.                                               *)

TasksAt(places) == {s \in Burst : task[s] \in places}
Workers_one_short == Concurrency - 1
Workers == Concurrency              \* max_workers

Parties_without_main == Concurrency
Parties == Concurrency + 1          \* threading.Barrier(concurrency + 1)

(* A thread of the pool takes a task up, which waits at the barrier.       *)
TaskArrives(s) ==
    /\ task[s] = "queued"
    /\ Cardinality(TasksAt({"waiting", "released", "sent", "answered"})) < Workers
    /\ task' = [task EXCEPT ![s] = "waiting"]
    /\ UNCHANGED <<main, level, round, before, counters, late, results, scenarios, report, sweep, plan, history>>

MainArrives ==
    /\ main = "barrier"
    /\ main' = "waiting"
    /\ UNCHANGED <<level, round, task, before, counters, late, results, scenarios, report, sweep, plan, history>>

BarrierOpens ==
    /\ Cardinality(TasksAt({"waiting"})) + (IF main = "waiting" THEN 1 ELSE 0) = Parties
    /\ task' = [s \in Slots |-> IF task[s] = "waiting" THEN "released" ELSE task[s]]
    /\ main' = "collect"
    /\ UNCHANGED <<level, round, before, counters, late, results, scenarios, report, sweep, plan, history>>

Send(s) ==
    /\ task[s] = "released"
    /\ task' = [task EXCEPT ![s] = "sent"]
    /\ UNCHANGED <<main, level, round, before, counters, late, results, scenarios, report, sweep, plan, history>>

(* The server executes some of the requests it holds as one batch.         *)
ServerExecutes ==
    \E requests \in SUBSET TasksAt({"sent"}), abandoned \in 0..late :
        /\ Cardinality(requests) + abandoned > 0
        /\ Execute(Cardinality(requests) + abandoned)
        /\ task' = [s \in Slots |-> IF s \in requests THEN "answered" ELSE task[s]]
        /\ late' = late - abandoned
        /\ history' = [history EXCEPT !.largest[level] =
                            IF Cardinality(requests) > @ THEN Cardinality(requests) ELSE @]
        /\ UNCHANGED <<main, level, round, before, results, scenarios, report, sweep, plan>>

(* _infer: the answer is compared with the native model's, and whatever    *)
(* goes wrong is recorded as a failure, a timeout too.                     *)
Infer(s, answer) ==
    /\ \/ task[s] = "answered" /\ UNCHANGED late
       \/ /\ task[s] = "sent" /\ answer = "failed"
          /\ late' \in {late, late + 1} \intersect 0..MaxLate
    /\ task' = [task EXCEPT ![s] = answer]
    /\ history' = [history EXCEPT !.bad = @ \union ({answer} \ {"right"})]
    /\ UNCHANGED <<main, level, round, before, counters, results, scenarios, report, sweep, plan>>

-----------------------------------------------------------------------------
(* The answers of a round in the order the tasks were submitted.           *)
FirstSuccess ==
    LET successful == TasksAt(Answers \ {"failed"})
    IN  IF results.first # "none" \/ successful = {} THEN results.first ELSE task[Min(successful)]

EndOfRound ==
    /\ main = "collect"
    /\ TasksAt(Answers) = Burst
    /\ task' = [s \in Slots |-> "none"]
    /\ IF round < Rounds THEN main' = "submit" /\ round' = round + 1
                         ELSE main' = "read_after" /\ round' = 1
    /\ UNCHANGED <<level, before, counters, late, scenarios, report, sweep, plan, history>>

Collect_drops_failures ==
    /\ EndOfRound
    /\ results' = [results EXCEPT !.wrong = @ \/ TasksAt({"wrong"}) # {}, !.first = FirstSuccess]

Collect ==
    /\ EndOfRound
    /\ results' = [failed |-> results.failed + Cardinality(TasksAt({"failed"})),
                   wrong |-> results.wrong \/ TasksAt({"wrong"}) # {},
                   first |-> FirstSuccess]

(* max of the errors: the error of a wrong answer exceeds the tolerance; a *)
(* NaN exceeds nothing, and counts only if no other error comes first.     *)
ParityHolds == ~results.wrong /\ results.first # "nan"
ParityStatus == IF ParityHolds /\ results.failed = 0 THEN "PASS" ELSE "FAIL"

(* A NaN maximum is no more within the plan's limit than a wrong answer's. *)
Scenario ==
    [concurrency |-> Concurrency, requestBatch |-> RequestBatch, requests |-> Rounds * Concurrency,
     failures |-> results.failed,
     maxError |-> IF ParityHolds THEN 0 ELSE Policy.maxError + 1,
     parity |-> ParityStatus,
     inferences |-> counters.inferences - before.inferences,     \* _metric_delta
     execs |-> counters.execs - before.execs]

ReadAfter ==
    /\ main = "read_after"
    /\ scenarios' = Append(scenarios, Scenario)
    /\ IF level < Len(Levels) THEN main' = "read_before" /\ level' = level + 1
                              ELSE main' = "report" /\ UNCHANGED level
    /\ UNCHANGED <<round, task, before, counters, late, results, report, sweep, plan, history>>

(* The report is written before a failure ends the script.                 *)
WriteReport ==
    /\ main = "report"
    /\ main' = "plan"
    /\ report' = [scenarios |-> scenarios,
                  status |-> IF \A i \in DOMAIN scenarios : scenarios[i].parity = "PASS"
                             THEN "PASS" ELSE "FAIL"]
    /\ UNCHANGED <<level, round, task, before, counters, late, results, scenarios, sweep, plan, history>>

(* triton_capacity_plan, with a sweep loaded from its CSV and normalized.  *)
Plan(csv) ==
    /\ main = "plan"
    /\ main' = "ended"
    /\ plan' = BuildCapacityPlan(report, NormalizeRows(csv))
    /\ sweep' = csv
    /\ UNCHANGED <<level, round, task, before, counters, late, results, scenarios, report, history>>

MainStep ==
    \/ Warmup \/ Raises \/ ReadBefore \/ Submit \/ MainArrives \/ BarrierOpens
    \/ Collect \/ ReadAfter \/ WriteReport
    \/ \E csv \in Sweeps : Plan(csv)

TaskStep(s) == TaskArrives(s) \/ Send(s) \/ \E answer \in Answers : Infer(s, answer)

Next == MainStep \/ ServerExecutes \/ \E s \in Slots : TaskStep(s)

Spec == Init /\ [][Next]_vars

(* Threads run, and the server answers or the client's timeout expires.    *)
FairSpec == Spec /\ WF_vars(MainStep) /\ \A s \in Slots : WF_vars(TaskStep(s))

-----------------------------------------------------------------------------
(* The barrier, of the pool's threads and the main one, always opens, and   *)
(* the benchmark ends whatever the server does with the requests.          *)
BenchmarkEnds == <>(main \in {"ended", "raised"})

(* No request of a burst is under way before all its tasks are ready: what *)
(* the server is given overlaps (docs/triton_capacity_evidence.md).        *)
BurstsAreSynchronized ==
    TasksAt({"released", "sent", "answered"} \union Answers) # {} => TasksAt({"queued", "waiting"}) = {}

(* A plan that passes rests on a run in which no answer at any level was   *)
(* missing, and none was seen to be wrong.  An answer that is not a number *)
(* may have been among them (line 227).                                    *)
PassMeansNoBadAnswerSeen == plan.status = "PASS" => history.bad \subseteq {"nan"}

(* In a plan that passes, the average batch of a level never exceeds the   *)
(* batches executed for it: neither the warm-up, nor another level, nor a  *)
(* request executed after its timeout shows up as batching.                *)
BatchingIsOfItsLevel == plan.status = "PASS" => \A i \in DOMAIN scenarios :
    scenarios[i].inferences <= history.largest[i] * RequestBatch * scenarios[i].execs

(* The status and the decision come from checks of their own.  Where the   *)
(* decision names an obstacle of the evidence, the plan fails closed, as    *)
(* docs/triton_capacity_evidence.md, line 129, says; a target beyond the   *)
(* replica boundary, which it also lists, fails no check of the status.    *)
ObstaclesFailThePlan == plan # NoPlan =>
    (plan.decision \in {"SEMANTIC_RUNTIME_EVIDENCE_FAILED", "FIX_BATCHING_BEFORE_REPLICA_SCALING",
        "PERF_ANALYZER_CAPACITY_EVIDENCE_REQUIRED", "INSUFFICIENT_PERF_ANALYZER_SLO_EVIDENCE",
        "NO_PERF_ANALYZER_SLO_CAPACITY_POINT"} => plan.status = "FAIL")

(* The capacity of a plan that passes was measured by a row that meets the *)
(* limits in the CSV's microseconds, although rows are normalized twice;   *)
(* the replicas cover the target with headroom and none is superfluous.    *)
CapacityIsEvidenced == plan.status = "PASS" =>
    /\ \E i \in DOMAIN sweep :
            /\ sweep[i].rate = plan.capacity
            /\ sweep[i].p95 <= 1000 * 1000 * Policy.p95Limit
            /\ sweep[i].p99 <= 1000 * 1000 * Policy.p99Limit
    /\ plan.replicas * Policy.safety * plan.capacity >= 100 * Policy.target
    /\ plan.replicas > 1 => (plan.replicas - 1) * Policy.safety * plan.capacity < 100 * Policy.target

=============================================================================
