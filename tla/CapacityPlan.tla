---------------------------- MODULE CapacityPlan ----------------------------
(***************************************************************************)
(* src/operations/triton_capacity_plan.py: the replica count for a target  *)
(* rate, from the scenarios of the concurrent benchmark (Benchmark) and    *)
(* the rows of a Perf Analyzer sweep.                                      *)
(*                                                                         *)
(* Rates are per second, limits in milliseconds, a row's latencies in      *)
(* thousandths of its unit (microseconds as Perf Analyzer writes the row,  *)
(* milliseconds once normalized), probability errors in multiples of 1e-5, *)
(* ratios in hundredths; quotients are compared by cross multiplication.   *)
(* Missing stands for a field that is absent or that does not parse.       *)
(***************************************************************************)
EXTENDS Integers, Sequences, FiniteSets, FiniteSetsExt

CONSTANT Policy     \* config/triton_capacity_policy.yaml

(* Claims of capacity; the policy disables one only by an explicit false.  *)
Claims == {"production", "gpu"}

ASSUME CapacityPolicy ==
    /\ \A field \in {"p95Limit", "p99Limit", "maxErrorRate", "maxError", "minGain", "minBatch",
                     "safety", "target", "maxReplicas", "minPassing"} : Policy[field] \in Nat
    /\ Policy.safety \in 1..100     \* build_capacity_plan raises otherwise
    /\ Policy.disabledClaims \subseteq Claims

Missing == -1
CeilDiv(a, b) == (a + b - 1) \div b

-----------------------------------------------------------------------------
(* Rows of the sweep.  A row says which keys its latencies have: those of  *)
(* the CSV ("p95 latency") or the normalized ones ("p95_latency_ms").      *)

Milliseconds_always(row, latency) == IF latency = Missing THEN latency ELSE latency \div 1000

Milliseconds(row, latency) ==
    IF latency = Missing \/ row.unit = "ms" THEN latency ELSE latency \div 1000

NormalizeRow(row) ==
    [unit |-> "ms", concurrency |-> row.concurrency, rate |-> row.rate,
     p95 |-> Milliseconds(row, row.p95), p99 |-> Milliseconds(row, row.p99)]

NormalizeRows(rows) == [i \in DOMAIN rows |-> NormalizeRow(rows[i])]

RowPasses(row) ==
    /\ row.concurrency # Missing
    /\ row.rate > 0
    /\ row.p95 \in 0..1000 * Policy.p95Limit /\ row.p99 \in 0..1000 * Policy.p99Limit

PassingRows(rows) == {i \in DOMAIN rows : RowPasses(rows[i])}

(* The best passing row's rate, nothing without one. *)
MeasuredCapacity(rows) ==
    IF PassingRows(rows) = {} THEN 0 ELSE Max({rows[i].rate : i \in PassingRows(rows)})

(* A target of 0 still gets one replica.  The code's floats may ask one     *)
(* replica more where target and capacity tie exactly.                     *)
Replicas(rows) ==
    IF PassingRows(rows) = {} THEN Policy.maxReplicas
    ELSE LET needed == CeilDiv(100 * Policy.target, Policy.safety * MeasuredCapacity(rows))
         IN  IF needed > 1 THEN needed ELSE 1

-----------------------------------------------------------------------------
(* Scenarios of the benchmark.                                             *)

(* inferences / execs, 0 when nothing was executed. *)
AverageBatchReaches(scenario, hundredths) ==
    /\ 100 * scenario.inferences >= hundredths * scenario.execs
    /\ scenario.execs > 0 \/ hundredths = 0

EffectiveBatching(scenarios) ==
    /\ \E i \in DOMAIN scenarios :
            /\ scenarios[i].concurrency > 1
            /\ AverageBatchReaches(scenarios[i], Policy.minGain * scenarios[i].requestBatch)
    /\ \E i \in DOMAIN scenarios : AverageBatchReaches(scenarios[i], Policy.minBatch)

SemanticParity(scenarios) ==
    /\ scenarios # <<>>
    /\ \A i \in DOMAIN scenarios :
            scenarios[i].parity = "PASS" /\ scenarios[i].maxError <= Policy.maxError

SemanticHttp(scenarios) ==
    /\ scenarios # <<>>
    /\ \A i \in DOMAIN scenarios :
            100 * scenarios[i].failures <= Policy.maxErrorRate * scenarios[i].requests

-----------------------------------------------------------------------------
(* The first obstacle decides; without one, the number of replicas.        *)
Decision(report, rows) ==
    IF report.status # "PASS" \/ ~SemanticParity(report.scenarios) \/ ~SemanticHttp(report.scenarios)
        THEN "SEMANTIC_RUNTIME_EVIDENCE_FAILED"
    ELSE IF ~EffectiveBatching(report.scenarios) THEN "FIX_BATCHING_BEFORE_REPLICA_SCALING"
    ELSE IF rows = <<>> THEN "PERF_ANALYZER_CAPACITY_EVIDENCE_REQUIRED"
    ELSE IF Cardinality(PassingRows(rows)) < Policy.minPassing THEN "INSUFFICIENT_PERF_ANALYZER_SLO_EVIDENCE"
    ELSE IF PassingRows(rows) = {} THEN "NO_PERF_ANALYZER_SLO_CAPACITY_POINT"
    ELSE IF Replicas(rows) > Policy.maxReplicas THEN "REFERENCE_TARGET_EXCEEDS_REPLICA_BOUNDARY"
    ELSE IF Replicas(rows) = 1 THEN "ONE_REPLICA_SUFFICIENT_FOR_REFERENCE_TARGET"
    ELSE "SCALE_REPLICAS_FOR_REFERENCE_TARGET"

(* The status has checks of its own.                                       *)
Status_without_batching(report, rows) ==
    IF /\ report.status = "PASS" /\ SemanticParity(report.scenarios) /\ SemanticHttp(report.scenarios)
       /\ Cardinality(PassingRows(rows)) >= Policy.minPassing /\ PassingRows(rows) # {}
       /\ Policy.disabledClaims = Claims
    THEN "PASS" ELSE "FAIL"

Status(report, rows) ==
    IF /\ report.status = "PASS" /\ SemanticParity(report.scenarios) /\ SemanticHttp(report.scenarios)
       /\ EffectiveBatching(report.scenarios)
       /\ Cardinality(PassingRows(rows)) >= Policy.minPassing /\ PassingRows(rows) # {}
       /\ Policy.disabledClaims = Claims
    THEN "PASS" ELSE "FAIL"

BuildCapacityPlan(report, rows) ==
    LET normalized == NormalizeRows(rows)
    IN  [status |-> Status(report, normalized), decision |-> Decision(report, normalized),
         capacity |-> MeasuredCapacity(normalized), replicas |-> Replicas(normalized)]

=============================================================================
