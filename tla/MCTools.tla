------------------------------- MODULE MCTools -------------------------------
(* TLC instances of Benchmark, of GpuScaling and of Scoring, which share   *)
(* nothing: a behaviour is one of any, and one run checks them all.        *)
EXTENDS Benchmark, GpuScaling, Scoring

VARIABLE job        \* which of the three this behaviour is of

(* Two replicas at 70% headroom give 700 rows a second each when 500 are    *)
(* measured; the limits are those of the policy file.                      *)
MCPolicy == [p95Limit |-> 20, p99Limit |-> 35, maxErrorRate |-> 0, maxError |-> 5, minGain |-> 125,
             minBatch |-> 150, safety |-> 70, target |-> 1000, maxReplicas |-> 3, minPassing |-> 2,
             disabledClaims |-> Claims]

MCLevels == <<2, 1>>

Thousandths(latency) == IF latency = Missing THEN Missing ELSE 1000 * latency
Row(rate, p95, p99) ==
    [unit |-> "us", concurrency |-> 1, rate |-> rate, p95 |-> Thousandths(p95), p99 |-> Thousandths(p99)]
MCSweeps ==
    {<<>>} \union
    {<<Row(rate, 9000, 12000), second>> : rate \in {400, 715},
        second \in {Row(700, 20000, 35000), Row(715, 20000, 36000),
                    Row(1500, 20000, 35000), Row(1500, 20001, 35000), Row(1500, Missing, 35000)}}

(* config/accelerator_policy.yaml and config/gpu_autoscaling.yaml.         *)
MCAccelerator == [candidates |-> {"neural_network", "transformer"}, minSpeedup |-> 150,
                  maxLatencyRatio |-> 110, minUtilization |-> 35, maxUtilization |-> 90]
MCScaling == [highGpu |-> 85, lowGpu |-> 30, highQueueMs |-> 8, lowQueueMs |-> 1, minBatch |-> 2]

Sound == [runtime |-> "real_gpu", probabilityParity |-> "PASS", decisionParity |-> "PASS",
          speedup |-> 150, latencyRatio |-> 110, utilization |-> 90]
MCEvidence == {Sound, [Sound EXCEPT !.decisionParity = "FAIL"], [Sound EXCEPT !.utilization = 91]}

Load(gpu, queueMs, averageBatch) == [gpu |-> gpu, queueMs |-> queueMs, averageBatch |-> averageBatch]
MCMetrics == {Load(85, 8, 1), Load(85, 0, 1), Load(10, 8, 4), Load(30, 1, 2), Load(30, 1, 1)}

-----------------------------------------------------------------------------
(* Both sides of every boundary, and probabilities within its roundings.   *)
Around(p) == {p - 1000, p - 501, p - 6, p - 1, p, p + 1, p + 5, p + 6, p + 500, p + 501}

(* A threshold of the training's table, the default, one of five decimals. *)
MCThresholds == {6500000, NoThreshold, 3333333}

MCProbabilities(t) == LET threshold == IF t = NoThreshold THEN 5000000 ELSE t IN
    UNION {Around(p) : p \in {threshold - 500000, threshold, threshold + 500000, 3500000, 6500000}}

Request(age, assets, cash, debt) ==
    [age |-> age, assets |-> assets, cash |-> cash, debt |-> debt, risk |-> 50, activity |-> 2]
MCRequests ==
    {Request(age, assets, 56, debt) : age \in {74, 75}, assets \in {9999, 99999, 100000}, debt \in {65, 66, 86}}
    \union {[Request(40, 10000, 55, 65) EXCEPT !.risk = 24, !.activity = 1],
            [Request(40, 9999, 55, 65) EXCEPT !.risk = 76]}

Case(request, p, q, t, quality, near, candidates) ==
    [request |-> request, probability |-> p, candidateProbability |-> q, threshold |-> t, quality |-> quality,
     exactMarginIsNear |-> near, modelName |-> "random_forest", candidates |-> candidates]

MCCases ==
    UNION {{Case(r, p, p, t, quality, quality, {"random_forest"}) :
                r \in MCRequests, p \in MCProbabilities(t), quality \in BOOLEAN}
           : t \in MCThresholds}
    \union
    {Case(r, p, q, 6500000, TRUE, TRUE, candidates) :
        r \in {Request(40, 9999, 56, 65), Request(40, 10000, 56, 66), Request(40, 10000, 56, 86)},
        p \in Around(6500000), q \in Around(6500000) \union {4000000, 5999999},
        candidates \in {{"random_forest", "logistic_regression"}, {"random_forest", "other"}}}

-----------------------------------------------------------------------------
ScalingIsIdle ==
    /\ benchmark = NoBenchmark /\ judged = benchmark /\ accelerator = "CPU_ONLY"
    /\ metrics = CHOOSE m \in Metrics : TRUE
    /\ family = CHOOSE f \in Families : TRUE
    /\ replicas = 0 /\ bounds = [min |-> 0, max |-> 0] /\ edits = 0
ScoringIsIdle ==
    /\ case = Case(Request(40, 10000, 56, 65), One, One, NoThreshold, TRUE, TRUE, {})
    /\ online = None /\ batch = None /\ shadow = None

MCInit ==
    \/ job = "benchmark" /\ Init /\ ScalingIsIdle /\ ScoringIsIdle
    \/ job = "scaling" /\ Init /\ GpuInit /\ ScoringIsIdle
    \/ job = "scoring" /\ Init /\ ScalingIsIdle /\ ScoringInit

MCNext ==
    /\ UNCHANGED job
    /\ \/ job = "benchmark" /\ Next /\ UNCHANGED <<gpuVars, scoringVars>>
       \/ job = "scaling" /\ GpuNext /\ UNCHANGED <<vars, scoringVars>>
       \/ job = "scoring" /\ ScoringNext /\ UNCHANGED <<vars, gpuVars>>

MCSpec ==
    /\ MCInit /\ [][MCNext]_<<vars, job, gpuVars, scoringVars>>
    /\ WF_vars(job = "benchmark" /\ MainStep)
    /\ \A s \in Slots : WF_vars(job = "benchmark" /\ TaskStep(s))
    /\ WF_replicas(job = "scaling" /\ Scale)
    /\ WF_accelerator(job = "scaling" /\ JudgeAccelerator)

BurstsEnd == job = "benchmark" => BenchmarkEnds

==============================================================================
