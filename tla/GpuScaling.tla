----------------------------- MODULE GpuScaling -----------------------------
(***************************************************************************)
(* The GPU profile: src/operations/accelerator_policy.py decides from      *)
(* benchmark evidence whether a model may use it, and                      *)
(* src/operations/gpu_autoscaling.py, reading that decision, takes one     *)
(* replica more or less.  Both are run again and again on files that       *)
(* change in between; what is decided is applied before the next run.      *)
(*                                                                         *)
(* Utilizations and ratios are in hundredths, queue times in milliseconds. *)
(***************************************************************************)
EXTENDS Integers

CONSTANTS
    Accelerator,    \* config/accelerator_policy.yaml
    Scaling,        \* config/gpu_autoscaling.yaml, but for the replica bounds
    Evidence,       \* GPU benchmarks there may be
    Families,       \* model families there may be
    Metrics,        \* what the running replicas may report
    MaxReplicas,    \* bound on replica counts
    MaxEdits        \* bound on the edits of the replica bounds

NoBenchmark == [runtime |-> "none"]

ASSUME ScalingConstants ==
    /\ MaxReplicas \in Nat /\ MaxEdits \in Nat
    /\ NoBenchmark \notin Evidence
    /\ Evidence # {} /\ Families # {} /\ Metrics # {}

VARIABLES
    family, benchmark,      \* the exported model's family and its GPU benchmark
    accelerator,            \* accelerator_decision.json: the decision
    judged,                 \* history: the benchmark it was made on
    metrics, replicas,
    bounds,                 \* min_replicas and max_replicas
    edits

inputs == <<family, benchmark, metrics>>
gpuVars == <<inputs, accelerator, judged, replicas, bounds, edits>>

Decisions == {"CPU_ONLY", "GPU_BENCHMARK_REQUIRED", "GPU_ELIGIBLE", "GPU_REJECTED"}
Bounds == [min : 0..MaxReplicas, max : 0..MaxReplicas]

TypeOK ==
    /\ family \in Families /\ benchmark \in Evidence \union {NoBenchmark}
    /\ judged \in Evidence \union {NoBenchmark}
    /\ accelerator \in Decisions
    /\ metrics \in Metrics
    /\ replicas \in 0..MaxReplicas
    /\ bounds \in Bounds /\ bounds.min <= bounds.max
    /\ edits \in 0..MaxEdits

-----------------------------------------------------------------------------
IsSound(evidence) ==
    /\ evidence.runtime = "real_gpu"
    /\ evidence.probabilityParity = "PASS" /\ evidence.decisionParity = "PASS"

IsWorthwhile(evidence) ==
    /\ evidence.speedup >= Accelerator.minSpeedup
    /\ evidence.latencyRatio <= Accelerator.maxLatencyRatio
    /\ evidence.utilization \in Accelerator.minUtilization .. Accelerator.maxUtilization

EvaluateAcceleratorPolicy_worthwhile_only(f, evidence) ==
    IF f \notin Accelerator.candidates THEN "CPU_ONLY"
    ELSE IF evidence = NoBenchmark THEN "GPU_BENCHMARK_REQUIRED"
    ELSE IF IsWorthwhile(evidence) THEN "GPU_ELIGIBLE" ELSE "GPU_REJECTED"

EvaluateAcceleratorPolicy(f, evidence) ==
    IF f \notin Accelerator.candidates THEN "CPU_ONLY"
    ELSE IF evidence = NoBenchmark THEN "GPU_BENCHMARK_REQUIRED"
    ELSE IF IsSound(evidence) /\ IsWorthwhile(evidence) THEN "GPU_ELIGIBLE" ELSE "GPU_REJECTED"

HighLoad(m) == m.gpu >= Scaling.highGpu \/ m.queueMs >= Scaling.highQueueMs
SpareCapacity(m) == m.gpu <= Scaling.lowGpu /\ m.queueMs <= Scaling.lowQueueMs
BatchingPresent(m) == m.averageBatch >= Scaling.minBatch

DesiredReplicas_unbounded_out(m, current) ==
    IF accelerator # "GPU_ELIGIBLE" THEN current
    ELSE IF HighLoad(m) THEN current + 1
    ELSE IF SpareCapacity(m) /\ BatchingPresent(m) /\ current > bounds.min THEN current - 1
    ELSE current

DesiredReplicas_stops_short(m, current) ==
    IF accelerator # "GPU_ELIGIBLE" THEN current
    ELSE IF HighLoad(m) /\ current + 1 < bounds.max THEN current + 1
    ELSE IF SpareCapacity(m) /\ BatchingPresent(m) /\ current > bounds.min THEN current - 1
    ELSE current

(* Without an eligible accelerator, what runs is left as it is.            *)
DesiredReplicas(m, current) ==
    IF accelerator # "GPU_ELIGIBLE" THEN current
    ELSE IF HighLoad(m) /\ current < bounds.max THEN current + 1
    ELSE IF SpareCapacity(m) /\ BatchingPresent(m) /\ current > bounds.min THEN current - 1
    ELSE current

-----------------------------------------------------------------------------
GpuInit ==
    /\ family \in Families /\ benchmark \in Evidence \union {NoBenchmark}
    /\ metrics \in Metrics
    /\ accelerator = EvaluateAcceleratorPolicy(family, benchmark) /\ judged = benchmark
    /\ bounds \in Bounds /\ bounds.min <= bounds.max
    /\ replicas \in 0..MaxReplicas
    /\ edits = 0

JudgeAccelerator ==
    /\ accelerator' = EvaluateAcceleratorPolicy(family, benchmark)
    /\ judged' = benchmark
    /\ UNCHANGED <<inputs, replicas, bounds, edits>>

Scale ==
    /\ replicas' = DesiredReplicas(metrics, replicas)
    /\ UNCHANGED <<inputs, accelerator, judged, bounds, edits>>

(* A model is exported, a benchmark is run, load changes.                  *)
InputsChange ==
    /\ family' \in Families /\ benchmark' \in Evidence \union {NoBenchmark}
    /\ metrics' \in Metrics
    /\ UNCHANGED <<accelerator, judged, replicas, bounds, edits>>

EditBounds ==
    /\ edits < MaxEdits /\ edits' = edits + 1
    /\ bounds' \in Bounds /\ bounds'.min <= bounds'.max
    /\ UNCHANGED <<inputs, accelerator, judged, replicas>>

GpuNext == JudgeAccelerator \/ Scale \/ InputsChange \/ EditBounds

GpuSpec == GpuInit /\ [][GpuNext]_gpuVars

(* Both scripts are run again and again.                                   *)
GpuFairSpec == GpuSpec /\ WF_accelerator(JudgeAccelerator) /\ WF_replicas(Scale)

-----------------------------------------------------------------------------
Outside(r, b) == IF r < b.min THEN b.min - r ELSE IF r > b.max THEN r - b.max ELSE 0

(* Replicas within the bounds stay within them, and replicas an edit left  *)
(* outside are never moved further out.                                    *)
NeverFurtherOut == [][bounds' = bounds => Outside(replicas', bounds) <= Outside(replicas, bounds)]_gpuVars

(* The number of replicas changes only when the accelerator decision in    *)
(* force was made on a real, parity-checked benchmark.                     *)
ScalesOnSoundEvidence ==
    [][replicas' # replicas => judged # NoBenchmark /\ IsSound(judged)]_gpuVars

(* Load that the queue and the GPU both show to be high, and that stays so, *)
(* gets all the replicas the bounds allow, from any number of them,        *)
(* provided the evidence stays good.  (The code asks for one of the two:   *)
(* the runbook's warning that a high GPU alone is no signal is not kept.)  *)
PressureIsAnswered ==
    <>[](/\ family \in Accelerator.candidates
         /\ benchmark # NoBenchmark /\ IsSound(benchmark) /\ IsWorthwhile(benchmark)
         /\ metrics.gpu >= Scaling.highGpu /\ metrics.queueMs >= Scaling.highQueueMs)
        => <>[](replicas >= bounds.max)

=============================================================================
