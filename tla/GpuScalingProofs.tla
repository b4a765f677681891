--------------------------- MODULE GpuScalingProofs ---------------------------
(* Theorems about GpuScaling, for any limits, evidence, families, metrics  *)
(* and bounds.                                                             *)
EXTENDS GpuScaling, TLAPS

(* A step moves the replicas by what DesiredReplicas says, which never      *)
(* leaves the range of 0 to the larger of what runs and the maximum.       *)
LEMMA DesiredStaysInRange ==
    ASSUME NEW r \in 0..MaxReplicas, NEW m, bounds \in Bounds
    PROVE  DesiredReplicas(m, r) \in 0..MaxReplicas
BY ScalingConstants DEF DesiredReplicas, Bounds

(* The decisions and counts of the GPU profile are what their files allow: *)
(* the replica count stays within MaxReplicas however often it is decided.  *)
THEOREM TypeCorrect == GpuSpec => []TypeOK
<1> USE ScalingConstants DEF ScalingConstants
<1>1. GpuInit => TypeOK
  BY DEF GpuInit, TypeOK, EvaluateAcceleratorPolicy, Decisions
<1>2. TypeOK /\ [GpuNext]_gpuVars => TypeOK'
  <2> SUFFICES ASSUME TypeOK, [GpuNext]_gpuVars PROVE TypeOK'
    OBVIOUS
  <2>1. CASE JudgeAccelerator
    BY <2>1 DEF JudgeAccelerator, TypeOK, EvaluateAcceleratorPolicy, Decisions, inputs
  <2>2. CASE Scale
    <3>1. replicas' \in 0..MaxReplicas
      BY <2>2, DesiredStaysInRange DEF Scale, TypeOK
    <3>2. QED
      BY <2>2, <3>1 DEF Scale, TypeOK, inputs
  <2>3. CASE InputsChange
    BY <2>3 DEF InputsChange, TypeOK
  <2>4. CASE EditBounds
    BY <2>4 DEF EditBounds, TypeOK, inputs
  <2>5. CASE UNCHANGED gpuVars
    BY <2>5 DEF TypeOK, gpuVars, inputs
  <2>6. QED
    BY <2>1, <2>2, <2>3, <2>4, <2>5 DEF GpuNext
<1>3. QED
  BY <1>1, <1>2, PTL DEF GpuSpec

-----------------------------------------------------------------------------
(* The decision file is never ahead of the benchmark it was made on.       *)
EligibleMeansSound == accelerator = "GPU_ELIGIBLE" => judged # NoBenchmark /\ IsSound(judged)

LEMMA PolicyAsksForSoundness ==
    ASSUME NEW f, NEW evidence, EvaluateAcceleratorPolicy(f, evidence) = "GPU_ELIGIBLE"
    PROVE  evidence # NoBenchmark /\ IsSound(evidence)
BY DEF EvaluateAcceleratorPolicy

LEMMA EligibleIsInductive == GpuSpec => []EligibleMeansSound
<1>1. GpuInit => EligibleMeansSound
  BY PolicyAsksForSoundness DEF GpuInit, EligibleMeansSound
<1>2. EligibleMeansSound /\ [GpuNext]_gpuVars => EligibleMeansSound'
  <2> SUFFICES ASSUME EligibleMeansSound, [GpuNext]_gpuVars PROVE EligibleMeansSound'
    OBVIOUS
  <2>1. CASE JudgeAccelerator
    <3> SUFFICES ASSUME accelerator' = "GPU_ELIGIBLE"
                 PROVE  judged' # NoBenchmark /\ IsSound(judged')
      BY DEF EligibleMeansSound, IsSound
    <3>1. QED
      BY <2>1, PolicyAsksForSoundness DEF JudgeAccelerator
  <2>2. CASE UNCHANGED <<accelerator, judged>>
    BY <2>2 DEF EligibleMeansSound, IsSound
  <2>3. QED
    BY <2>1, <2>2 DEF GpuNext, Scale, InputsChange, EditBounds, gpuVars, inputs
<1>3. QED
  BY <1>1, <1>2, PTL DEF GpuSpec

(* Replicas change only under a decision that was made on a real, parity-  *)
(* checked benchmark (gpu_autoscaling.py, line 24), however stale it is.    *)
THEOREM ScalingIsOnSoundEvidence == GpuSpec => ScalesOnSoundEvidence
<1>1. EligibleMeansSound /\ [GpuNext]_gpuVars
        => [replicas' # replicas => judged # NoBenchmark /\ IsSound(judged)]_gpuVars
  <2> SUFFICES ASSUME EligibleMeansSound, GpuNext, replicas' # replicas
               PROVE  judged # NoBenchmark /\ IsSound(judged)
    OBVIOUS
  <2>1. Scale
    BY DEF GpuNext, JudgeAccelerator, InputsChange, EditBounds
  <2>2. accelerator = "GPU_ELIGIBLE"
    BY <2>1 DEF Scale, DesiredReplicas
  <2>3. QED
    BY <2>2 DEF EligibleMeansSound
<1>2. QED
  BY <1>1, EligibleIsInductive, PTL DEF GpuSpec, ScalesOnSoundEvidence

(* Under bounds that stay, no decision moves the replicas further outside   *)
(* them (gpu_autoscaling.py, lines 40 and 50).                             *)
THEOREM ReplicasApproachTheirBounds == GpuSpec => NeverFurtherOut
<1> DEFINE Closer == bounds' = bounds => Outside(replicas', bounds) <= Outside(replicas, bounds)
<1>1. TypeOK /\ [GpuNext]_gpuVars => [Closer]_gpuVars
  <2> SUFFICES ASSUME TypeOK, GpuNext, bounds' = bounds
               PROVE  Outside(replicas', bounds) <= Outside(replicas, bounds)
    OBVIOUS
  <2>0. replicas \in Nat /\ bounds.min \in Nat /\ bounds.max \in Nat /\ bounds.min <= bounds.max
    BY ScalingConstants DEF TypeOK, Bounds, ScalingConstants
  <2>1. CASE Scale
    BY <2>0, <2>1 DEF Scale, DesiredReplicas, Outside
  <2>2. CASE replicas' = replicas
    BY <2>0, <2>2 DEF Outside
  <2>3. QED
    BY <2>1, <2>2 DEF GpuNext, JudgeAccelerator, InputsChange, EditBounds
<1>2. QED
  BY <1>1, TypeCorrect, PTL DEF GpuSpec, NeverFurtherOut

=============================================================================
