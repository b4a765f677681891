----------------------------- MODULE ReleaseProofs -----------------------------
(***************************************************************************)
(* Theorems about Release, for any data sets, outcomes of training,        *)
(* commits and number of targets.                                          *)
(***************************************************************************)
EXTENDS Release, FiniteSetTheorems, TLAPS

(* Rows come before each other as their dates and customers do, and a row's *)
(* rank counts those before it.                                            *)
LEMMA RanksFollowRows ==
    ASSUME NEW rows \in SUBSET [date : Int, customer : Int, positive : BOOLEAN], IsFiniteSet(rows)
    PROVE  /\ Cardinality(rows) \in Nat
           /\ \A row \in rows : Rank(rows, row) \in 0..(Cardinality(rows) - 1)
           /\ \A a, b \in rows : Before(a, b) => Rank(rows, a) < Rank(rows, b)
<1> DEFINE earlier(row) == {other \in rows : Before(other, row)}
<1>1. \A row \in rows : row.date \in Int /\ row.customer \in Int
  OBVIOUS
<1>2. \A row \in rows : row \notin earlier(row) /\ earlier(row) \in SUBSET rows
  BY <1>1 DEF Before
<1>3. Cardinality(rows) \in Nat
  BY FS_CardinalityType
<1>4. ASSUME NEW row \in rows
      PROVE  /\ IsFiniteSet(earlier(row)) /\ Cardinality(earlier(row)) \in Nat
             /\ Cardinality(earlier(row)) < Cardinality(rows)
  <2>1. /\ IsFiniteSet(earlier(row)) /\ Cardinality(earlier(row)) \in Nat
        /\ Cardinality(earlier(row)) <= Cardinality(rows)
        /\ Cardinality(earlier(row)) # Cardinality(rows)
    BY <1>2, FS_Subset, FS_CardinalityType
  <2> QED BY <1>3, <2>1
<1>5. ASSUME NEW a \in rows, NEW b \in rows, Before(a, b)
      PROVE  Cardinality(earlier(a)) < Cardinality(earlier(b))
  <2>1. earlier(a) \in SUBSET earlier(b) /\ a \in earlier(b) /\ a \notin earlier(a)
    BY <1>1, <1>2, <1>5 DEF Before
  <2>2. /\ Cardinality(earlier(a)) <= Cardinality(earlier(b))
        /\ Cardinality(earlier(a)) # Cardinality(earlier(b))
    <3> HIDE DEF earlier
    <3>1. IsFiniteSet(earlier(b)) /\ earlier(a) # earlier(b)
      BY <1>4, <2>1
    <3> QED BY <2>1, <3>1, FS_Subset
  <2>3. Cardinality(earlier(a)) \in Nat /\ Cardinality(earlier(b)) \in Nat
    BY <1>4
  <2> HIDE DEF earlier
  <2> QED BY <2>2, <2>3
<1> QED BY <1>3, <1>4, <1>5 DEF Rank

(* int(0.70 * n) may be one short and yet not below int(0.60 * n).         *)
LEMMA BoundariesFollowEachOther ==
    ASSUME NEW n \in Nat
    PROVE  LET at == Boundary(n)
           IN  /\ at[0] = 0 /\ at[10] = n
               /\ at[6] \in Nat /\ at[7] \in Nat /\ at[8] \in Nat /\ at[9] \in Nat
               /\ at[6] <= at[7] /\ at[7] <= at[8] /\ at[8] <= at[9] /\ at[9] <= n
<1> DEFINE at == Boundary(n)
<1>1. /\ at[0] = (0 * n) \div 10 /\ at[6] = (6 * n) \div 10
      /\ at[7] = (7 * n) \div 10 - (IF n \in ShortSeventy THEN 1 ELSE 0)
      /\ at[8] = (8 * n) \div 10 /\ at[9] = (9 * n) \div 10 /\ at[10] = (10 * n) \div 10
  BY DEF Boundary
<1>2. n \in ShortSeventy => n # 0 /\ (7 * n) % 10 = 0
  BY EvaluationConstants
<1> QED BY <1>1, <1>2

WindowOrder == <<"train", "model_selection", "calibration", "policy_validation", "out_of_time_test">>

(* Every row is in a window, and a row of an earlier window is another row  *)
(* than one of a later window, and of no later date.                       *)
LEMMA WindowsAreOrdered ==
    ASSUME NEW rows \in SUBSET [date : Int, customer : Int, positive : BOOLEAN], IsFiniteSet(rows)
    PROVE  LET split == TemporalSplit(rows)
           IN  /\ rows = UNION {split[w] : w \in Windows}
               /\ \A a, b \in 1..5 : a < b =>
                    \A early \in split[WindowOrder[a]], late \in split[WindowOrder[b]] :
                        early # late /\ early.date <= late.date
<1> DEFINE n == Cardinality(rows)
           at == Boundary(n)
           split == TemporalSplit(rows)
<1>1. /\ n \in Nat
      /\ \A row \in rows : Rank(rows, row) \in 0..(n - 1)
      /\ \A a, b \in rows : Before(a, b) => Rank(rows, a) < Rank(rows, b)
  BY RanksFollowRows
<1>2. /\ split["train"] = Slice(rows, at[0], at[6])
      /\ split["model_selection"] = Slice(rows, at[6], at[7])
      /\ split["calibration"] = Slice(rows, at[7], at[8])
      /\ split["policy_validation"] = Slice(rows, at[8], at[9])
      /\ split["out_of_time_test"] = Slice(rows, at[9], at[10])
  BY DEF TemporalSplit, Windows, Tenths
<1>3. /\ at[0] = 0 /\ at[10] = n
      /\ at[6] \in Nat /\ at[7] \in Nat /\ at[8] \in Nat /\ at[9] \in Nat
      /\ at[6] <= at[7] /\ at[7] <= at[8] /\ at[8] <= at[9] /\ at[9] <= n
  BY <1>1, BoundariesFollowEachOther
<1> HIDE DEF n, at, split
<1>4. rows = UNION {split[w] : w \in Windows}
  <2>1. ASSUME NEW row \in rows PROVE \E w \in Windows : row \in split[w]
    <3>1. Rank(rows, row) \in 0..(n - 1)
      BY <1>1
    <3>2. \/ Rank(rows, row) \in 0..(at[6] - 1) \/ Rank(rows, row) \in at[6]..(at[7] - 1)
          \/ Rank(rows, row) \in at[7]..(at[8] - 1) \/ Rank(rows, row) \in at[8]..(at[9] - 1)
          \/ Rank(rows, row) \in at[9]..(n - 1)
      BY <1>1, <1>3, <3>1
    <3> QED BY <1>2, <1>3, <3>2 DEF Slice, Windows
  <2>2. ASSUME NEW w \in Windows PROVE split[w] \subseteq rows
    BY <1>2 DEF Slice, Windows
  <2> QED BY <2>1, <2>2
<1>5. ASSUME NEW a \in 1..5, NEW b \in 1..5, a < b,
             NEW early \in split[WindowOrder[a]], NEW late \in split[WindowOrder[b]]
      PROVE  early # late /\ early.date <= late.date
  <2>1. early \in rows /\ late \in rows /\ Rank(rows, early) < Rank(rows, late)
    <3> DEFINE first == <<at[0], at[6], at[7], at[8], at[9]>>
               end == <<at[6], at[7], at[8], at[9], at[10]>>
    <3>1. \A i \in 1..5 : split[WindowOrder[i]] = Slice(rows, first[i], end[i])
      BY <1>2 DEF WindowOrder
    <3>2. /\ \A i \in 1..5 : first[i] \in Int /\ end[i] \in Int
          /\ end[a] <= first[b]
      BY <1>1, <1>3, <1>5
    <3> HIDE DEF first, end
    <3>3. early \in rows /\ late \in rows
          /\ Rank(rows, early) \in first[a]..(end[a] - 1) /\ Rank(rows, late) \in first[b]..(end[b] - 1)
      BY <3>1 DEF Slice
    <3> QED BY <1>1, <3>2, <3>3
  <2>2. ~(late.date < early.date)
    BY <1>1, <2>1 DEF Before
  <2> QED BY <1>1, <2>1, <2>2
<1> QED BY <1>4, <1>5 DEF split

-----------------------------------------------------------------------------
(* Types.  The model in the tree is always the last training's.            *)

FileNames ==
    {"raw", "features", "model", "candidates", "metadata", "metrics", "base", "calibrator", "configs",
     "preprocessor", "contract", "repository", "parity", "drift", "quality", "gate", "ranking",
     "decision", "pack"}

Thresholds == {ChoosePolicyThreshold(outcome.table) : outcome \in Outcomes}
Trainings == [data : DOMAIN DataSets, best : Names, outcome : Outcomes, threshold : Thresholds]

JobIsRunning ==
    /\ job.target \in Targets
    /\ job.step \in 1..21 /\ job.step <= Len(job.target)
    /\ job.training \in 0..Len(trainings)

JobInv == job # Idle => JobIsRunning /\ complete = FALSE

FilesInv ==
    /\ trainings \in Seq(Trainings)
    /\ DOMAIN tree = FileNames
    /\ tree.raw \in {0} \union DOMAIN DataSets
    /\ tree.features \in {0} \union DOMAIN DataSets
    /\ tree.model = Len(trainings)
    /\ tree.base \in 0..Len(trainings)
    /\ tree.metadata \in 0..Len(trainings) /\ tree.metrics \in 0..Len(trainings)

ImagesInv == \E records : images \in Seq(records)

LEMMA EvidenceScripts ==
    /\ Len(Evidence) = 21
    /\ Evidence[1] = "data" /\ Evidence[2] = "features"
    /\ Evidence[3] = "model" /\ Evidence[4] = "unlink" /\ Evidence[5] = "candidates"
    /\ Evidence[6] = "metadata" /\ Evidence[7] = "metrics"
    /\ Evidence[8] = "base" /\ Evidence[9] = "calibrator" /\ Evidence[10] = "configs"
    /\ Evidence[11] = "preprocessor" /\ Evidence[12] = "contract"
    /\ Evidence[13] = "validate" /\ Evidence[14] = "parity"
    /\ Evidence[15] = "drift" /\ Evidence[16] = "quality" /\ Evidence[17] = "gate" /\ Evidence[18] = "ranking"
    /\ Evidence[19] = "decide" /\ Evidence[20] = "batch" /\ Evidence[21] = "approval"
BY DEF Evidence, TrainScript, TritonScripts, ReportScripts

(* Every target has a first script, and at most 21.                        *)
LEMMA TargetsAreScripts ==
    ASSUME NEW target \in Targets
    PROVE  target # <<>> /\ Len(target) \in 1..21
<1>1. Len(Evidence) = 21
  BY EvidenceScripts
<1>2. CASE target # Evidence
  BY <1>2 DEF Targets, TrainScript, TritonScripts, ReportScripts
<1> QED BY <1>1, <1>2

(* The script that runs is one of its target.                              *)
LEMMA RunningIsOfTarget ==
    ASSUME JobInv, NEW script, Running(script)
    PROVE  /\ job # Idle /\ job.target \in Targets
           /\ job.step \in 1..21 /\ job.step \in 1..Len(job.target) /\ job.target[job.step] = script
<1>1. job # Idle /\ job.target[job.step] = script
  BY DEF Running
<1>2. job.target \in Targets /\ job.step \in 1..21 /\ job.step <= Len(job.target)
  BY <1>1 DEF JobInv, JobIsRunning
<1>3. Len(job.target) \in 1..21
  BY <1>2, TargetsAreScripts
<1>4. ASSUME NEW step \in 1..21, NEW length \in 1..21, step <= length
      PROVE  step \in 1..length
  BY <1>4
<1>5. job.step \in 1..Len(job.target)
  BY <1>2, <1>3, <1>4, Zenon
<1> QED BY <1>1, <1>2, <1>5

(* A target that goes on is at its next script; it never is idle.          *)
LEMMA TargetGoesOn ==
    ASSUME JobInv, job # Idle, NEW training \in 0..Len(trainings'), Proceed(training)
    PROVE  \/ job' = Idle
           \/ /\ job' # Idle
              /\ job'.target = job.target /\ job'.step = job.step + 1 /\ job'.training = training
              /\ JobIsRunning'
<1>1. /\ job.target \in Targets
      /\ job.step \in 1..21 /\ job.step <= Len(job.target)
  BY DEF JobInv, JobIsRunning
<1>2. job.target # <<>> /\ Len(job.target) \in 1..21
  BY <1>1, TargetsAreScripts
<1>3. CASE job.step = Len(job.target)
  BY <1>3 DEF Proceed
<1>4. CASE job.step # Len(job.target)
  <2>1. job' = [target |-> job.target, step |-> job.step + 1, training |-> training]
    BY <1>4 DEF Proceed
  <2>2. job'.target = job.target /\ job'.step = job.step + 1 /\ job'.training = training
    BY <2>1
  <2>3. job' # Idle
    BY <1>2, <2>2 DEF Idle
  <2>4. job.step + 1 \in 1..21 /\ job.step + 1 <= Len(job.target)
    <3>1. ASSUME NEW step \in 1..21, NEW length \in 1..21, step <= length, step # length
          PROVE  step + 1 \in 1..21 /\ step + 1 <= length
      BY <3>1
    <3> QED BY <1>1, <1>2, <1>4, <3>1, Zenon
  <2> QED BY <1>1, <2>2, <2>3, <2>4 DEF JobIsRunning
<1> QED BY <1>3, <1>4

(* What a script that trains nothing does: it stops the target, or writes   *)
(* its file and lets the target go on.                                     *)
LEMMA ScriptWrites ==
    ASSUME JobInv, FilesInv, NEW script, NEW good, NEW new, Writes(script, good, new)
    PROVE  /\ job # Idle /\ JobIsRunning /\ complete = FALSE /\ job.target[job.step] = script
           /\ UNCHANGED <<trainings, complete, jobs, registered, images, artifacts, ready>>
           /\ \/ tree' = tree /\ job' = Idle
              \/ good /\ tree' = new /\ Proceed(job.training)
           /\ JobInv'
<1>1. job # Idle /\ JobIsRunning /\ complete = FALSE /\ job.target[job.step] = script
  BY DEF Writes, Running, JobInv
<1>2. /\ UNCHANGED <<trainings, complete, jobs, registered, images, artifacts, ready>>
      /\ \/ tree' = tree /\ job' = Idle
         \/ good /\ tree' = new /\ Proceed(job.training)
  BY DEF Writes, Proceed, Fail
<1>3. JobInv'
  <2>1. CASE job' = Idle
    BY <2>1 DEF JobInv
  <2>2. CASE job' # Idle
    <3>1. job.training \in 0..Len(trainings')
      BY <1>1, <1>2 DEF JobIsRunning
    <3> QED BY <1>1, <1>2, <2>2, <3>1, TargetGoesOn DEF JobInv
  <2> QED BY <2>1, <2>2
<1> QED BY <1>1, <1>2, <1>3

(* The same for the three scripts of the export that do not fit Writes.    *)
LEMMA ReadingGoesOn ==
    ASSUME JobInv, NEW script, Running(script), NEW training \in 0..Len(trainings),
           UNCHANGED <<trainings, complete>>, job' = Idle \/ Proceed(training)
    PROVE  JobInv'
<1>1. job # Idle /\ complete = FALSE
  BY DEF Running, JobInv
<1>2. CASE job' = Idle
  BY <1>2 DEF JobInv
<1>3. CASE job' # Idle
  BY <1>1, <1>3, TargetGoesOn DEF JobInv
<1> QED BY <1>2, <1>3

(* Approval ends its targets: there is none in which a script follows it.  *)
LEMMA ApprovalIsLast ==
    ASSUME JobInv, Running("approval"), NEW training, Proceed(training)
    PROVE  job' = Idle
<1>1. job.target \in Targets /\ job.step \in 1..Len(job.target) /\ job.target[job.step] = "approval"
  BY RunningIsOfTarget, Zenon
<1>2. job.step = Len(job.target)
  <2>1. CASE job.target = Evidence
    BY <1>1, <2>1, EvidenceScripts
  <2>2. CASE job.target # Evidence
    <3>1. CASE job.target = TrainScript
      BY <1>1, <3>1 DEF TrainScript
    <3>2. CASE job.target = TritonScripts
      BY <1>1, <3>2 DEF TritonScripts
    <3>3. CASE job.target = ReportScripts
      BY <1>1, <3>3 DEF ReportScripts
    <3>4. CASE Len(job.target) = 1
      BY <1>1, <3>4
    <3> QED BY <1>1, <2>2, <3>1, <3>2, <3>3, <3>4 DEF Targets
  <2> QED BY <2>1, <2>2
<1> QED BY <1>2 DEF Proceed

LEMMA TypesAreInductive == Spec => [](JobInv /\ FilesInv /\ ImagesInv)
<1>1. Init => JobInv /\ FilesInv /\ ImagesInv
  <2> SUFFICES ASSUME Init PROVE JobInv /\ FilesInv /\ ImagesInv
    OBVIOUS
  <2>1. /\ DOMAIN tree = FileNames
        /\ tree.raw = 0 /\ tree.features = 0 /\ tree.model = 0 /\ tree.base = 0
        /\ tree.metadata = 0 /\ tree.metrics = 0
    BY DEF Init, NoFiles, FileNames
  <2>2. Len(trainings) = 0 /\ trainings \in Seq(Trainings)
    BY DEF Init
  <2>3. FilesInv
    BY <2>1, <2>2 DEF FilesInv
  <2>4. ImagesInv
    <3>1. images \in Seq({})
      BY DEF Init
    <3> QED BY <3>1 DEF ImagesInv
  <2> QED BY <2>3, <2>4 DEF Init, JobInv
<1>2. JobInv /\ FilesInv /\ ImagesInv /\ [Next]_vars => (JobInv /\ FilesInv /\ ImagesInv)'
  <2> SUFFICES ASSUME JobInv, FilesInv, ImagesInv, [Next]_vars
               PROVE  (JobInv /\ FilesInv /\ ImagesInv)'
    OBVIOUS
  <2>1. Len(trainings) \in Nat
    BY DEF FilesInv
  <2>2. job.training \in 0..Len(trainings)
    BY <2>1 DEF JobInv, JobIsRunning, Idle
  <2>3. CASE MakeDataset
    <3>1. PICK data \in DOMAIN DataSets : Writes("data", TRUE, [tree EXCEPT !.raw = data])
      BY <2>3 DEF MakeDataset
    <3>2. JobInv' /\ UNCHANGED <<trainings, images>>
          /\ (tree' = tree \/ tree' = [tree EXCEPT !.raw = data])
      BY <3>1, ScriptWrites
    <3> QED BY <3>2 DEF FilesInv, FileNames, ImagesInv
  <2>4. CASE BuildFeatures
    <3>1. JobInv' /\ UNCHANGED <<trainings, images>>
          /\ (tree' = tree \/ tree' = [tree EXCEPT !.features = tree.raw])
      BY <2>4, ScriptWrites DEF BuildFeatures
    <3> QED BY <3>1 DEF FilesInv, FileNames, ImagesInv
  <2>5. ASSUME NEW script, NEW good, NEW file \in FileNames, NEW value,
               Writes(script, good, [tree EXCEPT ![file] = value]),
               file \in {"metadata", "metrics"} => value = job.training,
               file \notin {"raw", "features", "model", "base"}
        PROVE  (JobInv /\ FilesInv /\ ImagesInv)'
    <3>1. JobInv' /\ UNCHANGED <<trainings, images>>
          /\ (tree' = tree \/ tree' = [tree EXCEPT ![file] = value])
      BY <2>5, ScriptWrites
    <3> QED BY <2>2, <2>5, <3>1 DEF FilesInv, FileNames, ImagesInv
  <2>6. CASE UnlinkCandidates \/ WriteMetadata \/ WriteMetrics
    BY <2>5, <2>6 DEF UnlinkCandidates, WriteMetadata, WriteMetrics, FileNames
  <2>7. CASE ExportCalibrator \/ WriteConfigs \/ DumpPreprocessor \/ WriteContract
    BY <2>5, <2>7 DEF ExportCalibrator, WriteConfigs, DumpPreprocessor, WriteContract, FileNames
  <2>8. CASE DumpCandidates \/ ReportDrift \/ ReportQuality \/ ReportGate \/ ReportRanking
    BY <2>5, <2>8 DEF DumpCandidates, ReportDrift, ReportQuality, ReportGate, ReportRanking, FileNames
  <2>9. CASE Decide
    <3>1. PICK observed \in Observations :
            Writes("decide", tree.drift.data # 0 /\ tree.quality.data # 0,
                   [tree EXCEPT !.decision =
                        [training |-> tree.metrics, observed |-> observed,
                         action |-> DecideContinuousAction(DataSets[tree.drift.data].drift,
                                                           tree.quality.status, observed)]])
      BY <2>9 DEF Decide
    <3> QED BY <2>5, <3>1 DEF FileNames
  <2>10. CASE BatchScore
    <3>1. JobInv' /\ UNCHANGED <<trainings, images, tree>>
      BY <2>10, ScriptWrites DEF BatchScore
    <3> QED BY <3>1 DEF FilesInv, ImagesInv
  (* A training is appended, and the model is its. *)
  <2>11. CASE Train
    <3>1. job # Idle /\ JobIsRunning /\ complete = FALSE /\ UNCHANGED <<complete, images>>
      BY <2>11 DEF Train, Running, JobInv, Fail, Proceed
    <3>2. CASE UNCHANGED <<trainings, tree>> /\ Fail
      BY <3>1, <3>2 DEF Fail, JobInv, FilesInv, ImagesInv, JobIsRunning
    <3>3. CASE ~(UNCHANGED <<trainings, tree>> /\ Fail)
      <4>1. PICK outcome \in Outcomes :
              trainings' = Append(trainings,
                    [data |-> tree.features, best |-> Leader(outcome.selection), outcome |-> outcome,
                     threshold |-> ChoosePolicyThreshold(outcome.table)])
        BY <2>11, <3>3 DEF Train
      <4>2. /\ tree.features # 0
            /\ tree' = [tree EXCEPT !.model = Len(trainings')] /\ Proceed(Len(trainings'))
        BY <2>11, <3>3 DEF Train
      <4>3. [data |-> tree.features, best |-> Leader(outcome.selection), outcome |-> outcome,
             threshold |-> ChoosePolicyThreshold(outcome.table)] \in Trainings
        BY <4>2 DEF FilesInv, Trainings, Thresholds, Leader, Names
      <4>4. trainings' \in Seq(Trainings) /\ Len(trainings') = Len(trainings) + 1
        BY <4>1, <4>3 DEF FilesInv
      <4>5. FilesInv'
        BY <2>1, <4>2, <4>4 DEF FilesInv, FileNames
      <4>6. JobInv'
        <5>1. Len(trainings') \in 0..Len(trainings')
          BY <2>1, <4>4
        <5>2. job' = Idle \/ JobIsRunning'
          BY <3>1, <4>2, <5>1, TargetGoesOn
        <5> QED BY <3>1, <5>2 DEF JobInv
      <4> QED BY <3>1, <4>5, <4>6 DEF ImagesInv
    <3> QED BY <3>2, <3>3
  <2>12. CASE ExportBase
    <3>1. Running("base") /\ UNCHANGED <<trainings, complete, images>>
          /\ \/ tree' = tree /\ job' = Idle
             \/ tree' = [tree EXCEPT !.base = tree.model] /\ Proceed(tree.model)
      BY <2>12 DEF ExportBase, Fail, Proceed
    <3>2. JobInv'
      BY <2>1, <3>1, ReadingGoesOn DEF FilesInv
    <3> QED BY <2>1, <3>1, <3>2 DEF FilesInv, FileNames, ImagesInv
  <2>13. CASE ValidateRepository \/ ValidateExport
    <3>1. /\ Running("validate") \/ Running("parity")
          /\ UNCHANGED <<trainings, complete, images>>
          /\ job' = Idle \/ Proceed(job.training)
      BY <2>13 DEF ValidateRepository, ValidateExport, Reports, Fail, Proceed
    <3>2. \E file \in {"repository", "parity"}, status \in {"PASS", "FAIL"} :
            tree' = tree \/ tree' = [tree EXCEPT ![file] = status]
      BY <2>13 DEF ValidateRepository, ValidateExport, Reports
    <3>3. JobInv'
      BY <2>2, <3>1, ReadingGoesOn
    <3> QED BY <3>1, <3>2, <3>3 DEF FilesInv, FileNames, ImagesInv
  <2>14. CASE BuildApprovalPack
    <3>1. /\ Running("approval") /\ UNCHANGED <<trainings, images>> /\ Proceed(0)
          /\ complete' = (job.target = Evidence)
      BY <2>14 DEF BuildApprovalPack, Proceed
    <3>2. PICK value : tree' = [tree EXCEPT !.pack = value]
      BY <2>14 DEF BuildApprovalPack
    <3>3. job' = Idle
      BY <3>1, ApprovalIsLast
    <3> QED BY <3>1, <3>2, <3>3 DEF FilesInv, FileNames, JobInv, ImagesInv
  <2>15. CASE Start
    BY <2>1, <2>15, TargetsAreScripts DEF Start, JobInv, JobIsRunning, FilesInv, ImagesInv
  <2>16. CASE Crash
    BY <2>16 DEF Crash, Fail, JobInv, FilesInv, ImagesInv
  <2>17. CASE RegisterRelease \/ Promote
    BY <2>17 DEF RegisterRelease, NextJob, Promote, JobInv, JobIsRunning, FilesInv, ImagesInv
  <2>18. CASE BuildImage \/ ContainerJob
    <3>1. ImagesInv'
      <4>1. PICK records : images \in Seq(records)
        BY DEF ImagesInv
      <4>2. images' = Append(images, Image)
        BY <2>18 DEF BuildImage, ContainerJob
      <4>3. images \in Seq(records \union {Image})
        BY <4>1
      <4>4. images' \in Seq(records \union {Image})
        BY <4>2, <4>3
      <4> QED BY <4>4 DEF ImagesInv
    <3> QED BY <2>18, <3>1 DEF BuildImage, ContainerJob, NextJob, JobInv, JobIsRunning, FilesInv
  <2>19. CASE UNCHANGED vars
    BY <2>19 DEF vars, JobInv, JobIsRunning, FilesInv, ImagesInv
  <2> QED BY <2>3, <2>4, <2>6, <2>7, <2>8, <2>9, <2>10, <2>11, <2>12, <2>13, <2>14, <2>15, <2>16,
             <2>17, <2>18, <2>19 DEF Next
<1>3. QED
  BY <1>1, <1>2, PTL DEF Spec

(* The five windows of every training share no row, miss none and follow    *)
(* each other in time (evaluation.py, 91-106).                             *)
THEOREM TrainingsAreOnEarlierRows == Spec => []EvaluatedOnLaterRows
<1>1. ASSUME NEW data \in DOMAIN DataSets PROVE WindowsFollowInTime[data]
  <2> DEFINE rows == DataSets[data].rows
             split == TemporalSplit(rows)
  <2>1. rows \in SUBSET [date : Int, customer : Int, positive : BOOLEAN] /\ IsFiniteSet(rows)
    <3> DEFINE Rows == SUBSET [date : Int, customer : Int, positive : BOOLEAN]
               Quality == [missing : Int, violations : Int]
               Drift == [psi : Int, distance : Int]
               Inputs == [rows : Rows, quality : Quality, valid : BOOLEAN, drift : Drift]
    <3>1. DataSets \in Seq(Inputs)
      BY ReleaseInputs
    <3> HIDE DEF Inputs
    <3>2. DataSets[data] \in Inputs
      BY <3>1
    <3> HIDE DEF Rows, Quality, Drift
    <3>3. rows \in Rows
      BY <3>2, Zenon DEF Inputs
    <3> QED BY <3>3, ReleaseInputs, Zenon DEF Rows
  <2>2. /\ rows = UNION {split[w] : w \in Windows}
        /\ \A a, b \in 1..5 : a < b =>
             \A early \in split[WindowOrder[a]], late \in split[WindowOrder[b]] :
                 early # late /\ early.date <= late.date
    <3> HIDE DEF rows
    <3> QED BY <2>1, WindowsAreOrdered
  <2>3. SplitOf[data] = split
    BY DEF SplitOf
  <2>4. WindowsFollowInTime[data] =
          (/\ rows = UNION {SplitOf[data][w] : w \in Windows}
           /\ \A a, b \in 1..5 : a < b =>
                \A early \in SplitOf[data][WindowOrder[a]], late \in SplitOf[data][WindowOrder[b]] :
                    early # late /\ early.date <= late.date)
    BY Zenon DEF WindowsFollowInTime, WindowOrder
  <2> HIDE DEF split, rows
  <2> QED BY <2>2, <2>3, <2>4, Zenon
<1>2. FilesInv => EvaluatedOnLaterRows
  <2> SUFFICES ASSUME FilesInv, NEW i \in DOMAIN trainings PROVE WindowsFollowInTime[trainings[i].data]
    BY DEF EvaluatedOnLaterRows
  <2>1. trainings[i] \in Trainings
    BY DEF FilesInv
  <2> QED BY <1>1, <2>1 DEF Trainings
<1>3. QED
  BY <1>2, TypesAreInductive, PTL

-----------------------------------------------------------------------------
(* What a step changes.                                                    *)

(* Trainings are appended, and none is rewritten.                          *)
LEMMA TrainingsAreKept ==
    ASSUME FilesInv, [Next]_vars
    PROVE  \/ UNCHANGED trainings
           \/ /\ Train /\ trainings # trainings' /\ Len(trainings') = Len(trainings) + 1
              /\ \A t \in 1..Len(trainings) : trainings'[t] = trainings[t]
              /\ trainings'[Len(trainings')].data = tree.features
<1>1. CASE Train
  <2>1. CASE UNCHANGED trainings
    BY <2>1
  <2>2. CASE ~UNCHANGED trainings
    <3>1. PICK outcome \in Outcomes :
            trainings' = Append(trainings,
                  [data |-> tree.features, best |-> Leader(outcome.selection), outcome |-> outcome,
                   threshold |-> ChoosePolicyThreshold(outcome.table)])
      BY <1>1, <2>2 DEF Train
    <3>2. trainings \in Seq(Trainings)
      BY DEF FilesInv
    <3> QED BY <1>1, <2>2, <3>1, <3>2
  <2> QED BY <2>1, <2>2
<1>2. CASE ~Train
  BY <1>2 DEF Next, vars, Writes, Reports, Start, Crash, MakeDataset, BuildFeatures, UnlinkCandidates,
         DumpCandidates, WriteMetadata, WriteMetrics, ExportBase, ExportCalibrator, WriteConfigs,
         DumpPreprocessor, WriteContract, ValidateRepository, ValidateExport, ReportDrift, ReportQuality,
         ReportGate, ReportRanking, Decide, BatchScore, BuildApprovalPack, RegisterRelease, BuildImage,
         ContainerJob, Promote
<1> QED BY <1>1, <1>2

(* A file changes in the scripts that write it only.                       *)
LEMMA FilesChangeInTheirScripts ==
    ASSUME JobInv, FilesInv, [Next]_vars
    PROVE  /\ tree'.raw = tree.raw \/ MakeDataset
           /\ tree'.features = tree.features \/ BuildFeatures
           /\ tree'.model = tree.model \/ Train
           /\ tree'.candidates = tree.candidates \/ UnlinkCandidates \/ DumpCandidates
           /\ tree'.metadata = tree.metadata \/ WriteMetadata
           /\ tree'.metrics = tree.metrics \/ WriteMetrics
           /\ tree'.base = tree.base \/ ExportBase
           /\ tree'.calibrator = tree.calibrator \/ ExportCalibrator
           /\ tree'.configs = tree.configs \/ WriteConfigs
           /\ tree'.preprocessor = tree.preprocessor \/ DumpPreprocessor
           /\ tree'.contract = tree.contract \/ WriteContract
           /\ tree'.repository = tree.repository \/ ValidateRepository
           /\ tree'.parity = tree.parity \/ ValidateExport
           /\ tree'.drift = tree.drift \/ ReportDrift
           /\ tree'.quality = tree.quality \/ ReportQuality
           /\ tree'.gate = tree.gate \/ ReportGate
           /\ tree'.ranking = tree.ranking \/ ReportRanking
           /\ tree'.decision = tree.decision \/ Decide
           /\ tree'.pack = tree.pack \/ BuildApprovalPack
<1> DEFINE OnlyIn(file) == \A other \in FileNames \ {file} : tree'[other] = tree[other]
<1>1. ASSUME NEW file \in FileNames, NEW value,
             tree' = tree \/ tree' = [tree EXCEPT ![file] = value]
      PROVE  OnlyIn(file)
  BY <1>1 DEF FilesInv
<1>2. ASSUME NEW file \in FileNames, NEW script, NEW good, NEW value,
             Writes(script, good, [tree EXCEPT ![file] = value])
      PROVE  OnlyIn(file)
  <2>1. tree' = tree \/ tree' = [tree EXCEPT ![file] = value]
    BY <1>2 DEF Writes
  <2> QED BY <1>1, <2>1
<1>3. /\ MakeDataset => OnlyIn("raw")
      /\ BuildFeatures => OnlyIn("features")
      /\ UnlinkCandidates \/ DumpCandidates => OnlyIn("candidates")
      /\ WriteMetadata => OnlyIn("metadata")
      /\ WriteMetrics => OnlyIn("metrics")
  BY <1>2, ZenonT(60) DEF MakeDataset, BuildFeatures, UnlinkCandidates, DumpCandidates, WriteMetadata, WriteMetrics, FileNames
<1>4. /\ ExportCalibrator => OnlyIn("calibrator")
      /\ WriteConfigs => OnlyIn("configs")
      /\ DumpPreprocessor => OnlyIn("preprocessor")
      /\ WriteContract => OnlyIn("contract")
  BY <1>2, ZenonT(60) DEF ExportCalibrator, WriteConfigs, DumpPreprocessor, WriteContract, FileNames
<1>5. /\ ReportDrift => OnlyIn("drift")
      /\ ReportQuality => OnlyIn("quality")
      /\ ReportGate => OnlyIn("gate")
      /\ ReportRanking => OnlyIn("ranking")
      /\ Decide => OnlyIn("decision")
  BY <1>2, ZenonT(60) DEF ReportDrift, ReportQuality, ReportGate, ReportRanking, Decide, FileNames
<1>6. /\ Train => OnlyIn("model")
      /\ ExportBase => OnlyIn("base")
      /\ ValidateRepository => OnlyIn("repository")
      /\ ValidateExport => OnlyIn("parity")
      /\ BuildApprovalPack => OnlyIn("pack")
  BY <1>1, ZenonT(60) DEF Train, ExportBase, ValidateRepository, ValidateExport, Reports, BuildApprovalPack, FileNames
<1>7. \/ MakeDataset \/ BuildFeatures \/ UnlinkCandidates \/ DumpCandidates \/ WriteMetadata \/ WriteMetrics
      \/ ExportCalibrator \/ WriteConfigs \/ DumpPreprocessor \/ WriteContract
      \/ ReportDrift \/ ReportQuality \/ ReportGate \/ ReportRanking \/ Decide
      \/ Train \/ ExportBase \/ ValidateRepository \/ ValidateExport \/ BuildApprovalPack
      \/ UNCHANGED tree
  BY DEF Next, vars, Start, Crash, BatchScore, Writes, RegisterRelease, BuildImage, ContainerJob, Promote
<1> HIDE DEF OnlyIn
<1>8. ASSUME NEW file \in FileNames, OnlyIn(file), NEW other \in FileNames, other # file
      PROVE  tree'[other] = tree[other]
  BY <1>8 DEF OnlyIn
<1> QED BY <1>3, <1>4, <1>5, <1>6, <1>7, <1>8 DEF FileNames

(* What is known of a past training stays true of it.                      *)
LEMMA PastIsKept ==
    ASSUME FilesInv, [Next]_vars
    PROVE  /\ Len(trainings) \in Nat /\ Len(trainings') \in Nat /\ Len(trainings) <= Len(trainings')
           /\ \A t \in 1..Len(trainings) : trainings'[t] = trainings[t]
<1>1. Len(trainings) \in Nat
  BY DEF FilesInv
<1> QED BY <1>1, TrainingsAreKept

LEMMA TestMetricsAreIntegers ==
    ASSUME FilesInv, NEW t \in 1..Len(trainings)
    PROVE  TestMetrics(t).auc \in Int /\ TestMetrics(t).brier \in Int /\ TestMetrics(t).ece \in Int
<1>1. trainings[t] \in Trainings
  BY DEF FilesInv
<1>2. trainings[t].outcome \in Outcomes /\ trainings[t].best \in Names
  BY <1>1 DEF Trainings
<1>3. trainings[t].outcome.test[trainings[t].best] \in
            [auc : Int, brier : Int, ece : Int, highPrecision : Int, precision : Int]
  BY <1>2, ReleaseInputs, Zenon
<1> QED BY <1>3 DEF TestMetrics

-----------------------------------------------------------------------------
(* The gate and the decision.                                              *)

(* A gate that passes is about a training whose metrics on the last window  *)
(* are within its limits; a decision was taken on those of its training, on *)
(* none, or on others observed in service, and investigates the model       *)
(* because of them only.                                                   *)
WithinGate(t) == TestMetrics(t).auc >= 75 /\ TestMetrics(t).brier <= 20 /\ TestMetrics(t).ece <= 8

GateInv ==
    /\ tree.gate.training \in 0..Len(trainings)
    /\ tree.gate.training # 0 /\ tree.gate.status = "PASS" => WithinGate(tree.gate.training)

ObservedOf(t, observed) ==
    observed # NotObserved /\ observed.status # "in service" =>
                              /\ observed.auc = TestMetrics(t).auc
                              /\ observed.brier = TestMetrics(t).brier
                              /\ observed.ece = TestMetrics(t).ece

DecisionInv ==
    /\ tree.decision.training \in 0..Len(trainings)
    /\ tree.decision.training # 0 =>
         /\ ObservedOf(tree.decision.training, tree.decision.observed)
         /\ tree.decision.action = "INVESTIGATE_MODEL" =>
              PerformanceFails(tree.decision.observed) \/ FairnessFails(tree.decision.observed)

LEMMA GateIsInductive == JobInv /\ FilesInv /\ GateInv /\ [Next]_vars => GateInv'
<1> SUFFICES ASSUME JobInv, FilesInv, GateInv, [Next]_vars PROVE GateInv'
  OBVIOUS
<1>1. /\ Len(trainings) \in Nat /\ Len(trainings') \in Nat /\ Len(trainings) <= Len(trainings')
      /\ \A t \in 1..Len(trainings) : trainings'[t] = trainings[t]
  BY PastIsKept
<1>2. CASE tree'.gate = tree.gate
  <2>1. tree.gate.training \in 0..Len(trainings) /\ tree'.gate.training = tree.gate.training
    BY <1>2 DEF GateInv
  <2>2. tree'.gate.training \in 0..Len(trainings')
    <3> DEFINE t == tree.gate.training
    <3> HIDE DEF t
    <3>1. t \in 0..Len(trainings')
      BY <1>1, <2>1 DEF t
    <3> QED BY <2>1, <3>1 DEF t
  <2>3. CASE tree.gate.training = 0
    BY <2>1, <2>2, <2>3 DEF GateInv
  <2>4. CASE tree.gate.training # 0
    <3>1. tree.gate.training \in 1..Len(trainings)
      <4> DEFINE t == tree.gate.training
      <4> HIDE DEF t
      <4>1. t \in 1..Len(trainings)
        BY <1>1, <2>1, <2>4 DEF t
      <4> QED BY <4>1 DEF t
    <3>2. trainings'[tree'.gate.training] = trainings[tree.gate.training]
      BY <1>1, <2>1, <3>1
    <3> QED BY <1>2, <2>1, <2>2, <2>4, <3>2, Zenon DEF GateInv, WithinGate, TestMetrics
  <2> QED BY <2>3, <2>4
<1>3. CASE tree'.gate # tree.gate
  <2> DEFINE t == tree.metrics
             status == EvaluateGate(TestMetrics(t), AgeGap(t), EmploymentGap(t))
  <2>1. ReportGate
    BY <1>3, FilesChangeInTheirScripts
  <2>2. /\ t # 0 /\ UNCHANGED trainings
        /\ tree' = [tree EXCEPT !.gate = [training |-> t, status |-> status]]
    BY <1>3, <2>1 DEF ReportGate, Writes, Fail
  <2>3. tree'.gate = [training |-> t, status |-> status]
    BY <2>2 DEF FilesInv, FileNames
  <2>4. status = "PASS" => WithinGate(t)
    BY DEF EvaluateGate, GatePasses, WithinGate
  <2>5. t \in 0..Len(trainings')
    BY <2>2 DEF FilesInv
  <2>6. WithinGate(tree.gate.training)' <=> WithinGate(t)
    <3> HIDE DEF status
    <3>1. tree'.gate.training = t /\ trainings' = trainings
      BY <2>2, <2>3
    <3> HIDE DEF t
    <3>2. TestMetrics(tree.gate.training)' = TestMetrics(t)
      BY <3>1, Zenon DEF TestMetrics
    <3> QED BY <3>2, Zenon DEF WithinGate
  <2> HIDE DEF t, status
  <2>7. tree'.gate.training = t /\ tree'.gate.status = status
    BY <2>3
  <2> QED BY <2>4, <2>5, <2>6, <2>7 DEF GateInv
<1> QED BY <1>2, <1>3

LEMMA DecisionIsInductive == JobInv /\ FilesInv /\ DecisionInv /\ [Next]_vars => DecisionInv'
<1> SUFFICES ASSUME JobInv, FilesInv, DecisionInv, [Next]_vars PROVE DecisionInv'
  OBVIOUS
<1>1. /\ Len(trainings) \in Nat /\ Len(trainings') \in Nat /\ Len(trainings) <= Len(trainings')
      /\ \A t \in 1..Len(trainings) : trainings'[t] = trainings[t]
  BY PastIsKept
<1>2. CASE tree'.decision = tree.decision
  <2>1. tree.decision.training \in 0..Len(trainings) /\ tree'.decision.training = tree.decision.training
    BY <1>2 DEF DecisionInv
  <2>2. tree'.decision.training \in 0..Len(trainings')
    <3> DEFINE t == tree.decision.training
    <3> HIDE DEF t
    <3>1. t \in 0..Len(trainings')
      BY <1>1, <2>1 DEF t
    <3> QED BY <2>1, <3>1 DEF t
  <2>3. CASE tree.decision.training = 0
    BY <2>1, <2>2, <2>3 DEF DecisionInv
  <2>4. CASE tree.decision.training # 0
    <3>1. tree.decision.training \in 1..Len(trainings)
      <4> DEFINE t == tree.decision.training
      <4> HIDE DEF t
      <4>1. t \in 1..Len(trainings)
        BY <1>1, <2>1, <2>4 DEF t
      <4> QED BY <4>1 DEF t
    <3>2. trainings'[tree'.decision.training] = trainings[tree.decision.training]
      BY <1>1, <2>1, <3>1
    <3> QED BY <1>2, <2>1, <2>2, <2>4, <3>2, Zenon DEF DecisionInv, ObservedOf, TestMetrics
  <2> QED BY <2>3, <2>4
<1>3. CASE tree'.decision # tree.decision
  <2> DEFINE t == tree.metrics
             action(observed) ==
                DecideContinuousAction(DataSets[tree.drift.data].drift, tree.quality.status, observed)
  <2>1. Decide
    <3>1. tree'.decision = tree.decision \/ Decide
      BY FilesChangeInTheirScripts
    <3> QED BY <1>3, <3>1
  <2>2. PICK observed \in Observations :
          /\ UNCHANGED trainings
          /\ tree' = [tree EXCEPT !.decision = [training |-> t, observed |-> observed, action |-> action(observed)]]
    BY <1>3, <2>1 DEF Decide, Writes, Fail
  <2>3. tree'.decision = [training |-> t, observed |-> observed, action |-> action(observed)]
    BY <2>2 DEF FilesInv, FileNames
  <2>4. t # 0 => ObservedOf(t, observed)
    <3>1. observed = NotObserved \/ observed \in FieldMetrics \/ observed \in
            {[status |-> "in test", auc |-> TestMetrics(t).auc, brier |-> TestMetrics(t).brier,
              ece |-> TestMetrics(t).ece, gap |-> gap] : gap \in {AgeGap(t), EmploymentGap(t)}}
      BY <2>2, Zenon DEF Observations
    <3>2. CASE observed \in FieldMetrics
      <4>1. observed \in [status : {"in service"}, auc : Int, brier : Int, ece : Int, gap : Int]
        BY <3>2, ReleaseInputs
      <4>2. observed.status = "in service"
        BY <4>1
      <4> QED BY <4>2, Zenon DEF ObservedOf
    <3> HIDE DEF t
    <3>3. ASSUME NEW gap,
                 observed = [status |-> "in test", auc |-> TestMetrics(t).auc, brier |-> TestMetrics(t).brier,
                             ece |-> TestMetrics(t).ece, gap |-> gap]
          PROVE  ObservedOf(t, observed)
      <4>1. /\ observed.auc = TestMetrics(t).auc
            /\ observed.brier = TestMetrics(t).brier
            /\ observed.ece = TestMetrics(t).ece
        BY <3>3
      <4> QED BY <4>1, Zenon DEF ObservedOf
    <3>4. CASE observed = NotObserved
      BY <3>4, Zenon DEF ObservedOf
    <3> QED BY <3>1, <3>2, <3>3, <3>4, Zenon
  <2>5. action(observed) = "INVESTIGATE_MODEL" => PerformanceFails(observed) \/ FairnessFails(observed)
    BY DEF DecideContinuousAction
  <2>6. t \in 0..Len(trainings')
    BY <2>2 DEF FilesInv
  <2>7. ObservedOf(tree.decision.training, tree.decision.observed)' <=> ObservedOf(t, observed)
    <3> HIDE DEF action
    <3>1. tree'.decision.training = t /\ tree'.decision.observed = observed /\ trainings' = trainings
      BY <2>2, <2>3
    <3> HIDE DEF t
    <3>2. TestMetrics(tree.decision.training)' = TestMetrics(t)
      BY <3>1, Zenon DEF TestMetrics
    <3> QED BY <3>1, <3>2, Zenon DEF ObservedOf
  <2> HIDE DEF t, action
  <2>8. /\ tree'.decision.training = t /\ tree'.decision.observed = observed
        /\ tree'.decision.action = action(observed)
    BY <2>3
  <2> QED BY <2>4, <2>5, <2>6, <2>7, <2>8 DEF DecisionInv
<1> QED BY <1>2, <1>3

(* Metrics of its own on which a passed model fails are not there.          *)
LEMMA WithinGatePerforms ==
    ASSUME FilesInv, NEW t \in 1..Len(trainings), NEW observed, WithinGate(t), ObservedOf(t, observed),
           PerformanceFails(observed)
    PROVE  observed.status = "in service"
<1>1. TestMetrics(t).auc \in Int /\ TestMetrics(t).brier \in Int /\ TestMetrics(t).ece \in Int
  BY TestMetricsAreIntegers
<1>2. TestMetrics(t).auc >= 75 /\ TestMetrics(t).brier <= 20 /\ TestMetrics(t).ece <= 8
  BY DEF WithinGate
<1>3. observed # NotObserved /\ (observed.auc < 74 \/ observed.brier > 22 \/ observed.ece > 10)
  BY DEF PerformanceFails
<1>4. ~(/\ observed.auc = TestMetrics(t).auc
        /\ observed.brier = TestMetrics(t).brier
        /\ observed.ece = TestMetrics(t).ece)
  BY <1>1, <1>2, <1>3
<1> QED BY <1>3, <1>4, Zenon DEF ObservedOf

(* A model that the gate passes is investigated because of a fairness gap   *)
(* only, or of what was observed of it in service, never because of its own *)
(* test metrics (promotion_gate.py, continuous_ops.py).                    *)
THEOREM PassedModelIsNoIncident == Spec => []GatedModelIsNoIncident
<1>1. Init => GateInv /\ DecisionInv
  <2> SUFFICES ASSUME Init PROVE GateInv /\ DecisionInv
    OBVIOUS
  <2>1. tree.gate.training = 0 /\ tree.decision.training = 0 /\ Len(trainings) = 0
    BY DEF Init, NoFiles
  <2> QED BY <2>1 DEF GateInv, DecisionInv
<1>2. JobInv /\ FilesInv /\ GateInv /\ DecisionInv => GatedModelIsNoIncident
  <2> SUFFICES ASSUME FilesInv, GateInv, DecisionInv,
                      tree.decision.training # 0, tree.decision.training = tree.gate.training,
                      tree.gate.status = "PASS", tree.decision.action = "INVESTIGATE_MODEL"
               PROVE  tree.decision.observed.status = "in service" \/ tree.decision.observed.gap > 15
    BY DEF GatedModelIsNoIncident
  <2> DEFINE t == tree.gate.training
             observed == tree.decision.observed
  <2>1. t \in 1..Len(trainings)
    BY DEF GateInv, FilesInv
  <2>2. WithinGate(t) /\ ObservedOf(t, observed) /\ (PerformanceFails(observed) \/ FairnessFails(observed))
    BY DEF GateInv, DecisionInv
  <2> HIDE DEF t, observed
  <2>3. CASE PerformanceFails(observed)
    <3>1. observed.status = "in service"
      BY <2>1, <2>2, <2>3, WithinGatePerforms
    <3> QED BY <3>1, Zenon DEF observed
  <2>4. CASE FairnessFails(observed)
    <3>1. observed.gap > 15
      BY <2>4 DEF FairnessFails
    <3> QED BY <3>1, Zenon DEF observed
  <2> QED BY <2>2, <2>3, <2>4
<1>3. JobInv /\ FilesInv /\ ImagesInv /\ [Next]_vars /\ GateInv /\ DecisionInv => (GateInv /\ DecisionInv)'
  BY GateIsInductive, DecisionIsInductive
<1>4. QED
  BY <1>1, <1>2, <1>3, TypesAreInductive, PTL DEF Spec

-----------------------------------------------------------------------------
(* How a target goes on.                                                   *)

(* It stops, starts, waits, or is at the next of its scripts, about the      *)
(* same training unless this is the one that trains or begins an export.   *)
GoesOnAbout(training) ==
    /\ job' # Idle /\ job # Idle
    /\ job'.target = job.target /\ job'.step = job.step + 1 /\ job'.training = training

LEMMA JobGoesOn ==
    ASSUME JobInv, FilesInv, [Next]_vars
    PROVE  \/ job' = Idle
           \/ Start /\ job' # Idle /\ job'.step = 1
           \/ job' = job /\ UNCHANGED <<tree, trainings>>
           \/ GoesOnAbout(job.training)
           \/ Train /\ GoesOnAbout(Len(trainings'))
           \/ ExportBase /\ GoesOnAbout(tree.model)
<1>1. ASSUME NEW script, NEW good, NEW new, Writes(script, good, new), job' # Idle
      PROVE  GoesOnAbout(job.training)
  <2>1. job # Idle /\ JobIsRunning /\ UNCHANGED trainings /\ Proceed(job.training)
    BY <1>1, ScriptWrites
  <2>2. job.training \in 0..Len(trainings')
    BY <2>1 DEF JobIsRunning
  <2> QED BY <1>1, <2>1, <2>2, TargetGoesOn DEF GoesOnAbout
<1>2. ASSUME NEW script, Running(script), NEW training \in 0..Len(trainings'), Proceed(training), job' # Idle
      PROVE  GoesOnAbout(training)
  <2>1. job # Idle
    BY <1>2 DEF Running
  <2> QED BY <1>2, <2>1, TargetGoesOn DEF GoesOnAbout
<1>3. Len(trainings) \in Nat /\ Len(trainings') \in Nat /\ Len(trainings) <= Len(trainings')
  BY PastIsKept
<1> SUFFICES ASSUME job' # Idle
             PROVE  \/ Start /\ job' # Idle /\ job'.step = 1
                    \/ job' = job /\ UNCHANGED <<tree, trainings>>
                    \/ GoesOnAbout(job.training)
                    \/ Train /\ GoesOnAbout(Len(trainings'))
                    \/ ExportBase /\ GoesOnAbout(tree.model)
  OBVIOUS
<1>4. CASE Start
  BY <1>4 DEF Start, Idle
<1>5. CASE Train
  <2>1. Running("model") /\ Proceed(Len(trainings'))
    BY <1>5 DEF Train, Fail
  <2>2. Len(trainings') \in 0..Len(trainings')
    BY <1>3
  <2> QED BY <1>2, <1>5, <2>1, <2>2
<1>6. CASE ExportBase
  <2>1. Running("base") /\ Proceed(tree.model)
    BY <1>6 DEF ExportBase, Fail
  <2>2. tree.model \in 0..Len(trainings')
    BY <1>3 DEF FilesInv
  <2> QED BY <1>2, <1>6, <2>1, <2>2
<1>7. CASE ValidateRepository \/ ValidateExport
  <2>1. (Running("validate") \/ Running("parity")) /\ Proceed(job.training)
    BY <1>7 DEF ValidateRepository, ValidateExport, Reports, Fail
  <2>2. job.training \in 0..Len(trainings')
    <3>1. job # Idle
      BY <2>1 DEF Running
    <3> QED BY <1>3, <3>1 DEF JobInv, JobIsRunning
  <2> QED BY <1>2, <2>1, <2>2
<1>8. CASE BuildApprovalPack
  BY <1>8, ApprovalIsLast DEF BuildApprovalPack
<1>9. CASE Crash \/ RegisterRelease \/ BuildImage \/ ContainerJob
  BY <1>9 DEF Crash, Fail, RegisterRelease, BuildImage, ContainerJob, NextJob
<1>10. CASE Promote \/ UNCHANGED vars
  BY <1>10 DEF Promote, vars
<1>11. CASE \/ MakeDataset \/ BuildFeatures \/ UnlinkCandidates \/ DumpCandidates \/ WriteMetadata \/ WriteMetrics
            \/ ExportCalibrator \/ WriteConfigs \/ DumpPreprocessor \/ WriteContract
            \/ ReportDrift \/ ReportQuality \/ ReportGate \/ ReportRanking \/ Decide \/ BatchScore
  <2>1. \E script, good, new : Writes(script, good, new)
    BY <1>11 DEF MakeDataset, BuildFeatures, UnlinkCandidates, DumpCandidates, WriteMetadata, WriteMetrics,
                 ExportCalibrator, WriteConfigs, DumpPreprocessor, WriteContract, ReportDrift, ReportQuality,
                 ReportGate, ReportRanking, Decide, BatchScore
  <2> QED BY <1>1, <2>1
<1> QED BY <1>4, <1>5, <1>6, <1>7, <1>8, <1>9, <1>10, <1>11 DEF Next

(* A target that goes on has run its script.                               *)
LEMMA ScriptWasRun ==
    ASSUME [Next]_vars, NEW training, GoesOnAbout(training), job.step \in Nat
    PROVE  /\ Running("data") => MakeDataset
           /\ Running("features") => BuildFeatures
           /\ Running("model") => Train
           /\ Running("unlink") => UnlinkCandidates
           /\ Running("candidates") => DumpCandidates
           /\ Running("metadata") => WriteMetadata
           /\ Running("metrics") => WriteMetrics
           /\ Running("base") => ExportBase
           /\ Running("calibrator") => ExportCalibrator
           /\ Running("configs") => WriteConfigs
           /\ Running("preprocessor") => DumpPreprocessor
           /\ Running("contract") => WriteContract
           /\ Running("validate") => ValidateRepository
           /\ Running("parity") => ValidateExport
           /\ Running("drift") => ReportDrift
           /\ Running("quality") => ReportQuality
           /\ Running("gate") => ReportGate
           /\ Running("ranking") => ReportRanking
           /\ Running("decide") => Decide
           /\ Running("batch") => BatchScore
           /\ Running("approval") => BuildApprovalPack
<1> DEFINE script == job.target[job.step]
<1>1. /\ MakeDataset => script = "data"
      /\ BuildFeatures => script = "features"
      /\ Train => script = "model"
      /\ UnlinkCandidates => script = "unlink"
      /\ DumpCandidates => script = "candidates"
      /\ WriteMetadata => script = "metadata"
      /\ WriteMetrics => script = "metrics"
  BY DEF MakeDataset, BuildFeatures, Train, UnlinkCandidates, DumpCandidates, WriteMetadata, WriteMetrics,
         Writes, Running
<1>2. /\ ExportBase => script = "base"
      /\ ExportCalibrator => script = "calibrator"
      /\ WriteConfigs => script = "configs"
      /\ DumpPreprocessor => script = "preprocessor"
      /\ WriteContract => script = "contract"
      /\ ValidateRepository => script = "validate"
      /\ ValidateExport => script = "parity"
  BY DEF ExportBase, ExportCalibrator, WriteConfigs, DumpPreprocessor, WriteContract, ValidateRepository,
         ValidateExport, Writes, Running
<1>3. /\ ReportDrift => script = "drift"
      /\ ReportQuality => script = "quality"
      /\ ReportGate => script = "gate"
      /\ ReportRanking => script = "ranking"
      /\ Decide => script = "decide"
      /\ BatchScore => script = "batch"
      /\ BuildApprovalPack => script = "approval"
  BY DEF ReportDrift, ReportQuality, ReportGate, ReportRanking, Decide, BatchScore, BuildApprovalPack,
         Writes, Running
<1>4. /\ ~Start /\ ~Crash /\ ~RegisterRelease /\ ~BuildImage /\ ~ContainerJob /\ ~Promote
      /\ ~UNCHANGED vars
  BY DEF GoesOnAbout, Start, Crash, Fail, RegisterRelease, BuildImage, ContainerJob, Promote, NextJob, vars
<1> HIDE DEF script
<1>5. ASSUME NEW other, Running(other) PROVE script = other
  BY <1>5 DEF Running, script
<1> QED BY <1>1, <1>2, <1>3, <1>4, <1>5 DEF Next

(* What each script has written then.                                      *)
LEMMA ScriptHasWritten ==
    ASSUME JobInv, FilesInv, [Next]_vars, NEW training, GoesOnAbout(training)
    PROVE  /\ Running("data") => tree'.raw \in DOMAIN DataSets
           /\ Running("features") => tree.raw # 0 /\ tree'.features = tree.raw
           /\ Running("unlink") => tree'.candidates = {}
           /\ Running("metadata") => tree'.metadata = job.training
           /\ Running("metrics") => tree'.metrics = job.training
           /\ Running("base") => training = tree.model /\ tree'.base = tree.model
           /\ Running("calibrator") => tree'.calibrator = job.training
           /\ Running("configs") => tree'.configs = job.training
           /\ Running("preprocessor") => tree'.preprocessor = job.training
           /\ Running("contract") =>
                tree'.contract = [training |-> job.training, base |-> tree.base,
                                  calibrator |-> tree.calibrator, preprocessor |-> tree.preprocessor]
           /\ Running("validate") => tree'.repository = "PASS"
           /\ Running("parity") => tree'.parity = "PASS"
<1>1. /\ DOMAIN tree = FileNames /\ job.step \in Nat /\ job' # Idle /\ job'.training = training
  <2>1. job # Idle /\ job' # Idle /\ job'.training = training
    BY DEF GoesOnAbout
  <2>2. job.step \in 1..21
    BY <2>1 DEF JobInv, JobIsRunning
  <2>3. job.step \in Nat
    BY <2>2
  <2> QED BY <2>1, <2>3 DEF FilesInv
<1>2. ASSUME NEW script, NEW good, NEW file \in FileNames, NEW value,
             Writes(script, good, [tree EXCEPT ![file] = value])
      PROVE  tree'[file] = value
  <2>1. tree' = [tree EXCEPT ![file] = value]
    BY <1>1, <1>2 DEF Writes, Fail
  <2> QED BY <1>1, <1>2, <2>1
<1>3. MakeDataset => tree'.raw \in DOMAIN DataSets
  BY <1>2 DEF MakeDataset, FileNames
<1>4. BuildFeatures => tree.raw # 0 /\ tree'.features = tree.raw
  <2>1. BuildFeatures => tree.raw # 0
    BY <1>1 DEF BuildFeatures, Writes, Fail
  <2>2. BuildFeatures => tree'.features = tree.raw
    BY <1>2 DEF BuildFeatures, FileNames
  <2> QED BY <2>1, <2>2
<1>5. /\ UnlinkCandidates => tree'.candidates = {}
      /\ WriteMetadata => tree'.metadata = job.training
      /\ WriteMetrics => tree'.metrics = job.training
  BY <1>2 DEF UnlinkCandidates, WriteMetadata, WriteMetrics, FileNames
<1>6. ExportBase => training = tree.model /\ tree'.base = tree.model
  <2> SUFFICES ASSUME ExportBase PROVE training = tree.model /\ tree'.base = tree.model
    OBVIOUS
  <2>1. tree' = [tree EXCEPT !.base = tree.model] /\ Proceed(tree.model)
    BY <1>1 DEF ExportBase, Fail
  <2>2. tree'.base = tree.model
    BY <1>1, <2>1 DEF FileNames
  <2>3. job' = [target |-> job.target, step |-> job.step + 1, training |-> tree.model]
    BY <1>1, <2>1 DEF Proceed
  <2> QED BY <1>1, <2>2, <2>3
<1>7. /\ ExportCalibrator => tree'.calibrator = job.training
      /\ WriteConfigs => tree'.configs = job.training
      /\ DumpPreprocessor => tree'.preprocessor = job.training
  BY <1>2, ZenonT(60) DEF ExportCalibrator, WriteConfigs, DumpPreprocessor, FileNames
<1>8. WriteContract =>
        tree'.contract = [training |-> job.training, base |-> tree.base,
                          calibrator |-> tree.calibrator, preprocessor |-> tree.preprocessor]
  <2> DEFINE value == [training |-> job.training, base |-> tree.base,
                       calibrator |-> tree.calibrator, preprocessor |-> tree.preprocessor]
  <2>1. WriteContract => Writes("contract", tree.metadata # 0, [tree EXCEPT !.contract = value])
    BY DEF WriteContract
  <2> HIDE DEF value
  <2>2. WriteContract => tree'.contract = value
    BY <1>2, <2>1 DEF FileNames
  <2> QED BY <2>2 DEF value
<1>9. ValidateRepository => tree'.repository = "PASS"
  BY <1>1 DEF ValidateRepository, Reports, Fail, FileNames
<1>10. ValidateExport => tree'.parity = "PASS"
  BY <1>1 DEF ValidateExport, Reports, Fail, FileNames
<1>11. /\ Running("data") => MakeDataset
       /\ Running("features") => BuildFeatures
       /\ Running("unlink") => UnlinkCandidates
       /\ Running("metadata") => WriteMetadata
       /\ Running("metrics") => WriteMetrics
       /\ Running("base") => ExportBase
       /\ Running("calibrator") => ExportCalibrator
       /\ Running("configs") => WriteConfigs
       /\ Running("preprocessor") => DumpPreprocessor
       /\ Running("contract") => WriteContract
       /\ Running("validate") => ValidateRepository
       /\ Running("parity") => ValidateExport
  BY <1>1, ScriptWasRun
<1> QED BY <1>3, <1>4, <1>5, <1>6, <1>7, <1>8, <1>9, <1>10, <1>11

(* Where in the exports' own target, and in the complete one, a script is.  *)
ExportStep ==
    IF job # Idle /\ job.target = TritonScripts THEN job.step
    ELSE IF job # Idle /\ job.target = Evidence THEN job.step - 7
    ELSE 0

LEMMA EvidencePlaces ==
    ASSUME NEW i \in 1..21
    PROVE  /\ Evidence[i] = "data" => i = 1
           /\ Evidence[i] = "features" => i = 2
           /\ Evidence[i] = "model" => i = 3
           /\ Evidence[i] = "unlink" => i = 4
           /\ Evidence[i] = "candidates" => i = 5
           /\ Evidence[i] = "metadata" => i = 6
           /\ Evidence[i] = "metrics" => i = 7
           /\ Evidence[i] = "base" => i = 8
           /\ Evidence[i] = "calibrator" => i = 9
           /\ Evidence[i] = "configs" => i = 10
           /\ Evidence[i] = "preprocessor" => i = 11
           /\ Evidence[i] = "contract" => i = 12
           /\ Evidence[i] = "validate" => i = 13
           /\ Evidence[i] = "parity" => i = 14
           /\ Evidence[i] = "drift" => i = 15
           /\ Evidence[i] = "quality" => i = 16
           /\ Evidence[i] = "gate" => i = 17
           /\ Evidence[i] = "ranking" => i = 18
           /\ Evidence[i] = "decide" => i = 19
           /\ Evidence[i] = "batch" => i = 20
           /\ Evidence[i] = "approval" => i = 21
BY EvidenceScripts

LEMMA ExportPlaces ==
    ASSUME JobInv, NEW script, Running(script)
    PROVE  /\ script = "base" <=> ExportStep = 1
           /\ script = "calibrator" <=> ExportStep = 2
           /\ script = "configs" <=> ExportStep = 3
           /\ script = "preprocessor" <=> ExportStep = 4
           /\ script = "contract" <=> ExportStep = 5
           /\ script = "model" => ExportStep < 1
<1>1. /\ job # Idle /\ job.target \in Targets
      /\ job.step \in 1..Len(job.target) /\ job.target[job.step] = script
  BY RunningIsOfTarget, Zenon
<1>2. Evidence # TritonScripts
  BY EvidenceScripts DEF TritonScripts
<1>3. CASE job.target = Evidence
  <2>1. job.step \in 1..21 /\ Evidence[job.step] = script /\ ExportStep = job.step - 7
    BY <1>1, <1>2, <1>3, EvidenceScripts DEF ExportStep
  <2>2. /\ script = "base" <=> job.step = 8
        /\ script = "calibrator" <=> job.step = 9
        /\ script = "configs" <=> job.step = 10
        /\ script = "preprocessor" <=> job.step = 11
        /\ script = "contract" <=> job.step = 12
        /\ script = "model" => job.step = 3
    BY <2>1, EvidencePlaces, EvidenceScripts
  <2> QED BY <2>1, <2>2
<1>4. CASE job.target = TritonScripts
  <2>1. job.step \in 1..7 /\ TritonScripts[job.step] = script /\ ExportStep = job.step
    BY <1>1, <1>4 DEF ExportStep, TritonScripts
  <2>2. /\ TritonScripts[1] = "base" /\ TritonScripts[2] = "calibrator" /\ TritonScripts[3] = "configs"
        /\ TritonScripts[4] = "preprocessor" /\ TritonScripts[5] = "contract"
        /\ TritonScripts[6] = "validate" /\ TritonScripts[7] = "parity"
    BY DEF TritonScripts
  <2>3. \/ ExportStep = 1 /\ script = "base"
        \/ ExportStep = 2 /\ script = "calibrator"
        \/ ExportStep = 3 /\ script = "configs"
        \/ ExportStep = 4 /\ script = "preprocessor"
        \/ ExportStep = 5 /\ script = "contract"
        \/ ExportStep = 6 /\ script = "validate"
        \/ ExportStep = 7 /\ script = "parity"
    <3>1. \A i \in 1..7 : i = 1 \/ i = 2 \/ i = 3 \/ i = 4 \/ i = 5 \/ i = 6 \/ i = 7
      OBVIOUS
    <3> QED BY <2>1, <2>2, <3>1, Zenon
  <2> QED BY <2>3
<1>5. CASE job.target # Evidence /\ job.target # TritonScripts
  <2>1. script \notin {"base", "calibrator", "configs", "preprocessor", "contract"}
    BY <1>1, <1>5 DEF Targets, TrainScript, ReportScripts
  <2>2. ExportStep = 0
    BY <1>5 DEF ExportStep
  <2> QED BY <2>1, <2>2
<1> QED BY <1>3, <1>4, <1>5

-----------------------------------------------------------------------------
(* The bundle.                                                             *)

(* A running export is about the training of the base it wrote, and so are  *)
(* the files it wrote since; a contract is about files that were of its     *)
(* training when it was written, and they are until another base is.       *)
ExportInv ==
    /\ ExportStep > 1 => job.training = tree.base
    /\ ExportStep > 2 => tree.calibrator = tree.base
    /\ ExportStep > 3 => tree.configs = tree.base
    /\ ExportStep > 4 => tree.preprocessor = tree.base
    /\ ExportStep > 5 => tree.contract.training = tree.base

ContractInv ==
    LET c == tree.contract.training
    IN  /\ c \in 0..tree.base
        /\ c # 0 => tree.contract.base = c
        /\ c # 0 /\ tree.base = c => BundleIsOf(tree, c)

LEMMA ExportStepIsInteger ==
    ASSUME JobInv
    PROVE  ExportStep \in Int
<1>1. job # Idle => job.step \in 1..21
  BY DEF JobInv, JobIsRunning
<1>2. CASE job # Idle
  BY <1>1, <1>2 DEF ExportStep
<1>3. CASE job = Idle
  BY <1>3 DEF ExportStep, Idle
<1> QED BY <1>2, <1>3

(* An export goes on with its next script, and begins with its first.      *)
LEMMA ExportGoesOn ==
    ASSUME JobInv, FilesInv, [Next]_vars, JobInv', ExportStep' > 1
    PROVE  \/ ExportStep' = ExportStep /\ job' = job /\ UNCHANGED <<tree, trainings>>
           \/ /\ ExportStep > 0 /\ ExportStep' = ExportStep + 1
              /\ \/ ExportStep > 1 /\ GoesOnAbout(job.training)
                 \/ ExportStep = 1 /\ GoesOnAbout(tree.model)
              /\ ExportStep = 1 => Running("base")
              /\ ExportStep = 2 => Running("calibrator")
              /\ ExportStep = 3 => Running("configs")
              /\ ExportStep = 4 => Running("preprocessor")
              /\ ExportStep = 5 => Running("contract")
<1>1. job # Idle => job.step \in 1..21 /\ Running(job.target[job.step])
  BY DEF JobInv, JobIsRunning, Running
<1>2. job' # Idle
  BY DEF ExportStep
<1>3. CASE Start /\ job'.step = 1
  BY <1>3 DEF ExportStep
<1>4. CASE job' = job /\ UNCHANGED <<tree, trainings>>
  BY <1>4 DEF ExportStep
<1>5. ASSUME NEW training, GoesOnAbout(training)
      PROVE  /\ ExportStep > 0 /\ ExportStep' = ExportStep + 1
             /\ ExportStep = 1 => Running("base") /\ training = tree.model
             /\ ExportStep = 2 => Running("calibrator")
             /\ ExportStep = 3 => Running("configs")
             /\ ExportStep = 4 => Running("preprocessor")
             /\ ExportStep = 5 => Running("contract")
  <2>1. job # Idle /\ ExportStep > 0 /\ ExportStep' = ExportStep + 1
    BY <1>1, <1>5 DEF GoesOnAbout, ExportStep
  <2> DEFINE script == job.target[job.step]
  <2>2. Running(script)
    BY <1>1, <2>1
  <2> HIDE DEF script
  <2>3. /\ ExportStep = 1 => script = "base"
        /\ ExportStep = 2 => script = "calibrator"
        /\ ExportStep = 3 => script = "configs"
        /\ ExportStep = 4 => script = "preprocessor"
        /\ ExportStep = 5 => script = "contract"
    BY <2>2, ExportPlaces
  <2>4. Running("base") => training = tree.model
    BY <1>5, ScriptHasWritten
  <2> QED BY <2>1, <2>2, <2>3, <2>4
<1>6. CASE GoesOnAbout(job.training)
  <2>1. /\ ExportStep > 0 /\ ExportStep' = ExportStep + 1
        /\ ExportStep = 1 => Running("base") /\ job.training = tree.model
        /\ ExportStep = 2 => Running("calibrator")
        /\ ExportStep = 3 => Running("configs")
        /\ ExportStep = 4 => Running("preprocessor")
        /\ ExportStep = 5 => Running("contract")
    BY <1>5, <1>6
  <2>2. ExportStep = 1 => GoesOnAbout(tree.model)
    BY <1>6, <2>1
  <2> QED BY <1>6, <2>1, <2>2, ExportStepIsInteger
<1>7. CASE Train /\ GoesOnAbout(Len(trainings'))
  BY <1>5, <1>7, ExportPlaces, ExportStepIsInteger DEF Train
<1>8. CASE ExportBase /\ GoesOnAbout(tree.model)
  <2>1. ExportStep = 1 /\ Running("base")
    BY <1>8, ExportPlaces DEF ExportBase
  <2> QED BY <1>5, <1>8, <2>1
<1> QED BY <1>2, <1>3, <1>4, <1>6, <1>7, <1>8, JobGoesOn

(* The files of an export change only in the steps of one.                 *)
LEMMA ExportsWrite ==
    ASSUME JobInv, FilesInv, [Next]_vars
    PROVE  /\ tree'.base = tree.base \/ (ExportBase /\ ExportStep = 1 /\ tree'.base = tree.model)
           /\ tree'.calibrator = tree.calibrator \/ (ExportStep = 2 /\ tree'.calibrator = job.training)
           /\ tree'.configs = tree.configs \/ (ExportStep = 3 /\ tree'.configs = job.training)
           /\ tree'.preprocessor = tree.preprocessor \/ (ExportStep = 4 /\ tree'.preprocessor = job.training)
           /\ \/ tree'.contract = tree.contract
              \/ /\ ExportStep = 5
                 /\ tree'.contract = [training |-> job.training, base |-> tree.base,
                                      calibrator |-> tree.calibrator, preprocessor |-> tree.preprocessor]
<1>1. DOMAIN tree = FileNames
  BY DEF FilesInv
<1>2. ASSUME NEW script, NEW good, NEW file \in FileNames, NEW value,
             Writes(script, good, [tree EXCEPT ![file] = value])
      PROVE  tree'[file] = tree[file] \/ tree'[file] = value
  BY <1>1, <1>2 DEF Writes
<1>3. tree'.base = tree.base \/ (ExportBase /\ ExportStep = 1 /\ tree'.base = tree.model)
  <2>1. ExportBase => ExportStep = 1 /\ (tree'.base = tree.base \/ tree'.base = tree.model)
    BY <1>1, ExportPlaces DEF ExportBase, FileNames
  <2> QED BY <2>1, FilesChangeInTheirScripts
<1>4. tree'.calibrator = tree.calibrator \/ (ExportStep = 2 /\ tree'.calibrator = job.training)
  <2>1. ExportCalibrator =>
          ExportStep = 2 /\ (tree'.calibrator = tree.calibrator \/ tree'.calibrator = job.training)
    BY <1>2, ExportPlaces DEF ExportCalibrator, FileNames, Writes
  <2>2. tree'.calibrator = tree.calibrator \/ ExportCalibrator
    BY FilesChangeInTheirScripts
  <2> QED BY <2>1, <2>2
<1>5. tree'.configs = tree.configs \/ (ExportStep = 3 /\ tree'.configs = job.training)
  <2>1. WriteConfigs => ExportStep = 3 /\ (tree'.configs = tree.configs \/ tree'.configs = job.training)
    BY <1>2, ExportPlaces DEF WriteConfigs, FileNames, Writes
  <2>2. tree'.configs = tree.configs \/ WriteConfigs
    BY FilesChangeInTheirScripts
  <2> QED BY <2>1, <2>2
<1>6. tree'.preprocessor = tree.preprocessor \/ (ExportStep = 4 /\ tree'.preprocessor = job.training)
  <2>1. DumpPreprocessor =>
          ExportStep = 4 /\ (tree'.preprocessor = tree.preprocessor \/ tree'.preprocessor = job.training)
    BY <1>2, ExportPlaces DEF DumpPreprocessor, FileNames, Writes
  <2>2. tree'.preprocessor = tree.preprocessor \/ DumpPreprocessor
    BY FilesChangeInTheirScripts
  <2> QED BY <2>1, <2>2
<1>7. \/ tree'.contract = tree.contract
      \/ /\ ExportStep = 5
         /\ tree'.contract = [training |-> job.training, base |-> tree.base,
                              calibrator |-> tree.calibrator, preprocessor |-> tree.preprocessor]
  <2> DEFINE value == [training |-> job.training, base |-> tree.base,
                       calibrator |-> tree.calibrator, preprocessor |-> tree.preprocessor]
  <2>1. WriteContract => Writes("contract", tree.metadata # 0, [tree EXCEPT !.contract = value])
    BY DEF WriteContract
  <2> HIDE DEF value
  <2>2. WriteContract => ExportStep = 5 /\ (tree'.contract = tree.contract \/ tree'.contract = value)
    BY <1>2, <2>1, ExportPlaces DEF FileNames, Writes
  <2>3. tree'.contract = tree.contract \/ WriteContract
    BY FilesChangeInTheirScripts
  <2> QED BY <2>2, <2>3 DEF value
<1> QED BY <1>3, <1>4, <1>5, <1>6, <1>7

LEMMA ExportIsInductive ==
    ASSUME JobInv, FilesInv, ExportInv, [Next]_vars, JobInv'
    PROVE  ExportInv'
<1>1. ExportStep \in Int /\ ExportStep' \in Int
  <2>1. job' # Idle => job'.step \in 1..21
    BY DEF JobInv, JobIsRunning
  <2>2. job' # Idle => job'.step \in Int /\ job'.step - 7 \in Int
    BY <2>1
  <2>3. ExportStep' \in Int
    BY <2>2 DEF ExportStep
  <2> QED BY <2>3, ExportStepIsInteger
<1>2. CASE ~(ExportStep' > 1)
  BY <1>1, <1>2 DEF ExportInv
<1>3. CASE ExportStep' > 1
  <2>1. CASE ExportStep' = ExportStep /\ job' = job /\ UNCHANGED <<tree, trainings>>
    BY <2>1 DEF ExportInv
  (* The first script begins it: what follows is about its training. *)
  <2>2. CASE ExportStep = 1 /\ ExportStep' = ExportStep + 1 /\ Running("base") /\ GoesOnAbout(tree.model)
    <3>1. tree'.base = tree.model
      BY <2>2, ScriptHasWritten
    <3>2. job'.training = tree.model
      BY <2>2 DEF GoesOnAbout
    <3> QED BY <2>2, <3>1, <3>2 DEF ExportInv
  <2>3. CASE /\ ExportStep > 1 /\ ExportStep' = ExportStep + 1 /\ GoesOnAbout(job.training)
             /\ ExportStep = 2 => Running("calibrator")
             /\ ExportStep = 3 => Running("configs")
             /\ ExportStep = 4 => Running("preprocessor")
             /\ ExportStep = 5 => Running("contract")
    <3>1. job'.training = job.training /\ job.training = tree.base /\ tree'.base = tree.base
      BY <1>1, <2>3, ExportsWrite DEF GoesOnAbout, ExportInv
    <3>2. /\ ExportStep = 2 => tree'.calibrator = job.training
          /\ ExportStep = 3 => tree'.configs = job.training
          /\ ExportStep = 4 => tree'.preprocessor = job.training
          /\ ExportStep = 5 => tree'.contract.training = job.training
      BY <2>3, ScriptHasWritten
    <3>3. /\ ExportStep > 2 => tree'.calibrator = tree.base
          /\ ExportStep > 3 => tree'.configs = tree.base
          /\ ExportStep > 4 => tree'.preprocessor = tree.base
          /\ ExportStep > 5 => tree'.contract.training = tree.base
      BY <1>1, ExportsWrite DEF ExportInv
    <3> QED BY <1>1, <2>3, <3>1, <3>2, <3>3 DEF ExportInv
  <2> QED BY <1>3, <2>1, <2>2, <2>3, ExportGoesOn
<1> QED BY <1>2, <1>3

LEMMA ContractIsInductive ==
    ASSUME JobInv, FilesInv, ExportInv, ContractInv, [Next]_vars
    PROVE  ContractInv'
<1> DEFINE c == tree.contract.training
<1>1. /\ c \in 0..tree.base
      /\ c # 0 => tree.contract.base = c
      /\ c # 0 /\ tree.base = c => /\ tree.calibrator = c /\ tree.configs = c /\ tree.preprocessor = c
  BY DEF ContractInv, BundleIsOf
<1>2. tree.base \in Nat /\ tree.model \in Nat /\ tree.base <= tree.model
  BY DEF FilesInv
<1>3. ASSUME tree'.contract = tree.contract
      PROVE  ContractInv'
  <2>1. tree'.base = tree.base \/ (tree'.base = tree.model /\ ExportStep = 1)
    BY ExportsWrite
  <2>2. tree'.base \in Nat /\ c <= tree'.base /\ (tree'.base = c => tree.base = c)
    BY <1>1, <1>2, <2>1
  <2>3. c # 0 /\ tree'.base = c => /\ tree'.calibrator = c /\ tree'.configs = c /\ tree'.preprocessor = c
    <3> SUFFICES ASSUME c # 0, tree.base = c
                 PROVE  tree'.calibrator = c /\ tree'.configs = c /\ tree'.preprocessor = c
      BY <2>2
    <3> QED BY <1>1, ExportsWrite DEF ExportInv
  <2>4. c \in 0..tree'.base
    BY <1>1, <2>2
  <2>5. c' = c /\ tree'.contract.base = tree.contract.base
    BY <1>3
  <2> HIDE DEF c
  <2> QED BY <1>1, <2>3, <2>4, <2>5 DEF ContractInv, BundleIsOf, c
<1>4. ASSUME tree'.contract # tree.contract
      PROVE  ContractInv'
  <2>1. /\ ExportStep = 5
        /\ tree'.contract = [training |-> job.training, base |-> tree.base,
                             calibrator |-> tree.calibrator, preprocessor |-> tree.preprocessor]
    BY <1>4, ExportsWrite
  <2>2. /\ tree.calibrator = tree.base /\ tree.configs = tree.base /\ tree.preprocessor = tree.base
        /\ job.training = tree.base
    BY <2>1 DEF ExportInv
  <2>3. /\ tree'.base = tree.base /\ tree'.calibrator = tree.base /\ tree'.configs = tree.base
        /\ tree'.preprocessor = tree.base
    BY <2>1, <2>2, ExportsWrite
  <2>4. tree'.contract.training = tree.base /\ tree'.contract.base = tree.base
    BY <2>1, <2>2
  <2> QED BY <1>2, <2>3, <2>4 DEF ContractInv, BundleIsOf
<1> QED BY <1>3, <1>4

LEMMA BundleIsInductive == Spec => [](ExportInv /\ ContractInv)
<1>1. Init => ExportInv /\ ContractInv
  <2> SUFFICES ASSUME Init PROVE ExportInv /\ ContractInv
    OBVIOUS
  <2>1. ExportStep = 0 /\ tree.base = 0 /\ tree.contract.training = 0
    BY DEF Init, NoFiles, ExportStep
  <2> QED BY <2>1 DEF ExportInv, ContractInv
<1>2. /\ JobInv /\ FilesInv /\ ImagesInv /\ ExportInv /\ ContractInv /\ [Next]_vars
      /\ (JobInv /\ FilesInv /\ ImagesInv)'
      => (ExportInv /\ ContractInv)'
  BY ExportIsInductive, ContractIsInductive
<1>3. QED
  BY <1>1, <1>2, TypesAreInductive, PTL DEF Spec

(* The validation of the repository passes only files that one export      *)
(* wrote, also when an export was interrupted or begun again since the      *)
(* contract was written (triton_export.py).                                *)
THEOREM PassedBundleIsOfOneTraining == Spec => ValidatedBundleIsOneExport
<1>1. ASSUME JobInv, FilesInv, ContractInv, ValidateRepository, tree'.repository = "PASS"
      PROVE  BundleIsOf(tree, tree.contract.training)
  <2>1. tree.contract.training # 0 /\ HashesMatch
    BY <1>1 DEF ValidateRepository, Reports, FilesInv, FileNames
  <2> QED BY <1>1, <2>1 DEF HashesMatch, ContractInv
<1>2. JobInv /\ FilesInv /\ ImagesInv /\ ExportInv /\ ContractInv /\ [Next]_vars
        => [ValidateRepository /\ tree'.repository = "PASS" => BundleIsOf(tree, tree.contract.training)]_vars
  <2> SUFFICES ASSUME JobInv, FilesInv, ContractInv, ValidateRepository, tree'.repository = "PASS"
               PROVE  BundleIsOf(tree, tree.contract.training)
    OBVIOUS
  <2> QED BY <1>1
<1>3. QED
  BY <1>2, TypesAreInductive, BundleIsInductive, PTL DEF Spec, ValidatedBundleIsOneExport

-----------------------------------------------------------------------------
(* The complete target.                                                    *)

InEvidence == job # Idle /\ job.target = Evidence

LEMMA EvidenceGoesOn ==
    ASSUME JobInv, FilesInv, [Next]_vars, InEvidence'
    PROVE  \/ job'.step = 1
           \/ job' = job /\ UNCHANGED <<tree, trainings>>
           \/ /\ InEvidence /\ job.step \in 1..20 /\ job'.step = job.step + 1
              /\ job.step \notin {3, 8} => job'.training = job.training
              /\ job.step = 3 => Train /\ job'.training = Len(trainings')
              /\ job.step = 8 => job'.training = tree.model
              /\ \E training : GoesOnAbout(training)
<1>1. job' # Idle /\ job'.target = Evidence
  BY DEF InEvidence
<1>2. ASSUME NEW training, GoesOnAbout(training)
      PROVE  /\ InEvidence /\ job.step \in 1..20 /\ job'.step = job.step + 1
             /\ job'.training = training
             /\ job.step = 3 => Train
             /\ job.step = 8 => training = tree.model
  <2>1. /\ InEvidence /\ job'.step = job.step + 1 /\ job'.training = training
        /\ job.step \in 1..21 /\ job.step <= Len(Evidence)
    BY <1>1, <1>2 DEF GoesOnAbout, InEvidence, JobInv, JobIsRunning
  <2>2. job.step # 21
    <3>1. ASSUME job.step = 21 PROVE FALSE
      <4>1. Running("approval")
        BY <2>1, <3>1, EvidenceScripts DEF Running, InEvidence
      <4>2. BuildApprovalPack
        <5>1. job.step \in Nat
          BY <3>1
        <5> QED BY <1>2, <4>1, <5>1, ScriptWasRun
      <4>3. job' = Idle
        BY <4>1, <4>2, ApprovalIsLast DEF BuildApprovalPack
      <4> QED BY <1>1, <4>3
    <3> QED BY <3>1
  <2>3. job.step = 3 => Train
    <3> SUFFICES ASSUME job.step = 3 PROVE Train
      OBVIOUS
    <3>1. Running("model")
      BY <2>1, EvidenceScripts DEF Running, InEvidence
    <3> QED BY <1>2, <3>1, ScriptWasRun
  <2>4. job.step = 8 => training = tree.model
    <3> SUFFICES ASSUME job.step = 8 PROVE training = tree.model
      OBVIOUS
    <3>1. Running("base")
      BY <2>1, EvidenceScripts DEF Running, InEvidence
    <3> QED BY <1>2, <3>1, ScriptHasWritten
  <2>5. job.step \in 1..20
    BY <2>1, <2>2
  <2> QED BY <2>1, <2>3, <2>4, <2>5
<1>3. ASSUME NEW script, Running(script), InEvidence
      PROVE  job.step \in 1..21 /\ Evidence[job.step] = script
  BY <1>3 DEF Running, InEvidence, JobInv, JobIsRunning
<1>4. CASE GoesOnAbout(job.training)
  <2>1. /\ InEvidence /\ job.step \in 1..20 /\ job'.step = job.step + 1
        /\ job'.training = job.training
        /\ job.step = 3 => Train
        /\ job.step = 8 => job.training = tree.model
    BY <1>2, <1>4
  <2>2. job.step = 3 => job'.training = Len(trainings')
    <3> SUFFICES ASSUME Train PROVE job'.training = Len(trainings')
      BY <2>1
    <3>1. Proceed(Len(trainings'))
      BY <1>1 DEF Train, Fail
    <3>2. job' = [target |-> job.target, step |-> job.step + 1, training |-> Len(trainings')]
      BY <1>1, <3>1 DEF Proceed
    <3> QED BY <3>2
  <2> QED BY <1>4, <2>1, <2>2
<1>5. CASE Train /\ GoesOnAbout(Len(trainings'))
  <2>1. /\ InEvidence /\ job.step \in 1..20 /\ job'.step = job.step + 1
        /\ job'.training = Len(trainings')
    BY <1>2, <1>5
  <2>2. job.step = 3
    <3>1. Running("model")
      BY <1>5 DEF Train
    <3> QED BY <1>3, <2>1, <3>1, EvidencePlaces
  <2> QED BY <1>5, <2>1, <2>2
<1>6. CASE ExportBase /\ GoesOnAbout(tree.model)
  <2>1. /\ InEvidence /\ job.step \in 1..20 /\ job'.step = job.step + 1
        /\ job'.training = tree.model
    BY <1>2, <1>6
  <2>2. job.step = 8
    <3>1. Running("base")
      BY <1>6 DEF ExportBase
    <3> QED BY <1>3, <2>1, <3>1, EvidencePlaces
  <2> QED BY <1>6, <2>1, <2>2
<1> QED BY <1>1, <1>4, <1>5, <1>6, JobGoesOn

(* Every file is written at its own step of the complete target.           *)
LEMMA EvidenceWrites ==
    ASSUME JobInv, FilesInv, [Next]_vars, InEvidence
    PROVE  /\ job.step # 3 => UNCHANGED trainings
           /\ job.step # 1 => tree'.raw = tree.raw
           /\ job.step # 2 => tree'.features = tree.features
           /\ job.step # 3 => tree'.model = tree.model
           /\ job.step \notin {4, 5} => tree'.candidates = tree.candidates
           /\ job.step # 6 => tree'.metadata = tree.metadata
           /\ job.step # 7 => tree'.metrics = tree.metrics
           /\ job.step # 13 => tree'.repository = tree.repository
           /\ job.step # 14 => tree'.parity = tree.parity
           /\ job.step # 15 => tree'.drift = tree.drift
           /\ job.step # 16 => tree'.quality = tree.quality
           /\ job.step # 17 => tree'.gate = tree.gate
           /\ job.step # 18 => tree'.ranking = tree.ranking
           /\ job.step # 19 => tree'.decision = tree.decision
<1> DEFINE script == Evidence[job.step]
<1>1. job.step \in 1..21 /\ job.target[job.step] = script
  BY DEF InEvidence, JobInv, JobIsRunning
<1>2. /\ MakeDataset => script = "data"
      /\ BuildFeatures => script = "features"
      /\ Train => script = "model"
      /\ UnlinkCandidates => script = "unlink"
      /\ DumpCandidates => script = "candidates"
      /\ WriteMetadata => script = "metadata"
      /\ WriteMetrics => script = "metrics"
      /\ ValidateRepository => script = "validate"
      /\ ValidateExport => script = "parity"
  BY <1>1 DEF MakeDataset, BuildFeatures, Train, UnlinkCandidates, DumpCandidates, WriteMetadata, WriteMetrics,
              ValidateRepository, ValidateExport, Writes, Running
<1>3. /\ ReportDrift => script = "drift"
      /\ ReportQuality => script = "quality"
      /\ ReportGate => script = "gate"
      /\ ReportRanking => script = "ranking"
      /\ Decide => script = "decide"
  BY <1>1 DEF ReportDrift, ReportQuality, ReportGate, ReportRanking, Decide, Writes, Running
<1>4. /\ script = "data" => job.step = 1
      /\ script = "features" => job.step = 2
      /\ script = "model" => job.step = 3
      /\ script = "unlink" => job.step = 4
      /\ script = "candidates" => job.step = 5
      /\ script = "metadata" => job.step = 6
      /\ script = "metrics" => job.step = 7
      /\ script = "validate" => job.step = 13
      /\ script = "parity" => job.step = 14
      /\ script = "drift" => job.step = 15
      /\ script = "quality" => job.step = 16
      /\ script = "gate" => job.step = 17
      /\ script = "ranking" => job.step = 18
      /\ script = "decide" => job.step = 19
  BY <1>1, EvidencePlaces
<1>5. UNCHANGED trainings \/ Train
  BY TrainingsAreKept
<1> HIDE DEF script
<1> QED BY <1>2, <1>3, <1>4, <1>5, FilesChangeInTheirScripts

Losers(t) == {[name |-> n, training |-> t] : n \in Names \ {trainings[t].best}}

(* The reports are about the data and the training whose files they read.   *)
LEMMA ScriptHasReported ==
    ASSUME JobInv, FilesInv, [Next]_vars, NEW training, GoesOnAbout(training)
    PROVE  /\ Running("candidates") /\ tree.candidates = {} => tree'.candidates = Losers(job.training)
           /\ Running("drift") =>
                /\ tree'.drift.data = tree.features
                /\ tree'.drift.windows = DriftWindows(DataSets[tree.features].rows)
           /\ Running("quality") =>
                /\ tree'.quality.data = tree.raw
                /\ tree'.quality.status = CheckDataQuality(DataSets[tree.raw].quality)
           /\ Running("gate") => tree'.gate.training = tree.metrics
           /\ Running("ranking") => tree'.ranking.training = tree.metrics
           /\ Running("decide") => tree'.decision.training = tree.metrics
           /\ Running("batch") => CheckDataQuality(DataSets[tree.raw].quality) = "PASS"
<1>1. /\ DOMAIN tree = FileNames /\ job.step \in Nat /\ job' # Idle
  <2>1. job # Idle /\ job' # Idle
    BY DEF GoesOnAbout
  <2>2. job.step \in 1..21
    BY <2>1 DEF JobInv, JobIsRunning
  <2>3. job.step \in Nat
    BY <2>2
  <2> QED BY <2>1, <2>3 DEF FilesInv
<1>2. ASSUME NEW script, NEW good, NEW file \in FileNames, NEW value,
             Writes(script, good, [tree EXCEPT ![file] = value])
      PROVE  tree'[file] = value
  <2>1. tree' = [tree EXCEPT ![file] = value]
    BY <1>1, <1>2 DEF Writes, Fail
  <2> QED BY <1>1, <1>2, <2>1
<1>3. DumpCandidates /\ tree.candidates = {} => tree'.candidates = Losers(job.training)
  <2> SUFFICES ASSUME DumpCandidates, tree.candidates = {} PROVE tree'.candidates = Losers(job.training)
    OBVIOUS
  <2> DEFINE losers == Names \ {trainings[job.training].best}
             kept == {file \in tree.candidates : file.name \notin losers}
             new == kept \union {[name |-> n, training |-> job.training] : n \in losers}
  <2>1. Writes("candidates", TRUE, [tree EXCEPT !.candidates = new])
    BY DEF DumpCandidates
  <2>2. kept = {}
    OBVIOUS
  <2>3. new = Losers(job.training)
    BY <2>2 DEF Losers
  <2> HIDE DEF new
  <2>4. tree'.candidates = new
    BY <1>2, <2>1 DEF FileNames
  <2> QED BY <2>3, <2>4
<1>4. ReportDrift =>
        /\ tree'.drift.data = tree.features
        /\ tree'.drift.windows = DriftWindows(DataSets[tree.features].rows)
  <2> DEFINE windows == DriftWindows(DataSets[tree.features].rows)
             status == DriftStatus(DataSets[tree.features].drift)
             value == [data |-> tree.features, windows |-> windows, status |-> status]
  <2>1. ReportDrift => Writes("drift", tree.features # 0, [tree EXCEPT !.drift = value])
    BY DEF ReportDrift
  <2> HIDE DEF value
  <2>2. ReportDrift => tree'.drift = value
    BY <1>2, <2>1 DEF FileNames
  <2> HIDE DEF windows, status
  <2>3. value.data = tree.features /\ value.windows = windows
    BY DEF value
  <2> QED BY <2>2, <2>3 DEF windows
<1>5. ReportQuality =>
        /\ tree'.quality.data = tree.raw
        /\ tree'.quality.status = CheckDataQuality(DataSets[tree.raw].quality)
  <2> DEFINE status == CheckDataQuality(DataSets[tree.raw].quality)
             value == [data |-> tree.raw, status |-> status]
  <2>1. ReportQuality => Writes("quality", tree.raw # 0, [tree EXCEPT !.quality = value])
    BY DEF ReportQuality
  <2> HIDE DEF value
  <2>2. ReportQuality => tree'.quality = value
    BY <1>2, <2>1 DEF FileNames
  <2> HIDE DEF status
  <2>3. value.data = tree.raw /\ value.status = status
    BY DEF value
  <2> QED BY <2>2, <2>3 DEF status
<1>6. ReportGate => tree'.gate.training = tree.metrics
  <2> DEFINE status == EvaluateGate(TestMetrics(tree.metrics), AgeGap(tree.metrics), EmploymentGap(tree.metrics))
             value == [training |-> tree.metrics, status |-> status]
  <2>1. ReportGate => Writes("gate", tree.metrics # 0, [tree EXCEPT !.gate = value])
    BY DEF ReportGate
  <2> HIDE DEF value
  <2>2. ReportGate => tree'.gate = value
    BY <1>2, <2>1 DEF FileNames
  <2> HIDE DEF status
  <2>3. value.training = tree.metrics
    BY DEF value
  <2> QED BY <2>2, <2>3
<1>7. ReportRanking => tree'.ranking.training = tree.metrics
  <2> DEFINE champion == BuildChampionChallengerReport(trainings[tree.metrics].outcome.test)
             value == [training |-> tree.metrics, champion |-> champion]
  <2>1. ReportRanking => Writes("ranking", tree.metrics # 0, [tree EXCEPT !.ranking = value])
    BY DEF ReportRanking
  <2> HIDE DEF value
  <2>2. ReportRanking => tree'.ranking = value
    BY <1>2, <2>1 DEF FileNames
  <2> HIDE DEF champion
  <2>3. value.training = tree.metrics
    BY DEF value
  <2> QED BY <2>2, <2>3
<1>8. Decide => tree'.decision.training = tree.metrics
  <2> SUFFICES ASSUME Decide PROVE tree'.decision.training = tree.metrics
    OBVIOUS
  <2> DEFINE action(observed) ==
                DecideContinuousAction(DataSets[tree.drift.data].drift, tree.quality.status, observed)
             value(observed) == [training |-> tree.metrics, observed |-> observed, action |-> action(observed)]
  <2>1. PICK observed \in Observations :
          Writes("decide", tree.drift.data # 0 /\ tree.quality.data # 0,
                 [tree EXCEPT !.decision = value(observed)])
    BY DEF Decide
  <2> HIDE DEF value
  <2>2. tree'.decision = value(observed)
    BY <1>2, <2>1 DEF FileNames
  <2> HIDE DEF action
  <2>3. value(observed).training = tree.metrics
    BY DEF value
  <2> QED BY <2>2, <2>3
<1>9. BatchScore => CheckDataQuality(DataSets[tree.raw].quality) = "PASS"
  BY <1>1 DEF BatchScore, Writes, Fail
<1>10. /\ Running("candidates") => DumpCandidates
       /\ Running("drift") => ReportDrift
       /\ Running("quality") => ReportQuality
       /\ Running("gate") => ReportGate
       /\ Running("ranking") => ReportRanking
       /\ Running("decide") => Decide
       /\ Running("batch") => BatchScore
  BY <1>1, ScriptWasRun
<1> QED BY <1>3, <1>4, <1>5, <1>6, <1>7, <1>8, <1>9, <1>10

(* What a complete target has made so far is of its data and its training,  *)
(* whatever was in the tree before.                                        *)
DataPart ==
    InEvidence =>
        /\ job.step > 1 => tree.raw \in DOMAIN DataSets
        /\ job.step > 2 => tree.features = tree.raw
        /\ job.step > 3 => /\ tree.model # 0 /\ job.training = tree.model
                           /\ trainings[tree.model].data = tree.raw

ModelPart ==
    InEvidence =>
        /\ job.step = 5 => tree.candidates = {}
        /\ job.step > 5 => tree.candidates = Losers(tree.model)
        /\ job.step > 6 => tree.metadata = tree.model
        /\ job.step > 7 => tree.metrics = tree.model

BundlePart ==
    InEvidence =>
        /\ job.step > 13 => tree.repository = "PASS"
        /\ job.step > 14 => tree.parity = "PASS"

ReportPart ==
    InEvidence =>
        /\ job.step > 15 => /\ tree.drift.data = tree.raw
                            /\ tree.drift.windows = DriftWindows(DataSets[tree.raw].rows)
        /\ job.step > 16 => /\ tree.quality.data = tree.raw
                            /\ tree.quality.status = CheckDataQuality(DataSets[tree.raw].quality)
        /\ job.step > 17 => tree.gate.training = tree.model
        /\ job.step > 18 => tree.ranking.training = tree.model
        /\ job.step > 19 => tree.decision.training = tree.model
        /\ job.step > 20 => tree.quality.status = "PASS"

EvidenceInv == DataPart /\ ModelPart /\ BundlePart /\ ReportPart

(* A tree that is complete has all of it, and stays as it is until the next *)
(* target; what was registered then stays registered.                      *)
IsComplete(files) == files.model \in 1..Len(trainings) /\ Coherent(files)

CompleteInv ==
    complete =>
        /\ IsComplete(tree)
        /\ tree.drift.windows = DriftWindows(DataSets[trainings[tree.model].data].rows)

RegisteredInv == \A r \in registered : r.complete => IsComplete(r.files)

(* An identity that CI uploaded is of an image it built from such a tree,   *)
(* and was found READY for preprod; a promotion that was given a source is  *)
(* of that identity.                                                       *)
ArtifactInv ==
    /\ \A identity \in artifacts :
         /\ identity.digest \in DOMAIN images
         /\ images[identity.digest].complete
         /\ images[identity.digest].model = images[identity.digest].metadata
         /\ [target |-> "preprod", identity |-> identity, source |-> identity] \in ready
    /\ \A r \in ready : r.source \in {NoSource, r.identity}

(* The script of each step, and with EvidenceGoesOn the file it has made.    *)
LEMMA EvidenceRuns ==
    ASSUME JobInv, InEvidence
    PROVE  /\ job.step = 1 => Running("data")
           /\ job.step = 2 => Running("features")
           /\ job.step = 4 => Running("unlink")
           /\ job.step = 5 => Running("candidates")
           /\ job.step = 6 => Running("metadata")
           /\ job.step = 7 => Running("metrics")
           /\ job.step = 13 => Running("validate")
           /\ job.step = 14 => Running("parity")
           /\ job.step = 15 => Running("drift")
           /\ job.step = 16 => Running("quality")
           /\ job.step = 17 => Running("gate")
           /\ job.step = 18 => Running("ranking")
           /\ job.step = 19 => Running("decide")
           /\ job.step = 20 => Running("batch")
           /\ job.step = 21 => Running("approval")
BY EvidenceScripts DEF InEvidence, Running

LEMMA DataIsInductive ==
    ASSUME JobInv, FilesInv, ExportInv, DataPart, [Next]_vars, InEvidence'
    PROVE  DataPart'
<1>1. CASE job'.step = 1
  BY <1>1 DEF DataPart
<1>2. CASE job' = job /\ UNCHANGED <<tree, trainings>>
  BY <1>2 DEF DataPart, InEvidence
<1>3. CASE /\ InEvidence /\ job.step \in 1..20 /\ job'.step = job.step + 1
           /\ job.step \notin {3, 8} => job'.training = job.training
           /\ job.step = 3 => Train /\ job'.training = Len(trainings')
           /\ job.step = 8 => job'.training = tree.model
           /\ \E training : GoesOnAbout(training)
  <2>1. PICK training : GoesOnAbout(training)
    BY <1>3
  <2>2. /\ job.step > 1 => tree.raw \in DOMAIN DataSets
        /\ job.step > 2 => tree.features = tree.raw
        /\ job.step > 3 => /\ tree.model # 0 /\ job.training = tree.model
                           /\ trainings[tree.model].data = tree.raw
    BY <1>3 DEF DataPart
  <2>3. tree'.raw \in DOMAIN DataSets
    <3>1. CASE job.step = 1
      BY <1>3, <2>1, <3>1, EvidenceRuns, ScriptHasWritten
    <3>2. CASE job.step # 1
      BY <1>3, <2>2, <3>2, EvidenceWrites
    <3> QED BY <3>1, <3>2
  <2>4. job'.step > 2 => tree'.features = tree'.raw
    <3>1. CASE job.step = 2
      <4>1. tree'.features = tree.raw
        BY <1>3, <2>1, <3>1, EvidenceRuns, ScriptHasWritten
      <4> QED BY <1>3, <3>1, <4>1, EvidenceWrites
    <3>2. CASE job.step > 2
      BY <1>3, <2>2, <3>2, EvidenceWrites
    <3> QED BY <1>3, <3>1, <3>2
  <2>5. job'.step > 3 => /\ tree'.model # 0 /\ job'.training = tree'.model
                         /\ trainings'[tree'.model].data = tree'.raw
    <3>1. CASE job.step = 3
      <4>1. Train /\ job'.training = Len(trainings') /\ job' # Idle
        BY <1>3, <3>1 DEF InEvidence
      <4>2. tree' = [tree EXCEPT !.model = Len(trainings')]
        BY <4>1 DEF Train, Fail
      <4>3. tree'.model = Len(trainings')
        BY <4>2 DEF FilesInv, FileNames
      <4>4. /\ Len(trainings) \in Nat /\ Len(trainings') = Len(trainings) + 1
            /\ trainings'[Len(trainings')].data = tree.features
        <5>1. ~UNCHANGED trainings
          <6>1. \E record : trainings' = Append(trainings, record)
            BY <4>1 DEF Train, Fail
          <6> QED BY <6>1 DEF FilesInv
        <5> QED BY <5>1, TrainingsAreKept DEF FilesInv
      <4> QED BY <1>3, <2>2, <3>1, <4>1, <4>3, <4>4, EvidenceWrites
    <3>2. CASE job.step > 3
      <4>1. UNCHANGED trainings /\ tree'.model = tree.model /\ tree'.raw = tree.raw
        BY <1>3, <3>2, EvidenceWrites
      <4>2. job'.training = tree.model
        BY <1>3, <2>2, <3>2
      <4> QED BY <2>2, <3>2, <4>1, <4>2
    <3> QED BY <1>3, <3>1, <3>2
  <2> QED BY <2>3, <2>4, <2>5 DEF DataPart
<1> QED BY <1>1, <1>2, <1>3, EvidenceGoesOn

LEMMA ModelIsInductive ==
    ASSUME JobInv, FilesInv, DataPart, ModelPart, [Next]_vars, InEvidence'
    PROVE  ModelPart'
<1>1. CASE job'.step = 1
  BY <1>1 DEF ModelPart
<1>2. CASE job' = job /\ UNCHANGED <<tree, trainings>>
  BY <1>2 DEF ModelPart, InEvidence, Losers
<1>3. CASE /\ InEvidence /\ job.step \in 1..20 /\ job'.step = job.step + 1
           /\ \E training : GoesOnAbout(training)
  <2>1. PICK training : GoesOnAbout(training)
    BY <1>3
  <2>2. /\ job.step > 3 => job.training = tree.model
        /\ job.step = 5 => tree.candidates = {}
        /\ job.step > 5 => tree.candidates = Losers(tree.model)
        /\ job.step > 6 => tree.metadata = tree.model
        /\ job.step > 7 => tree.metrics = tree.model
    BY <1>3 DEF DataPart, ModelPart
  <2>3. /\ job.step = 4 => tree'.candidates = {}
        /\ job.step = 5 => tree'.candidates = Losers(job.training)
        /\ job.step = 6 => tree'.metadata = job.training
        /\ job.step = 7 => tree'.metrics = job.training
    <3>1. job.step = 4 => tree'.candidates = {}
      BY <1>3, <2>1, EvidenceRuns, ScriptHasWritten
    <3>2. job.step = 5 => tree'.candidates = Losers(job.training)
      BY <1>3, <2>1, <2>2, EvidenceRuns, ScriptHasReported
    <3>3. job.step = 6 => tree'.metadata = job.training
      BY <1>3, <2>1, EvidenceRuns, ScriptHasWritten
    <3>4. job.step = 7 => tree'.metrics = job.training
      BY <1>3, <2>1, EvidenceRuns, ScriptHasWritten
    <3> QED BY <3>1, <3>2, <3>3, <3>4
  <2>4. CASE job.step > 3
    <3>1. UNCHANGED trainings /\ tree'.model = tree.model
      BY <1>3, <2>4, EvidenceWrites
    <3>2. Losers(tree.model)' = Losers(tree.model)
      BY <3>1 DEF Losers
    <3>3. /\ job.step > 5 => tree'.candidates = tree.candidates
          /\ job.step > 6 => tree'.metadata = tree.metadata
          /\ job.step > 7 => tree'.metrics = tree.metrics
      BY <1>3, EvidenceWrites
    <3> QED BY <1>3, <2>2, <2>3, <2>4, <3>1, <3>2, <3>3 DEF ModelPart
  <2>5. CASE ~(job.step > 3)
    BY <1>3, <2>5 DEF ModelPart
  <2> QED BY <2>4, <2>5
<1> QED BY <1>1, <1>2, <1>3, EvidenceGoesOn

LEMMA ChecksAreInductive ==
    ASSUME JobInv, FilesInv, BundlePart, [Next]_vars, InEvidence'
    PROVE  BundlePart'
<1>1. CASE job'.step = 1
  BY <1>1 DEF BundlePart
<1>2. CASE job' = job /\ UNCHANGED <<tree, trainings>>
  BY <1>2 DEF BundlePart, InEvidence
<1>3. CASE /\ InEvidence /\ job.step \in 1..20 /\ job'.step = job.step + 1
           /\ \E training : GoesOnAbout(training)
  <2>1. PICK training : GoesOnAbout(training)
    BY <1>3
  <2>2. job.step = 13 => tree'.repository = "PASS"
    BY <1>3, <2>1, EvidenceRuns, ScriptHasWritten
  <2>3. job.step = 14 => tree'.parity = "PASS"
    BY <1>3, <2>1, EvidenceRuns, ScriptHasWritten
  <2>4. /\ job.step > 13 => tree'.repository = tree.repository /\ tree.repository = "PASS"
        /\ job.step > 14 => tree'.parity = tree.parity /\ tree.parity = "PASS"
    BY <1>3, EvidenceWrites DEF BundlePart
  <2> QED BY <1>3, <2>2, <2>3, <2>4 DEF BundlePart
<1> QED BY <1>1, <1>2, <1>3, EvidenceGoesOn

LEMMA ReportsAreInductive ==
    ASSUME JobInv, FilesInv, DataPart, ModelPart, ReportPart, [Next]_vars, InEvidence'
    PROVE  ReportPart'
<1>1. CASE job'.step = 1
  BY <1>1 DEF ReportPart
<1>2. CASE job' = job /\ UNCHANGED <<tree, trainings>>
  BY <1>2 DEF ReportPart, InEvidence
<1>3. CASE /\ InEvidence /\ job.step \in 1..20 /\ job'.step = job.step + 1
           /\ \E training : GoesOnAbout(training)
  <2>1. PICK training : GoesOnAbout(training)
    BY <1>3
  <2>2. CASE ~(job.step > 14)
    BY <1>3, <2>2 DEF ReportPart
  <2>3. CASE job.step > 14
    <3>1. /\ tree.features = tree.raw /\ tree.metrics = tree.model
          /\ tree'.raw = tree.raw /\ tree'.model = tree.model
      BY <1>3, <2>3, EvidenceWrites DEF DataPart, ModelPart
    <3>2. job.step = 15 => /\ tree'.drift.data = tree.raw
                           /\ tree'.drift.windows = DriftWindows(DataSets[tree.raw].rows)
      BY <1>3, <2>1, <3>1, EvidenceRuns, ScriptHasReported
    <3>3. job.step = 16 => /\ tree'.quality.data = tree.raw
                           /\ tree'.quality.status = CheckDataQuality(DataSets[tree.raw].quality)
      BY <1>3, <2>1, EvidenceRuns, ScriptHasReported
    <3>4. job.step = 17 => tree'.gate.training = tree.model
      BY <1>3, <2>1, <3>1, EvidenceRuns, ScriptHasReported
    <3>5. job.step = 18 => tree'.ranking.training = tree.model
      BY <1>3, <2>1, <3>1, EvidenceRuns, ScriptHasReported
    <3>6. job.step = 19 => tree'.decision.training = tree.model
      BY <1>3, <2>1, <3>1, EvidenceRuns, ScriptHasReported
    <3>7. job.step = 20 => CheckDataQuality(DataSets[tree.raw].quality) = "PASS"
      BY <1>3, <2>1, EvidenceRuns, ScriptHasReported
    <3>8. /\ job.step > 15 => tree'.drift = tree.drift
          /\ job.step > 16 => tree'.quality = tree.quality
          /\ job.step > 17 => tree'.gate = tree.gate
          /\ job.step > 18 => tree'.ranking = tree.ranking
          /\ job.step > 19 => tree'.decision = tree.decision
      BY <1>3, EvidenceWrites
    <3>9. job'.step > 15 => /\ tree'.drift.data = tree'.raw
                            /\ tree'.drift.windows = DriftWindows(DataSets[tree'.raw].rows)
      BY <1>3, <2>3, <3>1, <3>2, <3>8 DEF ReportPart
    <3>10. job'.step > 16 => /\ tree'.quality.data = tree'.raw
                             /\ tree'.quality.status = CheckDataQuality(DataSets[tree'.raw].quality)
      BY <1>3, <2>3, <3>1, <3>3, <3>8 DEF ReportPart
    <3>11. job'.step > 17 => tree'.gate.training = tree'.model
      BY <1>3, <2>3, <3>1, <3>4, <3>8 DEF ReportPart
    <3>12. job'.step > 18 => tree'.ranking.training = tree'.model
      BY <1>3, <2>3, <3>1, <3>5, <3>8 DEF ReportPart
    <3>13. job'.step > 19 => tree'.decision.training = tree'.model
      BY <1>3, <2>3, <3>1, <3>6, <3>8 DEF ReportPart
    <3>14. job'.step > 20 => tree'.quality.status = "PASS"
      BY <1>3, <2>3, <3>1, <3>7, <3>10
    <3> QED BY <3>9, <3>10, <3>11, <3>12, <3>13, <3>14 DEF ReportPart
  <2> QED BY <2>2, <2>3
<1> QED BY <1>1, <1>2, <1>3, EvidenceGoesOn

LEMMA EvidenceIsInductive ==
    ASSUME JobInv, FilesInv, ExportInv, EvidenceInv, [Next]_vars
    PROVE  EvidenceInv'
<1>1. CASE InEvidence'
  <2>1. DataPart /\ ModelPart /\ BundlePart /\ ReportPart
    BY DEF EvidenceInv
  <2>2. DataPart'
    BY <1>1, <2>1, DataIsInductive
  <2>3. ModelPart'
    BY <1>1, <2>1, ModelIsInductive
  <2>4. BundlePart'
    BY <1>1, <2>1, ChecksAreInductive
  <2>5. ReportPart'
    BY <1>1, <2>1, ReportsAreInductive
  <2> QED BY <2>2, <2>3, <2>4, <2>5 DEF EvidenceInv
<1>2. CASE ~InEvidence'
  BY <1>2 DEF EvidenceInv, DataPart, ModelPart, BundlePart, ReportPart
<1> QED BY <1>1, <1>2

(* The target ends with the approval pack, and all is there then.          *)
LEMMA EvidenceEnds ==
    ASSUME JobInv, FilesInv, ExportInv, ContractInv, EvidenceInv, BuildApprovalPack, job.target = Evidence
    PROVE  /\ IsComplete(tree)'
           /\ tree'.drift.windows = DriftWindows(DataSets[trainings'[tree'.model].data].rows)
<1> DEFINE t == tree.model
<1>1. InEvidence /\ Running("approval")
  BY DEF BuildApprovalPack, Running, InEvidence
<1>2. job.step = 21
  <2>1. job.step \in 1..21 /\ Evidence[job.step] = "approval"
    BY <1>1 DEF InEvidence, Running, JobInv, JobIsRunning
  <2> QED BY <2>1, EvidencePlaces
<1>3. /\ tree.raw \in DOMAIN DataSets /\ tree.features = tree.raw
      /\ t # 0 /\ job.training = t /\ trainings[t].data = tree.raw
  BY <1>1, <1>2 DEF EvidenceInv, DataPart
<1>4. tree.candidates = Losers(t) /\ tree.metadata = t /\ tree.metrics = t
  BY <1>1, <1>2 DEF EvidenceInv, ModelPart
<1>5. tree.repository = "PASS" /\ tree.parity = "PASS"
  BY <1>1, <1>2 DEF EvidenceInv, BundlePart
<1>6. /\ tree.drift.data = tree.raw /\ tree.drift.windows = DriftWindows(DataSets[tree.raw].rows)
      /\ tree.quality.data = tree.raw /\ tree.quality.status = "PASS"
      /\ tree.gate.training = t /\ tree.ranking.training = t /\ tree.decision.training = t
  BY <1>1, <1>2 DEF EvidenceInv, ReportPart
<1>7. BundleIsOf(tree, t)
  <2>1. ExportStep = 14
    <3>1. Evidence # TritonScripts
      BY EvidenceScripts DEF TritonScripts
    <3> QED BY <1>1, <1>2, <3>1 DEF ExportStep, InEvidence
  <2> QED BY <1>3, <2>1 DEF ExportInv, BundleIsOf
<1>8. t \in 1..Len(trainings)
  BY <1>3 DEF FilesInv
<1>9. UNCHANGED trainings
      /\ \E value : value.training = tree.metrics /\ tree' = [tree EXCEPT !.pack = value]
  <2> DEFINE pack(status) == [training |-> tree.metrics, status |-> status]
  <2>1. UNCHANGED trainings /\ \E status : tree' = [tree EXCEPT !.pack = pack(status)]
    BY DEF BuildApprovalPack
  <2>2. \A status : pack(status).training = tree.metrics
    OBVIOUS
  <2> HIDE DEF pack
  <2> QED BY <2>1, <2>2
<1>10. /\ UNCHANGED trainings /\ tree'.pack.training = t
       /\ \A file \in FileNames \ {"pack"} : tree'[file] = tree[file]
  BY <1>4, <1>9 DEF FilesInv, FileNames
<1>11. /\ tree'.model = t /\ tree'.raw = tree.raw /\ tree'.features = tree.raw /\ tree'.candidates = Losers(t)
       /\ tree'.metadata = t /\ tree'.metrics = t /\ tree'.repository = "PASS" /\ tree'.parity = "PASS"
       /\ tree'.drift = tree.drift /\ tree'.quality = tree.quality /\ tree'.gate = tree.gate
       /\ tree'.ranking = tree.ranking /\ tree'.decision = tree.decision
       /\ tree'.base = tree.base /\ tree'.calibrator = tree.calibrator /\ tree'.configs = tree.configs
       /\ tree'.preprocessor = tree.preprocessor /\ tree'.contract = tree.contract
  BY <1>3, <1>4, <1>5, <1>10 DEF FileNames
<1> HIDE DEF t
<1>12. {tree'.metadata, tree'.metrics, tree'.gate.training, tree'.ranking.training,
        tree'.decision.training, tree'.pack.training} = {t}
  BY <1>6, <1>10, <1>11
<1>13. BundleIsOf(tree', t)
  BY <1>7, <1>11 DEF BundleIsOf
<1>14. {tree'.raw, tree'.features, tree'.drift.data, tree'.quality.data} = {trainings'[t].data}
  BY <1>3, <1>6, <1>10, <1>11
<1>15. /\ {file.name : file \in tree'.candidates} = Names \ {trainings'[t].best}
       /\ \A file \in tree'.candidates : file.training = t
  <2> DEFINE names == Names \ {trainings[t].best}
             file(n) == [name |-> n, training |-> t]
  <2>1. tree'.candidates = {file(n) : n \in names} /\ trainings'[t].best = trainings[t].best
    BY <1>10, <1>11 DEF Losers
  <2>2. \A n \in names : file(n).name = n /\ file(n).training = t
    OBVIOUS
  <2> HIDE DEF names, file
  <2>3. {f.name : f \in tree'.candidates} = names /\ \A f \in tree'.candidates : f.training = t
    BY <2>1, <2>2
  <2> QED BY <2>1, <2>3 DEF names
<1>16. tree'.repository = "PASS" /\ tree'.parity = "PASS" /\ tree'.quality.status = "PASS"
  BY <1>6, <1>11
<1>17. Coherent(tree)'
  BY <1>11, <1>12, <1>13, <1>14, <1>15, <1>16, Zenon DEF Coherent, BundleIsOf
<1>18. tree'.drift.windows = DriftWindows(DataSets[trainings'[tree'.model].data].rows)
  BY <1>3, <1>6, <1>10, <1>11
<1> QED BY <1>8, <1>10, <1>11, <1>17, <1>18 DEF IsComplete

(* Past files stay coherent: the trainings they are of are not rewritten.   *)
LEMMA CoherentStays ==
    ASSUME FilesInv, [Next]_vars, NEW files, IsComplete(files)
    PROVE  /\ files.model \in 1..Len(trainings')
           /\ LET training == files.model
                  data == trainings'[training].data
              IN  /\ {files.metadata, files.metrics, files.gate.training, files.ranking.training,
                      files.decision.training, files.pack.training} = {training}
                  /\ BundleIsOf(files, training)
                  /\ {files.raw, files.features, files.drift.data, files.quality.data} = {data}
                  /\ {file.name : file \in files.candidates} = Names \ {trainings'[training].best}
                  /\ \A file \in files.candidates : file.training = training
                  /\ files.repository = "PASS" /\ files.parity = "PASS" /\ files.quality.status = "PASS"
<1>1. files.model \in 1..Len(trainings) /\ Coherent(files)
  BY DEF IsComplete
<1>2. files.model \in 1..Len(trainings') /\ trainings'[files.model] = trainings[files.model]
  BY <1>1, PastIsKept
<1> QED BY <1>1, <1>2, Zenon DEF Coherent

(* What is made of the files changes in few actions, and mostly grows.      *)
LEMMA ResultsChange ==
    ASSUME [Next]_vars
    PROVE  /\ UNCHANGED complete \/ Start \/ BuildApprovalPack
           /\ \/ UNCHANGED registered
              \/ registered' = registered \union {[files |-> tree, complete |-> complete]}
           /\ UNCHANGED images \/ images' = Append(images, Image)
           /\ UNCHANGED artifacts \/ ContainerJob
           /\ UNCHANGED ready \/ ContainerJob \/ Promote
           /\ artifacts \subseteq artifacts' /\ ready \subseteq ready'
BY DEF Next, vars, Writes, Proceed, Fail, Reports, Start, Crash, MakeDataset, BuildFeatures, Train,
         UnlinkCandidates, DumpCandidates, WriteMetadata, WriteMetrics, ExportBase, ExportCalibrator,
         WriteConfigs, DumpPreprocessor, WriteContract, ValidateRepository, ValidateExport, ReportDrift,
         ReportQuality, ReportGate, ReportRanking, Decide, BatchScore, BuildApprovalPack, RegisterRelease,
         BuildImage, ContainerJob, Promote

LEMMA CompleteIsInductive ==
    ASSUME JobInv, FilesInv, ExportInv, ContractInv, EvidenceInv, CompleteInv, [Next]_vars
    PROVE  CompleteInv'
<1>1. CASE BuildApprovalPack
  BY <1>1, EvidenceEnds DEF BuildApprovalPack, CompleteInv
<1>2. CASE ~BuildApprovalPack
  <2> SUFFICES ASSUME complete'
               PROVE  /\ IsComplete(tree)'
                      /\ tree'.drift.windows = DriftWindows(DataSets[trainings'[tree'.model].data].rows)
    BY DEF CompleteInv
  <2>1. UNCHANGED complete
    <3>1. complete' # FALSE
      OBVIOUS
    <3>2. ~Start
      BY <3>1 DEF Start
    <3> QED BY <1>2, <3>2, ResultsChange
  <2>2. job = Idle
    <3>1. complete # FALSE
      BY <2>1
    <3> QED BY <3>1 DEF JobInv
  <2>3. UNCHANGED <<tree, trainings>>
    BY <2>2 DEF Next, vars, Writes, Reports, Running, Start, Crash, MakeDataset, BuildFeatures, Train,
           UnlinkCandidates, DumpCandidates, WriteMetadata, WriteMetrics, ExportBase, ExportCalibrator,
           WriteConfigs, DumpPreprocessor, WriteContract, ValidateRepository, ValidateExport, ReportDrift,
           ReportQuality, ReportGate, ReportRanking, Decide, BatchScore, BuildApprovalPack, RegisterRelease,
           BuildImage, ContainerJob, Promote
  <2>4. complete
    BY <2>1
  <2> QED BY <2>3, <2>4 DEF CompleteInv, IsComplete, Coherent, BundleIsOf
<1> QED BY <1>1, <1>2

LEMMA RegisteredIsInductive ==
    ASSUME FilesInv, CompleteInv, RegisteredInv, [Next]_vars
    PROVE  RegisteredInv'
<1>1. UNCHANGED registered
      \/ registered' = registered \union {[files |-> tree, complete |-> complete]}
  BY ResultsChange
<1>2. ASSUME NEW files, IsComplete(files)
      PROVE  IsComplete(files)'
  BY <1>2, CoherentStays, Zenon DEF IsComplete, Coherent, BundleIsOf
<1>3. ASSUME NEW r \in registered', r.complete
      PROVE  IsComplete(r.files)'
  <2>1. CASE r \in registered
    BY <1>2, <1>3, <2>1 DEF RegisteredInv
  <2>2. CASE r = [files |-> tree, complete |-> complete]
    <3>1. r.files = tree /\ r.complete = complete
      BY <2>2
    <3>2. IsComplete(r.files)
      BY <1>3, <3>1 DEF CompleteInv
    <3> QED BY <1>2, <3>2
  <2> QED BY <1>1, <1>3, <2>1, <2>2
<1> QED BY <1>3 DEF RegisteredInv

LEMMA ImagesAreKept ==
    ASSUME ImagesInv, [Next]_vars
    PROVE  /\ DOMAIN images \subseteq DOMAIN images'
           /\ \A digest \in DOMAIN images : images'[digest] = images[digest]
<1>1. UNCHANGED images \/ images' = Append(images, Image)
  BY ResultsChange
<1>2. PICK records : images \in Seq(records)
  BY DEF ImagesInv
<1>3. CASE images' = Append(images, Image)
  <2> DEFINE image == Image
  <2>1. images' = Append(images, image)
    BY <1>3
  <2> HIDE DEF image
  <2> QED BY <1>2, <2>1
<1> QED BY <1>1, <1>3

LEMMA ArtifactsAreInductive ==
    ASSUME FilesInv, ImagesInv, CompleteInv, ArtifactInv, [Next]_vars
    PROVE  ArtifactInv'
<1> DEFINE Tested(identity) == /\ identity.digest \in DOMAIN images'
                               /\ images'[identity.digest].complete
                               /\ images'[identity.digest].model = images'[identity.digest].metadata
                               /\ [target |-> "preprod", identity |-> identity, source |-> identity] \in ready'
<1>1. ready \subseteq ready' /\ artifacts \subseteq artifacts'
  BY ResultsChange
<1>2. ASSUME NEW identity \in artifacts PROVE Tested(identity)
  BY <1>1, <1>2, ImagesAreKept DEF ArtifactInv
<1>3. CASE ContainerJob
  <2>1. PICK commit \in Commits :
          LET identity == BuildReleaseIdentity(Len(images'), commit)
          IN  /\ artifacts' = artifacts \union {identity}
              /\ ready' = ready \union {[target |-> "preprod", identity |-> identity, source |-> identity]}
    BY <1>3 DEF ContainerJob
  <2> DEFINE identity == BuildReleaseIdentity(Len(images'), commit)
  <2>2. identity.digest = Len(images')
    BY DEF BuildReleaseIdentity
  <2>3. Len(images') \in DOMAIN images' /\ images'[Len(images')] = Image
    <3> DEFINE image == Image
    <3>1. images' = Append(images, image)
      BY <1>3 DEF ContainerJob
    <3>2. PICK records : images \in Seq(records)
      BY DEF ImagesInv
    <3> HIDE DEF image
    <3> QED BY <3>1, <3>2 DEF image
  <2>4. Image.complete /\ Image.model = Image.metadata
    BY <1>3 DEF ContainerJob, Image, CompleteInv, IsComplete, Coherent
  <2> HIDE DEF identity
  <2>5. artifacts' = artifacts \union {identity}
        /\ ready' = ready \union {[target |-> "preprod", identity |-> identity, source |-> identity]}
    BY <2>1 DEF identity
  <2>6. Tested(identity)
    BY <2>2, <2>3, <2>4, <2>5
  <2> HIDE DEF Tested
  <2>8. \A other \in artifacts' : Tested(other)
    BY <1>2, <2>5, <2>6
  <2>9. \A r \in ready' : r.source \in {NoSource, r.identity}
    BY <2>5 DEF ArtifactInv
  <2> QED BY <2>8, <2>9 DEF ArtifactInv, Tested
<1>4. CASE ~ContainerJob
  <2>1. artifacts' = artifacts
    BY <1>4, ResultsChange
  <2>2. \A r \in ready' : r.source \in {NoSource, r.identity}
    <3>1. CASE Promote
      <4>1. PICK target \in {"preprod", "prod"}, digest \in {MutableTag} \union DOMAIN images, commit \in Commits :
              \E source \in {NoSource, BuildReleaseIdentity(digest, commit)} :
                ready' = ready \union {[target |-> target, identity |-> BuildReleaseIdentity(digest, commit),
                                        source |-> source]}
        <5>1. PICK transition \in {"dev", "preprod"} \X {"preprod", "prod"},
                   digest \in {MutableTag} \union DOMAIN images, commit \in Commits :
                \E source \in {NoSource, BuildReleaseIdentity(digest, commit)} :
                  ready' = ready \union {[target |-> transition[2],
                                          identity |-> BuildReleaseIdentity(digest, commit), source |-> source]}
          BY <3>1 DEF Promote, EvaluatePromotion
        <5>2. transition[2] \in {"preprod", "prod"}
          OBVIOUS
        <5> QED BY <5>1, <5>2, Zenon
      <4> DEFINE identity == BuildReleaseIdentity(digest, commit)
      <4> HIDE DEF identity
      <4>2. PICK source \in {NoSource, identity} :
              ready' = ready \union {[target |-> target, identity |-> identity, source |-> source]}
        BY <4>1 DEF identity
      <4> QED BY <4>2 DEF ArtifactInv
    <3>2. CASE ~Promote
      <4>1. ready' = ready
        BY <1>4, <3>2, ResultsChange
      <4> QED BY <4>1 DEF ArtifactInv
    <3> QED BY <3>1, <3>2
  <2> HIDE DEF Tested
  <2>3. \A identity \in artifacts' : Tested(identity)
    BY <1>2, <2>1
  <2> QED BY <2>1, <2>2, <2>3 DEF ArtifactInv, Tested
<1> QED BY <1>3, <1>4

LEMMA ReleaseIsInductive == Spec => [](EvidenceInv /\ CompleteInv /\ RegisteredInv /\ ArtifactInv)
<1>1. Init => EvidenceInv /\ CompleteInv /\ RegisteredInv /\ ArtifactInv
  BY DEF Init, EvidenceInv, DataPart, ModelPart, BundlePart, ReportPart, InEvidence, CompleteInv, RegisteredInv,
         ArtifactInv
<1>2. /\ JobInv /\ FilesInv /\ ImagesInv /\ ExportInv /\ ContractInv
      /\ EvidenceInv /\ CompleteInv /\ RegisteredInv /\ ArtifactInv /\ [Next]_vars
      => (EvidenceInv /\ CompleteInv /\ RegisteredInv /\ ArtifactInv)'
  BY EvidenceIsInductive, CompleteIsInductive, RegisteredIsInductive, ArtifactsAreInductive
<1>3. QED
  BY <1>1, <1>2, TypesAreInductive, BundleIsInductive, PTL DEF Spec

(* What is registered after a complete `make evidence` is of one training   *)
(* and its data, whatever earlier targets left in the tree, and whatever    *)
(* was trained since (Makefile, lifecycle.py).                             *)
THEOREM CompleteReleasesAreCoherent == Spec => []RegisteredIsCoherent
<1>1. RegisteredInv => RegisteredIsCoherent
  BY DEF RegisteredInv, RegisteredIsCoherent, IsComplete
<1>2. QED
  BY <1>1, ReleaseIsInductive, PTL

(* The drift report of a complete tree cuts the rows where the training cut *)
(* them: at its first and at its last boundary (drift.py, evaluation.py).   *)
THEOREM DriftIsOfTheTrainingWindows == Spec => []DriftWindowsAreTheModels
<1>1. FilesInv /\ CompleteInv => DriftWindowsAreTheModels
  <2> SUFFICES ASSUME FilesInv, CompleteInv, complete
               PROVE  LET ranges == SplitRanges(SplitOf[trainings[tree.metadata].data])
                      IN  /\ tree.drift.windows.reference = ranges["train"]
                          /\ tree.drift.windows.current = ranges["out_of_time_test"]
    BY DEF DriftWindowsAreTheModels
  <2> DEFINE data == trainings[tree.metadata].data
             rows == DataSets[data].rows
             n == Cardinality(rows)
             at == Boundary(n)
  <2>1. tree.metadata = tree.model /\ tree.model \in 1..Len(trainings)
    BY DEF CompleteInv, IsComplete, Coherent
  <2>2. data \in DOMAIN DataSets
    <3>1. trainings[tree.metadata] \in Trainings
      BY <2>1 DEF FilesInv
    <3> QED BY <3>1 DEF Trainings
  <2>3. n \in Nat
    <3>1. IsFiniteSet(rows)
      BY <2>2, ReleaseInputs
    <3> HIDE DEF rows
    <3> QED BY <3>1, FS_CardinalityType
  <2>4. at[0] = 0 /\ at[10] = n
    BY <2>3, BoundariesFollowEachOther
  <2>5. tree.drift.windows = DriftWindows(rows)
    BY <2>1 DEF CompleteInv
  <2>6. SplitOf[data] = TemporalSplit(rows)
    BY <2>2 DEF SplitOf
  <2> HIDE DEF data, rows
  <2>7. /\ TemporalSplit(rows)["train"] = Slice(rows, at[0], at[6])
        /\ TemporalSplit(rows)["out_of_time_test"] = Slice(rows, at[9], at[10])
    BY DEF TemporalSplit, Windows, Tenths
  <2>8. /\ SplitRanges(SplitOf[data])["train"] = DateRange(Slice(rows, 0, at[6]))
        /\ SplitRanges(SplitOf[data])["out_of_time_test"] = DateRange(Slice(rows, at[9], n))
    BY <2>4, <2>6, <2>7 DEF SplitRanges, Windows
  <2>9. /\ tree.drift.windows.reference = DateRange(Slice(rows, 0, at[6]))
        /\ tree.drift.windows.current = DateRange(Slice(rows, at[9], n))
    BY <2>5 DEF DriftWindows
  <2> QED BY <2>8, <2>9 DEF data
<1>2. QED
  BY <1>1, TypesAreInductive, ReleaseIsInductive, PTL

(* A promotion to production that is given the identity of a CI run as its  *)
(* source is of that identity, which CI built from a complete tree and found *)
(* READY for preprod (gitops_promotion.py, platform.yml); an image rebuilt  *)
(* in between is not.                                                      *)
THEOREM ProdIsBuiltOnce == Spec => []ProdIsTheTestedRelease
<1>1. ImagesInv /\ ArtifactInv => ProdIsTheTestedRelease
  <2> SUFFICES ASSUME ImagesInv, ArtifactInv, NEW r \in ready, r.target = "prod", r.source \in artifacts
               PROVE  /\ \E earlier \in ready : earlier.target = "preprod" /\ earlier.identity = r.identity
                      /\ images[r.identity.digest].complete
                      /\ images[r.identity.digest].model = images[r.identity.digest].metadata
    BY DEF ProdIsTheTestedRelease
  <2>1. r.source.digest \in DOMAIN images
    BY DEF ArtifactInv
  <2>2. r.source # NoSource
    <3>1. PICK records : images \in Seq(records)
      BY DEF ImagesInv
    <3>2. MutableTag \notin DOMAIN images
      BY <3>1 DEF MutableTag
    <3> QED BY <2>1, <3>2 DEF NoSource
  <2>3. r.identity \in artifacts
    BY <2>2 DEF ArtifactInv
  <2> QED BY <2>3 DEF ArtifactInv
<1>2. QED
  BY <1>1, TypesAreInductive, ReleaseIsInductive, PTL

=============================================================================
