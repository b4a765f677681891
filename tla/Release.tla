------------------------------- MODULE Release -------------------------------
(***************************************************************************)
(* How a release is made: the make targets that turn data into a model,    *)
(* its Triton bundle and its evidence, in one working tree (Makefile,      *)
(* src/models/train.py, src/serving/triton_export.py, src/monitoring,      *)
(* src/governance); its registration (src/registry/lifecycle.py); and the  *)
(* image's way to production (platform.yml, gitops_promotion.py).          *)
(*                                                                         *)
(* A target runs its scripts in order and stops at the first that fails; a *)
(* script writes its files one after another, and may be interrupted       *)
(* between any two.  A file is a stamp: the data set or the training that  *)
(* it was made from, 0 when there is none.                                 *)
(***************************************************************************)
EXTENDS Evaluation, Sequences

CONSTANTS
    DataSets,       \* what customers.csv may hold: rows, quality, valid, drift
    Outcomes,       \* what a training may find
    Commits,
    FieldMetrics,   \* metrics that somebody may have observed of a model in service
    MaxJobs,        \* bound: targets, registrations and images
    MaxReady        \* bound: promotions run by hand only while fewer were decided READY

ASSUME ReleaseInputs ==
    /\ DataSets \in Seq([rows : SUBSET [date : Int, customer : Int, positive : BOOLEAN],
                         quality : [missing : Int, violations : Int], valid : BOOLEAN,
                         drift : [psi : Int, distance : Int]])
    /\ \A data \in DOMAIN DataSets : IsFiniteSet(DataSets[data].rows)
    /\ \A outcome \in Outcomes, name \in Names : outcome.test[name] \in
            [auc : Int, brier : Int, ece : Int, highPrecision : Int, precision : Int]
    /\ FieldMetrics \subseteq [status : {"in service"}, auc : Int, brier : Int, ece : Int, gap : Int]

VARIABLES
    trainings,      \* every training so far: data, best, threshold, outcome
    tree,           \* the files of the working tree
    job,            \* the running target, its next script and the training it is about
    complete,       \* `make evidence` was the last target, and ended
    jobs,           \* targets started
    registered,     \* what was registered: the files, and whether complete
    images,         \* container images, by digest
    artifacts,      \* identities a CI run uploaded
    ready           \* promotions decided READY
vars == <<trainings, tree, job, complete, jobs, registered, images, artifacts, ready>>

NoFiles ==
    [raw |-> 0, features |-> 0, model |-> 0, candidates |-> {}, metadata |-> 0, metrics |-> 0,
     base |-> 0, calibrator |-> 0, configs |-> 0, preprocessor |-> 0,
     contract |-> [training |-> 0, base |-> 0, calibrator |-> 0, preprocessor |-> 0],
     repository |-> "none", parity |-> "none", drift |-> [data |-> 0], quality |-> [data |-> 0],
     gate |-> [training |-> 0], ranking |-> [training |-> 0],
     decision |-> [training |-> 0], pack |-> [training |-> 0]]

Idle == [target |-> <<>>, step |-> 0, training |-> 0]
MutableTag == 0             \* an image reference that is not a digest
Release(training) == trainings[training].outcome.release

(* Of each data set.                                                       *)
SplitOf == [data \in DOMAIN DataSets |-> TemporalSplit(DataSets[data].rows)]

-----------------------------------------------------------------------------
(* The scripts of each target, by the files they write.                    *)
TrainScript == <<"model", "unlink", "candidates", "metadata", "metrics">>
TritonScripts == <<"base", "calibrator", "configs", "preprocessor", "contract", "validate", "parity">>
ReportScripts == <<"drift", "quality", "gate", "ranking">>

Evidence ==
    <<"data", "features">> \o TrainScript \o TritonScripts \o ReportScripts \o <<"decide", "batch", "approval">>

Targets == {<<"data">>, <<"features">>, TrainScript, TritonScripts, ReportScripts, <<"validate">>,
            <<"decide">>, <<"approval">>, Evidence}

(* A target, a registration, an image: one after another.                  *)
NextJob == job = Idle /\ jobs < MaxJobs /\ jobs' = jobs + 1

Start == \E target \in Targets :
    /\ NextJob
    /\ job' = [target |-> target, step |-> 1, training |-> 0]
    /\ complete' = FALSE
    /\ UNCHANGED <<trainings, tree, registered, images, artifacts, ready>>

(* The next file of the running target; the target ends with the last.     *)
Running(script) == job # Idle /\ job.target[job.step] = script

Proceed(training) ==
    /\ job' = IF job.step = Len(job.target) THEN Idle
              ELSE [target |-> job.target, step |-> job.step + 1, training |-> training]
    /\ UNCHANGED <<jobs, registered, images, artifacts, ready>>

Fail ==
    /\ job' = Idle
    /\ UNCHANGED <<jobs, registered, images, artifacts, ready>>

(* A script that writes its file, or raises when a file it reads is wrong. *)
Writes(script, inputsAreGood, newTree) ==
    /\ Running(script)
    /\ IF inputsAreGood THEN tree' = newTree /\ Proceed(job.training) ELSE UNCHANGED tree /\ Fail
    /\ UNCHANGED <<trainings, complete>>

Crash == job # Idle /\ Fail /\ UNCHANGED <<trainings, tree, complete>>

-----------------------------------------------------------------------------
MakeDataset == \E data \in DOMAIN DataSets : Writes("data", TRUE, [tree EXCEPT !.raw = data])

(* validate_input_schema raises on missing values and invalid dates.       *)
BuildFeatures ==
    Writes("features", tree.raw # 0 /\ DataSets[tree.raw].valid, [tree EXCEPT !.features = tree.raw])

(* train: everything is computed first; then the files are written.        *)
Train ==
    /\ Running("model")
    /\ IF tree.features = 0 \/ ~Usable(SplitOf[tree.features])
       THEN UNCHANGED <<trainings, tree>> /\ Fail
       ELSE /\ \E outcome \in Outcomes :
                 trainings' = Append(trainings,
                                [data |-> tree.features, best |-> Leader(outcome.selection), outcome |-> outcome,
                                 threshold |-> ChoosePolicyThreshold(outcome.table)])
            /\ tree' = [tree EXCEPT !.model = Len(trainings')]
            /\ Proceed(Len(trainings'))
    /\ UNCHANGED complete

UnlinkCandidates_keeps == Writes("unlink", TRUE, tree)
UnlinkCandidates == Writes("unlink", TRUE, [tree EXCEPT !.candidates = {}])

DumpCandidates ==
    LET losers == Names \ {trainings[job.training].best}
        kept == {file \in tree.candidates : file.name \notin losers}
    IN  Writes("candidates", TRUE,
               [tree EXCEPT !.candidates = kept \union {[name |-> n, training |-> job.training] : n \in losers}])

WriteMetadata == Writes("metadata", TRUE, [tree EXCEPT !.metadata = job.training])
WriteMetrics == Writes("metrics", TRUE, [tree EXCEPT !.metrics = job.training])

-----------------------------------------------------------------------------
(* export_triton_repository: the model is read once, at its start.         *)
ExportBase ==
    /\ Running("base")
    /\ IF tree.model # 0 /\ tree.features # 0
       THEN tree' = [tree EXCEPT !.base = tree.model] /\ Proceed(tree.model)
       ELSE UNCHANGED tree /\ Fail
    /\ UNCHANGED <<trainings, complete>>
ExportCalibrator == Writes("calibrator", TRUE, [tree EXCEPT !.calibrator = job.training])
WriteConfigs == Writes("configs", TRUE, [tree EXCEPT !.configs = job.training])
DumpPreprocessor == Writes("preprocessor", TRUE, [tree EXCEPT !.preprocessor = job.training])

(* The hashes are of the files as they are on disk.                        *)
WriteContract ==
    Writes("contract", tree.metadata # 0,
           [tree EXCEPT !.contract = [training |-> job.training, base |-> tree.base,
                                      calibrator |-> tree.calibrator, preprocessor |-> tree.preprocessor]])

HashesMatch_without_base ==
    /\ tree.contract.calibrator = tree.calibrator
    /\ tree.contract.preprocessor = tree.preprocessor
HashesMatch ==
    /\ tree.contract.base = tree.base
    /\ tree.contract.calibrator = tree.calibrator
    /\ tree.contract.preprocessor = tree.preprocessor

(* Both write their report and then exit with 2 when it does not pass.     *)
Reports(file, status) ==
    /\ tree' = [tree EXCEPT ![file] = status]
    /\ IF status = "PASS" THEN Proceed(job.training) ELSE Fail
    /\ UNCHANGED <<trainings, complete>>

ValidateRepository ==
    /\ Running("validate")
    /\ Reports("repository", IF tree.contract.training # 0 /\ HashesMatch THEN "PASS" ELSE "FAIL")

(* The outputs agree only if all files are of the model's training; even   *)
(* then an answer rounded over the threshold fails the comparison.         *)
ValidateExport ==
    /\ Running("parity")
    /\ IF tree.model = 0 \/ tree.contract.training = 0 \/ tree.metadata = 0 \/ tree.features = 0
       THEN Fail /\ UNCHANGED <<trainings, tree, complete>>
       ELSE \E status \in IF {tree.base, tree.calibrator, tree.preprocessor} = {tree.model}
                          THEN {"PASS", "FAIL"} ELSE {"FAIL"} : Reports("parity", status)

-----------------------------------------------------------------------------
ReportDrift ==
    Writes("drift", tree.features # 0,
           [tree EXCEPT !.drift = [data |-> tree.features,
                                   windows |-> DriftWindows(DataSets[tree.features].rows),
                                   status |-> DriftStatus(DataSets[tree.features].drift)]])

ReportQuality ==
    Writes("quality", tree.raw # 0,
           [tree EXCEPT !.quality = [data |-> tree.raw, status |-> CheckDataQuality(DataSets[tree.raw].quality)]])

TestMetrics(training) == trainings[training].outcome.test[trainings[training].best]
AgeGap(training) == Gap(trainings[training].outcome.ages)
EmploymentGap(training) == Gap(trainings[training].outcome.employments)

ReportGate ==
    Writes("gate", tree.metrics # 0,
           [tree EXCEPT !.gate = [training |-> tree.metrics,
                                  status |-> EvaluateGate(TestMetrics(tree.metrics), AgeGap(tree.metrics),
                                                          EmploymentGap(tree.metrics))]])

ReportRanking ==
    Writes("ranking", tree.metrics # 0,
           [tree EXCEPT !.ranking = [training |-> tree.metrics,
                                     champion |-> BuildChampionChallengerReport(trainings[tree.metrics].outcome.test)]])

(* With or without a file of observed metrics: any, or those of the last    *)
(* window with the support-rate gap of one of the groupings.               *)
Observations ==
    {NotObserved} \union FieldMetrics \union
    (IF tree.metrics = 0 THEN {}
     ELSE {[status |-> "in test", auc |-> TestMetrics(tree.metrics).auc, brier |-> TestMetrics(tree.metrics).brier,
            ece |-> TestMetrics(tree.metrics).ece, gap |-> gap] :
                gap \in {AgeGap(tree.metrics), EmploymentGap(tree.metrics)}})

Decide == \E observed \in Observations :
    Writes("decide", tree.drift.data # 0 /\ tree.quality.data # 0,
           [tree EXCEPT !.decision =
                [training |-> tree.metrics, observed |-> observed,
                 action |-> DecideContinuousAction(DataSets[tree.drift.data].drift, tree.quality.status, observed)]])

(* score_frame raises on data of bad quality: the target stops here.       *)
BatchScore ==
    Writes("batch", /\ tree.raw # 0 /\ tree.model # 0
                    /\ CheckDataQuality(DataSets[tree.raw].quality) = "PASS", tree)

(* A missing report counts as missing, and the pack is written anyway.     *)
BuildApprovalPack ==
    /\ Running("approval")
    /\ \E otherControls \in BOOLEAN :
         tree' = [tree EXCEPT !.pack =
                    [training |-> tree.metrics,
                     status |-> IF tree.gate.training = 0 \/ tree.quality.data = 0 \/ tree.drift.data = 0
                                THEN "REVIEW"
                                ELSE BuildPack(tree.gate.status, tree.quality.status, tree.drift.status,
                                               otherControls)]]
    /\ complete' = (job.target = Evidence)
    /\ Proceed(0)
    /\ UNCHANGED trainings

-----------------------------------------------------------------------------
(* register_release: reads the four files and checks only that they exist. *)
RegisterRelease ==
    /\ NextJob
    /\ 0 \notin {tree.model, tree.metadata, tree.metrics, tree.gate.training}
    /\ registered' = registered \union {[files |-> tree, complete |-> complete]}
    /\ UNCHANGED <<trainings, tree, job, complete, images, artifacts, ready>>

(* docker build: copies models/ as it is, under a digest of its own.       *)
Image == [model |-> tree.model, metadata |-> tree.metadata, complete |-> complete]

BuildImage ==
    /\ NextJob
    /\ images' = Append(images, Image)
    /\ UNCHANGED <<trainings, tree, job, complete, registered, artifacts, ready>>

BuildReleaseIdentity(digest, commit) ==
    [digest |-> digest, commit |-> commit, release |-> Release(tree.metadata)]

Required(transition) ==
    IF transition = <<"dev", "preprod">> THEN {"build"} ELSE {"build", "lifecycle"}

NoSource == [digest |-> MutableTag]

EvaluatePromotion_any_source(transition, identity, checks, approval, source) ==
    /\ transition \in {<<"dev", "preprod">>, <<"preprod", "prod">>}
    /\ identity.digest # MutableTag
    /\ Required(transition) \subseteq checks
    /\ transition = <<"preprod", "prod">> => approval = "approved"

(* READY, or BLOCKED.  The identity is compared only if a source is given.  *)
EvaluatePromotion(transition, identity, checks, approval, source) ==
    /\ transition \in {<<"dev", "preprod">>, <<"preprod", "prod">>}
    /\ identity.digest # MutableTag
    /\ source \in {NoSource, identity}
    /\ Required(transition) \subseteq checks
    /\ transition = <<"preprod", "prod">> => approval = "approved"

(* The container job of CI, after its evidence job: build, test, identity, *)
(* dev to preprod; only a READY identity is uploaded.                      *)
ContainerJob == \E commit \in Commits :
    /\ NextJob /\ complete
    /\ images' = Append(images, Image)
    /\ LET identity == BuildReleaseIdentity(Len(images'), commit)
       IN  /\ EvaluatePromotion(<<"dev", "preprod">>, identity, {"build"}, "pending", identity)
           /\ artifacts' = artifacts \union {identity}
           /\ ready' = ready \union {[target |-> "preprod", identity |-> identity, source |-> identity]}
    /\ UNCHANGED <<trainings, tree, job, complete, registered>>

(* Somebody runs gitops_promotion for any image, with the metadata of the   *)
(* tree, and with the identity of a CI run as source, with one made by hand *)
(* (which blocks unless it is the same), or with none.                     *)
Promote ==
    \E transition \in {"dev", "preprod"} \X {"preprod", "prod"}, digest \in {MutableTag} \union DOMAIN images,
       commit \in Commits, checks \in SUBSET {"build", "lifecycle"}, approval \in {"pending", "approved"} :
        /\ tree.metadata # 0 /\ Cardinality(ready) < MaxReady
        /\ LET identity == BuildReleaseIdentity(digest, commit)
           IN  \E source \in artifacts \union {identity, NoSource} :
                /\ EvaluatePromotion(transition, identity, checks, approval, source)
                /\ ready' = ready \union {[target |-> transition[2], identity |-> identity, source |-> source]}
        /\ UNCHANGED <<trainings, tree, job, complete, jobs, registered, images, artifacts>>

-----------------------------------------------------------------------------
Init ==
    /\ trainings = <<>> /\ tree = NoFiles /\ job = Idle
    /\ complete = FALSE /\ jobs = 0
    /\ registered = {} /\ images = <<>> /\ artifacts = {} /\ ready = {}

Next ==
    \/ Start \/ Crash
    \/ MakeDataset \/ BuildFeatures
    \/ Train \/ UnlinkCandidates \/ DumpCandidates \/ WriteMetadata \/ WriteMetrics
    \/ ExportBase \/ ExportCalibrator \/ WriteConfigs \/ DumpPreprocessor \/ WriteContract
    \/ ValidateRepository \/ ValidateExport
    \/ ReportDrift \/ ReportQuality \/ ReportGate \/ ReportRanking
    \/ Decide \/ BatchScore \/ BuildApprovalPack
    \/ RegisterRelease \/ BuildImage \/ ContainerJob \/ Promote

Spec == Init /\ [][Next]_vars

-----------------------------------------------------------------------------
BundleIsOf(files, training) ==
    {files.base, files.calibrator, files.configs, files.preprocessor, files.contract.training} = {training}

(* All the files are of one training and of its data.                      *)
Coherent(files) ==
    LET training == files.model
        data == trainings[training].data
    IN  /\ {files.metadata, files.metrics, files.gate.training, files.ranking.training,
            files.decision.training, files.pack.training} = {training}
        /\ BundleIsOf(files, training)
        /\ {files.raw, files.features, files.drift.data, files.quality.data} = {data}
        /\ {file.name : file \in files.candidates} = Names \ {trainings[training].best}
        /\ \A file \in files.candidates : file.training = training
        /\ files.repository = "PASS" /\ files.parity = "PASS" /\ files.quality.status = "PASS"

(* What is registered after a complete `make evidence` is of one training: *)
(* model, candidates, metadata, metrics, gate, bundle, checks and data,    *)
(* whatever earlier, interrupted or failed targets left in the tree.       *)
RegisteredIsCoherent == \A r \in registered : r.complete => Coherent(r.files)

(* validate_repository passes only a bundle that one export wrote: not one *)
(* that an interrupted export has begun to overwrite.                      *)
ValidatedBundleIsOneExport ==
    [][ValidateRepository /\ tree'.repository = "PASS" => BundleIsOf(tree, tree.contract.training)]_vars

WindowsFollowInTime == [data \in DOMAIN DataSets |->
    LET order == <<"train", "model_selection", "calibration", "policy_validation", "out_of_time_test">>
        split == SplitOf[data]
    IN  /\ DataSets[data].rows = UNION {split[w] : w \in Windows}
        /\ \A a, b \in 1..5 : a < b =>
             \A early \in split[order[a]], late \in split[order[b]] : early # late /\ early.date <= late.date]

(* The five windows of every training share no row, miss none, and follow  *)
(* each other in time: nothing is evaluated on a date before one it was    *)
(* made from.  The date of a boundary may lie on both sides of it (line 98 *)
(* orders the rows of a date by customer).                                 *)
EvaluatedOnLaterRows == \A i \in DOMAIN trainings : WindowsFollowInTime[trainings[i].data]

(* The drift report of a complete tree compares the dates of the windows   *)
(* that its model was trained and tested on.                               *)
DriftWindowsAreTheModels ==
    complete => LET ranges == SplitRanges(SplitOf[trainings[tree.metadata].data])
                IN  /\ tree.drift.windows.reference = ranges["train"]
                    /\ tree.drift.windows.current = ranges["out_of_time_test"]

(* A model that the release gate passes is no incident by its own test     *)
(* metrics: only a fairness gap between the two limits makes it one, or    *)
(* what was observed of it in service.                                     *)
GatedModelIsNoIncident ==
    /\ tree.decision.training # 0 /\ tree.decision.training = tree.gate.training
    /\ tree.gate.status = "PASS" /\ tree.decision.action = "INVESTIGATE_MODEL"
    => tree.decision.observed.status = "in service" \/ tree.decision.observed.gap > 15

(* A promotion to production that is given the identity of a CI run as its *)
(* source, as platform.yml, line 415, gives it, is of the identity that    *)
(* went to preprod, built from a complete tree, its model and metadata of  *)
(* one training; an image rebuilt in between, from any tree, is not.       *)
(* Without a source nothing is compared, and any image may go.             *)
ProdIsTheTestedRelease == \A r \in ready :
    r.target = "prod" /\ r.source \in artifacts =>
        /\ \E earlier \in ready : earlier.target = "preprod" /\ earlier.identity = r.identity
        /\ LET image == images[r.identity.digest]
           IN  image.complete /\ image.model = image.metadata

=============================================================================
