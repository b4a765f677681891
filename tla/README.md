# Verification of the regulated ML platform

TLA+ models, TLC runs and TLAPS proofs for `xm2325/regulated_ml_platform`, a
Python platform that trains a model, releases it through an MLflow registry,
serves it, and replaces it through a canary. Paths below start at the
repository's root; the platform's own code is in its directory `src/`.

## 1. Inventory

| Component | State it keeps | Operations | Talks to |
|---|---|---|---|
| Alias lifecycle, `src/registry/lifecycle.py`, `cli.py` | in MLflow: model versions, the aliases champion, challenger and rollback, version tags | register, promote, roll back, sync, verify, status | MLflow, one remote call at a time |
| Champion runtime, `src/serving/runtime_manager.py` | active predictor and its status; on disk `releases/<version>`, `current.json` and `.current.json.tmp` | start, load the cached bundle, reload (forced or from the loop), predict, status | the registry (sync), the cache directory |
| Canary controller, `src/serving/canary.py` | challenger, state, evidence window, verdicts | refresh, evaluate, stop, promote, predict, status | the registry (sync and promote), the runtime (predict, reload, status) |
| Scoring policy and review, `src/serving/policy.py`, `review_workflow.py` | none | decide, route | called by the predictor, the API, batch and shadow scoring |
| Predictor, schema, features | the loaded model | probability, predict | files |
| API, `src/serving/app.py` | metrics | HTTP handlers | runtime, canary |
| Shadow and batch scoring | none | score a request, score a frame | predictor, policy |
| Training, evaluation, Triton export, reports, gate (the make targets) | the files of the working tree | train, export, validate, report, judge, pack | each other's files, registration, the image |
| Continuous operations, data quality, drift | none | decide whether to train | reports |
| Environment promotion, `src/operations/gitops_promotion.py` | the identity released in each environment | evaluate a transition | release pipeline |
| GPU scaling, accelerator policy | the decision file; the replica count (outside) | judge a benchmark, decide scale out, in, hold | benchmark reports |
| Concurrent Triton benchmark, capacity plan | threads and a barrier, the server's counters; reports | send bursts, measure, plan replicas | the Triton server |
| Other benchmarks and drills, governance documents, core, deployment files | files | scripts | – |

How the stateful parts interact. Operators (people at the command line, the
canary) change the aliases by sequences of remote calls with no transaction.
Each serving process runs three kinds of threads: request handlers, the
runtime's reload loop, which follows the champion alias, and the canary's
control loop, which follows the challenger alias, decides on the evidence the
requests record, promotes through the registry and then forces a reload of the
runtime. Locks in the process are held for single steps only. The cache
directory outlives the process.

What is hard: calls that fail half way, and their retries; two operators at
once; three threads publishing to the same directory; crashes there; answers
computed before a swap and labelled after it; evidence recorded after the
challenger it is about was replaced; limits of the window and of the counts;
scripts that write their files one by one into a tree others read, interrupted in
between; a burst of threads that must neither hang nor start early; results
rounded on one path and not on another.
`PROJECT.json` lists each hazard at its line with the properties about it.

What makes each part correct:

* *Alias lifecycle*: a served version's own gate passed; champion never moves
  without a way back; retries keep the recovery target; tags agree with aliases.
* *Champion runtime*: only a bundle verified under the present settings is
  active; the provenance reported was true while the request ran; strict startup
  means what it says; the champion is followed in the end.
* *Canary*: verdicts rest on comparisons of the version judged; a stop is final;
  every canary that stays ends; failures and their limits stop it.
* *Scoring*: support for customers with safeguards reaches a reviewer; the API, a
  batch and the shadow give answers that agree.
* *Making a release*: what is registered after a complete run is of one training,
  evaluated on rows no earlier than those it was made from, and what goes to
  production from a CI run is what was tested.
* *Benchmark, capacity, GPU scaling*: a pass rests on answers none of which was seen
  to be bad and on what was measured at the level it is reported for; repeated
  decisions neither overshoot nor act on unsound evidence, and lasting pressure is
  answered.

## 2. Modules

| Module | What it is |
|---|---|
| `Registry` | the alias lifecycle, one action per remote call |
| `ReleaseLine` | abstract: what the lifecycle promises those who follow champion |
| `RuntimeManager` | the champion runtime, one action per step another thread or a crash can see |
| `Platform` | operators on `Registry` and a process of `RuntimeManager`, sharing the champion alias |
| `CanaryMetrics`, `Canary` | the evidence arithmetic; the canary controller, with the aliases and the runtime's active version as its environment |
| `Scoring` | one request scored by the API, in a batch and in the shadow |
| `Evaluation` | what the offline tools compute and decide, as operators |
| `Release` | the make targets and their files, registration, images, environment promotion |
| `CapacityPlan`, `Benchmark` | the capacity plan, as operators; the concurrent benchmark it is built on |
| `GpuScaling` | accelerator policy and GPU scaling, run again and again |
| `RegistryProofs`, `RuntimeManagerProofs`, `PlatformProofs`, `CanaryProofs`, `BenchmarkProofs`, `GpuScalingProofs`, `ScoringProofs`, `ReleaseProofs` | theorems about them |
| `MC...` | what the TLC configurations need |

Definitions whose name continues another's after an underscore
(`Validate_publishes_anyway`) are mutated forms of it: plausible bugs that show
each property can fail. No specification uses them.

### Registry and ReleaseLine

`registered`, `gate`, `alias`, `lifecycle` and `validation` are the registry
server's state; `pc` and `work` are an operator's place in the function it is
running and its local variables. `RegisterCreate` to `RegisterSetAlias` are the
calls of `register_release`, `PromoteReadChallenger` to `PromoteDropChallenger`
those of `promote_challenger`, `RollbackReadChampion` to `RollbackTagRestored`
those of `rollback_champion`, in the order of the code. `Reject` is an exception
the function raises itself, `Fail` any exception of a remote call or the death
of the process, at any step; both leave the aliases and tags as they stand. The
gate is a Boolean per version: `evaluate_gate` sets `status` and
`release_recommendation` together. Only the tags with a finite vocabulary are
kept; a call that sets dates or texts changes nothing here.

`_alias` takes every exception for an absent alias: `LookupFails` is the lookup of
the champion that raises, after which the promotion goes on as if there were none.
`PromoteCanary` passes the gate of the version it expects, as the canary does;
`PromoteCli` passes any passing gate with any expected version or none, as the
command line allows. `released` records, for the properties only, which versions
have been champion.

Two operators can undo each other's work in ways the code does not try to
prevent (a promotion between the two reads of a rollback, for one). Most
properties are therefore stated for one operator with failures anywhere. Two hold
for any number of operators: `ServedVersionsPassedTheirGate`, which needs promotions
to name the version of their gate (a command-line promotion without
`--expected-challenger-version` has no such protection), and
`RecoveryTargetHasServed`, which needs nothing: what a promotion writes under
rollback was champion when it was read, even if it no longer is.

`ReleaseLine` has the version in service, the one put aside, and whether those who
change the line have lost sight of the one in service; its steps put a version
aside, replace it or recover it. `Registry` implements it with champion and
rollback (`ImplementsReleaseLine`), however many calls an operation takes and
wherever they fail. A champion is replaced without having been put aside only by a
promotion that is `blind`: one whose lookup failed. Whether the documents allow
that is the question of the run `registry_lookup`.

### RuntimeManager

`predictor` and `status` are the object's fields, `cache`, `pointer` and
`tmpPointer` the cache directory, `pc[t]` and `candidate[t]` a thread's place in
`reload_from_registry` and its local version. The threads are `main` (the forced
reload of `__init__`), `loop`, and `Forcers` (the canary's control thread).
A directory `releases/<v>` is absent, whole or torn; removing it takes two steps
and may fail when another thread works there. The staging directory is private
to a reload, so downloading and verifying it is one step. A crash resets the
memory and leaves the disk; `Redeploy` changes, while the process is down, which
versions pass verification. `spans` records, for the properties only, which
versions were active while a request was in progress.

Left out: `MODEL_SOURCE=local` (nothing happens after start-up), the counters
of attempts, the texts of errors, left-over staging directories, a torn
`current.json` (it is replaced by a rename), and an I/O error in creating the
cache root.

### Platform

`Platform` extends `Registry` and instantiates `RuntimeManager` with the champion
alias for its `champion`. Every step is a call of an operator or a step of the
process other than `MoveAlias`, for which the operators' calls stand. The two are
tied by `VerifiableOnlyIfGated`: a bundle passes the runtime's verification only
if the gate released with it passed. `ImplementsRuntime` says that the process
behaves as `RuntimeManager` allows, so that what is shown of `RuntimeManager`,
whose environment is an alias that moves arbitrarily, holds among real operators.
Promotions are those of the canary and of the command line, with any gate: what
protects the process from a version whose gate failed is its own verification.

### Canary and CanaryMetrics

`state`, `loaded`, `records`, `promoted` and `decision` are the controller's
fields, `pc` and `candidate` the control thread's place. A request is three
critical sections: choose the arm, pick up the challenger, record. What scoring
measured is an element of `Measurements`. A record keeps the version it is about,
which the code's records do not. The registry's promotion appears as its check,
its move of champion and its removal of challenger, each of which may raise;
`LoopSyncs` and `LoopSwaps` are the runtime's reload loop. `Restart` is the death
of the process: everything but the registry's aliases is lost, and the new
process is on the champion or, when that cannot be loaded, on the version of its
cache. `Report` is the state that `status()` reports.
`CanaryMetrics` compares the code's quotients of floats by cross multiplication,
with probabilities in thousandths and rates in hundredths; a rounding error of
the floats at the very limit is outside the model. A disabled canary is left out.

### Scoring

A behaviour takes one case (request, probability of the model and of a candidate,
threshold, models present) through `Predict`, `ScoreFrame` and `ShadowPredict`, in
any order. Probabilities are integers in steps of 1e-7, below the six decimals the
API keeps and the four a batch keeps; `Round` is Python's, ties to even. The
margin of two doubles that differ by exactly 0.05 may come out on either side of
it: a case says which. Ratios of balances are in hundredths. Identifiers, texts and
the feature arithmetic are left out.

### Evaluation and Release

The state of `Release` is the working tree, in which a file is a stamp (the data
set or the training it was made from), the running target with its next script, and
what left the tree: registered releases, images, identities of CI runs, promotions
found READY. A target is a sequence of scripts, each one action per file it writes;
it stops at the first that fails, or anywhere (`Crash`). `make evidence` is the
whole sequence of the Makefile. What a training or a data set is like (metrics,
groups, threshold table, quality, drift distances) is an input; what the code
decides from it (windows, best model, threshold, gate, ranking, drift status,
continuous action, pack) is in `Evaluation`. `int(0.70 * n)` is one below seven
tenths for some `n` (90, 170, 180), which `ShortSeventy` lists.

Abstractions: one target at a time in one tree; a file is written whole or not at
all; two trainings never give the same bytes; the container job of CI is one step
after a complete evidence run. Somebody who promotes by hand gives as source the
identity of a CI run, one made by hand, or none, and then nothing is compared
(`gitops_promotion.py:54`); nothing ties an approval to an identity. The metrics
given to the continuous decision are those of the last window, any observed in
service (`FieldMetrics`), or none. The gate's four checks of the split's name are
left out, the name being a constant of the training, and so is the use of the
threshold in service, which is in `Scoring`: a training keeps its threshold because
the code writes it, and no property is about it.

### Benchmark, CapacityPlan and GpuScaling

`main` and `task[s]` are the places of the main thread and of the tasks of a burst;
the barrier opens when `Parties` wait. The server groups requests it holds as it
likes and counts inferences and executions; a request the client has given up may
be executed later, in another level (`late`). The plan is then built by the
operators of `CapacityPlan` from the report and a sweep, whose rows the code
normalizes twice. Times are left out but for the sweep's latencies, which are in
thousandths of the row's unit, so that a row's division by a thousand is exact: a
latency of 20001 microseconds does not meet a limit of 20 milliseconds. A latency is
a whole number of microseconds or does not parse (`SweepRows`). An answer is right, wrong by more than the tolerance, not a number, or
missing; a NaN counts only when it is the first answer of its level, because
`max` (line 227) keeps what it began with. The two claims of capacity that the
status wants disabled are part of the policy (`Claims`). Replicas are computed
exactly: where target and capacity tie, the code's floats may ask for one more.

`GpuScaling` runs the two scripts on files that change in between: load, model
family, benchmark, and edits of the replica bounds. Cooldowns are reported by the
code and enforced by nobody; they are not modelled.

## 3. Runs

| Run | Bounds | Shows |
|---|---|---|
| `registry_operator` | 1 operator, 3 versions, any gate, calls fail anywhere | `TagsAgreeWithAliases`, `RollbackQuarantines`, `RollbackPrecedesChampion`, `RetryKeepsRecoveryTarget`, and the refinement of `ReleaseLine` |
| `registry_race` | 2 operators, 2 versions, symmetry | `ServedVersionsPassedTheirGate`, `RecoveryTargetHasServed` |
| `registry_lookup` (violation) | 1 operator, 2 versions | `ReplacedChampionIsKept` fails: a failed lookup costs the way back |
| `runtime_reload` | main, loop and one forced reload, 2 versions, strict | `StrictNeverLocal`, `FollowsChampion` |
| `runtime_threads` | the same with a request, not strict | `ActiveModelIsVerified`, `ReportedWithinRequest` |
| `runtime_cache` (violation) | loop only, 2 versions | `LastKnownGoodSurvives` fails: no recovery bundle after a crash |
| `platform` | 1 operator, any gate, main and loop, 2 versions, 2 disruptions | `OnlyReleasedVersionsServe`, `ServesWhatWasReleased`, the refinement of `RuntimeManager` |
| `canary_evidence` | 2 requests, 2 versions, window 3, 2 alias moves, 1 failure or restart | `StaleEvidenceIsBounded`, `PromotionRestsOnEvidence` |
| `canary_decides` | 1 request, 3 versions, window 2, 2 alias moves, 1 failure or restart | `StopIsFinal`, `EveryCanaryEnds`, `ReportSettles` |
| `canary_errors` (violation) | challenger that always raises | `ErrorCeilingStops` fails: the error ceiling is not reached |
| `release` | 3 targets, registrations or images; four data sets; two outcomes of a training; promotions by hand until two are READY | `RegisteredIsCoherent`, `EvaluatedOnLaterRows`, `DriftWindowsAreTheModels`, `GatedModelIsNoIncident`, `ProdIsTheTestedRelease`, `ValidatedBundleIsOneExport` |
| `tools` | a behaviour is of one of three programs: bursts of two and of one, two rounds, one late request; 3 replicas, one edit; requests on both sides of every boundary and within each rounding of it, three thresholds | benchmark and plan: `BurstsAreSynchronized`, `PassMeansNoBadAnswerSeen`, `BatchingIsOfItsLevel`, `BurstsEnd`, `ObstaclesFailThePlan`, `CapacityIsEvidenced`; GPU scaling: `NeverFurtherOut`, `ScalesOnSoundEvidence`, `PressureIsAnswered`; scoring: `SupportIsSafeguarded` (support for an older customer or for high assets reaches a reviewer), `BatchAgreesWithOnline` and `ShadowChangeIsExplained` (the agreement of the three paths) |

Why the bounds are enough to be interesting. Three versions are a champion, a
rollback and a challenger, all different; two suffice where the question is
whether one of them slips through. Two operators give every pairwise
interleaving of the three functions. Three reloading threads are all a process
has. Two versions in the cache let a thread replace the directory another reads
and let the pointer disagree with it. Two disruptions let a release fail half way
and the process crash after it. Two requests in flight are one more than
the code expects when a challenger is replaced, and a window of three holds
records of both versions. Three jobs are an interrupted target, a second one over
its files, and the registration or image; a complete evidence run between two
others is among them. The data sets have 30 and 40 rows with several on a date, one
whose seventieth percent is one row short, one of a single class and of bad quality,
and one whose schema is refused; the windows' minimum is reduced from 20 to 2. The two outcomes meet every limit
exactly and miss several by one. Bursts of two and of one are a level with
overlap and one without, and the policy's numbers put the replica count on, below
and above the maximum. Bounds that are not the code's own: `MaxVersion`,
`MaxMoves`, `MaxFaults`, `MaxDisruptions`, `MaxJobs`, `MaxReady`, `MaxLate`, `MaxReplicas`,
`MaxEdits`, `Slots`. `CHECK_DEADLOCK FALSE` stands where the system ends: a scored
case, the last job, the end of the benchmark.

Fairness. `RuntimeManager` assumes that the process is restarted when it is
down, that a reload once begun is carried on (a thread runs) and that the loop
wakes up again, which is its `while not stop.wait(interval)`. It assumes nothing
of forced reloads beginning, of crashes or of the registry: `FollowsChampion`
asks for those in its premise. `Platform` assumes the same and nothing of the
operators, who may stop half way; `ServesWhatWasReleased` speaks of when they have.
`Canary` assumes that the control thread and the
reload loop run, that refreshes become due again and again (strong fairness,
since the control thread is only sometimes waiting), and that requests of the
customer in the challenger's arm keep coming and completing. `EveryCanaryEnds`
is checked with challengers that answer; for those that raise on every request
the run `canary_errors` shows that it cannot hold. `Benchmark` assumes that
threads run and that a request is answered or times out, never that the server
executes anything. `GpuScaling` assumes that somebody runs the two scripts again
and again, which is how their documents present them.

## 4. Proofs

All theorems hold for every value of the constants under the modules' own
named assumptions (`ConstantsAssumption`, `RuntimeConstants`, `CanaryConstants`,
`CapacityPolicy`, `BenchmarkArguments`, `SweepRows`, `ScalingConstants`,
`ScoringInputs`, `EvaluationConstants`, `ReleaseInputs`) and those in their
statements. The assumptions say what an input is, never how the system behaves:
finitely many handlers at once, rows of a CSV, finite data sets with integer dates,
integer metrics. Every run evaluates those of its modules. All invariants the runs
check are proved, and all their action properties and refinements.

*Registry.* `TypeCorrect` is inductive as it stands because `TypeOK` bounds every
alias and local by `registered`. `GateSafety` (for promotions that name the
version of their gate) uses `GateInv`: besides the aliases, the *locals* of an
operator are clean, that is, an expected version and the target a promotion has
read passed their gate, the champion it retires did, and so do both versions a
rollback has read. That is what makes the gap between reading and writing
harmless; it works because a gate, once released, never changes.
`RollbacksRestoreWhatServed` uses `ServedInv` in the same way, and nothing else: the
champion a promotion has read, and the target a rollback has read, have served.
`ChampionKeepsAWayBack` and `RetriesAreSafe`, action properties of one operator, use
`LoneInv`, which relates the operator's locals to the aliases at each place between
two calls; a lookup that failed leaves a local that says so, and is the only
exception to the way back.
`ChampionMovers` and `RollbackMovers` list the only steps that move those aliases.
`RollbacksQuarantine` adds `RollbackInv`: what a rollback has moved and tagged
stays so until its last call. `TagsTellTheAliases` needs to know of every version,
at every place of an operation, whether its tag is ahead of the aliases or behind
(`TagsFollow`).
`RegistryImplementsReleaseLine` maps each step that moves champion or rollback to one
of the abstract line and every other to a stutter, from `LoneInv` and
`TargetIsAVersion`.

*RuntimeManager.* `TypeCorrect`, then `RuntimeInv`: a thread past validation
holds an eligible version, the predictor is eligible, the status agrees with the
predictor about where it came from, and nothing is in memory while the process
is down, the only time `eligible` changes. It gives `OnlyVerifiedModelsServe` and
`StrictStartupHolds`. `ReportInv` adds that the status names the active model at
every step and that requests are in progress only while the process serves, and
gives `ReportsAreWithinRequests`. All three hold for any number of threads, so
the way reloads collide in the directory does not matter to them.

*Platform.* `PlatformImplementsRuntime` needs of the registry only that a target
is a version (`RegistryInv`), so that champion is never cleared.
`OnlyReleasedServe` adds `ReleaseInv` (predictor, both pointers and every candidate of
a reload are versions that have been champion) and `VerifiedInv` (predictor and every
candidate past validation are eligible, so that their gate passed). It needs nothing
of the promotions: unlike `GateSafety`, it holds with gates of other versions.

*Canary.* `TypeCorrect` rests on two lemmas about the window (`CountBound`,
`WindowKeepsItsBound`). `StopHolds` uses `StopInv`: between deciding and acting
the control thread alone changes the state, so the state is still a serving one
when it stops or promotes, and a stopped canary has a challenger to differ from.
`StaleEvidenceStaysBounded` is not inductive by itself: what bounds the stale
records is the handlers that may still add one, so its invariant counts both
together. `PromotionsRestOnEvidence` follows from it with `VerdictInv`, which holds
the verdict to the window it was computed from.

*Benchmark.* `BurstsSynchronize` uses `BurstInv`, which says on which side of the
barrier the tasks are at each place of the main thread; the barrier takes
everybody because a subset of the burst with its cardinality is the burst
(`BarrierTakesAll`). `PassesOnAnswersNotSeenBad` uses `EvidenceInv`: a wrong or missing
answer shows in the level's results until these become a scenario, which then fails;
a NaN may not.
`BatchingIsMeasuredPerLevel` uses `BatchInv`: the executions counted since the
level's counters were read times its largest batch cover the inferences counted,
unless a request was given up, and then the plan does not pass. `EvidenceObstaclesFail`
and `CapacityRestsOnEvidence` are about the plan's operators; the lemma under the
second (`RowsPassInMicroseconds`) was false of an earlier form of the model, which
rounded a latency down to whole milliseconds where the code keeps the fraction. TLC
had not seen it, its sweeps holding no latency just above a limit; now they do.

*GpuScaling.* `TypeCorrect`; `ScalingIsOnSoundEvidence` from the invariant that an
eligible decision was made on sound evidence; `ReplicasApproachTheirBounds`.

*Scoring.* `SupportReachesReview`: a probability at or above the threshold whose
rounding falls below the reported threshold is within two half units of it
(`RoundIsNear`), far less than the margin of 0.05, and is reviewed as near it.
`BatchAgrees` and `ShadowChangesAreExplained` rest on the same lemma and on what of a
result depends on the rounded probability (`PartsOfResult`, `ReasonsButTheThresholds`).

*Release.* `TrainingsAreOnEarlierRows` is arithmetic and counting: a row's rank is
the number of rows before it (`RanksFollowRows`), the five boundaries follow each
other although one may be cut off short (`BoundariesFollowEachOther`), so every rank
falls in one window (`WindowsAreOrdered`). The other five theorems are about files
that many scripts write. Two groups of lemmas carry them: where in a target a script
is (`EvidencePlaces`, `ExportPlaces`), and what a step changes
(`FilesChangeInTheirScripts`, `ScriptHasWritten`, `JobGoesOn`, `TrainingsAreKept`).

* `PassedModelIsNoIncident`: `GateInv` and `DecisionInv` keep, with the training a
  report is about, what of its metrics the report implies, unless others were
  observed in service. They survive later
  trainings because past ones are never rewritten.
* `PassedBundleIsOfOneTraining`: that the contract's hashes match says nothing about
  the files it has no hash of, nor that the base is of the contract's training. The
  invariant has two parts. `ExportInv`: in a running export the files written so far
  are of the training of its base. `ContractInv`: a contract's training is never
  later than the base's, and as long as it is the base's, so are all files; an export
  begun again on the same training writes the same, and one begun on a later training
  changes the base first, which the hashes then show.
* `CompleteReleasesAreCoherent`: `EvidenceInv` says, at each step of the complete
  target, which files are of its data and its training, whatever lies in the rest
  of the tree; a target that reached its end has them all (`EvidenceEnds`),
  `CompleteInv` keeps them until another starts, and `RegisteredInv` for good.
* `DriftIsOfTheTrainingWindows`: the same invariant, and the first and the last
  boundary of the drift report are those of the training for any number of rows.
* `ProdIsBuiltOnce`: `ArtifactInv`, an uploaded identity is of an image built from a
  complete tree and was found READY for preprod, and a promotion given a source is of
  it; images are never rewritten. Of promotions without a source it says nothing.

Only model-checked: the liveness properties (`FollowsChampion`,
`ServesWhatWasReleased`, `EveryCanaryEnds`, `ReportSettles`, `BurstsEnd`,
`PressureIsAnswered`), which are out of the proof system's reach, as are ENABLED and
induction over data. What is proved of `ChoosePolicyThreshold` and `Gap` is only what
their users need; their definitions are not compared with another.

## 5. Disagreements between code and documents

Three have a violation run and an entry under "findings": a failed lookup of the
champion, after which a promotion moves champion without keeping the old one under
rollback (`registry_lookup`; `lifecycle.py:105`, docs/model_registry.md:66), a crash
that destroys the recovery bundle (`runtime_cache`), and an error ceiling that is
never looked at when every call fails (`canary_errors`). The others met while
modelling:

* A reload that finds the champion already active leaves an earlier failure's
  `degraded_registry_cached` in the state (`runtime_manager.py:209-214`;
  docs/registry_runtime.md:115).
* A promotion that raises after champion moved is logged as failed with the
  champion changed (`canary.py:429-441`; docs/canary_runtime.md:239 says it is unchanged).
* The version reported by `predict` across a swap, and the arm of a customer across
  a refresh, are not what docs/canary_runtime.md:87 and 61 say; `rolled_back` is
  reported for a while when a stale reload swaps last (`ReportSettles` shows that
  it does not stay).
* The ranking in `champion_challenger.py` compares all models on the last window, the
  calibrated winner with raw losers: its champion may be another model than the one
  trained, gated and served. Nothing acts on it.
* The release gate allows a support-rate gap of 0.35, monitoring calls 0.15 an
  incident. `GatedModelIsNoIncident` shows that this is the only such conflict.
* docs/triton_capacity_evidence.md:129 says that the capacity decision fails closed
  when the target exceeds the replica boundary. The decision then says so, but the
  status has no check for it (`triton_capacity_plan.py:168-179`) and may be PASS.
  `ObstaclesFailThePlan` is about the other obstacles it lists.
* docs/runbooks/ml_platform_incidents.md:68 says that high GPU utilization alone is
  not a scale-out signal, and docs/triton_serving.md:222 wants both queue and GPU
  pressure. `gpu_autoscaling.py:40` scales out on either. `PressureIsAnswered` asks for
  an answer to both together and leaves open what one alone does.
* docs/architecture.md:55 says that the final test dates are later than every date
  used before. A boundary may fall between two rows of one date
  (`evaluation.py:98-102`), which is then on both sides: `EvaluatedOnLaterRows` says
  never earlier, not always later.
* docs/production_operations.md:91 says that rebuilding an image between environments
  is blocked. `gitops_promotion.py:54` compares identities only when
  `--source-release-identity` was given, which is optional (line 122), and accepts any
  file for it: a hand-made identity of the rebuilt image passes.
  `ProdIsTheTestedRelease` is about promotions given the identity of a CI run.
* The largest probability error of a benchmark level is a `max` that drops a NaN unless
  it comes first (`benchmark_triton_concurrency.py:227`): a level with NaN answers may
  be PASS. `PassMeansNoBadAnswerSeen` says that nothing else may.
* docs/production_operations.md:132 speaks of nine technical checks for production;
  `config/environment_promotion.yaml` lists ten, and the release gate is not among
  them.

## 6. Not modelled

Fitting, calibration, metrics and distances (numerical code on data frames); ONNX
conversion; generators of documents, manifests and reports that nothing reads; the
HTTP layer, which calls the parts above and keeps metrics; other benchmarks, the load
test and drills (one call after another, results in milliseconds); settings, audit
and telemetry; deployment files and the scripts that check them. `PROJECT.json`
gives the reason for each.

Left for later: an abstract specification of a release (what a complete run
promises those who deploy) that `Release` implements, and the agreement of
`CanaryMetrics` with a definition over sets of records.
