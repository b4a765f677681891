--------------------------- MODULE RuntimeManager ---------------------------
(***************************************************************************)
(* The serving process's champion runtime, src/serving/runtime_manager.py. *)
(*                                                                         *)
(* Reloads run in several threads at once: the main thread forces one at   *)
(* startup, the reload loop runs one per interval, and the canary's        *)
(* control thread forces one after a promotion.  The object's lock is held *)
(* only for single steps, never across a reload, so the reloads of         *)
(* different threads, the requests and a crash of the process interleave   *)
(* freely.  The cache directory outlives the process.                      *)
(*                                                                         *)
(* Version 0 is the packaged local model where a predictor is meant, and   *)
(* "none" where an alias, a pointer or a status field is.                  *)
(***************************************************************************)
EXTENDS Integers

CONSTANTS
    MaxVersion,     \* registry versions are 1..MaxVersion
    Forcers,        \* threads other than main that force a reload
    Requests,       \* request handlers
    StrictStartup   \* settings.registry_strict_startup

Versions == 1..MaxVersion
Local == 0
None == 0

ASSUME RuntimeConstants ==
    /\ MaxVersion \in Nat \ {0}
    /\ {"main", "loop"} \intersect Forcers = {}
    /\ StrictStartup \in BOOLEAN

Threads == {"main", "loop"} \union Forcers
ReloadSteps == {"sync", "compare", "validate", "publish", "remove", "removing", "move",
                "write_pointer", "swap_pointer", "load", "swap", "failing"}
RuntimeStates == {"ready_registry", "ready_registry_cached", "degraded_registry_cached",
                  "degraded_local_fallback"}
ReloadResults == {"none", "loaded_cached_registry", "unchanged", "reloaded", "failed"}

VARIABLES
    champion,   \* the registry: version under the champion alias
    reachable,  \* the registry answers
    eligible,   \* versions that pass _validate_candidate_bundle under the settings deployed
    process,    \* "down", "starting" (inside __init__) or "serving"
    predictor,  \* _predictor: the version of the active model
    status,     \* _status: source, state, version, last (last_reload_status)
    pc,         \* pc[t]: next step of thread t's reload
    candidate,  \* candidate[t]: registry_version of the bundle t has synced
    cache,      \* cache[v]: releases/<v> is "absent", "whole" or "torn"
    pointer,    \* version named by current.json
    tmpPointer, \* version named by .current.json.tmp, shared by all threads
    request,    \* request[r]: pc, the predictor captured, the version reported
    spans       \* history: versions active at some time during request r

world == <<champion, reachable, eligible>>
disk == <<cache, pointer, tmpPointer>>
memory == <<predictor, status>>
serving == <<request, spans>>
vars == <<world, process, memory, pc, candidate, disk, serving>>

Status == [source : {"local", "registry"}, state : RuntimeStates,
           version : 0..MaxVersion, last : ReloadResults]
Request == [pc : {"idle", "captured", "answered"}, served : 0..MaxVersion, reported : 0..MaxVersion]

FreshStatus == [source |-> "local", state |-> "degraded_local_fallback",
                version |-> None, last |-> "none"]
NoRequest == [pc |-> "idle", served |-> Local, reported |-> Local]

TypeOK ==
    /\ champion \in 0..MaxVersion
    /\ reachable \in BOOLEAN
    /\ eligible \in SUBSET Versions
    /\ process \in {"down", "starting", "serving"}
    /\ predictor \in 0..MaxVersion
    /\ status \in Status
    /\ pc \in [Threads -> {"idle", "load_cache"} \union ReloadSteps]
    /\ candidate \in [Threads -> 0..MaxVersion]
    /\ cache \in [Versions -> {"absent", "whole", "torn"}]
    /\ pointer \in 0..MaxVersion
    /\ tmpPointer \in 0..MaxVersion
    /\ request \in [Requests -> Request]
    /\ spans \in [Requests -> SUBSET (0..MaxVersion)]

Init ==
    /\ champion \in 0..MaxVersion
    /\ reachable \in BOOLEAN
    /\ eligible \in SUBSET Versions
    /\ process = "down"
    /\ predictor = Local
    /\ status = FreshStatus
    /\ pc = [t \in Threads |-> "idle"]
    /\ candidate = [t \in Threads |-> None]
    /\ cache = [v \in Versions |-> "absent"]
    /\ pointer = None
    /\ tmpPointer = None
    /\ request = [r \in Requests |-> NoRequest]
    /\ spans = [r \in Requests |-> {}]

-----------------------------------------------------------------------------
(* The environment: operators move the alias, the registry comes and goes. *)

MoveAlias ==
    /\ champion' \in Versions \ {champion}
    /\ UNCHANGED <<reachable, eligible, process, memory, pc, candidate, disk, serving>>

ToggleRegistry ==
    /\ reachable' = ~reachable
    /\ UNCHANGED <<champion, eligible, process, memory, pc, candidate, disk, serving>>

Crash ==
    /\ process # "down"
    /\ process' = "down"
    /\ predictor' = Local
    /\ status' = FreshStatus
    /\ pc' = [t \in Threads |-> "idle"]
    /\ candidate' = [t \in Threads |-> None]
    /\ request' = [r \in Requests |-> NoRequest]
    /\ spans' = [r \in Requests |-> {}]
    /\ UNCHANGED <<world, disk>>

(* A restart may bring other settings: another feature schema version makes *)
(* other bundles acceptable, the ones in the cache included.               *)
Redeploy ==
    /\ process = "down"
    /\ eligible' \in SUBSET Versions
    /\ UNCHANGED <<champion, reachable, process, memory, pc, candidate, disk, serving>>

-----------------------------------------------------------------------------
(* A thread's control.                                                     *)

Goto(t, to) == pc' = [pc EXCEPT ![t] = to]
At(t, from, to) == pc[t] = from /\ Goto(t, to)

(* _validate_candidate_bundle on a directory in state d, holding version v *)
BundleIsValid(d, v) == d = "whole" /\ v \in eligible

(* A predictor becomes active; every request in progress sees the change.  *)
Activate(v, newStatus) ==
    /\ predictor' = v
    /\ status' = newStatus
    /\ spans' = [r \in Requests |-> IF request[r].pc = "captured" THEN spans[r] \union {v}
                                                                  ELSE spans[r]]
    /\ UNCHANGED request

(* __init__ begins: the local model, then the cached bundle if it is sound. *)
Start ==
    /\ process = "down"
    /\ process' = "starting"
    /\ At("main", "idle", "load_cache")
    /\ predictor' = Local
    /\ status' = FreshStatus
    /\ UNCHANGED <<world, candidate, disk, serving>>

LoadCachedBundle ==
    /\ At("main", "load_cache", "sync")
    /\ IF pointer # None /\ BundleIsValid(cache[pointer], pointer)
       THEN Activate(pointer, [source |-> "registry", state |-> "ready_registry_cached",
                               version |-> pointer, last |-> "loaded_cached_registry"])
       ELSE UNCHANGED <<memory, serving>>
    /\ UNCHANGED <<world, process, candidate, disk>>

-----------------------------------------------------------------------------
(* reload_from_registry, one action per step another thread can see.       *)

Forced(t) == t # "loop"

ReloadBegin(t) ==
    /\ process = "serving"
    /\ t # "main"
    /\ At(t, "idle", "sync")
    /\ UNCHANGED <<world, process, memory, candidate, disk, serving>>

Sync_latest(t) ==
    /\ reachable /\ champion # None
    /\ At(t, "sync", "compare")
    /\ candidate' = [candidate EXCEPT ![t] = MaxVersion]
    /\ UNCHANGED <<world, process, memory, disk, serving>>

Sync(t) ==
    /\ reachable /\ champion # None
    /\ At(t, "sync", "compare")
    /\ candidate' = [candidate EXCEPT ![t] = champion]
    /\ UNCHANGED <<world, process, memory, disk, serving>>

SyncFails(t) ==
    /\ ~(reachable /\ champion # None)
    /\ At(t, "sync", "failing")
    /\ UNCHANGED <<world, process, memory, candidate, disk, serving>>

IsCurrent_any_version(t) == ~Forced(t) /\ status.source = "registry"

IsCurrent(t) ==
    ~Forced(t) /\ status.version = candidate[t] /\ status.source = "registry"

CompareUnchanged(t) ==
    /\ IsCurrent(t)
    /\ At(t, "compare", "idle")
    /\ status' = [status EXCEPT !.last = "unchanged"]
    /\ candidate' = [candidate EXCEPT ![t] = None]
    /\ UNCHANGED <<world, process, predictor, disk, serving>>

CompareDiffers(t) ==
    /\ ~IsCurrent(t)
    /\ At(t, "compare", "validate")
    /\ UNCHANGED <<world, process, memory, candidate, disk, serving>>

(* The staging directory is private to the reload and wholly downloaded.   *)
Validate_publishes_anyway(t) ==
    /\ At(t, "validate", "publish")
    /\ UNCHANGED <<world, process, memory, candidate, disk, serving>>

Validate(t) ==
    /\ At(t, "validate", IF BundleIsValid("whole", candidate[t]) THEN "publish" ELSE "failing")
    /\ UNCHANGED <<world, process, memory, candidate, disk, serving>>

SetCache(t, d) == cache' = [cache EXCEPT ![candidate[t]] = d] /\ UNCHANGED <<pointer, tmpPointer>>

PublishLooksForOld(t) ==
    /\ At(t, "publish", IF cache[candidate[t]] = "absent" THEN "move" ELSE "remove")
    /\ UNCHANGED <<world, process, memory, candidate, disk, serving>>

(* rmtree: the first file goes, then the rest.  It raises when another     *)
(* thread has removed the directory first, and may raise, or not, when     *)
(* another thread works in the directory at the same time.                 *)
RemoveBegins(t) ==
    /\ pc[t] = "remove"
    /\ IF cache[candidate[t]] = "absent"
       THEN Goto(t, "failing") /\ UNCHANGED disk
       ELSE Goto(t, "removing") /\ SetCache(t, "torn")
    /\ UNCHANGED <<world, process, memory, candidate, serving>>

InterferedWith(t) ==
    \/ cache[candidate[t]] # "torn"
    \/ \E u \in Threads \ {t} : pc[u] = "removing" /\ candidate[u] = candidate[t]

RemoveEnds(t) ==
    /\ pc[t] = "removing"
    /\ \/ Goto(t, "move") /\ SetCache(t, "absent")
       \/ /\ InterferedWith(t)
          /\ Goto(t, "failing")
          /\ \E d \in {cache[candidate[t]], "torn"} : SetCache(t, d)
    /\ UNCHANGED <<world, process, memory, candidate, serving>>

(* staging.replace(final_dir) is atomic, and raises if a directory with     *)
(* files in it is there: one being removed may be empty by now, or not.    *)
MoveStaging(t) ==
    /\ pc[t] = "move"
    /\ \/ cache[candidate[t]] # "whole" /\ Goto(t, "write_pointer") /\ SetCache(t, "whole")
       \/ cache[candidate[t]] # "absent" /\ Goto(t, "failing") /\ UNCHANGED disk
    /\ UNCHANGED <<world, process, memory, candidate, serving>>

WritePointer(t) ==
    /\ At(t, "write_pointer", "swap_pointer")
    /\ tmpPointer' = candidate[t]
    /\ UNCHANGED <<world, process, memory, candidate, cache, pointer, serving>>

(* The temporary file may by now be another thread's, or gone.             *)
SwapPointer(t) ==
    /\ pc[t] = "swap_pointer"
    /\ IF tmpPointer = None
       THEN Goto(t, "failing") /\ UNCHANGED disk
       ELSE Goto(t, "load") /\ pointer' = tmpPointer /\ tmpPointer' = None /\ UNCHANGED cache
    /\ UNCHANGED <<world, process, memory, candidate, serving>>

(* ModelPredictor(final_dir / ...): two files are read.  In a directory     *)
(* being removed they may or may not still be there.                       *)
LoadCandidate(t) ==
    /\ pc[t] = "load"
    /\ \/ cache[candidate[t]] # "absent" /\ Goto(t, "swap")
       \/ cache[candidate[t]] # "whole" /\ Goto(t, "failing")
    /\ UNCHANGED <<world, process, memory, candidate, disk, serving>>

(* The end of __init__: with strict startup the process must be on a       *)
(* registry model, or it raises and the process ends.                      *)
EndOfReload_lenient(t, source) ==
    process' = IF t # "main" THEN process ELSE "serving"

EndOfReload(t, source) ==
    process' = IF t # "main" THEN process
               ELSE IF StrictStartup /\ source # "registry" THEN "down" ELSE "serving"

SwapPredictor(t) ==
    /\ At(t, "swap", "idle")
    /\ Activate(candidate[t], [source |-> "registry", state |-> "ready_registry",
                               version |-> candidate[t], last |-> "reloaded"])
    /\ candidate' = [candidate EXCEPT ![t] = None]
    /\ EndOfReload(t, "registry")
    /\ UNCHANGED <<world, disk>>

DegradedState_unnamed == "degraded"

DegradedState == IF status.source = "registry" THEN "degraded_registry_cached"
                                               ELSE "degraded_local_fallback"

(* _mark_reload_failure, and the exception handler around the reload.      *)
MarkReloadFailure_forgets(t) ==
    /\ At(t, "failing", "idle")
    /\ status' = [FreshStatus EXCEPT !.last = "failed"]
    /\ candidate' = [candidate EXCEPT ![t] = None]
    /\ EndOfReload(t, status.source)
    /\ UNCHANGED <<world, predictor, disk, serving>>

MarkReloadFailure(t) ==
    /\ At(t, "failing", "idle")
    /\ status' = [status EXCEPT !.state = DegradedState, !.last = "failed"]
    /\ candidate' = [candidate EXCEPT ![t] = None]
    /\ EndOfReload(t, status.source)
    /\ UNCHANGED <<world, predictor, disk, serving>>

-----------------------------------------------------------------------------
(* predict: capture the predictor under the lock, compute without it, then *)
(* read the status under the lock again to label the answer.               *)

RequestCapture(r) ==
    /\ process = "serving"
    /\ request[r].pc # "captured"
    /\ request' = [request EXCEPT ![r] = [pc |-> "captured", served |-> predictor,
                                          reported |-> Local]]
    /\ spans' = [spans EXCEPT ![r] = {predictor}]
    /\ UNCHANGED <<world, process, memory, pc, candidate, disk>>

RequestAnswer(r) ==
    /\ request[r].pc = "captured"
    /\ request' = [request EXCEPT ![r].pc = "answered", ![r].reported = status.version]
    /\ UNCHANGED <<world, process, memory, pc, candidate, disk, spans>>

-----------------------------------------------------------------------------
ReloadStep(t) ==
    \/ Sync(t) \/ SyncFails(t) \/ CompareUnchanged(t) \/ CompareDiffers(t) \/ Validate(t)
    \/ PublishLooksForOld(t) \/ RemoveBegins(t) \/ RemoveEnds(t) \/ MoveStaging(t)
    \/ WritePointer(t) \/ SwapPointer(t) \/ LoadCandidate(t)
    \/ SwapPredictor(t) \/ MarkReloadFailure(t)

RequestStep(r) == RequestCapture(r) \/ RequestAnswer(r)

Next ==
    \/ MoveAlias \/ ToggleRegistry \/ Crash \/ Redeploy
    \/ Start \/ LoadCachedBundle
    \/ \E t \in Threads : ReloadBegin(t) \/ ReloadStep(t)
    \/ \E r \in Requests : RequestStep(r)

Spec == Init /\ [][Next]_vars

(* The orchestrator restarts the process, the scheduler runs every thread,  *)
(* and the reload loop wakes up again after every interval.  Nothing is     *)
(* assumed of the registry, of crashes or of the threads that force reloads. *)
Fairness ==
    /\ WF_vars(Start) /\ WF_vars(LoadCachedBundle)
    /\ WF_vars(ReloadBegin("loop"))
    /\ \A t \in Threads : WF_vars(ReloadStep(t))

FairSpec == Spec /\ Fairness

-----------------------------------------------------------------------------
(* Only a bundle verified under the settings in force is ever the active   *)
(* model (lines 216 to 219 and 309), in whatever order threads publish,    *)
(* load and crash, and whatever an earlier deployment left in the cache.   *)
ActiveModelIsVerified == predictor # Local => predictor \in eligible

(* The model that served a request and the version reported with it were   *)
(* both active between the request's capture and its answer: the report is *)
(* exact unless the active model changed meanwhile (152 to 154).           *)
ReportedWithinRequest == \A r \in Requests :
    request[r].pc = "answered" =>
        {request[r].served, request[r].reported} \subseteq spans[r]

(* With strict startup a serving process never uses the packaged model.    *)
StrictNeverLocal ==
    StrictStartup /\ process = "serving" => predictor # Local

(* Once the champion stays an eligible version, the registry answers, the   *)
(* process stays up and no thread forces reloads any more, the runtime      *)
(* comes to serve that version for good, whatever state the reloads that    *)
(* ran into each other or a crash left the cache in.                        *)
FollowsChampion == \A v \in Versions :
    <>[](/\ champion = v /\ v \in eligible /\ reachable
         /\ process = "serving" /\ \A f \in Forcers : pc[f] = "idle")
        => <>[](predictor = v)

-----------------------------------------------------------------------------
(* What the documents say.                                                 *)

(* docs/registry_runtime.md, line 40: the cache is the source of last-     *)
(* known-good recovery state.  A process that restarts finds the bundle    *)
(* its pointer names.                                                      *)
LastKnownGoodSurvives ==
    process = "down" /\ pointer # None => cache[pointer] = "whole"

=============================================================================
