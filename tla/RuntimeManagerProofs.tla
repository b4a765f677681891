------------------------ MODULE RuntimeManagerProofs ------------------------
(***************************************************************************)
(* Proofs about RuntimeManager, for any number of versions, of threads     *)
(* that force reloads and of requests.                                     *)
(***************************************************************************)
EXTENDS RuntimeManager, TLAPS

LEMMA TypeInit == Init => TypeOK
  BY RuntimeConstants DEF Init, TypeOK, FreshStatus, Status, RuntimeStates, ReloadResults, NoRequest,
     Request, Local, None, Versions

LEMMA TypeStep == TypeOK /\ [Next]_vars => TypeOK'
<1> SUFFICES ASSUME TypeOK, [Next]_vars PROVE TypeOK'
  OBVIOUS
<1> USE RuntimeConstants DEF TypeOK, Local, None, Versions, world, disk, memory, serving,
     Goto, At, SetCache, ReloadSteps
<1>1. CASE UNCHANGED vars
  BY <1>1 DEF vars
<1>0. /\ FreshStatus \in Status
      /\ NoRequest \in Request
      /\ 0 \in 0..MaxVersion
  BY DEF FreshStatus, Status, RuntimeStates, ReloadResults, NoRequest, Request
<1>2. CASE MoveAlias
  BY <1>2 DEF MoveAlias
<1>3. CASE ToggleRegistry
  BY <1>3 DEF ToggleRegistry
<1>4. CASE Redeploy
  BY <1>4 DEF Redeploy
<1>5. CASE Crash
  BY <1>0, <1>5 DEF Crash
<1>8. CASE Start
  BY <1>0, <1>8 DEF Start, Threads
<1>9. CASE LoadCachedBundle
  <2>1. CASE UNCHANGED <<memory, serving>>
    BY <1>9, <2>1 DEF LoadCachedBundle, Threads
  <2>2. CASE ~ UNCHANGED <<memory, serving>>
    <3> DEFINE s == [source |-> "registry", state |-> "ready_registry_cached",
                     version |-> pointer, last |-> "loaded_cached_registry"]
    <3>1. Activate(pointer, s)
      BY <1>9, <2>2 DEF LoadCachedBundle
    <3>2. s \in Status
      BY DEF Status, RuntimeStates, ReloadResults
    <3> HIDE DEF s
    <3>3. predictor' \in 0..MaxVersion /\ status' \in Status
      BY <3>1, <3>2 DEF Activate
    <3>4. request' = request /\ spans' \in [Requests -> SUBSET (0..MaxVersion)]
      BY <3>1 DEF Activate
    <3> QED BY <1>9, <3>3, <3>4 DEF LoadCachedBundle, Threads
  <2> QED BY <2>1, <2>2
<1>6. ASSUME NEW t \in Threads, ReloadBegin(t) \/ ReloadStep(t) PROVE TypeOK'
  <2>1. CASE ReloadBegin(t)
    BY <2>1 DEF ReloadBegin
  <2>2. CASE Sync(t)
    BY <2>2 DEF Sync
  <2>3. CASE SyncFails(t)
    BY <2>3 DEF SyncFails
  <2>4. CASE CompareUnchanged(t)
    <3>1. status' \in Status
      BY <2>4 DEF CompareUnchanged, Status, ReloadResults
    <3> QED BY <1>0, <2>4, <3>1 DEF CompareUnchanged
  <2>5. CASE CompareDiffers(t)
    BY <2>5 DEF CompareDiffers, IsCurrent
  <2>6. CASE Validate(t)
    BY <2>6 DEF Validate, BundleIsValid
  <2>7. CASE PublishLooksForOld(t)
    BY <2>7 DEF PublishLooksForOld
  <2>8. CASE RemoveBegins(t)
    BY <2>8 DEF RemoveBegins
  <2>9. CASE RemoveEnds(t)
    BY <2>9, ZenonT(60) DEF RemoveEnds, InterferedWith
  <2>10. CASE MoveStaging(t)
    BY <2>10 DEF MoveStaging
  <2>11. CASE WritePointer(t)
    BY <2>11 DEF WritePointer
  <2>12. CASE SwapPointer(t)
    BY <2>12, SMTT(30) DEF SwapPointer
  <2>13. CASE LoadCandidate(t)
    BY <2>13 DEF LoadCandidate
  <2>14. CASE SwapPredictor(t)
    <3>1. predictor' \in 0..MaxVersion /\ candidate' \in [Threads -> 0..MaxVersion]
      BY <1>0, <2>14 DEF SwapPredictor, Activate
    <3>2. status' \in Status
      BY <2>14 DEF SwapPredictor, Activate, Status, RuntimeStates, ReloadResults
    <3>3. request' = request /\ spans' \in [Requests -> SUBSET (0..MaxVersion)]
      BY <2>14 DEF SwapPredictor, Activate
    <3>4. process' \in {"down", "starting", "serving"}
      BY <2>14 DEF SwapPredictor, EndOfReload
    <3> QED BY <2>14, <3>1, <3>2, <3>3, <3>4 DEF SwapPredictor
  <2>15. CASE MarkReloadFailure(t)
    <3>1. status' \in Status
      BY <2>15 DEF MarkReloadFailure, DegradedState, Status, RuntimeStates, ReloadResults
    <3>2. process' \in {"down", "starting", "serving"}
      BY <2>15 DEF MarkReloadFailure, EndOfReload
    <3> QED BY <1>0, <2>15, <3>1, <3>2 DEF MarkReloadFailure
  <2> QED BY <1>6, <2>1, <2>2, <2>3, <2>4, <2>5, <2>6, <2>7, <2>8, <2>9, <2>10, <2>11, <2>12, <2>13, <2>14, <2>15 DEF ReloadStep
<1>7. ASSUME NEW r \in Requests, RequestStep(r) PROVE TypeOK'
  <2>1. CASE RequestCapture(r)
    <3>1. [pc |-> "captured", served |-> predictor, reported |-> Local] \in Request
      BY <1>0 DEF Request
    <3> QED BY <2>1, <3>1 DEF RequestCapture
  <2>2. CASE RequestAnswer(r)
    <3>1. status.version \in 0..MaxVersion
      BY DEF Status
    <3>2. [request[r] EXCEPT !.pc = "answered", !.reported = status.version] \in Request
      BY <3>1, ZenonT(60) DEF Request
    <3>3. request' = [request EXCEPT ![r] = [request[r] EXCEPT !.pc = "answered",
                                                               !.reported = status.version]]
      BY <2>2 DEF RequestAnswer
    <3> QED BY <2>2, <3>2, <3>3 DEF RequestAnswer
  <2> QED BY <1>7, <2>1, <2>2 DEF RequestStep
<1> QED BY <1>1, <1>2, <1>3, <1>4, <1>5, <1>6, <1>7, <1>8, <1>9 DEF Next

(* The type invariant of the runtime: every version held in memory, in the *)
(* cache directory or in a thread is one of the registry's, or none.       *)
THEOREM TypeCorrect == Spec => []TypeOK
  BY TypeInit, TypeStep, PTL DEF Spec

-----------------------------------------------------------------------------
(* A reload past validation holds an acceptable version; the predictor is  *)
(* one, and agrees with the status about where it came from.  The settings *)
(* may change only while the process is down, when nothing is in memory:   *)
(* that is why a verdict reached by one thread is still good when another  *)
(* thread, or a later step, relies on it.                                  *)
Verified(t) ==
    pc[t] \in {"publish", "remove", "removing", "move", "write_pointer", "swap_pointer",
               "load", "swap"}
        => candidate[t] \in eligible

RuntimeInv ==
    /\ predictor # Local => predictor \in eligible
    /\ predictor = Local <=> status.source = "local"
    /\ \A t \in Threads : Verified(t)
    /\ process = "down" => predictor = Local /\ \A t \in Threads : pc[t] = "idle"
    /\ process = "starting" => \A t \in Threads \ {"main"} : pc[t] = "idle"
    /\ process = "serving" => pc["main"] = "idle"
    /\ StrictStartup /\ process = "serving" => predictor # Local

LEMMA RuntimeInit == Init => RuntimeInv
  BY DEF Init, RuntimeInv, Verified, FreshStatus, Local, Threads

LEMMA RuntimeStep == TypeOK /\ RuntimeInv /\ [Next]_vars => RuntimeInv'
<1> SUFFICES ASSUME TypeOK, RuntimeInv, [Next]_vars PROVE RuntimeInv'
  OBVIOUS
<1> USE RuntimeConstants DEF RuntimeInv, Verified, Local, None, Versions, world, disk, memory,
     serving, Goto, At, SetCache
<1>0. /\ pc \in [Threads -> {"idle", "load_cache"} \union ReloadSteps]
      /\ candidate \in [Threads -> 0..MaxVersion]
      /\ eligible \subseteq Versions
      /\ status \in Status
      /\ "main" \in Threads
      /\ process \in {"down", "starting", "serving"}
      /\ pointer \in 0..MaxVersion
  BY DEF TypeOK, Threads
<1>1. CASE UNCHANGED vars
  BY <1>1 DEF vars
<1>2. CASE MoveAlias
  BY <1>2 DEF MoveAlias
<1>3. CASE ToggleRegistry
  BY <1>3 DEF ToggleRegistry
<1>4. CASE Redeploy
  BY <1>4 DEF Redeploy
<1>5. CASE Crash
  BY <1>5 DEF Crash, FreshStatus
<1>6. CASE Start
  BY <1>0, <1>6 DEF Start, FreshStatus
<1>7. CASE LoadCachedBundle
  BY <1>0, <1>7 DEF LoadCachedBundle, BundleIsValid, Activate
<1>8. ASSUME NEW t \in Threads, ReloadBegin(t) PROVE RuntimeInv'
  BY <1>0, <1>8 DEF ReloadBegin
<1>9. ASSUME NEW t \in Threads, ReloadStep(t) PROVE RuntimeInv'
  <2>1. CASE Sync(t)
    BY <1>0, <1>9, <2>1 DEF Sync
  <2>2. CASE SyncFails(t)
    BY <1>0, <1>9, <2>2 DEF SyncFails
  <2>3. CASE CompareUnchanged(t)
    BY <1>0, <1>9, <2>3 DEF CompareUnchanged, Status
  <2>4. CASE CompareDiffers(t)
    BY <1>0, <1>9, <2>4 DEF CompareDiffers
  <2>5. CASE Validate(t)
    BY <1>0, <1>9, <2>5 DEF Validate, BundleIsValid
  <2>6. CASE PublishLooksForOld(t)
    BY <1>0, <1>9, <2>6 DEF PublishLooksForOld
  <2>7. CASE RemoveBegins(t)
    BY <1>0, <1>9, <2>7 DEF RemoveBegins
  <2>8. CASE RemoveEnds(t)
    BY <1>0, <1>9, <2>8 DEF RemoveEnds
  <2>9. CASE MoveStaging(t)
    BY <1>0, <1>9, <2>9 DEF MoveStaging
  <2>10. CASE WritePointer(t)
    BY <1>0, <1>9, <2>10 DEF WritePointer
  <2>11. CASE SwapPointer(t)
    BY <1>0, <1>9, <2>11 DEF SwapPointer
  <2>12. CASE LoadCandidate(t)
    BY <1>0, <1>9, <2>12 DEF LoadCandidate
  <2>13. CASE SwapPredictor(t)
    BY <1>0, <1>9, <2>13 DEF SwapPredictor, Activate, EndOfReload
  <2>14. CASE MarkReloadFailure(t)
    BY <1>0, <1>9, <2>14 DEF MarkReloadFailure, EndOfReload, Status
  <2> QED BY <1>9, <2>1, <2>2, <2>3, <2>4, <2>5, <2>6, <2>7, <2>8, <2>9, <2>10, <2>11, <2>12, <2>13, <2>14 DEF ReloadStep
<1>10. ASSUME NEW r \in Requests, RequestStep(r) PROVE RuntimeInv'
  BY <1>10 DEF RequestStep, RequestCapture, RequestAnswer
<1> QED BY <1>1, <1>2, <1>3, <1>4, <1>5, <1>6, <1>7, <1>8, <1>9, <1>10 DEF Next

(* Whatever the number of threads that reload at once, whatever crashes     *)
(* they meet and whatever an earlier deployment left in the cache, the      *)
(* active model is one that was verified under the settings in force.       *)
THEOREM OnlyVerifiedModelsServe == Spec => []ActiveModelIsVerified
<1>1. RuntimeInv => ActiveModelIsVerified
  BY DEF RuntimeInv, ActiveModelIsVerified
<1> QED BY <1>1, TypeCorrect, RuntimeInit, RuntimeStep, PTL DEF Spec

(* With strict startup, a process that serves is on a registry model from   *)
(* its first request to its last: no failed reload takes it back to the     *)
(* packaged one.                                                            *)
THEOREM StrictStartupHolds == Spec => []StrictNeverLocal
<1>1. RuntimeInv => StrictNeverLocal
  BY DEF RuntimeInv, StrictNeverLocal
<1> QED BY <1>1, TypeCorrect, RuntimeInit, RuntimeStep, PTL DEF Spec

-----------------------------------------------------------------------------
(* The status names the active model at every step, and a request in       *)
(* progress sees every model that becomes active: what it reads at either  *)
(* end was active in between.  Requests are in progress only while the     *)
(* process serves, so a restart cannot change the model under one.         *)
ReportInv ==
    /\ status.version = predictor
    /\ process # "serving" => \A r \in Requests : request[r].pc # "captured"
    /\ \A r \in Requests : request[r].pc = "captured" => {request[r].served, predictor} \subseteq spans[r]
    /\ ReportedWithinRequest

LEMMA ReportInit == Init => ReportInv
  BY DEF Init, ReportInv, ReportedWithinRequest, FreshStatus, NoRequest, Local, None

LEMMA ReportStep == TypeOK /\ RuntimeInv /\ ReportInv /\ [Next]_vars => ReportInv'
<1> SUFFICES ASSUME TypeOK, RuntimeInv, ReportInv, [Next]_vars PROVE ReportInv'
  OBVIOUS
<1> USE DEF ReportInv, ReportedWithinRequest, Local, None, world, disk, memory, serving, At
<1>0. /\ status \in Status
      /\ request \in [Requests -> Request]
      /\ spans \in [Requests -> SUBSET (0..MaxVersion)]
  BY DEF TypeOK
<1>1. CASE UNCHANGED vars
  BY <1>1 DEF vars
<1>2. CASE MoveAlias \/ ToggleRegistry \/ Redeploy
  BY <1>2 DEF MoveAlias, ToggleRegistry, Redeploy
<1>3. CASE Crash
  BY <1>3 DEF Crash, FreshStatus, NoRequest
<1>4. CASE Start
  BY <1>4 DEF Start, FreshStatus
<1>5. CASE LoadCachedBundle
  BY <1>0, <1>5 DEF LoadCachedBundle, Activate
<1>6. ASSUME NEW t \in Threads, ReloadBegin(t) PROVE ReportInv'
  BY <1>6 DEF ReloadBegin
<1>7. ASSUME NEW t \in Threads, ReloadStep(t) PROVE ReportInv'
  <2>1. t = "main" /\ pc[t] # "idle" => process # "serving"
    BY DEF RuntimeInv
  <2>2. CASE CompareUnchanged(t)
    BY <1>0, <2>2 DEF CompareUnchanged, Status
  <2>3. CASE SwapPredictor(t)
    BY <1>0, <2>1, <2>3 DEF SwapPredictor, Activate, EndOfReload
  <2>4. CASE MarkReloadFailure(t)
    <3>1. status'.version = status.version
      BY <1>0, <2>4 DEF MarkReloadFailure, Status
    <3>2. process' # "serving" => \A r \in Requests : request[r].pc # "captured"
      BY <2>1, <2>4 DEF MarkReloadFailure, EndOfReload
    <3> QED BY <2>4, <3>1, <3>2 DEF MarkReloadFailure
  <2>5. CASE ~ (CompareUnchanged(t) \/ SwapPredictor(t) \/ MarkReloadFailure(t))
    <3>1. UNCHANGED <<process, memory, serving>>
      BY <1>7, <2>5 DEF ReloadStep, Sync, SyncFails, CompareDiffers, Validate, PublishLooksForOld,
         RemoveBegins, RemoveEnds, MoveStaging, WritePointer, SwapPointer, LoadCandidate
    <3> QED BY <3>1
  <2> QED BY <2>2, <2>3, <2>4, <2>5
<1>8. ASSUME NEW r \in Requests, RequestCapture(r) PROVE ReportInv'
  BY <1>0, <1>8 DEF RequestCapture
<1>9. ASSUME NEW r \in Requests, RequestAnswer(r) PROVE ReportInv'
  <2>1. /\ request' = [request EXCEPT ![r] = [request[r] EXCEPT !.pc = "answered",
                                                              !.reported = status.version]]
        /\ request[r].pc = "captured"
        /\ UNCHANGED <<process, memory, spans>>
    BY <1>9 DEF RequestAnswer
  <2>2. /\ request'[r].pc = "answered"
        /\ request'[r].served = request[r].served
        /\ request'[r].reported = predictor
    BY <1>0, <2>1 DEF Request
  <2>3. \A q \in Requests \ {r} : request'[q] = request[q]
    BY <1>0, <2>1
  <2> QED BY <2>1, <2>2, <2>3
<1> QED BY <1>1, <1>2, <1>3, <1>4, <1>5, <1>6, <1>7, <1>8, <1>9 DEF Next, RequestStep

(* However reloads interleave with a request, the model it was computed    *)
(* with and the version it is labelled with were both active while it was  *)
(* in progress.                                                            *)
THEOREM ReportsAreWithinRequests == Spec => []ReportedWithinRequest
<1>1. ReportInv => ReportedWithinRequest
  BY DEF ReportInv
<1> QED BY <1>1, TypeCorrect, RuntimeInit, RuntimeStep, ReportInit, ReportStep,
           TypeInit, TypeStep, PTL DEF Spec

=============================================================================
