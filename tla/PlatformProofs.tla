--------------------------- MODULE PlatformProofs ---------------------------
(***************************************************************************)
(* Proofs about Platform, for any number of operators, versions, reloading *)
(* threads and requests.  What RegistryProofs shows of the registry's own  *)
(* steps is used as it stands: Platform's operators take those steps only. *)
(***************************************************************************)
EXTENDS Platform, RegistryProofs

LEMMA OperatorStepsAreRegistrySteps ==
  ASSUME NEW o \in Operators, OperatorStep(o)
  PROVE  Next
  BY DEF OperatorStep, Next

LEMMA PlatformStepsAreRegistrySteps == [PlatformNext]_platformVars => [Next]_vars
  BY OperatorStepsAreRegistrySteps DEF PlatformNext, ServingStep, platformVars

(* What every state of the platform owes to the registry alone. *)
RegistryInv == TypeOK /\ TargetIsAVersion

LEMMA PlatformHasRegistryInv == PlatformSpec => []RegistryInv
<1>1. PlatformInit => RegistryInv
  BY TypeInit, TargetInit DEF PlatformInit, RegistryInv
<1>2. RegistryInv /\ [PlatformNext]_platformVars => RegistryInv'
  BY PlatformStepsAreRegistrySteps, TypeStep, TargetStep DEF RegistryInv
<1> QED BY <1>1, <1>2, PTL DEF PlatformSpec

(* Where an operator moves champion, it moves it to a version. *)
LEMMA ChampionMovesToAVersion ==
  ASSUME RegistryInv, [Next]_vars, alias'["champion"] # alias["champion"]
  PROVE  alias'["champion"] \in Versions \ {alias["champion"]}
<1>1. PICK o \in Operators : PromoteSetChampion(o) \/ RollbackSetChampion(o)
  BY ChampionMovers DEF RegistryInv
<1>2. alias'["champion"] = work[o].target /\ work[o].target # NoVersion
  BY <1>1 DEF RegistryInv, TypeOK, Aliases, PromoteSetChampion, RollbackSetChampion, Continue,
     Goto, SetAlias, TargetIsAVersion
<1>3. work[o].target \in 0..registered /\ registered \in 0..MaxVersion
  BY DEF RegistryInv, TypeOK, Locals
<1> QED BY <1>2, <1>3, ConstantsAssumption DEF Versions, NoVersion

(* Every property of RuntimeManager holds of a process that follows the     *)
(* registry as lifecycle.py changes it, whatever fails.                     *)
THEOREM PlatformImplementsRuntime == PlatformSpec => ImplementsRuntime
<1>1. PlatformInit => Runtime!Init
  <2> SUFFICES ASSUME PlatformInit PROVE Runtime!Init
    OBVIOUS
  <2>1. alias["champion"] \in 0..MaxVersion
    BY ConstantsAssumption DEF PlatformInit, Init, Aliases, NoVersion
  <2> QED BY <2>1 DEF PlatformInit, Runtime!Init, Runtime!Versions, Versions
<1>2. RegistryInv /\ [PlatformNext]_platformVars => [Runtime!Next]_Runtime!vars
  <2> SUFFICES ASSUME RegistryInv, [PlatformNext]_platformVars
               PROVE  [Runtime!Next]_Runtime!vars
    OBVIOUS
  <2>1. CASE UNCHANGED platformVars
    BY <2>1 DEF platformVars, vars, runtimeVars, Runtime!vars, Runtime!world, Runtime!disk,
       Runtime!memory, Runtime!serving
  <2>2. CASE ServingStep
    BY <2>2 DEF ServingStep, Runtime!Next
  <2>3. ASSUME NEW o \in Operators, OperatorStep(o) PROVE [Runtime!Next]_Runtime!vars
    <3>1. UNCHANGED runtimeVars
      BY <2>3 DEF OperatorStep
    <3>2. CASE alias'["champion"] = alias["champion"]
      BY <3>1, <3>2 DEF runtimeVars, Runtime!vars, Runtime!world, Runtime!disk, Runtime!memory,
         Runtime!serving
    <3>3. CASE alias'["champion"] # alias["champion"]
      <4>1. alias'["champion"] \in Runtime!Versions \ {alias["champion"]}
        BY <2>3, <3>3, OperatorStepsAreRegistrySteps, ChampionMovesToAVersion
           DEF Versions, Runtime!Versions
      <4>2. Runtime!MoveAlias
        BY <3>1, <4>1 DEF Runtime!MoveAlias, runtimeVars, Runtime!disk, Runtime!memory,
           Runtime!serving
      <4> QED BY <4>2 DEF Runtime!Next
    <3> QED BY <3>2, <3>3
  <2> QED BY <2>1, <2>2, <2>3 DEF PlatformNext
<1> QED BY <1>1, <1>2, PlatformHasRegistryInv, PTL DEF PlatformSpec, ImplementsRuntime, Runtime!Spec

-----------------------------------------------------------------------------
(* Every place from which the active model can come holds released         *)
(* versions: the alias, what a reload has synced, the cache's pointers.     *)

ReleasedOrNone(v) == v \in released \union {0}

ReleaseInv ==
    /\ ReleasedOrNone(alias["champion"])
    /\ ReleasedOrNone(predictor) /\ ReleasedOrNone(pointer) /\ ReleasedOrNone(tmpPointer)
    /\ candidate \in [Runtime!Threads -> released \union {0}]

LEMMA ReleaseInit == PlatformInit => ReleaseInv
  BY DEF PlatformInit, Init, ReleaseInv, ReleasedOrNone, Aliases, NoVersion, Runtime!Local,
     Runtime!None

(* Champion is moved by two calls only, and both record what they release. *)
LEMMA ChampionIsReleased ==
  ASSUME RegistryInv, [Next]_vars
  PROVE  /\ released \subseteq released'
         /\ alias'["champion"] # alias["champion"] => alias'["champion"] \in released'
<1> USE DEF SetAlias, TagLifecycle, TagValidation, aliases
<1>1. CASE UNCHANGED vars
  BY <1>1 DEF vars
<1>2. ASSUME NEW o \in Operators, RegisterNext(o) PROVE released \subseteq released'
  BY <1>2 DEF RegisterNext, RegisterCreate, RegisterTagValidation, RegisterTagLifecycle,
     RegisterSetAlias
<1>3. ASSUME NEW o \in Operators, PromoteNext(o) PROVE released \subseteq released'
  BY <1>3 DEF PromoteNext, PromoteStep, PromoteCanary, PromoteCli, PromoteReadChallenger,
     PromoteReadChampion, PromoteSetRollback, PromoteTagRetired, PromoteSetChampion,
     PromoteTagApproved, PromoteTagChampion, PromoteDropChallenger, Remember
<1>4. ASSUME NEW o \in Operators, RollbackNext(o) PROVE released \subseteq released'
  BY <1>4 DEF RollbackNext, RollbackBegin, RollbackReadChampion, RollbackReadSafe,
     RollbackSetChampion, RollbackSetChallenger, RollbackTagFailed, RollbackTagQuarantined,
     RollbackTagRestored, Remember
<1>5. ASSUME NEW o \in Operators, Reject(o) \/ LookupFails(o) \/ Fail(o)
      PROVE  released \subseteq released'
  BY <1>5 DEF Reject, LookupFails, Fail, Abandon, Remember
<1>6. released \subseteq released'
  BY <1>1, <1>2, <1>3, <1>4, <1>5 DEF Next
<1>7. ASSUME alias'["champion"] # alias["champion"] PROVE alias'["champion"] \in released'
  <2>1. PICK o \in Operators : PromoteSetChampion(o) \/ RollbackSetChampion(o)
    BY <1>7, ChampionMovers DEF RegistryInv
  <2>2. work[o].target # NoVersion
    BY <2>1 DEF RegistryInv, TargetIsAVersion, PromoteSetChampion, RollbackSetChampion, Continue, Goto
  <2> QED BY <2>1, <2>2 DEF RegistryInv, TypeOK, Aliases, PromoteSetChampion, RollbackSetChampion
<1> QED BY <1>6, <1>7

LEMMA OperatorsRelease ==
  ASSUME RegistryInv, ReleaseInv, NEW o \in Operators, OperatorStep(o)
  PROVE  ReleaseInv'
<1>1. /\ released \subseteq released'
      /\ alias'["champion"] # alias["champion"] => alias'["champion"] \in released'
  BY OperatorStepsAreRegistrySteps, ChampionIsReleased
<1>2. UNCHANGED runtimeVars
  BY DEF OperatorStep
<1>3. ReleasedOrNone(alias["champion"])'
  BY <1>1 DEF ReleaseInv, ReleasedOrNone
<1>4. /\ ReleasedOrNone(predictor)' /\ ReleasedOrNone(pointer)' /\ ReleasedOrNone(tmpPointer)'
      /\ candidate' \in [Runtime!Threads -> released' \union {0}]
  BY <1>1, <1>2 DEF runtimeVars, ReleaseInv, ReleasedOrNone
<1> QED BY <1>3, <1>4 DEF ReleaseInv

LEMMA ServingKeepsReleases ==
  ASSUME ReleaseInv, ServingStep
  PROVE  ReleaseInv'
<1> DEFINE Held == released \union {0}
<1>1. /\ UNCHANGED <<released, alias>>
      /\ alias["champion"] \in Held /\ predictor \in Held
      /\ pointer \in Held /\ tmpPointer \in Held /\ candidate \in [Runtime!Threads -> Held]
  BY DEF ServingStep, vars, ReleaseInv, ReleasedOrNone
<1>2. SUFFICES /\ predictor' \in Held /\ pointer' \in Held /\ tmpPointer' \in Held
               /\ candidate' \in [Runtime!Threads -> Held]
  BY <1>1, <1>2 DEF ReleaseInv, ReleasedOrNone
<1> HIDE DEF Held
<1>z. Runtime!None \in Held /\ Runtime!Local \in Held
  BY DEF Held, Runtime!None, Runtime!Local
<1> USE <1>z DEF Runtime!memory, Runtime!disk, Runtime!world, Runtime!serving, Runtime!At, Runtime!Goto,
       Runtime!Activate, Runtime!SetCache
<1>3. CASE Runtime!ToggleRegistry \/ Runtime!Crash \/ Runtime!Redeploy \/ Runtime!Start
  BY <1>1, <1>3 DEF Runtime!ToggleRegistry, Runtime!Crash, Runtime!Redeploy, Runtime!Start
<1>4. CASE Runtime!LoadCachedBundle
  BY <1>1, <1>4 DEF Runtime!LoadCachedBundle
<1>5. ASSUME NEW t \in Runtime!Threads, Runtime!ReloadBegin(t) \/ Runtime!ReloadStep(t)
      PROVE  /\ predictor' \in Held /\ pointer' \in Held /\ tmpPointer' \in Held
             /\ candidate' \in [Runtime!Threads -> Held]
  <2>1. CASE Runtime!Sync(t)
    BY <1>1, <2>1 DEF Runtime!Sync
  <2>2. CASE \/ Runtime!ReloadBegin(t) \/ Runtime!SyncFails(t) \/ Runtime!CompareDiffers(t)
             \/ Runtime!Validate(t) \/ Runtime!PublishLooksForOld(t) \/ Runtime!RemoveBegins(t)
             \/ Runtime!RemoveEnds(t) \/ Runtime!MoveStaging(t) \/ Runtime!LoadCandidate(t)
    BY <1>1, <2>2 DEF Runtime!ReloadBegin, Runtime!SyncFails, Runtime!CompareDiffers,
       Runtime!Validate, Runtime!PublishLooksForOld, Runtime!RemoveBegins, Runtime!RemoveEnds,
       Runtime!MoveStaging, Runtime!LoadCandidate
  <2>3. CASE Runtime!CompareUnchanged(t) \/ Runtime!MarkReloadFailure(t)
    BY <1>1, <2>3 DEF Runtime!CompareUnchanged, Runtime!MarkReloadFailure
  <2>4. CASE Runtime!WritePointer(t)
    BY <1>1, <2>4 DEF Runtime!WritePointer
  <2>5. CASE Runtime!SwapPointer(t)
    BY <1>1, <2>5 DEF Runtime!SwapPointer
  <2>6. CASE Runtime!SwapPredictor(t)
    BY <1>1, <2>6 DEF Runtime!SwapPredictor
  <2> QED BY <1>5, <2>1, <2>2, <2>3, <2>4, <2>5, <2>6 DEF Runtime!ReloadStep
<1>6. ASSUME NEW r \in Requests, Runtime!RequestStep(r)
      PROVE  /\ predictor' \in Held /\ pointer' \in Held /\ tmpPointer' \in Held
             /\ candidate' \in [Runtime!Threads -> Held]
  BY <1>1, <1>6 DEF Runtime!RequestStep, Runtime!RequestCapture, Runtime!RequestAnswer
<1> QED BY <1>3, <1>4, <1>5, <1>6 DEF ServingStep

-----------------------------------------------------------------------------
(* The process activates only what it has verified under the settings in    *)
(* force, which change only while nothing is in memory: what serves is      *)
(* eligible, and so is the candidate of a reload past its validation.      *)

PastValidation == {"publish", "remove", "removing", "move", "write_pointer", "swap_pointer",
                   "load", "swap"}

VerifiedInv ==
    /\ DOMAIN reloadPc = Runtime!Threads
    /\ DOMAIN status = {"source", "state", "version", "last"}
    /\ eligible \subseteq Versions
    /\ predictor # 0 => predictor \in eligible
    /\ predictor = 0 <=> status.source # "registry"
    /\ \A t \in Runtime!Threads : reloadPc[t] \in PastValidation => candidate[t] \in eligible
    /\ process \in {"down", "starting", "serving"}
    /\ process = "down" => predictor = 0 /\ \A t \in Runtime!Threads : reloadPc[t] = "idle"
    /\ process = "starting" => \A t \in Runtime!Threads \ {"main"} : reloadPc[t] = "idle"
    /\ process = "serving" => reloadPc["main"] = "idle"

LEMMA VerifiedInit == PlatformInit => VerifiedInv
  BY DEF PlatformInit, VerifiedInv, PastValidation, Runtime!FreshStatus, Runtime!Local, Runtime!Threads

LEMMA ServingVerifies ==
  ASSUME VerifiedInv, ReleaseInv, ServingStep
  PROVE  VerifiedInv'
<1> USE ConstantsAssumption DEF VerifiedInv, PastValidation, Versions, Runtime!Versions, Runtime!Local,
     Runtime!None, Runtime!world, Runtime!disk, Runtime!memory, Runtime!serving, Runtime!Goto,
     Runtime!At, Runtime!SetCache
<1>0. DOMAIN candidate = Runtime!Threads /\ "main" \in Runtime!Threads
  BY DEF ReleaseInv, Runtime!Threads
<1>1. CASE Runtime!ToggleRegistry \/ Runtime!Redeploy
  BY <1>1 DEF Runtime!ToggleRegistry, Runtime!Redeploy
<1>2. CASE Runtime!Crash
  BY <1>2 DEF Runtime!Crash, Runtime!FreshStatus
<1>3. CASE Runtime!Start
  BY <1>0, <1>3 DEF Runtime!Start, Runtime!FreshStatus
<1>4. CASE Runtime!LoadCachedBundle
  BY <1>0, <1>4 DEF Runtime!LoadCachedBundle, Runtime!BundleIsValid, Runtime!Activate
<1>5. ASSUME NEW t \in Runtime!Threads, Runtime!ReloadBegin(t) PROVE VerifiedInv'
  BY <1>0, <1>5 DEF Runtime!ReloadBegin
<1>6. ASSUME NEW t \in Runtime!Threads, Runtime!ReloadStep(t) PROVE VerifiedInv'
  <2>1. CASE Runtime!Sync(t)
    BY <1>0, <2>1 DEF Runtime!Sync
  <2>2. CASE Runtime!SyncFails(t)
    BY <1>0, <2>2 DEF Runtime!SyncFails
  <2>3. CASE Runtime!CompareUnchanged(t)
    BY <1>0, <2>3 DEF Runtime!CompareUnchanged
  <2>4. CASE Runtime!CompareDiffers(t)
    BY <1>0, <2>4 DEF Runtime!CompareDiffers
  <2>5. CASE Runtime!Validate(t)
    BY <1>0, <2>5 DEF Runtime!Validate, Runtime!BundleIsValid
  <2>6. CASE Runtime!PublishLooksForOld(t)
    BY <1>0, <2>6 DEF Runtime!PublishLooksForOld
  <2>7. CASE Runtime!RemoveBegins(t)
    BY <1>0, <2>7 DEF Runtime!RemoveBegins
  <2>8. CASE Runtime!RemoveEnds(t)
    BY <1>0, <2>8 DEF Runtime!RemoveEnds
  <2>9. CASE Runtime!MoveStaging(t)
    BY <1>0, <2>9 DEF Runtime!MoveStaging
  <2>10. CASE Runtime!WritePointer(t)
    BY <1>0, <2>10 DEF Runtime!WritePointer
  <2>11. CASE Runtime!SwapPointer(t)
    BY <1>0, <2>11 DEF Runtime!SwapPointer
  <2>12. CASE Runtime!LoadCandidate(t)
    BY <1>0, <2>12 DEF Runtime!LoadCandidate
  <2>13. CASE Runtime!SwapPredictor(t)
    <3>1. predictor' = candidate[t] /\ candidate[t] \in eligible /\ candidate[t] # 0
      BY <2>13 DEF Runtime!SwapPredictor, Runtime!Activate
    <3>2. status' = [source |-> "registry", state |-> "ready_registry",
                     version |-> candidate[t], last |-> "reloaded"]
      BY <2>13 DEF Runtime!SwapPredictor, Runtime!Activate
    <3>3. reloadPc' = [reloadPc EXCEPT ![t] = "idle"] /\ eligible' = eligible
          /\ candidate' = [candidate EXCEPT ![t] = 0]
          /\ process' = IF t # "main" THEN process ELSE "serving"
      BY <2>13 DEF Runtime!SwapPredictor, Runtime!EndOfReload
    <3>4. process # "down" /\ (t = "main" \/ process = "serving")
      BY <2>13 DEF Runtime!SwapPredictor
    <3>5. \A u \in Runtime!Threads : reloadPc'[u] \in PastValidation => candidate'[u] \in eligible'
      BY <1>0, <3>3
    <3>6. process' = "serving" /\ reloadPc'["main"] = "idle"
      BY <1>0, <3>3, <3>4
    <3> QED BY <1>0, <3>1, <3>2, <3>3, <3>5, <3>6
  <2>14. CASE Runtime!MarkReloadFailure(t)
    <3>1. /\ predictor' = predictor /\ eligible' = eligible
          /\ status'.source = status.source /\ DOMAIN status' = DOMAIN status
      BY <2>14 DEF Runtime!MarkReloadFailure
    <3>2. /\ reloadPc' = [reloadPc EXCEPT ![t] = "idle"]
          /\ candidate' = [candidate EXCEPT ![t] = 0]
          /\ process # "down" /\ (t = "main" \/ process = "serving")
          /\ reloadPc[t] # "idle"
      BY <2>14 DEF Runtime!MarkReloadFailure
    <3>3. process' = IF t # "main" THEN process
                     ELSE IF StrictStartup /\ status.source # "registry" THEN "down" ELSE "serving"
      BY <2>14 DEF Runtime!MarkReloadFailure, Runtime!EndOfReload
    <3>4. \A u \in Runtime!Threads : reloadPc'[u] \in PastValidation => candidate'[u] \in eligible'
      BY <1>0, <3>1, <3>2
    <3>5. reloadPc'["main"] = "idle" /\ process' \in {"down", "serving"}
      BY <1>0, <3>2, <3>3
    <3>6. process' = "down" => predictor' = 0 /\ \A u \in Runtime!Threads : reloadPc'[u] = "idle"
      <4> SUFFICES ASSUME process' = "down"
                   PROVE  predictor' = 0 /\ \A u \in Runtime!Threads : reloadPc'[u] = "idle"
        OBVIOUS
      <4>1. t = "main" /\ status.source # "registry"
        BY <3>2, <3>3
      <4>2. process = "starting"
        BY <3>2, <4>1
      <4>3. predictor = 0
        BY <4>1, <4>2, <2>14 DEF Runtime!MarkReloadFailure
      <4> QED BY <1>0, <3>1, <3>2, <4>1, <4>2, <4>3
    <3> QED BY <1>0, <3>1, <3>2, <3>4, <3>5, <3>6
  <2> QED BY <1>6, <2>1, <2>2, <2>3, <2>4, <2>5, <2>6, <2>7, <2>8, <2>9, <2>10, <2>11, <2>12, <2>13,
             <2>14 DEF Runtime!ReloadStep
<1>7. ASSUME NEW r \in Requests, Runtime!RequestStep(r) PROVE VerifiedInv'
  BY <1>0, <1>7 DEF Runtime!RequestStep, Runtime!RequestCapture, Runtime!RequestAnswer
<1> QED BY <1>1, <1>2, <1>3, <1>4, <1>5, <1>6, <1>7 DEF ServingStep

(* Whatever fails, crashes or is left in the cache, and whichever gates the *)
(* promotions were given: the active registry model has been champion, and  *)
(* the gate released with it passed.                                       *)
THEOREM OnlyReleasedServe == PlatformSpec => []OnlyReleasedVersionsServe
<1> DEFINE Inv == ReleaseInv /\ VerifiedInv /\ VerifiableOnlyIfGated
<1>1. PlatformInit => Inv
  BY ReleaseInit, VerifiedInit DEF PlatformInit, Init, VerifiableOnlyIfGated, Versions
<1>2. RegistryInv /\ Inv /\ [PlatformNext]_platformVars => Inv'
  <2> SUFFICES ASSUME RegistryInv, Inv, [PlatformNext]_platformVars
               PROVE  Inv'
    OBVIOUS
  <2>1. CASE UNCHANGED platformVars
    BY <2>1 DEF platformVars, vars, runtimeVars, ReleaseInv, ReleasedOrNone, VerifiedInv,
       VerifiableOnlyIfGated
  <2>2. CASE ServingStep
    BY <2>2, ServingKeepsReleases, ServingVerifies DEF ServingStep
  <2>3. ASSUME NEW o \in Operators, OperatorStep(o) PROVE Inv'
    <3>1. VerifiedInv'
      BY <2>3 DEF OperatorStep, runtimeVars, VerifiedInv
    <3> QED BY <2>3, <3>1, OperatorsRelease DEF OperatorStep
  <2> QED BY <2>1, <2>2, <2>3 DEF PlatformNext
<1>3. RegistryInv /\ Inv => OnlyReleasedVersionsServe
  <2> SUFFICES ASSUME RegistryInv, Inv, predictor # 0
               PROVE  predictor \in released /\ gate[predictor]
    BY DEF OnlyReleasedVersionsServe, Runtime!Local
  <2>1. predictor \in released /\ predictor \in eligible
    BY DEF ReleaseInv, ReleasedOrNone, VerifiedInv
  <2>2. predictor <= registered
    BY <2>1 DEF RegistryInv, TypeOK
  <2> QED BY <2>1, <2>2 DEF VerifiableOnlyIfGated
<1> QED BY <1>1, <1>2, <1>3, PlatformHasRegistryInv, PTL DEF PlatformSpec

=============================================================================
