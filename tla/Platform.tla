------------------------------ MODULE Platform ------------------------------
(***************************************************************************)
(* The registry and one serving process together: operators release and    *)
(* roll back versions call by call (Registry) while the process follows    *)
(* the champion alias (RuntimeManager).  The alias is the only state the   *)
(* two share; what RuntimeManager takes for its environment, an alias that *)
(* moves and is never cleared, is here what the operators' calls do.       *)
(*                                                                         *)
(* A bundle passes the runtime's verification only if the gate released    *)
(* with it passed; whether its schema fits is settled when it is deployed  *)
(* (runtime_manager.py, lines 266 to 272).                                 *)
(***************************************************************************)
EXTENDS Registry

CONSTANTS
    Forcers, Requests, StrictStartup,  \* see RuntimeManager
    MaxDisruptions                     \* bound on the disruptions

VARIABLES
    reachable, eligible, process, predictor, status, reloadPc, candidate,
    cache, pointer, tmpPointer, request, spans,     \* see RuntimeManager
    disruptions     \* failed calls, outages, crashes and redeployments so far

Runtime == INSTANCE RuntimeManager WITH champion <- alias["champion"], pc <- reloadPc

runtimeVars == <<reachable, eligible, process, predictor, status, reloadPc, candidate, cache,
                 pointer, tmpPointer, request, spans>>
platformVars == <<vars, runtimeVars, disruptions>>

(* Versions not registered yet may turn out either way. *)
VerifiableOnlyIfGated == \A v \in eligible : v <= registered => gate[v]

PlatformInit ==
    /\ Init
    /\ reachable \in BOOLEAN
    /\ eligible \in SUBSET Versions
    /\ process = "down" /\ predictor = Runtime!Local /\ status = Runtime!FreshStatus
    /\ reloadPc = [t \in Runtime!Threads |-> "idle"]
    /\ candidate = [t \in Runtime!Threads |-> Runtime!None]
    /\ cache = [v \in Versions |-> "absent"]
    /\ pointer = Runtime!None /\ tmpPointer = Runtime!None
    /\ request = [r \in Requests |-> Runtime!NoRequest]
    /\ spans = [r \in Requests |-> {}]
    /\ disruptions = 0

Disrupts == disruptions < MaxDisruptions /\ disruptions' = disruptions + 1

OperatorStep(o) ==
    /\ \/ (Fail(o) \/ LookupFails(o)) /\ Disrupts
       \/ /\ RegisterNext(o) \/ PromoteNext(o) \/ RollbackNext(o) \/ Reject(o)
          /\ UNCHANGED disruptions
    /\ UNCHANGED runtimeVars
    /\ VerifiableOnlyIfGated'

(* Every action of RuntimeManager but MoveAlias, which stands for operators. *)
ServingStep ==
    /\ UNCHANGED vars
    /\ \/ /\ Runtime!ToggleRegistry \/ Runtime!Crash \/ Runtime!Redeploy
          /\ Disrupts
       \/ /\ \/ Runtime!Start \/ Runtime!LoadCachedBundle
             \/ \E t \in Runtime!Threads : Runtime!ReloadBegin(t) \/ Runtime!ReloadStep(t)
             \/ \E r \in Requests : Runtime!RequestStep(r)
          /\ UNCHANGED disruptions
    /\ VerifiableOnlyIfGated'

PlatformNext == ServingStep \/ \E o \in Operators : OperatorStep(o)

PlatformSpec == PlatformInit /\ [][PlatformNext]_platformVars

PlatformFairSpec == PlatformSpec /\ Runtime!Fairness

-----------------------------------------------------------------------------
(* The operators are an environment RuntimeManager allows for: a release    *)
(* or rollback that fails anywhere moves champion to a version or leaves it *)
(* alone, so what holds of RuntimeManager holds of the process here.        *)
ImplementsRuntime == Runtime!Spec

(* Through failed releases, rollbacks, crashes and caches left behind, the  *)
(* active model is one that was made champion and whose own gate passed.    *)
OnlyReleasedVersionsServe ==
    predictor # Runtime!Local => predictor \in released /\ gate[predictor]

(* Once operators leave the registry alone, be it half way through a        *)
(* failed release or after a rollback, and process and registry stay up,    *)
(* the version under champion comes to serve if it can be verified.         *)
ServesWhatWasReleased ==
    <>[](/\ \A o \in Operators : pc[o] = "idle"
         /\ reachable /\ process = "serving" /\ alias["champion"] \in eligible
         /\ \A f \in Forcers : reloadPc[f] = "idle")
        => <>[](predictor = alias["champion"])

=============================================================================
