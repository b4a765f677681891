------------------------------- MODULE Canary -------------------------------
(***************************************************************************)
(* The canary controller, src/serving/canary.py: one control thread that   *)
(* refreshes the challenger, evaluates the evidence and stops or promotes; *)
(* request handlers that score both models and record the comparison; the  *)
(* registry's aliases, which operators also move; and the champion         *)
(* runtime, whose reload loop follows the champion alias on its own.       *)
(*                                                                         *)
(* The controller's lock guards single steps.  A request holds it to       *)
(* choose an arm, again to pick up the challenger, and again to record;    *)
(* the control thread may run between any two of these.                    *)
(***************************************************************************)
EXTENDS CanaryMetrics

CONSTANTS
    MaxVersion,     \* registry versions are 1..MaxVersion
    Eligible,       \* versions whose bundle passes _validate_bundle
    Requests,       \* request handlers, each for a customer of its own
    Cohort,         \* pairs <<v, r>>: r's customer is in version v's challenger arm
    Measurements,   \* what scoring one request with both models can measure
    Limits,         \* CanaryLimits
    AutoPromote,    \* CANARY_AUTO_PROMOTE_ENABLED
    Window,         \* maxlen of the record deque
    MaxMoves,       \* bound on the alias changes made by operators
    MaxFaults       \* bound on the registry calls that raise

Versions == 1..MaxVersion
None == 0

(* A record of the window: a measurement, who served and what was compared. *)
CanaryRecord == [role : RecordRoles, version : 0..MaxVersion,
                 error : BOOLEAN, changed : BOOLEAN, delta : Int, championMs : Int, challengerMs : Int,
                 championManual : BOOLEAN, challengerManual : BOOLEAN]

ASSUME CanaryConstants ==
    /\ MaxVersion \in Nat \ {0}
    /\ Eligible \subseteq Versions
    /\ IsFiniteSet(Requests)        \* the server's handler threads
    /\ Cohort \subseteq Versions \X Requests
    /\ Measurements \subseteq Measurement
    /\ Limits.minRequests \in Nat \ {0} /\ Limits.minChallengerRequests \in Nat \ {0}
    /\ Window \in Nat /\ Window >= Limits.minRequests
    /\ AutoPromote \in BOOLEAN
    /\ MaxMoves \in Nat /\ MaxFaults \in Nat

Serving == {"warming", "healthy"}     \* states in which the challenger takes part
CanaryStates == Serving \union {"waiting_for_challenger", "stopped", "promoted"}
ControlSteps == {"wait", "refresh_sync", "refresh_load", "evaluate", "stop", "promote_begin",
                 "promote_check", "promote_set_champion", "promote_drop_challenger",
                 "reload_read", "reload_swap", "promote_done", "promote_failed"}

VARIABLES
    champion, challenger,   \* the registry's aliases
    active,         \* registry_version of the runtime's predictor
    reloading,      \* version the reload loop has synced and will swap in, or None
    state,          \* _state.state
    loaded,         \* _challenger and _state.challenger_registry_version
    records,        \* _records, each with the version that was scored
    promoted,       \* _state.promoted_registry_version
    pc,             \* the control thread's next step
    candidate,      \* its local: the version synced, expected or reloaded
    verdict,        \* history: comparisons of the loaded version behind the last PASS
    decision,       \* the last evaluation's decision
    request,        \* request[r]: pc, role assigned, challenger version captured
    moves, faults   \* alias changes by operators and failed calls so far

aliases == <<champion, challenger>>
runtime == <<active, reloading>>
session == <<state, loaded, promoted, verdict, decision>>
control == <<session, pc, candidate>>
bounds == <<moves, faults>>
others == <<aliases, runtime, records, request>>
vars == <<others, control, bounds>>

RequestStates == [pc : {"idle", "assigned", "scored"}, role : {"champion", "challenger"},
                  version : 0..MaxVersion]
NoRequest == [pc |-> "idle", role |-> "champion", version |-> None]

TypeOK ==
    /\ {champion, challenger, active, reloading, loaded, promoted, candidate} \subseteq 0..MaxVersion
    /\ state \in CanaryStates
    /\ pc \in ControlSteps
    /\ decision \in {"WAIT", "STOP", "PASS"}
    /\ verdict \in 0..Window
    /\ records \in Seq(CanaryRecord) /\ Len(records) <= Window
    /\ request \in [Requests -> RequestStates]
    /\ moves \in 0..MaxMoves /\ faults \in 0..MaxFaults

Init ==
    /\ champion \in Eligible /\ challenger \in (0..MaxVersion) \ {champion}
    /\ active = champion /\ reloading = None
    /\ state = "waiting_for_challenger"
    /\ loaded = None
    /\ records = <<>>
    /\ promoted = None
    /\ pc = "refresh_sync"      \* the constructor's refresh
    /\ candidate = None
    /\ verdict = 0
    /\ decision = "WAIT"
    /\ request = [r \in Requests |-> NoRequest]
    /\ moves = 0 /\ faults = 0

-----------------------------------------------------------------------------
(* Operators move the aliases: register, promote, roll back, delete.       *)

OperatorMoves ==
    /\ moves < MaxMoves
    /\ moves' = moves + 1
    /\ \/ challenger' \in (0..MaxVersion) \ {challenger} /\ UNCHANGED champion
       \/ champion' \in Versions \ {champion} /\ UNCHANGED challenger
    /\ UNCHANGED <<runtime, records, request, control, faults>>

(* The runtime's reload loop (RuntimeManager): sync, and some time later   *)
(* compare with what is active by then and swap.                           *)
LoopSyncs ==
    /\ reloading = None
    /\ champion \in Eligible
    /\ reloading' = champion
    /\ UNCHANGED <<aliases, active, records, request, control, bounds>>

LoopSwaps ==
    /\ reloading # None
    /\ active' = reloading
    /\ reloading' = None
    /\ UNCHANGED <<aliases, records, request, control, bounds>>

-----------------------------------------------------------------------------
(* The control thread.                                                     *)

Goto(from, to) == pc = from /\ pc' = to

(* Each turn of the loop evaluates, and refreshes first when that is due.  *)
WakeTo(step) ==
    /\ Goto("wait", step)
    /\ UNCHANGED <<others, session, candidate, bounds>>

WakeToRefresh == WakeTo("refresh_sync")
WakeToEvaluate == WakeTo("evaluate")

RefreshSync ==
    /\ \/ /\ state = "promoted"       \* nothing is refreshed any more
          /\ Goto("refresh_sync", "evaluate")
          /\ UNCHANGED candidate
       \/ /\ state # "promoted" /\ challenger # None
          /\ Goto("refresh_sync", "refresh_load")
          /\ candidate' = challenger
    /\ UNCHANGED <<others, session, bounds>>

(* The except branch of refresh_challenger; the exception is swallowed. *)
RefreshFails ==
    /\ \/ /\ pc = "refresh_sync" /\ state # "promoted"
          /\ \/ challenger = None /\ UNCHANGED faults
             \/ faults < MaxFaults /\ faults' = faults + 1
       \/ pc = "refresh_load" /\ candidate \notin Eligible /\ candidate # loaded /\ UNCHANGED faults
    /\ pc' = "evaluate"
    /\ state' = IF loaded = None THEN "waiting_for_challenger" ELSE state
    /\ candidate' = None
    /\ UNCHANGED <<others, loaded, promoted, verdict, decision, moves>>

RefreshUnchanged ==
    /\ Goto("refresh_load", "evaluate")
    /\ candidate = loaded
    /\ candidate' = None
    /\ UNCHANGED <<others, session, bounds>>

BeginCanary ==
    /\ Goto("refresh_load", "evaluate")
    /\ loaded' = candidate
    /\ state' = "warming"
    /\ promoted' = None
    /\ decision' = "WAIT"
    /\ candidate' = None
    /\ UNCHANGED <<aliases, runtime, request, verdict, bounds>>

RefreshLoads_same_version_too ==
    /\ candidate \in Eligible
    /\ BeginCanary
    /\ records' = <<>>

RefreshLoads_keeps_records ==
    /\ candidate \in Eligible /\ candidate # loaded
    /\ BeginCanary
    /\ UNCHANGED records

RefreshLoads ==
    /\ candidate \in Eligible /\ candidate # loaded
    /\ BeginCanary
    /\ records' = <<>>

OwnComparisons == HowMany(records, LAMBDA m : m.version = loaded /\ IsComparison(m))

(* evaluate reads under the lock and writes under it again; between the    *)
(* two only records are appended, so one step stands for both.             *)
Evaluate ==
    /\ pc = "evaluate"
    /\ IF state \in Serving
       THEN LET d == Decision(records, Limits) IN
            /\ decision' = d
            /\ state' = IF d = "PASS" THEN "healthy" ELSE state
            /\ verdict' = IF d = "PASS" THEN OwnComparisons ELSE verdict
            /\ pc' = CASE d = "STOP" -> "stop"
                       [] d = "PASS" /\ AutoPromote -> "promote_begin"
                       [] OTHER -> "wait"
       ELSE pc' = "wait" /\ UNCHANGED <<state, decision, verdict>>
    /\ UNCHANGED <<others, loaded, promoted, candidate, bounds>>

StopCanary ==
    /\ Goto("stop", "wait")
    /\ state' = "stopped"
    /\ UNCHANGED <<others, loaded, promoted, candidate, verdict, decision, bounds>>

-----------------------------------------------------------------------------
(* _promote_canary: promote_challenger with the version and the gate of    *)
(* the bundle watched (each call a step, see Registry), then a forced      *)
(* reload.  The expected version is loaded, which only this thread sets.   *)

PromoteBegin ==
    /\ Goto("promote_begin", "promote_check")
    /\ state \in Serving
    /\ UNCHANGED <<others, session, candidate, bounds>>

PromoteCheck ==
    /\ pc = "promote_check"
    /\ pc' = IF challenger = loaded THEN "promote_set_champion" ELSE "promote_failed"
    /\ UNCHANGED <<others, session, candidate, bounds>>

PromoteSetChampion ==
    /\ Goto("promote_set_champion", "promote_drop_challenger")
    /\ champion' = loaded
    /\ UNCHANGED <<challenger, runtime, records, request, session, candidate, bounds>>

(* A failure to delete the alias is swallowed. *)
PromoteDropChallenger ==
    /\ Goto("promote_drop_challenger", "reload_read")
    /\ \/ challenger' = None /\ UNCHANGED faults
       \/ faults < MaxFaults /\ faults' = faults + 1 /\ UNCHANGED challenger
    /\ UNCHANGED <<champion, runtime, records, request, session, candidate, moves>>

(* reload_from_registry(force=True) *)
ReloadRead ==
    /\ pc = "reload_read"
    /\ pc' = IF champion \in Eligible THEN "reload_swap" ELSE "promote_failed"
    /\ candidate' = champion
    /\ UNCHANGED <<others, session, bounds>>

ReloadSwap ==
    /\ Goto("reload_swap", "promote_done")
    /\ active' = candidate
    /\ candidate' = None
    /\ UNCHANGED <<aliases, reloading, records, request, session, bounds>>

PromoteDone_forgets_version ==
    /\ Goto("promote_done", "wait")
    /\ state' = "promoted"
    /\ promoted' = None
    /\ decision' = "PASS"
    /\ UNCHANGED <<others, loaded, candidate, verdict, bounds>>

PromoteDone ==
    /\ Goto("promote_done", "wait")
    /\ state' = "promoted"
    /\ promoted' = loaded
    /\ decision' = "PASS"
    /\ UNCHANGED <<others, loaded, candidate, verdict, bounds>>

(* Any registry call of the promotion, or the reload, may raise.  Raising   *)
(* at promote_drop_challenger is the failure of a tag after the alias moved. *)
PromoteRaises ==
    /\ pc \in {"promote_check", "promote_set_champion", "promote_drop_challenger",
               "reload_read", "reload_swap"}
    /\ faults < MaxFaults /\ faults' = faults + 1
    /\ pc' = "promote_failed"
    /\ UNCHANGED <<others, session, candidate, moves>>

(* The handler logs promotion_failed; state and evidence stay as they were. *)
PromoteFailed ==
    /\ Goto("promote_failed", "wait")
    /\ candidate' = None
    /\ UNCHANGED <<others, session, bounds>>

-----------------------------------------------------------------------------
(* predict.                                                                *)

Serve(r, to) ==
    /\ request' = [request EXCEPT ![r] = to]
    /\ UNCHANGED <<aliases, runtime, control, bounds>>

AssignedRole(r) ==
    IF loaded # None /\ state \in Serving /\ <<loaded, r>> \in Cohort
    THEN "challenger" ELSE "champion"

RequestAssign(r) ==
    /\ request[r].pc = "idle"
    /\ Serve(r, [pc |-> "assigned", role |-> AssignedRole(r), version |-> None])
    /\ UNCHANGED records

(* The champion has answered; the challenger is picked up under the lock   *)
(* and scores the request, unless the canary is not serving by now.        *)
RequestScore(r) ==
    /\ request[r].pc = "assigned"
    /\ Serve(r, [pc |-> "scored", role |-> request[r].role,
                 version |-> IF state \in Serving THEN loaded ELSE None])
    /\ UNCHANGED records

ServedRole_never_challenger(r, m) ==
    IF request[r].role = "challenger" THEN "champion_fallback" ELSE request[r].role

ServedRole(r, m) ==
    IF request[r].role = "challenger" /\ (request[r].version = None \/ m.error)
    THEN "champion_fallback" ELSE request[r].role

(* What is left of a measurement when no challenger was there to score. *)
ChampionOnly(m) ==
    [m EXCEPT !.error = FALSE, !.changed = FALSE, !.delta = NoValue, !.challengerMs = NoValue,
              !.challengerManual = FALSE]

Record(r, measured) ==
    LET m == IF request[r].version = None THEN ChampionOnly(measured) ELSE measured IN
    [role |-> ServedRole(r, m), version |-> request[r].version,
     error |-> m.error, changed |-> m.changed, delta |-> m.delta,
     championMs |-> m.championMs, challengerMs |-> m.challengerMs,
     championManual |-> m.championManual, challengerManual |-> m.challengerManual]

AppendToWindow_unbounded(recs, m) == Append(recs, m)

(* deque(maxlen = Window): the oldest record makes room. *)
AppendToWindow(recs, m) ==
    IF Len(recs) < Window THEN Append(recs, m) ELSE Append(Tail(recs), m)

(* _record checks the state again, but not whose version was scored.       *)
RequestRecord(r, m) ==
    /\ request[r].pc = "scored"
    /\ Serve(r, NoRequest)
    /\ records' = IF state \in Serving THEN AppendToWindow(records, Record(r, m)) ELSE records

(* The champion failed: predict raises and nothing is recorded.            *)
RequestRaises(r) ==
    /\ request[r].pc = "scored"
    /\ Serve(r, NoRequest)
    /\ UNCHANGED records

-----------------------------------------------------------------------------
(* The process dies and is restarted: everything but the registry is lost,  *)
(* the stopped verdict included.  The new process is on the champion, or,   *)
(* when that cannot be loaded, on the version its cache holds.             *)
Reset ==
    /\ state' = "waiting_for_challenger"
    /\ loaded' = None /\ promoted' = None
    /\ verdict' = 0 /\ decision' = "WAIT"
    /\ pc' = "refresh_sync" /\ candidate' = None
    /\ request' = [r \in Requests |-> NoRequest]

Rebooted ==
    /\ faults < MaxFaults /\ faults' = faults + 1
    /\ active' \in {active} \union ({champion} \intersect Eligible)
    /\ reloading' = None
    /\ UNCHANGED <<aliases, moves>>

Restart == Rebooted /\ Reset /\ records' = <<>>

-----------------------------------------------------------------------------
Control ==
    \/ WakeToRefresh \/ WakeToEvaluate
    \/ RefreshSync \/ RefreshFails \/ RefreshUnchanged \/ RefreshLoads
    \/ Evaluate \/ StopCanary
    \/ PromoteBegin \/ PromoteCheck \/ PromoteSetChampion \/ PromoteDropChallenger
    \/ ReloadRead \/ ReloadSwap \/ PromoteDone \/ PromoteRaises \/ PromoteFailed

Loop == LoopSyncs \/ LoopSwaps

Completed(r) ==
    \/ RequestAssign(r) \/ RequestScore(r)
    \/ \E m \in Measurements : RequestRecord(r, m)

Next ==
    \/ OperatorMoves \/ Loop \/ Control \/ Restart
    \/ \E r \in Requests : Completed(r) \/ RequestRaises(r)

Spec == Init /\ [][Next]_vars

(* The control thread and the reload loop run, the control loop keeps       *)
(* refreshing, and every customer's requests keep coming and completing;    *)
(* operators' moves and failed calls are finitely many by their bounds.     *)
FairSpec ==
    /\ Spec
    /\ WF_vars(Control) /\ WF_vars(Loop)
    /\ SF_vars(WakeToRefresh)
    /\ \A r \in Requests : WF_vars(Completed(r))
                         /\ SF_vars(\E m \in Measurements : RequestRecord(r, m))

-----------------------------------------------------------------------------
(* A request in flight when the challenger is replaced records its         *)
(* comparison in the new version's window (lines 272 and 302).  Each       *)
(* handler can do so once, so the stale records never outnumber them.      *)
StaleEvidenceIsBounded ==
    HowMany(records, LAMBDA m : m.version # loaded) <= Cardinality(Requests)

(* The champion alias is moved on evidence of which all but the stale      *)
(* records compare the very version promoted.                              *)
PromotionRestsOnEvidence ==
    pc = "promote_set_champion" =>
        verdict >= Limits.minRequests - Cardinality(Requests)

(* A stopped canary never serves its version again: only a challenger of   *)
(* another version ends the stop, or a restart, which forgets the verdict   *)
(* and with it all evidence, so that the version starts from nothing.       *)
StopIsFinal == [][
    state = "stopped" => \/ state' = "stopped"
                         \/ state' = "warming" /\ loaded' # loaded
                         \/ loaded' = None /\ records' = <<>>]_<<state, loaded>>

(* While the challenger alias stays on an eligible version, its canary      *)
(* ends: it is stopped or promoted.  Only a process whose canary has        *)
(* already promoted a version takes no further challenger (line 201).       *)
EveryCanaryEnds == \A v \in Eligible :
    <>[](challenger = v) => <>[](state = "promoted" \/ (loaded = v /\ state = "stopped"))

(* status(): the state reported, which compares the runtime's version with  *)
(* the one promoted.                                                       *)
Report ==
    IF state = "promoted" /\ {promoted, active} \intersect {None} = {} /\ active # promoted
    THEN "rolled_back" ELSE state

(* A reload that synced before the promotion may swap in the old champion   *)
(* after it, and "rolled_back" is reported of a promotion nobody undid; but *)
(* the report settles on what became of the promotion.                     *)
ReportSettles == \A v \in Eligible :
    <>[](state = "promoted" /\ champion = v)
        => <>[](Report = IF v = loaded THEN "promoted" ELSE "rolled_back")

-----------------------------------------------------------------------------
(* What the documents say.                                                 *)

(* docs/canary_runtime.md, line 238: an online safety limit that fails     *)
(* stops the canary.  Evaluating a full window in which every call of the  *)
(* challenger failed does not end in WAIT.                                 *)
EveryCallFailed ==
    /\ Len(records) = Window /\ ChallengerErrors(records) = Window
    /\ RateExceeds(Window, Window, Limits.maxErrors)

ErrorCeilingStops == [][
    pc = "evaluate" /\ state \in Serving /\ EveryCallFailed => decision' # "WAIT"]_pc

=============================================================================
