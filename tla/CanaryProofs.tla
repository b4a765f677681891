----------------------------- MODULE CanaryProofs -----------------------------
(***************************************************************************)
(* Proofs about Canary, for any number of requests, versions and           *)
(* measurements, any limits and any size of the evidence window.           *)
(***************************************************************************)
EXTENDS Canary, FiniteSetTheorems, TLAPS

(* Counting the records of a window that pass a test. *)
LEMMA CountBound ==
  ASSUME NEW recs, NEW n \in Nat, Len(recs) \in 0..n, DOMAIN recs = 1..Len(recs),
         NEW S, S \subseteq DOMAIN recs
  PROVE  Cardinality(S) \in 0..n
<1>0. Len(recs) \in Nat /\ 1 \in Int
  OBVIOUS
<1>1. IsFiniteSet(1..Len(recs)) /\ Cardinality(1..Len(recs)) = Len(recs)
  <2>1. ASSUME NEW k \in Nat PROVE IsFiniteSet(1..k) /\ Cardinality(1..k) = k
    <3>1. 1 \in Int /\ k \in Int /\ (1 > k => k = 0) /\ k - 1 + 1 = k
      OBVIOUS
    <3>2. IsFiniteSet(1..k) /\ Cardinality(1..k) = IF 1 > k THEN 0 ELSE k - 1 + 1
      BY <3>1, FS_Interval, Zenon
    <3> QED BY <3>1, <3>2
  <2> QED BY <1>0, <2>1
<1>2. Cardinality(S) \in Nat /\ Cardinality(S) <= Len(recs)
  BY <1>1, FS_Subset, FS_CardinalityType
<1> QED BY <1>0, <1>2

LEMMA OwnComparisonsBound == TypeOK => OwnComparisons \in 0..Window
<1> SUFFICES ASSUME TypeOK PROVE OwnComparisons \in 0..Window
  OBVIOUS
<1>1. DOMAIN records = 1..Len(records) /\ Len(records) \in 0..Window /\ Window \in Nat
  BY CanaryConstants DEF TypeOK
<1> DEFINE S == {i \in DOMAIN records : records[i].version = loaded /\ IsComparison(records[i])}
<1>2. Cardinality(S) \in 0..Window
  BY <1>1, CountBound
<1>3. OwnComparisons = Cardinality(S)
  BY DEF OwnComparisons, HowMany
<1> QED BY <1>2, <1>3

(* The window: a record goes in, and at the limit the oldest goes out. *)
LEMMA WindowKeepsItsBound ==
  ASSUME NEW m \in CanaryRecord, records \in Seq(CanaryRecord), Len(records) <= Window
  PROVE  /\ AppendToWindow(records, m) \in Seq(CanaryRecord)
         /\ Len(AppendToWindow(records, m)) <= Window
<1>1. Window \in Nat /\ Window >= 1
  BY CanaryConstants
<1>2. CASE Len(records) < Window
  BY <1>1, <1>2 DEF AppendToWindow
<1>3. CASE ~(Len(records) < Window)
  <2>1. Len(records) = Window /\ records # <<>>
    BY <1>1, <1>3
  <2>2. Tail(records) \in Seq(CanaryRecord) /\ Len(Tail(records)) = Len(records) - 1
    BY <2>1
  <2> QED BY <1>1, <1>3, <2>1, <2>2 DEF AppendToWindow
<1> QED BY <1>2, <1>3

LEMMA RecordIsWellFormed ==
  ASSUME NEW r \in Requests, NEW m \in Measurements, request \in [Requests -> RequestStates]
  PROVE  Record(r, m) \in CanaryRecord
<1>1. m \in Measurement /\ request[r] \in RequestStates
  BY CanaryConstants
<1>2. ChampionOnly(m) \in Measurement
  <2> DEFINE m1 == [m EXCEPT !.error = FALSE]
             m2 == [m1 EXCEPT !.changed = FALSE]
             m3 == [m2 EXCEPT !.delta = NoValue]
             m4 == [m3 EXCEPT !.challengerMs = NoValue]
             m5 == [m4 EXCEPT !.challengerManual = FALSE]
  <2>1. m1 \in Measurement
    BY <1>1 DEF Measurement
  <2>2. m2 \in Measurement
    <3> HIDE DEF m1
    <3> QED BY <2>1 DEF Measurement
  <2>3. m3 \in Measurement
    <3> HIDE DEF m2
    <3> QED BY <2>2 DEF Measurement, NoValue
  <2>4. m4 \in Measurement
    <3> HIDE DEF m3
    <3> QED BY <2>3 DEF Measurement, NoValue
  <2>5. m5 \in Measurement
    <3> HIDE DEF m4
    <3> QED BY <2>4 DEF Measurement
  <2>6. ChampionOnly(m) = m5
    BY Zenon DEF ChampionOnly
  <2> HIDE DEF m5
  <2> QED BY <2>5, <2>6
<1>3. ASSUME NEW x \in Measurement PROVE ServedRole(r, x) \in RecordRoles
  BY <1>1 DEF ServedRole, RecordRoles, RequestStates
<1> DEFINE x == IF request[r].version = None THEN ChampionOnly(m) ELSE m
<1>4. x \in Measurement
  BY <1>1, <1>2
<1>5. Record(r, m) =
        [role |-> ServedRole(r, x), version |-> request[r].version,
         error |-> x.error, changed |-> x.changed, delta |-> x.delta,
         championMs |-> x.championMs, challengerMs |-> x.challengerMs,
         championManual |-> x.championManual, challengerManual |-> x.challengerManual]
  BY DEF Record
<1> HIDE DEF x
<1> QED BY <1>1, <1>3, <1>4, <1>5 DEF CanaryRecord, Measurement, RequestStates

LEMMA TypeInit == Init => TypeOK
<1> SUFFICES ASSUME Init PROVE TypeOK
  OBVIOUS
<1> USE CanaryConstants DEF Init
<1>1. {champion, challenger, active, reloading, loaded, promoted, candidate} \subseteq 0..MaxVersion
  BY DEF Versions, None
<1>2. records \in Seq(CanaryRecord) /\ Len(records) <= Window /\ verdict \in 0..Window
  OBVIOUS
<1>3. request \in [Requests -> RequestStates]
  BY DEF NoRequest, RequestStates, None
<1> QED BY <1>1, <1>2, <1>3 DEF TypeOK, CanaryStates, ControlSteps

LEMMA TypeStep == TypeOK /\ [Next]_vars => TypeOK'
<1> SUFFICES ASSUME TypeOK, [Next]_vars PROVE TypeOK'
  OBVIOUS
<1> USE DEF TypeOK, CanaryStates, Serving, ControlSteps, None, Versions,
        aliases, runtime, session, control, bounds, others, Goto
<1>c. /\ MaxVersion \in Nat /\ Eligible \subseteq Versions /\ MaxMoves \in Nat /\ MaxFaults \in Nat
      /\ Window \in Nat /\ <<>> \in Seq(CanaryRecord) /\ Len(<<>>) = 0
  BY CanaryConstants
<1>1. CASE UNCHANGED vars
  BY <1>1 DEF vars
<1>2. CASE OperatorMoves
  BY <1>c, <1>2 DEF OperatorMoves
<1>3. CASE Loop
  BY <1>c, <1>3, SMTT(30) DEF Loop, LoopSyncs, LoopSwaps
<1>4. CASE Restart
  BY <1>c, <1>4 DEF Restart, Rebooted, Reset, NoRequest, RequestStates
<1>5. CASE Control
  <2>1. CASE WakeToRefresh \/ WakeToEvaluate \/ RefreshSync \/ RefreshUnchanged
    <3>1. pc' \in ControlSteps /\ candidate' \in 0..MaxVersion
      BY <1>c, <2>1 DEF WakeToRefresh, WakeToEvaluate, WakeTo, RefreshSync, RefreshUnchanged
    <3> QED BY <2>1, <3>1 DEF WakeToRefresh, WakeToEvaluate, WakeTo, RefreshSync, RefreshUnchanged
  <2>2. CASE RefreshFails
    BY <1>c, <2>2 DEF RefreshFails
  <2>3. CASE RefreshLoads
    BY <1>c, <2>3 DEF RefreshLoads, BeginCanary
  <2>4. CASE Evaluate
    <3>1. OwnComparisons \in 0..Window
      BY OwnComparisonsBound
    <3>2. Decision(records, Limits) \in {"WAIT", "STOP", "PASS"}
      BY DEF Decision
    <3> QED BY <2>4, <3>1, <3>2 DEF Evaluate
  <2>5. CASE StopCanary
    BY <2>5 DEF StopCanary
  <2>6. CASE PromoteBegin
    BY <2>6 DEF PromoteBegin
  <2>7. CASE PromoteCheck
    BY <2>7 DEF PromoteCheck
  <2>8. CASE PromoteSetChampion
    BY <2>8 DEF PromoteSetChampion
  <2>9. CASE PromoteDropChallenger
    BY <1>c, <2>9 DEF PromoteDropChallenger
  <2>10. CASE PromoteRaises
    BY <1>c, <2>10 DEF PromoteRaises
  <2>11. CASE PromoteFailed
    BY <1>c, <2>11 DEF PromoteFailed
  <2>12. CASE ReloadRead
    BY <2>12 DEF ReloadRead
  <2>13. CASE ReloadSwap
    BY <1>c, <2>13 DEF ReloadSwap
  <2>14. CASE PromoteDone
    BY <2>14 DEF PromoteDone
  <2> QED BY <1>5, <2>1, <2>2, <2>3, <2>4, <2>5, <2>6, <2>7, <2>8, <2>9, <2>10, <2>11, <2>12, <2>13, <2>14
          DEF Control
<1>6. ASSUME NEW r \in Requests, Completed(r) \/ RequestRaises(r) PROVE TypeOK'
  <2>1. CASE RequestAssign(r)
    <3>1. request' \in [Requests -> RequestStates]
      BY <1>c, <2>1 DEF RequestAssign, Serve, AssignedRole, RequestStates
    <3> QED BY <2>1, <3>1 DEF RequestAssign, Serve
  <2>2. CASE RequestScore(r)
    BY <1>c, <2>2 DEF RequestScore, Serve, RequestStates
  <2>3. CASE RequestRaises(r)
    BY <1>c, <2>3 DEF RequestRaises, Serve, NoRequest, RequestStates
  <2>4. ASSUME NEW m \in Measurements, RequestRecord(r, m) PROVE TypeOK'
    <3>1. records' \in Seq(CanaryRecord) /\ Len(records') <= Window
      BY <2>4, RecordIsWellFormed, WindowKeepsItsBound DEF RequestRecord
    <3>2. request' \in [Requests -> RequestStates]
      BY <1>c, <2>4 DEF RequestRecord, Serve, NoRequest, RequestStates
    <3> QED BY <2>4, <3>1, <3>2 DEF RequestRecord, Serve
  <2> QED BY <1>6, <2>1, <2>2, <2>3, <2>4 DEF Completed
<1> QED BY <1>1, <1>2, <1>3, <1>4, <1>5, <1>6 DEF Next

(* Canary's type invariant: states, versions and roles are those the code   *)
(* names, and the window never holds more records than its size.           *)
THEOREM TypeCorrect == Spec => []TypeOK
  BY TypeInit, TypeStep, PTL DEF Spec

-----------------------------------------------------------------------------
(* A canary that serves, or was stopped, has a challenger; and the control  *)
(* thread stops or promotes only a canary that serves: nothing else in the  *)
(* process ends one meanwhile.                                              *)
StopInv ==
    /\ state \in Serving \union {"stopped"} => loaded # None
    /\ pc \in {"stop", "promote_begin", "promote_check", "promote_set_champion",
               "promote_drop_challenger", "reload_read", "reload_swap", "promote_done"}
         => state \in Serving

LEMMA StopInit == Init => StopInv
  BY DEF Init, StopInv, Serving

LEMMA StopStep == TypeOK /\ StopInv /\ [Next]_vars => StopInv'
<1> SUFFICES ASSUME TypeOK, StopInv, [Next]_vars PROVE StopInv'
  OBVIOUS
<1> USE DEF StopInv, CanaryStates, Serving, aliases, runtime, session, control, bounds, others, Goto
<1>1. CASE UNCHANGED vars
  BY <1>1 DEF vars
<1>2. CASE OperatorMoves \/ Loop
  BY <1>2 DEF OperatorMoves, Loop, LoopSyncs, LoopSwaps
<1>3. CASE Restart
  BY <1>3 DEF Restart, Rebooted, Reset
<1>4. CASE Control
  <2>1. CASE WakeToRefresh \/ WakeToEvaluate \/ RefreshSync \/ RefreshFails \/ RefreshUnchanged
    BY <2>1 DEF WakeToRefresh, WakeToEvaluate, WakeTo, RefreshSync, RefreshFails, RefreshUnchanged
  <2>2. CASE RefreshLoads
    BY <2>2, CanaryConstants DEF RefreshLoads, BeginCanary, Versions, None
  <2>3. CASE Evaluate
    BY <2>3 DEF Evaluate
  <2>4. CASE StopCanary \/ PromoteBegin \/ PromoteCheck \/ PromoteSetChampion
             \/ PromoteDropChallenger \/ PromoteRaises
    BY <2>4 DEF StopCanary, PromoteBegin, PromoteCheck, PromoteSetChampion,
       PromoteDropChallenger, PromoteRaises
  <2>5. CASE ReloadRead \/ ReloadSwap \/ PromoteDone \/ PromoteFailed
    BY <2>5 DEF ReloadRead, ReloadSwap, PromoteDone, PromoteFailed
  <2> QED BY <1>4, <2>1, <2>2, <2>3, <2>4, <2>5 DEF Control
<1>5. ASSUME NEW r \in Requests, Completed(r) \/ RequestRaises(r) PROVE StopInv'
  BY <1>5 DEF Completed, RequestAssign, RequestScore, RequestRecord, RequestRaises, Serve
<1> QED BY <1>1, <1>2, <1>3, <1>4, <1>5 DEF Next

(* No refresh, evaluation, promotion or request brings a stopped canary     *)
(* back: it ends with another challenger or with the process.              *)
THEOREM StopHolds == Spec => StopIsFinal
<1>1. TypeOK /\ StopInv /\ [Next]_vars =>
        [state = "stopped" => \/ state' = "stopped"
                              \/ state' = "warming" /\ loaded' # loaded
                              \/ loaded' = None /\ records' = <<>>]_<<state, loaded>>
  <2> SUFFICES ASSUME StopInv, [Next]_vars, state = "stopped",
                      ~(UNCHANGED <<state, loaded>>)
               PROVE  \/ state' = "stopped"
                      \/ state' = "warming" /\ loaded' # loaded
                      \/ loaded' = None /\ records' = <<>>
    OBVIOUS
  <2> USE DEF StopInv, Serving, aliases, runtime, session, control, bounds, others, Goto
  <2>1. CASE UNCHANGED vars \/ OperatorMoves \/ Loop
    BY <2>1 DEF vars, OperatorMoves, Loop, LoopSyncs, LoopSwaps
  <2>2. CASE Restart
    BY <2>2 DEF Restart, Reset
  <2>3. CASE WakeToRefresh \/ WakeToEvaluate \/ RefreshSync \/ RefreshFails \/ RefreshUnchanged
             \/ RefreshLoads
    BY <2>3 DEF WakeToRefresh, WakeToEvaluate, WakeTo, RefreshSync, RefreshFails, RefreshUnchanged,
       RefreshLoads, BeginCanary
  <2>4. CASE Evaluate \/ StopCanary \/ PromoteBegin \/ PromoteCheck \/ PromoteSetChampion
             \/ PromoteDropChallenger \/ PromoteRaises
    BY <2>4 DEF Evaluate, StopCanary, PromoteBegin, PromoteCheck, PromoteSetChampion,
       PromoteDropChallenger, PromoteRaises
  <2>5. CASE ReloadRead \/ ReloadSwap \/ PromoteDone \/ PromoteFailed
    BY <2>5 DEF ReloadRead, ReloadSwap, PromoteDone, PromoteFailed
  <2>6. ASSUME NEW r \in Requests, Completed(r) \/ RequestRaises(r) PROVE UNCHANGED <<state, loaded>>
    BY <2>6 DEF Completed, RequestAssign, RequestScore, RequestRecord, RequestRaises, Serve
  <2> QED BY <2>1, <2>2, <2>3, <2>4, <2>5, <2>6 DEF Next, Control
<1> QED BY <1>1, StopInit, StopStep, TypeCorrect, PTL DEF Spec, StopIsFinal

-----------------------------------------------------------------------------
(* Counting.  The records of a window that are not about version v: one     *)
(* more at most when a record goes in, no more when the oldest goes out.   *)
StaleIn(recs, v) == {i \in DOMAIN recs : recs[i].version # v}

LEMMA WindowIsFinite ==
  ASSUME NEW recs \in Seq(CanaryRecord), NEW S, S \subseteq DOMAIN recs
  PROVE  IsFiniteSet(S) /\ Cardinality(S) \in Nat
<1>1. Len(recs) \in Int /\ 1 \in Int /\ DOMAIN recs = 1..Len(recs)
  OBVIOUS
<1>2. IsFiniteSet(1..Len(recs))
  BY <1>1, FS_Interval, Zenon
<1> QED BY <1>1, <1>2, FS_Subset, FS_CardinalityType

LEMMA AppendStale ==
  ASSUME NEW recs \in Seq(CanaryRecord), NEW m \in CanaryRecord, NEW v
  PROVE  /\ Cardinality(StaleIn(Append(recs, m), v)) <= Cardinality(StaleIn(recs, v)) + 1
         /\ m.version = v
              => Cardinality(StaleIn(Append(recs, m), v)) = Cardinality(StaleIn(recs, v))
<1> DEFINE more == Append(recs, m)
           last == Len(recs) + 1
<1>1. /\ DOMAIN recs = 1..Len(recs) /\ DOMAIN more = 1..last /\ Len(recs) \in Nat
      /\ more[last] = m /\ \A i \in 1..Len(recs) : more[i] = recs[i]
  OBVIOUS
<1>2. IsFiniteSet(StaleIn(recs, v)) /\ Cardinality(StaleIn(recs, v)) \in Nat
  BY WindowIsFinite DEF StaleIn
<1>3. CASE m.version = v
  <2>1. StaleIn(more, v) = StaleIn(recs, v)
    BY <1>1, <1>3 DEF StaleIn
  <2> QED BY <1>2, <2>1
<1>4. CASE m.version # v
  <2>1. StaleIn(more, v) = StaleIn(recs, v) \union {last}
    BY <1>1, <1>4 DEF StaleIn
  <2> HIDE DEF last, more
  <2>2. Cardinality(StaleIn(recs, v) \union {last}) \in
           {Cardinality(StaleIn(recs, v)), Cardinality(StaleIn(recs, v)) + 1}
    BY <1>2, FS_AddElement
  <2> QED BY <1>2, <1>4, <2>1, <2>2 DEF more
<1> QED BY <1>3, <1>4

LEMMA TailStale ==
  ASSUME NEW recs \in Seq(CanaryRecord), recs # <<>>, NEW v
  PROVE  Cardinality(StaleIn(Tail(recs), v)) <= Cardinality(StaleIn(recs, v))
<1> DEFINE few == StaleIn(Tail(recs), v)
           all == StaleIn(recs, v)
           shift == [i \in few |-> i + 1]
<1>1. /\ DOMAIN recs = 1..Len(recs) /\ DOMAIN Tail(recs) = 1..(Len(recs) - 1) /\ Len(recs) \in Nat
      /\ \A i \in 1..(Len(recs) - 1) : Tail(recs)[i] = recs[i + 1]
  OBVIOUS
<1>2. shift \in [few -> all]
  BY <1>1 DEF StaleIn
<1>3. \A i, j \in few : shift[i] = shift[j] => i = j
  BY <1>1 DEF StaleIn
<1>4. IsFiniteSet(all)
  BY WindowIsFinite DEF StaleIn
<1> HIDE DEF few, all, shift
<1>5. shift \in Injection(few, all)
  BY <1>2, <1>3 DEF Injection, IsInjective
<1> QED BY <1>4, <1>5, FS_Injection DEF few, all

LEMMA WindowStale ==
  ASSUME NEW recs \in Seq(CanaryRecord), Len(recs) <= Window, NEW m \in CanaryRecord, NEW v
  PROVE  /\ Cardinality(StaleIn(AppendToWindow(recs, m), v)) <= Cardinality(StaleIn(recs, v)) + 1
         /\ m.version = v
              => Cardinality(StaleIn(AppendToWindow(recs, m), v)) <= Cardinality(StaleIn(recs, v))
<1>1. CASE Len(recs) < Window
  <2>1. Cardinality(StaleIn(recs, v)) \in Nat
    BY WindowIsFinite DEF StaleIn
  <2>2. AppendToWindow(recs, m) = Append(recs, m)
    BY <1>1 DEF AppendToWindow
  <2> QED BY <2>1, <2>2, AppendStale
<1>2. CASE ~(Len(recs) < Window)
  <2>1. recs # <<>> /\ Tail(recs) \in Seq(CanaryRecord)
    BY <1>2, CanaryConstants
  <2>2. Cardinality(StaleIn(Tail(recs), v)) <= Cardinality(StaleIn(recs, v))
    BY <2>1, TailStale
  <2>3. /\ Cardinality(StaleIn(recs, v)) \in Nat /\ Cardinality(StaleIn(Tail(recs), v)) \in Nat
        /\ Cardinality(StaleIn(Append(Tail(recs), m), v)) \in Nat
    <3>1. Append(Tail(recs), m) \in Seq(CanaryRecord)
      BY <2>1
    <3> QED BY <2>1, <3>1, WindowIsFinite DEF StaleIn
  <2>4. /\ Cardinality(StaleIn(Append(Tail(recs), m), v)) <= Cardinality(StaleIn(Tail(recs), v)) + 1
        /\ m.version = v
             => Cardinality(StaleIn(Append(Tail(recs), m), v)) = Cardinality(StaleIn(Tail(recs), v))
    BY <2>1, AppendStale
  <2>5. AppendToWindow(recs, m) = Append(Tail(recs), m)
    BY <1>2 DEF AppendToWindow
  <2> QED BY <2>2, <2>3, <2>4, <2>5
<1> QED BY <1>1, <1>2

-----------------------------------------------------------------------------
(* Stale evidence.  While the canary serves, a handler that scored another  *)
(* version will record it once: the stale records and these handlers        *)
(* together never outnumber the handlers.  A handler scores the version     *)
(* that is loaded as long as the canary serves, and it begins to serve a    *)
(* new one with an empty window.                                           *)
InFlight == {r \in Requests : request[r].pc = "scored" /\ request[r].version # loaded}
Stale == StaleIn(records, loaded)

StaleInv ==
    /\ Cardinality(Stale) <= Cardinality(Requests)
    /\ state \in Serving => Cardinality(Stale) + Cardinality(InFlight) <= Cardinality(Requests)

LEMMA StaleCounts ==
  ASSUME TypeOK
  PROVE  /\ IsFiniteSet(Stale) /\ Cardinality(Stale) \in Nat
         /\ IsFiniteSet(InFlight) /\ Cardinality(InFlight) \in Nat
         /\ Cardinality(Requests) \in Nat /\ Cardinality(InFlight) <= Cardinality(Requests)
<1>1. IsFiniteSet(Stale) /\ Cardinality(Stale) \in Nat
  BY WindowIsFinite DEF TypeOK, Stale, StaleIn
<1>2. InFlight \subseteq Requests /\ IsFiniteSet(Requests)
  BY CanaryConstants DEF InFlight
<1> QED BY <1>1, <1>2, FS_Subset, FS_CardinalityType

LEMMA EmptyWindow == \A v : Cardinality(StaleIn(<<>>, v)) = 0
  BY FS_EmptySet DEF StaleIn

LEMMA StaleInit == Init => StaleInv
<1> SUFFICES ASSUME Init PROVE StaleInv
  OBVIOUS
<1>1. Cardinality(Stale) = 0
  BY EmptyWindow DEF Init, Stale
<1>2. TypeOK
  BY TypeInit
<1> QED BY <1>1, <1>2, StaleCounts DEF StaleInv, Init, Serving

(* No step but a request's, a restart and the loading of a challenger       *)
(* touches the count, and none but the loading begins to serve.            *)
LEMMA StaleStep ==
  ASSUME TypeOK, TypeOK', StopInv, StaleInv, [Next]_vars
  PROVE  StaleInv'
<1>0. /\ Cardinality(Stale) \in Nat /\ Cardinality(InFlight) \in Nat
      /\ Cardinality(Requests) \in Nat /\ Cardinality(InFlight) <= Cardinality(Requests)
  BY StaleCounts
<1>0p. /\ Cardinality(Stale)' \in Nat /\ Cardinality(InFlight)' \in Nat
       /\ Cardinality(InFlight)' <= Cardinality(Requests)
  <2>1. (/\ Cardinality(Stale) \in Nat /\ Cardinality(InFlight) \in Nat
         /\ Cardinality(InFlight) <= Cardinality(Requests))'
    BY StaleCounts, PTL
  <2> QED BY <2>1
<1> USE DEF StaleInv
<1>1. CASE records' = records /\ loaded' = loaded /\ request' = request
           /\ (state' \in Serving => state \in Serving)
  BY <1>0, <1>1 DEF Stale, InFlight
<1>2. CASE records' = <<>>
  BY <1>0, <1>0p, <1>2, EmptyWindow DEF Stale
<1>3. ASSUME NEW r \in Requests, RequestAssign(r) PROVE StaleInv'
  <2>1. UNCHANGED <<state, loaded, records>>
    BY <1>3 DEF RequestAssign, Serve, control, session
  <2>2. InFlight' = InFlight
    BY <1>3, <2>1 DEF RequestAssign, Serve, InFlight, TypeOK
  <2> QED BY <1>0, <2>1, <2>2 DEF Stale
<1>4. ASSUME NEW r \in Requests, RequestScore(r) PROVE StaleInv'
  <2>1. UNCHANGED <<state, loaded, records>>
    BY <1>4 DEF RequestScore, Serve, control, session
  <2>2. state \in Serving => InFlight' = InFlight
    BY <1>4, <2>1 DEF RequestScore, Serve, InFlight, TypeOK
  <2> QED BY <1>0, <2>1, <2>2 DEF Stale
<1>5. ASSUME NEW r \in Requests, RequestRaises(r) PROVE StaleInv'
  <2>1. UNCHANGED <<state, loaded, records>>
    BY <1>5 DEF RequestRaises, Serve, control, session
  <2>2. InFlight' = InFlight \ {r}
    BY <1>5, <2>1 DEF RequestRaises, Serve, InFlight, TypeOK, NoRequest
  <2>3. Cardinality(InFlight') <= Cardinality(InFlight)
    <3>1. Cardinality(InFlight \ {r}) \in {Cardinality(InFlight), Cardinality(InFlight) - 1}
      BY StaleCounts, FS_RemoveElement
    <3> QED BY <1>0, <2>2, <3>1
  <2> QED BY <1>0, <1>0p, <2>1, <2>3 DEF Stale
<1>6. ASSUME NEW r \in Requests, NEW m \in Measurements, RequestRecord(r, m) PROVE StaleInv'
  <2>1. UNCHANGED <<state, loaded>> /\ request[r].pc = "scored"
    BY <1>6 DEF RequestRecord, Serve, control, session
  <2>2. InFlight' = InFlight \ {r}
    BY <1>6, <2>1 DEF RequestRecord, Serve, InFlight, TypeOK, NoRequest
  <2>3. Cardinality(InFlight') =
           IF request[r].version # loaded THEN Cardinality(InFlight) - 1 ELSE Cardinality(InFlight)
    <3>1. r \in InFlight <=> request[r].version # loaded
      BY <2>1 DEF InFlight
    <3> QED BY <2>2, <3>1, StaleCounts, FS_RemoveElement
  <2>4. CASE state \notin Serving
    BY <1>0, <1>6, <2>1, <2>4 DEF RequestRecord, Stale
  <2>5. CASE state \in Serving
    <3>1. records' = AppendToWindow(records, Record(r, m))
      BY <1>6, <2>5 DEF RequestRecord
    <3>2. Record(r, m) \in CanaryRecord /\ Record(r, m).version = request[r].version
      BY RecordIsWellFormed DEF TypeOK, Record
    <3>3. /\ Cardinality(Stale') <= Cardinality(Stale) + 1
          /\ request[r].version = loaded => Cardinality(Stale') <= Cardinality(Stale)
      BY <2>1, <3>1, <3>2, WindowStale DEF TypeOK, Stale
    <3> QED BY <1>0, <1>0p, <2>1, <2>3, <2>5, <3>3
  <2> QED BY <2>4, <2>5
<1>7. CASE Restart \/ RefreshLoads
  BY <1>2, <1>7 DEF Restart, RefreshLoads
<1>8. CASE UNCHANGED vars \/ OperatorMoves \/ Loop
  BY <1>1, <1>8 DEF vars, OperatorMoves, Loop, LoopSyncs, LoopSwaps, aliases, runtime, session,
     control, bounds, others
<1>9. CASE Control /\ ~RefreshLoads
  <2> USE DEF aliases, runtime, session, control, bounds, others, Goto, Serving
  <2>1. CASE WakeToRefresh \/ WakeToEvaluate \/ RefreshSync \/ RefreshUnchanged
    BY <1>1, <2>1 DEF WakeToRefresh, WakeToEvaluate, WakeTo, RefreshSync, RefreshUnchanged
  <2>2. CASE RefreshFails \/ Evaluate \/ StopCanary
    BY <1>1, <2>2 DEF RefreshFails, Evaluate, StopCanary
  <2>3. CASE PromoteBegin \/ PromoteCheck \/ PromoteSetChampion \/ PromoteDropChallenger
             \/ PromoteRaises \/ PromoteFailed
    BY <1>1, <2>3 DEF PromoteBegin, PromoteCheck, PromoteSetChampion, PromoteDropChallenger,
       PromoteRaises, PromoteFailed
  <2>4. CASE ReloadRead \/ ReloadSwap \/ PromoteDone
    BY <1>1, <2>4 DEF ReloadRead, ReloadSwap, PromoteDone
  <2> QED BY <1>9, <2>1, <2>2, <2>3, <2>4 DEF Control
<1> QED BY <1>3, <1>4, <1>5, <1>6, <1>7, <1>8, <1>9 DEF Next, Completed

(* However requests overlap with the replacement of a challenger, the       *)
(* records of another version in its window are no more than the requests   *)
(* the server handles at once (lines 272 and 302).                         *)
THEOREM StaleEvidenceStaysBounded == Spec => []StaleEvidenceIsBounded
<1>1. TypeOK /\ StaleInv => StaleEvidenceIsBounded
  <2> SUFFICES ASSUME StaleInv PROVE StaleEvidenceIsBounded
    OBVIOUS
  <2>1. HowMany(records, LAMBDA m : m.version # loaded) = Cardinality(Stale)
    BY DEF HowMany, Stale, StaleIn
  <2> QED BY <2>1 DEF StaleInv, StaleEvidenceIsBounded
<1>2. TypeOK /\ TypeOK' /\ StopInv /\ StaleInv /\ [Next]_vars => StaleInv'
  BY StaleStep
<1> QED BY <1>1, <1>2, StaleInit, StopInit, StopStep, TypeCorrect, PTL DEF Spec

-----------------------------------------------------------------------------
(* What a verdict rests on: the comparisons of an evaluation that passes,   *)
(* less the stale ones.  The promotion that follows it keeps the verdict.  *)
VerdictInv ==
    pc \in {"promote_begin", "promote_check", "promote_set_champion"} =>
        verdict >= Limits.minRequests - Cardinality(Requests)

LEMMA PassHasEvidence ==
  ASSUME TypeOK, StaleInv, Decision(records, Limits) = "PASS"
  PROVE  OwnComparisons >= Limits.minRequests - Cardinality(Requests)
<1> DEFINE compared == {i \in DOMAIN records : IsComparison(records[i])}
           own == {i \in DOMAIN records : records[i].version = loaded /\ IsComparison(records[i])}
<1>1. Cardinality(compared) >= Limits.minRequests
  <2>1. Comparisons(records) = Cardinality(compared)
    BY DEF Comparisons, HowMany
  <2> HIDE DEF compared
  <2> QED BY <2>1 DEF Decision, EnoughEvidence
<1>2. OwnComparisons = Cardinality(own)
  BY DEF OwnComparisons, HowMany
<1>3. /\ IsFiniteSet(compared) /\ Cardinality(compared) \in Nat
      /\ IsFiniteSet(own) /\ Cardinality(own) \in Nat
      /\ IsFiniteSet(Stale) /\ Cardinality(Stale) \in Nat
  BY WindowIsFinite, StaleCounts DEF TypeOK
<1>4. compared \subseteq own \union Stale
  BY DEF Stale, StaleIn
<1> HIDE DEF compared, own
<1>5. /\ IsFiniteSet(own \union Stale)
      /\ Cardinality(own \union Stale) = Cardinality(own) + Cardinality(Stale) - Cardinality(own \cap Stale)
  BY <1>3, FS_Union
<1>6. /\ Cardinality(own \cap Stale) \in Nat /\ Cardinality(own \union Stale) \in Nat
      /\ Cardinality(compared) <= Cardinality(own \union Stale)
  BY <1>3, <1>4, <1>5, FS_Subset, FS_CardinalityType
<1>7. Cardinality(Requests) \in Nat /\ Limits.minRequests \in Nat /\ Cardinality(Stale) <= Cardinality(Requests)
  BY StaleCounts, CanaryConstants DEF StaleInv
<1> QED BY <1>1, <1>2, <1>3, <1>5, <1>6, <1>7

LEMMA VerdictStep ==
  ASSUME TypeOK, StaleInv, VerdictInv, [Next]_vars
  PROVE  VerdictInv'
<1> USE DEF VerdictInv, aliases, runtime, session, control, bounds, others, Goto
<1>1. CASE Evaluate
  BY <1>1, PassHasEvidence DEF Evaluate
<1>2. CASE UNCHANGED vars \/ OperatorMoves \/ Loop \/ Restart
  BY <1>2 DEF vars, OperatorMoves, Loop, LoopSyncs, LoopSwaps, Restart, Rebooted, Reset
<1>3. CASE WakeToRefresh \/ WakeToEvaluate \/ RefreshSync \/ RefreshUnchanged \/ RefreshFails
           \/ RefreshLoads \/ StopCanary
  BY <1>3 DEF WakeToRefresh, WakeToEvaluate, WakeTo, RefreshSync, RefreshUnchanged, RefreshFails,
     RefreshLoads, BeginCanary, StopCanary
<1>4. CASE PromoteBegin \/ PromoteCheck \/ PromoteSetChampion \/ PromoteDropChallenger
           \/ PromoteRaises \/ PromoteFailed
  BY <1>4 DEF PromoteBegin, PromoteCheck, PromoteSetChampion, PromoteDropChallenger,
     PromoteRaises, PromoteFailed
<1>5. CASE ReloadRead \/ ReloadSwap \/ PromoteDone
  BY <1>5 DEF ReloadRead, ReloadSwap, PromoteDone
<1>6. ASSUME NEW r \in Requests, Completed(r) \/ RequestRaises(r) PROVE VerdictInv'
  BY <1>6 DEF Completed, RequestAssign, RequestScore, RequestRecord, RequestRaises, Serve
<1> QED BY <1>1, <1>2, <1>3, <1>4, <1>5, <1>6 DEF Next, Control

(* The champion alias moves only on comparisons of the version promoted,    *)
(* but for as many as the server handles requests at once.                 *)
THEOREM PromotionsRestOnEvidence == Spec => []PromotionRestsOnEvidence
<1>1. Init => VerdictInv
  BY DEF Init, VerdictInv
<1>2. VerdictInv => PromotionRestsOnEvidence
  BY DEF VerdictInv, PromotionRestsOnEvidence
<1>3. TypeOK /\ TypeOK' /\ StopInv /\ StaleInv /\ [Next]_vars => StaleInv'
  BY StaleStep
<1>4. TypeOK /\ StaleInv /\ VerdictInv /\ [Next]_vars => VerdictInv'
  BY VerdictStep
<1> QED BY <1>1, <1>2, <1>3, <1>4, StaleInit, StopInit, StopStep, TypeCorrect, PTL DEF Spec

=============================================================================
