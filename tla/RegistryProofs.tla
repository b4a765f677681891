--------------------------- MODULE RegistryProofs ---------------------------
(***************************************************************************)
(* Proofs about Registry, for any number of operators and versions.        *)
(***************************************************************************)
EXTENDS Registry, TLAPS

(* The local variables of an operation: the initial ones are well formed,  *)
(* and so are those in which one field was replaced.                       *)
LEMMA LocalsFacts ==
  ASSUME NEW n \in Nat
  PROVE  /\ NoLocals \in Locals(n)
         /\ Locals(n) \subseteq Locals(n + 1)
         /\ \A l \in Locals(n) : l.expected \in 0..n /\ l.target \in 0..n /\ l.other \in 0..n
         /\ \A l \in Locals(n), v \in 0..n :
               /\ [l EXCEPT !.expected = v] \in Locals(n)
               /\ [l EXCEPT !.target = v] \in Locals(n)
               /\ [l EXCEPT !.other = v] \in Locals(n)
  BY DEF NoLocals, Locals, NoVersion

LEMMA TypeInit == Init => TypeOK
<1> SUFFICES ASSUME Init PROVE TypeOK
  OBVIOUS
<1> USE DEF Init
<1>1. registered \in 0..MaxVersion /\ gate \in [Versions -> BOOLEAN]
  BY ConstantsAssumption DEF Versions
<1>2. alias \in [Aliases -> 0..registered]
  BY DEF NoVersion
<1>3. /\ lifecycle \in [Versions -> LifecycleTags]
      /\ validation \in [Versions -> ValidationTags]
  BY DEF LifecycleTags, ValidationTags
<1>4. work \in [Operators -> Locals(registered)]
  BY LocalsFacts
<1> QED BY <1>1, <1>2, <1>3, <1>4 DEF TypeOK

LEMMA TypeStep == TypeOK /\ [Next]_vars => TypeOK'
<1> SUFFICES ASSUME TypeOK, [Next]_vars PROVE TypeOK'
  OBVIOUS
<1> USE ConstantsAssumption DEF TypeOK, NoVersion, Aliases,
     Goto, Begin, Continue, Finish, Remember, Abandon, SetAlias, TagLifecycle, TagValidation, aliases, tags,
     LifecycleTags, ValidationTags, RegisterSteps, PromoteSteps, RollbackSteps
<1>0. /\ registered \in Nat
      /\ NoLocals \in Locals(registered)
      /\ \A o \in Operators : /\ work[o] \in Locals(registered)
                              /\ work[o].target \in 0..registered
                              /\ work[o].other \in 0..registered
      /\ \A o \in Operators, v \in 0..registered :
            /\ [work[o] EXCEPT !.target = v] \in Locals(registered)
            /\ [work[o] EXCEPT !.other = v] \in Locals(registered)
  <2>1. registered \in Nat
    OBVIOUS
  <2>2. \A o \in Operators : work[o] \in Locals(registered)
    OBVIOUS
  <2> HIDE DEF TypeOK
  <2> QED BY <2>1, <2>2, LocalsFacts
<1>1. CASE UNCHANGED vars
  BY <1>1 DEF vars
<1>2. ASSUME NEW o \in Operators, RegisterNext(o) PROVE TypeOK'
  <2>1. CASE \E passes \in BOOLEAN : RegisterCreate(o, passes)
    <3>1. PICK passes \in BOOLEAN : RegisterCreate(o, passes)
      BY <1>0, <2>1
    <3>2. registered' \in 0..MaxVersion /\ registered + 1 \in Versions
      BY <3>1 DEF RegisterCreate, Versions
    <3>3. gate' \in [Versions -> BOOLEAN]
      BY <3>1 DEF RegisterCreate
    <3>4. alias' \in [Aliases -> 0..registered']
      BY <3>1, <1>0 DEF RegisterCreate
    <3>5. work' \in [Operators -> Locals(registered')]
      <4>1. [NoLocals EXCEPT !.target = registered + 1] \in Locals(registered + 1)
        <5>1. registered + 1 \in Nat /\ registered + 1 \in 0..(registered + 1)
          BY <1>0
        <5> HIDE DEF TypeOK
        <5> QED BY <5>1, LocalsFacts
      <4>2. Locals(registered) \subseteq Locals(registered + 1)
        BY <1>0, LocalsFacts
      <4> QED BY <3>1, <4>1, <4>2 DEF RegisterCreate
    <3> QED BY <3>1, <3>2, <3>3, <3>4, <3>5 DEF RegisterCreate
  <2>2. CASE RegisterTagValidation(o)
    BY <1>0, <2>2 DEF RegisterTagValidation
  <2>3. CASE RegisterTagLifecycle(o)
    BY <1>0, <2>3 DEF RegisterTagLifecycle
  <2>4. CASE RegisterSetAlias(o)
    BY <1>0, <2>4 DEF RegisterSetAlias
  <2> QED BY <1>2, <2>1, <2>2, <2>3, <2>4 DEF RegisterNext
<1>3. ASSUME NEW o \in Operators, PromoteNext(o) PROVE TypeOK'
  <2>1. CASE \E v \in Versions :
               PromoteCanary(o, v) \/ \E expected \in 0..MaxVersion : PromoteCli(o, v, expected)
    <3>1. PICK v \in Versions, expected \in 0..MaxVersion :
             PromoteCanary(o, v) \/ PromoteCli(o, v, expected)
      BY <2>1
    <3>2. CASE PromoteCanary(o, v)
      <4>1. v \in 0..registered
        BY <3>2, <1>0 DEF PromoteCanary, Versions
      <4>2. [NoLocals EXCEPT !.expected = v] \in Locals(registered)
        BY <4>1, <1>0, LocalsFacts
      <4> QED BY <3>2, <4>2 DEF PromoteCanary
    <3>3. CASE PromoteCli(o, v, expected)
      <4>1. expected \in 0..registered
        BY <3>3, <1>0 DEF PromoteCli
      <4>2. [NoLocals EXCEPT !.expected = expected] \in Locals(registered)
        BY <4>1, <1>0, LocalsFacts
      <4> QED BY <3>3, <4>2 DEF PromoteCli
    <3> QED BY <3>1, <3>2, <3>3
  <2>2. CASE PromoteReadChallenger(o)
    BY <1>0, <2>2 DEF PromoteReadChallenger
  <2>3. CASE PromoteReadChampion(o)
    <3>1. alias["champion"] \in 0..registered
      BY <1>0
    <3>2. [work[o] EXCEPT !.other = alias["champion"]] \in Locals(registered)
      BY <1>0, <3>1
    <3> QED BY <2>3, <3>2 DEF PromoteReadChampion
  <2>4. CASE PromoteSetRollback(o)
    BY <1>0, <2>4 DEF PromoteSetRollback
  <2>5. CASE PromoteTagRetired(o)
    BY <1>0, <2>5 DEF PromoteTagRetired
  <2>6. CASE PromoteSetChampion(o)
    BY <1>0, <2>6 DEF PromoteSetChampion
  <2>7. CASE PromoteTagApproved(o)
    BY <1>0, <2>7 DEF PromoteTagApproved
  <2>8. CASE PromoteTagChampion(o)
    BY <1>0, <2>8 DEF PromoteTagChampion
  <2>9. CASE PromoteDropChallenger(o)
    BY <1>0, <2>9 DEF PromoteDropChallenger
  <2> QED BY <1>3, <2>1, <2>2, <2>3, <2>4, <2>5, <2>6, <2>7, <2>8, <2>9
          DEF PromoteNext, PromoteStep
<1>4. ASSUME NEW o \in Operators, RollbackNext(o) PROVE TypeOK'
  <2>1. CASE RollbackBegin(o)
    BY <1>0, <2>1 DEF RollbackBegin
  <2>2. CASE RollbackReadChampion(o)
    BY <1>0, <2>2 DEF RollbackReadChampion
  <2>3. CASE RollbackReadSafe(o)
    BY <1>0, <2>3 DEF RollbackReadSafe
  <2>4. CASE RollbackSetChampion(o)
    BY <1>0, <2>4 DEF RollbackSetChampion
  <2>5. CASE RollbackSetChallenger(o)
    BY <1>0, <2>5 DEF RollbackSetChallenger
  <2>6. CASE RollbackTagFailed(o)
    BY <1>0, <2>6 DEF RollbackTagFailed
  <2>7. CASE RollbackTagQuarantined(o)
    BY <1>0, <2>7 DEF RollbackTagQuarantined
  <2>8. CASE RollbackTagRestored(o)
    BY <1>0, <2>8 DEF RollbackTagRestored
  <2> QED BY <1>4, <2>1, <2>2, <2>3, <2>4, <2>5, <2>6, <2>7, <2>8 DEF RollbackNext
<1>5. ASSUME NEW o \in Operators, Reject(o) \/ LookupFails(o) \/ Fail(o) PROVE TypeOK'
  <2>1. CASE Reject(o)
    BY <1>0, <2>1 DEF Reject
  <2>2. CASE Fail(o)
    BY <1>0, <2>2 DEF Fail
  <2>3. CASE LookupFails(o)
    <3>1. [work[o] EXCEPT !.other = 0] \in Locals(registered)
      <4>1. 0 \in 0..registered
        BY <1>0
      <4> QED BY <1>0, <4>1
    <3> QED BY <2>3, <3>1 DEF LookupFails
  <2> QED BY <1>5, <2>1, <2>2, <2>3
<1> QED BY <1>1, <1>2, <1>3, <1>4, <1>5 DEF Next

(* Registry's type invariant: aliases and the versions an operation holds  *)
(* are versions that exist (every action of lifecycle.py).                 *)
THEOREM TypeCorrect == Spec => []TypeOK
  BY TypeInit, TypeStep, PTL DEF Spec

-----------------------------------------------------------------------------
(* The gate: a version is "passed" once registered with a passing gate, and *)
(* stays so.  Every version an operation is about to put under champion or  *)
(* rollback has passed: that is what makes the property inductive.          *)

Passed(v) == v \in 1..registered /\ gate[v]

HoldsPassedVersions(o) ==
    /\ pc[o] = "promote_read_challenger" => Passed(work[o].expected)
    /\ pc[o] \in {"promote_read_champion", "promote_set_rollback", "promote_tag_retired",
                  "promote_set_champion", "rollback_set_champion"}
         => Passed(work[o].target)
    /\ pc[o] = "promote_set_rollback" => Passed(work[o].other)

GateInv ==
    /\ \A a \in {"champion", "rollback"} : alias[a] # NoVersion => Passed(alias[a])
    /\ \A o \in Operators : HoldsPassedVersions(o)

LEMMA GateInit == Init => GateInv
  BY DEF Init, GateInv, HoldsPassedVersions, Aliases

(* What has passed stays passed, and only its own step disturbs an operator. *)
LEMMA PassedIsStable ==
  ASSUME TypeOK, [Next]_vars, NEW v, Passed(v)
  PROVE  Passed(v)'
<1> USE ConstantsAssumption DEF TypeOK, Passed
<1>1. CASE registered' = registered /\ gate' = gate
  BY <1>1
<1>2. CASE \E o \in Operators, passes \in BOOLEAN : RegisterCreate(o, passes)
  <2>1. PICK o \in Operators, passes \in BOOLEAN : RegisterCreate(o, passes)
    BY <1>2
  <2>2. v \in Versions /\ v # registered + 1
    BY DEF Versions
  <2> QED BY <2>1, <2>2 DEF RegisterCreate
<1>3. \/ registered' = registered /\ gate' = gate
      \/ \E o \in Operators, passes \in BOOLEAN : RegisterCreate(o, passes)
  BY DEF Next, vars, RegisterNext, RegisterTagValidation, RegisterTagLifecycle, RegisterSetAlias,
     PromoteNext, PromoteStep, PromoteCanary, PromoteCli, PromoteReadChallenger,
     PromoteReadChampion, PromoteSetRollback, PromoteTagRetired, PromoteSetChampion,
     PromoteTagApproved, PromoteTagChampion, PromoteDropChallenger, Remember,
     RollbackNext, RollbackBegin, RollbackReadChampion, RollbackReadSafe, RollbackSetChampion,
     RollbackSetChallenger, RollbackTagFailed, RollbackTagQuarantined, RollbackTagRestored,
     Reject, LookupFails, Fail, Abandon, SetAlias, TagLifecycle, TagValidation, aliases
<1> QED BY <1>1, <1>2, <1>3

LEMMA GateStep ==
  ASSUME ~CliPromotions, TypeOK, GateInv, [Next]_vars
  PROVE  GateInv'
<1> USE DEF GateInv, HoldsPassedVersions, NoVersion, NoLocals,
     Goto, Begin, Continue, Finish, Remember, Abandon, SetAlias, TagLifecycle, TagValidation, aliases
<1>0. \A v : Passed(v) => Passed(v)'
  BY PassedIsStable
<1>t. /\ pc \in [Operators -> {"idle"} \union RegisterSteps \union PromoteSteps \union RollbackSteps]
      /\ work \in [Operators -> Locals(registered)]
      /\ alias \in [Aliases -> 0..registered]
      /\ "champion" \in Aliases /\ "rollback" \in Aliases /\ "challenger" \in Aliases
  BY DEF TypeOK, Aliases
<1> HIDE DEF Passed
<1>1. CASE UNCHANGED vars
  BY <1>0, <1>1 DEF vars
<1>2. ASSUME NEW o \in Operators, RegisterNext(o) PROVE GateInv'
  BY <1>0, <1>t, <1>2 DEF RegisterNext, RegisterCreate, RegisterTagValidation,
     RegisterTagLifecycle, RegisterSetAlias
<1>3. ASSUME NEW o \in Operators, PromoteNext(o) PROVE GateInv'
  <2>1. CASE \E v \in Versions :
               PromoteCanary(o, v) \/ \E expected \in 0..MaxVersion : PromoteCli(o, v, expected)
    <3>1. PICK v \in Versions : PromoteCanary(o, v)
      BY <2>1 DEF PromoteCli
    <3>2. Passed(v)
      BY <3>1, ConstantsAssumption DEF PromoteCanary, Passed, Versions, TypeOK
    <3> QED BY <1>0, <1>t, <3>1, <3>2 DEF PromoteCanary
  <2>2. CASE PromoteReadChallenger(o)
    <3>1. Passed(alias["challenger"])
      <4>1. Passed(work[o].expected)
        BY <2>2 DEF PromoteReadChallenger
      <4>2. work[o].expected # NoVersion
        BY <4>1, <1>t DEF Passed, TypeOK
      <4> QED BY <2>2, <4>1, <4>2 DEF PromoteReadChallenger, ChallengerIsExpected
    <3> QED BY <1>0, <1>t, <2>2, <3>1 DEF PromoteReadChallenger, Locals
  <2>3. CASE PromoteReadChampion(o)
    BY <1>0, <1>t, <2>3 DEF PromoteReadChampion, Locals
  <2>4. CASE PromoteSetRollback(o)
    BY <1>0, <1>t, <2>4 DEF PromoteSetRollback
  <2>5. CASE PromoteTagRetired(o)
    BY <1>0, <1>t, <2>5 DEF PromoteTagRetired
  <2>6. CASE PromoteSetChampion(o)
    BY <1>0, <1>t, <2>6 DEF PromoteSetChampion
  <2>7. CASE PromoteTagApproved(o) \/ PromoteTagChampion(o)
    BY <1>0, <1>t, <2>7 DEF PromoteTagApproved, PromoteTagChampion
  <2>8. CASE PromoteDropChallenger(o)
    BY <1>0, <1>t, <2>8 DEF PromoteDropChallenger
  <2> QED BY <1>3, <2>1, <2>2, <2>3, <2>4, <2>5, <2>6, <2>7, <2>8 DEF PromoteNext, PromoteStep
<1>4. ASSUME NEW o \in Operators, RollbackNext(o) PROVE GateInv'
  <2>1. CASE RollbackBegin(o)
    BY <1>0, <1>t, <2>1 DEF RollbackBegin
  <2>2. CASE RollbackReadChampion(o)
    BY <1>0, <1>t, <2>2 DEF RollbackReadChampion
  <2>3. CASE RollbackReadSafe(o)
    BY <1>0, <1>t, <2>3 DEF RollbackReadSafe, SafeIsAnother, Locals
  <2>4. CASE RollbackSetChampion(o)
    BY <1>0, <1>t, <2>4 DEF RollbackSetChampion
  <2>5. CASE RollbackSetChallenger(o)
    BY <1>0, <1>t, <2>5 DEF RollbackSetChallenger
  <2>6. CASE RollbackTagFailed(o) \/ RollbackTagQuarantined(o) \/ RollbackTagRestored(o)
    BY <1>0, <1>t, <2>6 DEF RollbackTagFailed, RollbackTagQuarantined, RollbackTagRestored
  <2> QED BY <1>4, <2>1, <2>2, <2>3, <2>4, <2>5, <2>6 DEF RollbackNext
<1>5. ASSUME NEW o \in Operators, Reject(o) \/ LookupFails(o) \/ Fail(o) PROVE GateInv'
  BY <1>0, <1>t, <1>5 DEF Reject, LookupFails, Fail, Locals
<1> QED BY <1>1, <1>2, <1>3, <1>4, <1>5 DEF Next

(* When every promotion names the version its gate was written for, only   *)
(* versions whose own gate passed are ever champion or rollback, for any   *)
(* number of concurrent operators, with any call failing at any time.      *)
THEOREM GateSafety ==
  ASSUME ~CliPromotions
  PROVE  Spec => []ServedVersionsPassedTheirGate
<1>1. Init => GateInv
  BY GateInit
<1>2. TypeOK /\ GateInv /\ [Next]_vars => GateInv'
  BY GateStep
<1>3. GateInv => ServedVersionsPassedTheirGate
  BY DEF GateInv, ServedVersionsPassedTheirGate, Passed
<1> QED BY <1>1, <1>2, <1>3, TypeCorrect, PTL DEF Spec

-----------------------------------------------------------------------------
(* What has served: whatever is champion has, so has what an operator reads  *)
(* of champion to put it under rollback, and what it reads of rollback to   *)
(* restore it; nobody needs champion to be still where it was read.        *)

HoldsServedVersions(o) ==
    /\ pc[o] = "promote_set_rollback" => work[o].other \in released
    /\ pc[o] = "rollback_set_champion" => work[o].target \in released

ServedInv ==
    /\ \A a \in {"champion", "rollback"} : alias[a] # NoVersion => alias[a] \in released
    /\ \A o \in Operators : HoldsServedVersions(o)

LEMMA ServedInit == Init => ServedInv
  BY DEF Init, ServedInv, HoldsServedVersions, Aliases

LEMMA ServedStep ==
  ASSUME TypeOK, ServedInv, [Next]_vars
  PROVE  ServedInv'
<1> USE DEF ServedInv, HoldsServedVersions, NoVersion, NoLocals,
     Goto, Begin, Continue, Finish, Remember, Abandon, SetAlias, TagLifecycle, TagValidation, aliases
<1>t. /\ pc \in [Operators -> {"idle"} \union RegisterSteps \union PromoteSteps \union RollbackSteps]
      /\ work \in [Operators -> Locals(registered)]
      /\ alias \in [Aliases -> 0..registered]
      /\ "champion" \in Aliases /\ "rollback" \in Aliases /\ "challenger" \in Aliases
  BY DEF TypeOK, Aliases
<1>1. CASE UNCHANGED vars
  BY <1>1 DEF vars
<1>2. ASSUME NEW o \in Operators, RegisterNext(o) PROVE ServedInv'
  BY <1>t, <1>2 DEF RegisterNext, RegisterCreate, RegisterTagValidation,
     RegisterTagLifecycle, RegisterSetAlias
<1>3. ASSUME NEW o \in Operators, PromoteNext(o) PROVE ServedInv'
  <2>1. CASE \E v \in Versions :
               PromoteCanary(o, v) \/ \E expected \in 0..MaxVersion : PromoteCli(o, v, expected)
    BY <1>t, <2>1 DEF PromoteCanary, PromoteCli
  <2>2. CASE PromoteReadChallenger(o)
    BY <1>t, <2>2 DEF PromoteReadChallenger, Locals
  <2>3. CASE PromoteReadChampion(o)
    BY <1>t, <2>3 DEF PromoteReadChampion, Locals
  <2>4. CASE PromoteSetRollback(o)
    BY <1>t, <2>4 DEF PromoteSetRollback
  <2>5. CASE PromoteTagRetired(o)
    BY <1>t, <2>5 DEF PromoteTagRetired
  <2>6. CASE PromoteSetChampion(o)
    BY <1>t, <2>6 DEF PromoteSetChampion
  <2>7. CASE PromoteTagApproved(o) \/ PromoteTagChampion(o)
    BY <1>t, <2>7 DEF PromoteTagApproved, PromoteTagChampion
  <2>8. CASE PromoteDropChallenger(o)
    BY <1>t, <2>8 DEF PromoteDropChallenger
  <2> QED BY <1>3, <2>1, <2>2, <2>3, <2>4, <2>5, <2>6, <2>7, <2>8 DEF PromoteNext, PromoteStep
<1>4. ASSUME NEW o \in Operators, RollbackNext(o) PROVE ServedInv'
  <2>1. CASE RollbackBegin(o) \/ RollbackReadChampion(o)
    BY <1>t, <2>1 DEF RollbackBegin, RollbackReadChampion
  <2>2. CASE RollbackReadSafe(o)
    BY <1>t, <2>2 DEF RollbackReadSafe, SafeIsAnother, Locals
  <2>3. CASE RollbackSetChampion(o)
    BY <1>t, <2>3 DEF RollbackSetChampion
  <2>4. CASE RollbackSetChallenger(o)
    BY <1>t, <2>4 DEF RollbackSetChallenger
  <2>5. CASE RollbackTagFailed(o) \/ RollbackTagQuarantined(o) \/ RollbackTagRestored(o)
    BY <1>t, <2>5 DEF RollbackTagFailed, RollbackTagQuarantined, RollbackTagRestored
  <2> QED BY <1>4, <2>1, <2>2, <2>3, <2>4, <2>5 DEF RollbackNext
<1>5. ASSUME NEW o \in Operators, Reject(o) \/ LookupFails(o) \/ Fail(o) PROVE ServedInv'
  BY <1>t, <1>5 DEF Reject, LookupFails, Fail, Locals
<1> QED BY <1>1, <1>2, <1>3, <1>4, <1>5 DEF Next

(* For any number of concurrent operators, with any call failing at any     *)
(* time: what a rollback restores has been champion before.                *)
THEOREM RollbacksRestoreWhatServed == Spec => []RecoveryTargetHasServed
<1>1. ServedInv => RecoveryTargetHasServed
  BY DEF ServedInv, HoldsServedVersions, RecoveryTargetHasServed
<1> QED BY <1>1, ServedInit, ServedStep, TypeCorrect, PTL DEF Spec

-----------------------------------------------------------------------------
(* One operator at a time: what a change of the champion relies on was true *)
(* when it was read, and still is, unless its lookup of champion failed.    *)

LoneOperator == \A o1, o2 \in Operators : o1 = o2

ReadsStillHold(o) ==
    /\ pc[o] \in {"promote_read_champion", "promote_set_rollback", "promote_tag_retired",
                  "promote_set_champion"}
         => alias["challenger"] = work[o].target
    /\ pc[o] = "promote_set_rollback"
         => alias["champion"] = work[o].other /\ work[o].other # work[o].target
    /\ pc[o] = "promote_tag_retired" => alias["rollback"] = alias["champion"]
    /\ pc[o] = "promote_set_champion"
         => \/ alias["champion"] \in {NoVersion, work[o].target, alias["rollback"]}
            \/ work[o].other = NoVersion
    /\ pc[o] = "rollback_set_champion" => alias["rollback"] = work[o].target

LoneInv == \A o \in Operators : ReadsStillHold(o)

LEMMA LoneInit == Init => LoneInv
  BY DEF Init, LoneInv, ReadsStillHold

LEMMA LoneStep ==
  ASSUME LoneOperator, TypeOK, LoneInv, [Next]_vars
  PROVE  LoneInv'
<1> USE DEF LoneInv, ReadsStillHold, NoVersion, Goto, Begin, Continue, Finish, Remember,
     Abandon, SetAlias, TagLifecycle, TagValidation, aliases
<1>t. /\ pc \in [Operators -> {"idle"} \union RegisterSteps \union PromoteSteps \union RollbackSteps]
      /\ work \in [Operators -> Locals(registered)]
      /\ alias \in [Aliases -> 0..registered]
      /\ "champion" \in Aliases /\ "rollback" \in Aliases /\ "challenger" \in Aliases
  BY DEF TypeOK, Aliases
<1>1. CASE UNCHANGED vars
  BY <1>1 DEF vars
<1>2. ASSUME NEW o \in Operators, RegisterNext(o) PROVE LoneInv'
  BY <1>t, <1>2, LoneOperator DEF LoneOperator, RegisterNext, RegisterCreate,
     RegisterTagValidation, RegisterTagLifecycle, RegisterSetAlias
<1>3. ASSUME NEW o \in Operators, PromoteNext(o) PROVE LoneInv'
  <2>1. CASE \E v \in Versions :
               PromoteCanary(o, v) \/ \E expected \in 0..MaxVersion : PromoteCli(o, v, expected)
    BY <1>t, <2>1 DEF LoneOperator, PromoteCanary, PromoteCli
  <2>2. CASE PromoteReadChallenger(o)
    BY <1>t, <2>2 DEF LoneOperator, PromoteReadChallenger, Locals
  <2>3. CASE PromoteReadChampion(o)
    BY <1>t, <2>3 DEF LoneOperator, PromoteReadChampion, Locals
  <2>4. CASE PromoteSetRollback(o)
    BY <1>t, <2>4 DEF LoneOperator, PromoteSetRollback
  <2>5. CASE PromoteTagRetired(o)
    BY <1>t, <2>5 DEF LoneOperator, PromoteTagRetired
  <2>6. CASE PromoteSetChampion(o)
    BY <1>t, <2>6 DEF LoneOperator, PromoteSetChampion
  <2>7. CASE PromoteTagApproved(o) \/ PromoteTagChampion(o)
    BY <1>t, <2>7 DEF LoneOperator, PromoteTagApproved, PromoteTagChampion
  <2>8. CASE PromoteDropChallenger(o)
    BY <1>t, <2>8 DEF LoneOperator, PromoteDropChallenger
  <2> QED BY <1>3, <2>1, <2>2, <2>3, <2>4, <2>5, <2>6, <2>7, <2>8 DEF PromoteNext, PromoteStep
<1>4. ASSUME NEW o \in Operators, RollbackNext(o) PROVE LoneInv'
  <2>1. CASE RollbackBegin(o) \/ RollbackReadChampion(o)
    BY <1>t, <2>1 DEF LoneOperator, RollbackBegin, RollbackReadChampion
  <2>2. CASE RollbackReadSafe(o)
    BY <1>t, <2>2 DEF LoneOperator, RollbackReadSafe, Locals
  <2>3. CASE RollbackSetChampion(o) \/ RollbackSetChallenger(o)
    BY <1>t, <2>3 DEF LoneOperator, RollbackSetChampion, RollbackSetChallenger
  <2>4. CASE RollbackTagFailed(o) \/ RollbackTagQuarantined(o) \/ RollbackTagRestored(o)
    BY <1>t, <2>4 DEF LoneOperator, RollbackTagFailed, RollbackTagQuarantined, RollbackTagRestored
  <2> QED BY <1>4, <2>1, <2>2, <2>3, <2>4 DEF RollbackNext
<1>5. ASSUME NEW o \in Operators, Reject(o) \/ LookupFails(o) \/ Fail(o) PROVE LoneInv'
  BY <1>t, <1>5 DEF LoneOperator, Reject, LookupFails, Fail, Locals
<1> QED BY <1>1, <1>2, <1>3, <1>4, <1>5 DEF Next

(* Only two calls move the champion alias. *)
LEMMA ChampionMovers ==
  ASSUME TypeOK, [Next]_vars
  PROVE  \/ alias'["champion"] = alias["champion"]
         \/ \E o \in Operators : PromoteSetChampion(o) \/ RollbackSetChampion(o)
<1> USE DEF TypeOK, Aliases, SetAlias, TagLifecycle, TagValidation, aliases
<1>1. CASE UNCHANGED vars
  BY <1>1 DEF vars
<1>2. ASSUME NEW o \in Operators, RegisterNext(o) PROVE alias'["champion"] = alias["champion"]
  BY <1>2 DEF RegisterNext, RegisterCreate, RegisterTagValidation, RegisterTagLifecycle,
     RegisterSetAlias
<1>3. ASSUME NEW o \in Operators, PromoteNext(o), ~PromoteSetChampion(o)
      PROVE  alias'["champion"] = alias["champion"]
  BY <1>3 DEF PromoteNext, PromoteStep, PromoteCanary, PromoteCli, PromoteReadChallenger,
     PromoteReadChampion, PromoteSetRollback, PromoteTagRetired, PromoteTagApproved,
     PromoteTagChampion, PromoteDropChallenger, Remember
<1>4. ASSUME NEW o \in Operators, RollbackNext(o), ~RollbackSetChampion(o)
      PROVE  alias'["champion"] = alias["champion"]
  BY <1>4 DEF RollbackNext, RollbackBegin, RollbackReadChampion, RollbackReadSafe,
     RollbackSetChallenger, RollbackTagFailed, RollbackTagQuarantined, RollbackTagRestored,
     Remember
<1>5. ASSUME NEW o \in Operators, Reject(o) \/ LookupFails(o) \/ Fail(o)
      PROVE  alias'["champion"] = alias["champion"]
  BY <1>5 DEF Reject, LookupFails, Fail, Abandon, Remember
<1> QED BY <1>1, <1>2, <1>3, <1>4, <1>5 DEF Next

(* One operator at a time: wherever its calls fail, the champion alias      *)
(* never moves before the rollback alias holds the way back, unless the     *)
(* operator's lookup of the champion failed.                               *)
THEOREM ChampionKeepsAWayBack ==
  ASSUME LoneOperator
  PROVE  Spec => RollbackPrecedesChampion
<1>1. TypeOK /\ LoneInv /\ [Next]_vars =>
        [alias["champion"] \notin {NoVersion, alias'["champion"]}
           => \/ alias["rollback"] \in {alias["champion"], alias'["champion"]}
              \/ TookChampionForAbsent]_alias
  <2> SUFFICES ASSUME TypeOK, LoneInv, [Next]_vars,
                      alias["champion"] \notin {NoVersion, alias'["champion"]}
               PROVE  \/ alias["rollback"] \in {alias["champion"], alias'["champion"]}
                      \/ TookChampionForAbsent
    OBVIOUS
  <2>1. PICK o \in Operators : PromoteSetChampion(o) \/ RollbackSetChampion(o)
    BY ChampionMovers
  <2>2. alias'["champion"] = work[o].target
    BY <2>1 DEF TypeOK, Aliases, PromoteSetChampion, RollbackSetChampion, SetAlias
  <2> QED BY <2>1, <2>2 DEF LoneInv, ReadsStillHold, TookChampionForAbsent, PromoteSetChampion,
             RollbackSetChampion, Continue, Goto
<1> QED BY <1>1, LoneInit, LoneStep, TypeCorrect, PTL DEF Spec, RollbackPrecedesChampion

(* Only a promotion moves the rollback alias. *)
LEMMA RollbackMovers ==
  ASSUME TypeOK, [Next]_vars
  PROVE  \/ alias'["rollback"] = alias["rollback"]
         \/ \E o \in Operators : PromoteSetRollback(o)
<1> USE DEF TypeOK, Aliases, SetAlias, TagLifecycle, TagValidation, aliases
<1>1. CASE UNCHANGED vars
  BY <1>1 DEF vars
<1>2. ASSUME NEW o \in Operators, RegisterNext(o) PROVE alias'["rollback"] = alias["rollback"]
  BY <1>2 DEF RegisterNext, RegisterCreate, RegisterTagValidation, RegisterTagLifecycle,
     RegisterSetAlias
<1>3. ASSUME NEW o \in Operators, PromoteNext(o), ~PromoteSetRollback(o)
      PROVE  alias'["rollback"] = alias["rollback"]
  BY <1>3 DEF PromoteNext, PromoteStep, PromoteCanary, PromoteCli, PromoteReadChallenger,
     PromoteReadChampion, PromoteSetChampion, PromoteTagRetired, PromoteTagApproved,
     PromoteTagChampion, PromoteDropChallenger, Remember
<1>4. ASSUME NEW o \in Operators, RollbackNext(o)
      PROVE  alias'["rollback"] = alias["rollback"]
  BY <1>4 DEF RollbackNext, RollbackBegin, RollbackReadChampion, RollbackReadSafe,
     RollbackSetChampion, RollbackSetChallenger, RollbackTagFailed, RollbackTagQuarantined,
     RollbackTagRestored, Remember
<1>5. ASSUME NEW o \in Operators, Reject(o) \/ LookupFails(o) \/ Fail(o)
      PROVE  alias'["rollback"] = alias["rollback"]
  BY <1>5 DEF Reject, LookupFails, Fail, Abandon, Remember
<1> QED BY <1>1, <1>2, <1>3, <1>4, <1>5 DEF Next

(* One operator at a time: however often an interrupted promotion is       *)
(* repeated, the recovery target gives way only to a champion that another *)
(* version is about to replace.                                            *)
THEOREM RetriesAreSafe ==
  ASSUME LoneOperator
  PROVE  Spec => RetryKeepsRecoveryTarget
<1>1. TypeOK /\ LoneInv /\ [Next]_vars =>
        [alias["rollback"] # alias'["rollback"]
           => /\ alias'["rollback"] = alias["champion"]
              /\ alias["challenger"] # alias["champion"]]_alias
  <2> SUFFICES ASSUME TypeOK, LoneInv, [Next]_vars, alias["rollback"] # alias'["rollback"]
               PROVE  /\ alias'["rollback"] = alias["champion"]
                      /\ alias["challenger"] # alias["champion"]
    OBVIOUS
  <2>1. PICK o \in Operators : PromoteSetRollback(o)
    BY RollbackMovers
  <2>2. alias'["rollback"] = work[o].other
    BY <2>1 DEF TypeOK, Aliases, PromoteSetRollback, SetAlias
  <2> QED BY <2>1, <2>2 DEF LoneInv, ReadsStillHold, PromoteSetRollback, Continue, Goto
<1> QED BY <1>1, LoneInit, LoneStep, TypeCorrect, PTL DEF Spec, RetryKeepsRecoveryTarget

-----------------------------------------------------------------------------
(* What an operator is about to make champion is a version.                *)

TargetIsAVersion == \A o \in Operators :
    /\ pc[o] \in {"promote_read_champion", "promote_set_rollback", "promote_tag_retired",
                  "promote_set_champion", "promote_tag_approved", "promote_tag_champion",
                  "rollback_set_champion"}
         => work[o].target # NoVersion
    /\ pc[o] = "promote_set_rollback" => work[o].other # NoVersion

LEMMA TargetInit == Init => TargetIsAVersion
  BY DEF Init, TargetIsAVersion

LEMMA TargetStep ==
  ASSUME TypeOK, TargetIsAVersion, [Next]_vars
  PROVE  TargetIsAVersion'
<1> USE DEF TargetIsAVersion, NoVersion, Goto, Begin, Continue, Finish, Remember, Abandon
<1>t. /\ pc \in [Operators -> {"idle"} \union RegisterSteps \union PromoteSteps \union RollbackSteps]
      /\ work \in [Operators -> Locals(registered)]
  BY DEF TypeOK
<1>1. CASE UNCHANGED vars
  BY <1>1 DEF vars
<1>2. ASSUME NEW o \in Operators, RegisterNext(o) PROVE TargetIsAVersion'
  BY <1>t, <1>2 DEF RegisterNext, RegisterCreate, RegisterTagValidation, RegisterTagLifecycle,
     RegisterSetAlias
<1>3. ASSUME NEW o \in Operators, PromoteNext(o) PROVE TargetIsAVersion'
  <2>1. CASE PromoteReadChallenger(o)
    BY <1>t, <2>1 DEF PromoteReadChallenger, ChallengerIsExpected, Locals
  <2>2. CASE PromoteReadChampion(o)
    BY <1>t, <2>2 DEF PromoteReadChampion, Locals
  <2>3. CASE ~PromoteReadChallenger(o) /\ ~PromoteReadChampion(o)
    BY <1>t, <1>3, <2>3 DEF PromoteNext, PromoteStep, PromoteCanary, PromoteCli,
       PromoteSetRollback, PromoteTagRetired, PromoteSetChampion, PromoteTagApproved,
       PromoteTagChampion, PromoteDropChallenger
  <2> QED BY <2>1, <2>2, <2>3
<1>4. ASSUME NEW o \in Operators, RollbackNext(o) PROVE TargetIsAVersion'
  <2>1. CASE RollbackReadSafe(o)
    BY <1>t, <2>1 DEF RollbackReadSafe, SafeIsAnother, Locals
  <2>2. CASE ~RollbackReadSafe(o)
    BY <1>t, <1>4, <2>2 DEF RollbackNext, RollbackBegin, RollbackReadChampion,
       RollbackSetChampion, RollbackSetChallenger, RollbackTagFailed, RollbackTagQuarantined,
       RollbackTagRestored
  <2> QED BY <2>1, <2>2
<1>5. ASSUME NEW o \in Operators, Reject(o) \/ LookupFails(o) \/ Fail(o) PROVE TargetIsAVersion'
  BY <1>t, <1>5 DEF Reject, LookupFails, Fail, Locals
<1> QED BY <1>1, <1>2, <1>3, <1>4, <1>5 DEF Next

(* One operator at a time: what the followers of champion see of any        *)
(* sequence of releases, with failures and retries, is a line of releases   *)
(* each of which can be taken back.                                         *)
THEOREM RegistryImplementsReleaseLine ==
  ASSUME LoneOperator
  PROVE  Spec => ImplementsReleaseLine
<1> DEFINE inService == alias["champion"]
           putAside == alias["rollback"]
           blind == alias["champion"] # NoVersion /\ TookChampionForAbsent
<1>1. Init => Line!Init
  BY DEF Init, Line!Init, Line!None, NoVersion, Aliases
<1>2. TypeOK /\ LoneInv /\ TargetIsAVersion /\ [Next]_vars
        => [Line!Next]_<<inService, putAside, blind>>
  <2> SUFFICES ASSUME TypeOK, LoneInv, TargetIsAVersion, [Next]_vars
               PROVE  [Line!Next]_<<inService, putAside, blind>>
    OBVIOUS
  <2>t. /\ alias \in [Aliases -> 0..registered] /\ registered \in 0..MaxVersion
        /\ pc \in [Operators -> {"idle"} \union RegisterSteps \union PromoteSteps \union RollbackSteps]
        /\ \A o \in Operators : work[o].target \in 0..registered
    BY DEF TypeOK, Locals
  <2>1. CASE inService' = inService /\ putAside' = putAside
    <3>1. CASE blind'
      <4>1. inService # NoVersion
        BY <2>1, <3>1
      <4> QED BY <2>1, <3>1, <4>1 DEF Line!Next, Line!LoseSight, Line!None, NoVersion
    <3>2. CASE ~blind'
      BY <2>1, <3>2 DEF Line!Next, Line!GiveUp
    <3> QED BY <3>1, <3>2
  <2>2. ASSUME NEW o \in Operators, PromoteSetChampion(o), inService' # inService
        PROVE  Line!Replace
    <3>1. /\ inService' = work[o].target /\ putAside' = putAside
          /\ work[o].target # NoVersion
      BY <2>2, <2>t DEF PromoteSetChampion, Continue, Goto, SetAlias, Aliases, TargetIsAVersion
    <3>2. \/ inService \in {NoVersion, putAside}
          \/ TookChampionForAbsent
      BY <2>2, <3>1 DEF PromoteSetChampion, Continue, Goto, LoneInv, ReadsStillHold,
         TookChampionForAbsent
    <3>3. blind \/ inService \in {NoVersion, putAside}
      BY <3>2
    <3>4. inService' \in (1..MaxVersion) \ {inService}
      BY <2>2, <3>1, <2>t, ConstantsAssumption DEF NoVersion
    <3>5. ~TookChampionForAbsent'
      BY <2>2, <2>t DEF PromoteSetChampion, Continue, Goto, TookChampionForAbsent, LoneOperator
    <3> QED BY <3>1, <3>3, <3>4, <3>5 DEF Line!Replace, Line!Versions, Line!None, NoVersion
  <2>3. ASSUME NEW o \in Operators, RollbackSetChampion(o), inService' # inService
        PROVE  Line!Recover
    <3>1. /\ inService' = work[o].target /\ putAside' = putAside
          /\ work[o].target # NoVersion /\ putAside = work[o].target
      BY <2>3, <2>t DEF RollbackSetChampion, Continue, Goto, SetAlias, Aliases, LoneInv,
         ReadsStillHold, TargetIsAVersion
    <3>2. ~TookChampionForAbsent /\ ~TookChampionForAbsent'
      BY <2>3, <2>t DEF RollbackSetChampion, Continue, Goto, TookChampionForAbsent, LoneOperator
    <3>3. inService' = putAside /\ putAside \notin {NoVersion, inService} /\ (blind' <=> blind)
      BY <2>3, <3>1, <3>2
    <3> QED BY <3>1, <3>2, <3>3 DEF Line!Recover, Line!None, NoVersion
  <2>4. ASSUME NEW o \in Operators, PromoteSetRollback(o)
        PROVE  Line!PutAside
    <3>1. /\ inService' = inService /\ putAside' = inService /\ inService # NoVersion
      BY <2>4, <2>t DEF PromoteSetRollback, Continue, Goto, SetAlias, Aliases, LoneInv,
         ReadsStillHold, TargetIsAVersion
    <3>2. ~TookChampionForAbsent /\ ~TookChampionForAbsent'
      BY <2>4, <2>t DEF PromoteSetRollback, Continue, Goto, TookChampionForAbsent, LoneOperator
    <3> QED BY <3>1, <3>2 DEF Line!PutAside, Line!None, NoVersion
  <2> QED BY <2>1, <2>2, <2>3, <2>4, ChampionMovers, RollbackMovers DEF Line!Next
<1> QED BY <1>1, <1>2, LoneInit, LoneStep, TargetInit, TargetStep, TypeCorrect, PTL
        DEF Spec, ImplementsReleaseLine, Line!Spec

-----------------------------------------------------------------------------
(* One operator at a time, in a rollback: from the moment the champion      *)
(* alias moved, the aliases name what the operator holds, and the version   *)
(* that failed is another than the one restored.                           *)

RollbackKeepsApart(o) ==
    /\ pc[o] = "rollback_read_safe"
         => alias["champion"] = work[o].other /\ work[o].other # NoVersion
    /\ pc[o] = "rollback_set_champion"
         => alias["champion"] = work[o].other
    /\ pc[o] \in RollbackSteps \ {"rollback_read_champion", "rollback_read_safe"}
         => NoVersion # work[o].other /\ work[o].other # work[o].target
    /\ pc[o] \in {"rollback_set_challenger", "rollback_tag_failed", "rollback_tag_quarantined",
                  "rollback_tag_restored"}
         => alias["champion"] = work[o].target
    /\ pc[o] \in {"rollback_tag_failed", "rollback_tag_quarantined", "rollback_tag_restored"}
         => alias["challenger"] = work[o].other
    /\ pc[o] \in {"rollback_tag_quarantined", "rollback_tag_restored"}
         => validation[work[o].other] = "rolled_back"

RollbackInv == \A o \in Operators : RollbackKeepsApart(o)

LEMMA RollbackInit == Init => RollbackInv
  BY DEF Init, RollbackInv, RollbackKeepsApart, RollbackSteps

LEMMA RollbackStep ==
  ASSUME LoneOperator, TypeOK, RollbackInv, [Next]_vars
  PROVE  RollbackInv'
<1> USE DEF RollbackInv, RollbackKeepsApart, RollbackSteps, NoVersion, Goto, Begin, Continue, Finish,
     Remember, Abandon, SetAlias, TagLifecycle, TagValidation, aliases, tags
<1>t. /\ pc \in [Operators -> {"idle"} \union RegisterSteps \union PromoteSteps \union RollbackSteps]
      /\ work \in [Operators -> Locals(registered)]
      /\ alias \in [Aliases -> 0..registered]
      /\ "champion" \in Aliases /\ "rollback" \in Aliases /\ "challenger" \in Aliases
      /\ registered \in Nat /\ registered <= MaxVersion
      /\ validation \in [1..MaxVersion -> ValidationTags]
  BY ConstantsAssumption DEF TypeOK, Aliases, Versions
<1>v. \A o \in Operators : work[o].other \in Int /\ work[o].other <= MaxVersion /\ 0 <= work[o].other
  BY <1>t, ConstantsAssumption DEF Locals
<1>1. CASE UNCHANGED vars
  BY <1>1 DEF vars
<1>2. ASSUME NEW o \in Operators, RegisterNext(o) PROVE RollbackInv'
  BY <1>t, <1>2 DEF LoneOperator, RegisterNext, RegisterCreate, RegisterTagValidation,
     RegisterTagLifecycle, RegisterSetAlias
<1>3. ASSUME NEW o \in Operators, PromoteNext(o) PROVE RollbackInv'
  <2>1. CASE \E v \in Versions :
               PromoteCanary(o, v) \/ \E expected \in 0..MaxVersion : PromoteCli(o, v, expected)
    BY <1>t, <2>1 DEF LoneOperator, PromoteCanary, PromoteCli
  <2>2. CASE PromoteReadChallenger(o) \/ PromoteReadChampion(o)
    BY <1>t, <2>2 DEF LoneOperator, PromoteReadChallenger, PromoteReadChampion
  <2>3. CASE PromoteSetRollback(o) \/ PromoteTagRetired(o) \/ PromoteSetChampion(o)
    BY <1>t, <2>3 DEF LoneOperator, PromoteSetRollback, PromoteTagRetired, PromoteSetChampion
  <2>4. CASE PromoteTagApproved(o) \/ PromoteTagChampion(o) \/ PromoteDropChallenger(o)
    BY <1>t, <2>4 DEF LoneOperator, PromoteTagApproved, PromoteTagChampion, PromoteDropChallenger
  <2> QED BY <1>3, <2>1, <2>2, <2>3, <2>4 DEF PromoteNext, PromoteStep
<1>4. ASSUME NEW o \in Operators, RollbackNext(o) PROVE RollbackInv'
  <2>1. CASE RollbackBegin(o)
    BY <1>t, <2>1 DEF LoneOperator, RollbackBegin
  <2>2. CASE RollbackReadChampion(o)
    BY <1>t, <2>2 DEF LoneOperator, RollbackReadChampion, Locals
  <2>3. CASE RollbackReadSafe(o)
    BY <1>t, <2>3 DEF LoneOperator, RollbackReadSafe, SafeIsAnother, Locals
  <2>4. CASE RollbackSetChampion(o)
    BY <1>t, <2>4 DEF LoneOperator, RollbackSetChampion
  <2>5. CASE RollbackSetChallenger(o)
    BY <1>t, <2>5 DEF LoneOperator, RollbackSetChallenger
  <2>6. CASE RollbackTagFailed(o)
    BY <1>t, <1>v, <2>6, ConstantsAssumption DEF LoneOperator, RollbackTagFailed
  <2>7. CASE RollbackTagQuarantined(o)
    BY <1>t, <2>7 DEF LoneOperator, RollbackTagQuarantined
  <2>8. CASE RollbackTagRestored(o)
    BY <1>t, <2>8 DEF LoneOperator, RollbackTagRestored
  <2> QED BY <1>4, <2>1, <2>2, <2>3, <2>4, <2>5, <2>6, <2>7, <2>8 DEF RollbackNext
<1>5. ASSUME NEW o \in Operators, Reject(o) \/ LookupFails(o) \/ Fail(o) PROVE RollbackInv'
  BY <1>t, <1>5 DEF LoneOperator, Reject, LookupFails, Fail, Locals
<1> QED BY <1>1, <1>2, <1>3, <1>4, <1>5 DEF Next

(* One operator at a time: a rollback that reaches its last call has put    *)
(* another version in service and left the failed one quarantined.         *)
THEOREM RollbacksQuarantine ==
  ASSUME LoneOperator
  PROVE  Spec => []RollbackQuarantines
<1>1. RollbackInv => RollbackQuarantines
  BY DEF RollbackInv, RollbackKeepsApart, RollbackQuarantines, RollbackSteps
<1> QED BY <1>1, RollbackInit, RollbackStep, TypeCorrect, PTL DEF Spec

-----------------------------------------------------------------------------
(* The versions tagged as a champion, while one operator works and no call  *)
(* failed: those of the champion alias before a change begins, and a known  *)
(* set of at most one version at each call of the change.                  *)

ChampionTags == {"champion", "champion_after_rollback"}
Tagged(S) == \A v \in Versions : lifecycle[v] \in ChampionTags <=> v \in S
Champion == {alias["champion"]} \ {NoVersion}

(* What is not registered yet has no tag, and a registration's version is   *)
(* under no alias before its last call.                                    *)
FreshInv ==
    /\ \A v \in Versions : v > registered => lifecycle[v] = "unset"
    /\ \A o \in Operators : pc[o] \in RegisterSteps =>
           work[o].target \in Versions /\ work[o].target # alias["champion"]

TagsFollow(o) ==
    /\ pc[o] \in {"idle", "promote_read_challenger", "promote_read_champion", "promote_set_rollback",
                  "promote_tag_retired", "rollback_read_champion", "rollback_read_safe",
                  "rollback_set_champion"} \union RegisterSteps
         => Tagged(Champion)
    /\ pc[o] \in {"promote_set_rollback", "promote_tag_retired"}
         => alias["champion"] = work[o].other /\ work[o].other # work[o].target
    /\ pc[o] = "promote_set_champion"
         => Tagged({}) \/ Tagged({work[o].target})
    /\ pc[o] \in {"promote_tag_approved", "promote_tag_champion"}
         => /\ Tagged({}) \/ Tagged({work[o].target})
            /\ alias["champion"] = work[o].target
    /\ pc[o] = "promote_drop_challenger"
         => Tagged(Champion)
    /\ pc[o] \in {"rollback_set_challenger", "rollback_tag_failed", "rollback_tag_quarantined"}
         => Tagged({work[o].other})
    /\ pc[o] = "rollback_tag_restored"
         => Tagged({})

TagInv ==
    /\ FreshInv
    /\ ~interrupted => \A o \in Operators : TagsFollow(o)
    /\ Operators = {} => Tagged(Champion)

LEMMA TagInit == Init => TagInv
  BY ConstantsAssumption DEF Init, TagInv, FreshInv, TagsFollow, RegisterSteps, Tagged, ChampionTags, Champion,
     Versions, NoVersion, Aliases


(* Before its last call a registration's version is not in service.        *)
LEMMA FreshStep ==
  ASSUME LoneOperator, TypeOK, TargetIsAVersion, FreshInv, [Next]_vars
  PROVE  FreshInv'
<1> USE DEF FreshInv, RegisterSteps, NoVersion, Versions, Goto, Begin, Continue, Finish,
     Remember, Abandon, SetAlias, TagLifecycle, TagValidation, aliases, tags
<1>t. /\ pc \in [Operators -> {"idle"} \union RegisterSteps \union PromoteSteps \union RollbackSteps]
      /\ work \in [Operators -> Locals(registered)]
      /\ alias \in [Aliases -> 0..registered]
      /\ "champion" \in Aliases /\ "rollback" \in Aliases /\ "challenger" \in Aliases
      /\ registered \in Nat /\ registered <= MaxVersion /\ MaxVersion \in Nat
      /\ lifecycle \in [1..MaxVersion -> LifecycleTags]
  BY ConstantsAssumption DEF TypeOK, Aliases
<1>l. \A o \in Operators : /\ work[o].other \in 0..registered /\ work[o].target \in 0..registered
  BY <1>t DEF Locals
<1>1. CASE UNCHANGED vars
  BY <1>1 DEF vars
<1>2. ASSUME NEW o \in Operators, RegisterNext(o) PROVE FreshInv'
  <2>1. CASE \E passes \in BOOLEAN : RegisterCreate(o, passes)
    BY <1>t, <2>1 DEF LoneOperator, RegisterCreate, NoLocals
  <2>2. CASE RegisterTagValidation(o)
    BY <1>t, <2>2 DEF LoneOperator, RegisterTagValidation
  <2>3. CASE RegisterTagLifecycle(o)
    BY <1>t, <1>l, <2>3 DEF LoneOperator, RegisterTagLifecycle
  <2>4. CASE RegisterSetAlias(o)
    BY <1>t, <2>4 DEF LoneOperator, RegisterSetAlias
  <2> QED BY <1>2, <2>1, <2>2, <2>3, <2>4 DEF RegisterNext
<1>3. ASSUME NEW o \in Operators, PromoteNext(o) PROVE FreshInv'
  <2>1. CASE \E v \in Versions :
               PromoteCanary(o, v) \/ \E expected \in 0..MaxVersion : PromoteCli(o, v, expected)
    BY <1>t, <2>1 DEF LoneOperator, PromoteCanary, PromoteCli
  <2>2. CASE PromoteReadChallenger(o) \/ PromoteReadChampion(o)
    BY <1>t, <2>2 DEF LoneOperator, PromoteReadChallenger, PromoteReadChampion
  <2>3. CASE PromoteSetRollback(o) \/ PromoteSetChampion(o) \/ PromoteTagApproved(o) \/ PromoteDropChallenger(o)
    BY <1>t, <2>3 DEF LoneOperator, PromoteSetRollback, PromoteSetChampion, PromoteTagApproved,
       PromoteDropChallenger
  <2>4. CASE PromoteTagRetired(o) \/ PromoteTagChampion(o)
    BY <1>t, <1>l, <2>4 DEF LoneOperator, PromoteTagRetired, PromoteTagChampion
  <2> QED BY <1>3, <2>1, <2>2, <2>3, <2>4 DEF PromoteNext, PromoteStep
<1>4. ASSUME NEW o \in Operators, RollbackNext(o) PROVE FreshInv'
  <2>1. CASE RollbackBegin(o) \/ RollbackReadChampion(o) \/ RollbackReadSafe(o)
    BY <1>t, <2>1 DEF LoneOperator, RollbackBegin, RollbackReadChampion, RollbackReadSafe
  <2>2. CASE RollbackSetChampion(o) \/ RollbackSetChallenger(o) \/ RollbackTagFailed(o)
    BY <1>t, <2>2 DEF LoneOperator, RollbackSetChampion, RollbackSetChallenger, RollbackTagFailed
  <2>3. CASE RollbackTagQuarantined(o) \/ RollbackTagRestored(o)
    BY <1>t, <1>l, <2>3 DEF LoneOperator, RollbackTagQuarantined, RollbackTagRestored
  <2> QED BY <1>4, <2>1, <2>2, <2>3 DEF RollbackNext
<1>5. ASSUME NEW o \in Operators, Reject(o) \/ LookupFails(o) \/ Fail(o) PROVE FreshInv'
  BY <1>t, <1>5 DEF LoneOperator, Reject, LookupFails, Fail, Locals
<1> QED BY <1>1, <1>2, <1>3, <1>4, <1>5 DEF Next

LEMMA TagsStep ==
  ASSUME LoneOperator, TypeOK, LoneInv, RollbackInv, TargetIsAVersion, TagInv,
         [Next]_vars, ~interrupted'
  PROVE  \A o \in Operators : TagsFollow(o)'
<1> USE DEF TagsFollow, RegisterSteps, NoVersion, Versions, Champion, Tagged, ChampionTags,
     Goto, Begin, Continue, Finish, Remember, Abandon, SetAlias, TagLifecycle, TagValidation, aliases, tags
<1>t. /\ pc \in [Operators -> {"idle"} \union RegisterSteps \union PromoteSteps \union RollbackSteps]
      /\ work \in [Operators -> Locals(registered)]
      /\ alias \in [Aliases -> 0..registered]
      /\ "champion" \in Aliases /\ "rollback" \in Aliases /\ "challenger" \in Aliases
      /\ registered \in Nat /\ registered <= MaxVersion /\ MaxVersion \in Nat
      /\ lifecycle \in [1..MaxVersion -> LifecycleTags]
  BY ConstantsAssumption DEF TypeOK, Aliases
<1>l. \A o \in Operators : /\ work[o].other \in 0..MaxVersion /\ work[o].target \in 0..MaxVersion
                            /\ DOMAIN work[o] = {"expected", "target", "other"}
  BY <1>t DEF Locals
<1>i. ASSUME interrupted PROVE FALSE
  BY <1>i, ZenonT(60) DEF Next, vars, RegisterNext, RegisterCreate, RegisterTagValidation, RegisterTagLifecycle,
     RegisterSetAlias, PromoteNext, PromoteStep, PromoteCanary, PromoteCli, PromoteReadChallenger,
     PromoteReadChampion, PromoteSetRollback, PromoteTagRetired, PromoteSetChampion,
     PromoteTagApproved, PromoteTagChampion, PromoteDropChallenger,
     RollbackNext, RollbackBegin, RollbackReadChampion, RollbackReadSafe, RollbackSetChampion,
     RollbackSetChallenger, RollbackTagFailed, RollbackTagQuarantined, RollbackTagRestored,
     Reject, LookupFails, Fail
<1>f. \A o \in Operators : TagsFollow(o)
  BY <1>i DEF TagInv
<1>1. CASE UNCHANGED vars
  BY <1>f, <1>1 DEF vars
<1>2. ASSUME NEW o \in Operators, RegisterNext(o) PROVE TagsFollow(o)'
  <2>1. CASE \E passes \in BOOLEAN : RegisterCreate(o, passes)
    BY <1>f, <1>t, <2>1 DEF RegisterCreate
  <2>2. CASE RegisterTagValidation(o)
    BY <1>f, <1>t, <2>2 DEF RegisterTagValidation
  <2>3. CASE RegisterTagLifecycle(o)
    BY <1>f, <1>t, <1>l, <2>3 DEF RegisterTagLifecycle, TagInv, FreshInv
  <2>4. CASE RegisterSetAlias(o)
    BY <1>f, <1>t, <2>4 DEF RegisterSetAlias
  <2> QED BY <1>2, <2>1, <2>2, <2>3, <2>4 DEF RegisterNext
<1>3. ASSUME NEW o \in Operators, PromoteNext(o) PROVE TagsFollow(o)'
  <2>1. CASE \E v \in Versions :
               PromoteCanary(o, v) \/ \E expected \in 0..MaxVersion : PromoteCli(o, v, expected)
    BY <1>f, <1>t, <2>1 DEF PromoteCanary, PromoteCli
  <2>2. CASE PromoteReadChallenger(o)
    BY <1>f, <1>t, <2>2 DEF PromoteReadChallenger
  <2>3. CASE PromoteReadChampion(o)
    BY <1>f, <1>t, <1>l, <2>3 DEF PromoteReadChampion
  <2>4. CASE PromoteSetRollback(o)
    BY <1>f, <1>t, <2>4 DEF PromoteSetRollback
  <2>5. CASE PromoteTagRetired(o)
    <3>1. Tagged({})'
      BY <1>f, <1>t, <1>l, <2>5 DEF PromoteTagRetired
    <3> QED BY <1>t, <2>5, <3>1 DEF PromoteTagRetired
  <2>6. CASE PromoteSetChampion(o)
    BY <1>f, <1>t, <2>6 DEF PromoteSetChampion
  <2>7. CASE PromoteTagApproved(o)
    BY <1>f, <1>t, <2>7 DEF PromoteTagApproved
  <2>8. CASE PromoteTagChampion(o)
    <3>1. /\ work[o].target \in 1..MaxVersion /\ alias["champion"] = work[o].target
          /\ \A v \in 1..MaxVersion : lifecycle[v] \in ChampionTags => v = work[o].target
      BY <1>f, <1>l, <2>8 DEF PromoteTagChampion, TargetIsAVersion
    <3>2. Tagged(Champion)'
      BY <1>t, <2>8, <3>1 DEF PromoteTagChampion
    <3> QED BY <1>t, <2>8, <3>2 DEF PromoteTagChampion
  <2>9. CASE PromoteDropChallenger(o)
    BY <1>f, <1>t, <2>9 DEF PromoteDropChallenger
  <2> QED BY <1>3, <2>1, <2>2, <2>3, <2>4, <2>5, <2>6, <2>7, <2>8, <2>9 DEF PromoteNext, PromoteStep
<1>4. ASSUME NEW o \in Operators, RollbackNext(o) PROVE TagsFollow(o)'
  <2>1. CASE RollbackBegin(o) \/ RollbackReadChampion(o) \/ RollbackReadSafe(o)
    BY <1>f, <1>t, <2>1 DEF RollbackBegin, RollbackReadChampion, RollbackReadSafe
  <2>2. CASE RollbackSetChampion(o)
    BY <1>f, <1>t, <1>l, <2>2 DEF RollbackSetChampion, RollbackInv, RollbackKeepsApart, RollbackSteps
  <2>3. CASE RollbackSetChallenger(o) \/ RollbackTagFailed(o)
    BY <1>f, <1>t, <2>3 DEF RollbackSetChallenger, RollbackTagFailed
  <2>4. CASE RollbackTagQuarantined(o)
    BY <1>f, <1>t, <1>l, <2>4 DEF RollbackTagQuarantined
  <2>5. CASE RollbackTagRestored(o)
    BY <1>f, <1>t, <1>l, <2>5 DEF RollbackTagRestored, RollbackInv, RollbackKeepsApart, RollbackSteps
  <2> QED BY <1>4, <2>1, <2>2, <2>3, <2>4, <2>5 DEF RollbackNext
<1>5. ASSUME NEW o \in Operators, Reject(o) \/ LookupFails(o) \/ Fail(o) PROVE TagsFollow(o)'
  BY <1>f, <1>t, <1>5 DEF Reject, LookupFails, Fail, Locals
<1> QED BY <1>1, <1>2, <1>3, <1>4, <1>5 DEF Next, LoneOperator

(* One operator at a time, whenever it is done and no call failed: the      *)
(* lifecycle tags and the champion alias name the same version.            *)
THEOREM TagsTellTheAliases ==
  ASSUME LoneOperator
  PROVE  Spec => []TagsAgreeWithAliases
<1>1. Init => TagInv
  BY TagInit
<1>2. /\ TypeOK /\ LoneInv /\ RollbackInv /\ TargetIsAVersion /\ TagInv
      /\ [Next]_vars
      => TagInv'
  <2> SUFFICES ASSUME TypeOK, LoneInv, RollbackInv, TargetIsAVersion, TagInv, [Next]_vars
               PROVE  TagInv'
    OBVIOUS
  <2>1. FreshInv' /\ (~interrupted' => \A o \in Operators : TagsFollow(o)')
    BY FreshStep, TagsStep DEF TagInv
  <2>2. (Operators = {} => Tagged(Champion))'
    BY DEF TagInv, Next, vars, Tagged, Champion
  <2> QED BY <2>1, <2>2 DEF TagInv
<1>3. TypeOK /\ TagInv => TagsAgreeWithAliases
  <2> SUFFICES ASSUME TypeOK, TagInv, ~interrupted, \A o \in Operators : pc[o] = "idle"
               PROVE  {v \in Versions : lifecycle[v] \in ChampionTags} = Champion
    BY DEF TagsAgreeWithAliases, ChampionTags, Champion
  <2>1. Tagged(Champion)
    BY DEF TagInv, TagsFollow
  <2>2. Champion \subseteq Versions
    BY ConstantsAssumption DEF TypeOK, Champion, Aliases, Versions, NoVersion
  <2> QED BY <2>1, <2>2 DEF Tagged
<1> QED BY <1>1, <1>2, <1>3, LoneInit, LoneStep, RollbackInit, RollbackStep, TargetInit, TargetStep,
       TypeCorrect, PTL DEF Spec

=============================================================================
