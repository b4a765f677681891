------------------------------ MODULE Registry ------------------------------
(***************************************************************************)
(* The MLflow alias lifecycle of src/registry/lifecycle.py.                *)
(*                                                                         *)
(* Operators (the release CLI, the canary controller) register, promote    *)
(* and roll back model versions.  Every call to the registry server is a   *)
(* step of its own: other operators may run between two calls, and any     *)
(* call may raise, which abandons the operation where it stands (Fail).    *)
(* The checks the code makes itself raise through Reject.                  *)
(*                                                                         *)
(* Version 0 stands for "the alias is not set"; MLflow numbers the         *)
(* versions of a registered model 1, 2, 3, ...                             *)
(***************************************************************************)
EXTENDS Integers

CONSTANTS
    Operators,      \* the processes that change aliases
    MaxVersion,     \* bound on the number of versions ever registered
    CliPromotions   \* are there promotions whose gate may be another version's?

ASSUME ConstantsAssumption ==
    /\ MaxVersion \in Nat \ {0}
    /\ CliPromotions \in BOOLEAN

Versions == 1..MaxVersion
NoVersion == 0
Aliases == {"champion", "challenger", "rollback"}

LifecycleTags == {"unset", "challenger", "champion", "rollback_candidate",
                  "challenger_after_rollback", "champion_after_rollback"}
ValidationTags == {"unset", "passed", "review_required", "approved", "rolled_back"}

RegisterSteps == {"register_tag_validation", "register_tag_lifecycle", "register_set_alias"}
PromoteSteps  == {"promote_read_challenger", "promote_read_champion", "promote_set_rollback",
                  "promote_tag_retired", "promote_set_champion", "promote_tag_approved",
                  "promote_tag_champion", "promote_drop_challenger"}
RollbackSteps == {"rollback_read_champion", "rollback_read_safe", "rollback_set_champion",
                  "rollback_set_challenger", "rollback_tag_failed", "rollback_tag_quarantined",
                  "rollback_tag_restored"}

VARIABLES
    registered,     \* number of model versions created so far
    gate,           \* gate[v]: the promotion_gate.json released with v allows promotion
    alias,          \* alias[a]: version under alias a
    lifecycle,      \* lifecycle_status tag of each version
    validation,     \* validation_status tag of each version
    pc,             \* pc[o]: the registry call operator o makes next
    work,           \* work[o]: local variables of the operation in progress
    interrupted,    \* history, for the properties: has a remote call ever failed?
    released        \* history, for the properties: versions that have been champion

vars == <<registered, gate, alias, lifecycle, validation, pc, work, interrupted, released>>
aliases == <<alias, released>>
tags == <<lifecycle, validation>>

(* expected: expected_challenger_version; target: the version registered,  *)
(* promoted or restored; other: the champion read before the change.       *)
Locals(n) == [expected : 0..n, target : 0..n, other : 0..n]
NoLocals == [expected |-> NoVersion, target |-> NoVersion, other |-> NoVersion]

TypeOK ==
    /\ registered \in 0..MaxVersion
    /\ gate \in [Versions -> BOOLEAN]
    /\ alias \in [Aliases -> 0..registered]
    /\ lifecycle \in [Versions -> LifecycleTags]
    /\ validation \in [Versions -> ValidationTags]
    /\ pc \in [Operators -> {"idle"} \union RegisterSteps \union PromoteSteps \union RollbackSteps]
    /\ work \in [Operators -> Locals(registered)]
    /\ interrupted \in BOOLEAN
    /\ released \subseteq 1..registered

Init ==
    /\ registered = 0
    /\ gate = [v \in Versions |-> FALSE]
    /\ alias = [a \in Aliases |-> NoVersion]
    /\ lifecycle = [v \in Versions |-> "unset"]
    /\ validation = [v \in Versions |-> "unset"]
    /\ pc = [o \in Operators |-> "idle"]
    /\ work = [o \in Operators |-> NoLocals]
    /\ interrupted = FALSE
    /\ released = {}

-----------------------------------------------------------------------------
(* Moves of one operator's control.                                        *)

Goto(o, from, to) == pc[o] = from /\ pc' = [pc EXCEPT ![o] = to]

Begin(o, first, locals) ==
    /\ Goto(o, "idle", first)
    /\ work' = [work EXCEPT ![o] = locals]
    /\ UNCHANGED interrupted

Continue(o, from, to) == Goto(o, from, to) /\ UNCHANGED <<work, interrupted>>

(* The answer of a lookup is kept for the calls that follow. *)
Remember(o, from, to, locals) ==
    /\ Goto(o, from, to)
    /\ work' = [work EXCEPT ![o] = locals]
    /\ UNCHANGED <<registered, gate, aliases, tags>>

Finish(o, from) ==
    /\ Goto(o, from, "idle")
    /\ work' = [work EXCEPT ![o] = NoLocals]
    /\ UNCHANGED interrupted

Abandon(o) ==
    /\ pc' = [pc EXCEPT ![o] = "idle"]
    /\ work' = [work EXCEPT ![o] = NoLocals]
    /\ UNCHANGED <<registered, gate, aliases, tags>>

(* A remote call raises, or the process dies, at any step.  The call that  *)
(* took effect but whose answer was lost is the failure of the next step.  *)
Fail(o) ==
    /\ pc[o] # "idle"
    /\ Abandon(o)
    /\ interrupted' = TRUE

(* The calls that change the registry server's state, nothing else of it.  *)
SetAlias(a, v) ==
    /\ alias' = [alias EXCEPT ![a] = v]
    /\ released' = IF a = "champion" /\ v # NoVersion THEN released \union {v} ELSE released
    /\ UNCHANGED <<registered, gate, tags>>
TagLifecycle(v, t) ==
    lifecycle' = [lifecycle EXCEPT ![v] = t] /\ UNCHANGED <<registered, gate, aliases, validation>>
TagValidation(v, t) ==
    validation' = [validation EXCEPT ![v] = t] /\ UNCHANGED <<registered, gate, aliases, lifecycle>>

-----------------------------------------------------------------------------
(* register_release: create the version, tag it, point challenger to it.   *)
(* A gate that is not PASS does not stop a registration.                   *)

RegisterCreate(o, passes) ==
    /\ registered < MaxVersion
    /\ Begin(o, "register_tag_validation", [NoLocals EXCEPT !.target = registered + 1])
    /\ registered' = registered + 1
    /\ gate' = [gate EXCEPT ![registered + 1] = passes]
    /\ UNCHANGED <<aliases, tags>>

RegisterTagValidation(o) ==
    /\ Continue(o, "register_tag_validation", "register_tag_lifecycle")
    /\ TagValidation(work[o].target,
                     IF gate[work[o].target] THEN "passed" ELSE "review_required")

RegisterTagLifecycle(o) ==
    /\ Continue(o, "register_tag_lifecycle", "register_set_alias")
    /\ TagLifecycle(work[o].target, "challenger")

RegisterSetAlias_ahead(o) ==
    /\ Finish(o, "register_set_alias")
    /\ SetAlias("challenger", work[o].target + 1)

RegisterSetAlias(o) ==
    /\ Finish(o, "register_set_alias")
    /\ SetAlias("challenger", work[o].target)

-----------------------------------------------------------------------------
(* promote_challenger.  The gate is the one the caller passes: the canary  *)
(* passes the gate of the bundle it watched together with that bundle's    *)
(* version; the command line passes a file, and may name any version or    *)
(* none.  A gate that does not allow promotion ends the call at once.      *)

PromoteCanary(o, v) ==
    /\ v <= registered /\ gate[v]
    /\ Begin(o, "promote_read_challenger", [NoLocals EXCEPT !.expected = v])
    /\ UNCHANGED <<registered, gate, aliases, tags>>

PromoteCli(o, gateOf, expected) ==
    /\ CliPromotions
    /\ gateOf <= registered /\ gate[gateOf]
    /\ expected <= registered
    /\ Begin(o, "promote_read_challenger", [NoLocals EXCEPT !.expected = expected])
    /\ UNCHANGED <<registered, gate, aliases, tags>>

ChallengerIsExpected(o) ==
    /\ alias["challenger"] # NoVersion
    /\ work[o].expected # NoVersion => alias["challenger"] = work[o].expected

PromoteReadChallenger_unchecked(o) ==
    /\ alias["challenger"] # NoVersion
    /\ Remember(o, "promote_read_challenger", "promote_read_champion",
                [work[o] EXCEPT !.target = alias["challenger"]])
    /\ UNCHANGED interrupted

PromoteReadChallenger(o) ==
    /\ ChallengerIsExpected(o)
    /\ Remember(o, "promote_read_challenger", "promote_read_champion",
                [work[o] EXCEPT !.target = alias["challenger"]])
    /\ UNCHANGED interrupted

PromoteReadChampion_always_retires(o) ==
    /\ Remember(o, "promote_read_champion",
                IF alias["champion"] # NoVersion THEN "promote_set_rollback"
                                                 ELSE "promote_set_champion",
                [work[o] EXCEPT !.other = alias["champion"]])
    /\ UNCHANGED interrupted

PromoteReadChampion_never_retires(o) ==
    /\ Remember(o, "promote_read_champion", "promote_set_champion",
                [work[o] EXCEPT !.other = alias["champion"]])
    /\ UNCHANGED interrupted

PromoteReadChampion(o) ==
    /\ Remember(o, "promote_read_champion",
                IF alias["champion"] \notin {NoVersion, work[o].target}
                THEN "promote_set_rollback" ELSE "promote_set_champion",
                [work[o] EXCEPT !.other = alias["champion"]])
    /\ UNCHANGED interrupted

(* _alias: whatever the lookup raises, the champion counts as absent, and   *)
(* the promotion goes on.                                                  *)
LookupFails(o) ==
    /\ alias["champion"] # NoVersion
    /\ Remember(o, "promote_read_champion", "promote_set_champion",
                [work[o] EXCEPT !.other = NoVersion])
    /\ interrupted' = TRUE

PromoteSetRollback_the_new_one(o) ==
    /\ Continue(o, "promote_set_rollback", "promote_tag_retired")
    /\ SetAlias("rollback", work[o].target)

PromoteSetRollback(o) ==
    /\ Continue(o, "promote_set_rollback", "promote_tag_retired")
    /\ SetAlias("rollback", work[o].other)

PromoteTagRetired_skipped(o) ==
    /\ Continue(o, "promote_tag_retired", "promote_set_champion")
    /\ UNCHANGED <<registered, gate, aliases, tags>>

PromoteTagRetired(o) ==
    /\ Continue(o, "promote_tag_retired", "promote_set_champion")
    /\ TagLifecycle(work[o].other, "rollback_candidate")

PromoteSetChampion(o) ==
    /\ Continue(o, "promote_set_champion", "promote_tag_approved")
    /\ SetAlias("champion", work[o].target)

PromoteTagApproved(o) ==
    /\ Continue(o, "promote_tag_approved", "promote_tag_champion")
    /\ TagValidation(work[o].target, "approved")

PromoteTagChampion(o) ==
    /\ Continue(o, "promote_tag_champion", "promote_drop_challenger")
    /\ TagLifecycle(work[o].target, "champion")

PromoteDropChallenger_champion(o) ==
    /\ Finish(o, "promote_drop_challenger")
    /\ SetAlias("champion", NoVersion) \/ UNCHANGED <<registered, gate, aliases, tags>>

(* The delete is by alias name, and an exception from it is swallowed.     *)
PromoteDropChallenger(o) ==
    /\ Finish(o, "promote_drop_challenger")
    /\ SetAlias("challenger", NoVersion) \/ UNCHANGED <<registered, gate, aliases, tags>>

-----------------------------------------------------------------------------
(* rollback_champion.                                                      *)

RollbackBegin(o) ==
    /\ Begin(o, "rollback_read_champion", NoLocals)
    /\ UNCHANGED <<registered, gate, aliases, tags>>

RollbackReadChampion(o) ==
    /\ alias["champion"] # NoVersion
    /\ Remember(o, "rollback_read_champion", "rollback_read_safe",
                [work[o] EXCEPT !.other = alias["champion"]])
    /\ UNCHANGED interrupted

SafeIsAnother(o) == alias["rollback"] \notin {NoVersion, work[o].other}

RollbackReadSafe(o) ==
    /\ SafeIsAnother(o)
    /\ Remember(o, "rollback_read_safe", "rollback_set_champion",
                [work[o] EXCEPT !.target = alias["rollback"]])
    /\ UNCHANGED interrupted

RollbackSetChampion(o) ==
    /\ Continue(o, "rollback_set_champion", "rollback_set_challenger")
    /\ SetAlias("champion", work[o].target)

RollbackSetChallenger_swapped(o) ==
    /\ Continue(o, "rollback_set_challenger", "rollback_tag_failed")
    /\ SetAlias("challenger", work[o].target)

RollbackSetChallenger(o) ==
    /\ Continue(o, "rollback_set_challenger", "rollback_tag_failed")
    /\ SetAlias("challenger", work[o].other)

RollbackTagFailed(o) ==
    /\ Continue(o, "rollback_tag_failed", "rollback_tag_quarantined")
    /\ TagValidation(work[o].other, "rolled_back")

RollbackTagQuarantined(o) ==
    /\ Continue(o, "rollback_tag_quarantined", "rollback_tag_restored")
    /\ TagLifecycle(work[o].other, "challenger_after_rollback")

RollbackTagRestored(o) ==
    /\ Finish(o, "rollback_tag_restored")
    /\ TagLifecycle(work[o].target, "champion_after_rollback")

-----------------------------------------------------------------------------
(* The operation's own checks: an alias it needs is not set, the challenger *)
(* is not the expected version, or there is nothing to roll back to.       *)
Reject(o) ==
    /\ \/ pc[o] = "promote_read_challenger" /\ ~ChallengerIsExpected(o)
       \/ pc[o] = "rollback_read_champion" /\ alias["champion"] = NoVersion
       \/ pc[o] = "rollback_read_safe" /\ ~SafeIsAnother(o)
    /\ Abandon(o)
    /\ UNCHANGED interrupted

RegisterNext(o) ==
    \/ \E passes \in BOOLEAN : RegisterCreate(o, passes)
    \/ RegisterTagValidation(o) \/ RegisterTagLifecycle(o) \/ RegisterSetAlias(o)

(* The calls of a promotion after it began. *)
PromoteStep(o) ==
    \/ PromoteReadChallenger(o) \/ PromoteReadChampion(o)
    \/ PromoteSetRollback(o) \/ PromoteTagRetired(o)
    \/ PromoteSetChampion(o) \/ PromoteTagApproved(o) \/ PromoteTagChampion(o)
    \/ PromoteDropChallenger(o)

PromoteNext(o) ==
    \/ \E v \in Versions :
          PromoteCanary(o, v) \/ \E expected \in 0..MaxVersion : PromoteCli(o, v, expected)
    \/ PromoteStep(o)

RollbackNext(o) ==
    \/ RollbackBegin(o)
    \/ RollbackReadChampion(o) \/ RollbackReadSafe(o)
    \/ RollbackSetChampion(o) \/ RollbackSetChallenger(o)
    \/ RollbackTagFailed(o) \/ RollbackTagQuarantined(o) \/ RollbackTagRestored(o)

Next == \E o \in Operators :
    \/ RegisterNext(o) \/ PromoteNext(o) \/ RollbackNext(o)
    \/ Reject(o) \/ LookupFails(o) \/ Fail(o)

Spec == Init /\ [][Next]_vars

-----------------------------------------------------------------------------
(* Properties of any number of concurrent operators.                       *)

(* A version reaches champion or rollback only if the promotion gate       *)
(* released with that very version passed, however operators interleave    *)
(* and wherever they fail, provided every promotion names the version its  *)
(* gate belongs to (lines 238 and 245): the two checks are made before the *)
(* champion alias moves, on values read in different calls.                *)
ServedVersionsPassedTheirGate ==
    \A a \in {"champion", "rollback"} : alias[a] # NoVersion => gate[alias[a]]

(* However the calls of several operators interleave and wherever they     *)
(* fail, a rollback can only restore what has served: the rollback alias,   *)
(* and what a rollback has read of it, name versions that were champion,    *)
(* although a promotion writes there what it read some calls earlier        *)
(* (lines 249 to 251) and another operator may have moved champion since.   *)
RecoveryTargetHasServed ==
    /\ alias["rollback"] # NoVersion => alias["rollback"] \in released
    /\ \A o \in Operators : pc[o] = "rollback_set_champion" => work[o].target \in released

-----------------------------------------------------------------------------
(* Properties of one operator, whose calls may fail at any point.          *)

(* An operator is about to move champion having taken it for absent.       *)
TookChampionForAbsent ==
    \E o \in Operators : pc[o] = "promote_set_champion" /\ work[o].other = NoVersion

(* The champion alias never moves off a version unless the rollback alias  *)
(* already holds that version (a promotion) or the new one (a rollback):   *)
(* an interrupted change leaves a way back.  The one exception is the       *)
(* code's own: a promotion whose lookup of the champion failed (line 105)   *)
(* goes on as if there were none.                                          *)
RollbackPrecedesChampion == [][
    alias["champion"] \notin {NoVersion, alias'["champion"]}
        => \/ alias["rollback"] \in {alias["champion"], alias'["champion"]}
           \/ TookChampionForAbsent]_alias

(* What docs/model_registry.md, line 66, says: when a champion exists,      *)
(* promotion moves it to rollback before changing champion, with no         *)
(* exception.  The code does not keep it.                                  *)
ReplacedChampionIsKept == [][
    alias["champion"] \notin {NoVersion, alias'["champion"]}
        => alias["rollback"] \in {alias["champion"], alias'["champion"]}]_alias

(* The recovery target is replaced only by a champion that is about to be  *)
(* retired: repeating an interrupted promotion of what is already champion *)
(* must not make the rollback alias name the champion itself.              *)
RetryKeepsRecoveryTarget == [][
    alias["rollback"] # alias'["rollback"]
        => /\ alias'["rollback"] = alias["champion"]
           /\ alias["challenger"] # alias["champion"]]_alias

(* With no operation in progress and no remote call ever failed, lookups    *)
(* that _alias forgives included, lifecycle tags tell the same story as the *)
(* aliases: exactly the champion is tagged as one, and a version rolled     *)
(* back is not.                                                            *)
TagsAgreeWithAliases ==
    (~interrupted /\ \A o \in Operators : pc[o] = "idle") =>
        {v \in Versions : lifecycle[v] \in {"champion", "champion_after_rollback"}}
            = {alias["champion"]} \ {NoVersion}

(* A rollback that returned leaves the failed version quarantined under    *)
(* challenger and a different one serving.                                 *)
RollbackQuarantines ==
    \A o \in Operators : pc[o] = "rollback_tag_restored" =>
        /\ alias["challenger"] = work[o].other
        /\ alias["champion"] = work[o].target
        /\ work[o].other # work[o].target
        /\ validation[alias["challenger"]] = "rolled_back"

-----------------------------------------------------------------------------
(* One operator, whose calls fail anywhere, implements ReleaseLine with the *)
(* aliases champion and rollback: however many calls a promotion or a       *)
(* rollback takes, those who follow champion see one change that the        *)
(* rollback alias can take back, unless it was made in the blind.           *)
Line == INSTANCE ReleaseLine
    WITH inService <- alias["champion"], putAside <- alias["rollback"],
         blind <- alias["champion"] # NoVersion /\ TookChampionForAbsent

ImplementsReleaseLine == Line!Spec

=============================================================================
