----------------------------- MODULE ReleaseLine -----------------------------
(***************************************************************************)
(* What the alias lifecycle promises those who follow the champion alias:  *)
(* a line of releases in which every change can be taken back.             *)
(*                                                                         *)
(* The version in service is replaced only after it has been put aside for *)
(* recovery, and a recovery returns to the version put aside.  Nothing is  *)
(* said of how many calls that takes or where they fail.                   *)
(*                                                                         *)
(* Those who change the line may lose sight of the version in service; the *)
(* next replacement, and no recovery, may then go without the first step.  *)
(***************************************************************************)
EXTENDS Integers

CONSTANT MaxVersion
VARIABLES
    inService, putAside,
    blind           \* is the version in service taken for absent?

Versions == 1..MaxVersion
None == 0

Init == inService = None /\ putAside = None /\ blind = FALSE

PutAside ==
    /\ inService # None /\ ~blind
    /\ putAside' = inService
    /\ UNCHANGED <<inService, blind>>

Replace ==
    /\ blind \/ inService \in {None, putAside}
    /\ inService' \in Versions \ {inService}
    /\ blind' = FALSE
    /\ UNCHANGED putAside

Recover ==
    /\ putAside \notin {None, inService} /\ ~blind
    /\ inService' = putAside
    /\ UNCHANGED <<putAside, blind>>

LoseSight ==
    /\ inService # None
    /\ blind' = TRUE
    /\ UNCHANGED <<inService, putAside>>

GiveUp ==
    /\ blind' = FALSE
    /\ UNCHANGED <<inService, putAside>>

Next == PutAside \/ Replace \/ Recover \/ LoseSight \/ GiveUp

Spec == Init /\ [][Next]_<<inService, putAside, blind>>

=============================================================================
