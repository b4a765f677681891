------------------------------ MODULE MCCanary ------------------------------
(* TLC instances of Canary. *)
EXTENDS Canary

(* What scoring one request can measure: the models agree, they disagree,  *)
(* or the challenger raises.                                               *)
Agree == [error |-> FALSE, changed |-> FALSE, delta |-> 10, championMs |-> 5, challengerMs |-> 6,
          championManual |-> FALSE, challengerManual |-> FALSE]
Disagree == [Agree EXCEPT !.changed = TRUE, !.delta = 300]
Raises == [Agree EXCEPT !.error = TRUE, !.delta = NoValue]

OnlyAgree == {Agree}
AgreeOrDisagree == {Agree, Disagree}
OnlyRaises == {Raises}

(* The limits of src/core/config.py, with the two minimum counts reduced.  *)
SmallLimits == [minRequests |-> 2, minChallengerRequests |-> 1, maxDisagreement |-> 5,
                maxDelta |-> 150, maxErrors |-> 1, maxLatencyRatio |-> 200, maxManualIncrease |-> 10]
LargerLimits == [SmallLimits EXCEPT !.minRequests = 3]

(* Customer r1 is in every version's challenger arm, customer r2 only in   *)
(* that of the odd ones.                                                   *)
CONSTANTS r1, r2
SplitCohort == {<<v, r>> \in Versions \X Requests : r = r1 \/ v % 2 = 1}

=============================================================================
