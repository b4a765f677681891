------------------------------- MODULE Scoring -------------------------------
(***************************************************************************)
(* How a request is scored: the model's probability, the policy's action   *)
(* (src/serving/policy.py), the route to a reviewer (review_workflow.py),  *)
(* online (predictor.py), for a file (batch_score.py) and for a candidate  *)
(* model in the shadow (shadow.py).                                        *)
(*                                                                         *)
(* Probabilities are integers in steps of 1e-7, finer than the six and the *)
(* four decimals the results keep; ratios are in hundredths.  A request    *)
(* has the ratios the code computes from its balances.                     *)
(***************************************************************************)
EXTENDS Integers

CONSTANT Cases      \* what is scored, see CaseType

One == 10000000
Percent == One \div 100
OnlineDigits == 10          \* round(p, 6), in steps
BatchDigits == 1000         \* round(p, 4)
NoThreshold == -1           \* metadata without policy_threshold

(* A request, the probability the model in service and a candidate give    *)
(* it, the quality check of its frame, the metadata's model and threshold, *)
(* and the models under candidates/.                                       *)
CaseType(c) ==
    /\ c.request.age \in Nat /\ c.request.assets \in Nat /\ c.request.cash \in 0..100
    /\ c.request.debt \in Nat /\ c.request.risk \in 0..100 /\ c.request.activity \in Nat
    /\ c.probability \in 0..One /\ c.candidateProbability \in 0..One
    /\ c.quality \in BOOLEAN /\ c.exactMarginIsNear \in BOOLEAN
    /\ c.threshold = NoThreshold \/ c.threshold \in 0..One

ASSUME ScoringInputs == \A c \in Cases : CaseType(c)

VARIABLES
    case,           \* the request, its probability and what the metadata file says
    online, batch, shadow       \* results of the three paths, None before
scoringVars == <<case, online, batch, shadow>>

None == [status |-> "none"]

-----------------------------------------------------------------------------
Distance(a, b) == IF a < b THEN b - a ELSE a - b

(* round(): to the nearest, a tie to the even neighbour. *)
Round(p, digits) ==
    LET low == p \div digits
        rest == 2 * (p % digits)
    IN  IF rest > digits \/ (rest = digits /\ low % 2 = 1) THEN (low + 1) * digits ELSE low * digits

PolicyThreshold == IF case.threshold = NoThreshold THEN 50 * Percent ELSE case.threshold

Decide(request, p, threshold) ==
    IF request.debt > 85 THEN "risk_review"
    ELSE IF p < threshold THEN "no_support"
    ELSE IF request.debt > 65 THEN "risk_review"
    ELSE IF request.cash > 55 /\ request.assets >= 10000 THEN "investment_support"
    ELSE "cash_buffer_warning"

HardSafetyGate(request) == request.debt > 85

Confidence(p) ==
    IF Distance(p, 50 * Percent) >= 30 * Percent THEN "high"
    ELSE IF Distance(p, 50 * Percent) >= 15 * Percent THEN "medium"
    ELSE "low"

ReasonCodes(request, p, threshold) ==
    LET reasons ==
            {code \in {"high_cash_ratio", "sufficient_accessible_assets", "high_debt_to_income",
                       "low_risk_capacity", "higher_risk_capacity", "limited_recent_activity",
                       "below_policy_threshold"} :
                \/ code = "high_cash_ratio" /\ request.cash > 55
                \/ code = "sufficient_accessible_assets" /\ request.assets >= 10000
                \/ code = "high_debt_to_income" /\ request.debt > 65
                \/ code = "low_risk_capacity" /\ request.risk < 25
                \/ code = "higher_risk_capacity" /\ request.risk > 75
                \/ code = "limited_recent_activity" /\ request.activity <= 1
                \/ code = "below_policy_threshold" /\ p < threshold}
    IN  IF reasons = {} THEN {"combined_model_factors"} ELSE reasons

(* The margin of a double exactly 0.05 away may come out on either side.   *)
NearPolicyThreshold(p, threshold) ==
    \/ Distance(p, threshold) < 5 * Percent
    \/ Distance(p, threshold) = 5 * Percent /\ case.exactMarginIsNear

ReviewRoute_without_safeguards(request, result) ==
    IF \/ result.gate \/ result.confidence = "low" \/ request.debt > 65
       \/ NearPolicyThreshold(result.probability, result.threshold)
    THEN "manual_review" ELSE "auto_serve"

(* The result's probability is the rounded one.                            *)
ReviewRoute(request, result) ==
    IF \/ result.gate \/ result.confidence = "low" \/ request.debt > 65
       \/ NearPolicyThreshold(result.probability, result.threshold)
       \/ result.probability >= result.threshold /\ (request.assets >= 100000 \/ request.age >= 75)
    THEN "manual_review" ELSE "auto_serve"

-----------------------------------------------------------------------------
(* The action is taken on the probability, the route on what is reported.  *)
Result(p, digits, threshold, codes) ==
    LET base == [status |-> "scored", probability |-> Round(p, digits), threshold |-> threshold,
                 action |-> Decide(case.request, p, PolicyThreshold), confidence |-> Confidence(p),
                 gate |-> HardSafetyGate(case.request), codes |-> codes]
    IN  [result |-> base, status |-> "scored", route |-> ReviewRoute(case.request, base)]

(* ModelPredictor.predict.                                                 *)
Predict ==
    /\ online = None
    /\ online' = Result(case.probability, OnlineDigits, PolicyThreshold,
                        ReasonCodes(case.request, case.probability, PolicyThreshold))
    /\ UNCHANGED <<case, batch, shadow>>

ScoreFrame_rounds_first ==
    /\ batch = None
    /\ batch' = Result(Round(case.probability, BatchDigits), BatchDigits, Round(PolicyThreshold, BatchDigits),
                       ReasonCodes(case.request, case.probability, 50 * Percent))
    /\ UNCHANGED <<case, online, shadow>>

(* score_frame: a frame of bad quality raises.  reason_codes is called     *)
(* without the threshold, and takes 0.5.                                   *)
ScoreFrame ==
    /\ batch = None
    /\ batch' = IF ~case.quality THEN [status |-> "raised"]
                ELSE Result(case.probability, BatchDigits, Round(PolicyThreshold, BatchDigits),
                            ReasonCodes(case.request, case.probability, 50 * Percent))
    /\ UNCHANGED <<case, online, shadow>>

(* _select_candidate: the two models training makes come first.            *)
SelectCandidate ==
    LET others == case.candidates \ {case.modelName}
    IN  IF others = {} THEN "none"
        ELSE IF "logistic_regression" \in others THEN "logistic_regression"
        ELSE IF "random_forest" \in others THEN "random_forest"
        ELSE CHOOSE name \in others : TRUE

CandidateAction_own_threshold == Decide(case.request, case.candidateProbability, 50 * Percent)
CandidateAction == Decide(case.request, case.candidateProbability, PolicyThreshold)

ShadowPredict ==
    /\ shadow = None
    /\ LET champion == Result(case.probability, OnlineDigits, PolicyThreshold, {}).result
       IN  shadow' = IF SelectCandidate = "none"
                     THEN [status |-> "candidate_unavailable", name |-> "none", changed |-> FALSE]
                     ELSE [status |-> "candidate_available", name |-> SelectCandidate,
                           champion |-> champion.probability,
                           candidate |-> Round(case.candidateProbability, BatchDigits),
                           delta |-> Round(case.candidateProbability - champion.probability, BatchDigits),
                           changed |-> CandidateAction # champion.action]
    /\ UNCHANGED <<case, online, batch>>

ScoringInit ==
    /\ case \in Cases
    /\ online = None /\ batch = None /\ shadow = None

ScoringNext == Predict \/ ScoreFrame \/ ShadowPredict

ScoringSpec == ScoringInit /\ [][ScoringNext]_scoringVars

-----------------------------------------------------------------------------
Scored == {result \in {online, batch} : result.status = "scored"}

(* Support for an older customer or for high assets always reaches a       *)
(* reviewer: although the action looks at the probability and the route at *)
(* the rounded one, a rounding across the threshold is near it.            *)
SupportIsSafeguarded == \A scored \in Scored :
    scored.result.action # "no_support" /\ (case.request.age >= 75 \/ case.request.assets >= 100000)
        => scored.route = "manual_review"

(* A file scored in a batch gets the answers of the API: the same action,  *)
(* gate and confidence; the same route unless the margin is within the     *)
(* rounding of 0.05; the same reasons but for the threshold's.             *)
BatchAgreesWithOnline ==
    online.status = "scored" /\ batch.status = "scored" =>
        /\ online.result.action = batch.result.action
        /\ online.result.gate = batch.result.gate
        /\ online.result.confidence = batch.result.confidence
        /\ \/ online.route = batch.route
           \/ Distance(Distance(case.probability, PolicyThreshold), 5 * Percent) <= BatchDigits
        /\ LET own == {"below_policy_threshold", "combined_model_factors"}
           IN  online.result.codes \ own = batch.result.codes \ own

(* When a shadow comparison reports a changed action, the probabilities it *)
(* reports explain it: the threshold lies between them, up to rounding.    *)
ShadowChangeIsExplained ==
    shadow # None /\ shadow.changed =>
        /\ ~HardSafetyGate(case.request)
        /\ \E low \in {shadow.champion, shadow.candidate}, high \in {shadow.champion, shadow.candidate} :
                /\ low <= PolicyThreshold + BatchDigits \div 2
                /\ PolicyThreshold <= high + BatchDigits \div 2
                /\ low # high \/ shadow.champion = shadow.candidate

=============================================================================
