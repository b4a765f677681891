----------------------------- MODULE ScoringProofs -----------------------------
(* Theorems about Scoring, for every request, probability and threshold.   *)
EXTENDS Scoring, TLAPS

(* round() moves a number by half a unit of its last digit at most.         *)
LEMMA RoundIsNear ==
    ASSUME NEW p \in Int, NEW digits \in {OnlineDigits, BatchDigits}
    PROVE  Round(p, digits) \in Int /\ 2 * Distance(p, Round(p, digits)) <= digits
<1>1. CASE digits = 10
  <2>1. p \div 10 \in Int /\ p % 10 \in 0..9 /\ p = 10 * (p \div 10) + (p % 10)
    OBVIOUS
  <2> QED BY <1>1, <2>1 DEF Round, Distance
<1>2. CASE digits = 1000
  <2>1. p \div 1000 \in Int /\ p % 1000 \in 0..999 /\ p = 1000 * (p \div 1000) + (p % 1000)
    OBVIOUS
  <2> QED BY <1>2, <2>1 DEF Round, Distance
<1> QED BY <1>1, <1>2 DEF OnlineDigits, BatchDigits

LEMMA Units == One \in Nat /\ Percent \in Nat /\ 5 * Percent > BatchDigits
BY SMT DEF One, Percent, BatchDigits

(* The parts of a result, from the arguments it is made of.                *)
LEMMA PartsOfResult ==
    ASSUME NEW p, NEW digits, NEW threshold, NEW codes
    PROVE  LET scored == Result(p, digits, threshold, codes)
           IN  /\ scored.result.action = Decide(case.request, p, PolicyThreshold)
               /\ scored.result.probability = Round(p, digits)
               /\ scored.result.threshold = threshold
               /\ scored.result.confidence = Confidence(p)
               /\ scored.result.gate = HardSafetyGate(case.request)
               /\ scored.result.codes = codes
               /\ scored.route = ReviewRoute(case.request, scored.result)
<1> DEFINE scored == Result(p, digits, threshold, codes)
<1>1. /\ scored.result.action = Decide(case.request, p, PolicyThreshold)
      /\ scored.result.probability = Round(p, digits)
      /\ scored.result.threshold = threshold
      /\ scored.result.confidence = Confidence(p)
      /\ scored.result.codes = codes
  BY SMT DEF Result
<1>2. scored.result.gate = HardSafetyGate(case.request)
  BY Zenon DEF Result
<1>3. scored.route = ReviewRoute(case.request, scored.result)
  BY Zenon DEF Result
<1> QED BY <1>1, <1>2, <1>3

(* A result whose support concerns an older customer, or high assets.      *)
Safeguarded(scored) ==
    scored.result.action # "no_support" /\ (case.request.age >= 75 \/ case.request.assets >= 100000)
        => scored.route = "manual_review"

(* Whatever the two roundings of probability and threshold, a score that is *)
(* not "no support" either keeps its side of the threshold or is near it.  *)
LEMMA ResultIsSafeguarded ==
    ASSUME case \in Cases, NEW digits \in {OnlineDigits, BatchDigits}, NEW codes,
           NEW threshold \in {PolicyThreshold, Round(PolicyThreshold, BatchDigits)}
    PROVE  Safeguarded(Result(case.probability, digits, threshold, codes))
<1> DEFINE p == case.probability
           scored == Result(p, digits, threshold, codes)
<1>0. CaseType(case)
  BY ScoringInputs
<1>1. p \in Int /\ case.request.debt \in Int /\ PolicyThreshold \in Int
  BY <1>0, Units DEF CaseType, PolicyThreshold
<1>2. Round(p, digits) \in Int /\ 2 * Distance(p, Round(p, digits)) <= 1000
  <2>1. Round(p, digits) \in Int /\ 2 * Distance(p, Round(p, digits)) <= digits
    BY <1>1, RoundIsNear
  <2>2. digits \in Int /\ digits <= 1000 /\ Distance(p, Round(p, digits)) \in Int
    BY <1>1, <2>1 DEF OnlineDigits, BatchDigits, Distance
  <2> QED BY <2>1, <2>2
<1>3. threshold \in Int /\ 2 * Distance(PolicyThreshold, threshold) <= 1000
  BY <1>1, RoundIsNear DEF BatchDigits, Distance
<1>4. /\ scored.result.action = Decide(case.request, p, PolicyThreshold)
      /\ scored.result.gate = HardSafetyGate(case.request)
      /\ scored.result.probability = Round(p, digits)
      /\ scored.result.threshold = threshold
      /\ scored.route = ReviewRoute(case.request, scored.result)
  BY PartsOfResult
<1>5. SUFFICES ASSUME scored.result.action # "no_support",
                      case.request.age >= 75 \/ case.request.assets >= 100000
               PROVE  scored.route = "manual_review"
  BY DEF Safeguarded
<1>6. CASE HardSafetyGate(case.request)
  BY <1>4, <1>6 DEF ReviewRoute
<1>7. CASE ~HardSafetyGate(case.request)
  <2>1. p >= PolicyThreshold
    BY <1>1, <1>4, <1>5, <1>7 DEF Decide, HardSafetyGate
  <2>2. CASE Round(p, digits) >= threshold
    BY <1>4, <1>5, <2>2 DEF ReviewRoute
  <2>3. CASE Round(p, digits) < threshold
    <3>1. Distance(Round(p, digits), threshold) < 5 * Percent
      BY <1>1, <1>2, <1>3, <2>1, <2>3, Units DEF Distance, BatchDigits
    <3> QED BY <1>4, <3>1 DEF ReviewRoute, NearPolicyThreshold
  <2> QED BY <1>2, <1>3, <2>2, <2>3
<1> QED BY <1>6, <1>7

(* Support for an older customer or for high assets reaches a reviewer,     *)
(* online and in a batch, although the action looks at the exact            *)
(* probability and the route at the rounded one.                           *)
THEOREM SupportReachesReview == ScoringSpec => []SupportIsSafeguarded
<1> DEFINE Inv == case \in Cases /\ \A scored \in Scored : Safeguarded(scored)
<1>1. ScoringInit => Inv
  BY DEF ScoringInit, Scored, None
<1>2. Inv /\ [ScoringNext]_scoringVars => Inv'
  <2> SUFFICES ASSUME Inv, [ScoringNext]_scoringVars PROVE Inv'
    OBVIOUS
  <2>1. CASE Predict
    <3>1. Safeguarded(online')
      BY <2>1, ResultIsSafeguarded DEF Predict
    <3> QED BY <2>1, <3>1 DEF Predict, Scored, Safeguarded
  <2>2. CASE ScoreFrame
    <3>1. batch'.status = "scored" => Safeguarded(batch')
      BY <2>2, ResultIsSafeguarded DEF ScoreFrame
    <3> QED BY <2>2, <3>1 DEF ScoreFrame, Scored, Safeguarded
  <2>3. CASE UNCHANGED <<case, online, batch>>
    BY <2>3 DEF Scored, Safeguarded
  <2> QED BY <2>1, <2>2, <2>3 DEF ScoringNext, ShadowPredict, scoringVars
<1>3. Inv => SupportIsSafeguarded
  BY DEF SupportIsSafeguarded, Safeguarded
<1> QED BY <1>1, <1>2, <1>3, PTL DEF ScoringSpec

-----------------------------------------------------------------------------
(* The API and the batch.                                                  *)

Online == Result(case.probability, OnlineDigits, PolicyThreshold,
                 ReasonCodes(case.request, case.probability, PolicyThreshold))
Batch == Result(case.probability, BatchDigits, Round(PolicyThreshold, BatchDigits),
                ReasonCodes(case.request, case.probability, 50 * Percent))

(* Reasons depend on the threshold in one code only, and are replaced by a  *)
(* general one when there are none.                                        *)
LEMMA ReasonsButTheThresholds ==
    ASSUME NEW request, NEW p, NEW t, NEW u
    PROVE  LET own == {"below_policy_threshold", "combined_model_factors"}
           IN  ReasonCodes(request, p, t) \ own = ReasonCodes(request, p, u) \ own
BY DEF ReasonCodes

LEMMA BatchFollowsOnline ==
    ASSUME case \in Cases
    PROVE  /\ Online.result.action = Batch.result.action
           /\ Online.result.gate = Batch.result.gate
           /\ Online.result.confidence = Batch.result.confidence
           /\ \/ Online.route = Batch.route
              \/ Distance(Distance(case.probability, PolicyThreshold), 5 * Percent) <= BatchDigits
           /\ LET own == {"below_policy_threshold", "combined_model_factors"}
              IN  Online.result.codes \ own = Batch.result.codes \ own
<1> DEFINE p == case.probability
           t == PolicyThreshold
           pOnline == Round(p, OnlineDigits)
           pBatch == Round(p, BatchDigits)
           tBatch == Round(t, BatchDigits)
<1>1. p \in Int /\ t \in Int /\ 5 * Percent \in Int
  BY ScoringInputs, Units DEF CaseType, PolicyThreshold
<1>2. /\ pOnline \in Int /\ 2 * Distance(p, pOnline) <= 10
      /\ pBatch \in Int /\ 2 * Distance(p, pBatch) <= 1000
      /\ tBatch \in Int /\ 2 * Distance(t, tBatch) <= 1000
  BY <1>1, RoundIsNear DEF OnlineDigits, BatchDigits
<1>3. /\ Online.result.action = Batch.result.action
      /\ Online.result.gate = Batch.result.gate
      /\ Online.result.confidence = Batch.result.confidence
  BY PartsOfResult DEF Online, Batch
<1>4. LET own == {"below_policy_threshold", "combined_model_factors"}
      IN  Online.result.codes \ own = Batch.result.codes \ own
  BY PartsOfResult, ReasonsButTheThresholds DEF Online, Batch
<1>5. ASSUME ~(Distance(Distance(p, t), 5 * Percent) <= 1000)
      PROVE  Online.route = Batch.route
  <2>1. /\ Distance(pOnline, t) # 5 * Percent /\ Distance(pBatch, tBatch) # 5 * Percent
        /\ Distance(pOnline, t) < 5 * Percent <=> Distance(pBatch, tBatch) < 5 * Percent
    <3> HIDE DEF p, t, pOnline, pBatch, tBatch
    <3> QED BY <1>1, <1>2, <1>5 DEF Distance
  <2>2. NearPolicyThreshold(pOnline, t) <=> NearPolicyThreshold(pBatch, tBatch)
    BY <2>1 DEF NearPolicyThreshold
  <2>3. ~NearPolicyThreshold(pOnline, t) => (pOnline >= t <=> pBatch >= tBatch)
    <3>1. ~(Distance(pOnline, t) < 5 * Percent) => (pOnline >= t <=> pBatch >= tBatch)
      <4>1. 5 * Percent = 500000
        BY SMT DEF One, Percent
      <4> HIDE DEF p, t, pOnline, pBatch, tBatch
      <4> QED BY <1>1, <1>2, <4>1 DEF Distance
    <3> QED BY <3>1 DEF NearPolicyThreshold
  <2>4. /\ Online.route = ReviewRoute(case.request, Online.result)
        /\ Online.result.probability = pOnline /\ Online.result.threshold = t
        /\ Batch.route = ReviewRoute(case.request, Batch.result)
        /\ Batch.result.probability = pBatch /\ Batch.result.threshold = tBatch
    BY PartsOfResult DEF Online, Batch
  <2> QED BY <1>3, <2>2, <2>3, <2>4 DEF ReviewRoute
<1> QED BY <1>3, <1>4, <1>5 DEF BatchDigits

(* A file scored in a batch gets the action, the gate and the confidence of *)
(* the API, and its route unless the margin is within the rounding of 0.05; *)
(* its reasons differ in the threshold's only (batch_score.py, 47-58).      *)
THEOREM BatchAgrees == ScoringSpec => []BatchAgreesWithOnline
<1> DEFINE Inv == /\ case \in Cases
                  /\ online.status = "scored" => online = Online
                  /\ batch.status = "scored" => batch = Batch
<1>1. ScoringInit => Inv
  BY DEF ScoringInit, None
<1>2. Inv /\ [ScoringNext]_scoringVars => Inv'
  <2> SUFFICES ASSUME Inv, [ScoringNext]_scoringVars PROVE Inv'
    OBVIOUS
  <2>1. case' = case
    BY DEF ScoringNext, Predict, ScoreFrame, ShadowPredict, scoringVars
  <2>2. online' = online \/ online' = Online
    BY DEF ScoringNext, Predict, ScoreFrame, ShadowPredict, scoringVars, Online
  <2>3. batch' = batch \/ batch' = Batch \/ batch' = [status |-> "raised"]
    BY DEF ScoringNext, Predict, ScoreFrame, ShadowPredict, scoringVars, Batch
  <2>4. Online' = Online /\ Batch' = Batch
    BY <2>1 DEF Online, Batch, Result, ReviewRoute, NearPolicyThreshold, PolicyThreshold
  <2>5. [status |-> "raised"].status # "scored"
    OBVIOUS
  <2> HIDE DEF Online, Batch
  <2> QED BY <2>1, <2>2, <2>3, <2>4, <2>5
<1>3. Inv => BatchAgreesWithOnline
  BY BatchFollowsOnline DEF BatchAgreesWithOnline
<1> QED BY <1>1, <1>2, <1>3, PTL DEF ScoringSpec

-----------------------------------------------------------------------------
(* The shadow.                                                             *)

(* Of two probabilities with different actions, one is below the threshold  *)
(* and the other is not: debt decides alike for both.                      *)
LEMMA ChangesCrossTheThreshold ==
    ASSUME NEW request, request.debt \in Int, NEW p \in Int, NEW q \in Int, NEW threshold \in Int,
           Decide(request, p, threshold) # Decide(request, q, threshold)
    PROVE  /\ ~HardSafetyGate(request)
           /\ p < threshold <=> q >= threshold
BY DEF Decide, HardSafetyGate

(* When a shadow comparison reports a changed action, the threshold lies    *)
(* between the two probabilities it reports, up to their rounding           *)
(* (shadow.py, 60-75).                                                     *)
THEOREM ShadowChangesAreExplained == ScoringSpec => []ShadowChangeIsExplained
<1> DEFINE Inv == case \in Cases /\ ShadowChangeIsExplained
<1>1. ScoringInit => Inv
  BY DEF ScoringInit, ShadowChangeIsExplained
<1>2. Inv /\ [ScoringNext]_scoringVars => Inv'
  <2> SUFFICES ASSUME Inv, [ScoringNext]_scoringVars PROVE Inv'
    OBVIOUS
  <2>1. CASE UNCHANGED <<case, shadow>>
    BY <2>1 DEF ShadowChangeIsExplained, PolicyThreshold
  <2>2. CASE ShadowPredict
    <3> DEFINE p == case.probability
               q == case.candidateProbability
               t == PolicyThreshold
               champion == Round(p, OnlineDigits)
               candidate == Round(q, BatchDigits)
               result == Result(p, OnlineDigits, t, {}).result
    <3>0. UNCHANGED case
      BY <2>2 DEF ShadowPredict
    <3>1. SUFFICES ASSUME shadow'.changed PROVE ShadowChangeIsExplained'
      BY <3>0 DEF ShadowChangeIsExplained
    <3>2. /\ shadow'.champion = champion /\ shadow'.candidate = candidate
          /\ Decide(case.request, q, t) # Decide(case.request, p, t)
      <4>1. /\ result.probability = champion
            /\ result.action = Decide(case.request, p, t)
        BY PartsOfResult
      <4>2. SelectCandidate # "none"
        BY <2>2, <3>1 DEF ShadowPredict
      <4>3. /\ shadow'.champion = result.probability /\ shadow'.candidate = candidate
            /\ shadow'.changed <=> CandidateAction # result.action
        BY <2>2, <4>2 DEF ShadowPredict
      <4> QED BY <3>1, <4>1, <4>3 DEF CandidateAction
    <3>3. p \in Int /\ q \in Int /\ t \in Int /\ case.request.debt \in Int
      BY ScoringInputs, Units DEF CaseType, PolicyThreshold
    <3>4. ~HardSafetyGate(case.request) /\ (p < t <=> q >= t)
      BY <3>2, <3>3, ChangesCrossTheThreshold
    <3>5. /\ champion \in Int /\ 2 * Distance(p, champion) <= 10
          /\ candidate \in Int /\ 2 * Distance(q, candidate) <= 1000
      BY <3>3, RoundIsNear DEF OnlineDigits, BatchDigits
    <3>6. \E low \in {champion, candidate}, high \in {champion, candidate} :
                /\ low <= t + 500 /\ t <= high + 500
                /\ low # high \/ champion = candidate
      <4> HIDE DEF p, q, t, champion, candidate
      <4>1. CASE p < t
        <5>1. champion <= t + 500 /\ t <= candidate + 500
          BY <3>3, <3>4, <3>5, <4>1 DEF Distance
        <5> QED BY <5>1
      <4>2. CASE q < t
        <5>1. candidate <= t + 500 /\ t <= champion + 500
          BY <3>3, <3>4, <3>5, <4>2 DEF Distance
        <5> QED BY <5>1
      <4> QED BY <3>3, <3>4, <4>1, <4>2
    <3>7. UNCHANGED case /\ BatchDigits \div 2 = 500
      BY <2>2 DEF ShadowPredict, BatchDigits
    <3> QED BY <3>2, <3>4, <3>6, <3>7 DEF ShadowChangeIsExplained, PolicyThreshold, HardSafetyGate
  <2> QED BY <2>1, <2>2 DEF ScoringNext, Predict, ScoreFrame, scoringVars
<1>3. Inv => ShadowChangeIsExplained
  OBVIOUS
<1> QED BY <1>1, <1>2, <1>3, PTL DEF ScoringSpec

=============================================================================
