---------------------------- MODULE CanaryMetrics ----------------------------
(***************************************************************************)
(* The evidence arithmetic of src/serving/canary.py: the metrics of a      *)
(* window of comparison records, and the decision they lead to.            *)
(*                                                                         *)
(* Probability deltas are in thousandths, latencies in milliseconds and    *)
(* the rate limits in hundredths; the code's quotients of floats are       *)
(* compared by cross multiplication.  NoValue stands for Python's None.    *)
(***************************************************************************)
EXTENDS Integers, Sequences, FiniteSets, SequencesExt

NoValue == -1

(* A record of the evidence window.  role is the role that served (the     *)
(* code's field is called assigned_role).                                  *)
RecordRoles == {"champion", "challenger", "champion_fallback"}

(* What scoring one request with both models measures.                     *)
Measurement == [error : BOOLEAN, changed : BOOLEAN, delta : Int, championMs : Int, challengerMs : Int,
                championManual : BOOLEAN, challengerManual : BOOLEAN]

HowMany(records, Test(_)) == Cardinality({i \in DOMAIN records : Test(records[i])})

IsComparison(m) == ~m.error /\ m.delta # NoValue
Comparisons(records) == HowMany(records, LAMBDA m : IsComparison(m))
ChallengerServed(records) == HowMany(records, LAMBDA m : m.role = "challenger")
Disagreements(records) == HowMany(records, LAMBDA m : m.changed)
ChallengerErrors(records) == HowMany(records, LAMBDA m : m.error)
ChampionManual(records) == HowMany(records, LAMBDA m : m.championManual)
ChallengerManual(records) == HowMany(records, LAMBDA m : m.challengerManual)

Deltas(records) == SelectSeq([i \in DOMAIN records |-> records[i].delta], LAMBDA d : d # NoValue)
ChampionLatencies(records) == [i \in DOMAIN records |-> records[i].championMs]
ChallengerLatencies(records) ==
    SelectSeq([i \in DOMAIN records |-> records[i].challengerMs], LAMBDA l : l # NoValue)

Total(values) == FoldSeq(LAMBDA x, sum : x + sum, 0, values)

(* _percentile95: the element at index ceil(0.95 n) - 1 of the sorted list. *)
Percentile95(values) ==
    IF values = <<>> THEN NoValue
    ELSE SortSeq(values, LAMBDA x, y : x < y)[(19 * Len(values) + 19) \div 20]

(* _safe_rate(n, d) > limit, a rate with no denominator being zero.        *)
RateExceeds(n, d, limit) == d > 0 /\ 100 * n > limit * d

LatencyRatioExceeds(records, limit) ==
    LET champion == ChampionLatencies(records)
        challenger == ChallengerLatencies(records)
    IN  /\ challenger # <<>>
        /\ Total(champion) > 0
        /\ 100 * Total(challenger) * Len(champion) > limit * Total(champion) * Len(challenger)

EnoughEvidence_one_short(records, limits) ==
    /\ Comparisons(records) >= limits.minRequests - 1
    /\ ChallengerServed(records) >= limits.minChallengerRequests

EnoughEvidence(records, limits) ==
    /\ Comparisons(records) >= limits.minRequests
    /\ ChallengerServed(records) >= limits.minChallengerRequests

LimitFails(records, limits) ==
    \/ RateExceeds(Disagreements(records), Comparisons(records), limits.maxDisagreement)
    \/ Percentile95(Deltas(records)) > limits.maxDelta
    \/ RateExceeds(ChallengerErrors(records), Len(records), limits.maxErrors)
    \/ LatencyRatioExceeds(records, limits.maxLatencyRatio)
    \/ RateExceeds(ChallengerManual(records) - ChampionManual(records), Comparisons(records),
                   limits.maxManualIncrease)

Decision(records, limits) ==
    IF ~EnoughEvidence(records, limits) THEN "WAIT"
    ELSE IF LimitFails(records, limits) THEN "STOP" ELSE "PASS"

=============================================================================
