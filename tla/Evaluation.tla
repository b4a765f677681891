------------------------------ MODULE Evaluation ------------------------------
(***************************************************************************)
(* What the offline tools decide: the five windows of a data set, the      *)
(* threshold and the fairness gaps (src/models/evaluation.py), the best    *)
(* model (train.py), the release gate (promotion_gate.py), the ranking     *)
(* (champion_challenger.py), drift and data quality (src/monitoring), and  *)
(* the continuous-operations decision (continuous_ops.py).                 *)
(*                                                                         *)
(* A data set is a set of rows [date, customer, positive]; rates, metrics  *)
(* and distances are in hundredths.                                        *)
(***************************************************************************)
EXTENDS Integers, FiniteSets, FiniteSetsExt

CONSTANTS
    MinWindow,      \* fewest rows of a window: 20
    MinGroup,       \* MIN_GROUP_SIZE: 30
    ShortSeventy    \* the n for which int(0.70 * n) is one below 7n/10: 90, 170, 180...

ASSUME EvaluationConstants ==
    /\ MinWindow \in Nat /\ MinGroup \in Nat
    /\ \A n \in ShortSeventy : n \in Nat \ {0} /\ (7 * n) % 10 = 0

NoGap == -1
Names == {"logistic_regression", "random_forest"}

-----------------------------------------------------------------------------
(* Windows: rows in the order of date and customer.                        *)
Before_by_customer(a, b) == a.customer < b.customer
Before(a, b) == a.date < b.date \/ (a.date = b.date /\ a.customer < b.customer)

Rank(rows, row) == Cardinality({other \in rows : Before(other, row)})

(* int(0.60 * n) ... int(0.90 * n).                                        *)
Boundary(n) ==
    [tenths \in {0, 6, 7, 8, 9, 10} |->
        (tenths * n) \div 10 - (IF tenths = 7 /\ n \in ShortSeventy THEN 1 ELSE 0)]

Slice(rows, first, end) == {row \in rows : Rank(rows, row) \in first..(end - 1)}

Windows == {"train", "model_selection", "calibration", "policy_validation", "out_of_time_test"}
Tenths == [train |-> <<0, 6>>, model_selection |-> <<6, 7>>, calibration |-> <<7, 8>>,
           policy_validation |-> <<8, 9>>, out_of_time_test |-> <<9, 10>>]

TemporalSplit(rows) ==
    LET at == Boundary(Cardinality(rows))
    IN  [w \in Windows |-> Slice(rows, at[Tenths[w][1]], at[Tenths[w][2]])]

(* Otherwise temporal_split raises.                                        *)
Usable(splits) ==
    \A w \in Windows : /\ Cardinality(splits[w]) >= MinWindow
                       /\ {row.positive : row \in splits[w]} = BOOLEAN

DateRange(rows) ==
    [start |-> Min({row.date : row \in rows}), end |-> Max({row.date : row \in rows})]
SplitRanges(splits) == [w \in Windows |-> DateRange(splits[w])]

(* The drift report sorts by the date only; rows of one date fall in an    *)
(* order of the sort's own, and only the dates of a window are determined. *)
DriftWindows_seventy(rows) ==
    LET n == Cardinality(rows)
    IN  [reference |-> DateRange(Slice(rows, 0, Boundary(n)[7])),
         current |-> DateRange(Slice(rows, Boundary(n)[9], n))]
DriftWindows(rows) ==
    LET n == Cardinality(rows)
    IN  [reference |-> DateRange(Slice(rows, 0, Boundary(n)[6])),
         current |-> DateRange(Slice(rows, Boundary(n)[9], n))]

-----------------------------------------------------------------------------
(* max() with a key of two parts: the larger first part, then the second.  *)
Greater(a, b) == a[1] > b[1] \/ (a[1] = b[1] /\ a[2] > b[2])

(* The best by (auc, -brier); the first of the dictionary on a tie.        *)
Leader(scores) ==
    LET key(name) == <<scores[name].auc, -scores[name].brier>>
    IN  IF Greater(key("random_forest"), key("logistic_regression"))
        THEN "random_forest" ELSE "logistic_regression"

Leading(rows, Key(_)) ==
    LET top == {row \in rows : \A other \in rows : ~Greater(Key(other), Key(row))}
    IN  {row \in top : \A other \in top : row.threshold <= other.threshold}

(* Of the rows precise and covering enough, the best f1, then precision,   *)
(* then coverage, then the lowest threshold; else the most precise row.    *)
ChoosePolicyThreshold(table) ==
    LET candidates == {row \in table : row.precision >= 80 /\ row.coverage >= 10}
        bestF1 == {row \in candidates : \A other \in candidates : other.f1 <= row.f1}
        precise(row) == <<row.precision, row.coverage>>
        chosen == Leading(IF candidates = {} THEN table ELSE bestF1, precise)
    IN  (CHOOSE row \in chosen : TRUE).threshold

(* The spread of the predicted support rates of the groups with evidence;  *)
(* groups have names, so two of one size and rate are two.                 *)
Gap(groups) ==
    LET rates == {g \in groups : g.n >= MinGroup /\ g.bothClasses}
        values == {g.rate : g \in rates}
    IN  IF Cardinality(rates) < 2 THEN NoGap ELSE Max(values) - Min(values)

-----------------------------------------------------------------------------
(* The gate also compares the names of the splits in the metadata, which    *)
(* train.py always writes as expected.                                     *)
WithinLimitOrUnavailable(gap, limit) == gap = NoGap \/ gap <= limit

GatePasses(metrics, ageGap, employmentGap) ==
    /\ metrics.auc >= 75 /\ metrics.brier <= 20 /\ metrics.ece <= 8
    /\ metrics.highPrecision >= 80 /\ metrics.precision >= 80
    /\ WithinLimitOrUnavailable(employmentGap, 35)
    /\ WithinLimitOrUnavailable(ageGap, 35)

EvaluateGate(metrics, ageGap, employmentGap) ==
    IF GatePasses(metrics, ageGap, employmentGap) THEN "PASS" ELSE "REVIEW"

(* Every model is ranked by its metrics on the last window.                *)
BuildChampionChallengerReport(test) == Leader(test)

(* A frame that misses values, or has any value out of range.              *)
CheckDataQuality(quality) ==
    IF quality.missing > 1 \/ quality.violations > 0 THEN "FAIL" ELSE "PASS"

DriftStatus(drift) == IF drift.psi >= 20 \/ drift.distance >= 20 THEN "review" ELSE "ok"

-----------------------------------------------------------------------------
NotObserved == [status |-> "not observed"]

PerformanceFails_brier_floor(observed) ==
    observed # NotObserved /\ (observed.auc < 74 \/ observed.brier < 22 \/ observed.ece > 10)

(* Operational floor and ceilings, of the metrics somebody observed.       *)
PerformanceFails(observed) ==
    observed # NotObserved /\ (observed.auc < 74 \/ observed.brier > 22 \/ observed.ece > 10)

FairnessFails(observed) ==
    observed # NotObserved /\ observed.gap # NoGap /\ observed.gap > 15

DecideContinuousAction(drift, quality, observed) ==
    IF quality # "PASS" THEN "BLOCKED_DATA_QUALITY"
    ELSE IF PerformanceFails(observed) \/ FairnessFails(observed) THEN "INVESTIGATE_MODEL"
    ELSE IF DriftStatus(drift) = "review" THEN "TRAIN_CANDIDATE"
    ELSE "NO_TRAINING"

(* The approval pack; the controls that are not modelled are passed in.    *)
BuildPack(gate, quality, drift, otherControlsPass) ==
    IF gate = "PASS" /\ quality = "PASS" /\ drift = "ok" /\ otherControlsPass
    THEN "PASS" ELSE "REVIEW"

=============================================================================
