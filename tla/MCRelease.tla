------------------------------ MODULE MCRelease ------------------------------
(* TLC instance of Release: small data sets, two outcomes of a training. *)
EXTENDS Release

(* n rows, a few on each date, the customers in another order.             *)
Cohort(n, positive(_)) ==
    {[date |-> i \div 3, customer |-> (7 * i) % n, positive |-> positive(i)] : i \in 0..(n - 1)}
Alternating(i) == (i \div 2) % 2 = 0
Early(i) == i < 3

Clean == [missing |-> 0, violations |-> 0]
Holds(rows, quality, valid, psi) ==
    [rows |-> rows, quality |-> quality, valid |-> valid, drift |-> [psi |-> psi, distance |-> 19]]

MCDataSets == <<
    Holds(Cohort(30, Alternating), Clean, TRUE, 19),
    Holds(Cohort(40, Alternating), [missing |-> 1, violations |-> 0], TRUE, 20),
    Holds(Cohort(30, Early), [missing |-> 0, violations |-> 1], TRUE, 0),
    Holds(Cohort(30, Alternating), [missing |-> 2, violations |-> 0], FALSE, 0)>>

Metrics(auc, brier, ece, precision) ==
    [auc |-> auc, brier |-> brier, ece |-> ece, highPrecision |-> 80, precision |-> precision]
Group(name, n, rate) == [name |-> name, n |-> n, bothClasses |-> TRUE, rate |-> rate]
Row(threshold, precision, coverage, f1) ==
    [threshold |-> threshold, precision |-> precision, coverage |-> coverage, f1 |-> f1]
Outcome(auc, test, ages, table, release) ==
    [selection |-> [logistic_regression |-> [auc |-> 80, brier |-> 15],
                    random_forest |-> [auc |-> auc, brier |-> 15]],
     test |-> test, ages |-> ages, employments |-> {Group("a", 30, 10), Group("b", 29, 90), Group("c", 400, 12)},
     table |-> table, release |-> release]

MCOutcomes == {
    \* both limits met exactly; the tie goes to the first model, the ranking to the other
    Outcome(80, [logistic_regression |-> Metrics(75, 20, 8, 80), random_forest |-> Metrics(76, 20, 8, 80)],
            {Group("a", 30, 10), Group("b", 30, 45)}, {Row(30, 79, 60, 80), Row(65, 80, 40, 70), Row(70, 85, 40, 70)}, "0.6.0"),
    \* the gate holds it back, and so does monitoring
    Outcome(81, [logistic_regression |-> Metrics(80, 10, 2, 90), random_forest |-> Metrics(73, 23, 11, 80)],
            {Group("a", 30, 10)}, {Row(30, 79, 60, 80), Row(90, 79, 61, 10)}, "0.7.0")}

MCFieldMetrics == {[status |-> "in service", auc |-> 60, brier |-> 15, ece |-> 5, gap |-> 10]}

==============================================================================
