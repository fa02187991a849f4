------------------------------ MODULE Estimates ------------------------------
(***************************************************************************)
(* The arithmetic of internal/stats and of the score it revises: what the  *)
(* planner's statistics say of a candidate, without reading a row.         *)
(* Weights are in hundredths; Unknown is the estimate nobody has.          *)
(***************************************************************************)
EXTENDS Integers, FiniteSets

Unknown == -1

penaltyCardViolation  == -40
penaltyRangeViolation == -30
penaltyGenericDomain  == -30
rejectFactor          == 2

Outcomes    == {"kept", "rejected", "nostats"}
StatSignals == {"stats_unavailable", "cardinality_violation", "range_violation"}

------------------------------------------------------------------------------
(* What pg_stats holds for a column: a count, a ratio of the row count as   *)
(* num/den, zero for unknown; absent when the column has no row there.      *)
AbsentColumn == [present |-> FALSE, kind |-> "zero", num |-> 0, den |-> 1]

Round(num, den) == (2 * num + den) \div (2 * den)

EstimatedDistinct(col, rows) ==
    IF ~col.present \/ col.kind = "zero" THEN Unknown
    ELSE IF col.kind = "count" THEN col.num
    ELSE IF rows <= 0 THEN Unknown
    ELSE Round(col.num * rows, col.den)

\* Mutant: the rows are read without looking for the never-analyzed sentinel.
EstimatedWhateverTheSentinel(reltuples) == IF reltuples < 0 THEN 0 ELSE reltuples

(* pg_class.reltuples verbatim; a negative value is the sentinel, and       *)
(* RowEstimates leaves the table out.                                       *)
EstimatedRowCount(reltuples) == IF reltuples < 0 THEN Unknown ELSE reltuples

(* The floor of a key's distinct count: its most varied column, the columns *)
(* without an estimate skipped.  childRows is known here or nothing is.     *)
lowerBoundDistinct(columns, childRows) ==
    LET known == {EstimatedDistinct(columns[i], childRows) : i \in DOMAIN columns} \ {Unknown}
    IN  IF childRows = Unknown \/ known = {} THEN Unknown
        ELSE CHOOSE n \in known : \A m \in known : m <= n

(* Histogram endpoints per position; a missing histogram disjoins nothing.  *)
NoBounds == [has |-> FALSE, low |-> 0, high |-> 0]

rangeDisjoint(child, parent) == \E i \in DOMAIN child :
    /\ i \in DOMAIN parent
    /\ child[i].has /\ parent[i].has
    /\ child[i].low > parent[i].high \/ child[i].high < parent[i].low

------------------------------------------------------------------------------
(* Scores.                                                                  *)
\* Mutant: a sum of weights taken for a score.
unsaturated(total) == total

saturate(total) == IF total < 0 THEN 0 ELSE IF total > 100 THEN 100 ELSE total

penalties(signals) ==
    (IF "cardinality_violation" \in signals THEN penaltyCardViolation ELSE 0)
    + (IF "range_violation" \in signals THEN penaltyRangeViolation ELSE 0)

(* The score a candidate reports, recomposed from all its signals.          *)
Rescore(total, signals) == saturate(total + penalties(signals))

------------------------------------------------------------------------------
\* Mutant: the margin is granted to the penalty as well.
ExceedsTheMargin(distinct, parentRows) == distinct > rejectFactor * parentRows

CannotTell(distinct, parentRows) == distinct = Unknown \/ parentRows = Unknown

Exceeds(distinct, parentRows) == distinct > parentRows

BeyondTolerance(distinct, parentRows) == distinct > rejectFactor * parentRows

(* One candidate: both ends of the arithmetic or no opinion; rejected only  *)
(* beyond the margin; a disjoint range penalizes whoever was not rejected.  *)
evaluateOne(distinct, parentRows, disjoint) ==
    IF CannotTell(distinct, parentRows)
    THEN [outcome |-> "nostats", signals |-> {"stats_unavailable"}]
    ELSE IF BeyondTolerance(distinct, parentRows)
    THEN [outcome |-> "rejected", signals |-> {"cardinality_violation"}]
    ELSE [outcome |-> "kept",
          signals |-> {s \in {"cardinality_violation", "range_violation"} :
                          \/ s = "cardinality_violation" /\ Exceeds(distinct, parentRows)
                          \/ s = "range_violation" /\ disjoint}]
==============================================================================
