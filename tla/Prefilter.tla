------------------------------ MODULE Prefilter ------------------------------
(***************************************************************************)
(* The statistical prefilter against a database that is being loaded and   *)
(* analyzed while it runs: catalog.Read takes the row estimates, and later *)
(* stats.Fetch takes pg_stats and evaluateOne decides whether one          *)
(* candidate, child key into parent key, is worth an anti-join.            *)
(*                                                                         *)
(* The tables are a bag of child key tuples, NULLs included, and a set of  *)
(* parent keys.  Loading and ANALYZE are the environment.                  *)
(***************************************************************************)
EXTENDS Estimates, Verdict, FiniteSetsExt

CONSTANTS
    Domain,         \* values of each position of the key, a sequence of sets
    Numeric,        \* positions of a numeric type, the only ones with bounds
    Null, Never,    \* NULL, and a table that was never analyzed
    NeverAnalyzed,  \* its reltuples: -1 from PostgreSQL 14 on, 0 before
    Nullable,       \* positions of the child key that admit NULL
    Loaded,         \* what the child may hold when the run starts
    MaxRows,        \* bound on the rows of each table
    Total           \* sum of the candidate's generation signals

ASSUME TotalAssumption == Total \in Nat

(* A key has finitely many columns, and NULL is no value of any.            *)
ASSUME DomainAssumption ==
    /\ IsFiniteSet(DOMAIN Domain)
    /\ \A i \in DOMAIN Domain : IsFiniteSet(Domain[i]) /\ Null \notin Domain[i]

VARIABLES
    child, parent,  \* the tables
    stat,           \* what each table held at its last ANALYZE, or Never
    read,           \* the same, as catalog.Read saw it
    stage,          \* "catalog", "stats", "done"
    candidate       \* the candidate's outcome, score and signals

vars == <<child, parent, stat, read, stage, candidate>>
tables == <<child, parent, stat>>

Positions == DOMAIN Domain
Tuples    == {t \in [Positions -> (UNION {Domain[i] : i \in Positions}) \union {Null}] :
                 \A i \in Positions : t[i] \in Domain[i] \/ (t[i] = Null /\ i \in Nullable)}
Complete  == {t \in Tuples : \A i \in Positions : t[i] # Null}

ASSUME RowsAssumption == MaxRows \in Nat /\ Loaded \subseteq [Tuples -> 0..MaxRows]

RowsIn(bag, S) == SumFunctionOnSet(bag, S)
Size(bag)      == RowsIn(bag, Tuples)
Values(bag, i) == {t[i] : t \in {u \in Tuples : bag[u] > 0}} \ {Null}
KeyValues(S, i) == {t[i] : t \in S}

------------------------------------------------------------------------------
(* PostgreSQL's side of the statistics: what ANALYZE left.                  *)

ChildReltuples(seen)  == IF seen = Never THEN NeverAnalyzed ELSE Size(seen)
ParentReltuples(seen) == IF seen = Never THEN NeverAnalyzed ELSE Cardinality(seen)

(* The pg_stats rows a column may have: none, a count, or a ratio.          *)
ColumnsOf(seen, i) ==
    IF seen = Never THEN {AbsentColumn}
    ELSE IF Size(seen) = 0 THEN {AbsentColumn}
    ELSE LET d == Cardinality(Values(seen, i))
         IN  IF d = 0 THEN {[present |-> TRUE, kind |-> "zero", num |-> 0, den |-> 1]}
             ELSE {[present |-> TRUE, kind |-> "count", num |-> d, den |-> 1],
                   [present |-> TRUE, kind |-> "ratio", num |-> d, den |-> Size(seen)]}

(* A histogram covers what the most-common-values list does not; it is      *)
(* fetched for the numeric family only.                                     *)
HistogramsOf(values) ==
    {NoBounds} \union
    {[has |-> TRUE, low |-> Min(S), high |-> Max(S)] : S \in {T \in SUBSET values : Cardinality(T) > 1}}

ChildHistograms(i) ==
    IF stat.child = Never \/ i \notin Numeric THEN {NoBounds}
    ELSE HistogramsOf(Values(stat.child, i))

ParentHistograms(i) ==
    IF stat.parent = Never \/ i \notin Numeric THEN {NoBounds}
    ELSE HistogramsOf(KeyValues(stat.parent, i))

------------------------------------------------------------------------------
Pending == [outcome |-> "pending", score |-> saturate(Total), signals |-> {}]

Init ==
    /\ child \in Loaded
    /\ parent = {}
    /\ stat = [child |-> Never, parent |-> Never]
    /\ read = [child |-> Never, parent |-> Never]
    /\ stage = "catalog"
    /\ candidate = Pending

InsertChild(t) ==
    /\ stage # "done"
    /\ Size(child) < MaxRows
    /\ child' = [child EXCEPT ![t] = @ + 1]
    /\ UNCHANGED <<parent, stat, read, stage, candidate>>

InsertParent(k) ==
    /\ stage # "done"
    /\ Cardinality(parent) < MaxRows
    /\ k \notin parent
    /\ parent' = parent \union {k}
    /\ UNCHANGED <<child, stat, read, stage, candidate>>

AnalyzeChild ==
    /\ stage # "done"
    /\ stat' = [stat EXCEPT !.child = child]
    /\ UNCHANGED <<child, parent, read, stage, candidate>>

AnalyzeParent ==
    /\ stage # "done"
    /\ stat' = [stat EXCEPT !.parent = parent]
    /\ UNCHANGED <<child, parent, read, stage, candidate>>

(* catalog.Read: the row estimates are taken here, and not again.           *)
ReadCatalog ==
    /\ stage = "catalog"
    /\ read' = stat
    /\ stage' = "stats"
    /\ UNCHANGED <<tables, candidate>>

(* stats.Prefilter: pg_stats is read now, against the earlier estimates.    *)
Evaluate ==
    /\ stage = "stats"
    /\ \E columns \in [Positions -> UNION {ColumnsOf(stat.child, i) : i \in Positions}],
          lows \in [Positions -> UNION {ChildHistograms(i) : i \in Positions}],
          highs \in [Positions -> UNION {ParentHistograms(i) : i \in Positions}] :
          /\ \A i \in Positions :
                /\ columns[i] \in ColumnsOf(stat.child, i)
                /\ lows[i] \in ChildHistograms(i)
                /\ highs[i] \in ParentHistograms(i)
          /\ LET childRows  == EstimatedRowCount(ChildReltuples(read.child))
                 parentRows == EstimatedRowCount(ParentReltuples(read.parent))
                 result     == evaluateOne(lowerBoundDistinct(columns, childRows), parentRows,
                                           rangeDisjoint(lows, highs))
             IN  candidate' = [outcome |-> result.outcome, signals |-> result.signals,
                               score |-> Rescore(Total, result.signals)]
    /\ stage' = "done"
    /\ UNCHANGED <<tables, read>>

Next ==
    \/ \E t \in Tuples : InsertChild(t)
    \/ \E k \in Complete : InsertParent(k)
    \/ AnalyzeChild \/ AnalyzeParent
    \/ ReadCatalog
    \/ Evaluate

Spec == Init /\ [][Next]_vars

------------------------------------------------------------------------------
(* Properties.                                                              *)

TypeOK ==
    /\ child \in [Tuples -> 0..MaxRows]
    /\ parent \in SUBSET Complete
    /\ stage \in {"catalog", "stats", "done"}
    /\ candidate.outcome \in Outcomes \union {"pending"}
    /\ candidate.signals \subseteq StatSignals
    /\ candidate.score \in 0..100

(* What the full validation query would count now (validate/query.go).      *)
Measured ==
    [sampledRows |-> Size(child),
     notNull     |-> RowsIn(child, Complete),
     distinct    |-> Cardinality({t \in Complete : child[t] > 0}),
     orphanRows  |-> RowsIn(child, Complete \ parent),
     orphanVals  |-> Cardinality({t \in Complete \ parent : child[t] > 0})]

DefaultOptions == [full |-> TRUE, targetRows |-> 0, broken |-> 0, reject |-> 0, maxNull |-> 0]

(* Every statistic used describes the tables as they are, or is missing.    *)
Trustworthy ==
    /\ read.child \in {Never, child} /\ stat.child \in {Never, child}
    /\ read.parent \in {Never, parent}

(* The rejection is arithmetic, not a guess: with statistics that are true  *)
(* or missing, no relationship a full validation would confirm is rejected. *)
RejectionCostsNoConfirmation ==
    candidate.outcome = "rejected" /\ Trustworthy =>
        verdict(Measured, "full", DefaultOptions) # "confirmed"

(* Missing statistics give no opinion: with a table never analyzed when it  *)
(* was read, the candidate passes with its score, marked.                   *)
NoStatisticsNoOpinion ==
    /\ stage = "done"
    /\ stat.child = Never \/ read.child = Never \/ read.parent = Never
    => candidate = [outcome |-> "nostats", score |-> saturate(Total),
                    signals |-> {"stats_unavailable"}]

(* The absence of a mark is an approval: a candidate that leaves with no    *)
(* signal had both estimates, and no column of the child is more varied     *)
(* than the parent has rows.                                                *)
UnmarkedWasChecked ==
    /\ stage = "done"
    /\ candidate.signals = {}
    /\ Trustworthy
    => /\ read.child # Never /\ read.parent # Never
       /\ \A i \in Positions : Cardinality(Values(child, i)) <= Cardinality(parent)
==============================================================================
