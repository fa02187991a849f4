---------------------------- MODULE PrefilterProofs ----------------------------
(***************************************************************************)
(* What the prefilter makes of statistics that are not there, for every    *)
(* key, every content of the tables and every order of loading, ANALYZE    *)
(* and reading.                                                            *)
(***************************************************************************)
EXTENDS Prefilter, CountingProofs

Unanswered == stat.child = Never \/ read.child = Never \/ read.parent = Never

Unheard == [outcome |-> "nostats", score |-> saturate(Total), signals |-> {"stats_unavailable"}]

(* A column without a row in pg_stats bounds nothing.                       *)
LEMMA NothingKnown ==
    ASSUME NEW columns, NEW childRows,
           \/ childRows = Unknown
           \/ \A i \in DOMAIN columns : columns[i] = AbsentColumn
    PROVE  lowerBoundDistinct(columns, childRows) = Unknown
<1>1. CASE childRows = Unknown
  BY <1>1 DEF lowerBoundDistinct
<1>2. CASE \A i \in DOMAIN columns : columns[i] = AbsentColumn
  <2>1. \A i \in DOMAIN columns : EstimatedDistinct(columns[i], childRows) = Unknown
    BY <1>2 DEF EstimatedDistinct, AbsentColumn
  <2>2. {EstimatedDistinct(columns[i], childRows) : i \in DOMAIN columns} \ {Unknown} = {}
    BY <2>1
  <2> QED BY <2>2 DEF lowerBoundDistinct
<1> QED BY <1>1, <1>2

(* The sentinel of PostgreSQL 14 on: a negative reltuples.                  *)
LEMMA SentinelIsUnknown ==
    ASSUME NeverAnalyzed \in Int, NeverAnalyzed < 0
    PROVE  /\ EstimatedRowCount(ChildReltuples(Never)) = Unknown
           /\ EstimatedRowCount(ParentReltuples(Never)) = Unknown
BY DEF EstimatedRowCount, ChildReltuples, ParentReltuples

LEMMA MarkedWithItsScore ==
    ASSUME NEW distinct, NEW parentRows, NEW disjoint, CannotTell(distinct, parentRows)
    PROVE  LET result == evaluateOne(distinct, parentRows, disjoint)
           IN  /\ result.outcome = "nostats" /\ result.signals = {"stats_unavailable"}
               /\ Rescore(Total, result.signals) = saturate(Total)
<1>1. evaluateOne(distinct, parentRows, disjoint) = [outcome |-> "nostats", signals |-> {"stats_unavailable"}]
  BY DEF evaluateOne
<1>2. penalties({"stats_unavailable"}) = 0
  BY DEF penalties
<1>3. Rescore(Total, {"stats_unavailable"}) = saturate(Total)
  BY <1>2, TotalAssumption DEF Rescore
<1> QED BY <1>1, <1>3

LEMMA EvaluateUnheard ==
    ASSUME NeverAnalyzed \in Int, NeverAnalyzed < 0, Unanswered, Evaluate
    PROVE  candidate' = Unheard
<1>1. PICK columns \in [Positions -> UNION {ColumnsOf(stat.child, i) : i \in Positions}],
           lows \in [Positions -> UNION {ChildHistograms(i) : i \in Positions}],
           highs \in [Positions -> UNION {ParentHistograms(i) : i \in Positions}] :
         /\ \A i \in Positions : columns[i] \in ColumnsOf(stat.child, i)
         /\ LET result == evaluateOne(
                     lowerBoundDistinct(columns, EstimatedRowCount(ChildReltuples(read.child))),
                     EstimatedRowCount(ParentReltuples(read.parent)), rangeDisjoint(lows, highs))
            IN  candidate' = [outcome |-> result.outcome, signals |-> result.signals,
                              score |-> Rescore(Total, result.signals)]
  BY DEF Evaluate
<1> DEFINE childRows  == EstimatedRowCount(ChildReltuples(read.child))
           parentRows == EstimatedRowCount(ParentReltuples(read.parent))
           floor      == lowerBoundDistinct(columns, childRows)
<1>2. CannotTell(floor, parentRows)
  <2>1. CASE stat.child = Never
    <3>1. \A i \in DOMAIN columns : columns[i] = AbsentColumn
      BY <1>1, <2>1 DEF ColumnsOf
    <3> QED BY <3>1, NothingKnown DEF CannotTell
  <2>2. CASE read.child = Never
    BY <2>2, SentinelIsUnknown, NothingKnown DEF CannotTell
  <2>3. CASE read.parent = Never
    BY <2>3, SentinelIsUnknown DEF CannotTell
  <2> QED BY <2>1, <2>2, <2>3 DEF Unanswered
<1> HIDE DEF childRows, parentRows, floor
<1>3. /\ evaluateOne(floor, parentRows, rangeDisjoint(lows, highs)).outcome = "nostats"
      /\ evaluateOne(floor, parentRows, rangeDisjoint(lows, highs)).signals = {"stats_unavailable"}
      /\ Rescore(Total, evaluateOne(floor, parentRows, rangeDisjoint(lows, highs)).signals) = saturate(Total)
  BY <1>2, MarkedWithItsScore
<1> QED BY <1>1, <1>3 DEF Unheard, childRows, parentRows, floor

(* evaluateOne: where a table was never analyzed when it was read, the      *)
(* candidate passes, marked and with the score generation gave it.  From    *)
(* PostgreSQL 14 on, where the sentinel is negative.                        *)
THEOREM MissingStatisticsGiveNoOpinion ==
    ASSUME NeverAnalyzed \in Int, NeverAnalyzed < 0
    PROVE  Spec => []NoStatisticsNoOpinion
<1>1. Init => NoStatisticsNoOpinion
  BY DEF Init, NoStatisticsNoOpinion
<1>2. NoStatisticsNoOpinion /\ [Next]_vars => NoStatisticsNoOpinion'
  <2> SUFFICES ASSUME NoStatisticsNoOpinion, [Next]_vars, stage' = "done", Unanswered'
               PROVE  candidate' = Unheard
    BY DEF NoStatisticsNoOpinion, Unanswered, Unheard
  <2>1. CASE Evaluate
    <3>1. Unanswered
      BY <2>1 DEF Evaluate, tables, Unanswered
    <3> QED BY <2>1, <3>1, EvaluateUnheard
  <2>2. CASE UNCHANGED vars
    BY <2>2 DEF vars, NoStatisticsNoOpinion, Unanswered, Unheard
  <2>3. CASE /\ stage' = stage /\ stage # "done"
    BY <2>3
  <2>4. CASE ReadCatalog
    BY <2>4 DEF ReadCatalog
  <2> QED
    BY <2>1, <2>2, <2>3, <2>4 DEF Next, InsertChild, InsertParent, AnalyzeChild, AnalyzeParent
<1> QED BY <1>1, <1>2, PTL DEF Spec

------------------------------------------------------------------------------
(* The tables.                                                              *)

LEMMA TuplesAreFinite == IsFiniteSet(Tuples)
<1> DEFINE V == (UNION {Domain[i] : i \in Positions}) \union {Null}
           name == [i \in Positions |-> Domain[i]]
           image == {Domain[i] : i \in Positions}
<1>1. name \in Surjection(Positions, image)
  BY DEF Surjection
<1>2. IsFiniteSet(image)
  <2> HIDE DEF name, image
  <2> QED BY <1>1, DomainAssumption, FS_Surjection DEF Positions
<1>3. IsFiniteSet(UNION image)
  <2>1. \A T \in image : IsFiniteSet(T)
    BY DomainAssumption DEF Positions
  <2> HIDE DEF image
  <2> QED BY <1>2, <2>1, FS_UNION
<1>4. IsFiniteSet(V)
  <2> HIDE DEF image
  <2>1. V = (UNION image) \union {Null}
    BY DEF image
  <2> QED BY <1>3, <2>1, FS_AddElement
<1>5. IsFiniteSet([Positions -> V])
  <2> HIDE DEF V
  <2> QED BY <1>4, DomainAssumption, FunctionsAreFinite DEF Positions
<1>6. Tuples \in SUBSET [Positions -> V]
  BY DEF Tuples
<1> HIDE DEF V
<1> QED BY <1>5, <1>6, FS_Subset

Tables ==
    /\ child \in [Tuples -> 0..MaxRows]
    /\ parent \in SUBSET Complete

LEMMA RowsAreCounted ==
    ASSUME NEW bag \in [Tuples -> Nat], NEW S \in SUBSET Tuples
    PROVE  /\ IsFiniteSet(S)
           /\ RowsIn(bag, S) \in Nat
           /\ \A t \in S : bag[t] =< RowsIn(bag, S)
<1>1. IsFiniteSet(S) /\ \A t \in S : bag[t] \in Nat
  BY TuplesAreFinite, FS_Subset
<1> QED BY <1>1, SumIsNat, PartOfTheSum DEF RowsIn

LEMMA ChildIsABag ==
    ASSUME Tables
    PROVE  child \in [Tuples -> Nat]
BY RowsAssumption DEF Tables

LEMMA ParentIsCounted ==
    ASSUME Tables
    PROVE  IsFiniteSet(parent) /\ Cardinality(parent) \in Nat
<1>1. parent \in SUBSET Tuples
  BY DEF Tables, Complete
<1> QED BY <1>1, TuplesAreFinite, FS_Subset, FS_CardinalityType

(* The values of one column of a table.                                     *)
LEMMA ValuesAreCounted ==
    ASSUME NEW bag, NEW i \in Positions
    PROVE  /\ IsFiniteSet(Values(bag, i))
           /\ Cardinality(Values(bag, i)) \in Nat
<1>1. Values(bag, i) \in SUBSET Domain[i]
  BY DEF Values, Tuples
<1> QED BY <1>1, DomainAssumption, FS_Subset, FS_CardinalityType DEF Positions

LEMMA EmptyHasNoValues ==
    ASSUME NEW bag \in [Tuples -> Nat], Size(bag) = 0, NEW i \in Positions
    PROVE  Values(bag, i) = {}
<1>1. \A t \in Tuples : ~ (bag[t] > 0)
  BY RowsAreCounted DEF Size
<1> QED BY <1>1 DEF Values

(* A column of more values than the parent has keys holds one no key has.   *)
LEMMA SomeValueIsMissing ==
    ASSUME Tables, NEW i \in Positions, Cardinality(Values(child, i)) > Cardinality(parent)
    PROVE  \E v \in Values(child, i) : \A k \in parent : k[i] # v
<1> DEFINE at == [k \in parent |-> k[i]]
           held == {k[i] : k \in parent}
<1>1. at \in Surjection(parent, held)
  BY DEF Surjection
<1>2. IsFiniteSet(held) /\ Cardinality(held) =< Cardinality(parent)
  <2> HIDE DEF at, held
  <2> QED BY <1>1, ParentIsCounted, FS_Surjection
<1>3. SUFFICES ASSUME Values(child, i) \in SUBSET held PROVE FALSE
  OBVIOUS
<1>4. Cardinality(Values(child, i)) =< Cardinality(held) /\ Cardinality(held) \in Nat
  <2> HIDE DEF held
  <2> QED BY <1>2, <1>3, FS_Subset, FS_CardinalityType
<1> HIDE DEF held
<1> QED BY <1>2, <1>4, ParentIsCounted, ValuesAreCounted

------------------------------------------------------------------------------
(* What the statistics say of tables they describe.                         *)

LEMMA RatioOfTheRows ==
    ASSUME NEW d \in Nat, NEW n \in Nat, n > 0
    PROVE  Round(d * n, n) = d
<1>1. 2 * (d * n) + n = d * (2 * n) + n
  OBVIOUS
<1>2. (d * (2 * n) + n) \div (2 * n) = d
  <2> DEFINE b == 2 * n
             a == d * b + n
  <2>1. a \in Int /\ b \in Nat /\ b > 0 /\ 0 =< n /\ n < b
    OBVIOUS
  <2>2. a = d * b + n
    OBVIOUS
  <2> HIDE DEF a, b
  <2>3. a \div b \in Int /\ b * (a \div b) =< a /\ a < b * (a \div b) + b
    BY <2>1
  <2>4. b * (a \div b - d) =< n /\ n < b * (a \div b - d) + b
    BY <2>1, <2>2, <2>3
  <2>5. a \div b - d = 0
    BY <2>1, <2>3, <2>4
  <2> QED BY <2>3, <2>5 DEF a, b
<1> QED BY <1>1, <1>2 DEF Round

(* A column of a table as it is: its number of values, or Unknown when it   *)
(* has none.                                                                *)
LEMMA ColumnIsTrue ==
    ASSUME NEW bag \in [Tuples -> Nat], bag # Never, NEW i \in Positions,
           NEW col \in ColumnsOf(bag, i)
    PROVE  LET told == EstimatedDistinct(col, Size(bag))
           IN  IF Values(bag, i) = {} THEN told = Unknown ELSE told = Cardinality(Values(bag, i))
<1> DEFINE d == Cardinality(Values(bag, i))
<1>1. Size(bag) \in Nat
  BY RowsAreCounted DEF Size
<1>2. d \in Nat /\ (d = 0 <=> Values(bag, i) = {})
  BY ValuesAreCounted, FS_EmptySet
<1>3. CASE Size(bag) = 0
  <2>1. Values(bag, i) = {}
    BY <1>3, EmptyHasNoValues
  <2>2. EstimatedDistinct(col, Size(bag)) = Unknown
    BY <1>3 DEF ColumnsOf, AbsentColumn, EstimatedDistinct
  <2> QED BY <2>1, <2>2
<1>4. CASE Size(bag) # 0 /\ d = 0
  <2>1. EstimatedDistinct(col, Size(bag)) = Unknown
    BY <1>4 DEF ColumnsOf, EstimatedDistinct
  <2> QED BY <1>2, <1>4, <2>1
<1>5. CASE Size(bag) # 0 /\ d # 0
  <2>1. \/ col = [present |-> TRUE, kind |-> "count", num |-> d, den |-> 1]
        \/ col = [present |-> TRUE, kind |-> "ratio", num |-> d, den |-> Size(bag)]
    BY <1>5 DEF ColumnsOf
  <2>2. EstimatedDistinct(col, Size(bag)) \in {d, Round(d * Size(bag), Size(bag))}
    <3> HIDE DEF d
    <3> QED BY <1>1, <1>5, <2>1 DEF EstimatedDistinct
  <2> HIDE DEF d
  <2>3. EstimatedDistinct(col, Size(bag)) = d
    BY <1>1, <1>2, <1>5, <2>2, RatioOfTheRows
  <2> QED BY <1>2, <1>5, <2>3 DEF d
<1> QED BY <1>3, <1>4, <1>5

LEMMA ScoresAreBounded ==
    ASSUME NEW signals
    PROVE  Rescore(Total, signals) \in 0..100
BY TotalAssumption DEF Rescore, penalties, saturate, penaltyCardViolation, penaltyRangeViolation

LEMMA OutcomesAre ==
    ASSUME NEW distinct, NEW parentRows, NEW disjoint
    PROVE  /\ evaluateOne(distinct, parentRows, disjoint).outcome \in Outcomes
           /\ evaluateOne(distinct, parentRows, disjoint).signals \subseteq StatSignals
BY DEF evaluateOne, Outcomes, StatSignals

LEMMA EvaluateLeaves ==
    ASSUME Evaluate
    PROVE  /\ candidate'.outcome \in Outcomes
           /\ candidate'.signals \subseteq StatSignals
           /\ candidate'.score \in 0..100
<1>1. PICK distinct, parentRows, disjoint :
          LET result == evaluateOne(distinct, parentRows, disjoint)
          IN  candidate' = [outcome |-> result.outcome, signals |-> result.signals,
                            score |-> Rescore(Total, result.signals)]
  BY DEF Evaluate
<1> QED BY <1>1, OutcomesAre, ScoresAreBounded

(* Every table holds rows of its own columns, and no score leaves 0..100.   *)
THEOREM TypesOfThePrefilter == Spec => []TypeOK
<1>1. Init => TypeOK
  BY RowsAssumption, TotalAssumption DEF Init, TypeOK, Pending, saturate, Outcomes, StatSignals
<1>2. TypeOK /\ [Next]_vars => TypeOK'
  <2> SUFFICES ASSUME TypeOK, [Next]_vars PROVE TypeOK'
    OBVIOUS
  <2>1. ASSUME NEW t \in Tuples, InsertChild(t) PROVE TypeOK'
    <3>1. child[t] + 1 \in 0..MaxRows
      <4>1. child \in [Tuples -> Nat] /\ child[t] \in Nat /\ Size(child) < MaxRows
        BY <2>1, RowsAssumption DEF TypeOK, InsertChild
      <4>2. child[t] =< Size(child) /\ Size(child) \in Nat
        BY <4>1, RowsAreCounted DEF Size
      <4> QED BY <4>1, <4>2, RowsAssumption
    <3> QED BY <2>1, <3>1 DEF TypeOK, InsertChild
  <2>2. ASSUME NEW k \in Complete, InsertParent(k) PROVE TypeOK'
    BY <2>2 DEF TypeOK, InsertParent
  <2>3. CASE AnalyzeChild \/ AnalyzeParent \/ ReadCatalog
    BY <2>3 DEF TypeOK, AnalyzeChild, AnalyzeParent, ReadCatalog, tables
  <2>4. CASE Evaluate
    <3>1. UNCHANGED <<child, parent>> /\ stage' = "done"
      BY <2>4 DEF Evaluate, tables
    <3> QED BY <2>4, <3>1, EvaluateLeaves DEF TypeOK
  <2>5. CASE UNCHANGED vars
    BY <2>5 DEF TypeOK, vars
  <2> QED BY <2>1, <2>2, <2>3, <2>4, <2>5 DEF Next
<1> QED BY <1>1, <1>2, PTL DEF Spec

------------------------------------------------------------------------------
(* What an opinion rests on.                                                *)

(* The floor the candidate was judged by, and the rows it was held against. *)
JudgedBy(floor, parentRows) == \E disjoint :
    /\ candidate'.outcome = evaluateOne(floor, parentRows, disjoint).outcome
    /\ candidate'.signals = evaluateOne(floor, parentRows, disjoint).signals

(* The most varied column of the child, and nothing less.                   *)
IsTheFloor(floor) ==
    /\ \E i \in Positions : floor = Cardinality(Values(child, i))
    /\ \A i \in Positions : Cardinality(Values(child, i)) =< floor

LEMMA FloorIsTheMost ==
    ASSUME NEW bag \in [Tuples -> Nat], bag # Never, bag = child,
           NEW columns, DOMAIN columns = Positions,
           \A i \in Positions : columns[i] \in ColumnsOf(bag, i),
           lowerBoundDistinct(columns, Size(bag)) # Unknown
    PROVE  IsTheFloor(lowerBoundDistinct(columns, Size(bag)))
<1> DEFINE told(i) == EstimatedDistinct(columns[i], Size(bag))
           all     == {told(i) : i \in Positions}
           known   == all \ {Unknown}
           floor   == lowerBoundDistinct(columns, Size(bag))
<1>1. \A i \in Positions : IF Values(bag, i) = {} THEN told(i) = Unknown
                                                  ELSE told(i) = Cardinality(Values(bag, i))
  BY ColumnIsTrue
<1>2. \A i \in Positions : Cardinality(Values(bag, i)) \in Nat
  BY ValuesAreCounted
<1>3. IsFiniteSet(known)
  <2>1. [i \in Positions |-> told(i)] \in Surjection(Positions, all)
    BY DEF Surjection
  <2>2. IsFiniteSet(all)
    <3> HIDE DEF told, all
    <3> QED BY <2>1, DomainAssumption, FS_Surjection DEF Positions
  <2> HIDE DEF all
  <2> QED BY <2>2, FS_Difference
<1>4. floor = (CHOOSE n \in known : \A m \in known : m <= n) /\ known # {}
  BY DEF lowerBoundDistinct
<1>5. known \in SUBSET Int
  <2> HIDE DEF told
  <2> QED BY <1>1, <1>2
<1> HIDE DEF floor, known
<1>6. floor \in known /\ \A m \in known : m =< floor
  <2>1. \E n \in known : \A m \in known : n >= m
    BY <1>3, <1>4, <1>5, GreatestExists DEF HasGreatest
  <2>2. \E n \in known : \A m \in known : m =< n
    BY <1>5, <2>1
  <2> QED BY <1>4, <2>2
<1> HIDE DEF told
<1>7. \E i \in Positions : floor = Cardinality(Values(bag, i))
  BY <1>1, <1>6 DEF known
<1>8. \A i \in Positions : Cardinality(Values(bag, i)) =< floor
  <2> SUFFICES ASSUME NEW i \in Positions PROVE Cardinality(Values(bag, i)) =< floor
    OBVIOUS
  <2>1. CASE Values(bag, i) = {}
    BY <1>2, <1>7, <2>1, FS_EmptySet
  <2>2. CASE Values(bag, i) # {}
    <3>1. told(i) = Cardinality(Values(bag, i)) /\ told(i) # Unknown
      BY <1>1, <1>2, <2>2 DEF Unknown
    <3> QED BY <1>6, <3>1 DEF known
  <2> QED BY <2>1, <2>2
<1> QED BY <1>7, <1>8 DEF floor, IsTheFloor

(* With statistics that are true or missing, an opinion was formed on the   *)
(* tables as they are: both analyzed, the floor the most varied column.     *)
LEMMA AnOpinionIsOnTheTables ==
    ASSUME NeverAnalyzed \in Int, NeverAnalyzed < 0, Tables, Trustworthy, Evaluate,
           candidate'.signals # {"stats_unavailable"}
    PROVE  /\ read.child # Never /\ read.parent # Never
           /\ \E floor : /\ IsTheFloor(floor)
                         /\ floor # Unknown
                         /\ JudgedBy(floor, Cardinality(parent))
<1>1. ~ Unanswered
  <2> SUFFICES ASSUME Unanswered PROVE FALSE
    OBVIOUS
  <2>1. candidate' = Unheard
    BY EvaluateUnheard
  <2> QED BY <2>1 DEF Unheard
<1>2. /\ read.child = child /\ stat.child = child /\ child # Never
      /\ read.parent = parent /\ parent # Never
  BY <1>1 DEF Unanswered, Trustworthy
<1>3. child \in [Tuples -> Nat] /\ Size(child) \in Nat /\ Cardinality(parent) \in Nat
  <2>1. child \in [Tuples -> Nat]
    BY ChildIsABag
  <2> QED BY <2>1, RowsAreCounted, ParentIsCounted DEF Size
<1>4. /\ EstimatedRowCount(ChildReltuples(read.child)) = Size(child)
      /\ EstimatedRowCount(ParentReltuples(read.parent)) = Cardinality(parent)
  BY <1>2, <1>3 DEF EstimatedRowCount, ChildReltuples, ParentReltuples
<1>5. PICK columns \in [Positions -> UNION {ColumnsOf(stat.child, i) : i \in Positions}],
           lows \in [Positions -> UNION {ChildHistograms(i) : i \in Positions}],
           highs \in [Positions -> UNION {ParentHistograms(i) : i \in Positions}] :
         /\ \A i \in Positions : columns[i] \in ColumnsOf(stat.child, i)
         /\ LET result == evaluateOne(
                     lowerBoundDistinct(columns, EstimatedRowCount(ChildReltuples(read.child))),
                     EstimatedRowCount(ParentReltuples(read.parent)), rangeDisjoint(lows, highs))
            IN  candidate' = [outcome |-> result.outcome, signals |-> result.signals,
                              score |-> Rescore(Total, result.signals)]
  BY DEF Evaluate
<1> DEFINE floor == lowerBoundDistinct(columns, Size(child))
<1>6. JudgedBy(floor, Cardinality(parent))
  BY <1>4, <1>5 DEF JudgedBy
<1>7. floor # Unknown
  <2> SUFFICES ASSUME floor = Unknown PROVE FALSE
    OBVIOUS
  <2>1. \A parentRows, disjoint : evaluateOne(floor, parentRows, disjoint).signals = {"stats_unavailable"}
    BY DEF evaluateOne, CannotTell
  <2> QED BY <1>6, <2>1 DEF JudgedBy
<1>8. DOMAIN columns = Positions /\ \A i \in Positions : columns[i] \in ColumnsOf(child, i)
  BY <1>2, <1>5
<1>9. IsTheFloor(floor)
  BY <1>2, <1>3, <1>7, <1>8, FloorIsTheMost
<1> QED BY <1>1, <1>6, <1>7, <1>9 DEF Unanswered

(* Nothing moves once the candidate has its outcome.                        *)
LEMMA DoneIsDone ==
    ASSUME [Next]_vars, stage = "done"
    PROVE  UNCHANGED vars
BY DEF Next, InsertChild, InsertParent, AnalyzeChild, AnalyzeParent, ReadCatalog, Evaluate, vars

(* And only Evaluate gives it one.                                          *)
LEMMA DoneByEvaluate ==
    ASSUME [Next]_vars, stage # "done", stage' = "done"
    PROVE  Evaluate /\ UNCHANGED <<child, parent, stat, read>>
BY DEF Next, InsertChild, InsertParent, AnalyzeChild, AnalyzeParent, ReadCatalog, Evaluate, vars, tables

LEMMA TypesGiveTables ==
    ASSUME TypeOK
    PROVE  Tables
BY DEF TypeOK, Tables

(* evaluateOne: a candidate that leaves without a mark had both estimates,  *)
(* and with statistics that are true or missing no column of the child has  *)
(* more values than the parent has rows.                                    *)
THEOREM AnUnmarkedCandidateWasChecked ==
    ASSUME NeverAnalyzed \in Int, NeverAnalyzed < 0
    PROVE  Spec => []UnmarkedWasChecked
<1>1. Init => UnmarkedWasChecked
  BY DEF Init, UnmarkedWasChecked
<1>2. TypeOK /\ UnmarkedWasChecked /\ [Next]_vars => UnmarkedWasChecked'
  <2> SUFFICES ASSUME TypeOK, UnmarkedWasChecked, [Next]_vars,
                      stage' = "done", candidate'.signals = {}, Trustworthy'
               PROVE  /\ (read.child # Never)' /\ (read.parent # Never)'
                      /\ \A i \in Positions : Cardinality(Values(child', i)) <= Cardinality(parent')
    BY DEF UnmarkedWasChecked
  <2>1. CASE stage = "done"
    BY <2>1, DoneIsDone DEF vars, UnmarkedWasChecked, Trustworthy
  <2>2. CASE stage # "done"
    <3>1. Evaluate /\ UNCHANGED <<child, parent, stat, read>>
      BY <2>2, DoneByEvaluate
    <3>2. Tables /\ Trustworthy
      BY <3>1, TypesGiveTables DEF Trustworthy
    <3>3. /\ read.child # Never /\ read.parent # Never
          /\ \E floor : IsTheFloor(floor) /\ floor # Unknown /\ JudgedBy(floor, Cardinality(parent))
      BY <3>1, <3>2, AnOpinionIsOnTheTables
    <3>4. PICK floor : IsTheFloor(floor) /\ floor # Unknown /\ JudgedBy(floor, Cardinality(parent))
      BY <3>3
    <3>5. Cardinality(parent) \in Nat
      BY <3>2, ParentIsCounted
    <3>6. \A i \in Positions : Cardinality(Values(child, i)) \in Nat
      BY ValuesAreCounted
    <3>7. floor =< Cardinality(parent)
      <4>1. floor \in Nat
        BY <3>4, <3>6 DEF IsTheFloor
      <4> QED BY <3>4, <3>5, <4>1
              DEF JudgedBy, evaluateOne, CannotTell, BeyondTolerance, Exceeds, Unknown
    <3>8. \A i \in Positions : Cardinality(Values(child, i)) =< Cardinality(parent)
      <4>1. floor \in Nat
        BY <3>4, <3>6 DEF IsTheFloor
      <4> QED BY <3>4, <3>5, <3>6, <3>7, <4>1 DEF IsTheFloor
    <3> QED BY <3>1, <3>3, <3>8
  <2> QED BY <2>1, <2>2
<1> QED BY <1>1, <1>2, TypesOfThePrefilter, PTL DEF Spec

(* A row of the child holds NULL in all of its key or in none of it: a key  *)
(* of one column, or one of columns that are all NOT NULL.                  *)
NoPartialNull == (\E i : Positions = {i}) \/ Nullable \intersect Positions = {}

LEMMA OneValueMakesItComplete ==
    ASSUME NoPartialNull, NEW t \in Tuples, NEW i \in Positions, t[i] # Null
    PROVE  t \in Complete
<1>1. \A j \in Positions : t[j] # Null
  <2> SUFFICES ASSUME NEW j \in Positions PROVE t[j] # Null
    OBVIOUS
  <2>1. t[j] \in Domain[j] \/ (t[j] = Null /\ j \in Nullable)
    BY DEF Tuples
  <2>2. CASE \E n : Positions = {n}
    <3>1. i = j
      BY <2>2
    <3> QED BY <3>1
  <2>3. CASE Nullable \intersect Positions = {}
    BY <2>1, <2>3, DomainAssumption DEF Positions
  <2> QED BY <2>2, <2>3 DEF NoPartialNull
<1> QED BY <1>1 DEF Complete

LEMMA AnOrphanIsNoConfirmation ==
    ASSUME Tables, NEW t \in Complete \ parent, child[t] > 0
    PROVE  verdict(Measured, "full", DefaultOptions) # "confirmed"
<1>1. RowsIn(child, Complete \ parent) # 0
  <2>1. child \in [Tuples -> Nat] /\ Complete \ parent \in SUBSET Tuples
    BY ChildIsABag DEF Complete
  <2> QED BY <2>1, RowsAreCounted
<1>2. Measured.orphanRows # 0
  BY <1>1 DEF Measured
<1> HIDE DEF Measured
<1> QED BY <1>2 DEF verdict, NoOrphans, OrphanVerdict

(* A rejection is arithmetic and not a guess: with statistics that are true *)
(* or missing, a full validation of the rejected candidate would not have   *)
(* confirmed it.  The hypothesis on NULLs is the one the violation run      *)
(* drops.                                                                   *)
THEOREM ARejectionCostsNoConfirmation ==
    ASSUME NeverAnalyzed \in Int, NeverAnalyzed < 0, NoPartialNull
    PROVE  Spec => []RejectionCostsNoConfirmation
<1> DEFINE RejectionIsLast == candidate.outcome = "rejected" => stage = "done"
<1>1. Init => RejectionCostsNoConfirmation /\ RejectionIsLast
  BY DEF Init, RejectionCostsNoConfirmation, Pending
<1>2. TypeOK /\ RejectionIsLast /\ RejectionCostsNoConfirmation /\ [Next]_vars
         => RejectionCostsNoConfirmation' /\ RejectionIsLast'
  <2> SUFFICES ASSUME TypeOK, RejectionIsLast, RejectionCostsNoConfirmation, [Next]_vars,
                      candidate'.outcome = "rejected"
               PROVE  /\ stage' = "done"
                      /\ Trustworthy' => verdict(Measured', "full", DefaultOptions) # "confirmed"
    BY DEF RejectionCostsNoConfirmation, DefaultOptions
  <2>1. CASE stage = "done"
    <3>1. UNCHANGED vars
      BY <2>1, DoneIsDone
    <3>2. Trustworthy' = Trustworthy /\ Measured' = Measured
      BY <3>1 DEF vars, Trustworthy, Measured
    <3> QED BY <2>1, <3>1, <3>2 DEF vars, RejectionCostsNoConfirmation
  <2>2. CASE stage # "done"
    <3>1. Evaluate /\ UNCHANGED <<child, parent, stat, read>> /\ stage' = "done"
      BY <2>2 DEF Next, InsertChild, InsertParent, AnalyzeChild, AnalyzeParent, ReadCatalog,
                  Evaluate, vars, tables
    <3> SUFFICES ASSUME Trustworthy PROVE verdict(Measured, "full", DefaultOptions) # "confirmed"
      BY <3>1 DEF Trustworthy, Measured
    <3>2. Tables
      BY TypesGiveTables
    <3>3. candidate'.signals # {"stats_unavailable"}
      <4>1. PICK distinct, parentRows, disjoint :
              /\ candidate'.outcome = evaluateOne(distinct, parentRows, disjoint).outcome
              /\ candidate'.signals = evaluateOne(distinct, parentRows, disjoint).signals
        BY <3>1 DEF Evaluate
      <4> QED BY <4>1 DEF evaluateOne
    <3>4. PICK floor : IsTheFloor(floor) /\ floor # Unknown /\ JudgedBy(floor, Cardinality(parent))
      BY <3>1, <3>2, <3>3, AnOpinionIsOnTheTables
    <3>5. Cardinality(parent) \in Nat /\ \A i \in Positions : Cardinality(Values(child, i)) \in Nat
      BY <3>2, ParentIsCounted, ValuesAreCounted
    <3>6. PICK i \in Positions : floor = Cardinality(Values(child, i))
      BY <3>4 DEF IsTheFloor
    <3>7. Cardinality(Values(child, i)) > Cardinality(parent)
      BY <3>4, <3>5, <3>6
         DEF JudgedBy, evaluateOne, CannotTell, BeyondTolerance, Unknown, rejectFactor
    <3>8. PICK v \in Values(child, i) : \A k \in parent : k[i] # v
      BY <3>2, <3>7, SomeValueIsMissing
    <3>9. PICK t \in Tuples : child[t] > 0 /\ t[i] = v /\ v # Null
      BY <3>8 DEF Values
    <3>10. t \in Complete \ parent
      BY <3>8, <3>9, OneValueMakesItComplete
    <3> QED BY <3>2, <3>9, <3>10, AnOrphanIsNoConfirmation
  <2> QED BY <2>1, <2>2
<1> QED BY <1>1, <1>2, TypesOfThePrefilter, PTL DEF Spec
==============================================================================
