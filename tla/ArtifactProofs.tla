---------------------------- MODULE ArtifactProofs ----------------------------
(***************************************************************************)
(* Facts about the generated files and the queries in them: what           *)
(* FlattenSeq leaves in a sequence, whom a statement is about, and that the *)
(* listings of internal/report select the rows the containment query of    *)
(* internal/validate counted.                                              *)
(***************************************************************************)
EXTENDS CountingProofs, Artifacts, Containment

------------------------------------------------------------------------------
Flattens(f, ss, n) == f = [i \in 1..n |-> IF i = 1 THEN ss[i] ELSE f[i - 1] \o ss[i]]

LEMMA FlattenSeqIs ==
    ASSUME NEW ss, Len(ss) # 0
    PROVE  FlattenSeq(ss) = (CHOOSE f : Flattens(f, ss, Len(ss)))[Len(ss)]
BY Zenon DEF FlattenSeq, Flattens

LEMMA FlattensExist ==
    ASSUME NEW ss
    PROVE  \A n \in Nat : \E f : Flattens(f, ss, n)
<1> DEFINE Bad == {n \in Nat : ~ \E f : Flattens(f, ss, n)}
<1>1. \A n \in Bad : n # 0
  <2>1. Flattens([i \in 1..0 |-> <<>>], ss, 0)
    BY DEF Flattens
  <2> QED BY <2>1
<1>2. \A n \in Bad : \E m \in Bad : m < n
  <2> SUFFICES ASSUME NEW n \in Bad, n - 1 \notin Bad PROVE FALSE
    <3>1. \A n \in Bad : n \in Nat /\ n # 0 /\ n - 1 < n
      BY <1>1
    <3> QED BY <3>1
  <2>1. n \in Nat /\ n - 1 \in Nat
    <3>1. n \in Nat /\ n # 0
      BY <1>1
    <3> HIDE DEF Bad
    <3> QED BY <3>1
  <2>2. PICK f : Flattens(f, ss, n - 1)
    BY <2>1
  <2> DEFINE g == [i \in 1..n |-> IF i = 1 THEN ss[i] ELSE f[i - 1] \o ss[i]]
  <2>3. \A i \in 1..n : i # 1 => i - 1 \in 1..n /\ i - 1 \in 1..(n - 1)
    BY <2>1
  <2>4. \A i \in 1..(n - 1) : i \in 1..n
    BY <2>1
  <2>5. \A i \in 1..(n - 1) : g[i] = f[i]
    BY <2>2, <2>4 DEF Flattens
  <2>6. Flattens(g, ss, n)
    BY <2>3, <2>5 DEF Flattens
  <2> QED BY <2>6
<1>3. Bad = {}
  <2>1. Bad \in SUBSET Nat
    OBVIOUS
  <2> HIDE DEF Bad
  <2> QED BY <1>1, <1>2, <2>1, SizeInduction
<1> QED BY <1>3

LEMMA Concatenated ==
    ASSUME NEW X, NEW q \in Seq(X), NEW r \in Seq(X)
    PROVE  /\ q \o r \in Seq(X)
           /\ ToSet(q \o r) \subseteq ToSet(q) \cup ToSet(r)
<1> DEFINE a == q \o r
           m == Len(q)
           n == Len(r)
<1>1. /\ m \in Nat /\ n \in Nat /\ DOMAIN q = 1..m /\ DOMAIN r = 1..n
      /\ a \in Seq(X) /\ DOMAIN a = 1..(m + n)
      /\ \A i \in 1..(m + n) : a[i] = IF i =< m THEN q[i] ELSE r[i - m]
  OBVIOUS
<1> HIDE DEF a, m, n
<1>2. ASSUME NEW i \in 1..(m + n) PROVE a[i] \in ToSet(q) \cup ToSet(r)
  <2>1. CASE i =< m
    <3>1. i \in 1..m /\ a[i] = q[i]
      BY <1>1, <2>1
    <3> QED BY <1>1, <3>1 DEF ToSet
  <2>2. CASE ~(i =< m)
    <3>1. i - m \in 1..n /\ a[i] = r[i - m]
      BY <1>1, <2>2
    <3> QED BY <1>1, <3>1 DEF ToSet
  <2> QED BY <2>1, <2>2
<1>3. ToSet(a) \subseteq ToSet(q) \cup ToSet(r)
  BY <1>1, <1>2 DEF ToSet
<1> QED BY <1>1, <1>3 DEF a

(* Nothing is in the whole that is in none of its parts.                    *)
LEMMA FlattenedFrom ==
    ASSUME NEW X, NEW ss \in Seq(Seq(X))
    PROVE  \A x \in ToSet(FlattenSeq(ss)) : \E i \in DOMAIN ss : x \in ToSet(ss[i])
<1> DEFINE n == Len(ss)
<1>1. n \in Nat /\ DOMAIN ss = 1..n /\ \A i \in 1..n : ss[i] \in Seq(X)
  OBVIOUS
<1>2. CASE n = 0
  <2>1. FlattenSeq(ss) = ss
    BY <1>2 DEF FlattenSeq
  <2>2. ToSet(ss) = {}
    BY <1>1, <1>2 DEF ToSet
  <2> QED BY <2>1, <2>2
<1>3. CASE n # 0
  <2>1. PICK f : Flattens(f, ss, n) /\ FlattenSeq(ss) = f[n]
    <3> DEFINE f == CHOOSE f : Flattens(f, ss, n)
    <3>1. FlattenSeq(ss) = f[n]
      BY <1>3, FlattenSeqIs, Zenon
    <3>2. \E g : Flattens(g, ss, n)
      BY <1>1, FlattensExist
    <3>3. Flattens(f, ss, n)
      BY <3>2
    <3> QED BY <3>1, <3>3
  <2> HIDE DEF n
  <2> DEFINE Right(k) == f[k] \in Seq(X) /\ \A x \in ToSet(f[k]) : \E i \in 1..n : x \in ToSet(ss[i])
             Bad == {k \in Nat : k \in 1..n /\ ~Right(k)}
  <2>2. \A k \in Bad : k # 0
    BY <1>1
  <2>3. \A k \in Bad : \E m \in Bad : m < k
    <3> SUFFICES ASSUME NEW k \in Bad, k - 1 \notin Bad PROVE FALSE
      <4>1. \A k \in Bad : k \in Nat /\ k - 1 < k
        OBVIOUS
      <4> QED BY <4>1
    <3>1. k \in 1..n /\ ~Right(k)
      OBVIOUS
    <3>2. CASE k = 1
      <4>1. f[k] = ss[1]
        BY <2>1, <3>1, <3>2 DEF Flattens
      <4> QED BY <1>1, <3>1, <3>2, <4>1
    <3>3. CASE k # 1
      <4>1. k - 1 \in 1..n /\ k - 1 \in Nat
        BY <1>1, <3>1, <3>3
      <4>2. Right(k - 1)
        BY <4>1
      <4>3. f[k] = f[k - 1] \o ss[k]
        BY <2>1, <3>1, <3>3 DEF Flattens
      <4>4. f[k] \in Seq(X) /\ ToSet(f[k]) \subseteq ToSet(f[k - 1]) \cup ToSet(ss[k])
        BY <1>1, <3>1, <4>2, <4>3, Concatenated
      <4> QED BY <3>1, <4>2, <4>4
    <3> QED BY <3>2, <3>3
  <2>4. Bad = {}
    <3>1. Bad \in SUBSET Nat
      OBVIOUS
    <3> HIDE DEF Bad
    <3> QED BY <2>2, <2>3, <3>1, SizeInduction
  <2>5. n \in Nat /\ n \in 1..n
    BY <1>1, <1>3
  <2>6. Right(n)
    BY <2>4, <2>5
  <2> QED BY <1>1, <2>1, <2>6
<1> QED BY <1>2, <1>3

------------------------------------------------------------------------------
(* What the validation counts and what the SQL lists are the same rows.     *)

LEMMA NullFree ==
    ASSUME NEW row, NEW columns, IsFiniteSet(DOMAIN columns)
    PROVE  num_nulls(row, columns) = 0 <=> \A k \in DOMAIN columns : row[columns[k]] # Null
<1> DEFINE N == {k \in DOMAIN columns : row[columns[k]] = Null}
<1>1. IsFiniteSet(N)
  BY FS_Subset
<1>2. Cardinality(N) = 0 <=> N = {}
  BY <1>1, FS_EmptySet
<1> QED BY <1>2 DEF num_nulls

LEMMA MatchedIs ==
    ASSUME NEW row, NEW columns, NEW parent, NEW key, DOMAIN columns = DOMAIN key
    PROVE  Matched(Tuple(row, columns), parent, key) <=>
             \E j \in DOMAIN parent : \A k \in DOMAIN columns : parent[j][key[k]] = row[columns[k]]
BY DEF Matched, Tuple

(* The scanned rows a foreign key would reject, and their values.           *)
RejectedOf(rows, columns, scanned, parent, key) == scanned \cap antiJoin(rows, columns, parent, key)
OrphansOf(rows, columns, scanned, parent, key) ==
    {Tuple(rows[i], columns) : i \in RejectedOf(rows, columns, scanned, parent, key)}

PresentOf(rows, columns, scanned) == {i \in scanned : num_nulls(rows[i], columns) = 0}
RowsWith(rows, columns, S, v) == {i \in S : Tuple(rows[i], columns) = v}
WeightOf(rows, columns, scanned) ==
    [v \in {Tuple(rows[i], columns) : i \in PresentOf(rows, columns, scanned)} |->
        Cardinality(RowsWith(rows, columns, PresentOf(rows, columns, scanned), v))]

LEMMA RejectedIs ==
    ASSUME NEW rows, NEW columns, NEW parent, NEW key, NEW scanned \in SUBSET DOMAIN rows,
           IsFiniteSet(DOMAIN columns), DOMAIN columns = DOMAIN key
    PROVE  RejectedOf(rows, columns, scanned, parent, key) =
             {i \in PresentOf(rows, columns, scanned) : ~Matched(Tuple(rows[i], columns), parent, key)}
<1>1. \A i : num_nulls(rows[i], columns) = 0 <=> \A k \in DOMAIN columns : rows[i][columns[k]] # Null
  BY NullFree
<1>2. \A i : Matched(Tuple(rows[i], columns), parent, key) <=>
             \E j \in DOMAIN parent : \A k \in DOMAIN columns : parent[j][key[k]] = rows[i][columns[k]]
  BY MatchedIs
<1> QED BY <1>1, <1>2 DEF RejectedOf, PresentOf, antiJoin

LEMMA QueryCounts ==
    ASSUME NEW rows, NEW columns, NEW parent, NEW key, NEW scanned \in SUBSET DOMAIN rows,
           IsFiniteSet(DOMAIN columns), DOMAIN columns = DOMAIN key
    PROVE  /\ buildQuery(rows, columns, scanned, parent, key).orphanVals =
                Cardinality(OrphansOf(rows, columns, scanned, parent, key))
           /\ buildQuery(rows, columns, scanned, parent, key).orphanRows =
                SumFunctionOnSet(WeightOf(rows, columns, scanned), OrphansOf(rows, columns, scanned, parent, key))
<1> DEFINE present == PresentOf(rows, columns, scanned)
           child_vals == {Tuple(rows[i], columns) : i \in present}
           orphans == {v \in child_vals : ~Matched(v, parent, key)}
<1>1. orphans = OrphansOf(rows, columns, scanned, parent, key)
  <2>1. orphans = {Tuple(rows[i], columns) : i \in {i \in present : ~Matched(Tuple(rows[i], columns), parent, key)}}
    OBVIOUS
  <2> QED BY <2>1, RejectedIs DEF OrphansOf
<1>2. /\ buildQuery(rows, columns, scanned, parent, key).orphanVals = Cardinality(orphans)
      /\ buildQuery(rows, columns, scanned, parent, key).orphanRows =
           SumFunctionOnSet(WeightOf(rows, columns, scanned), orphans)
  BY DEF buildQuery, PresentOf, WeightOf, RowsWith
<1> QED BY <1>1, <1>2

OrphansAreFinite(rows, columns, scanned, parent, key) ==
    /\ IsFiniteSet(RejectedOf(rows, columns, scanned, parent, key))
    /\ IsFiniteSet(OrphansOf(rows, columns, scanned, parent, key))

LEMMA FiniteOrphans ==
    ASSUME NEW rows, NEW columns, NEW parent, NEW key, NEW scanned \in SUBSET DOMAIN rows,
           IsFiniteSet(DOMAIN rows)
    PROVE  OrphansAreFinite(rows, columns, scanned, parent, key)
<1> DEFINE R == RejectedOf(rows, columns, scanned, parent, key)
           m == [i \in R |-> Tuple(rows[i], columns)]
<1>1. IsFiniteSet(R)
  BY FS_Subset DEF RejectedOf
<1>2. OrphansOf(rows, columns, scanned, parent, key) = {m[i] : i \in R}
  BY DEF OrphansOf
<1> HIDE DEF m, R
<1>3. IsFiniteSet({m[i] : i \in R})
  BY <1>1, ImageIsFinite
<1> QED BY <1>1, <1>2, <1>3 DEF OrphansAreFinite, R

(* A validation over all the rows without orphans: no row violates the key. *)
LEMMA NoneOrphaned ==
    ASSUME NEW rows, NEW columns, NEW parent, NEW key,
           IsFiniteSet(DOMAIN rows), IsFiniteSet(DOMAIN columns), DOMAIN columns = DOMAIN key,
           buildQuery(rows, columns, DOMAIN rows, parent, key).orphanVals = 0
    PROVE  violationQuery(rows, columns, parent, key) = 0
<1> DEFINE O == OrphansOf(rows, columns, DOMAIN rows, parent, key)
           A == antiJoin(rows, columns, parent, key)
<1>1. IsFiniteSet(O)
  BY FiniteOrphans DEF OrphansAreFinite
<1>2. Cardinality(O) = 0
  BY QueryCounts
<1>3. O = {}
  BY <1>1, <1>2, FS_EmptySet
<1>4. A = {}
  BY <1>3 DEF OrphansOf, RejectedOf, antiJoin
<1> QED BY <1>4, FS_EmptySet DEF violationQuery

(* One with orphans: the listing is not empty.                              *)
LEMMA SomeOrphaned ==
    ASSUME NEW rows, NEW columns, NEW parent, NEW key, NEW scanned \in SUBSET DOMAIN rows,
           IsFiniteSet(DOMAIN columns), DOMAIN columns = DOMAIN key,
           \/ buildQuery(rows, columns, scanned, parent, key).orphanVals # 0
           \/ buildQuery(rows, columns, scanned, parent, key).orphanRows # 0
    PROVE  orphanQuery(rows, columns, parent, key) # {}
<1> DEFINE O == OrphansOf(rows, columns, scanned, parent, key)
<1>1. CASE O = {}
  <2>1. Cardinality(O) = 0 /\ SumFunctionOnSet(WeightOf(rows, columns, scanned), O) = 0
    BY <1>1, FS_EmptySet, SumOfNone
  <2> QED BY <2>1, QueryCounts
<1>2. CASE O # {}
  <2>1. PICK i \in antiJoin(rows, columns, parent, key) : TRUE
    BY <1>2 DEF OrphansOf, RejectedOf
  <2> DEFINE v == Tuple(rows[i], columns)
  <2>2. <<v, Cardinality({j \in antiJoin(rows, columns, parent, key) : Tuple(rows[j], columns) = v})>>
          \in orphanQuery(rows, columns, parent, key)
    BY <2>1, Zenon DEF orphanQuery
  <2> QED BY <2>2
<1> QED BY <1>1, <1>2

(* And over all the rows, the listing has exactly what was counted.         *)
ListsWhatWasCounted(rows, columns, parent, key) ==
    LET listed == orphanQuery(rows, columns, parent, key)
        counts == buildQuery(rows, columns, DOMAIN rows, parent, key)
    IN  /\ Cardinality(listed) = counts.orphanVals
        /\ SumFunctionOnSet([l \in listed |-> l[2]], listed) = counts.orphanRows

LEMMA TheListingIsExact ==
    ASSUME NEW rows, NEW columns, NEW parent, NEW key,
           IsFiniteSet(DOMAIN rows), IsFiniteSet(DOMAIN columns), DOMAIN columns = DOMAIN key
    PROVE  ListsWhatWasCounted(rows, columns, parent, key)
<1> DEFINE O == OrphansOf(rows, columns, DOMAIN rows, parent, key)
           A == antiJoin(rows, columns, parent, key)
           present == PresentOf(rows, columns, DOMAIN rows)
           weight == WeightOf(rows, columns, DOMAIN rows)
           m == [v \in O |-> <<v, Cardinality(RowsWith(rows, columns, A, v))>>]
           listed == orphanQuery(rows, columns, parent, key)
           second == [l \in listed |-> l[2]]
<1>1. IsFiniteSet(O)
  BY FiniteOrphans DEF OrphansAreFinite
<1>2. A = {i \in present : ~Matched(Tuple(rows[i], columns), parent, key)}
  <2>1. A = RejectedOf(rows, columns, DOMAIN rows, parent, key)
    BY DEF RejectedOf, antiJoin
  <2> QED BY <2>1, RejectedIs
<1>3. O = {Tuple(rows[i], columns) : i \in A}
  BY DEF OrphansOf, RejectedOf, antiJoin
<1>4. listed = {<<v, Cardinality(RowsWith(rows, columns, A, v))>> : v \in O}
  BY <1>3, Zenon DEF orphanQuery, RowsWith
<1>5. listed = {m[v] : v \in O}
  BY <1>4
<1>6. \A v \in O : RowsWith(rows, columns, A, v) = RowsWith(rows, columns, present, v)
  BY <1>2, <1>3 DEF RowsWith
<1>7. \A v \in O : weight[v] = Cardinality(RowsWith(rows, columns, A, v))
  <2>1. \A v \in O : v \in {Tuple(rows[i], columns) : i \in present}
    BY <1>2, <1>3
  <2> QED BY <1>6, <2>1 DEF WeightOf
<1>8. \A v \in O : weight[v] \in Int
  <2>1. \A v \in O : IsFiniteSet(RowsWith(rows, columns, A, v))
    BY FS_Subset DEF RowsWith, antiJoin
  <2> QED BY <1>7, <2>1, FS_CardinalityType
<1>9. \A v, w \in O : m[v] = m[w] => v = w
  OBVIOUS
<1>10. \A v \in O : second[m[v]] = weight[v]
  <2>1. \A v \in O : m[v] \in listed /\ m[v][2] = weight[v]
    BY <1>5, <1>7
  <2> HIDE DEF listed, m
  <2> QED BY <2>1
<1> HIDE DEF O, m, weight, second, listed
<1>11. Cardinality(listed) = Cardinality(O)
  BY <1>1, <1>5, <1>9, AsManyImages
<1>12. SumFunctionOnSet(second, listed) = SumFunctionOnSet(weight, O)
  BY <1>1, <1>5, <1>8, <1>9, <1>10, SumMoves
<1>13. /\ buildQuery(rows, columns, DOMAIN rows, parent, key).orphanVals = Cardinality(O)
       /\ buildQuery(rows, columns, DOMAIN rows, parent, key).orphanRows = SumFunctionOnSet(weight, O)
  BY QueryCounts DEF O, weight
<1> QED BY <1>11, <1>12, <1>13 DEF ListsWhatWasCounted, listed, second

------------------------------------------------------------------------------
(* Whom the statements are about.                                           *)

LEMMA ConfirmedIsAbout ==
    ASSUME NEW X, NEW confirmed \in Seq(X), NEW indexes
    PROVE  \A sql \in ToSet(confirmedFile(confirmed, indexes)) : \E c \in ToSet(confirmed) : sql.of = c.of
<1> DEFINE first(c) == AddConstraint(c, TRUE)
           second(c) == Commented("validate", c.child.table, constraintName(c), c.child.columns, c.of)
           third(c) == Commented("create_index", c.child.table, indexName(c.child.table, c.child.columns),
                                 c.child.columns, c.of)
           S(c) == {first(c), second(c), third(c)}
           part(c) == <<first(c), second(c)>> \o writeIndexSuggestion(c, indexes)
           parts == [i \in DOMAIN confirmed |-> part(confirmed[i])]
           All == UNION {S(c) : c \in ToSet(confirmed)}
<1>1. \A c : first(c).of = c.of /\ second(c).of = c.of /\ third(c).of = c.of
  BY DEF AddConstraint, Commented, Sql
<1>2. \A c : writeIndexSuggestion(c, indexes) \in {<<>>, <<third(c)>>}
  BY DEF writeIndexSuggestion
<1> HIDE DEF first, second, third
<1>3. \A c : part(c) \in Seq(S(c)) /\ ToSet(part(c)) \subseteq S(c)
  <2> SUFFICES ASSUME NEW c PROVE part(c) \in Seq(S(c)) /\ ToSet(part(c)) \subseteq S(c)
    OBVIOUS
  <2>1. part(c) \in {<<first(c), second(c)>> \o <<>>, <<first(c), second(c)>> \o <<third(c)>>}
    BY <1>2
  <2>2. part(c) \in Seq(S(c))
    <3>1. first(c) \in S(c) /\ second(c) \in S(c) /\ third(c) \in S(c)
      OBVIOUS
    <3>2. <<first(c), second(c)>> \in Seq(S(c)) /\ <<>> \in Seq(S(c)) /\ <<third(c)>> \in Seq(S(c))
      <4> HIDE DEF S
      <4> QED BY <3>1
    <3> HIDE DEF S, part
    <3>3. \A q, r \in Seq(S(c)) : q \o r \in Seq(S(c))
      OBVIOUS
    <3> QED BY <2>1, <3>2, <3>3
  <2> HIDE DEF part
  <2> QED BY <2>2 DEF ToSet
<1>4. confirmedFile(confirmed, indexes) = FlattenSeq(parts)
  BY DEF confirmedFile, first, second
<1> HIDE DEF part
<1>5. \A i \in DOMAIN confirmed : confirmed[i] \in ToSet(confirmed)
  BY DEF ToSet
<1>6. \A i \in DOMAIN confirmed : part(confirmed[i]) \in Seq(All)
  <2> SUFFICES ASSUME NEW i \in DOMAIN confirmed PROVE part(confirmed[i]) \in Seq(All)
    OBVIOUS
  <2>1. S(confirmed[i]) \subseteq All
    BY <1>5
  <2>2. part(confirmed[i]) \in Seq(S(confirmed[i]))
    BY <1>3
  <2> HIDE DEF S, All
  <2> QED BY <2>1, <2>2
<1>7. parts \in Seq(Seq(All))
  <2>1. DOMAIN confirmed = 1..Len(confirmed) /\ Len(confirmed) \in Nat
    OBVIOUS
  <2> HIDE DEF All
  <2> QED BY <1>6, <2>1
<1>8. \A sql \in ToSet(FlattenSeq(parts)) : \E i \in DOMAIN parts : sql \in ToSet(parts[i])
  <2> HIDE DEF All, parts
  <2> QED BY <1>7, FlattenedFrom
<1>9. \A i \in DOMAIN confirmed : \A sql \in ToSet(part(confirmed[i])) : sql.of = confirmed[i].of
  BY <1>1, <1>3
<1> QED BY <1>4, <1>5, <1>8, <1>9

LEMMA BrokenIsAbout ==
    ASSUME NEW X, NEW broken \in Seq(X)
    PROVE  \A sql \in ToSet(brokenFile(broken)) : \E c \in ToSet(broken) : sql.of = c.of
<1> DEFINE first(c) == Live("orphan_query", c.child.table, <<>>, c.child.columns, c.of)
           second(c) == AddConstraint(c, FALSE)
           S(c) == {first(c), second(c)}
           part(c) == <<first(c), second(c)>>
           parts == [i \in DOMAIN broken |-> part(broken[i])]
           All == UNION {S(c) : c \in ToSet(broken)}
<1>1. \A c : first(c).of = c.of /\ second(c).of = c.of
  BY DEF AddConstraint, Live, Sql
<1>2. brokenFile(broken) = FlattenSeq(parts)
  BY DEF brokenFile
<1> HIDE DEF first, second
<1>3. \A c : part(c) \in Seq(S(c)) /\ ToSet(part(c)) \subseteq S(c)
  BY DEF ToSet
<1> HIDE DEF part
<1>4. \A i \in DOMAIN broken : broken[i] \in ToSet(broken)
  BY DEF ToSet
<1>5. \A i \in DOMAIN broken : part(broken[i]) \in Seq(All)
  <2> SUFFICES ASSUME NEW i \in DOMAIN broken PROVE part(broken[i]) \in Seq(All)
    OBVIOUS
  <2>1. S(broken[i]) \subseteq All
    BY <1>4
  <2>2. part(broken[i]) \in Seq(S(broken[i]))
    BY <1>3
  <2> HIDE DEF S, All
  <2> QED BY <2>1, <2>2
<1>6. parts \in Seq(Seq(All))
  <2>1. DOMAIN broken = 1..Len(broken) /\ Len(broken) \in Nat
    OBVIOUS
  <2> HIDE DEF All
  <2> QED BY <1>5, <2>1
<1>7. \A sql \in ToSet(FlattenSeq(parts)) : \E i \in DOMAIN parts : sql \in ToSet(parts[i])
  <2> HIDE DEF All, parts
  <2> QED BY <1>6, FlattenedFrom
<1>8. \A i \in DOMAIN broken : \A sql \in ToSet(part(broken[i])) : sql.of = broken[i].of
  BY <1>1, <1>3
<1> QED BY <1>2, <1>4, <1>7, <1>8
=============================================================================
