----------------------------- MODULE Containment -----------------------------
(***************************************************************************)
(* What the queries compute: the containment query of internal/validate,   *)
(* the orphan listing and the violation count of internal/report.  Rows    *)
(* are functions from column names to values, Null among them.             *)
(***************************************************************************)
EXTENDS Integers, Sequences, FiniteSets, FiniteSetsExt, Functions

CONSTANT Null

Tuple(row, columns) == [k \in DOMAIN columns |-> row[columns[k]]]

(* num_nulls over the key.                                                  *)
num_nulls(row, columns) == Cardinality({k \in DOMAIN columns : row[columns[k]] = Null})

NullRows(rows, columns) == {i \in DOMAIN rows : num_nulls(rows[i], columns) > 0}

(* EXISTS: some row of the parent equals the tuple in every position; the   *)
(* tuple has no NULL, so no NULL of the parent equals it.                   *)
Matched(tuple, rows, columns) == \E j \in DOMAIN rows : Tuple(rows[j], columns) = tuple

(* buildQuery, of the rows that were scanned: what is compared are the      *)
(* distinct tuples without a NULL, weighed by their rows.                   *)
buildQuery(rows, columns, scanned, parent, key) ==
    LET present == {i \in scanned : num_nulls(rows[i], columns) = 0}
        child_vals == {Tuple(rows[i], columns) : i \in present}
        n       == [v \in child_vals |-> Cardinality({i \in present : Tuple(rows[i], columns) = v})]
        orphans == {v \in child_vals : ~Matched(v, parent, key)}
    IN  [sampledRows |-> Cardinality(scanned),
         partialNull |-> Cardinality({i \in scanned :
                            num_nulls(rows[i], columns) \in 1..(Len(columns) - 1)}),
         distinct    |-> Cardinality(child_vals),
         notNull     |-> SumFunctionOnSet(n, child_vals),
         orphanVals  |-> Cardinality(orphans),
         orphanRows  |-> SumFunctionOnSet(n, orphans)]

\* Mutant: a NULL in part of the key does not exempt the row.
antiJoinWithNulls(rows, columns, parent, key) ==
    {i \in DOMAIN rows : ~Matched(Tuple(rows[i], columns), parent, key)}

(* antiJoin: the rows a foreign key would reject under MATCH SIMPLE, every  *)
(* column present and no row of the parent equal in all of them.            *)
antiJoin(rows, columns, parent, key) ==
    {i \in DOMAIN rows :
        /\ \A k \in DOMAIN columns : rows[i][columns[k]] # Null
        /\ ~\E j \in DOMAIN parent : \A k \in DOMAIN columns :
               k \in DOMAIN key => parent[j][key[k]] = rows[i][columns[k]]}

(* orphanQuery: the rejected rows, grouped by their values.                 *)
orphanQuery(rows, columns, parent, key) ==
    LET rejected == antiJoin(rows, columns, parent, key)
        like(v)  == {i \in rejected : Tuple(rows[i], columns) = v}
    IN  {<<v, Cardinality(like(v))>> : v \in {Tuple(rows[i], columns) : i \in rejected}}

(* violationQuery: their number.                                            *)
violationQuery(rows, columns, parent, key) == Cardinality(antiJoin(rows, columns, parent, key))
==============================================================================
