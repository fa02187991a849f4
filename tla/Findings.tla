------------------------------ MODULE Findings -------------------------------
(***************************************************************************)
(* internal/audit and what it takes from internal/model: findings that     *)
(* need no inference and no row, from the catalog as read and from what    *)
(* the server's own code says of its columns.                              *)
(***************************************************************************)
EXTENDS Catalog, FiniteSetsExt

(* tallyColumnUsage: which object names a column, and with which operator.  *)
(* A join names both its sides, by equality.  A column is <<table, name>>.  *)
Uses(joins, predicates) ==
    (UNION {{[column |-> c, operator |-> "equality", object |-> j.object] : c \in {j.left, j.right}} :
             j \in joins})
    \cup {[column |-> p.column, operator |-> p.operator, object |-> p.object] : p \in predicates}

operatorPriority == <<"vector_distance", "containment", "full_text", "like_infix", "range",
                      "like_prefix", "equality">>

(* The operator btree serves worst decides.                                 *)
dominantOperator(operators) ==
    operatorPriority[Min({i \in DOMAIN operatorPriority : operatorPriority[i] \in operators})]

isContainerType(type) == type \in {"jsonb", "hstore", "_int4", "_text"}

NoMethod == [method |-> "", opclass |-> ""]
Method(method, opclass) == [method |-> method, opclass |-> opclass]
btree == Method("btree", "")

(* IndexMethodFor: the method that serves the operator on the type, with    *)
(* the extensions installed; none where the server would reject it.         *)
IndexMethodFor(operator, type, ext) ==
    CASE operator = "containment" -> IF isContainerType(type) THEN Method("gin", "") ELSE NoMethod
      [] operator = "full_text"   -> IF type = "tsvector" THEN Method("gin", "") ELSE NoMethod
      [] operator = "like_infix"  -> IF "pg_trgm" \in ext THEN Method("gin", "gin_trgm_ops") ELSE btree
      [] operator = "vector_distance" ->
            IF "vector" \in ext /\ type = "vector" THEN Method("hnsw", "vector_l2_ops") ELSE NoMethod
      [] OTHER -> btree

------------------------------------------------------------------------------
notValidConstraints(t) ==
    {<<"not_valid_constraint", t, k.name>> : k \in {f \in ToSet(tables[t].foreignKeys) : ~f.validated}}

unindexedForeignKeys(t) ==
    {<<"fk_without_index", t, k.name, k.columns[1]>> : k \in {f \in ToSet(tables[t].foreignKeys) : ~f.hasIndex}}

missingPrimaryKeys(t) ==
    IF HasPrimaryKey(tables[t]) THEN {} ELSE {<<"missing_primary_key", t>>}

(* What a column's index problem already shows as.                          *)
leadsUnindexedForeignKey(t, column) ==
    \E k \in ToSet(t.foreignKeys) : k.columns[1] = column /\ ~k.hasIndex

(* unindexedHotColumns: enough objects name a column of a table in scope,   *)
(* no index opens with it, and an honest index can be recommended.          *)
unindexedHotColumns(uses, recurrenceMin, ext) ==
    LET of(c) == {u \in uses : u.column = c}
        hot   == {c \in {u.column : u \in uses} :
                    /\ Cardinality({u.object : u \in of(c)}) >= IF recurrenceMin < 1 THEN 1 ELSE recurrenceMin
                    /\ c[1] \in DOMAIN tables
                    /\ ~IsIndexedLeading(tables[c[1]], c[2])
                    /\ ~leadsUnindexedForeignKey(tables[c[1]], c[2])
                    /\ ColumnsNamed(tables[c[1]], c[2]) # <<>>}
        methodFor(c) == IndexMethodFor(dominantOperator({u.operator : u \in of(c)}),
                                       ColumnsNamed(tables[c[1]], c[2])[1].type, ext)
    IN  {[table |-> c[1], column |-> c[2], index |-> methodFor(c)] :
            c \in {d \in hot : methodFor(d) # NoMethod}}

(* Findings, but for the suggestions.                                       *)
StructuralFindings ==
    UNION {notValidConstraints(t) \cup unindexedForeignKeys(t) \cup missingPrimaryKeys(t) :
            t \in DOMAIN tables}

(* A table's suggestion: the unique to promote or, with none, a key still   *)
(* to be named.                                                             *)
Suggest(kind, columns) == [kind |-> kind, columns |-> columns, probe |-> "", tried |-> FALSE]

SuggestionFor(t) ==
    IF Promotable(t) # <<>> THEN Suggest("promote_unique", Promotable(t)[1])
    ELSE Suggest("create_primary_key", <<>>)
==============================================================================
