-------------------------------- MODULE Schema --------------------------------
(***************************************************************************)
(* internal/model/schema.go: the questions every layer asks of a table.    *)
(***************************************************************************)
EXTENDS Lists

(* IndexLeads: the columns open some index, in their order.                 *)
IndexLeads(indexes, columns) ==
    /\ columns # <<>>
    /\ \E i \in DOMAIN indexes : IsPrefix(columns, indexes[i].columns)

IsIndexedLeading(t, column) == IndexLeads(t.indexes, <<column>>)

(* Column: the definition of a column, or none.                             *)
ColumnsNamed(t, name) == Among(t.columns, {c \in ToSet(t.columns) : c.name = name})

allNotNull(t, names) ==
    \A i \in DOMAIN names : \E c \in ToSet(t.columns) : c.name = names[i] /\ ~c.nullable

HasPrimaryKey(t) == t.primaryKey # <<>>

(* The UNIQUE constraints whose columns are all NOT NULL; the first is      *)
(* promoted.                                                                *)
Promotable(t) == SelectSeq(t.uniques, LAMBDA u : allNotNull(t, u))
==============================================================================
