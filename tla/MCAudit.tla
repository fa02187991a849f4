------------------------------- MODULE MCAudit -------------------------------
(***************************************************************************)
(* Six tables: an  association without a key, whose two foreign keys,      *)
(* indexes and size vary and change; a code table with a unique instead of *)
(* a key; a table left out by a pattern; and three parents whose keys have *)
(* one name, a convention.                                                 *)
(***************************************************************************)
EXTENDS Audit

MCTables == {"link", "code", "log", "p1", "p2", "p3"}

Col(name, type, nullable) == [name |-> name, type |-> type, nullable |-> nullable]
Index(unique, columns, usable) ==
    [unique |-> unique, primary |-> FALSE, columns |-> columns, usable |-> usable]
ForeignKey(name, column, validated) ==
    [name |-> name, columns |-> <<column>>, validated |-> validated]

Table(columns, key, uniques, foreignKeys, indexes, rows) ==
    [columns |-> columns, primaryKey |-> key, uniques |-> uniques, foreignKeys |-> foreignKeys,
     indexes |-> indexes, partitioned |-> FALSE, inherits |-> FALSE, readable |-> TRUE, rows |-> rows]

Parent == Table(<<Col("id", "int8", FALSE)>>, <<"id">>, <<>>, <<>>,
                <<[Index(TRUE, <<"id">>, TRUE) EXCEPT !.primary = TRUE]>>, 9)

Code(nullable) == Table(<<Col("c", "text", nullable)>>, <<>>, <<<<"c">>>>, <<>>,
                        <<Index(TRUE, <<"c">>, TRUE)>>, 3)

Link(rows, indexes) ==
    Table(<<Col("a", "int8", FALSE), Col("b", "int8", TRUE)>>, <<>>, <<>>,
          <<ForeignKey("fk_a", "a", TRUE), ForeignKey("fk_b", "b", FALSE)>>, indexes, rows)

Server(link, code) ==
    [t \in MCTables |-> IF t = "link" THEN link ELSE IF t = "code" THEN code ELSE Parent]

(* Sizes: unknown, within the ceiling of 100, above it.                     *)
MCServers ==
    {Server(Link(rows, <<>>), Code(FALSE)) : rows \in {-1, 2, 500}}
    \cup {Server(Link(2, <<index>>), Code(FALSE)) :
            index \in {Index(FALSE, <<"a">>, FALSE), Index(FALSE, <<"b", "a">>, TRUE)}}
    \cup {Server([Link(2, <<>>) EXCEPT !.partitioned = TRUE], Code(TRUE)),
          Server(Link(2, <<>>), [Code(FALSE) EXCEPT !.readable = FALSE])}

(* One statement: a key or an index added or dropped, a constraint          *)
(* validated or dropped, a column dropped with the foreign key and the      *)
(* index it is in, the table dropped.                                       *)
MCStatement(s) ==
    LET others == SelectSeq(s.indexes, LAMBDA i : ~i.primary)
    IN  {Gone}
        \cup {[s EXCEPT !.primaryKey = <<>>, !.indexes = others] : k \in {n \in {1} : s.primaryKey # <<>>}}
        \cup {[s EXCEPT !.indexes = <<>>] : k \in {n \in {1} : s.primaryKey = <<>> /\ s.uniques = <<>>}}
        \cup {[s EXCEPT !.indexes = Append(@, Index(FALSE, <<"b">>, TRUE))] :
                k \in {n \in {1} : s.foreignKeys # <<>>}}
        \cup {[s EXCEPT !.foreignKeys = <<@[1], [@[2] EXCEPT !.validated = TRUE]>>] :
                k \in {n \in {1} : Len(s.foreignKeys) = 2}}
        \cup {[s EXCEPT !.foreignKeys = Tail(@)] : k \in {n \in {1} : s.foreignKeys # <<>>}}
        \cup {[s EXCEPT !.columns = Tail(@), !.foreignKeys = Tail(@), !.indexes = <<>>] :
                k \in {n \in {1} : s.foreignKeys # <<>> /\ s.indexes # <<>>}}
        \cup {[s EXCEPT !.primaryKey = <<s.columns[1].name>>,
                        !.indexes = Append(@, [Index(TRUE, <<s.columns[1].name>>, TRUE) EXCEPT !.primary = TRUE])] :
                k \in {n \in {1} : s.primaryKey = <<>>}}

MCOptions == {[noProbeKeys |-> TRUE, interactive |-> TRUE], [noProbeKeys |-> FALSE, interactive |-> TRUE],
              [noProbeKeys |-> FALSE, interactive |-> FALSE]}

(* A view joins the association; the query log filters by its second column *)
(* and by a column of no table.                                             *)
MCJoins == {[left |-> <<"link", "a">>, right |-> <<"p1", "id">>, object |-> "v", source |-> "view"]}

MCPredicates ==
    {[column |-> c, operator |-> op, object |-> "q", source |-> "statements"] :
        c \in {<<"link", "b">>, <<"code", "c">>}, op \in {"like_infix", "range"}}
    \cup {[column |-> <<"code", "c">>, operator |-> "containment", object |-> "f", source |-> "function"]}

MCInstalled == {"pg_trgm"}

MCWords(name) == <<name>>
MCHash(name) == "#"

MCRows == {[a |-> 1, b |-> 1], [a |-> 1, b |-> 2], [a |-> 2, b |-> Null]}
==============================================================================
