----------------------------- MODULE MCInference -----------------------------
(***************************************************************************)
(* Schemas of up to five tables: an order and its items, a second schema   *)
(* that may hold a table of the same name, and branches with a composite   *)
(* key that a sibling may share; and up to two SQL objects over them.      *)
(***************************************************************************)
EXTENDS Inference

MCProfile == [columnSuffixes |-> <<<<"_", "id">>, <<"id">>>>,
              columnPrefixes |-> <<<<"id", "_">>>>,
              tablePrefixes  |-> <<<<"tb", "_">>>>,
              typeSuffixes   |-> {<<"_", "tipo">>},
              generic        |-> {<<"status">>},
              plural         |-> {[suffix |-> <<"s">>, singular |-> <<>>]}]

MCSimilarity(entity, table) ==
    IF entity = table THEN 100 ELSE IF entity = <<"estado">> /\ table = <<"status">> THEN 40 ELSE 0

Named(word) == <<word, "_", "id">>
id   == <<"id">>
nota == <<"nota">>

Col(name, type, nullable) == [name |-> name, type |-> type, nullable |-> nullable, mentions |-> {}]

Tab(schema, name, columns, pk, fks, indexes, rows) ==
    [schema |-> schema, name |-> name, columns |-> columns, pk |-> pk, fks |-> fks,
     indexes |-> indexes, mentions |-> {}, rows |-> rows]

Join(t1, c1, t2, c2) == <<[schema |-> "", table |-> t1, column |-> c1],
                          [schema |-> "", table |-> t2, column |-> c2]>>

SQL(source, object, equalities) == [source |-> source, object |-> object, joins |-> equalities]

(* What the objects say: none, a view and something else,                    *)
(* each with any part of the given equalities.                              *)
Stated(equalities) ==
    {<<>>} \cup
    {<<SQL(s[1], "v1", e1), SQL(s[2], "v2", e2)>> :
        s \in {<<"view", "view">>, <<"function", "statements">>},
        e1 \in SUBSET equalities \ {{}}, e2 \in SUBSET equalities \ {{}}}

------------------------------------------------------------------------------
(* Single-column keys: the type and the constraints of the child, and what  *)
(* the second schema holds under the same name.                             *)
Order(pk) == Tab("a", nota, {Col(id, "int8", FALSE), Col(Named("emp"), "int8", FALSE)}, pk, {}, {}, 5000)
Status    == Tab("a", <<"status">>, {Col(id, "int4", FALSE)}, <<id>>, {}, {}, 10)

Item(type, fks) ==
    Tab("a", <<"item">>,
        {Col(id, "int8", FALSE), Col(Named("nota"), type, FALSE),
         Col(<<"id", "_", "status">>, "int4", TRUE), Col(<<"nota", "_", "tipo">>, "text", TRUE),
         [Col(Named("estado"), "int4", TRUE) EXCEPT !.mentions = {<<"estado">>}]},
        <<id>>, fks, {<<Named("nota")>>}, 100)

Namesake(pk) == Tab("b", <<"tb", "_", "nota", "s">>, {Col(id, "int8", FALSE), Col(Named("emp"), "int8", FALSE)}, pk, {}, {}, -1)

OrderSchemas ==
    {{Order(<<id>>), Status, Item(type, {})} \cup other :
        type \in {"int8", "int4", "text"},
        other \in {{}} \cup {{Namesake(pk)} : pk \in {<<>>, <<id>>, <<id, Named("emp")>>}}}
    \cup {{Order(<<id>>), Status, Item("int8", {{Named("nota")}})}}

OrderJoins == {Join(<<"item">>, Named("nota"), nota, id),
               Join(nota, Named("emp"), <<"item">>, id),
               Join(<<"item">>, Named("estado"), <<"status">>, id)}

------------------------------------------------------------------------------
(* Composite keys: which columns the child carries, a sibling with the same *)
(* key or none.                                                             *)
emp == Named("emp")

Branch(name, pk) == Tab("a", name, {Col(emp, "int4", FALSE), Col(id, "int8", FALSE)}, pk, {}, {}, 50)

Sale(columns, fks) ==
    Tab("a", <<"venda">>, {Col(<<"nr">>, "int8", FALSE)} \cup {Col(n, "int4", TRUE) : n \in columns},
        <<<<"nr">>>>, fks, {<<emp, Named("filial")>>}, 900)

BranchSchemas ==
    {{Branch(<<"filial">>, <<emp, id>>), Sale(columns, fks)} \cup other :
        columns \in {{emp} \cup more : more \in SUBSET {id, Named("filial"), <<"filial", "_", "emp", "_", "id">>}},
        fks \in {{}, {{emp}}},
        other \in {{}, {Branch(<<"filial", "s">>, <<emp, id>>)}}}

BranchJoins == {Join(<<"venda">>, emp, <<"filial">>, emp),
                Join(<<"venda">>, Named("filial"), <<"filial">>, id),
                Join(<<"venda">>, <<"nr">>, <<"filial">>, emp)}

MCInputs ==
    {[catalog |-> c, objects |-> o] : c \in OrderSchemas, o \in Stated(OrderJoins)}
    \cup {[catalog |-> c, objects |-> o] : c \in BranchSchemas, o \in Stated(BranchJoins)}
==============================================================================
