------------------------------ MODULE MCCommand ------------------------------
(***************************************************************************)
(* Three servers, one of them too old and one with more schemas than the   *)
(* list shows at once, some of them awkwardly named; a child table with a  *)
(* key of two columns and two parents for one of them; two commands in a   *)
(* row.                                                                    *)
(***************************************************************************)
EXTENDS Command

MCSchemasOf == [prod |-> <<"app", "my app">>, local |-> <<"public", "app,log", "st\"age", "tmp~">>,
                old |-> <<"public">>]

(* A comma makes two texts of a name, a bare double quote is no CSV, the ~  *)
(* stands for a no-break space, which is trimmed; a shell breaks a word at  *)
(* a space and waits for the quote that closes another.                     *)
MCParts(name)     == IF name = "app,log" THEN {"app", "log"} ELSE {name}
MCUnquoted(text)  == IF text = "st\"age" THEN "refused" ELSE text
MCTrimSpace(name) == IF name = "tmp~" THEN "tmp" ELSE name
MCShell(text)     == IF text \in {"my app", "st\"age"} THEN "refused" ELSE text

Environment(dsn, libpq, terminal) == [dsn |-> dsn, libpq |-> libpq, terminal |-> terminal]

MCEnvironments == {Environment("prod", None, TRUE), Environment(None, "local", TRUE),
                   Environment(None, None, FALSE)}

MCLines == {
    <<>>,
    <<<<"--dsn", "prod">>, <<"--schema", {"app"}>>, <<"--full", TRUE>>, <<"--out", "out">>,
      <<"--format", "json">>>>,
    <<<<"--dsn", "prod">>, <<"--all-schemas", TRUE>>, <<"--exclude-schema", {{"my app"}}>>,
      <<"--out", "out">>>>,
    <<<<"--dsn", "local">>, <<"--exclude-schema", {{"public"}}>>>>,
    <<<<"--schema", {"app"}>>, <<"--all-schemas", TRUE>>>>,
    <<<<"--format", "sql">>>>,
    <<<<"--min-score", FALSE>>>>}

Key(table, columns) == [schema |-> "app", table |-> table, columns |-> columns]
Candidate(of, child, parent) == [of |-> of, child |-> child, parent |-> parent]

Pair    == Candidate("pair", Key("orders", <<"a", "b_c">>), Key("p", <<"x", "y">>))
Single  == Candidate("single", Key("orders", <<"a">>), Key("q", <<"z">>))
Rival   == Candidate("rival", Key("orders", <<"a">>), Key("r", <<"z">>))

MCRaised == {<<>>, <<Pair>>, <<Single, Rival>>}

Order(a, b) == [a |-> a, b_c |-> b]

(* Children with a NULL in part of the key, and an orphan; parents that     *)
(* hold all of the values, or not.                                          *)
MCData ==
    {[orders |-> orders, p |-> <<[x |-> "1", y |-> "1"], [x |-> "2", y |-> "1"], [x |-> "3", y |-> Null]>>,
      q |-> <<[z |-> "1"], [z |-> "2"]>>, r |-> r] :
        orders \in {<<Order("1", "1"), Order("2", "1"), Order("2", Null)>>,
                    <<Order("1", "1"), Order("2", "1"), Order("1", "2")>>,
                    <<Order("1", "1"), Order("1", "2"), Order("2", Null)>>},
        r \in {<<[z |-> "1"], [z |-> "2"]>>, <<[z |-> "1"]>>}}

MCEstimates == {-1, 100}

MCThresholds == [targetRows |-> 10, broken |-> 50, reject |-> 20, maxNull |-> 95]

MCIndexes == [orders |-> <<[columns |-> <<"a">>]>>]

MCWords(name) == IF name = "b_c" THEN <<"b", "c">> ELSE <<name>>
MCHash(name) == "#"
==============================================================================
