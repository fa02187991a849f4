------------------------------- MODULE Probe --------------------------------
(***************************************************************************)
(* internal/sqlprobe: the joins the database's own SQL states.  Reading    *)
(* the text is outside: a SQL object (a view, a function, a statement of   *)
(* the log) is the set of qualified equalities the extractor finds in it.  *)
(* What is modelled is which sources answer, what of an equality resolves  *)
(* against the catalog, and what deduplication keeps.                      *)
(***************************************************************************)
EXTENDS Integers, FiniteSets, Sequences

Sources == {"view", "function", "statements"}

(* The catalog: a set of tables.                                            *)
Ref(t) == <<t.schema, t.name>>

ColumnNames(t) == {c.name : c \in t.columns}

(* resolveRef: the tables in scope a reference may mean.  A schema is       *)
(* <<>> when the SQL did not write one; more than one match is dropped.     *)
Meanings(ref, catalog) ==
    {t \in catalog : /\ ref.schema \in {"", t.schema}
                     /\ ref.table = t.name
                     /\ ref.column \in ColumnNames(t)}

Resolves(ref, catalog) == Cardinality(Meanings(ref, catalog)) = 1

resolveRef(ref, catalog) ==
    [table |-> Ref(CHOOSE t \in Meanings(ref, catalog) : TRUE), column |-> ref.column]

(* An equality whose sides resolve, and differ, is an undirected pair.      *)
ResolvedPairs(joins, catalog) ==
    {{resolveRef(j[1], catalog), resolveRef(j[2], catalog)} :
        j \in {k \in joins : /\ Resolves(k[1], catalog) /\ Resolves(k[2], catalog)
                             /\ resolveRef(k[1], catalog) # resolveRef(k[2], catalog)}}

------------------------------------------------------------------------------
VARIABLES catalog,    \* what the catalog read returned
          objects,    \* the SQL objects in scope, in the order they are listed
          reading,    \* the source about to be read
          raw,        \* the sources read so far, with their objects in order
          joins,      \* Evidence.Joins
          available   \* Evidence.StatementsAvailable

probeVars == <<catalog, objects, reading, raw, joins, available>>

Reading == Sources \cup {"resolve", "probed", "failed"}

ProbeInit ==
    /\ reading = "view"
    /\ raw = {} /\ joins = {} /\ available = FALSE

extractAll(source) == raw' = raw \cup {source}

Extracted == {i \in DOMAIN objects : objects[i].source \in raw}

(* fetchSources for views, then for functions: an error ends the probe.     *)
ReadViews ==
    /\ reading = "view"
    /\ \/ extractAll("view") /\ reading' = "function"
       \/ raw' = raw /\ reading' = "failed"
    /\ UNCHANGED <<catalog, objects, joins, available>>

ReadFunctions ==
    /\ reading = "function"
    /\ \/ extractAll("function") /\ reading' = "statements"
       \/ raw' = raw /\ reading' = "failed"
    /\ UNCHANGED <<catalog, objects, joins, available>>

(* fetchStatements: without the extension or the privilege, or with an      *)
(* error half way, the log contributes nothing and that is recorded.        *)
ReadStatements ==
    /\ reading = "statements"
    /\ \/ extractAll("statements") /\ available' = TRUE
       \/ raw' = raw /\ available' = FALSE
    /\ reading' = "resolve"
    /\ UNCHANGED <<catalog, objects, joins>>

\* Mutant: a pair is kept once, whoever stated it.
FirstStatedByAnyone(i, pair) ==
    \A k \in Extracted : k < i => pair \notin ResolvedPairs(objects[k].joins, catalog)

(* Deduplication: a pair of columns is kept once per source, for the first  *)
(* object that states it.                                                   *)
FirstStated(i, pair) ==
    \A k \in Extracted : k < i /\ objects[k].source = objects[i].source =>
        pair \notin ResolvedPairs(objects[k].joins, catalog)

resolveAgainstCatalog ==
    /\ reading = "resolve"
    /\ joins' = UNION {{[pair |-> p, source |-> objects[i].source, object |-> objects[i].object] :
                          p \in {q \in ResolvedPairs(objects[i].joins, catalog) : FirstStated(i, q)}} :
                       i \in Extracted}
    /\ reading' = "probed"
    /\ UNCHANGED <<catalog, objects, raw, available>>

ProbeNext == ReadViews \/ ReadFunctions \/ ReadStatements \/ resolveAgainstCatalog

Probed == reading \in {"probed", "failed"}
==============================================================================
