------------------------------- MODULE Catalog -------------------------------
(***************************************************************************)
(* internal/catalog: the catalog is read in six queries, each with a       *)
(* snapshot of its own, while the server goes on changing.  What is        *)
(* assembled from them may be the definition of a table at no moment.      *)
(*                                                                         *)
(* A table's definition is a record; a table that was dropped is Gone.     *)
(***************************************************************************)
EXTENDS Schema

CONSTANTS
    Tables,         \* the tables of the schemas in scope
    Excluded,       \* those an --exclude pattern matches
    Servers,        \* what the server may hold when the reading begins
    Statement(_),   \* the definitions one statement of DDL makes of one
    Installed,      \* the extensions of the server
    Changing,       \* bound: the tables that DDL touches
    MaxChanges,     \* bound: statements of DDL during one reading
    Gone

ASSUME CatalogAssumption == Excluded \subseteq Tables /\ Changing \subseteq Tables /\ MaxChanges \in Nat

(* A table's columns, keys and indexes are lists, and an index has columns. *)
Definable(s) ==
    \/ s = Gone
    \/ /\ s.columns \in Seq(ToSet(s.columns)) /\ s.foreignKeys \in Seq(ToSet(s.foreignKeys))
       /\ s.uniques \in Seq(ToSet(s.uniques)) /\ s.indexes \in Seq(ToSet(s.indexes))
       /\ \A i \in ToSet(s.indexes) : i.columns \in Seq(ToSet(i.columns)) \ {<<>>}

ASSUME DefinitionsAssumption ==
    /\ IsFiniteSet(Tables)
    /\ \A s \in Servers : s = [t \in Tables |-> s[t]] /\ \A t \in Tables : Definable(s[t])

VARIABLES
    server,         \* table -> its definition now
    changes,        \* statements of DDL so far
    reading,        \* the query to come, or "done", "failed"
    tables,         \* table -> what has been read of it
    coverage,       \* model.Coverage, the part about tables
    extensions,
    moments         \* what the server has held since the reading began

catalogVars == <<server, changes, reading, tables, coverage, extensions, moments>>

Queries == <<"relations", "columns", "constraints", "indexes", "usage", "extensions">>

------------------------------------------------------------------------------
(* What is true of the server, whatever the tool makes of it: one fact for  *)
(* every finding it could report.                                           *)
LedBy(s, column) == \E i \in ToSet(s.indexes) : i.columns[1] = column

FactsOf(t, s) ==
    {f \in {<<"missing_primary_key", t>>} : s.primaryKey = <<>>}
    \cup {<<"not_valid_constraint", t, k.name>> : k \in {f \in ToSet(s.foreignKeys) : ~f.validated}}
    \cup {<<"fk_without_index", t, k.name, k.columns[1]>> :
            k \in {f \in ToSet(s.foreignKeys) : ~LedBy(s, f.columns[1])}}
    \cup {<<"unindexed_hot_column", t, c.name>> : c \in {d \in ToSet(s.columns) : ~LedBy(s, d.name)}}

InReach(srv) == {t \in Tables \ Excluded : srv[t] # Gone /\ srv[t].readable}
Facts(srv) == UNION {FactsOf(t, srv[t]) : t \in InReach(srv)}

------------------------------------------------------------------------------
CatalogInit ==
    /\ server \in Servers
    /\ changes = 0
    /\ reading = "relations"
    /\ tables = <<>>
    /\ coverage = [total |-> 0, excluded |-> {}, noPrivilege |-> {}, analyzed |-> 0,
                   unsupported |-> {}]
    /\ extensions = {}
    /\ moments = {server}

(* Somebody else's DDL, between two of the queries.                         *)
Alter ==
    /\ reading \in ToSet(Queries) /\ changes < MaxChanges
    /\ \E t \in {u \in Changing : server[u] # Gone} : \E s \in {d \in Statement(server[t]) : Definable(d)} :
          server' = [server EXCEPT ![t] = s]
    /\ changes' = changes + 1
    /\ moments' = moments \cup {server'}
    /\ UNCHANGED <<reading, tables, coverage, extensions>>

Quiet == UNCHANGED <<server, changes, moments>>

(* A table of which the first query has been answered.                      *)
Unread(s) == [columns |-> <<>>, primaryKey |-> <<>>, uniques |-> <<>>, foreignKeys |-> <<>>, indexes |-> <<>>,
              partitioned |-> s.partitioned, inherits |-> s.inherits, rows |-> s.rows]

(* readRelations: every table is counted once, as excluded, as not          *)
(* readable, or as one of those the other queries fill in.                  *)
readRelations ==
    LET present == {t \in Tables : server[t] # Gone}
        refused == {t \in present \ Excluded : ~server[t].readable}
    IN  /\ reading = "relations"
        /\ tables' = [t \in present \ (Excluded \cup refused) |-> Unread(server[t])]
        /\ coverage' = [coverage EXCEPT !.total = Cardinality(present),
                                        !.excluded = present \cap Excluded,
                                        !.noPrivilege = refused]
        /\ reading' = "columns"
        /\ Quiet /\ UNCHANGED extensions

(* A row of a later query counts only if its table was in the first.        *)
StillThere == {t \in DOMAIN tables : server[t] # Gone}

readColumns ==
    /\ reading = "columns"
    /\ tables' = [t \in DOMAIN tables |->
          IF t \in StillThere THEN [tables[t] EXCEPT !.columns = server[t].columns] ELSE tables[t]]
    /\ reading' = "constraints"
    /\ Quiet /\ UNCHANGED <<coverage, extensions>>

Unlinked(k) == [name |-> k.name, columns |-> k.columns, validated |-> k.validated, hasIndex |-> FALSE]

(* Primary keys, uniques and foreign keys in one query.                     *)
readConstraints ==
    /\ reading = "constraints"
    /\ tables' = [t \in DOMAIN tables |->
          IF t \in StillThere
          THEN [tables[t] EXCEPT !.primaryKey = server[t].primaryKey, !.uniques = server[t].uniques,
                                 !.foreignKeys = [i \in DOMAIN server[t].foreignKeys |->
                                                     Unlinked(server[t].foreignKeys[i])]]
          ELSE tables[t]]
    /\ reading' = "indexes"
    /\ Quiet /\ UNCHANGED <<coverage, extensions>>

(* Every row of pg_index but its predicate and its validity.                *)
readIndexes ==
    /\ reading = "indexes"
    /\ tables' = [t \in DOMAIN tables |->
          IF t \in StillThere
          THEN [tables[t] EXCEPT !.indexes = [i \in DOMAIN server[t].indexes |->
                   [unique |-> server[t].indexes[i].unique, primary |-> server[t].indexes[i].primary,
                    columns |-> server[t].indexes[i].columns]]]
          ELSE tables[t]]
    /\ reading' = "usage"
    /\ Quiet /\ UNCHANGED <<coverage, extensions>>

\* Mutant: an index that holds the column anywhere covers the foreign key.
LinkedAnywhere(t) ==
    [t EXCEPT !.foreignKeys = [k \in DOMAIN t.foreignKeys |->
        [t.foreignKeys[k] EXCEPT !.hasIndex =
            \E i \in DOMAIN t.indexes : t.foreignKeys[k].columns[1] \in ToSet(t.indexes[i].columns)]]]

(* linkForeignKeyIndexes.                                                   *)
Linked(t) ==
    [t EXCEPT !.foreignKeys = [k \in DOMAIN t.foreignKeys |->
        [t.foreignKeys[k] EXCEPT !.hasIndex = IsIndexedLeading(t, t.foreignKeys[k].columns[1])]]]

unsupportedReason(t) ==
    CASE t.partitioned    -> "partitioned"
      [] ~t.partitioned /\ t.inherits -> "inheritance"
      [] ~t.partitioned /\ ~t.inherits /\ ~HasPrimaryKey(t) -> "no_primary_key"
      [] OTHER -> ""

(* The counters come last and decide nothing here; with them in, the keys   *)
(* are linked to their indexes and the tables classified.                   *)
readUsage ==
    /\ reading = "usage"
    /\ tables' = [t \in DOMAIN tables |-> Linked(tables[t])]
    /\ coverage' = [coverage EXCEPT
          !.analyzed = Cardinality({t \in DOMAIN tables : unsupportedReason(tables[t]) = ""}),
          !.unsupported = {<<t, unsupportedReason(tables[t])>> :
                            t \in {u \in DOMAIN tables : unsupportedReason(tables[u]) # ""}}]
    /\ reading' = "extensions"
    /\ Quiet /\ UNCHANGED extensions

(* A list of extensions that cannot be read is an empty one.                *)
readExtensions ==
    /\ reading = "extensions"
    /\ extensions' \in {Installed, {}}
    /\ reading' = "done"
    /\ Quiet /\ UNCHANGED <<tables, coverage>>

(* Any other query that fails aborts the reading.                           *)
ReadFails ==
    /\ reading \in ToSet(Queries) \ {"extensions"}
    /\ reading' = "failed"
    /\ Quiet /\ UNCHANGED <<tables, coverage, extensions>>

ReadCatalog ==
    \/ readRelations \/ readColumns \/ readConstraints
    \/ readIndexes \/ readUsage \/ readExtensions
==============================================================================
