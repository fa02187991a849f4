------------------------------ MODULE Artifacts ------------------------------
(***************************************************************************)
(* internal/report/sql.go: the reviewable SQL, as pure functions of the    *)
(* result.  A file is a sequence of statements, live or commented out; a   *)
(* name is the sequence of its words, those between its underscores.       *)
(***************************************************************************)
EXTENDS Schema

CONSTANTS
    Words(_),       \* the words of a table's or a column's name
    MaxWords,       \* maxIdentifierBytes, in words
    Hash(_)         \* the suffix that stands for a name cut short

ASSUME ArtifactsAssumption == MaxWords \in Nat \ {0}

------------------------------------------------------------------------------
(* Names.                                                                   *)

(* truncateIdent: what does not fit is cut, and ends in a hash of the whole. *)
truncateIdent(name) ==
    IF Len(name) <= MaxWords THEN name
    ELSE Append(SubSeq(name, 1, MaxWords - 1), Hash(name))

Joined(prefix, table, columns) ==
    truncateIdent(<<prefix>> \o Words(table) \o FlattenSeq([i \in DOMAIN columns |-> Words(columns[i])]))

constraintName(c) == Joined("fk", c.child.table, c.child.columns)
indexName(table, columns)  == Joined("ix", table, columns)
uniqueName(table, columns) == Joined("ux", table, columns)

------------------------------------------------------------------------------
(* Statements.  "of" is what the statement is written about.                *)

Sql(does, table, name, columns, of, live) ==
    [does |-> does, table |-> table, name |-> name, columns |-> columns, of |-> of, live |-> live]

Live(does, table, name, columns, of)      == Sql(does, table, name, columns, of, TRUE)
Commented(does, table, name, columns, of) == Sql(does, table, name, columns, of, FALSE)

AddConstraint(c, live) ==
    Sql("add_constraint", c.child.table, constraintName(c), c.child.columns, c.of, live)

(* writeIndexSuggestion, where no index opens with the child's columns.     *)
writeIndexSuggestion(c, indexes) ==
    IF IndexLeads(indexes[c.child.table], c.child.columns) THEN <<>>
    ELSE <<Commented("create_index", c.child.table, indexName(c.child.table, c.child.columns),
                     c.child.columns, c.of)>>

confirmedFile(confirmed, indexes) ==
    FlattenSeq([i \in DOMAIN confirmed |->
        LET c == confirmed[i]
        IN  <<AddConstraint(c, TRUE),
              Commented("validate", c.child.table, constraintName(c), c.child.columns, c.of)>>
            \o writeIndexSuggestion(c, indexes)])

brokenFile(broken) ==
    FlattenSeq([i \in DOMAIN broken |->
        LET c == broken[i]
        IN  <<Live("orphan_query", c.child.table, <<>>, c.child.columns, c.of),
              AddConstraint(c, FALSE)>>])

CandidatesByVerdict(candidates, verdict) ==
    Among(candidates, {c \in ToSet(candidates) : c.verdict = verdict})

FileConfirmed == "confirmed.sql"
FileBroken    == "broken.sql"

(* DiscoverArtifacts: always both, even when a category is empty.           *)
DiscoverFiles == <<FileConfirmed, FileBroken>>

DiscoverArtifacts(candidates, indexes) ==
    [f \in ToSet(DiscoverFiles) |->
        IF f = FileConfirmed THEN confirmedFile(CandidatesByVerdict(candidates, "confirmed"), indexes)
        ELSE brokenFile(CandidatesByVerdict(candidates, "broken"))]

------------------------------------------------------------------------------
(* The audit's.  "tables" is the catalog as read, a function from names;    *)
(* the order of the tables in a file is immaterial.                         *)

(* notValidFile: the violation count first, the validation commented out.   *)
notValidFile(tables) ==
    UNION {{<<Live("violation_query", t, <<>>, k.columns, k.name),
              Commented("validate", t, <<k.name>>, k.columns, k.name)>> :
                k \in {f \in ToSet(tables[t].foreignKeys) : ~f.validated}} : t \in DOMAIN tables}

(* A unique index built apart, then promoted to the primary key.            *)
KeyFromIndex(t, columns) ==
    <<Commented("create_unique_index", t, uniqueName(t, columns), columns, ""),
      Commented("add_primary_key", t, uniqueName(t, columns), columns, "")>>

writePromoteUnique(t, unique) ==
    KeyFromIndex(t, unique) \o <<Commented("drop_constraint", t, <<>>, unique, "")>>

writeConfirmedPrimaryKey(t, columns) == KeyFromIndex(t, columns)

writeSyntheticPrimaryKey(t, column) ==
    <<Commented("add_column", t, <<>>, <<column>>, "")>> \o KeyFromIndex(t, <<column>>)

(* suggestedKeysFile: only a suggestion that needs no proof, or has one,    *)
(* becomes DDL.                                                             *)
suggestedKeysFile(tables, suggestion) ==
    LET written(t) ==
          LET s == suggestion[t]
          IN  CASE s.kind = "promote_unique" /\ Promotable(tables[t]) # <<>> ->
                     writePromoteUnique(t, Promotable(tables[t])[1])
                [] s.kind = "create_primary_key" /\ s.probe = "confirmed" /\ s.columns # <<>> ->
                     writeConfirmedPrimaryKey(t, s.columns)
                [] s.kind = "synthesize_primary_key" /\ s.columns # <<>> ->
                     writeSyntheticPrimaryKey(t, s.columns[1])
                [] OTHER -> <<>>
    IN  {written(t) : t \in DOMAIN suggestion} \ {<<>>}

(* The extension the index depends on goes in front of it.                  *)
requiredExtension(index) ==
    CASE index.opclass = "gin_trgm_ops" -> "pg_trgm"
      [] index.opclass # "gin_trgm_ops" /\ index.method = "hnsw" -> "vector"
      [] OTHER -> ""

writeIndexRecommendation(hot) ==
    (IF requiredExtension(hot.index) = "" THEN <<>>
     ELSE <<Commented("create_extension", hot.table, <<>>, <<>>, requiredExtension(hot.index))>>)
    \o <<Commented("create_index", hot.table, indexName(hot.table, <<hot.column>>), <<hot.column>>,
                   hot.index.method)>>

suggestedIndexesFile(recommended) == {writeIndexRecommendation(h) : h \in recommended}
==============================================================================
