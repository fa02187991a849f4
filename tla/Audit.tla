-------------------------------- MODULE Audit --------------------------------
(***************************************************************************)
(* `pgfathom audit`: the findings the catalog supports, the probe that     *)
(* names a key by counting, the one question an operator is asked about    *)
(* the tables left without one, and the signal at any moment.              *)
(*                                                                         *)
(* A row is a function from column names to values; the application goes   *)
(* on inserting while the command runs.                                    *)
(***************************************************************************)
EXTENDS Findings, Artifacts, Containment

CONSTANTS
    Options,            \* the flags and the terminal a run may have
    Joins, Predicates,  \* what views, functions and the query log say
    RecurrenceMin,      \* --recurrence-min
    ProbeKeysMaxRows,   \* --probe-keys-max-rows
    Rows,               \* the rows the application may insert
    Growing, MaxRows,   \* bounds: the tables it inserts into, and their rows
    Nobody

ASSUME AuditAssumption ==
    /\ \A o \in Options : {o.noProbeKeys, o.interactive} \subseteq BOOLEAN
    /\ RecurrenceMin \in Int /\ ProbeKeysMaxRows \in Int /\ MaxRows \in Nat
    /\ Growing \subseteq Tables /\ Nobody \notin Tables

VARIABLES
    phase,          \* the step of runAudit in progress
    options,
    found,          \* findings, as facts
    recommended,    \* the hot columns, with the index each is recommended
    suggestion,     \* table without a key -> what is suggested for it
    skipped,        \* coverage.KeyProbesSkipped
    todo,           \* tables still to be probed
    probing,        \* the table being probed, and the results so far
    data,           \* table -> its rows
    scanned,        \* every full scan: table, columns, whether they were a key
    interrupted, exit

findingVars == <<found, recommended, suggestion, skipped>>
probeVars   == <<todo, probing, scanned>>
outcome     == <<interrupted, exit>>
vars == <<catalogVars, phase, options, findingVars, probeVars, data, outcome>>

Alive == ~interrupted

Idle == [table |-> Nobody, candidates |-> <<>>, results |-> <<>>]

------------------------------------------------------------------------------
Init ==
    /\ CatalogInit
    /\ phase = "catalog"
    /\ options \in Options
    /\ found = {} /\ recommended = {} /\ suggestion = <<>> /\ skipped = {}
    /\ todo = {} /\ probing = Idle /\ scanned = {}
    /\ data = [t \in Tables |-> <<>>]
    /\ interrupted = FALSE /\ exit = "none"

(* The caller's context ends the reading; the list of extensions alone      *)
(* degrades to nothing.                                                     *)
Read ==
    /\ phase = "catalog"
    /\ \/ Alive /\ ReadCatalog
       \/ ~Alive /\ readExtensions /\ extensions' = {}
       \/ ReadFails
    /\ UNCHANGED <<phase, options, findingVars, probeVars, data, outcome>>

\* Mutant: nobody recorded that the command had got past its flags.
ExitAsUsage(failed) == IF ~Alive THEN "interrupted" ELSE IF failed THEN "usage" ELSE "ok"

ExitCode(failed) == IF ~Alive THEN "interrupted" ELSE IF failed THEN "failure" ELSE "ok"

Exit(failed) == phase' = "over" /\ exit' = ExitCode(failed)

ReadFailed ==
    /\ phase = "catalog" /\ reading = "failed"
    /\ Exit(TRUE)
    /\ UNCHANGED <<catalogVars, options, findingVars, probeVars, data, interrupted>>

(* sqlprobe.Probe, then audit.Findings.  The query log may be unreadable;   *)
(* any other failure costs all the evidence, and a warning.                 *)
KeyLess == {t \in DOMAIN tables : ~HasPrimaryKey(tables[t])}

Derive ==
    /\ phase = "catalog" /\ reading = "done"
    /\ \E evidence \in {{}} \cup (IF Alive THEN {{"view", "function"}, {"view", "function", "statements"}} ELSE {}) :
          LET stated(all) == {e \in all : e.source \in evidence}
              hot == unindexedHotColumns(Uses(stated(Joins), stated(Predicates)), RecurrenceMin, extensions)
          IN  /\ recommended' = hot
              /\ found' = StructuralFindings
                          \cup {<<"unindexed_hot_column", h.table, h.column>> : h \in hot}
    /\ suggestion' = [t \in KeyLess |-> SuggestionFor(tables[t])]
    /\ IF options.noProbeKeys
       THEN phase' = "output" /\ UNCHANGED todo
       ELSE /\ phase' = "keys"
            /\ todo' = {t \in KeyLess : SuggestionFor(tables[t]).kind = "create_primary_key"}
    /\ UNCHANGED <<catalogVars, options, skipped, probing, scanned, data, outcome>>

------------------------------------------------------------------------------
(* The probe: validate.ProbeUniqueness, one candidate key at a time.        *)

maxKeyProbeCandidatesPerTable == 3

(* candidateKeys: the columns of an index that is not unique, or else every *)
(* column by itself, NOT NULL as the catalog says.                          *)
candidateKeys(t) ==
    LET indexed == Among(t.indexes, {i \in ToSet(t.indexes) : ~i.unique /\ ~i.primary /\ allNotNull(t, i.columns)})
        solid   == Among(t.columns, {c \in ToSet(t.columns) : ~c.nullable})
        all     == IF indexed # <<>> THEN [k \in DOMAIN indexed |-> indexed[k].columns]
                   ELSE [k \in DOMAIN solid |-> <<solid[k].name>>]
    IN  IF Len(all) <= maxKeyProbeCandidatesPerTable THEN all
        ELSE SubSeq(all, 1, maxKeyProbeCandidatesPerTable)

(* What the three counts of the query are.  DISTINCT drops NULL on a single *)
(* column; a row of two columns is never NULL itself.                       *)
WithNull(rows, columns) == {i \in DOMAIN rows : \E k \in DOMAIN columns : rows[i][columns[k]] = Null}

DistinctTuples(rows, columns) ==
    {Tuple(rows[i], columns) :
        i \in DOMAIN rows \ (IF Len(columns) = 1 THEN WithNull(rows, columns) ELSE {})}

\* Mutant: rows with a NULL in them are not looked for.
ConfirmedByDistinct(rows, columns) == Len(rows) = Cardinality(DistinctTuples(rows, columns))

Confirmed(rows, columns) ==
    /\ Len(rows) = Cardinality(DistinctTuples(rows, columns))
    /\ Cardinality(WithNull(rows, columns)) = 0

(* What the count is for: no NULL and no two rows alike.                    *)
IsKey(rows, columns) ==
    /\ \A i \in DOMAIN rows : \A k \in DOMAIN columns : rows[i][columns[k]] # Null
    /\ \A i, j \in DOMAIN rows : Tuple(rows[i], columns) = Tuple(rows[j], columns) => i = j

\* Mutant: a table nobody analyzed counts as an empty one.
WithinWhenUnknown(t) == t.rows <= ProbeKeysMaxRows

WithinCeiling(t) == t.rows >= 0 /\ t.rows <= ProbeKeysMaxRows

(* A table too large, or of unknown size, is recorded; one that has nothing *)
(* to test is passed over.                                                  *)
SkipProbe(t) ==
    /\ phase = "keys" /\ probing = Idle /\ t \in todo
    /\ ~WithinCeiling(tables[t]) \/ candidateKeys(tables[t]) = <<>>
    /\ skipped' = IF WithinCeiling(tables[t]) THEN skipped ELSE skipped \cup {t}
    /\ todo' = todo \ {t}
    /\ UNCHANGED <<catalogVars, phase, options, found, recommended, suggestion, probing, scanned,
                   data, outcome>>

StartProbe(t) ==
    /\ phase = "keys" /\ probing = Idle /\ t \in todo
    /\ WithinCeiling(tables[t]) /\ candidateKeys(tables[t]) # <<>>
    /\ probing' = [table |-> t, candidates |-> candidateKeys(tables[t]), results |-> <<>>]
    /\ todo' = todo \ {t}
    /\ UNCHANGED <<catalogVars, phase, options, findingVars, scanned, data, outcome>>

(* fkKeyCandidate: the columns of two or more single-column foreign keys,   *)
(* together, unless candidateKeys would name the same ones.                 *)
sameColumnSet(a, b) == Len(a) = Len(b) /\ ToSet(b) \subseteq ToSet(a)

fkColumns(t) ==
    LET single == SelectSeq(t.foreignKeys, LAMBDA k : Len(k.columns) = 1)
    IN  [i \in DOMAIN single |-> single[i].columns[1]]

fkKeyCandidate(t) ==
    IF \/ Len(fkColumns(t)) < 2
       \/ \E i \in DOMAIN candidateKeys(t) : sameColumnSet(candidateKeys(t)[i], fkColumns(t))
    THEN <<>> ELSE fkColumns(t)

(* resolveUnconfirmedKeys does not offer it on a table known to be large.   *)
Composite(t) == IF t.rows < 0 \/ WithinCeiling(t) THEN fkKeyCandidate(t) ELSE <<>>

StartComposite(t) ==
    /\ phase = "composite" /\ probing = Idle /\ t \in todo
    /\ probing' = [table |-> t, candidates |-> <<Composite(tables[t])>>, results |-> <<>>]
    /\ todo' = todo \ {t}
    /\ UNCHANGED <<catalogVars, phase, options, findingVars, scanned, data, outcome>>

CandidateNow == probing.candidates[Len(probing.results) + 1]
MoreToProbe  == Len(probing.results) < Len(probing.candidates)

(* One full scan, which the server answers; a table dropped meanwhile has   *)
(* no rows to count.                                                        *)
ScanAnswers ==
    LET rows == data[probing.table]
    IN  /\ probing # Idle /\ MoreToProbe /\ Alive
        /\ server[probing.table] # Gone
        /\ probing' = [probing EXCEPT !.results = Append(@, Confirmed(rows, CandidateNow))]
        /\ scanned' = scanned \cup {[table |-> probing.table, columns |-> CandidateNow,
                                     asked |-> phase = "composite", key |-> IsKey(rows, CandidateNow)]}
        /\ UNCHANGED <<catalogVars, phase, options, findingVars, todo, data, outcome>>

(* The ceiling, or no privilege: this candidate stays unverified.           *)
ScanUnverified ==
    /\ probing # Idle /\ MoreToProbe /\ Alive
    /\ probing' = [probing EXCEPT !.results = Append(@, FALSE)]
    /\ UNCHANGED <<catalogVars, phase, options, findingVars, todo, scanned, data, outcome>>

\* Mutant: a table whose probe failed is tried again.
ProbedAgain == todo \cup {probing.table}

LeftToProbe == todo

(* Any other error, the caller's context included, costs the table its      *)
(* probe and the run a warning.                                             *)
ScanFails ==
    /\ probing # Idle /\ MoreToProbe
    /\ probing' = Idle
    /\ todo' = LeftToProbe
    /\ UNCHANGED <<catalogVars, phase, options, findingVars, scanned, data, outcome>>

(* applyKeyProbeResults: the first confirmed candidate is named; with none, *)
(* no column is.                                                            *)
Applied(s, p) ==
    LET yes == {i \in DOMAIN p.results : p.results[i]}
    IN  IF yes # {} THEN [s EXCEPT !.columns = p.candidates[Min(yes)], !.probe = "confirmed"]
        ELSE [s EXCEPT !.probe = "unverified", !.tried = p.results # <<>>]

applyKeyProbeResults ==
    /\ probing # Idle /\ ~MoreToProbe
    /\ suggestion' = [suggestion EXCEPT ![probing.table] = Applied(@, probing)]
    /\ probing' = Idle
    /\ UNCHANGED <<catalogVars, phase, options, found, recommended, skipped, todo, scanned, data,
                   outcome>>

------------------------------------------------------------------------------
(* The question: resolveUnconfirmedKeys.                                    *)

\* Mutant: every table that was suggested a key is asked about.
EveryUnkeyed == {t \in DOMAIN suggestion : suggestion[t].kind = "create_primary_key"}

Pending == {t \in DOMAIN suggestion :
              suggestion[t].kind = "create_primary_key" /\ suggestion[t].probe # "confirmed"}

WithComposite == {t \in Pending : Composite(tables[t]) # <<>>}

(* profile.Detect: the names of the single-column keys, those frequent      *)
(* enough to be a convention; the most frequent one names the new column.   *)
minPKNameShare == 15
minPKNameCount == 3

PrimaryKeyNames ==
    LET single   == {t \in DOMAIN tables : Len(tables[t].primaryKey) = 1}
        called(n) == Cardinality({t \in single : tables[t].primaryKey[1] = n})
        names    == {n \in {tables[t].primaryKey[1] : t \in single} :
                        called(n) >= minPKNameCount /\ 100 * called(n) >= minPKNameShare * Cardinality(single)}
    IN  {n \in names : \A m \in names : called(m) <= called(n)}

(* Nobody is asked without a terminal, and not where only skipping would be *)
(* on offer.                                                                *)
AsksTheOperator == options.interactive /\ Pending # {} /\ (WithComposite # {} \/ PrimaryKeyNames # {})

KeysProbed ==
    /\ phase = "keys" /\ probing = Idle /\ todo = {}
    /\ phase' = IF AsksTheOperator THEN "prompt" ELSE "output"
    /\ UNCHANGED <<catalogVars, options, findingVars, probeVars, data, outcome>>

(* promptKeyResolution: [a] where a composite candidate exists, [b] where a *)
(* convention does, an empty line or the end of the input to skip; anything *)
(* else is asked again.                                                     *)
AnswerComposite ==
    /\ phase = "prompt" /\ WithComposite # {}
    /\ phase' = "composite"
    /\ todo' = WithComposite
    /\ UNCHANGED <<catalogVars, options, findingVars, probing, scanned, data, outcome>>

AnswerSynthetic ==
    /\ phase = "prompt"
    /\ \E name \in PrimaryKeyNames :
          suggestion' = [t \in DOMAIN suggestion |->
              IF t \in Pending THEN Suggest("synthesize_primary_key", <<name>>) ELSE suggestion[t]]
    /\ phase' = "output"
    /\ UNCHANGED <<catalogVars, options, found, recommended, skipped, probeVars, data, outcome>>

AnswerSkip ==
    /\ phase = "prompt"
    /\ phase' = "output"
    /\ UNCHANGED <<catalogVars, options, findingVars, probeVars, data, outcome>>

AnswerUnreadable ==
    /\ phase = "prompt"
    /\ Exit(TRUE)
    /\ UNCHANGED <<catalogVars, options, findingVars, probeVars, data, interrupted>>

CompositeDone ==
    /\ phase = "composite" /\ probing = Idle /\ todo = {}
    /\ phase' = "output"
    /\ UNCHANGED <<catalogVars, options, findingVars, probeVars, data, outcome>>

------------------------------------------------------------------------------
(* Artifacts and report, interrupted or not; either may fail to be written. *)
AuditArtifacts == [notValid |-> notValidFile(tables),
                   suggestedKeys |-> suggestedKeysFile(tables, suggestion),
                   suggestedIndexes |-> suggestedIndexesFile(recommended)]

Report ==
    /\ phase = "output"
    /\ \E failed \in BOOLEAN : Exit(failed)
    /\ UNCHANGED <<catalogVars, options, findingVars, probeVars, data, interrupted>>

Interrupt ==
    /\ Alive /\ phase # "over"
    /\ interrupted' = TRUE
    /\ UNCHANGED <<catalogVars, phase, options, findingVars, probeVars, data, exit>>

(* Somebody else's DDL, and the application's rows.                         *)
Change == Alter /\ UNCHANGED <<phase, options, findingVars, probeVars, data, outcome>>

Insert ==
    /\ phase \in {"keys", "prompt", "composite"}
    /\ \E t \in Growing : \E r \in Rows :
          /\ Len(data[t]) < MaxRows
          /\ data' = [data EXCEPT ![t] = Append(@, r)]
    /\ UNCHANGED <<catalogVars, phase, options, findingVars, probeVars, outcome>>

Probing ==
    \/ \E t \in Tables : SkipProbe(t) \/ StartProbe(t) \/ StartComposite(t)
    \/ ScanAnswers \/ ScanUnverified \/ ScanFails \/ applyKeyProbeResults
    \/ KeysProbed \/ CompositeDone

Answer == AnswerComposite \/ AnswerSynthetic \/ AnswerSkip \/ AnswerUnreadable

Step == Read \/ ReadFailed \/ Derive \/ Probing \/ Report

Next == Step \/ Answer \/ Interrupt \/ Change \/ Insert

(* The command is one goroutine, and every query has its ceiling; nothing   *)
(* makes an operator answer.                                                *)
Spec == Init /\ [][Next]_vars /\ WF_vars(Step)
------------------------------------------------------------------------------
(* Properties.                                                              *)

Probes == {"", "confirmed", "unverified"}
Kinds  == {"promote_unique", "create_primary_key", "synthesize_primary_key"}

TypeOK ==
    /\ phase \in {"catalog", "keys", "prompt", "composite", "output", "over"}
    /\ reading \in ToSet(Queries) \cup {"done", "failed"}
    /\ options \in Options
    /\ DOMAIN suggestion \subseteq Tables /\ todo \subseteq DOMAIN suggestion /\ skipped \subseteq Tables
    /\ \A t \in DOMAIN suggestion : suggestion[t].kind \in Kinds /\ suggestion[t].probe \in Probes
    /\ probing = Idle \/ probing.table \in DOMAIN suggestion
    /\ Len(probing.results) <= Len(probing.candidates)
    /\ interrupted \in BOOLEAN /\ exit \in {"none", "ok", "failure", "interrupted"}
    /\ exit # "none" <=> phase = "over"

AllSql(file) == UNION {ToSet(ddl) : ddl \in file}

(* What a finding says was read of the server: a fact of one moment, but    *)
(* for a key or a column and the lack of an index, which are of two: the    *)
(* index may be gone only since the key is.                                 *)
AsRead(f) ==
    LET t == f[2]
    IN  CASE f[1] = "fk_without_index" ->
               /\ \E m \in moments : m[t] # Gone /\ \E k \in ToSet(m[t].foreignKeys) : <<k.name, k.columns[1]>> = <<f[3], f[4]>>
               /\ \E m \in moments : m[t] # Gone /\ ~LedBy(m[t], f[4])
          [] f[1] = "unindexed_hot_column" ->
               /\ \E m \in moments : m[t] # Gone /\ \E c \in ToSet(m[t].columns) : c.name = f[3]
               /\ \E m \in moments : m[t] # Gone /\ ~LedBy(m[t], f[3])
          [] OTHER -> \E m \in moments : m[t] # Gone /\ f \in FactsOf(t, m[t])

(* "Every finding it emits is a fact": six queries, six snapshots, and the  *)
(* report still says only what was read of the server, or of a table        *)
(* dropped since, and everything that was true throughout; every table of   *)
(* the scope is in exactly one count of the coverage; and the SQL is about  *)
(* those findings, and needs no extension the server is without.            *)
FindingsAreFacts ==
    reading = "done" /\ phase # "catalog" =>
        /\ coverage.total = Cardinality(coverage.excluded) + Cardinality(coverage.noPrivilege)
                            + coverage.analyzed + Cardinality(coverage.unsupported)
        /\ \A f \in found : AsRead(f) \/ server[f[2]] = Gone
        /\ \A f \in Facts(server) \ found :
              f[1] = "unindexed_hot_column" \/ \E m \in moments : f \notin Facts(m)
        /\ phase = "output" =>
              /\ \A sql \in AllSql(AuditArtifacts.notValid) :
                    <<"not_valid_constraint", sql.table, sql.of>> \in found
              /\ \A sql \in AllSql(AuditArtifacts.suggestedIndexes) :
                    /\ sql.does = "create_index" =>
                          <<"unindexed_hot_column", sql.table, sql.columns[1]>> \in found
                    /\ sql.does = "create_extension" => sql.of \in Installed

(* Columns are named as a key only when they are one: some full scan of     *)
(* this run saw neither a NULL nor a duplicate among them, whatever was     *)
(* tried before, failed or timed out.  A new column carries no verdict; and *)
(* no DDL is written for columns of the table that were not proved, or need *)
(* no proof because a unique constraint and NOT NULL cover them.            *)
Proven(t, columns) == \E x \in scanned : x.table = t /\ x.columns = columns /\ x.key

KeysWritten == AllSql(AuditArtifacts.suggestedKeys)

NamedOnlyWhenProven ==
    /\ \A t \in DOMAIN suggestion :
          LET s == suggestion[t]
          IN  /\ s.kind = "create_primary_key" /\ s.columns # <<>> => s.probe = "confirmed"
              /\ s.probe = "confirmed" => s.kind = "create_primary_key" /\ Proven(t, s.columns)
              /\ s.kind # "create_primary_key" => s.probe = ""
    /\ phase = "output" =>
          \A sql \in KeysWritten :
              sql.does = "add_primary_key" =>
                  \/ Proven(sql.table, sql.columns)
                  \/ Promotable(tables[sql.table]) # <<>> /\ sql.columns = Promotable(tables[sql.table])[1]
                  \/ \E new \in KeysWritten : /\ new.does = "add_column" /\ new.table = sql.table
                                               /\ new.columns = sql.columns

(* The only place audit reads rows stays bounded: none with --no-probe-keys, *)
(* none of a table known to be above the ceiling, and of a table whose size *)
(* is unknown only when the operator asks for it.                           *)
CeilingHolds ==
    /\ options.noProbeKeys => scanned = {}
    /\ \A x \in scanned :
          \/ 0 <= tables[x.table].rows /\ tables[x.table].rows <= ProbeKeysMaxRows
          \/ tables[x.table].rows < 0 /\ x.asked /\ options.interactive

(* The answer is for the tables left without a key: what was proved, or     *)
(* needs no proof, no later answer or probe takes back.                     *)
ConfirmedIsKept ==
    [][\A t \in DOMAIN suggestion :
         suggestion[t].probe = "confirmed" \/ suggestion[t].kind # "create_primary_key" =>
            suggestion'[t] = suggestion[t]]_vars

(* Whatever the server does, the command ends, or is waiting for nobody but *)
(* the operator.                                                            *)
EndsOrAsks == <>[](phase \in {"over", "prompt"})

(* "toda FK declarada sem índice utilizável na coluna filha": with nothing  *)
(* changing meanwhile, a foreign key whose only indexes the lookup of its   *)
(* parent cannot use is reported.                                           *)
UnusableIndexIsNoCover ==
    phase # "catalog" /\ reading = "done" /\ changes = 0 =>
        \A t \in InReach(server) : \A k \in ToSet(server[t].foreignKeys) :
            (\A i \in ToSet(server[t].indexes) : i.columns[1] = k.columns[1] => ~i.usable) =>
                <<"fk_without_index", t, k.name, k.columns[1]>> \in found
==============================================================================
