# Verification of pgfathom

TLA+ modules, TLC configurations and TLAPS proofs for `pgfathom`, the program in `src/`: a
read-only command that reads a PostgreSQL catalog, guesses the foreign keys nobody declared,
and tests each guess against the data. Every definition is translated from the Go source;
`PROJECT.json` maps each one to its lines.

1. [The system](#1-the-system)
2. [The modules](#2-the-modules)
3. [The runs](#3-the-runs)
4. [Fairness](#4-fairness)
5. [The proofs](#5-the-proofs)
6. [Findings](#6-findings)
7. [What is not modelled](#7-what-is-not-modelled)
8. [The plan](#8-the-plan)

Reproduce with `tlc -config MCValidation.cfg MCValidation` (and so on, one per row of section 3)
and `tlapm M.tla` for each of the eight modules that hold theorems: `ValidationProofs`, `PrefilterProofs`,
`DiscoveryProofs`, `InferenceProofs`, `AuditProofs`, `CommandProofs`, and the lemmas they share, `CountingProofs` and `ArtifactProofs`.

## 1. The system

A run of `pgfathom discover` is one goroutine going through fixed stages, and one stage that fans
out into many.

```
            SIGINT/SIGTERM
                 v   (one context for everything)
 cli.Run -> runDiscover -> discovery.Run -> report / exit code
                              |
   catalog.Read -> Profile.Detect -> sqlprobe.Probe -> infer.Generate
        |                                                   |
        |  reltuples (kept for the whole run)               v  candidates, discarded
        +----------------------> stats.Prefilter -> validate.Run
                                  (pg_stats, later)    |  errgroup, Limit goroutines
                                                       v
                                                   db.Pool (MaxConns)
```

| Component | State it keeps | Operations | Talks to |
|---|---|---|---|
| Validation engine (`internal/validate`) | a result slot, a timed-out flag and a connection per candidate; the group's first error; an atomic counter | `Run`, `validateOne`, `runQuery`, `resolveError`, `verdict`, `ProbeUniqueness` | the pool; the progress callback; the caller's context |
| Statistical prefilter (`internal/stats`) | the fetched columns and histogram ends | `Fetch`, `evaluateOne`, `Prefilter` | `pg_stats`; the catalog's older `reltuples`; `infer.Rescore` |
| Discovery pipeline (`internal/discovery`) | the result, its coverage and timings; the stage under way | `Run`, `mark` | every stage in turn; `Progress` |
| Command line (`internal/cli`) | flags, whether parsing finished, the progress line | `Run`, `discover`, `audit`, `setup`, exit codes | signals; the pipeline; reports and artifacts |
| Inference (`internal/infer`) | candidates, skips, per-candidate signals | `Generate`, `GenerateComposite`, `ApplyEvidence`, scoring | catalog and naming profile |
| Usage evidence (`internal/sqlprobe`) | join and predicate equalities, deduplicated | `Probe`, extraction from SQL text | `pg_get_viewdef`, functions, `pg_stat_statements` |
| Catalog (`internal/catalog`) | schemas, tables, keys, estimates | `Read` | `pg_catalog` |
| Session (`internal/db`) | the pool and its policies | `Open`, `Begin`, DSN resolution | the server |
| Naming profile (`internal/profile`) | affixes, abbreviations, detected convention | `Detect`, `TableForms` | the catalog's declared keys |
| Structural audit (`internal/audit`) | none | `Findings` | catalog, evidence; the key probe through `cli` |
| Reports and artifacts (`internal/report`) | none | `Discover`, `WriteArtifacts`, JSON | the result; files |
| Benchmark (`internal/bench`) | measurements | load, measure, report | the same pipeline |

### What is hard, and what makes each part correct

**Validation.** Up to `Concurrency` goroutines share a pool, a result slice, a counter and a
context that the first fatal error cancels. An error of the server is an answer about one candidate
(its time ceiling, SQLSTATE 57014; a missing privilege, 42501) or the end of the run, and 57014 is also
what a cancellation looks like. Correct means: no goroutine queues for a connection inside the
group; whatever happens every connection goes back; each slot has its own candidate's answer; the
error returned is the cause and not an echo; a result, when there is one, is complete; a sampled
candidate is never confirmed; the run returns.

**Prefilter.** It decides from numbers taken at two moments, over a database other
sessions are loading and analyzing. Correct means: missing statistics never turn into an opinion,
and, when the statistics are true, no candidate that validation would confirm is rejected.

**Pipeline and command.** Stages can be off, fail, or be interrupted; two of them degrade (usage
evidence, the prefilter), two abort (catalog, validation). Candidates change lists in two different stages. Correct means: no candidate is lost, a
degradation is never an opinion, ranking never discards, what is timed is what was announced, an
interrupted run never looks finished, and the command always exits.

**Inference and usage evidence.** Three passes (names, composite keys, joins) add to one list of candidates,
each on its own path, and later ones change what earlier ones scored. A name can answer to several tables; a
composite key can be read in several ways; a join can be stated by several objects of several sources, some of which
the role may not read. Correct means: a pair is one candidate whatever found it; a score is
explained by the signals beside it; every candidate is a whole key the database would accept and does not declare; a
join that was read is heard, and never takes anything away; ambiguity is marked, and a near miss
leaves a trace.

**Catalog.** Six queries, each with its own snapshot, over a server others are changing; what is assembled
may be a table that existed at no moment. Correct means: every finding was true at some moment of the reading, everything
that was true throughout is found, and every table of the scope is in exactly one count of the coverage.

**Audit.** The only reader of rows outside validation: it counts columns of tables without a primary key, a full scan
each, while the application inserts, and each scan may answer, hit its ceiling, be refused or fail. Then it may ask an operator one
question about the tables that are left. Correct means: no column is called a key that a scan of this run did not prove;
no scan above the ceiling; nothing that was proved is taken back by an answer; the command ends, or waits for nobody but the
operator.

**Setup, command, session.** The guide asks, with a connection of its own, prints a command and runs it with
another. Anything may fail or be interrupted with a pool open. Correct means: no pool outlives its use; nothing runs that was not
shown and accepted; what runs is what was shown, and reads the schemas that were picked, as far as their names survive the
way there.

**Artifacts.** Files written one after another into one directory, perhaps over those of an earlier run, and
a process may die in the middle. Correct means: a command that succeeded left all of its files whole; and the SQL is true of
the rows: what can be executed would pass, what is listed is what was counted.

**Profile detection.** Conventions counted over the schema's own declared keys, merged into ordered lists where the first match
wins. Correct means that no affix stands ahead of a longer one it would shadow.

## 2. The modules

| Module | Models | Kind |
|---|---|---|
| `Verdict` | `sampleFor`, `method`, `verdict`, the option defaults | pure operators |
| `ValidationContract` | what `validate.Run` promises its caller | abstract specification |
| `Validation` | `validate.Run` down to goroutines and connections | specification, implements the contract |
| `ValidationProofs` | theorems of `Validation` | TLAPS |
| `Estimates` | `EstimatedDistinct`, `lowerBoundDistinct`, `rangeDisjoint`, `evaluateOne`, `Rescore` | pure operators |
| `Prefilter` | the prefilter against a changing database | specification, uses `Estimates`, `Verdict` |
| `CountingProofs` | lemmas: sums, largest and smallest members, sizes of finite sets, selections from a sequence | TLAPS |
| `PrefilterProofs` | theorems of `Prefilter` | TLAPS |
| `Discovery` | `discovery.Run` and the command around it | specification, uses `Estimates`, composes `ValidationContract` |
| `DiscoveryProofs` | theorems of `Discovery` | TLAPS |
| `Naming` | what a column's or a table's name is taken to mean | pure operators |
| `Probe` | the usage probe: sources, resolution, deduplication | steps, composed by `Inference` |
| `Inference` | names, composite keys, joins, the cut | specification, uses `Naming`, composes `Probe` |
| `InferenceProofs` | theorems of `Inference` | TLAPS |
| `Detection` | `Detect`, `rank`, `mergeAffixes`, the order rule of `Validate` | specification, uses `Naming` |
| `Lists` | the loop that appends what it keeps, as a fold | pure operators |
| `Schema` | what every layer asks of a table: `IndexLeads`, `PromotableUnique`... | pure operators |
| `Catalog` | `catalog.Read`: six snapshots of a changing server | steps, composed by `Audit` |
| `Findings` | `audit.Findings`, `IndexMethodFor` | pure operators over `Catalog`'s state |
| `Containment` | the containment query, the orphan listing and the violation count, over rows | pure operators |
| `Artifacts` | every generated SQL file, as a sequence of statements | pure operators |
| `ArtifactProofs` | lemmas: what each generated file holds | TLAPS |
| `Audit` | `pgfathom audit`, composing `Catalog`, `Findings`, `Artifacts`, `Containment` | specification |
| `AuditProofs` | theorems of `Audit` | TLAPS |
| `Scope` | `ResolveScope` | pure operators |
| `Prompt` | the chooser: cursor, ticks, window | pure operators |
| `Command` | `discover` and the guide from shell to shell, composing `Scope`, `Prompt`, `Verdict`, `Containment`, `Artifacts` | specification |
| `CommandProofs` | theorems of `Command` | TLAPS |
| `MCValidation`, `MCPrefilter`, `MCDiscovery`, `MCInference`, `MCDetection`, `MCAudit`, `MCCommand` | instances for TLC | |

`Validation` is the detailed specification, `ValidationContract` the abstract one, and `Discovery`
takes validation's steps from the contract, so what is proved of one half is what the other
relies on. `Discovery` abstracts what `Inference` models: there a candidate is three facts and a set of joins, here
it is a pair of keys with its signals. The two share no variable, and `Inference` ends where `Discovery`'s
`Generate` ends, at the cut.

### Validation

`pc[c]` follows the body of the closure `Run` hands to `g.Go`: a goroutine is `idle` until the loop
launches it, wants a connection (`begin`), sets its ceiling, runs its query, rolls back, resolves,
and, when a progress callback is set, takes a number and reports it in two separate steps. `held`
are the connections taken from the pool; `slot` is `res.Candidates` and `timedOut` by index;
`groupErr` is the error the errgroup keeps; `interrupted` is the caller's context. The context
every worker sees is done when either is: `ContextDone`.

* `Launch` blocks at the group's limit, as `g.Go` does, and like the loop in the code goes on
  launching after an error.
* `Begin` needs a free connection; `BeginCanceled` is the wait that ends with the context,
  `BeginRefused` a server that does not open one. Its error, like that of the statement which sets the ceiling
  (`SetCeilingFails`), is any of those a query may end with, and goes the same way through `resolveError`.
* `Answer` is any measurement, or any error a server raises, at any time; `Abandon` is a statement
  whose context is done. Answers may also arrive after the context is done: the model keeps that race.
* `Rollback` is the deferred one, under `context.WithoutCancel`.
* `Settle` and `Abort` are `resolveError`, which asks the context *now*, not when the server
  answered.
* `Return` is `g.Wait` and the loop that counts.

Candidates are numbers (indexes of the input slice), measurements are records of the counts
the query returns, `Rows` holds each child table's `reltuples`.

### Prefilter

The child table is a bag of key tuples, NULLs included; the parent a set of keys. Inserting and
ANALYZE are steps of the environment, at any moment. `ReadCatalog` takes `reltuples`; `Evaluate`
takes `pg_stats` later and decides. What ANALYZE leaves is modelled as exact (an ANALYZE of a table of a few
rows reads all of it), as a count or as a ratio; a histogram covers any part of the values, as it does when the rest
went to the most-common-values list. A property about rejection therefore holds or fails for the
rule itself and not for a bad sample. `Measured` is what the validation query would count over the same rows,
so the property compares the two stages of the program with each other.

### Discovery

`stage` is the stage under way, `begun` the announcements, `timings` the closed stages, `warned` the
degradations. A candidate is a name and three facts about it: whether a name suggests it, the weight of its
naming signals, and which sources join it. `Probe` can lose the query log without a warning or
everything with one. `Generate` applies `cutScore`, `Prefilter` any opinions `evaluateOne`
can form. Validation is `ValidationContract`'s steps. `Interrupt` can come at any moment up to the exit:
a stage that reads the database then fails (and degrades or aborts as that stage does), a
stage that does not goes on.

Lists are sets here: the order of candidates is presentation, and no document promises it past
the prefilter.

### Naming, Probe and Inference

A name is a sequence of fragments (`<<"nota", "_", "id">>`), split where some rule of the profile could
cut: `EntityName`, `TableForms` and `depluralize` remove fragments at either end as the code removes
characters, the refusal to leave an empty name included. A table is a record with its columns, primary key, declared
foreign keys, indexes, and the names its comments contain.

`catalog` and the SQL `objects` are chosen once, in `Init`; a SQL object is the set of equalities that the
extractor finds in it. `Probe` reads views, then functions, then the statements log: a failure of the
first two ends the probe, a failure of the third leaves it out and says so in `available`. `resolveAgainstCatalog`
keeps the pairs whose two sides mean one column each, once per source.

`Inference` then has one step per table or group the code loops over: `GenerateNames` (`generateFor` on each eligible
column, `polymorphicPairs`), `generateComposite` (`matchKey`, `resolveAmbiguity`, `emitComposite`),
`applyEvidence` (one group: the whole-key claim and each equality in both directions) and `finalize` (the cut).
`candidates`, `discarded`, `skipped` and `polymorphic` are the fields of `infer.Result`; `known` is the index of pairs
that `candidateIndex` builds and the joins extend. Lists are sets and are walked in every order: the code
sorts for presentation, so the properties may not depend on it. `Similarity` (dice over trigrams) is a constant, weights are in
ten-thousandths. A probe that fails is a warning of the pipeline, and generation goes on without joins.

### Detection

A profile and a schema are chosen in `Init`; `DetectNaming` is `Detect` and `WithDetected` in one step, as the pipeline
calls them. `referenceAffix` takes the first of the target's forms that opens or closes the column. `mergeAffixes` is
the sort as it is executed: `sort.SliceStable` inserts one element after another up to twenty, and an affix moves
past its neighbours only as long as the comparison says it comes first. Detected lists are assumed to stay within
twenty.

### Catalog, Findings and Audit

`server` is what the catalog holds; `Alter` is somebody else's DDL, between any two queries. `tables` is what has been read,
and each of the six steps of `ReadCatalog` fills in its part from the server as it is at that moment, for the tables the first
one listed. `moments` records, beside the code, everything the server held since the reading began: `FindingsAreFacts` compares the
report with it. `FactsOf` says what a finding means on the server, and shares no definition with `Findings`; `AsRead` says it of the
moments. A finding that puts two queries together (a foreign key and the indexes, a column and the indexes) is about up to two
moments, one for each half: section 6 has the schedule in which no single moment has both.

`Audit` goes through `runAudit`: `Read` and `ReadFailed`, `Derive` (the usage probe in its three outcomes, then
`audit.Findings`), the key probe, the question, `Report`. `probing` is the table under probe with its candidates and
the results so far; a scan ends as `ScanAnswers`, `ScanUnverified` (its ceiling, or SQLSTATE 42501) or `ScanFails`, which costs the
table its probe. `Insert` lets the application add rows at any moment, to a table being probed as well, so two
candidates of one table may be counted over different rows. `scanned` records what each scan saw, independently of the
counts: whether the columns were free of NULL and duplicates (`IsKey`). The question comes in its four outcomes (composite, synthetic, skip,
an input that cannot be read). An interrupted audit goes on: only the steps that need the server fail.

A row is a function from column names to values. `Confirmed` is the comparison of the three counts, with what `count(DISTINCT ...)`
does with NULL on one column and on a row of two.

### Artifacts, Containment

A file is a sequence of statements, live or commented out, a name is the sequence of words of a real one with
what does not fit replaced by a hash. `buildQuery` is the containment query over rows; `antiJoin`,
`orphanQuery` and `violationQuery` are the ones written into the files. They are translated from different code, so
`ArtifactsAreTrue` compares them.

### Command, Scope and Prompt

A process is an *invocation*: `Invoke` with a command line somebody typed, or `InvokeGuide`. In the guide `phase` is the
question on screen and `prompt` the chooser's state: `Press` is any key, an `Answer...` is enter. `AnswerConnection` is the four text fields, of which
only the server they name matters. The guide opens its own pool (`Open`, `checkServerVersion`, `SummarizeSchemas`), composes the plan,
releases the pool, prints `Command(plan)` and, on a yes, runs `Args(plan)` through the same parser as a typed line. `line`
is what was parsed, `target` the server `ResolveDSN` chose.

Schema names are opaque, and what happens to one between the list and the scope is four constants: `Parts` (the texts between its commas, once the
picked names are joined), `Unquoted` (what the flag's CSV reads such a text as, or `Refused`), `TrimSpace` (in `SortedSchemas`) and
`Shell` (what a shell makes of the text where it is printed, which is the one argument that is printed unquoted). `Survives` is a name all of
the first three hand on. A quoted text that goes on over a comma, in one name or in two, counts as refused. No
decision reads the order of the names, so the joined text is the set of texts between the commas.

`Discover` is the pipeline in one step: any list of
candidates within the scope, each validated by `verdict` over the counts `buildQuery` takes from the rows, all of them or any sample. `WriteArtifact` writes
one file, or fails before or after the old content is gone. `Cancel` is esc, `Interrupt` the signal, `Crash` a killed
process. `disk` outlives the invocation.

## 3. The runs

| Run | States | Result |
|---|---|---|
| `validation` (`MCValidation.cfg`) | 23,236 | all properties hold |
| `prefilter` (`MCPrefilter.cfg`) | 146,231 | all properties hold |
| `discovery` (`MCDiscovery.cfg`) | 59,086 | all properties hold |
| `inference` (`MCInference.cfg`) | 342,743 | all properties hold |
| `audit` (`MCAudit.cfg`) | 674,054 | all properties hold |
| `command` (`MCCommand.cfg`) | 1,147,748 | all properties hold |
| `prefilter_partial_null`, `inference_join`, `detection_order`, `audit_partial_index`, `setup_server`, `artifact_names` | | each refutes one sentence of the repository: section 6 |

What the passing runs show, property by property:

| Property | Says |
|---|---|
| `NobodyWaitsForAConnection` | with the group's limit within the pool's cap, goroutines that want a connection plus those that hold one never exceed the cap |
| `ReturnHoldsNothing` | a run that returned holds no connection and no live goroutine, error or not |
| `SlotsInInputOrder` | the slot at an index is about that candidate and that answer |
| `ErrorIsTheCause` | a ceiling, a privilege or a cancellation surfaces only if the caller interrupted |
| `SuccessIsComplete` | success: everything resolved, no swallowed error, every progress number given once |
| `TallyMatchesReplies` | the totals count exactly the answers and the ceilings that fired |
| `SampledNeverConfirms` | no confirmation from a sample |
| `ImplementsContract` | the goroutines implement `ValidationContract` |
| `CancelReturns`, `Terminates` | a cancelled run returns even when the server answers no query; a run returns |
| `RejectionCostsNoConfirmation` | single-column keys, PostgreSQL 14 on: with statistics that are true or missing, a rejected candidate is one validation would not confirm |
| `NoStatisticsNoOpinion` | a table never analyzed gives the mark and leaves the score |
| `UnmarkedWasChecked` | no mark means both estimates were known and no column exceeds the parent |
| `EveryCandidateAccounted` | found = judged + discarded, the prefilter's funnel adds up, judged = measured + timed out + refused, and the report's closing line plus the rejected is what was found |
| `NoOpinionWithoutReading` | a prefilter that failed or is off changed no score, claims no check, discarded nothing; a probe that failed or is off raised nothing, and no candidate rests on a query log the coverage does not have |
| `DiscardNeedsAReason` | only weak evidence or a cardinality violation takes a pair out, never a generic name or a range |
| `InterruptionNeverPassesAsSuccess` | an interrupted run exits as such, and before validation prints no candidate |
| `StagesInOrder` | what is timed is what was announced, in order, once, and only stages that are on |
| `Terminates` (discovery) | whatever fails and whenever the signal comes, the command exits |
| `OneHypothesisPerPair` | a pair of keys is one candidate, and one kind of evidence is one signal, whatever found it and however often |
| `ResultIsDetermined` | what is proposed, on what evidence, with what score and on which side of the cut is a function of the catalog and the joins: the order in which tables and groups of joins are walked does not show |
| `KeysAreWhole` | a candidate covers its parent's whole key with columns that fit, and none that a declared key covers |
| `JoinsAreHeard` | a join on a single-column key, stated anywhere the probe could read, is a signal on that pair |
| `EvidenceOnlyAdds` | what names alone would have kept is kept, with its signals and no lower a score, whatever joins are mined |
| `NearMissesAreLegible` | a table a name points at is a candidate, a recorded skip, or of a type that cannot fit |
| `RivalsAreMarked` | one child proposed for two parents: both are marked ambiguous, or a join speaks for one |
| `FindingsAreFacts` | six snapshots, and still: each thing a finding says was so at some moment (or of a table dropped since), what was true throughout is reported, every table is in one count, and the SQL is about the findings and needs no missing extension |
| `NamedOnlyWhenProven` | columns are named, or written, as a key only when a scan of this run saw neither NULL nor duplicate among them, a constraint says so, or they are new |
| `CeilingHolds` | no scan with `--no-probe-keys`, none of a table above the ceiling, of unknown size only when an operator asks |
| `ConfirmedIsKept` | what was proved or needs no proof is not changed by any later probe or answer |
| `EndsOrAsks` | the audit ends, or waits for nobody but the operator |
| `PoolsAreClosed` | one pool at a time, of the one who is reading, on a server that passed the version check; none when the command returns |
| `NothingRunsUnconfirmed` | the guide runs only after the cursor was moved to yes, in the mode and into the directory answered, and excludes nothing; it reads the schemas that were picked if each of their names survives being joined and read back, and it is the command that was printed if they mean nothing to a shell; the cursor is always on screen |
| `ArtifactsAreTrue` | success with `--out`: every file whole and of this run, and announced; a key that can be executed passes its own validation query, and a broken key's listing shows exactly the orphans its verdict counted |

Each property has a mutant in the module it is about: a plausible slip of the code (a slot freed
before the connection, the caller's context captured instead of the group's, a threshold applied to
the reported score...) under which TLC finds it violated.

### Bounds

* **validation**: three candidates, limit 2, two connections: one always waits for another to finish, and a
  fatal error can find siblings before, inside and after their query. One table is at the
  sampling target (read whole), one a row above it (sampled), one never analyzed (read whole);
  measurements with and without orphans.
* **prefilter**: at most three rows a table (`MaxRows`): enough for three distinct values against one row
  (beyond the factor 2), two against one (within it), and statistics older than the rows. `Total`
  = 120 is above the saturation point, where a penalty that is added after saturating and one that is
  added before differ. `prefilter_partial_null` needs five rows, which are given and not loaded.
* **discovery**: three pairs, one for each way a pair can exist and stop existing: a lookup key that only
  the generic-name penalty takes under the threshold, a pair only joins suggest, and a name too weak to survive.
  Three option sets turn every stage that can be off, off at least once, and run both sampled and full.
  `MinScore` is the program's default, 50.
* **inference**: two families of schemas. An order with its items, a small lookup table, and a second
  schema that may hold a table of the same name under a prefix and a plural (with no key, a single key, a composite
  one): name ambiguity, skips, the three type verdicts, a declared foreign key, likeness as the last resort. And a branch
  with a key of two columns, a sibling with the same key or none, and a sale that carries any subset of the
  columns a mirror, an anchored or a doubly anchored reading needs. Over each, no SQL object, or two (two views, or
  a function and a statement), with any non-empty part of three equalities each. Two objects are what
  deduplication and a second signal need; three columns are one more than the composite key has. Thresholds are
  the program's defaults.

* **detection**: four tables and a fifth whose four keys reference them, each key written in one of four styles, under three
  ways to open a table's name and two profiles; three of a kind is the program's threshold, so a convention may or may not
  be one. Lists stay far below the twenty elements up to which the sort inserts.
* **audit**: six tables. `link` is an association without a key, with two foreign keys (one not validated) on a column that is
  never NULL and one that may be; of unknown size, of 2 rows or of 500 under a ceiling of 100; without an index, with one
  that is not usable or with one the other way round; or partitioned. `code` has a unique constraint and no key, on a column that may or
  may not be NULL, or cannot be read. `log` is excluded. Three parents have a key of one name, which makes it a
  convention. DDL touches `link` or a parent, one statement per reading (`MaxChanges`): add or drop the key, add or drop an index,
  validate or drop a constraint, drop the table. The application inserts into `link`, up to two rows (`MaxRows`) of three: enough for a
  duplicate in each column, in neither, and for a NULL. Options: no probe; probe with and without a terminal.
* **command**: two invocations in one directory (`MaxInvocations`), so a run finds the files of another. Three servers, one too
  old; an environment with `PGFATHOM_DSN` and one with PG* variables, each with a terminal, and one with neither. Seven typed lines, good
  and bad. Of the schemas on the two servers a guide can read, two have a plain name and one each a name with a comma, a double quote, a space, a
  blank at its end (`MCSchemasOf`): each way of not surviving happens, and survivors are picked alone and beside others. A candidate with a key of two columns, or two rivals on one column; child tables of three rows with NULL in part of
  a key and with an orphan; estimates below and above the sampling target. One server has more schemas than the list
  shows at once (`Height`, 3 as in the smallest terminal), so it scrolls. `MaxWords` is small enough for a constraint's name to be cut.

The sets of `Replies` and `Opinions` are enumerated in full in every step, so the bounds limit how many
candidates there are and never what can happen to one of them.

`CHECK_DEADLOCK FALSE` is given everywhere because every one of these systems stops: a run that returned, a
candidate decided, a process that exited. That they stop only there is what the liveness properties say.

## 4. Fairness

`Validation` separates what the client alone guarantees from what needs the server.

* `Fairness`: the Go scheduler runs every goroutine that can run, `errgroup.Wait` returns when they
  are over, and a wait or a statement whose context is done ends (pgx closes the connection).
* `RollbackAnswers`: the deferred `ROLLBACK` runs under a context that nothing cancels, so only
  the server ends it. `CancelReturns` needs this: without it, TLC shows an interrupted run waiting
  forever. It is an assumption about the server and the network, and stated as such.
* `ServerAnswers`: `BEGIN`, `SET LOCAL` and the query are answered, which the session's
  `statement_timeout` forces. `Terminates` needs this, `CancelReturns` does not.

`FairSpec` has only the first; the other two are premises of the properties that need them.
The limit being a positive number (`LimitAssumption`) is `Options.concurrency()`.

`Discovery` has weak fairness of its whole step: the pipeline is one goroutine, and that each database call returns is
what `Validation` and the session's timeouts give. `Audit` has weak fairness of `Step`, the command's own steps, for the same
reason: one goroutine, and each query has its ceiling. The environment (`Insert`, `Alter`, `Interrupt`) and the operator's answer are
not in it: nobody makes an operator answer, and `EndsOrAsks` says that this is all the command ever waits for. `Prefilter`,
`Inference`, `Detection` and `Command` have no fairness: they state safety only.

## 5. The proofs

`ValidationProofs` proves, with TLAPS, for **every** number of candidates, every limit and cap, every set of
measurements, any options and row estimates:

| Theorem | Property |
|---|---|
| `TypeCorrect` | `TypeOK` |
| `NoConnectionWait` | `NobodyWaitsForAConnection` |
| `NothingHeld` | `ReturnHoldsNothing` |
| `InputOrder` | `SlotsInInputOrder` |
| `TrueCause` | `ErrorIsTheCause` |
| `CompleteSuccess` | `SuccessIsComplete` |
| `TallyIsTrue` | `TallyMatchesReplies` |
| `NoSampledConfirmation` | `SampledNeverConfirms` |
| `Refinement` | `ImplementsContract` |
| `SampledVerdict` | `verdict` alone: confirmed implies a full read |
| `MoreOrphansNeverHelp` | `verdict` alone: of two full reads, the one with more orphans is ranked no higher |

**Assumptions**: those the module names: `N` and the limits are positive naturals, `Rows` are integers,
`Measurements` are records of naturals, the flags are Booleans. TLC evaluates them on every run.

**Argument.** None of the properties is inductive. `NobodyWaitsForAConnection` needs to know that a
connection is held only by a goroutine between `Begin` and `Rollback`, hence alive, and that the live ones
are at most `Limit`. `SuccessIsComplete` needs that a goroutine that failed left an error behind,
that every candidate below the loop index was launched, and that the numbers taken are exactly
`1..done`. The inductive invariant `IInv` collects these, each named after what it says:

* `HeldWhileQuerying`: connections are held exactly in `ceiling`, `query`, `rollback`;
* `LaunchedInOrder`: a candidate is idle exactly when the loop index has not passed it;
* `SlotsSettled`: a slot is written exactly in `count`, `draw`, `done`, with its own resolution;
* `FailuresRecorded`: the group has an error exactly when some goroutine returned one; with
  `SlotsSettled`, whose replies are a measurement, a ceiling or a privilege, no server error is dropped;
* `CanceledUnderContext`: a goroutine carries a cancellation past its query only if the
  context is done;
* `ErrorIsTheCause`, which is inductive with the one above;
* `WithinLimit`: the live goroutines are at most `Limit`;
* `CounterCounts`, `NumbersTaken`: `done` is the number of goroutines that hold a number, and
  the numbers are `1..done`, each once (a finite-set argument on cardinalities);
* `ReturnedIsOver`: after the return nothing is left and the totals are those of the slots.

The proof that a step preserves `IInv` has one step per action. `Refinement` maps `doomed` to
`interrupted \/ groupErr # "none"` and shows every step to be a step of the contract or a stutter: `Settle`
to `Settle`, `Interrupt` and the first `Abort` to `Doom`, `Return` to `Finish` or `Fail`, the rest to
nothing. It uses `SlotsSettled` (a slot is written once), `ReturnedIsOver` and `FailuresRecorded`.

`AuditProofs` proves of the audit, for every catalog, every DDL, every row the application inserts meanwhile, every outcome
of every scan and every answer:

| Theorem | Property |
|---|---|
| `AuditNamesOnlyWhatItProved` | `NamedOnlyWhenProven` |
| `AuditScansWithinTheCeiling` | `CeilingHolds` |
| `AuditKeepsTheConfirmed` | `ConfirmedIsKept` |
| `FindingsAreAsRead` | `FindingsAreFacts` |
| `TypesOfTheAudit` | `TypeOK` |

**Assumptions**: `CatalogAssumption`, `DefinitionsAssumption` (finitely many tables, whose columns, keys and indexes are lists),
`AuditAssumption` and `ArtifactsAssumption`, as the modules name them.

**Argument.** What a suggestion says was decided several steps before, in another phase, from a probe that went over several candidates.
`KeyInv` carries the connection: `ProbingInv` (a result that is positive has a full scan behind it that saw a key, and the table under probe
is one that may be scanned), `TodoInv` (what is left to probe is unnamed, so no proof is ever overwritten), `SuggestionsInv` (every suggestion is `Justified` by a recorded
scan, by a constraint, or by being new), `PhaseInv` (nothing is under probe outside the two probing phases) and `CeilingHolds` itself.
That the *counts* prove a key is a lemma of its own, `CountingProvesAKey`: a map from rows onto as many distinct tuples is one to one.
`MinIsAMember` stands for the choice of the first confirmed candidate, by well-founded minimality.

`FindingsAreFacts` is about a table assembled from six snapshots. `ReadingInv` says of each part of it where it comes from: `MomentsInv` (the server as it is now is one of
the moments, and those are definitions), `ShapeInv` (what a table that was not reached yet lacks), then one part per query, `RelationsInv`, `ColumnsInv`,
`ConstraintsInv`, `IndexesInv`: what was read of a table is what some moment held, or the table has been dropped since. `LinkInv` says that a key's mark is what the
indexes *read* say, `CountInv` that the counts of the coverage partition the tables of the scope. `FoundInv` (`Honest`) carries the findings past the reading: each is
derived from what was read, and everything derivable is there. The two directions meet different halves of it: what is reported needs one moment for each
query it rests on, what held at *every* moment was there at those two. `TypeInv` adds the shape of the probe's records.

`CommandProofs` proves of the command and its guide, for every environment, command line, server, sequence of keys, failure and crash:

| Theorem | Property |
|---|---|
| `TypesOfTheCommand` | `TypeOK` |
| `CommandClosesItsPools` | `PoolsAreClosed` |
| `NothingRunsUnasked` | `NothingRunsUnconfirmed` |
| `FilesAreTrue` | `ArtifactsAreTrue` |
| `SuccessLeavesItsFiles` | the first half of it, `FilesAreWhole` |
| `OnlyTheEnvironmentMisleads` | what `RunsWhereAsked` turns on: a guided run reads the server whose schemas were listed if and only if the environment names no other |

**Assumptions**: `ServersAssumption` (a connection string that is given names a server, and no schema has the empty name; nothing is assumed of how the others are named, or of what
the four conversions make of them), `RaisedAssumption` (a relationship's two keys are of one
length, as `compareKeys` sees to, and the candidates of a list are told apart), `PromptAssumption` and those of `Artifacts`.

**Argument.** `PoolInv` says of each phase whose pool is open, which the property alone does not. `FilesInv` follows the files one after another, over whatever an earlier
command or a crash left in the directory. `ResultInv` says that each result in memory while the files are written is the validation of a candidate over rows
that are still the same, and then the two queries meet: `QueryCounts` says what `buildQuery` counts (no orphan is `NoneOrphaned`, a broken verdict `SomeOrphaned`),
`TheListingIsExact` what `orphanQuery` and `violationQuery` return, and `LiveOfItsCategory` that a live statement is about a result of its category, which
`constraintName` alone would not say. `GuideInv` is about the conversation: `PromptInv` (the cursor is inside the list, `Proper`, and `CursorIsDrawn` puts it in the window for every
height of at least three), `ServersInv` (what is picked is what the server of that connection has), `YesInv` (what runs is what was composed). `ParsedCommand` says what the
composed arguments parse to: the flags are independent, the last value given to one counts (`LastValue`, `OneMoreFlag`), and a list holds what was joined
(`OneMoreOfAList`). `SurvivorsAreReadBack` and `ResolvesToThePlan` take the picked names from there to the scope, `PrintedIsRun` the printed line to the one that
runs. `WhereInv` adds where it
runs: on what `ResolveDSN` makes of the plan's connection, so finding 5 of section 6 has that one cause and no other.

`DiscoveryProofs` proves of the pipeline and the command around it, for every finite set of candidates with any weights and
joins, any options, cut, opinions and replies, and an interruption at any moment:

| Theorem | Property |
|---|---|
| `PipelineTypeCorrect` | `TypeOK` |
| `NoReadingNoOpinion` | `NoOpinionWithoutReading` |
| `DiscardsHaveAReason` | `DiscardNeedsAReason` |
| `InterruptedIsInterrupted` | `InterruptionNeverPassesAsSuccess` |
| `AccountCloses` | `EveryCandidateAccounted` |
| `TheTimelineIsTrue` | `StagesInOrder` |

**Assumptions**: `CandidateAssumption` (the candidates are finite: the closing line counts them), `OptionAssumption` and `SlotAssumption` (a slot
that is unset or absent is no resolution).

**Argument.** What the report says at the end was decided up to four stages earlier, and the lists changed twice since. `DInv` carries it.
`StageInv` says a stage that is off is never entered, and that there are no lists before generation. `PrefilterInv` says that statistics leave a trace exactly when
they were read, `DiscardInv` why each discarded candidate is where it is; `EvidenceInv`, inductive beside it, that no pair is joined before the probe, after one that failed,
or by a log that was not read, which two stages later decides what is found. `AccountInv` relates the lists to the counters, and it is not implied by any property:
between two stages nothing is printed, and a counter that drifted there would only be wrong much later. `SlotInv` ties the result slots to the
survivors, `ReportInv` what was printed to the answer the validation gave, `InterruptInv` that a signal before
validation leaves every slot unmeasured. `AccountCloses` then is a partition of a finite set: the survivors fall into disjoint groups by the verdict in their slot, and
`DisjointUnion` adds the cardinalities up. `StagesInOrder` has an invariant of its own, `TimeInv`: what was announced is an initial part of the stages that are on (`StagesOn`), and what
is closed is that part, less the stage under way. Each `Advance` then is one more step along a fixed list, whatever failed (`PrefixSteps`, `NothingBetween`). Validation's steps come from `ValidationContract`, which `Refinement` above shows the worker group to implement.

`PrefilterProofs` proves of the prefilter, for every key, any rows and every order of loading, ANALYZE and reading:

| Theorem | Property |
|---|---|
| `TypesOfThePrefilter` | `TypeOK` |
| `MissingStatisticsGiveNoOpinion` | `NoStatisticsNoOpinion` |
| `AnUnmarkedCandidateWasChecked` | `UnmarkedWasChecked` |
| `ARejectionCostsNoConfirmation` | `RejectionCostsNoConfirmation` |

**Assumptions**: `DomainAssumption` and `RowsAssumption` (finitely many values and rows). All but the first theorem have as hypothesis that the sentinel of a
table never analyzed is negative, as in PostgreSQL 14 and later: on 13 it is 0, and they are false there, as section 6 notes. The last also has `NoPartialNull`: no row has
a value in one column of the key and NULL in another. Without it the statement is false, and `prefilter_partial_null` shows how.

**Argument.** The decision is made at one moment from numbers of two others, and compared with a query over the rows of a third. While the statistics are true, what
was read is what the rows have (`ColumnIsTrue`: `n_distinct` counts, as a number or, by `RatioOfTheRows`, as a share of the rows). A rejection means that some column has more
distinct values than the parent has rows (`FloorIsTheMost`, over a maximum), so one value is in no parent's key (`SomeValueIsMissing`, by counting); the row that has it is one the
constraint checks only because no key is partly NULL (`OneValueMakesItComplete`), and it is an orphan (`AnOrphanIsNoConfirmation`).

`InferenceProofs` proves of what is generated, for every catalog, profile, similarity and set of SQL objects, and however the probe ends:

| Theorem | Property |
|---|---|
| `EveryScoreIsExplained` | `ScoresAreExplained`, which no run lists: every row of `ResultIsDetermined` has it |
| `EveryKeyIsWhole` | `KeysAreWhole` |
| `PairsAreOnce` | `OneHypothesisPerPair` |
| `TypesOfTheInference` | `TypeOK` |
| `RivalsAreToldApart` | `RivalsAreMarked` |
| `EvidenceNeverTakes` | `EvidenceOnlyAdds` |
| `NearMissesAreTold` | `NearMissesAreLegible` |
| `EveryJoinIsHeard` | `JoinsAreHeard` |
| `OrderDoesNotMatter` | `ResultIsDetermined` |
| `WholeJoinsReachTheirKey` | `WholeJoinsAreHeard`, the half of `CompositeJoinIsHeard` that holds |

**Assumptions**: `InputAssumption`, what PostgreSQL guarantees of a catalog (finitely many tables, each with one name, a column with one name in its table, a key of its
table's columns), SQL objects in a list and each of one of the three sources; and `ScoringAssumption`: the cut is a number, the plural rules of a profile are finitely many, and
likeness is a ratio, between 0 and 100.

**Argument.** Hypotheses enter the list by three paths that share no code (a name, a composite key, a group of joins) and are rescored on a
fourth. `Sound` states both properties of one hypothesis; each path has its lemma (`NamesAreSound`, `KeyIsSound`, `BornIsSound`,
`StrengthenedIsSound`). `SInv` adds what the joins need: every side of a stored join is a column of a table that was read (`JoinsResolved`, which is what
`resolveAgainstCatalog` must give), and so is every table of a group. Without it a claim could pair a column with itself, or be about
a table that has no key.

`PairsAreOnce` needs its own invariant, `OInv`. That no pair enters twice is a fact about the order of the walk: a table not walked yet has
given no hypothesis of that pass (`NamesAhead`, `KeysAhead`), a key of several columns cannot meet a name's, and during the
joins the index is exactly the pairs of the list (`IndexIsTrue`), which is what `candidateIndex` and `applyEvidence` have to keep between them. Within a
pass, `NamedOnce` and `KeyedOnce` rest on one form of a table's name per value and one reading per target. That no kind of signal
appears twice holds of each builder by itself; `SourcesNamed` keeps a source's signal apart from the others.

The others are about what must be *there*, and each has an invariant that follows it through the passes. `TInv` (`AllProper`: the signals are finitely many, each of a kind, with
a weight) makes a score a sum that the saturation bounds. `FromInv` says where a hypothesis comes from: the names alone gave it, or a join has spoken for it. Two of the first
sort with the same columns were counted against each other (`NamedRivals`, `KeyedRivals`), and one column cannot rival several (`ColumnsTell`). `LInv` accounts for the walk. Every hypothesis and skip
that a table owes is in the lists once it has been walked (`WalkedByName`, `WalkedByKey`), and from then on `GrownInv` keeps for each of them a hypothesis of the
same pair with its signals and, beyond them, signals of usage only. `SumOfMore` then gives that the score does not fall, and `CutInv` carries it over the cut. For the near misses
one more fact is needed, that what a name answers to is a pair and what a table carries is one of its readings (`NameIsAnswered`, `MirrorIsAnswered`): it is there or skipped,
because one target or several are all the cases there are of a finite set. `HInv` takes a join from its text to its signal. It survives deduplication at the first object of its source that states it
(`FirstIsKept`), then waits in its group (`PairsJoined`), then is told on the hypothesis of the pair it claims (`JoinsTold`), which may be a new one, one of the names or one that another
source has created.

`OrderDoesNotMatter` is the strongest statement about the list: not what is in it at least, but exactly what is. `EInv` (`Agreed`) says that at each moment of the joins' walk the
hypotheses are the rows of the groups heard *so far*, whatever those are: the pairs they claim and the pairs the names gave, each with its ground and one weight per source. `GivenOnly` is
its other end: before the joins the list is what the names give and nothing else, of which `LInv` had only the inclusion. A step of the walk then adds the same weight to a pair whether it finds
it named, born of another group or nowhere (`StrengthenedWeighs`, `BornIsUnsaid`), since whatever is found says nothing of that source yet (`GivenIsSilent`, `UnsaidIsSilent`) or is already owed
it. Sets of weights have no order and a score is their sum (`ScoreOfWeights`), so at the end, when no group is left, neither has the result.

`WholeJoinsReachTheirKey` says how far finding 2 of section 6 goes. An object is `OnItsOwn` for two tables when no other of its source has its name and no earlier one states an equality between the
two. Then `DInv` (each join kept was stated by a first object, `FirstJoined`) gives that its group equates what its text equates (`GroupEquates`), the group claims the key (`WholeIsClaimed`), and `HInv` does the rest.
Deduplication across objects is the only thing that can lose a composite join.

**Shared lemmas.** `CountingProofs` has what these arguments keep needing and the library has not: the least of a set of naturals, and from it induction on the size of a finite
set by least counterexample (`SizeInduction` and `NoneIsSmallest`, which take no operator), largest and smallest members, sums over finite sets (`SumTakes`, `SumMoves`, `SumIsNat`, `SumOfMore`), images,
disjoint unions, and what a selection from a sequence holds (`AmongIs`, `AmongAll`), which is a fold. `ArtifactProofs` has `FlattenedFrom` (where each statement of a file comes from) and the queries'
lemmas named above.

**Only model-checked.** Each invariant and action property that a passing run of these specifications checks is stated by a theorem. What is left to the runs is
liveness, `CancelReturns`, `EndsOrAsks` and `Terminates` (twice), because the proof system does not treat `ENABLED`. `Detection` has one run, for the disagreement of section 6, and no theorem.

## 6. Findings

Six runs end with a counter-example: something a comment, a specification or the code itself says, and the
code does otherwise.

1. `prefilter_partial_null` (code bug). The most varied column is called a floor for the key; but its count
   includes rows MATCH SIMPLE exempts. A composite, partly NULL key that validation would confirm is
   rejected as arithmetically impossible, with exact statistics.
2. `inference_join` (code bug). Equalities are deduplicated per source before they are grouped by object: a
   view that joins a whole composite key loses the columns an earlier view also joins, its group no longer covers the key, and
   the composite candidate is never born.
3. `detection_order` (code bug). The comparison that is to bring longer affixes forward says nothing of two unrelated ones, so it
   is no strict weak order, and a detected affix stays behind the shorter one it contains whenever an unrelated
   one stands between them. The merged profile is one that `Validate` would refuse.
4. `audit_partial_index` (code bug). The catalog reads neither an index's predicate nor whether it is valid: an
   unusable index on a foreign key's column hides the missing index.
5. `setup_server` (code bug). An operator who declines `PGFATHOM_DSN` and types another connection picks schemas on that
   server; the command that is printed and run has `--dsn`, over which `ResolveDSN` lets the environment win: it reads the other.
6. `artifact_names` (code bug). A constraint's name is made of the child's table and columns only. When the data fits two
   parents, both keys are confirmed and both statements in `confirmed.sql` give one table two constraints of one name: the second fails.

Further disagreements met while modelling, not kept as runs.

*Prefilter and pipeline*
* PostgreSQL 13 is supported, and there a table never analyzed has `reltuples = 0`; only from 14 on is it -1
  (`model/stats.go:31`). `EstimatedRowCount` takes 0 for an empty parent, and a candidate is rejected for want of statistics.
* The header speaks for the run, sampling is decided per candidate: "nothing here is confirmed" can stand above a
  confirmation (`report/discover.go:72-76`), in SQL as well.
* A candidate the data rejects is in no group of the report and in no number of the line that "closes the account"
  (`report/discover.go:219`).
* `Checked` is said to be `Kept + Rejected + NoStats`, but a candidate without statistics is in `Kept` as well (`stats.go:89-90`).
* The prefilter revises scores after the list was sorted. An interruption before the validation prints an ordinary, empty report and
  then exits as interrupted.

*Validation*
* `Validated` plus `TimedOut` does not close the account: a candidate the role may not read is neither (`validate.go:119`, `160`).
* The progress number is taken atomically and reported in a second step: the line can go backwards, and end below the
  total (`validate.go:150`).
* A `lock_timeout` (SQLSTATE 55P03) aborts a whole run, where a statement timeout resolves one candidate.

*Inference and evidence*
* A match on nothing but the key's own column names is to be proposed only if one table in scope has that key. Uniqueness
  is counted among one child's matches, without the child: two siblings with the same key propose each other (`composite.go:278`).
  A mirror's signature depends on column order.
* `resolveAnchored` prefers the anchored column in silence when the plain one exists too, and can use one child column twice
  (`composite.go:232`).
* A comment of the probe speaks of a source that "degrades to a warning-free skip", but an unreadable view or function fails the
  whole probe. "Both sides keyed means both directions are legitimate" (`evidence.go:29-30`) never happens: `eligible`
  refuses a child column that is the whole primary key.
* A candidate that a name found ambiguous can be cut with a join in its favour, where the same pair without any name would survive on the
  join alone (the penalty stays with it, and `RivalsAreMarked` says it is visible).
* "The merge only ever adds" (`detect.go:176-183`): a detected affix placed before one of the profile's own takes its form away, because the first that
  matches wins. With `mov_` in the profile and `mov_fin_` detected, the form `fin_x` of `mov_fin_x` is gone.

*Audit*
* `IndexMethodFor` gives `gin_trgm_ops` for an infix LIKE whatever the column's type. Two foreign keys on one column make a composite
  candidate of that column twice. The list of what was already tried is computed, and holds candidates never scanned.
* A table of unknown size is recorded as above `--probe-keys-max-rows`, though a composite scan then reads it. An empty table
  confirms any key. The name of the synthetic column may exist already.
* An interrupted audit goes on: it may still ask, and writes its files. With `--format table` or `json` and `--out`, they are not announced
  (`audit.go:182-195`).
* "Every finding it emits is a fact" (`audit.go:5`): a finding made of two queries may never have been one. A foreign key is
  dropped after the constraints were read and its index before the indexes are, by two statements or by one `DROP COLUMN`: the key is reported as
  one without an index, and at no moment was there a key without one. Each half is a fact, and `FindingsAreFacts` says that much. The
  attempt to prove the stronger sentence met this; with one statement per reading TLC had not.
* `promote_unique` drops a constraint that foreign keys may depend on. A table dropped during the reading is reported
  as one without a primary key.

*Command and artifacts*
* The guide joins the picked schemas with commas and quotes none of them (`setup.go:43`, `:61`), and `--schema` reads the joined text as
  CSV (`discover.go:124`): picking a schema called `app,log` runs `app` and `log`, and one with a single double quote in its name makes the command wrong usage. On
  the line that is printed the names are not quoted for the shell either, as the connection and the directory are, so a schema called `my app` runs and
  cannot be run again as shown, against "O comando impresso SHALL ser reproduzível" (`openspec/specs/interactive-setup/spec.md:10`).
  `NothingRunsUnconfirmed` claims the picked schemas and the printed line for the names that survive.
* An explicit `--schema` is not compared with the
  visible ones; an interrupted guide keeps asking "Try again?". A blank `PGFATHOM_DSN` is offered, and then trimmed to
  nothing by `ResolveDSN`.
* The violation count assumes MATCH SIMPLE, and names joined with "_" can be read in two ways.

## 7. What is not modelled

* **SQL text, floats, formatting.** The queries are modelled by what they return, float thresholds by percentages compared by
  cross-multiplication, scores by hundredths. Reports are modelled by what they claim of the run (closing line, what is announced), SQL
  files by their statements.
* **`observations()`** in the pipeline: texts derived from the result, which no decision reads.
* **The order of lists**, and ties, where nothing depends on them. It does in a profile, where the first match wins, and there it is
  modelled.
* **Reading SQL text.** The tokenizer and the extraction of equalities and predicates (`sqlprobe/lex.go`, `extract.go`, `predicates.go`) are
  string processing; `Probe` and `Audit` take their results. Names reach `Inference` folded to lower case.
* **Session policies** that are SQL settings (`statement_timeout` and the others, `db/session.go`): they appear as what the
  server may answer. The TOML of a profile, and the rules of `Validate` about duplicates and empty entries.
* **Drawing**: tables, JSON, banner, colours, the prompts' text. The chooser's state and its window are modelled, its
  characters are not.
* **Benchmark, build info, test support**: support code around the same pipeline.
* **Data races.** The result slice is written at disjoint indexes before `Wait`; the counter is atomic. The progress
  line has a mutex. None is left to nondeterminism, because the build has none.
* **A nil profile**, with which names are compared as they are. In `Detection` a profile has at most one plural rule per ending and lists shorter than twenty.

## 8. The plan

| Module | Content | Properties |
|---|---|---|
| `Extraction` | tokens to equalities: FROM and JOIN scopes, aliases, what is given up on | an equality is attributed to the tables in whose scope it stands, or dropped |
| `Estimates` | bounded checks against reference definitions | a better estimate never costs a mark |
