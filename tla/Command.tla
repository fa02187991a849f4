------------------------------- MODULE Command -------------------------------
(***************************************************************************)
(* `pgfathom discover` and the guide that composes it, from the shell to   *)
(* the shell: the questions, the connection each of them needs, the scope, *)
(* the run, the files it leaves and what is said of them.  A command may   *)
(* be followed by another one in the same directory, and end at any point. *)
(*                                                                         *)
(* The run itself is one step here; Discovery has its stages.  A           *)
(* connection string is the server it names; a name is opaque, and what    *)
(* becomes of it as it is joined, printed and read back is a constant.     *)
(***************************************************************************)
EXTENDS Artifacts, Containment, Scope, Prompt, Verdict

CONSTANTS
    None,
    Environments,   \* PGFATHOM_DSN, the PG* variables, and the terminal
    Default,        \* the server of the guide's default answers
    Answers,        \* the servers an operator may type the parts of
    SchemasOf,      \* server -> the schemas the role can open, by size
    TooOld,         \* servers below the supported version
    Lines,          \* the command lines somebody may type
    Raised,         \* the candidates a run may raise, in order
    Indexes,        \* table -> its indexes
    Estimates,      \* what the planner may believe of the child's size
    Data,           \* table -> rows, each way they may be
    Thresholds,     \* the validation's target and thresholds
    Parts(_),       \* the texts between the commas of a name
    Unquoted(_),    \* what encoding/csv reads a text between commas as
    Shell(_),       \* what a shell makes of such a text, left unquoted
    Refused,        \* what either makes of a text it cannot read
    MaxInvocations  \* bound: commands in a row

ASSUME CommandAssumption ==
    /\ MaxInvocations \in Nat \ {0} /\ None \notin DOMAIN SchemasOf
    /\ TooOld \cup Answers \cup {Default} \subseteq DOMAIN SchemasOf

(* A connection string names a server, wherever it is given; no schema is   *)
(* called by the empty string.                                              *)
ASSUME ServersAssumption ==
    /\ \A e \in Environments : {e.dsn, e.libpq} \subseteq DOMAIN SchemasOf \cup {None}
    /\ \A l \in Lines : /\ l \in Seq(ToSet(l))
                        /\ \A i \in DOMAIN l : l[i][1] = "--dsn" => l[i][2] \in DOMAIN SchemasOf
    /\ \A s \in DOMAIN SchemasOf : SchemasOf[s] \in Seq(ToSet(SchemasOf[s]) \ {""})

(* The two ends of a candidate have as many columns, and no other candidate *)
(* of its list is written about under its name.                             *)
ASSUME RaisedAssumption ==
    \A raised \in Raised :
        /\ raised \in Seq(ToSet(raised))
        /\ \A i, j \in DOMAIN raised : raised[i].of = raised[j].of => i = j
        /\ \A i \in DOMAIN raised :
              /\ raised[i].child.columns \in Seq(ToSet(raised[i].child.columns))
              /\ raised[i].parent.columns \in Seq(ToSet(raised[i].parent.columns))
              /\ Len(raised[i].child.columns) = Len(raised[i].parent.columns)
              /\ \A d \in Data : d[raised[i].child.table] \in Seq(ToSet(d[raised[i].child.table]))

VARIABLES
    invocations, phase, interrupted, exit,
    env, data, estimate,    \* what stays as it is
    guided, previous, plan, \* the guide: the last connection typed, the answers
    prompt, shown,          \* the question on screen, the command printed
    line, target, pools,    \* what runs, on which server; the pools open
    scope, result,          \* what it read and concluded
    written, disk, announced

world    == <<env, data, estimate>>
guide    == <<guided, previous, plan, prompt, shown>>
run      == <<line, target, scope, result>>
files    == <<written, disk, announced>>
vars == <<invocations, phase, interrupted, exit, world, guide, run, pools, files>>

Alive == ~interrupted

NoPlan   == [fromEnv |-> FALSE, dsn |-> None, schemas |-> {}, full |-> FALSE, out |-> ""]
NoPrompt == chooser(1, FALSE)
NoLine   == <<>>
Absent   == [run |-> 0, whole |-> FALSE]

Init ==
    /\ invocations = 0 /\ phase = "over" /\ interrupted = FALSE /\ exit = "none"
    /\ env \in Environments /\ data \in Data /\ estimate \in Estimates
    /\ guided = FALSE /\ previous = None /\ plan = NoPlan /\ prompt = NoPrompt /\ shown = NoLine
    /\ line = NoLine /\ target = None /\ pools = {}
    /\ scope = EmptyScope /\ result = <<>>
    /\ written = 0 /\ disk = [f \in ToSet(DiscoverFiles) |-> Absent] /\ announced = FALSE

------------------------------------------------------------------------------
(* Pools and the way out.                                                   *)
Holder == IF line = NoLine THEN "setup" ELSE "discover"

Released == {p \in pools : p.holder # Holder}

\* Mutant: ResolveScope fails and the pool is nobody's.
Leaked == pools

(* connect has not returned yet: its caller has no Close to defer.          *)
ReleasedByConnect == Released

(* Run: a context that was cancelled outranks the error.                    *)
End(code) == phase' = "over" /\ exit' = IF Alive THEN code ELSE "interrupted"

------------------------------------------------------------------------------
(* setup.go.                                                                *)

(* The picked schemas joined with commas: the texts between them.           *)
JoinedSchemas(names) == UNION {Parts(n) : n \in names}

(* A plan as the command line that is printed: the connection and the       *)
(* directory are quoted for the shell, the joined schemas are not...        *)
Command(p) ==
    (IF p.fromEnv THEN <<>> ELSE <<<<"--dsn", p.dsn>>>>)
    \o (IF p.schemas = {} THEN <<>> ELSE <<<<"--schema", {Shell(t) : t \in JoinedSchemas(p.schemas)}>>>>)
    \o (IF p.full THEN <<<<"--full", TRUE>>>> ELSE <<>>)
    \o (IF p.out = "" THEN <<>> ELSE <<<<"--out", p.out>>>>)

\* Mutant: a flag that is shown is not passed on.
ArgsWithoutFull(p) ==
    (IF p.fromEnv THEN <<>> ELSE <<<<"--dsn", p.dsn>>>>)
    \o (IF p.schemas = {} THEN <<>> ELSE <<<<"--schema", JoinedSchemas(p.schemas)>>>>)
    \o (IF p.out = "" THEN <<>> ELSE <<<<"--out", p.out>>>>)

(* ...and the arguments that run, written out a second time.                *)
Args(p) ==
    (IF p.fromEnv THEN <<>> ELSE <<<<"--dsn", p.dsn>>>>)
    \o (IF p.schemas = {} THEN <<>> ELSE <<<<"--schema", JoinedSchemas(p.schemas)>>>>)
    \o (IF p.full THEN <<<<"--full", TRUE>>>> ELSE <<>>)
    \o (IF p.out = "" THEN <<>> ELSE <<<<"--out", p.out>>>>)

(* A flag given twice has its last value, one that was not given its        *)
(* default; a list is added to.                                             *)
ValueOf(args, flag, default) ==
    LET at == {i \in DOMAIN args : args[i][1] = flag}
    IN  IF at = {} THEN default ELSE args[Max(at)][2]

ValuesOf(args, flag) == UNION {args[i][2] : i \in {j \in DOMAIN args : args[j][1] = flag}}

(* registerConnectionFlags and newDiscoverCommand.  A list is read as a     *)
(* line of CSV, and one that cannot be read is wrong usage.                 *)
Parsed(args) ==
    LET texts == ValuesOf(args, "--schema")
        names == {Unquoted(t) : t \in texts}
    IN  [dsn |-> ValueOf(args, "--dsn", None), schemas |-> names,
         all |-> ValueOf(args, "--all-schemas", FALSE), exclude |-> ValuesOf(args, "--exclude-schema"),
         full |-> ValueOf(args, "--full", FALSE), format |-> ValueOf(args, "--format", "table"),
         out |-> ValueOf(args, "--out", ""),
         valid |-> ValueOf(args, "--min-score", TRUE) /\ Refused \notin texts \cup names]

(* What a process starts from.                                              *)
Started ==
    /\ invocations < MaxInvocations /\ invocations' = invocations + 1
    /\ phase = "over" /\ exit' = "none" /\ interrupted' = FALSE
    /\ previous' = None /\ plan' = NoPlan /\ shown' = NoLine
    /\ target' = None /\ scope' = EmptyScope /\ result' = <<>>
    /\ written' = 0 /\ announced' = FALSE
    /\ UNCHANGED <<world, pools, disk>>

Invoke ==
    /\ Started
    /\ \E l \in Lines : line' = Parsed(l)
    /\ phase' = "options"
    /\ guided' = FALSE /\ prompt' = NoPrompt

(* A question, or the text fields of a connection.                          *)
AskConnection(last) ==
    IF env.dsn # None /\ last = None
    THEN phase' = "use-env" /\ prompt' = chooser(2, FALSE)
    ELSE phase' = "connection" /\ prompt' = NoPrompt

(* Without a terminal the guide refuses before it asks anything: see        *)
(* GuideRefused.                                                            *)
InvokeGuide ==
    /\ Started
    /\ line' = NoLine /\ guided' = TRUE
    /\ IF env.terminal THEN AskConnection(None) ELSE phase' = "refused" /\ prompt' = NoPrompt

GuideRefused ==
    /\ phase = "refused"
    /\ End("usage")
    /\ UNCHANGED <<invocations, interrupted, world, guide, run, pools, files>>

Asking(question) == phase = question /\ UNCHANGED <<invocations, interrupted, world, guided, run, files>>

Choosing == {"use-env", "again", "scopes", "mode", "artifacts", "confirm"}
Typing   == {"connection", "directory"}

Ask(question, n, multi) == phase' = question /\ prompt' = chooser(n, multi)

Press ==
    /\ phase \in Choosing
    /\ \E key \in Keys : prompt' = Update(prompt, key)
    /\ UNCHANGED <<invocations, phase, interrupted, exit, world, guided, previous, plan, shown, run, pools,
                   files>>

(* esc: nothing was run, and it is not a failure.                           *)
Cancel ==
    /\ phase \in Choosing \cup Typing
    /\ pools' = Released
    /\ End("ok")
    /\ UNCHANGED <<invocations, interrupted, world, guide, run, files>>

AnswerEnv ==
    /\ Asking("use-env")
    /\ IF chosen(prompt) = {1}
       THEN /\ plan' = [plan EXCEPT !.dsn = env.dsn, !.fromEnv = TRUE]
            /\ phase' = "connect" /\ prompt' = NoPrompt
       ELSE phase' = "connection" /\ prompt' = NoPrompt /\ UNCHANGED plan
    /\ UNCHANGED <<exit, previous, shown, pools>>

(* Host, port, database and user; each left empty is what it was before, or *)
(* the default.                                                             *)
AnswerConnection ==
    /\ Asking("connection")
    /\ \E typed \in Answers \cup {IF previous = None THEN Default ELSE previous} :
          /\ previous' = typed
          /\ plan' = [plan EXCEPT !.dsn = typed, !.fromEnv = FALSE]
    /\ phase' = "connect"
    /\ UNCHANGED <<exit, prompt, shown, pools>>

AnswerAgain ==
    /\ Asking("again")
    /\ IF chosen(prompt) = {1} THEN AskConnection(previous) /\ UNCHANGED exit
       ELSE End("ok") /\ UNCHANGED prompt
    /\ UNCHANGED <<previous, plan, shown, pools>>

AnswerScopes ==
    /\ Asking("scopes")
    /\ plan' = [plan EXCEPT !.schemas = {SchemasOf[plan.dsn][i] : i \in chosen(prompt)}]
    /\ Ask("mode", 2, FALSE)
    /\ UNCHANGED <<exit, previous, shown, pools>>

AnswerMode ==
    /\ Asking("mode")
    /\ plan' = [plan EXCEPT !.full = chosen(prompt) = {2}]
    /\ Ask("artifacts", 2, FALSE)
    /\ UNCHANGED <<exit, previous, shown, pools>>

(* composePlan returns, its pool is closed, and the command is printed.     *)
Compose(p) ==
    /\ plan' = p
    /\ shown' = Command(p)
    /\ pools' = Released
    /\ Ask("confirm", 2, FALSE)

AnswerArtifacts ==
    /\ Asking("artifacts")
    /\ IF chosen(prompt) = {1} THEN Compose(plan)
       ELSE phase' = "directory" /\ prompt' = NoPrompt /\ UNCHANGED <<plan, shown, pools>>
    /\ UNCHANGED <<exit, previous>>

AnswerDirectory ==
    /\ Asking("directory")
    /\ Compose([plan EXCEPT !.out = "out"])
    /\ UNCHANGED <<exit, previous>>

(* The first option, the one under the cursor, is to stop.                  *)
AnswerConfirm ==
    /\ phase = "confirm"
    /\ IF chosen(prompt) = {2}
       THEN phase' = "options" /\ line' = Parsed(Args(plan)) /\ UNCHANGED exit
       ELSE End("ok") /\ UNCHANGED line
    /\ UNCHANGED <<invocations, interrupted, world, guide, target, scope, result, pools, files>>

Answer ==
    \/ AnswerEnv \/ AnswerConnection \/ AnswerAgain \/ AnswerScopes
    \/ AnswerMode \/ AnswerArtifacts \/ AnswerDirectory \/ AnswerConfirm

------------------------------------------------------------------------------
(* db.Open, for the guide and for the run.                                  *)
Server == IF Holder = "setup" THEN plan.dsn ELSE target

OpenFailed ==
    IF Holder = "setup" THEN Ask("again", 2, FALSE) /\ UNCHANGED exit
    ELSE End("failure") /\ UNCHANGED prompt

(* The settings may not parse; a pool opens no connection by itself.        *)
Open ==
    /\ phase = "connect"
    /\ \/ /\ pools' = pools \cup {[holder |-> Holder, server |-> Server]}
          /\ phase' = "version" /\ UNCHANGED <<prompt, exit>>
       \/ OpenFailed /\ UNCHANGED pools
    /\ UNCHANGED <<invocations, interrupted, world, guided, previous, plan, shown, run, files>>

(* The first connection, and with it the session's policies: the server is  *)
(* out of reach, refuses, or is too old, and the pool is closed again.      *)
checkServerVersion ==
    /\ phase = "version"
    /\ \/ /\ Alive /\ Server \notin TooOld
          /\ phase' = IF Holder = "setup" THEN "schemas" ELSE "scope"
          /\ UNCHANGED <<prompt, exit, pools>>
       \/ OpenFailed /\ pools' = Released
    /\ UNCHANGED <<invocations, interrupted, world, guided, previous, plan, shown, run, files>>

(* SummarizeSchemas, and the list it is for.                                *)
SummarizeSchemas ==
    /\ phase = "schemas"
    /\ \/ /\ Alive /\ SchemasOf[plan.dsn] # <<>>
          /\ Ask("scopes", Len(SchemasOf[plan.dsn]), TRUE)
          /\ UNCHANGED <<pools, exit>>
       \/ End("failure") /\ pools' = Released /\ UNCHANGED prompt
    /\ UNCHANGED <<invocations, interrupted, world, guided, previous, plan, shown, run, files>>

------------------------------------------------------------------------------
(* runDiscover.                                                             *)

(* PGFATHOM_DSN before --dsn, and the PG* variables last.                   *)
ResolveDSN(flag) == IF env.dsn # None THEN env.dsn ELSE IF flag # None THEN flag ELSE env.libpq

(* Wrong usage is found before anything is opened: checkOutput, the score,  *)
(* the profile, --schema beside --all-schemas.                              *)
GoodOptions ==
    /\ line.valid
    /\ line.format = "sql" => line.out # ""
    /\ ~(line.all /\ line.schemas # {})

CheckOptions ==
    /\ phase = "options"
    /\ IF GoodOptions /\ ResolveDSN(line.dsn) # None
       THEN target' = ResolveDSN(line.dsn) /\ phase' = "connect" /\ UNCHANGED exit
       ELSE End(IF GoodOptions THEN "failure" ELSE "usage") /\ UNCHANGED target
    /\ UNCHANGED <<invocations, interrupted, world, guide, line, scope, result, pools, files>>

Resolved == resolveScope(ToSet(SchemasOf[target]), line)

(* ResolveScope, and the privileges, which only warn.                       *)
ResolveScope ==
    /\ phase = "scope"
    /\ \/ /\ Alive /\ Resolved # EmptyScope
          /\ scope' = Resolved /\ phase' = "discover" /\ UNCHANGED <<exit, pools>>
       \/ /\ Alive /\ Resolved = EmptyScope
          /\ End("usage") /\ pools' = ReleasedByConnect /\ UNCHANGED scope
       \/ End("failure") /\ pools' = ReleasedByConnect /\ UNCHANGED scope
    /\ UNCHANGED <<invocations, interrupted, world, guide, line, target, result, files>>

(* What validating a candidate may come to: the rows scanned decide, all of *)
(* them or a sample; a query that timed out decides nothing.                *)
Validated(c) ==
    LET rows == data[c.child.table]
        opts == Thresholds @@ [full |-> line.full]
        m    == method(sampleFor(estimate, opts))
        counts(scanned) == buildQuery(rows, c.child.columns, scanned,
                                      data[c.parent.table], c.parent.columns)
        come(v, q) == [of |-> c.of, child |-> c.child, parent |-> c.parent,
                       verdict |-> v, method |-> m, counts |-> q]
    IN  {come(verdict(counts(scanned), m, opts), counts(scanned)) :
            scanned \in IF m = "full" THEN {DOMAIN rows} ELSE SUBSET DOMAIN rows}
        \cup {come("unvalidated", counts({}))}

(* discovery.Run: a list of candidates in scope, or an error, which an      *)
(* interruption is.  A schema the server does not have has no tables.       *)
Discover ==
    /\ phase = "discover"
    /\ \/ /\ Alive
          /\ \E raised \in Raised :
                /\ \A i \in DOMAIN raised : {raised[i].child.schema, raised[i].parent.schema}
                                              \subseteq scope.schemas \cap ToSet(SchemasOf[target])
                /\ result' \in {r \in [DOMAIN raised -> UNION {Validated(raised[i]) : i \in DOMAIN raised}] :
                                    \A i \in DOMAIN raised : r[i] \in Validated(raised[i])}
          /\ phase' = IF line.out = "" THEN "report" ELSE "write"
          /\ UNCHANGED <<exit, pools>>
       \/ End("failure") /\ pools' = Released /\ UNCHANGED result
    /\ UNCHANGED <<invocations, interrupted, world, guide, line, target, scope, files>>

------------------------------------------------------------------------------
(* WriteArtifacts, the manifest and the report.                             *)
Generated == DiscoverArtifacts(result, Indexes)

\* Mutant: a category without findings has no file.
WithFindings == SelectSeq(DiscoverFiles, LAMBDA f : Generated[f] # <<>>)

ToWrite == DiscoverFiles

(* One file; os.WriteFile may fail before the old content is gone, or with  *)
(* the new one cut short.                                                   *)
Rewritten(whole) ==
    [disk EXCEPT ![ToWrite[written + 1]] = [run |-> invocations, whole |-> whole]]

WriteArtifact ==
    /\ phase = "write" /\ written < Len(ToWrite)
    /\ \/ /\ disk' = Rewritten(TRUE) /\ written' = written + 1
          /\ UNCHANGED <<phase, exit, pools>>
       \/ /\ disk' \in {disk, Rewritten(FALSE)} /\ UNCHANGED written
          /\ End("failure") /\ pools' = Released
    /\ UNCHANGED <<invocations, interrupted, world, guide, run, announced>>

Written ==
    /\ phase = "write" /\ written = Len(ToWrite)
    /\ phase' = "report"
    /\ UNCHANGED <<invocations, interrupted, exit, world, guide, run, pools, files>>

(* In every format what was written is listed: alone, after the report, or  *)
(* beside the JSON.  A write that fails fails the command.                  *)
Report ==
    /\ phase = "report"
    /\ \/ announced' = (line.out # "") /\ End("ok")
       \/ UNCHANGED announced /\ End("failure")
    /\ pools' = Released
    /\ UNCHANGED <<invocations, interrupted, world, guide, run, written, disk>>

------------------------------------------------------------------------------
(* SIGINT or SIGTERM: the prompts end the program by themselves; elsewhere  *)
(* the context is cancelled and the code goes on to notice.                 *)
Interrupt ==
    /\ Alive /\ phase # "over"
    /\ interrupted' = TRUE
    /\ IF phase \in Choosing \cup Typing
       THEN phase' = "over" /\ exit' = "interrupted" /\ pools' = Released
       ELSE UNCHANGED <<phase, exit, pools>>
    /\ UNCHANGED <<invocations, world, guide, run, files>>

(* The process is gone, perhaps in the middle of a file.                    *)
Crash ==
    /\ phase # "over"
    /\ phase' = "over" /\ exit' = "killed" /\ pools' = {}
    /\ IF phase = "write" /\ written < Len(ToWrite) THEN disk' \in {disk, Rewritten(FALSE)} ELSE UNCHANGED disk
    /\ UNCHANGED <<invocations, interrupted, world, guide, run, written, announced>>

Step ==
    \/ GuideRefused \/ Open \/ checkServerVersion \/ SummarizeSchemas \/ CheckOptions
    \/ ResolveScope \/ Discover \/ WriteArtifact \/ Written \/ Report

Next == Invoke \/ InvokeGuide \/ Press \/ Cancel \/ Answer \/ Step \/ Interrupt \/ Crash

Spec == Init /\ [][Next]_vars
------------------------------------------------------------------------------
(* Properties.                                                              *)

Phases == Choosing \cup Typing \cup {"over", "refused", "options", "connect", "version", "schemas", "scope",
                                      "discover", "write", "report"}

TypeOK ==
    /\ invocations \in 0..MaxInvocations /\ phase \in Phases
    /\ interrupted \in BOOLEAN /\ guided \in BOOLEAN /\ announced \in BOOLEAN
    /\ exit \in {"none", "ok", "usage", "failure", "interrupted", "killed"}
    /\ exit # "none" => phase = "over"
    /\ pools \subseteq [holder: {"setup", "discover"}, server: DOMAIN SchemasOf]
    /\ prompt.cursor \in 1..prompt.n /\ prompt.picked \subseteq 1..prompt.n
    /\ phase \in Choosing => chosen(prompt) # {} /\ (prompt.multi \/ Cardinality(chosen(prompt)) = 1)
    /\ written \in 0..Len(DiscoverFiles)

(* Whoever fails, whenever the signal comes: the guide's pool is closed     *)
(* before the run opens its own, none is left when the command returns, and *)
(* nothing is read but through a pool whose server passed the version       *)
(* check.                                                                   *)
PoolsAreClosed ==
    /\ Cardinality(pools) <= 1
    /\ phase = "over" => pools = {}
    /\ phase \in {"scope", "discover", "write", "report"} =>
          target \notin TooOld /\ pools = {[holder |-> "discover", server |-> target]}
    /\ phase \in {"schemas", "scopes", "mode", "artifacts", "directory"} =>
          plan.dsn \notin TooOld /\ pools = {[holder |-> "setup", server |-> plan.dsn]}

(* A name the join, the flag and the scope hand on as it is: one without a  *)
(* comma, a double quote or blanks around it.                               *)
Survives(name) == Parts(name) = {name} /\ Unquoted(name) = name /\ TrimSpace(name) = name

(* The guide runs nothing without a yes the cursor had to be moved to, and  *)
(* what runs has the mode and the directory that were answered, excludes    *)
(* nothing, and goes where the environment it was told to use says.  It     *)
(* reads the schemas that were picked and no other when their names survive *)
(* the way to the scope, and is the command that was printed when those     *)
(* names mean nothing to a shell.                                           *)
NothingRunsUnconfirmed ==
    /\ phase \in Choosing => prompt.cursor \in slice(prompt)
    /\ guided /\ line # NoLine =>
          /\ prompt.cursor = 2
          /\ line.full = plan.full /\ line.out = plan.out
          /\ scope # EmptyScope =>
                /\ scope.excluded = {}
                /\ (\A n \in plan.schemas : Survives(n)) => scope.schemas = plan.schemas
          /\ (\A t \in JoinedSchemas(plan.schemas) : Shell(t) = t) => line = Parsed(shown)
          /\ plan.fromEnv => target \in {None, plan.dsn}

(* A command that succeeded with --out leaves every one of its files whole  *)
(* and its own, whatever an earlier command left there, and has said so.    *)
FilesAreWhole ==
    phase = "over" /\ exit = "ok" /\ line # NoLine /\ line.out # "" =>
        announced /\ \A f \in DOMAIN disk : disk[f] = [run |-> invocations, whole |-> TRUE]

(* What those files let a reader run is true of the rows: a key that can be *)
(* executed passes its validation, and the listing of a key that was broken *)
(* over all the rows shows the orphans the verdict counted.                 *)
SqlIsTrue ==
    phase = "write" =>
        \A i \in DOMAIN result :
           LET c    == result[i]
               rows == data[c.child.table]
               parent == data[c.parent.table]
               listed == orphanQuery(rows, c.child.columns, parent, c.parent.columns)
               live(f) == \E sql \in ToSet(Generated[f]) : sql.live /\ sql.of = c.of
           IN  /\ live(FileConfirmed) =>
                     violationQuery(rows, c.child.columns, parent, c.parent.columns) = 0
               /\ live(FileBroken) => listed # {}
               /\ live(FileBroken) /\ c.method = "full" =>
                     /\ Cardinality(listed) = c.counts.orphanVals
                     /\ SumFunctionOnSet([l \in listed |-> l[2]], listed) = c.counts.orphanRows
               /\ ~(live(FileConfirmed) /\ live(FileBroken))

(* The files of a successful run: all of them, and true.                    *)
ArtifactsAreTrue == FilesAreWhole /\ SqlIsTrue

(* "so what runs is what was shown": the guide's command runs on the server *)
(* whose schemas were listed.                                               *)
RunsWhereAsked ==
    guided /\ phase \in {"scope", "discover", "write", "report"} => target = plan.dsn

(* "O SQL gerado executa sem edição manual": no statement of confirmed.sql  *)
(* gives a table a constraint whose name an earlier one has taken.          *)
ExecutesUnedited ==
    phase = "write" =>
        LET ddl == SelectSeq(Generated[FileConfirmed], LAMBDA sql : sql.does = "add_constraint")
        IN  \A i, j \in DOMAIN ddl :
               ddl[i].table = ddl[j].table /\ ddl[i].name = ddl[j].name => i = j
==============================================================================
