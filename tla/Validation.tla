------------------------------ MODULE Validation ------------------------------
(***************************************************************************)
(* internal/validate Run: one goroutine per candidate under an errgroup    *)
(* limit, each holding one pooled connection while its query runs, with    *)
(* errors that resolve one candidate and errors that cancel all of them.   *)
(*                                                                         *)
(* pc[c] is where candidate c's goroutine is:                              *)
(*   idle     not launched yet             query    the anti-join runs     *)
(*   begin    wants a connection           rollback answered, not released *)
(*   ceiling  sets its statement_timeout   resolve  runQuery has returned  *)
(*   count    takes its progress number    draw     reports that number    *)
(*   done     returned nil                 failed   returned an error      *)
(***************************************************************************)
EXTENDS Verdict, FiniteSets

CONSTANTS
    N,              \* candidates that reached validation
    Limit,          \* Options.Concurrency: the errgroup limit
    MaxConns,       \* the pool's connection cap
    Options,        \* sampling target, thresholds, full
    Rows,           \* reltuples of each candidate's child table
    Measurements,   \* what a validation query may report
    Ceiling,        \* Options.Timeout > 0
    Watched         \* Options.OnValidated # nil

Candidates == 1..N

ASSUME NAssumption        == N \in Nat \ {0}
ASSUME LimitAssumption    == Limit \in Nat \ {0} /\ MaxConns \in Nat \ {0}
ASSUME RowsAssumption     == Rows \in [Candidates -> Int]
ASSUME FlagAssumption     == Ceiling \in BOOLEAN /\ Watched \in BOOLEAN
ASSUME MeasurementsAssumption == Measurements \subseteq MeasurementOf(Nat)

VARIABLES
    next,           \* loop index: the candidate g.Go launches next
    pc,             \* where each goroutine is
    reply,          \* what runQuery got for each candidate
    slot,           \* res.Candidates and timedOut, by index
    held,           \* candidates whose goroutine holds a connection
    groupErr,       \* the errgroup's first error, or "none"
    interrupted,    \* the caller's context is cancelled
    done,           \* the atomic progress counter
    number,         \* the value each goroutine took from it
    drawn,          \* the last number the progress callback received
    tally,          \* Result.Validated and Result.TimedOut
    ret             \* "running", then "ok" or "error"

vars == <<next, pc, reply, slot, held, groupErr, interrupted, done, number,
          drawn, tally, ret>>

progressVars == <<done, number, drawn>>
callerVars   == <<next, interrupted, tally, ret>>

------------------------------------------------------------------------------
(* Values.                                                                  *)

Errors == {"timeout", "privilege", "fatal", "canceled"}

NoMeasurement ==
    [sampledRows |-> 0, notNull |-> 0, distinct |-> 0, orphanRows |-> 0, orphanVals |-> 0]

Replies  == [err: Errors, got: {NoMeasurement}] \union [err: {"none"}, got: Measurements]
Failure(e)  == [err |-> e, got |-> NoMeasurement]
Pending     == Failure("canceled")

Resolutions ==
    [of: Candidates, verdict: Verdicts, method: Methods \union {"none"}, timedOut: BOOLEAN]
Unset == [of |-> 0, verdict |-> "", method |-> "none", timedOut |-> FALSE]

States == {"idle", "begin", "ceiling", "query", "rollback", "resolve",
           "count", "draw", "done", "failed"}

------------------------------------------------------------------------------
(* The context every worker runs under is done when the caller's is, or     *)
(* once the group has recorded an error.                                    *)

\* Mutant: the closures capture the caller's context instead of the group's.
CallerContextDone == interrupted

ContextDone == interrupted \/ groupErr # "none"

\* Mutants: a slot given back before the connection; a failed goroutine's
\* slot never given back.
LiveUntilAnswered == {c \in Candidates :
    pc[c] \notin {"idle", "rollback", "resolve", "count", "draw", "done", "failed"}}
LiveWithFailed == {c \in Candidates : pc[c] \notin {"idle", "done"}}

(* Goroutines that occupy a slot of the group.                              *)
Live == {c \in Candidates : pc[c] \notin {"idle", "done", "failed"}}

Goto(c, label) == pc' = [pc EXCEPT ![c] = label]

------------------------------------------------------------------------------
Init ==
    /\ next = 1
    /\ pc = [c \in Candidates |-> "idle"]
    /\ reply = [c \in Candidates |-> Pending]
    /\ slot = [c \in Candidates |-> Unset]
    /\ held = {}
    /\ groupErr = "none"
    /\ interrupted = FALSE
    /\ done = 0
    /\ number = [c \in Candidates |-> 0]
    /\ drawn = 0
    /\ tally = [validated |-> 0, timedOut |-> 0]
    /\ ret = "running"

(* g.Go: blocks at the limit, and keeps launching after an error.           *)
Launch ==
    /\ next <= N
    /\ Cardinality(Live) < Limit
    /\ Goto(next, "begin")
    /\ next' = next + 1
    /\ UNCHANGED <<reply, slot, held, groupErr, interrupted, tally, ret, progressVars>>

(* The caller's context ends: a signal.                                     *)
Interrupt ==
    /\ ret = "running"
    /\ ~interrupted
    /\ interrupted' = TRUE
    /\ UNCHANGED <<next, pc, reply, slot, held, groupErr, tally, ret, progressVars>>

(* pool.Begin hands out a connection if one is free...                      *)
Begin(c) ==
    /\ pc[c] = "begin"
    /\ ~ContextDone
    /\ Cardinality(held) < MaxConns
    /\ held' = held \union {c}
    /\ Goto(c, IF Ceiling THEN "ceiling" ELSE "query")
    /\ UNCHANGED <<reply, slot, groupErr, callerVars, progressVars>>

(* ...waits for one until the context is done...                            *)
BeginCanceled(c) ==
    /\ pc[c] = "begin"
    /\ ContextDone
    /\ reply' = [reply EXCEPT ![c] = Failure("canceled")]
    /\ Goto(c, "resolve")
    /\ UNCHANGED <<slot, held, groupErr, callerVars, progressVars>>

(* ...or is refused by the server while opening one, with any error.        *)
BeginRefused(c) ==
    /\ pc[c] = "begin"
    /\ ~ContextDone
    /\ Cardinality(held) < MaxConns
    /\ \E e \in Errors \ {"canceled"} : reply' = [reply EXCEPT ![c] = Failure(e)]
    /\ Goto(c, "resolve")
    /\ UNCHANGED <<slot, held, groupErr, callerVars, progressVars>>

SetCeiling(c) ==
    /\ pc[c] = "ceiling"
    /\ Goto(c, "query")
    /\ UNCHANGED <<reply, slot, held, groupErr, callerVars, progressVars>>

SetCeilingFails(c) ==
    /\ pc[c] = "ceiling"
    /\ \E e \in Errors \ {"canceled"} : reply' = [reply EXCEPT ![c] = Failure(e)]
    /\ Goto(c, "rollback")
    /\ UNCHANGED <<slot, held, groupErr, callerVars, progressVars>>

(* The server answers the query: counts, or one of the errors it can raise. *)
Answer(c) ==
    /\ pc[c] = "query"
    /\ \E r \in Replies :
          /\ r.err # "canceled"
          /\ reply' = [reply EXCEPT ![c] = r]
    /\ Goto(c, "rollback")
    /\ UNCHANGED <<slot, held, groupErr, callerVars, progressVars>>

(* A statement in flight is abandoned when its context is done.             *)
Abandon(c) ==
    /\ pc[c] \in {"ceiling", "query"}
    /\ ContextDone
    /\ reply' = [reply EXCEPT ![c] = Failure("canceled")]
    /\ Goto(c, "rollback")
    /\ UNCHANGED <<slot, held, groupErr, callerVars, progressVars>>

\* Mutant: the transaction is closed on the way out of a successful query only.
HeldUnlessAnswered(c) == IF reply[c].err = "none" THEN held \ {c} ELSE held

HeldAfterRollback(c) == held \ {c}

(* The deferred Rollback, under a context that no longer cancels.           *)
Rollback(c) ==
    /\ pc[c] = "rollback"
    /\ held' = HeldAfterRollback(c)
    /\ Goto(c, "resolve")
    /\ UNCHANGED <<reply, slot, groupErr, callerVars, progressVars>>

------------------------------------------------------------------------------
(* resolveError: the context is consulted now, not when the server replied. *)

\* Mutant: the context is not consulted.
ResolvesWhateverTheContext(c) == reply[c].err \in {"timeout", "privilege"}

ResolvesCandidate(c) == ~ContextDone /\ reply[c].err \in {"timeout", "privilege"}

\* Mutant: the loop variable is shared by every closure.
SlotOfLoopVariable(c) == next - 1

SlotOf(c) == c

Measured(c) ==
    LET m == method(sampleFor(Rows[c], Options))
    IN  [of |-> c, verdict |-> verdict(reply[c].got, m, Options), method |-> m,
         timedOut |-> FALSE]

Unvalidated(c) ==
    [of |-> c, verdict |-> "unvalidated", method |-> "none",
     timedOut |-> reply[c].err = "timeout"]

Resolution(c) == IF reply[c].err = "none" THEN Measured(c) ELSE Unvalidated(c)

Settle(c) ==
    /\ pc[c] = "resolve"
    /\ reply[c].err = "none" \/ ResolvesCandidate(c)
    /\ slot' = [slot EXCEPT ![SlotOf(c)] = Resolution(c)]
    /\ Goto(c, IF Watched THEN "count" ELSE "done")
    /\ UNCHANGED <<reply, held, groupErr, callerVars, progressVars>>

\* Mutant: a later error replaces the first.
LastError(e) == e

FirstError(e) == IF groupErr = "none" THEN e ELSE groupErr

Abort(c) ==
    /\ pc[c] = "resolve"
    /\ reply[c].err # "none"
    /\ ~ResolvesCandidate(c)
    /\ groupErr' = FirstError(reply[c].err)
    /\ Goto(c, "failed")
    /\ UNCHANGED <<reply, slot, held, callerVars, progressVars>>

------------------------------------------------------------------------------
(* Progress: taking a number and reporting it are two steps, and only the   *)
(* first is atomic across goroutines.                                       *)

\* Mutant: the launcher counts the candidate as well as the goroutine.
CountedTwice == done + 2

Increment == done + 1

Count(c) ==
    /\ pc[c] = "count"
    /\ done' = Increment
    /\ number' = [number EXCEPT ![c] = done + 1]
    /\ Goto(c, "draw")
    /\ UNCHANGED <<reply, slot, held, groupErr, drawn, callerVars>>

Draw(c) ==
    /\ pc[c] = "draw"
    /\ drawn' = number[c]
    /\ Goto(c, "done")
    /\ UNCHANGED <<reply, slot, held, groupErr, done, number, callerVars>>

------------------------------------------------------------------------------
(* g.Wait and the count that follows it.                                    *)

\* Mutant: a cancellation is not reported as an error.
WaitErrorButCancellation == IF groupErr = "canceled" THEN "none" ELSE groupErr

WaitError == groupErr

\* Mutant: every unvalidated candidate is counted as timed out.
UnvalidatedSlots == {c \in Candidates : slot[c].verdict = "unvalidated"}

TimedOutSlots == {c \in Candidates : slot[c].timedOut}

ValidatedSlots == {c \in Candidates : slot[c].method # "none"}

Return ==
    /\ ret = "running"
    /\ next > N
    /\ Live = {}
    /\ ret' = IF WaitError = "none" THEN "ok" ELSE "error"
    /\ tally' = IF WaitError = "none"
                THEN [validated |-> Cardinality(ValidatedSlots),
                      timedOut  |-> Cardinality(TimedOutSlots)]
                ELSE tally
    /\ UNCHANGED <<next, pc, reply, slot, held, groupErr, interrupted, progressVars>>

Worker(c) ==
    \/ Begin(c) \/ BeginCanceled(c) \/ BeginRefused(c)
    \/ SetCeiling(c) \/ SetCeilingFails(c)
    \/ Answer(c) \/ Abandon(c) \/ Rollback(c)
    \/ Settle(c) \/ Abort(c)
    \/ Count(c) \/ Draw(c)

Next == Launch \/ Interrupt \/ Return \/ \E c \in Candidates : Worker(c)

Spec == Init /\ [][Next]_vars

(***************************************************************************)
(* Fairness is what the client alone guarantees: the scheduler runs every  *)
(* goroutine and a done context ends the wait it is in.  What needs the    *)
(* server is kept apart.  RollbackAnswers: the deferred ROLLBACK runs      *)
(* under a context nothing cancels, so only the server ends it.            *)
(* ServerAnswers: BEGIN, SET LOCAL and the query get an answer, which the  *)
(* session's statement_timeout forces.                                     *)
(***************************************************************************)
Fairness ==
    /\ WF_vars(Launch)
    /\ WF_vars(Return)
    /\ \A c \in Candidates :
          /\ WF_vars(BeginCanceled(c))
          /\ WF_vars(Abandon(c))
          /\ WF_vars(Settle(c) \/ Abort(c))
          /\ WF_vars(Count(c) \/ Draw(c))

RollbackAnswers == \A c \in Candidates : WF_vars(Rollback(c))

ServerAnswers ==
    /\ RollbackAnswers
    /\ \A c \in Candidates :
          WF_vars(Begin(c) \/ BeginRefused(c) \/ SetCeiling(c) \/ SetCeilingFails(c) \/ Answer(c))

FairSpec == Spec /\ Fairness

------------------------------------------------------------------------------
(* Properties.                                                              *)

(* Every variable holds a value of its kind.                                *)
TypeOK ==
    /\ next \in 1..(N + 1)
    /\ pc \in [Candidates -> States]
    /\ reply \in [Candidates -> Replies]
    /\ slot \in [Candidates -> Resolutions \union {Unset}]
    /\ held \in SUBSET Candidates
    /\ groupErr \in Errors \union {"none"}
    /\ interrupted \in BOOLEAN
    /\ done \in 0..N
    /\ number \in [Candidates -> 0..N]
    /\ drawn \in 0..N
    /\ tally \in [validated: 0..N, timedOut: 0..N]
    /\ ret \in {"running", "ok", "error"}

Waiting == {c \in Candidates : pc[c] = "begin"}

(* With the two limits equal, a launched goroutine never waits for another  *)
(* to give a connection back: the group blocks before the pool does         *)
(* (validate.go's comment on Options.Concurrency).                          *)
NobodyWaitsForAConnection ==
    Limit <= MaxConns => Cardinality(Waiting) + Cardinality(held) <= MaxConns

(* A connection is held only between Begin and Rollback of a live           *)
(* goroutine, so a run that has returned, however it ended, holds none.     *)
ReturnHoldsNothing ==
    ret # "running" => held = {} /\ Live = {}

(* Results come back in the input order: the slot at index c, once written, *)
(* carries candidate c and what the server said about c.                    *)
SlotsInInputOrder ==
    \A c \in Candidates : slot[c] # Unset => slot[c] = Resolution(c)

(* The error a run returns is its cause: a time ceiling, a missing          *)
(* privilege or a cancellation only ever surfaces when the caller           *)
(* interrupted; the cancellations a fatal error provokes in its siblings    *)
(* never mask it.                                                           *)
ErrorIsTheCause ==
    groupErr \in {"timeout", "privilege", "canceled"} => interrupted

(* A run that reports success lost nothing: every candidate is resolved, no *)
(* server error was swallowed, and the progress callback got every number   *)
(* from 1 to N once.                                                        *)
SuccessIsComplete ==
    ret = "ok" =>
        /\ \A c \in Candidates : slot[c] # Unset /\ reply[c].err # "fatal"
        /\ Watched => {number[c] : c \in Candidates} = Candidates

(* The two totals of the result agree with what the server answered: as     *)
(* many measured candidates as answers, as many timed out as ceilings that  *)
(* fired, a missing privilege being neither.                                *)
TallyMatchesReplies ==
    ret = "ok" =>
        /\ tally.validated = Cardinality({c \in Candidates : reply[c].err = "none"})
        /\ tally.timedOut  = Cardinality({c \in Candidates : reply[c].err = "timeout"})

(* A candidate read by sampling is never confirmed, whatever was counted.   *)
SampledNeverConfirms ==
    \A c \in Candidates : slot[c].verdict = "confirmed" => slot[c].method = "full"

(* The goroutines, connections and errors implement the contract.           *)
Contract == INSTANCE ValidationContract WITH
    doomed <- interrupted \/ groupErr # "none"

ImplementsContract == Contract!Spec

(* A cancelled run returns even if the server never answers its queries.    *)
CancelReturns ==
    RollbackAnswers => ((interrupted \/ groupErr # "none") ~> ret # "running")

(* A run whose queries are answered returns.                                *)
Terminates == ServerAnswers => <>(ret # "running")
==============================================================================
