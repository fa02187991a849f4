--------------------------- MODULE ValidationProofs ---------------------------
(***************************************************************************)
(* The safety of a validation run, proved for any number of candidates,    *)
(* any limit and any pool.  IInv strengthens the type invariant with what  *)
(* ties the goroutines' places to the connections held, the slots written, *)
(* the numbers drawn and the error recorded.                               *)
(***************************************************************************)
EXTENDS Validation, FiniteSetTheorems, TLAPS

Holding == {"ceiling", "query", "rollback"}
Settled == {"count", "draw", "done"}
Counted == {c \in Candidates : number[c] # 0}

(* Connections are held by the goroutines between Begin and Rollback.       *)
HeldWhileQuerying == held = {c \in Candidates : pc[c] \in Holding}

(* The loop launches the candidates in order.                               *)
LaunchedInOrder == \A c \in Candidates : pc[c] = "idle" <=> next <= c

(* A slot is written once its goroutine has settled, and not before.        *)
SlotsSettled == \A c \in Candidates :
    IF pc[c] \in Settled
    THEN slot[c] = Resolution(c) /\ reply[c].err \in {"none", "timeout", "privilege"}
    ELSE slot[c] = Unset

(* The group has an error exactly when some goroutine returned one.         *)
FailuresRecorded == groupErr # "none" <=> \E c \in Candidates : pc[c] = "failed"

(* A query is only ever canceled under a context that is done.              *)
CanceledUnderContext == \A c \in Candidates :
    pc[c] \in {"rollback", "resolve"} /\ reply[c].err = "canceled" => ContextDone

WithinLimit == Cardinality(Live) <= Limit

(* The numbers handed out are 1..done, one per goroutine that took one.     *)
CounterCounts ==
    /\ done = Cardinality(Counted)
    /\ {number[c] : c \in Counted} = 1..done

NumbersTaken == \A c \in Candidates :
    /\ pc[c] \notin {"draw", "done"} => number[c] = 0
    /\ pc[c] = "draw" \/ (pc[c] = "done" /\ Watched) => number[c] # 0

(* Once returned, every goroutine has ended and the tally is frozen.        *)
ReturnedIsOver == ret # "running" =>
    /\ next > N
    /\ Live = {}
    /\ ret = "ok" => /\ groupErr = "none"
                     /\ tally.validated = Cardinality(ValidatedSlots)
                     /\ tally.timedOut = Cardinality(TimedOutSlots)

IInv ==
    /\ TypeOK
    /\ HeldWhileQuerying
    /\ LaunchedInOrder
    /\ SlotsSettled
    /\ FailuresRecorded
    /\ CanceledUnderContext
    /\ ErrorIsTheCause
    /\ WithinLimit
    /\ CounterCounts
    /\ NumbersTaken
    /\ ReturnedIsOver

USE DEF Candidates

------------------------------------------------------------------------------
(* The verdict rules.                                                       *)

(* A measurement always earns one of the five verdicts.                     *)
LEMMA VerdictType ==
    ASSUME NEW v, NEW m, NEW opts
    PROVE  verdict(v, m, opts) \in Verdicts
BY DEF verdict, OrphanVerdict, Verdicts

(* A sampled read never confirms, whatever was counted and whatever the     *)
(* thresholds: validate.go keeps "confirmed" for a conclusive method.       *)
THEOREM SampledVerdict ==
    ASSUME NEW v, NEW m, NEW opts, verdict(v, m, opts) = "confirmed"
    PROVE  m = "full"
BY DEF verdict, OrphanVerdict, Conclusive

(* More orphans never improve a verdict: two full reads that differ in the  *)
(* orphans only are ranked confirmed, broken, weak, rejected, whatever the  *)
(* thresholds, the two that cross each other included.  Sampled, it is      *)
(* false, and so meant: a clean sample is weak, and an orphan in it is a    *)
(* breakage.                                                                *)
Standing == <<"rejected", "weak", "broken", "confirmed">>

AtLeast(first, second) == \E i, j \in 1..4 : i >= j /\ Standing[i] = first /\ Standing[j] = second

LEMMA ContainmentFalls ==
    ASSUME NEW v \in MeasurementOf(Nat), NEW w \in MeasurementOf(Nat), NEW percent \in Int,
           w.notNull = v.notNull, v.orphanRows <= w.orphanRows, ContainsAtLeast(w, percent)
    PROVE  ContainsAtLeast(v, percent)
<1> DEFINE bound == percent * v.notNull
<1>1. bound \in Int /\ v.notNull \in Nat /\ v.orphanRows \in Nat /\ w.orphanRows \in Nat
  BY DEF MeasurementOf
<1>2. 100 * (v.notNull - w.orphanRows) >= bound
  BY DEF ContainsAtLeast
<1>3. 100 * (v.notNull - v.orphanRows) >= bound
  <2> HIDE DEF bound
  <2> QED BY <1>1, <1>2
<1> QED BY <1>3 DEF ContainsAtLeast

THEOREM MoreOrphansNeverHelp ==
    ASSUME NEW v \in MeasurementOf(Nat), NEW w \in MeasurementOf(Nat), NEW opts,
           opts.broken \in Int, opts.reject \in Int,
           w = [v EXCEPT !.orphanRows = w.orphanRows, !.orphanVals = w.orphanVals],
           v.orphanRows <= w.orphanRows, v.orphanVals <= w.orphanVals
    PROVE  AtLeast(verdict(v, "full", opts), verdict(w, "full", opts))
<1>0. brokenThreshold(opts) \in Int /\ rejectThreshold(opts) \in Int
  BY DEF brokenThreshold, rejectThreshold, OrDefault
<1>1. /\ v.orphanRows \in Nat /\ v.orphanVals \in Nat /\ w.orphanRows \in Nat /\ w.orphanVals \in Nat
      /\ w.notNull = v.notNull /\ w.distinct = v.distinct /\ w.sampledRows = v.sampledRows
  BY DEF MeasurementOf
<1>2. Insufficient(w, opts) = Insufficient(v, opts)
  BY <1>1 DEF Insufficient, NullsDominate
<1>3. NoOrphans(w) => NoOrphans(v)
  BY <1>1 DEF NoOrphans
<1>4. ContainsAtLeast(w, brokenThreshold(opts)) => ContainsAtLeast(v, brokenThreshold(opts))
  BY <1>0, <1>1, ContainmentFalls
<1>5. ContainsAtLeast(w, rejectThreshold(opts)) => ContainsAtLeast(v, rejectThreshold(opts))
  BY <1>0, <1>1, ContainmentFalls
<1> DEFINE first == verdict(v, "full", opts)  second == verdict(w, "full", opts)
<1>6. first \in Verdicts /\ second \in Verdicts /\ first # "unvalidated" /\ second # "unvalidated"
  BY DEF verdict, OrphanVerdict, Verdicts
<1>7. /\ second = "confirmed" => first = "confirmed"
      /\ second = "broken" => first \in {"broken", "confirmed"}
      /\ first = "rejected" => second = "rejected"
  BY <1>2, <1>3, <1>4, <1>5 DEF verdict, OrphanVerdict, Conclusive
<1> HIDE DEF first, second
<1>8. /\ Standing[1] = "rejected" /\ Standing[2] = "weak" /\ Standing[3] = "broken" /\ Standing[4] = "confirmed"
      /\ {1, 2, 3, 4} \subseteq 1..4
  BY DEF Standing
<1>9. AtLeast(first, second)
  <2>1. CASE first = "confirmed"
    BY <1>6, <1>8, <2>1 DEF AtLeast, Verdicts
  <2>2. CASE first = "broken"
    BY <1>6, <1>7, <1>8, <2>2 DEF AtLeast, Verdicts
  <2>3. CASE first = "weak"
    BY <1>6, <1>7, <1>8, <2>3 DEF AtLeast, Verdicts
  <2>4. CASE first = "rejected"
    BY <1>7, <1>8, <2>4 DEF AtLeast
  <2> QED BY <1>6, <2>1, <2>2, <2>3, <2>4 DEF Verdicts
<1> QED BY <1>9 DEF first, second

(* A resolution is a slot value of its own: never the zero value.           *)
LEMMA ResolutionType ==
    ASSUME NEW c \in Candidates
    PROVE  /\ Resolution(c) \in Resolutions
           /\ Resolution(c) # Unset
           /\ Resolution(c).of = c
<1>1. method(sampleFor(Rows[c], Options)) \in Methods
    BY DEF method, Methods
<1>2. Measured(c) \in Resolutions /\ Measured(c).of = c
    BY <1>1, VerdictType DEF Measured, Resolutions
<1>3. Unvalidated(c) \in Resolutions /\ Unvalidated(c).of = c
    BY DEF Unvalidated, Resolutions, Verdicts
<1>4. Unset.of = 0 /\ c # 0
    BY DEF Unset
<1>. QED
    BY <1>2, <1>3, <1>4 DEF Resolution

------------------------------------------------------------------------------
(* Finite sets of candidates.                                               *)

(* Sets of candidates are finite, and a proper one is smaller than N.       *)
LEMMA CandidateSets ==
    ASSUME NEW S \in SUBSET Candidates
    PROVE  /\ IsFiniteSet(S)
           /\ Cardinality(S) \in 0..N
           /\ \A c \in Candidates : c \notin S =>
                 /\ Cardinality(S) < N
                 /\ Cardinality(S \union {c}) = Cardinality(S) + 1
           /\ \A T \in SUBSET S : Cardinality(T) <= Cardinality(S)
<1>1. IsFiniteSet(Candidates) /\ Cardinality(Candidates) = N
    BY NAssumption, FS_Interval
<1>2. IsFiniteSet(S) /\ Cardinality(S) \in Nat /\ Cardinality(S) <= N
    BY <1>1, FS_Subset, FS_CardinalityType
<1>3. ASSUME NEW c \in Candidates, c \notin S
      PROVE  Cardinality(S) < N /\ Cardinality(S \union {c}) = Cardinality(S) + 1
    <2>1. Cardinality(S \union {c}) = Cardinality(S) + 1
        BY <1>2, <1>3, FS_AddElement
    <2>2. S \union {c} \in SUBSET Candidates
        BY <1>3
    <2>3. Cardinality(S \union {c}) <= N
        BY <1>1, <2>2, FS_Subset
    <2>. QED BY <1>2, <2>1, <2>3, NAssumption
<1>4. \A T \in SUBSET S : Cardinality(T) <= Cardinality(S)
    BY <1>2, FS_Subset
<1>. QED BY <1>2, <1>3, <1>4, NAssumption

------------------------------------------------------------------------------
(* Frames: what a step that moves one goroutine leaves in place.            *)

(* A resolution depends on its own reply only.                              *)
LEMMA ResolutionFrame ==
    ASSUME NEW c \in Candidates, reply'[c] = reply[c]
    PROVE  Resolution(c)' = Resolution(c)
BY DEF Resolution, Measured, Unvalidated

(* A step of a live goroutine starts no other one and finds the run going.  *)
LEMMA WorkerFrame ==
    ASSUME IInv, NEW c \in Candidates, NEW label \in States \ {"idle"},
           pc[c] \notin {"idle", "done", "failed"},
           Goto(c, label), UNCHANGED <<next, tally, ret>>
    PROVE  LaunchedInOrder' /\ WithinLimit' /\ ReturnedIsOver' /\ ret = "running"
<1>. USE DEF IInv, TypeOK, Goto
<1>1. ret = "running"
    BY DEF ReturnedIsOver, Live
<1>2. Live \in SUBSET Candidates /\ Live' \in SUBSET Live
    BY DEF Live
<1>3. Cardinality(Live') <= Cardinality(Live) /\ Cardinality(Live) \in Nat
                                             /\ Cardinality(Live') \in Nat
    BY <1>2, CandidateSets, NAssumption
<1>4. WithinLimit'
    BY <1>3, LimitAssumption DEF WithinLimit
<1>5. LaunchedInOrder'
    BY DEF LaunchedInOrder
<1>. QED
    BY <1>1, <1>4, <1>5 DEF ReturnedIsOver

(* Nothing about the counter changes when neither it nor a number does.     *)
LEMMA CounterFrame ==
    ASSUME CounterCounts, UNCHANGED <<done, number>>
    PROVE  CounterCounts'
BY DEF CounterCounts, Counted

------------------------------------------------------------------------------
(* One lemma per action.                                                    *)

LEMMA InitEstablishes == Init => IInv
<1>. SUFFICES ASSUME Init PROVE IInv
    OBVIOUS
<1>. USE DEF Init
<1>1. TypeOK
    <2>1. Pending \in Replies
        BY DEF Pending, Failure, Replies, Errors
    <2>2. tally \in [validated: 0..N, timedOut: 0..N]
        BY NAssumption
    <2>3. /\ pc \in [Candidates -> States]
          /\ reply \in [Candidates -> Replies]
          /\ slot \in [Candidates -> Resolutions \union {Unset}]
          /\ number \in [Candidates -> 0..N]
        BY <2>1, NAssumption DEF States
    <2>4. next \in 1..(N + 1) /\ done \in 0..N /\ drawn \in 0..N
        BY NAssumption
    <2>. QED
        BY <2>2, <2>3, <2>4 DEF TypeOK
<1>2. Live = {} /\ Counted = {}
    BY DEF Live, Counted
<1>3. Cardinality({}) = 0
    BY FS_EmptySet
<1>4. WithinLimit
    BY <1>2, <1>3, LimitAssumption DEF WithinLimit
<1>5. CounterCounts
    BY <1>2, <1>3 DEF CounterCounts
<1>6. HeldWhileQuerying /\ LaunchedInOrder /\ FailuresRecorded
    BY NAssumption DEF HeldWhileQuerying, Holding, LaunchedInOrder, FailuresRecorded
<1>7. SlotsSettled /\ CanceledUnderContext /\ NumbersTaken
    BY DEF SlotsSettled, Settled, CanceledUnderContext, NumbersTaken
<1>8. ErrorIsTheCause /\ ReturnedIsOver
    BY DEF ErrorIsTheCause, ReturnedIsOver
<1>. QED
    BY <1>1, <1>4, <1>5, <1>6, <1>7, <1>8 DEF IInv

LEMMA LaunchKeeps == IInv /\ Launch => IInv'
<1>. SUFFICES ASSUME IInv, Launch PROVE IInv'
    OBVIOUS
<1>. USE NAssumption DEF IInv, Launch, Goto, progressVars
<1>1. next \in Candidates /\ pc[next] = "idle" /\ ret = "running"
    BY DEF TypeOK, LaunchedInOrder, ReturnedIsOver
<1>2. TypeOK'
    BY <1>1 DEF TypeOK, States
<1>3. Live' = Live \union {next} /\ next \notin Live /\ Live \in SUBSET Candidates
    BY <1>1 DEF Live, TypeOK
<1>4. Cardinality(Live') = Cardinality(Live) + 1 /\ Cardinality(Live) \in Nat
    BY <1>1, <1>3, CandidateSets
<1>5. WithinLimit'
    BY <1>4, LimitAssumption DEF WithinLimit
<1>6. HeldWhileQuerying' /\ LaunchedInOrder' /\ FailuresRecorded'
    BY <1>1 DEF TypeOK, HeldWhileQuerying, Holding, LaunchedInOrder, FailuresRecorded
<1>7. SlotsSettled'
    BY <1>1, ResolutionFrame DEF TypeOK, SlotsSettled, Settled
<1>8. CanceledUnderContext' /\ NumbersTaken'
    BY <1>1 DEF TypeOK, CanceledUnderContext, NumbersTaken, ContextDone
<1>9. ErrorIsTheCause' /\ ReturnedIsOver' /\ CounterCounts'
    BY <1>1, CounterFrame DEF ErrorIsTheCause, ReturnedIsOver
<1>. QED
    BY <1>2, <1>5, <1>6, <1>7, <1>8, <1>9

LEMMA InterruptKeeps == IInv /\ Interrupt => IInv'
<1>. SUFFICES ASSUME IInv, Interrupt PROVE IInv'
    OBVIOUS
<1>. USE DEF IInv, Interrupt, progressVars
<1>1. TypeOK' /\ HeldWhileQuerying' /\ LaunchedInOrder' /\ FailuresRecorded'
    BY DEF TypeOK, HeldWhileQuerying, Holding, LaunchedInOrder, FailuresRecorded
<1>2. SlotsSettled'
    BY ResolutionFrame DEF SlotsSettled, Settled
<1>3. CanceledUnderContext' /\ NumbersTaken' /\ ErrorIsTheCause'
    BY DEF CanceledUnderContext, NumbersTaken, ErrorIsTheCause, ContextDone
<1>4. WithinLimit' /\ ReturnedIsOver' /\ CounterCounts'
    BY CounterFrame DEF WithinLimit, Live, ReturnedIsOver
<1>. QED
    BY <1>1, <1>2, <1>3, <1>4

LEMMA BeginKeeps == \A c \in Candidates : IInv /\ Begin(c) => IInv'
<1>. SUFFICES ASSUME NEW c \in Candidates, IInv, Begin(c) PROVE IInv'
    OBVIOUS
<1>. USE DEF Begin, callerVars, progressVars
<1>1. LaunchedInOrder' /\ WithinLimit' /\ ReturnedIsOver' /\ CounterCounts'
    BY WorkerFrame, CounterFrame DEF States, IInv
<1>. USE DEF IInv, Goto
<1>2. TypeOK'
    BY DEF TypeOK, States
<1>3. HeldWhileQuerying' /\ FailuresRecorded' /\ ErrorIsTheCause'
    BY DEF TypeOK, HeldWhileQuerying, Holding, FailuresRecorded, ErrorIsTheCause
<1>4. SlotsSettled'
    BY ResolutionFrame DEF TypeOK, SlotsSettled, Settled
<1>5. CanceledUnderContext' /\ NumbersTaken'
    BY DEF TypeOK, CanceledUnderContext, NumbersTaken, ContextDone
<1>. QED
    BY <1>1, <1>2, <1>3, <1>4, <1>5

LEMMA BeginCanceledKeeps == \A c \in Candidates : IInv /\ BeginCanceled(c) => IInv'
<1>. SUFFICES ASSUME NEW c \in Candidates, IInv, BeginCanceled(c) PROVE IInv'
    OBVIOUS
<1>. USE DEF BeginCanceled, callerVars, progressVars
<1>1. LaunchedInOrder' /\ WithinLimit' /\ ReturnedIsOver' /\ CounterCounts'
    BY WorkerFrame, CounterFrame DEF States, IInv
<1>. USE DEF IInv, Goto
<1>2. TypeOK'
    BY DEF TypeOK, States, Replies, Errors, Failure
<1>3. HeldWhileQuerying' /\ FailuresRecorded' /\ ErrorIsTheCause'
    BY DEF TypeOK, HeldWhileQuerying, Holding, FailuresRecorded, ErrorIsTheCause
<1>4. SlotsSettled'
    BY ResolutionFrame DEF TypeOK, SlotsSettled, Settled
<1>5. CanceledUnderContext' /\ NumbersTaken'
    BY DEF TypeOK, CanceledUnderContext, NumbersTaken, ContextDone, Failure
<1>. QED
    BY <1>1, <1>2, <1>3, <1>4, <1>5

LEMMA BeginRefusedKeeps == \A c \in Candidates : IInv /\ BeginRefused(c) => IInv'
<1>. SUFFICES ASSUME NEW c \in Candidates, IInv, BeginRefused(c) PROVE IInv'
    OBVIOUS
<1>. USE DEF BeginRefused, callerVars, progressVars
<1>1. LaunchedInOrder' /\ WithinLimit' /\ ReturnedIsOver' /\ CounterCounts'
    BY WorkerFrame, CounterFrame DEF States, IInv
<1>. USE DEF IInv, Goto
<1>2. TypeOK'
    BY DEF TypeOK, States, Replies, Errors, Failure
<1>3. HeldWhileQuerying' /\ FailuresRecorded' /\ ErrorIsTheCause'
    BY DEF TypeOK, HeldWhileQuerying, Holding, FailuresRecorded, ErrorIsTheCause
<1>4. SlotsSettled'
    BY ResolutionFrame DEF TypeOK, SlotsSettled, Settled
<1>5. CanceledUnderContext' /\ NumbersTaken'
    BY DEF TypeOK, CanceledUnderContext, NumbersTaken, ContextDone, Failure
<1>. QED
    BY <1>1, <1>2, <1>3, <1>4, <1>5

LEMMA SetCeilingKeeps == \A c \in Candidates : IInv /\ SetCeiling(c) => IInv'
<1>. SUFFICES ASSUME NEW c \in Candidates, IInv, SetCeiling(c) PROVE IInv'
    OBVIOUS
<1>. USE DEF SetCeiling, callerVars, progressVars
<1>1. LaunchedInOrder' /\ WithinLimit' /\ ReturnedIsOver' /\ CounterCounts'
    BY WorkerFrame, CounterFrame DEF States, IInv
<1>. USE DEF IInv, Goto
<1>2. TypeOK'
    BY DEF TypeOK, States
<1>3. HeldWhileQuerying' /\ FailuresRecorded' /\ ErrorIsTheCause'
    BY DEF TypeOK, HeldWhileQuerying, Holding, FailuresRecorded, ErrorIsTheCause
<1>4. SlotsSettled'
    BY ResolutionFrame DEF TypeOK, SlotsSettled, Settled
<1>5. CanceledUnderContext' /\ NumbersTaken'
    BY DEF TypeOK, CanceledUnderContext, NumbersTaken, ContextDone
<1>. QED
    BY <1>1, <1>2, <1>3, <1>4, <1>5

LEMMA SetCeilingFailsKeeps == \A c \in Candidates : IInv /\ SetCeilingFails(c) => IInv'
<1>. SUFFICES ASSUME NEW c \in Candidates, IInv, SetCeilingFails(c) PROVE IInv'
    OBVIOUS
<1>. USE DEF SetCeilingFails, callerVars, progressVars
<1>1. LaunchedInOrder' /\ WithinLimit' /\ ReturnedIsOver' /\ CounterCounts'
    BY WorkerFrame, CounterFrame DEF States, IInv
<1>. USE DEF IInv, Goto
<1>2. TypeOK'
    BY DEF TypeOK, States, Replies, Errors, Failure
<1>3. HeldWhileQuerying' /\ FailuresRecorded' /\ ErrorIsTheCause'
    BY DEF TypeOK, HeldWhileQuerying, Holding, FailuresRecorded, ErrorIsTheCause
<1>4. SlotsSettled'
    BY ResolutionFrame DEF TypeOK, SlotsSettled, Settled
<1>5. CanceledUnderContext' /\ NumbersTaken'
    BY DEF TypeOK, CanceledUnderContext, NumbersTaken, ContextDone, Failure
<1>. QED
    BY <1>1, <1>2, <1>3, <1>4, <1>5

LEMMA AnswerKeeps == \A c \in Candidates : IInv /\ Answer(c) => IInv'
<1>. SUFFICES ASSUME NEW c \in Candidates, IInv, Answer(c) PROVE IInv'
    OBVIOUS
<1>. USE DEF Answer, callerVars, progressVars
<1>1. LaunchedInOrder' /\ WithinLimit' /\ ReturnedIsOver' /\ CounterCounts'
    BY WorkerFrame, CounterFrame DEF States, IInv
<1>. USE DEF IInv, Goto
<1>2. TypeOK'
    BY DEF TypeOK, States, Replies, Errors, Failure
<1>3. HeldWhileQuerying' /\ FailuresRecorded' /\ ErrorIsTheCause'
    BY DEF TypeOK, HeldWhileQuerying, Holding, FailuresRecorded, ErrorIsTheCause
<1>4. SlotsSettled'
    BY ResolutionFrame DEF TypeOK, SlotsSettled, Settled
<1>5. CanceledUnderContext' /\ NumbersTaken'
    BY DEF TypeOK, CanceledUnderContext, NumbersTaken, ContextDone, Failure
<1>. QED
    BY <1>1, <1>2, <1>3, <1>4, <1>5

LEMMA AbandonKeeps == \A c \in Candidates : IInv /\ Abandon(c) => IInv'
<1>. SUFFICES ASSUME NEW c \in Candidates, IInv, Abandon(c) PROVE IInv'
    OBVIOUS
<1>. USE DEF Abandon, callerVars, progressVars
<1>1. LaunchedInOrder' /\ WithinLimit' /\ ReturnedIsOver' /\ CounterCounts'
    BY WorkerFrame, CounterFrame DEF States, IInv
<1>. USE DEF IInv, Goto
<1>2. TypeOK'
    BY DEF TypeOK, States, Replies, Errors, Failure
<1>3. HeldWhileQuerying' /\ FailuresRecorded' /\ ErrorIsTheCause'
    BY DEF TypeOK, HeldWhileQuerying, Holding, FailuresRecorded, ErrorIsTheCause
<1>4. SlotsSettled'
    BY ResolutionFrame DEF TypeOK, SlotsSettled, Settled
<1>5. CanceledUnderContext' /\ NumbersTaken'
    BY DEF TypeOK, CanceledUnderContext, NumbersTaken, ContextDone, Failure
<1>. QED
    BY <1>1, <1>2, <1>3, <1>4, <1>5

LEMMA RollbackKeeps == \A c \in Candidates : IInv /\ Rollback(c) => IInv'
<1>. SUFFICES ASSUME NEW c \in Candidates, IInv, Rollback(c) PROVE IInv'
    OBVIOUS
<1>. USE DEF Rollback, callerVars, progressVars
<1>1. LaunchedInOrder' /\ WithinLimit' /\ ReturnedIsOver' /\ CounterCounts'
    BY WorkerFrame, CounterFrame DEF States, IInv
<1>. USE DEF IInv, Goto
<1>2. TypeOK'
    BY DEF TypeOK, States, HeldAfterRollback
<1>3. HeldWhileQuerying' /\ FailuresRecorded' /\ ErrorIsTheCause'
    BY DEF TypeOK, HeldWhileQuerying, Holding, FailuresRecorded, ErrorIsTheCause, HeldAfterRollback
<1>4. SlotsSettled'
    BY ResolutionFrame DEF TypeOK, SlotsSettled, Settled
<1>5. CanceledUnderContext' /\ NumbersTaken'
    BY DEF TypeOK, CanceledUnderContext, NumbersTaken, ContextDone
<1>. QED
    BY <1>1, <1>2, <1>3, <1>4, <1>5

(* Settle writes the goroutine's own slot, with what the server answered.   *)
LEMMA SettleKeeps == \A c \in Candidates : IInv /\ Settle(c) => IInv'
<1>. SUFFICES ASSUME NEW c \in Candidates, IInv, Settle(c) PROVE IInv'
    OBVIOUS
<1>. USE DEF Settle, SlotOf, callerVars, progressVars
<1>1. LaunchedInOrder' /\ WithinLimit' /\ ReturnedIsOver' /\ CounterCounts'
    BY WorkerFrame, CounterFrame DEF States, IInv
<1>. USE DEF IInv, Goto
<1>2. TypeOK'
    BY ResolutionType DEF TypeOK, States
<1>3. HeldWhileQuerying' /\ FailuresRecorded' /\ ErrorIsTheCause'
    BY DEF TypeOK, HeldWhileQuerying, Holding, FailuresRecorded, ErrorIsTheCause
<1>4. SlotsSettled'
    <2>1. reply[c].err \in {"none", "timeout", "privilege"}
        BY DEF ResolvesCandidate
    <2>. QED
        BY <2>1, ResolutionFrame DEF TypeOK, SlotsSettled, Settled
<1>5. CanceledUnderContext' /\ NumbersTaken'
    BY FlagAssumption DEF TypeOK, CanceledUnderContext, NumbersTaken, ContextDone
<1>. QED
    BY <1>1, <1>2, <1>3, <1>4, <1>5

(* Abort records the first error; a later one finds the group's already set.*)
LEMMA AbortKeeps == \A c \in Candidates : IInv /\ Abort(c) => IInv'
<1>. SUFFICES ASSUME NEW c \in Candidates, IInv, Abort(c) PROVE IInv'
    OBVIOUS
<1>. USE DEF Abort, FirstError, callerVars, progressVars
<1>1. LaunchedInOrder' /\ WithinLimit' /\ ReturnedIsOver' /\ CounterCounts'
    BY WorkerFrame, CounterFrame DEF States, IInv
<1>. USE DEF IInv, Goto
<1>2. reply[c].err \in Errors
    BY DEF TypeOK, Replies
<1>3. TypeOK'
    BY <1>2 DEF TypeOK, States
<1>4. HeldWhileQuerying' /\ FailuresRecorded'
    BY <1>2 DEF TypeOK, HeldWhileQuerying, Holding, FailuresRecorded, Errors
<1>5. ErrorIsTheCause'
    BY <1>2 DEF ErrorIsTheCause, CanceledUnderContext, ResolvesCandidate, ContextDone
<1>6. SlotsSettled'
    BY ResolutionFrame DEF TypeOK, SlotsSettled, Settled
<1>7. CanceledUnderContext' /\ NumbersTaken'
    BY <1>2 DEF TypeOK, CanceledUnderContext, NumbersTaken, ContextDone, Errors
<1>. QED
    BY <1>1, <1>3, <1>4, <1>5, <1>6, <1>7

(* Count hands out the next number, to a goroutine that had none.           *)
LEMMA CountKeeps == \A c \in Candidates : IInv /\ Count(c) => IInv'
<1>. SUFFICES ASSUME NEW c \in Candidates, IInv, Count(c) PROVE IInv'
    OBVIOUS
<1>. USE DEF Count, Increment, callerVars
<1>1. LaunchedInOrder' /\ WithinLimit' /\ ReturnedIsOver'
    BY WorkerFrame DEF States, IInv
<1>. USE DEF IInv, Goto
<1>2. number[c] = 0 /\ done \in Nat
    BY DEF NumbersTaken, TypeOK
<1>3. Counted \in SUBSET Candidates /\ c \notin Counted /\ Counted' = Counted \union {c}
    BY <1>2 DEF Counted, TypeOK
<1>4. done < N /\ Cardinality(Counted') = done + 1
    BY <1>3, CandidateSets DEF CounterCounts
<1>5. {number'[d] : d \in Counted'} = {number[d] : d \in Counted} \union {done + 1}
    BY <1>3 DEF TypeOK
<1>6. CounterCounts'
    BY <1>2, <1>4, <1>5 DEF CounterCounts
<1>7. TypeOK'
    BY <1>2, <1>4, NAssumption DEF TypeOK, States
<1>8. HeldWhileQuerying' /\ FailuresRecorded' /\ ErrorIsTheCause'
    BY DEF TypeOK, HeldWhileQuerying, Holding, FailuresRecorded, ErrorIsTheCause
<1>9. SlotsSettled'
    BY ResolutionFrame DEF TypeOK, SlotsSettled, Settled
<1>10. CanceledUnderContext' /\ NumbersTaken'
    BY <1>2 DEF TypeOK, CanceledUnderContext, NumbersTaken, ContextDone
<1>. QED
    BY <1>1, <1>6, <1>7, <1>8, <1>9, <1>10

LEMMA DrawKeeps == \A c \in Candidates : IInv /\ Draw(c) => IInv'
<1>. SUFFICES ASSUME NEW c \in Candidates, IInv, Draw(c) PROVE IInv'
    OBVIOUS
<1>. USE DEF Draw, callerVars
<1>1. LaunchedInOrder' /\ WithinLimit' /\ ReturnedIsOver' /\ CounterCounts'
    BY WorkerFrame, CounterFrame DEF States, IInv
<1>. USE DEF IInv, Goto
<1>2. TypeOK'
    BY DEF TypeOK, States
<1>3. HeldWhileQuerying' /\ FailuresRecorded' /\ ErrorIsTheCause'
    BY DEF TypeOK, HeldWhileQuerying, Holding, FailuresRecorded, ErrorIsTheCause
<1>4. SlotsSettled'
    BY ResolutionFrame DEF TypeOK, SlotsSettled, Settled
<1>5. CanceledUnderContext' /\ NumbersTaken'
    BY DEF TypeOK, CanceledUnderContext, NumbersTaken, ContextDone
<1>. QED
    BY <1>1, <1>2, <1>3, <1>4, <1>5

LEMMA ReturnKeeps == IInv /\ Return => IInv'
<1>. SUFFICES ASSUME IInv, Return PROVE IInv'
    OBVIOUS
<1>. USE DEF IInv, Return, progressVars
<1>1. Cardinality(ValidatedSlots) \in 0..N /\ Cardinality(TimedOutSlots) \in 0..N
    BY CandidateSets DEF ValidatedSlots, TimedOutSlots
<1>2. TypeOK'
    BY <1>1 DEF TypeOK, WaitError
<1>3. HeldWhileQuerying' /\ LaunchedInOrder' /\ FailuresRecorded'
    BY DEF HeldWhileQuerying, Holding, LaunchedInOrder, FailuresRecorded
<1>4. SlotsSettled'
    BY ResolutionFrame DEF SlotsSettled, Settled
<1>5. CanceledUnderContext' /\ NumbersTaken' /\ ErrorIsTheCause'
    BY DEF CanceledUnderContext, NumbersTaken, ErrorIsTheCause, ContextDone
<1>6. WithinLimit' /\ CounterCounts'
    BY CounterFrame DEF WithinLimit, Live
<1>7. ReturnedIsOver'
    BY DEF ReturnedIsOver, Live, WaitError, ValidatedSlots, TimedOutSlots, TypeOK
<1>. QED
    BY <1>2, <1>3, <1>4, <1>5, <1>6, <1>7

LEMMA StutterKeeps == IInv /\ UNCHANGED vars => IInv'
<1>. SUFFICES ASSUME IInv, UNCHANGED vars PROVE IInv'
    OBVIOUS
<1>. USE DEF IInv, vars
<1>1. TypeOK' /\ HeldWhileQuerying' /\ LaunchedInOrder' /\ FailuresRecorded'
    BY DEF TypeOK, HeldWhileQuerying, Holding, LaunchedInOrder, FailuresRecorded
<1>2. SlotsSettled' /\ CounterCounts'
    BY ResolutionFrame, CounterFrame DEF SlotsSettled, Settled
<1>3. CanceledUnderContext' /\ NumbersTaken' /\ ErrorIsTheCause'
    BY DEF CanceledUnderContext, NumbersTaken, ErrorIsTheCause, ContextDone
<1>4. WithinLimit' /\ ReturnedIsOver'
    BY DEF WithinLimit, Live, ReturnedIsOver, ValidatedSlots, TimedOutSlots
<1>. QED
    BY <1>1, <1>2, <1>3, <1>4

------------------------------------------------------------------------------
(* IInv is an invariant of every run.                                       *)
THEOREM Inductive == Spec => []IInv
<1>1. Init => IInv
    BY InitEstablishes
<1>2. IInv /\ [Next]_vars => IInv'
    <2>. SUFFICES ASSUME IInv, [Next]_vars PROVE IInv'
        OBVIOUS
    <2>1. CASE Launch
        BY <2>1, LaunchKeeps
    <2>2. CASE Interrupt
        BY <2>2, InterruptKeeps
    <2>3. CASE Return
        BY <2>3, ReturnKeeps
    <2>4. ASSUME NEW c \in Candidates, Worker(c) PROVE IInv'
        BY <2>4, BeginKeeps, BeginCanceledKeeps, BeginRefusedKeeps, SetCeilingKeeps,
           SetCeilingFailsKeeps, AnswerKeeps, AbandonKeeps, RollbackKeeps, SettleKeeps,
           AbortKeeps, CountKeeps, DrawKeeps DEF Worker
    <2>5. CASE UNCHANGED vars
        BY <2>5, StutterKeeps
    <2>. QED
        BY <2>1, <2>2, <2>3, <2>4, <2>5 DEF Next
<1>. QED
    BY <1>1, <1>2, PTL DEF Spec

(* When no goroutine is left, each has returned nil or an error...          *)
LEMMA EveryoneEnded ==
    ASSUME IInv, next > N, Live = {}
    PROVE  \A c \in Candidates : pc[c] \in {"done", "failed"}
<1>. SUFFICES ASSUME NEW c \in Candidates PROVE pc[c] \in {"done", "failed"}
    OBVIOUS
<1>1. ~(next <= c)
    BY NAssumption DEF IInv, TypeOK
<1>2. pc[c] # "idle"
    BY <1>1 DEF IInv, LaunchedInOrder
<1>. QED
    BY <1>2 DEF Live

(* ...and in a successful run all of them returned nil.                     *)
LEMMA EveryoneSettled ==
    ASSUME IInv, ret = "ok"
    PROVE  \A c \in Candidates : pc[c] = "done"
<1>1. next > N /\ Live = {} /\ groupErr = "none"
    BY DEF IInv, ReturnedIsOver
<1>2. \A c \in Candidates : pc[c] # "failed"
    BY <1>1 DEF IInv, FailuresRecorded
<1>. QED
    BY <1>1, <1>2, EveryoneEnded

(* Every variable keeps its type: in particular the counter never passes N. *)
THEOREM TypeCorrect == Spec => []TypeOK
BY Inductive, PTL DEF IInv

(* With the group's limit within the pool's, no launched goroutine waits    *)
(* for another one's connection (Options.Concurrency's comment).            *)
THEOREM NoConnectionWait == Spec => []NobodyWaitsForAConnection
<1>1. IInv => NobodyWaitsForAConnection
    <2>. SUFFICES ASSUME IInv, Limit <= MaxConns
                  PROVE  Cardinality(Waiting) + Cardinality(held) <= MaxConns
        BY DEF NobodyWaitsForAConnection
    <2>. USE DEF IInv
    <2>1. held \in SUBSET Live /\ Waiting \in SUBSET Live /\ Live \in SUBSET Candidates
        BY DEF HeldWhileQuerying, Holding, Waiting, Live
    <2>2. held \intersect Waiting = {}
        BY DEF HeldWhileQuerying, Holding, Waiting
    <2>3. IsFiniteSet(held) /\ IsFiniteSet(Waiting)
        BY <2>1, CandidateSets
    <2>4. Cardinality(held \union Waiting) = Cardinality(held) + Cardinality(Waiting)
        <3>1. Cardinality(held \union Waiting) =
                 Cardinality(held) + Cardinality(Waiting) - Cardinality(held \intersect Waiting)
            BY <2>3, FS_Union
        <3>2. Cardinality(held \intersect Waiting) = 0
            BY <2>2, FS_EmptySet
        <3>. QED
            BY <2>3, <3>1, <3>2, FS_CardinalityType
    <2>5. Cardinality(held \union Waiting) <= Cardinality(Live)
        BY <2>1, CandidateSets
    <2>. QED
        BY <2>1, <2>3, <2>4, <2>5, FS_CardinalityType, CandidateSets, LimitAssumption, NAssumption
           DEF WithinLimit
<1>. QED
    BY <1>1, Inductive, PTL

(* A run that has returned, with a result or an error, holds no connection. *)
THEOREM NothingHeld == Spec => []ReturnHoldsNothing
<1>1. IInv => ReturnHoldsNothing
    BY DEF IInv, ReturnHoldsNothing, ReturnedIsOver, HeldWhileQuerying, Holding, Live
<1>. QED
    BY <1>1, Inductive, PTL

(* The slot at index c carries candidate c's own resolution.                *)
THEOREM InputOrder == Spec => []SlotsInInputOrder
<1>1. IInv => SlotsInInputOrder
    BY DEF IInv, SlotsInInputOrder, SlotsSettled
<1>. QED
    BY <1>1, Inductive, PTL

(* The error returned is the first cause, never one of the cancellations it *)
(* provoked.                                                                *)
THEOREM TrueCause == Spec => []ErrorIsTheCause
BY Inductive, PTL DEF IInv

(* A successful run resolved every candidate, swallowed no server error and *)
(* reported every number from 1 to N.                                       *)
THEOREM CompleteSuccess == Spec => []SuccessIsComplete
<1>1. IInv => SuccessIsComplete
    <2>. SUFFICES ASSUME IInv, ret = "ok"
                  PROVE  /\ \A c \in Candidates : slot[c] # Unset /\ reply[c].err # "fatal"
                         /\ Watched => {number[c] : c \in Candidates} = Candidates
        BY DEF SuccessIsComplete
    <2>. USE DEF IInv
    <2>1. \A c \in Candidates : pc[c] = "done"
        BY EveryoneSettled
    <2>2. \A c \in Candidates : slot[c] # Unset /\ reply[c].err # "fatal"
        BY <2>1, ResolutionType DEF SlotsSettled, Settled
    <2>3. ASSUME Watched PROVE {number[c] : c \in Candidates} = Candidates
        <3>1. Counted = Candidates
            BY <2>1, <2>3 DEF NumbersTaken, Counted
        <3>2. Cardinality(Candidates) = N
            BY FS_Interval, NAssumption
        <3>. QED
            BY <3>1, <3>2 DEF CounterCounts
    <2>. QED
        BY <2>2, <2>3
<1>. QED
    BY <1>1, Inductive, PTL

(* The totals of a successful run count the answers and the fired ceilings. *)
THEOREM TallyIsTrue == Spec => []TallyMatchesReplies
<1>1. IInv => TallyMatchesReplies
    <2>. SUFFICES ASSUME IInv, ret = "ok"
                  PROVE  /\ ValidatedSlots = {c \in Candidates : reply[c].err = "none"}
                         /\ TimedOutSlots = {c \in Candidates : reply[c].err = "timeout"}
        BY DEF TallyMatchesReplies, IInv, ReturnedIsOver
    <2>1. \A c \in Candidates : slot[c] = Resolution(c)
        BY EveryoneSettled DEF IInv, SlotsSettled, Settled
    <2>2. ASSUME NEW c \in Candidates
          PROVE  /\ Resolution(c).method # "none" <=> reply[c].err = "none"
                 /\ Resolution(c).timedOut <=> reply[c].err = "timeout"
        BY DEF Resolution, Measured, Unvalidated, method
    <2>. QED
        BY <2>1, <2>2 DEF ValidatedSlots, TimedOutSlots
<1>. QED
    BY <1>1, Inductive, PTL

(* Sampling never confirms.                                                 *)
THEOREM NoSampledConfirmation == Spec => []SampledNeverConfirms
<1>1. IInv => SampledNeverConfirms
    <2>. SUFFICES ASSUME IInv, NEW c \in Candidates, slot[c].verdict = "confirmed"
                  PROVE  slot[c].method = "full"
        BY DEF SampledNeverConfirms
    <2>1. slot[c] = Resolution(c)
        <3>1. Unset.verdict # "confirmed"
            BY DEF Unset
        <3>2. slot[c] # Unset
            BY <3>1
        <3>. QED
            BY <3>2 DEF IInv, SlotsSettled
    <2>2. Resolution(c) = Measured(c)
        BY <2>1 DEF Resolution, Unvalidated
    <2>. QED
        BY <2>1, <2>2, SampledVerdict DEF Measured
<1>. QED
    BY <1>1, Inductive, PTL

------------------------------------------------------------------------------
(* The goroutines, their connections and their errors implement the         *)
(* contract: every step is one of its steps or changes nothing it sees.     *)
THEOREM Refinement == Spec => ImplementsContract
<1>. USE DEF Contract!contractVars
<1>1. Init => Contract!Init
    BY DEF Init, Contract!Init
<1>2. IInv /\ [Next]_vars => [Contract!Next]_(Contract!contractVars)
    <2>. SUFFICES ASSUME IInv, [Next]_vars
                  PROVE  Contract!Next \/ UNCHANGED Contract!contractVars
        OBVIOUS
    <2>. USE DEF progressVars, callerVars
    <2>1. CASE Launch
        BY <2>1 DEF Launch
    <2>2. CASE Interrupt
        BY <2>2 DEF Interrupt, Contract!Next, Contract!Doom
    <2>3. CASE Return
        <3>1. \A c \in Candidates : pc[c] \in {"done", "failed"}
            BY <2>3, EveryoneEnded DEF Return
        <3>2. \A c \in Candidates : slot[c] = Unset <=> pc[c] = "failed"
            BY <3>1, ResolutionType DEF IInv, SlotsSettled, Settled
        <3>3. CASE groupErr = "none"
            BY <2>3, <3>1, <3>2, <3>3 DEF Return, WaitError, IInv, FailuresRecorded,
               Contract!Next, Contract!Finish
        <3>4. CASE groupErr # "none"
            BY <2>3, <3>2, <3>4 DEF Return, WaitError, IInv, FailuresRecorded,
               Contract!Next, Contract!Fail
        <3>. QED
            BY <3>3, <3>4
    <2>4. ASSUME NEW c \in Candidates, Settle(c)
          PROVE  Contract!Settle(c)
        <3>1. ret = "running" /\ slot[c] = Unset
            BY <2>4 DEF Settle, IInv, ReturnedIsOver, Live, SlotsSettled, Settled
        <3>2. Resolution(c) \in Resolutions
            BY ResolutionType
        <3>3. ContextDone => Resolution(c).method # "none"
            BY <2>4 DEF Settle, ResolvesCandidate, Resolution, Measured, method
        <3>. QED
            BY <2>4, <3>1, <3>2, <3>3 DEF Settle, SlotOf, ContextDone, Contract!Settle
    <2>5. ASSUME NEW c \in Candidates, Abort(c)
          PROVE  Contract!Doom \/ UNCHANGED Contract!contractVars
        <3>1. ret = "running" /\ reply[c].err # "none"
            BY <2>5 DEF Abort, IInv, ReturnedIsOver, Live
        <3>. QED
            BY <2>5, <3>1 DEF Abort, FirstError, Contract!Doom
    <2>6. ASSUME NEW c \in Candidates, Worker(c), ~Settle(c), ~Abort(c)
          PROVE  UNCHANGED Contract!contractVars
        BY <2>6 DEF Worker, Begin, BeginCanceled, BeginRefused, SetCeiling, SetCeilingFails,
           Answer, Abandon, Rollback, Count, Draw
    <2>7. CASE UNCHANGED vars
        BY <2>7 DEF vars
    <2>. QED
        BY <2>1, <2>2, <2>3, <2>4, <2>5, <2>6, <2>7 DEF Next, Contract!Next
<1>. QED
    BY <1>1, <1>2, Inductive, PTL DEF Spec, ImplementsContract, Contract!Spec
==============================================================================
