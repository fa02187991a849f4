------------------------------ MODULE Discovery ------------------------------
(***************************************************************************)
(* One run of `pgfathom discover`: the stages of discovery.Run in order,   *)
(* the degradations it allows, the interruption, and what the command then *)
(* prints and exits with.                                                  *)
(*                                                                         *)
(* A candidate is a name; its facts are constants.  Generation and the     *)
(* prefilter share the arithmetic of Estimates.  Validation takes the      *)
(* steps of ValidationContract, which Validation is proved to implement.   *)
(* Lists of candidates are sets: their order is presentation.              *)
(***************************************************************************)
EXTENDS Estimates, Sequences, SequencesExt, FiniteSetsExt

CONSTANTS
    Candidates,     \* every pair that name, type and joins could suggest
    Named,          \* the pairs a name suggests
    Generic,        \* those whose target is a small table of generic name
    Base,           \* weight of a pair's signals but joins and generic name
    JoinedIn,       \* the kinds of source each pair is joined in
    MinScore,       \* the score threshold, in hundredths
    OptionSets,     \* the options a run may be started with
    Unset, Absent   \* a result slot not settled; a pair that has no slot

Stages == <<"catalog", "naming detection", "usage evidence",
            "candidate generation", "statistical prefilter", "validation">>

JoinKinds == {"view", "function", "statements"}

ASSUME CandidateAssumption ==
    /\ IsFiniteSet(Candidates) /\ Named \subseteq Candidates /\ Generic \subseteq Named
    /\ JoinedIn \in [Candidates -> SUBSET JoinKinds]
    /\ Base \in [Candidates -> Int]
    /\ MinScore \in 0..100

ASSUME OptionAssumption == \A o \in OptionSets :
    /\ o.off \subseteq {"naming detection", "usage evidence", "statistical prefilter"}
    /\ o.full \in BOOLEAN

VARIABLES
    options,        \* stages turned off, and --full
    stage,          \* the stage in progress, or "report", "failed", "over"
    begun,          \* stages announced through Options.Progress
    timings,        \* stages in Result.Stages
    warned,         \* stages a warning was given about
    interruptedAt,  \* the stage the signal arrived in, or "never"
    joins,          \* usage evidence: join kinds per pair
    survivors,      \* inferred.Candidates
    discarded,      \* inferred.Discarded
    signals,        \* what the prefilter appended to each pair
    coverage,       \* the counters of model.Coverage the pipeline fills
    slot, doomed, ret,  \* the validation stage, as its contract has them
    printed, exit   \* what the command shows and returns

vars == <<options, stage, begun, timings, warned, interruptedAt, joins, survivors,
          discarded, signals, coverage, slot, doomed, ret, printed, exit>>

run        == <<options, warned, interruptedAt>>
timeline   == <<stage, begun, timings>>
inference  == <<joins, survivors, discarded, signals>>
validation == <<slot, doomed, ret>>
command    == <<printed, exit>>

(* What a settled candidate carries.  Only a run over every row can have    *)
(* found no orphan conclusively (Verdict); no measurement, no verdict.      *)
Resolutions ==
    {[method |-> "full", verdict |-> v] : v \in {"confirmed", "broken", "weak", "rejected"}}
    \union {[method |-> "sampled", verdict |-> v] : v \in {"broken", "weak", "rejected"}}
    \union {[method |-> "none", verdict |-> "unvalidated", timedOut |-> t] : t \in BOOLEAN}

(* A slot without an answer cannot be mistaken for one with an answer.      *)
ASSUME SlotAssumption == Unset # Absent /\ {Unset, Absent} \intersect Resolutions = {}

Validating == INSTANCE ValidationContract

(* One signal per kind of source, however many joins of that kind.          *)
TotalWeight(kinds) ==
    (IF "view" \in kinds THEN 50 ELSE 0) + (IF "function" \in kinds THEN 45 ELSE 0)
    + (IF "statements" \in kinds THEN 40 ELSE 0)

Generated(c, kinds) ==
    Base[c] + TotalWeight(kinds) + (IF c \in Generic THEN penaltyGenericDomain ELSE 0)

\* Mutant: the threshold sees the score the candidate reports.
cutAsReported(c, kinds) == saturate(Generated(c, kinds))

(* cutScore: the generic-name penalty is left out of what the threshold     *)
(* sees; the score the candidate reports has it.                            *)
cutScore(c, kinds) == saturate(Base[c] + TotalWeight(kinds))

------------------------------------------------------------------------------
Init ==
    /\ options \in OptionSets
    /\ stage = "catalog"
    /\ begun = <<"catalog">>
    /\ timings = <<>>
    /\ warned = {}
    /\ interruptedAt = "never"
    /\ joins = [c \in Candidates |-> {}]
    /\ survivors = {} /\ discarded = {}
    /\ signals = [c \in Candidates |-> {}]
    /\ coverage = [found |-> 0, statements |-> FALSE, prefilter |-> FALSE, checked |-> 0,
                   rejected |-> 0, withoutStats |-> 0, validated |-> 0, timedOut |-> 0]
    /\ slot = [c \in Candidates |-> Absent] /\ doomed = FALSE /\ ret = "idle"
    /\ printed = FALSE /\ exit = "none"

Alive == interruptedAt = "never"

StagesAfter(s) == {i \in DOMAIN Stages : \E j \in DOMAIN Stages : j < i /\ Stages[j] = s}

(* Mutants: a stage turned off is announced and timed all the same; a run   *)
(* that cannot go on tries the stage again.                                 *)
NextWhateverTheOptions(s) == StagesAfter(s)
TryAgain == UNCHANGED timeline

StagesLeft(s) == {i \in StagesAfter(s) : Stages[i] \notin options.off}

(* Closing one stage opens the next one that is on.                         *)
Advance(s) ==
    LET left == StagesLeft(s)
        next == Stages[Min(left)]
    IN  /\ timings' = Append(timings, s)
        /\ stage' = IF left = {} THEN "report" ELSE next
        /\ begun' = IF left = {} THEN begun ELSE Append(begun, next)

Abort == stage' = "failed" /\ UNCHANGED <<begun, timings>>

(* catalog.Read: a catalog that cannot be read aborts the run.              *)
ReadCatalog ==
    /\ stage = "catalog"
    /\ \/ Alive /\ Advance("catalog")
       \/ Abort
    /\ UNCHANGED <<run, inference, coverage, validation, command>>

(* Profile.Detect is pure: it reads the catalog already in memory.          *)
DetectNaming ==
    /\ stage = "naming detection"
    /\ Advance(stage)
    /\ UNCHANGED <<run, inference, coverage, validation, command>>

(* sqlprobe.Probe: view and function definitions or an error, which costs   *)
(* all the evidence and a warning; the query log if it can be read, and no  *)
(* warning if it cannot.                                                    *)
Probe ==
    /\ stage = "usage evidence"
    /\ Advance(stage)
    /\ \/ \E available \in BOOLEAN :
             /\ Alive
             /\ joins' = [c \in Candidates |->
                             JoinedIn[c] \ (IF available THEN {} ELSE {"statements"})]
             /\ coverage' = [coverage EXCEPT !.statements = available]
             /\ UNCHANGED warned
       \/ /\ warned' = warned \union {stage}
          /\ UNCHANGED <<joins, coverage>>
    /\ UNCHANGED <<options, interruptedAt, survivors, discarded, signals, validation, command>>

(* infer.Generate, then the account opens: found is everything generated.   *)
Generate ==
    LET generated == Named \union {c \in Candidates : joins[c] # {}}
        above     == {c \in generated : cutScore(c, joins[c]) >= MinScore}
    IN  /\ stage = "candidate generation"
        /\ Advance(stage)
        /\ survivors' = above
        /\ discarded' = generated \ above
        /\ coverage' = [coverage EXCEPT !.found = Cardinality(generated)]
        /\ UNCHANGED <<run, joins, signals, validation, command>>

(* What evaluateOne can make of a pair: an estimate that is missing, within *)
(* bounds, in excess, or beyond the margin, and a range that is disjoint.   *)
Opinions == {evaluateOne(distinct, rows, disjoint) :
                distinct \in {Unknown, 1, 2, 3}, rows \in {Unknown, 1}, disjoint \in BOOLEAN}

(* Mutants: the rejected take the place of what generation discarded; a     *)
(* failed reading is evaluated as statistics without a row.                 *)
InsteadOf(before, rejected) == rejected
EvaluateNothing ==
    /\ signals' = [c \in Candidates |-> IF c \in survivors THEN {"stats_unavailable"} ELSE {}]
    /\ UNCHANGED <<survivors, discarded, coverage>>

BesideOf(before, rejected) == before \union rejected

NoOpinion == UNCHANGED <<survivors, discarded, signals, coverage>>

(* stats.Prefilter over the survivors of the threshold; with none there is  *)
(* nothing to read, so nothing to fail.                                     *)
Prefilter ==
    /\ stage = "statistical prefilter"
    /\ Advance(stage)
    /\ \/ /\ Alive \/ survivors = {}
          /\ \E opinion \in [survivors -> Opinions] :
                LET of(outcome) == {c \in survivors : opinion[c].outcome = outcome}
                IN  /\ survivors' = survivors \ of("rejected")
                    /\ discarded' = BesideOf(discarded, of("rejected"))
                    /\ signals' = [c \in Candidates |->
                                      IF c \in survivors THEN opinion[c].signals ELSE {}]
                    /\ coverage' = [coverage EXCEPT
                                      !.prefilter = TRUE,
                                      !.checked = Cardinality(survivors),
                                      !.rejected = Cardinality(of("rejected")),
                                      !.withoutStats = Cardinality(of("nostats"))]
          /\ UNCHANGED warned
       \/ /\ survivors # {}
          /\ warned' = warned \union {stage}
          /\ NoOpinion
    /\ UNCHANGED <<options, interruptedAt, joins, validation, command>>

------------------------------------------------------------------------------
(* Validation, one contract step at a time.                                 *)

\* Mutant: validation runs under a context of its own.
ContextOfItsOwn == TRUE

(* validateOne begins every transaction under the caller's context, so a    *)
(* query can be in flight when the signal comes but none starts after it.   *)
CanBegin == interruptedAt \in {"never", "validation"}

BeginValidation ==
    /\ stage = "validation" /\ ret = "idle"
    /\ slot' = [c \in Candidates |-> IF c \in survivors THEN Unset ELSE Absent]
    /\ doomed' = ~Alive
    /\ ret' = "running"
    /\ UNCHANGED <<run, timeline, inference, coverage, command>>

ValidateOne(c) ==
    /\ stage = "validation"
    /\ CanBegin
    /\ Validating!Settle(c)
    /\ options.full => slot'[c].method # "sampled"
    /\ UNCHANGED <<run, timeline, inference, coverage, command>>

Measured(c) == slot[c] \notin {Unset, Absent} /\ slot[c].method # "none"
TimedOut(c) == slot[c] \notin {Unset, Absent} /\ slot[c].method = "none" /\ slot[c].timedOut

EndValidation ==
    /\ stage = "validation"
    /\ Validating!Finish
    /\ Advance(stage)
    /\ coverage' = [coverage EXCEPT
          !.validated = Cardinality({c \in Candidates : Measured(c)}),
          !.timedOut  = Cardinality({c \in Candidates : TimedOut(c)})]
    /\ UNCHANGED <<run, inference, command>>

(* Any other database error, or the signal, leaves a candidate unresolved   *)
(* and costs the run all its results: the contract's Doom, then Fail.       *)
FailValidation ==
    /\ stage = "validation" /\ ret = "running"
    /\ \E c \in Candidates : slot[c] = Unset
    /\ doomed' = TRUE /\ ret' = "error"
    /\ Abort
    /\ UNCHANGED <<run, inference, coverage, slot, command>>

------------------------------------------------------------------------------
(* The command around the run.                                              *)

(* runDiscover renders what a run returned, interrupted or not.             *)
Report ==
    /\ stage = "report" /\ ~printed
    /\ printed' = TRUE
    /\ UNCHANGED <<run, timeline, inference, coverage, validation, exit>>

\* Mutant: cobra ran the command, and nobody recorded that parsing was over.
ParsedNeverSet == IF ~Alive THEN "interrupted" ELSE IF stage = "failed" THEN "usage" ELSE "ok"

(* A cancelled context outranks whatever error the interruption produced.   *)
ExitCode == IF ~Alive THEN "interrupted" ELSE IF stage = "failed" THEN "failure" ELSE "ok"

Exit ==
    /\ stage = "failed" \/ (stage = "report" /\ printed)
    /\ exit' = ExitCode
    /\ stage' = "over"
    /\ UNCHANGED <<run, begun, timings, inference, coverage, validation, printed>>

(* SIGINT or SIGTERM cancels the context every stage runs under.            *)
Interrupt ==
    /\ Alive /\ stage # "over"
    /\ interruptedAt' = stage
    /\ doomed' = (doomed \/ ret = "running")
    /\ UNCHANGED <<options, warned, timeline, inference, coverage, slot, ret, command>>

Step ==
    \/ ReadCatalog \/ DetectNaming \/ Probe \/ Generate \/ Prefilter
    \/ BeginValidation \/ (\E c \in Candidates : ValidateOne(c))
    \/ EndValidation \/ FailValidation
    \/ Report \/ Exit

Next == Step \/ Interrupt

(* The pipeline is one goroutine that never waits for itself; that a        *)
(* database call returns is what Validation shows.                          *)
Spec == Init /\ [][Next]_vars /\ WF_vars(Step)

------------------------------------------------------------------------------
(* What the report says, from model.Result.                                 *)

ByVerdict(v) == {c \in survivors : slot[c] \notin {Unset, Absent} /\ slot[c].verdict = v}

(* The numbers of the closing line: one per group, and the discarded.       *)
Tally == [broken      |-> Cardinality(ByVerdict("broken")),
          confirmed   |-> Cardinality(ByVerdict("confirmed")),
          weak        |-> Cardinality(ByVerdict("weak")),
          unvalidated |-> Cardinality(ByVerdict("unvalidated")),
          discarded   |-> Cardinality(discarded)]

------------------------------------------------------------------------------
(* Properties.                                                              *)

TypeOK ==
    /\ options \in OptionSets
    /\ stage \in ToSet(Stages) \union {"report", "failed", "over"}
    /\ warned \subseteq {"usage evidence", "statistical prefilter"}
    /\ joins \in [Candidates -> SUBSET JoinKinds]
    /\ survivors \subseteq Candidates /\ discarded \subseteq Candidates
    /\ signals \in [Candidates -> SUBSET StatSignals]
    /\ slot \in [Candidates -> Resolutions \union {Unset, Absent}]
    /\ ret \in {"idle", "running", "ok", "error"}
    /\ exit \in {"none", "ok", "failure", "interrupted"}

(* Nothing falls between two lists: in a printed report what generation     *)
(* found is either judged or discarded and never both, the prefilter's      *)
(* funnel adds up, everything judged is measured, timed out or refused, and *)
(* the closing line leaves out nothing but what the data rejected.          *)
EveryCandidateAccounted ==
    LET refused == {c \in survivors : slot[c] \notin {Unset, Absent} /\ ~Measured(c) /\ ~TimedOut(c)}
    IN  printed =>
          /\ survivors \intersect discarded = {}
          /\ coverage.found = Cardinality(survivors) + Cardinality(discarded)
          /\ coverage.prefilter => coverage.checked = Cardinality(survivors) + coverage.rejected
          /\ coverage.validated + coverage.timedOut + Cardinality(refused) = Cardinality(survivors)
          /\ Tally.broken + Tally.confirmed + Tally.weak + Tally.unvalidated + Tally.discarded
                + Cardinality(ByVerdict("rejected")) = coverage.found

(* "could not read statistics" is never an opinion: after a prefilter that  *)
(* failed or was off, every score is the one generation gave, the coverage  *)
(* claims no check, and only the threshold has discarded.  Nor is what was  *)
(* not read evidence: after a probe that failed or was off only names have  *)
(* raised a candidate, and without the query log, which costs no warning    *)
(* but is in the coverage, no candidate rests on it.                        *)
NoOpinionWithoutReading ==
    /\ "statistical prefilter" \in warned \union options.off =>
          /\ \A c \in Candidates : signals[c] = {}
          /\ coverage.checked = 0 /\ ~coverage.prefilter
          /\ \A c \in discarded : cutScore(c, joins[c]) < MinScore
    /\ "usage evidence" \in warned \union options.off => survivors \union discarded \subseteq Named
    /\ ~coverage.statements =>
          \A c \in survivors \union discarded : c \in Named \/ joins[c] \intersect {"view", "function"} # {}

(* Ranking never discards: a generic name and a disjoint range lower the    *)
(* reported score, even below the threshold, and only weak evidence or a    *)
(* cardinality violation takes a pair out of validation.                    *)
DiscardNeedsAReason ==
    \A c \in discarded :
        \/ Base[c] + TotalWeight(joins[c]) < MinScore
        \/ "cardinality_violation" \in signals[c]

(* An interrupted run is never taken for a finished one: it exits as such   *)
(* whatever it printed, and if the signal came before validation began it   *)
(* prints no candidate that the threshold and the statistics let through.   *)
InterruptionNeverPassesAsSuccess ==
    ~Alive =>
        /\ exit \in {"none", "interrupted"}
        /\ printed /\ interruptedAt \notin {"validation", "report"} => survivors = {}

(* Of the first n stages the ones that are on, in their order.              *)
StagesOn(off) ==
    LET on[n \in 0..Len(Stages)] ==
            IF n = 0 THEN <<>>
            ELSE IF Stages[n] \in off THEN on[n - 1] ELSE Append(on[n - 1], Stages[n])
    IN  on

(* What is timed is what was announced: the stages that are on, each once   *)
(* and in order, and a warning only of a stage already announced.           *)
StagesInOrder ==
    LET on == StagesOn(options.off)[Len(Stages)]
    IN  /\ IsPrefix(begun, on) /\ IsPrefix(timings, begun)
        /\ printed => timings = on
        /\ warned \subseteq ToSet(timings)

(* Whatever fails and whenever the signal comes, the command exits.         *)
Terminates == <>(exit # "none")
==============================================================================
