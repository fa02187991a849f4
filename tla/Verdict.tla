------------------------------- MODULE Verdict -------------------------------
(***************************************************************************)
(* The arithmetic of internal/validate: how a candidate's child table is   *)
(* read (whole or sampled) and which verdict a measurement earns.          *)
(*                                                                         *)
(* A measurement is the record of counts the validation query returns.     *)
(* Percentages stand for the float thresholds, and a ratio is compared by  *)
(* cross-multiplication, so nothing here rounds.                           *)
(***************************************************************************)
EXTENDS Integers

Verdicts == {"confirmed", "broken", "weak", "rejected", "unvalidated"}
Methods  == {"full", "sampled"}

(* What one validation query reports: internal/model Validation. *)
MeasurementOf(Count) ==
    [sampledRows: Count, notNull: Count, distinct: Count,
     orphanRows: Count, orphanVals: Count]

(* An Options field at its zero value means its default. *)
OrDefault(value, default) == IF value <= 0 THEN default ELSE value

targetRows(opts)      == OrDefault(opts.targetRows, 100000)
brokenThreshold(opts) == OrDefault(opts.broken, 90)
rejectThreshold(opts) == OrDefault(opts.reject, 50)
maxNullFraction(opts) == OrDefault(opts.maxNull, 95)

(***************************************************************************)
(* Row estimates.  pg_class.reltuples arrives verbatim, and a negative     *)
(* value is the planner's "never analyzed": RowEstimates leaves such a     *)
(* table out of the map instead of recording it as empty.                  *)
(***************************************************************************)
EstimateKnown(reltuples) == reltuples >= 0

bernoulliCeiling == 100000

sampleFor(reltuples, opts) ==
    IF opts.full \/ ~EstimateKnown(reltuples) \/ reltuples <= targetRows(opts)
    THEN "none"
    ELSE IF reltuples < bernoulliCeiling THEN "bernoulli" ELSE "system"

method(spec) == IF spec = "none" THEN "full" ELSE "sampled"

------------------------------------------------------------------------------
\* Mutant: a sampled run taken as conclusive.
ConclusiveWhateverTheMethod(m) == TRUE

Conclusive(m) == m = "full"

NullsDominate(v, opts) ==
    /\ v.sampledRows > 0
    /\ 100 * (v.sampledRows - v.notNull) > maxNullFraction(opts) * v.sampledRows

(* Too little data to conclude anything, whatever the containment says. *)
Insufficient(v, opts) ==
    v.notNull = 0 \/ v.distinct <= 1 \/ NullsDominate(v, opts)

NoOrphans(v) == v.orphanRows = 0 /\ v.orphanVals = 0

(* Row containment of v against a threshold in percent; v.notNull > 0 here. *)
ContainsAtLeast(v, percent) == 100 * (v.notNull - v.orphanRows) >= percent * v.notNull

OrphanVerdict(v, opts) ==
    IF ContainsAtLeast(v, brokenThreshold(opts)) THEN "broken"
    ELSE IF ContainsAtLeast(v, rejectThreshold(opts)) THEN "weak"
    ELSE "rejected"

verdict(v, m, opts) ==
    IF Insufficient(v, opts) THEN "weak"
    ELSE IF NoOrphans(v) THEN IF Conclusive(m) THEN "confirmed" ELSE "weak"
    ELSE OrphanVerdict(v, opts)
==============================================================================
