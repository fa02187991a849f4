----------------------------- MODULE AuditProofs -----------------------------
(***************************************************************************)
(* The audit, proved for every catalog, every size, every change of the    *)
(* server between two queries, every row the application inserts meanwhile *)
(* and every answer.  KeyInv ties what is to be probed to what is          *)
(* suggested, and every recorded result to a full scan that justifies it;  *)
(* ReadingInv ties what was read to what the server held, and FoundInv     *)
(* what is reported to what was read.                                      *)
(***************************************************************************)
EXTENDS Audit, ArtifactProofs, SequenceTheorems

(* The count proves the key: as many distinct tuples as rows, and no NULL,  *)
(* mean a tuple for every row (the pigeonhole principle).                   *)
LEMMA CountingProvesAKey ==
    ASSUME NEW S, NEW rows \in Seq(S), NEW columns, Confirmed(rows, columns)
    PROVE  IsKey(rows, columns)
<1> DEFINE D == DOMAIN rows
           T == {Tuple(rows[i], columns) : i \in D}
           f == [i \in D |-> Tuple(rows[i], columns)]
<1>1. D = 1..Len(rows) /\ Len(rows) \in Nat
  OBVIOUS
<1>2. IsFiniteSet(D) /\ Cardinality(D) = Len(rows)
  BY <1>1, FS_Interval
<1>3. WithNull(rows, columns) = {}
  <2>1. WithNull(rows, columns) \subseteq D
    BY DEF WithNull
  <2>2. IsFiniteSet(WithNull(rows, columns))
    BY <1>2, <2>1, FS_Subset
  <2> QED BY <2>2, FS_EmptySet DEF Confirmed
<1>4. DistinctTuples(rows, columns) = T
  BY <1>3 DEF DistinctTuples
<1>5. f \in Surjection(D, T)
  BY DEF Surjection
<1>6. Cardinality(D) = Cardinality(T)
  BY <1>2, <1>4 DEF Confirmed
<1>7. f \in Injection(D, T)
  BY <1>2, <1>5, <1>6, FS_SurjSameCardinalityImpliesInj
<1>8. \A i, j \in D : Tuple(rows[i], columns) = Tuple(rows[j], columns) => i = j
  BY <1>7 DEF Injection, IsInjective
<1>9. \A i \in D : \A k \in DOMAIN columns : rows[i][columns[k]] # Null
  BY <1>3 DEF WithNull
<1> QED BY <1>8, <1>9 DEF IsKey

(* The first of the confirmed candidates is one of them.                    *)
LEMMA MinIsAMember ==
    ASSUME NEW S \in SUBSET Nat, S # {}
    PROVE  Min(S) \in S
BY LeastNatural DEF Min

------------------------------------------------------------------------------
(* The inductive invariant, in its parts.                                   *)
Unnamed(t) == suggestion[t].kind = "create_primary_key" /\ suggestion[t].probe # "confirmed"

(* What may be scanned in the phase at hand.                                *)
MayScan(t) ==
    IF phase = "composite" THEN tables[t].rows < 0 \/ WithinCeiling(tables[t])
    ELSE WithinCeiling(tables[t])

PhaseInv ==
    /\ phase \in {"catalog", "keys", "prompt", "composite", "output", "over"}
    /\ data \in [Tables -> Seq(Rows)]
    /\ DOMAIN tables \subseteq Tables /\ DOMAIN suggestion \subseteq Tables
    /\ phase = "catalog" => suggestion = <<>> /\ scanned = {}
    /\ phase \notin {"keys", "composite"} => todo = {} /\ probing = Idle
    /\ phase \in {"keys", "prompt", "composite"} => ~options.noProbeKeys
    /\ phase \in {"prompt", "composite"} => options.interactive

TodoInv ==
    \A t \in todo : /\ t \in DOMAIN suggestion /\ Unnamed(t)
                    /\ phase = "composite" => MayScan(t)

ProbingInv ==
    /\ probing = [table |-> probing.table, candidates |-> probing.candidates,
                  results |-> probing.results]
    /\ probing.results \in Seq(BOOLEAN)
    /\ probing # Idle =>
          /\ probing.table \in DOMAIN suggestion \ todo /\ Unnamed(probing.table)
          /\ MayScan(probing.table)
          /\ \A i \in DOMAIN probing.results :
                probing.results[i] => Proven(probing.table, probing.candidates[i])

(* A suggestion for t, and the scans that justify it.                       *)
Justified(s, t, scans) ==
    /\ DOMAIN s = {"kind", "columns", "probe", "tried"}
    /\ s.kind = "create_primary_key" /\ s.columns # <<>> => s.probe = "confirmed"
    /\ s.probe = "confirmed" => /\ s.kind = "create_primary_key"
                               /\ \E x \in scans : x.table = t /\ x.columns = s.columns /\ x.key
    /\ s.kind # "create_primary_key" => s.probe = ""

SuggestionsInv == \A t \in DOMAIN suggestion : Justified(suggestion[t], t, scanned)

KeyInv == PhaseInv /\ TodoInv /\ ProbingInv /\ SuggestionsInv /\ CeilingHolds

------------------------------------------------------------------------------
LEMMA InitKeys == Init => KeyInv
<1> SUFFICES ASSUME Init PROVE KeyInv
  OBVIOUS
<1>1. PhaseInv
  BY DEF Init, CatalogInit, PhaseInv
<1>2. TodoInv /\ SuggestionsInv /\ CeilingHolds
  BY DEF Init, TodoInv, SuggestionsInv, CeilingHolds
<1>3. ProbingInv
  BY DEF Init, ProbingInv, Idle
<1> QED BY <1>1, <1>2, <1>3 DEF KeyInv

(* What is proved stays proved.                                             *)
LEMMA ProvenStays ==
    ASSUME scanned \subseteq scanned', NEW t, NEW columns, Proven(t, columns)
    PROVE  Proven(t, columns)'
BY DEF Proven

(* Nothing to probe after a step that leaves the suggestions alone.         *)
LEMMA ProbeIsOver ==
    ASSUME KeyInv, UNCHANGED <<options, tables, suggestion, probing, scanned>>,
           PhaseInv', todo' = {}, probing = Idle
    PROVE  KeyInv'
<1>1. TodoInv'
  BY DEF TodoInv
<1>2. ProbingInv'
  BY DEF KeyInv, ProbingInv
<1>3. SuggestionsInv'
  BY DEF KeyInv, SuggestionsInv, Justified
<1>4. CeilingHolds'
  BY DEF KeyInv, CeilingHolds, WithinCeiling
<1> QED BY <1>1, <1>2, <1>3, <1>4 DEF KeyInv

(* Signals, rows and DDL touch nothing the probe has.                       *)
LEMMA ProbeUntouched ==
    ASSUME KeyInv, UNCHANGED <<phase, options, tables, suggestion, todo, probing, scanned>>,
           data' \in [Tables -> Seq(Rows)]
    PROVE  KeyInv'
<1>1. PhaseInv'
  BY DEF KeyInv, PhaseInv, Idle
<1>2. TodoInv'
  BY DEF KeyInv, TodoInv, Unnamed, MayScan, WithinCeiling
<1>3. ProbingInv'
  BY DEF KeyInv, ProbingInv, Unnamed, MayScan, WithinCeiling, Proven, Idle
<1>4. SuggestionsInv'
  BY DEF KeyInv, SuggestionsInv, Justified
<1>5. CeilingHolds'
  BY DEF KeyInv, CeilingHolds, WithinCeiling
<1> QED BY <1>1, <1>2, <1>3, <1>4, <1>5 DEF KeyInv

LEMMA ReadKeys == KeyInv /\ Read => KeyInv'
<1> SUFFICES ASSUME KeyInv, Read PROVE KeyInv'
  OBVIOUS
<1>1. DOMAIN tables' \subseteq Tables
  <2>1. CASE readRelations
    BY <2>1 DEF readRelations
  <2>2. CASE readColumns
    BY <2>2 DEF readColumns, StillThere, KeyInv, PhaseInv
  <2>3. CASE readConstraints
    BY <2>3 DEF readConstraints, StillThere, KeyInv, PhaseInv
  <2>4. CASE readIndexes
    BY <2>4 DEF readIndexes, StillThere, KeyInv, PhaseInv
  <2>5. CASE readUsage \/ readExtensions \/ ReadFails
    BY <2>5 DEF readUsage, readExtensions, ReadFails, KeyInv, PhaseInv
  <2> QED
    BY <2>1, <2>2, <2>3, <2>4, <2>5 DEF Read, ReadCatalog
<1>2. /\ phase = "catalog" /\ phase' = phase /\ options' = options
      /\ suggestion' = suggestion /\ suggestion = <<>>
      /\ todo' = todo /\ todo = {} /\ probing' = probing /\ probing = Idle
      /\ scanned' = scanned /\ scanned = {} /\ data' = data
  BY DEF Read, findingVars, probeVars, KeyInv, PhaseInv
<1>3. PhaseInv'
  BY <1>1, <1>2 DEF KeyInv, PhaseInv, Idle
<1>4. TodoInv' /\ SuggestionsInv' /\ CeilingHolds'
  BY <1>2 DEF TodoInv, SuggestionsInv, CeilingHolds
<1>5. ProbingInv'
  BY <1>2 DEF KeyInv, ProbingInv
<1> QED BY <1>3, <1>4, <1>5 DEF KeyInv

(* The suggestions are born without a name.                                 *)
LEMMA DeriveKeys == KeyInv /\ Derive => KeyInv'
<1> SUFFICES ASSUME KeyInv, Derive PROVE KeyInv'
  OBVIOUS
<1>1. /\ phase = "catalog" /\ options' = options /\ tables' = tables /\ data' = data
      /\ probing' = probing /\ probing = Idle /\ scanned' = scanned /\ scanned = {}
  BY DEF Derive, catalogVars, KeyInv, PhaseInv
<1>2. DOMAIN suggestion' = KeyLess /\ KeyLess \subseteq Tables
  BY DEF Derive, KeyLess, KeyInv, PhaseInv
<1>3. \A t \in KeyLess : /\ suggestion'[t].probe = ""
                         /\ suggestion'[t].kind = "create_primary_key" => suggestion'[t].columns = <<>>
                         /\ DOMAIN suggestion'[t] = {"kind", "columns", "probe", "tried"}
  BY DEF Derive, SuggestionFor, Suggest
<1>4. /\ \A t \in todo' : t \in KeyLess /\ suggestion'[t].kind = "create_primary_key"
      /\ phase' \in {"keys", "output"} /\ (phase' = "output" => todo' = {})
      /\ phase' = "keys" => ~options.noProbeKeys
  BY DEF Derive, KeyInv, PhaseInv
<1>5. PhaseInv'
  BY <1>1, <1>2, <1>4 DEF KeyInv, PhaseInv, Idle
<1>6. TodoInv'
  BY <1>2, <1>3, <1>4 DEF TodoInv, Unnamed
<1>7. ProbingInv'
  BY <1>1 DEF KeyInv, ProbingInv
<1>8. SuggestionsInv'
  BY <1>2, <1>3 DEF SuggestionsInv, Justified
<1>9. CeilingHolds'
  BY <1>1 DEF CeilingHolds
<1> QED BY <1>5, <1>6, <1>7, <1>8, <1>9 DEF KeyInv

LEMMA SkipKeys == ASSUME KeyInv, NEW t \in Tables, SkipProbe(t) PROVE KeyInv'
<1>1. PhaseInv'
  BY DEF KeyInv, PhaseInv, SkipProbe, catalogVars, Idle
<1>2. TodoInv'
  BY DEF KeyInv, TodoInv, SkipProbe, catalogVars, Unnamed
<1>3. ProbingInv'
  BY DEF KeyInv, ProbingInv, SkipProbe, Idle
<1>4. SuggestionsInv' /\ CeilingHolds'
  BY DEF KeyInv, SuggestionsInv, Justified, CeilingHolds, WithinCeiling, SkipProbe, catalogVars, Proven
<1> QED BY <1>1, <1>2, <1>3, <1>4 DEF KeyInv

(* A probe begins with no result, on a table that may be scanned.           *)
LEMMA StartKeys ==
    ASSUME KeyInv, NEW t \in Tables, StartProbe(t) \/ StartComposite(t)
    PROVE  KeyInv'
<1>1. /\ phase \in {"keys", "composite"} /\ phase' = phase /\ options' = options
      /\ tables' = tables /\ suggestion' = suggestion /\ data' = data /\ scanned' = scanned
      /\ t \in todo /\ todo' = todo \ {t}
      /\ probing'.table = t /\ probing'.results = <<>>
      /\ probing' = [table |-> probing'.table, candidates |-> probing'.candidates,
                     results |-> probing'.results]
  BY DEF StartProbe, StartComposite, catalogVars, findingVars
<1>2. phase = "keys" => WithinCeiling(tables[t])
  BY DEF StartProbe, StartComposite
<1>3. PhaseInv'
  BY <1>1 DEF KeyInv, PhaseInv
<1>4. TodoInv'
  BY <1>1 DEF KeyInv, TodoInv, Unnamed, MayScan, WithinCeiling
<1>5. ProbingInv'
  <2>1. t \in (DOMAIN suggestion \ todo)' /\ Unnamed(t)' /\ MayScan(t)'
    BY <1>1, <1>2 DEF KeyInv, TodoInv, Unnamed, MayScan, WithinCeiling
  <2>2. DOMAIN probing'.results = {}
    BY <1>1
  <2> QED BY <1>1, <2>1, <2>2 DEF ProbingInv
<1>6. SuggestionsInv' /\ CeilingHolds'
  BY <1>1 DEF KeyInv, SuggestionsInv, Justified, CeilingHolds, WithinCeiling, Proven
<1> QED BY <1>3, <1>4, <1>5, <1>6 DEF KeyInv
(* A candidate counts as confirmed only by a scan that saw it was a key.    *)
LEMMA ScanAnswersKeys == ASSUME KeyInv, ScanAnswers PROVE KeyInv'
<1> DEFINE T == probing.table
           C == CandidateNow
           R == probing.results
           answer == Confirmed(data[T], C)
           scan == [table |-> T, columns |-> C, asked |-> phase = "composite", key |-> IsKey(data[T], C)]
<1>1. /\ probing # Idle /\ phase \in {"keys", "composite"} /\ phase' = phase /\ options' = options
      /\ tables' = tables /\ suggestion' = suggestion /\ data' = data /\ todo' = todo
      /\ scanned' = scanned \cup {scan}
      /\ T \in DOMAIN suggestion \ todo /\ Unnamed(T) /\ MayScan(T) /\ T \in Tables
  BY DEF ScanAnswers, catalogVars, findingVars, KeyInv, PhaseInv, ProbingInv
<1>2. probing' = [table |-> T, candidates |-> probing.candidates, results |-> Append(R, answer)]
  BY DEF ScanAnswers, KeyInv, ProbingInv
<1>3. scanned \subseteq scanned'
  BY <1>1
<1>4. answer \in BOOLEAN
  BY DEF Confirmed
<1>5. answer => IsKey(data[T], C)
  <2>1. data[T] \in Seq(Rows)
    BY <1>1 DEF KeyInv, PhaseInv
  <2> QED BY <2>1, CountingProvesAKey
<1>6. answer => \E x \in scanned' : x.table = T /\ x.columns = C /\ x.key
  <2>1. scan.table = T /\ scan.columns = C
    OBVIOUS
  <2>2. scan.key = IsKey(data[T], C)
    OBVIOUS
  <2>3. scan \in scanned'
    BY <1>1
  <2> HIDE DEF scan
  <2> QED BY <1>5, <2>1, <2>2, <2>3
<1> HIDE DEF answer, scan
<1>7. PhaseInv'
  BY <1>1 DEF KeyInv, PhaseInv
<1>8. TodoInv'
  BY <1>1 DEF KeyInv, TodoInv, Unnamed, MayScan, WithinCeiling
<1>9. ProbingInv'
  <2>1. R \in Seq(BOOLEAN)
    BY DEF KeyInv, ProbingInv
  <2>2. Append(R, answer) \in Seq(BOOLEAN)
    BY <1>4, <2>1
  <2>3. \A i \in DOMAIN Append(R, answer) :
          Append(R, answer)[i] =>
            \E x \in scanned' : x.table = T /\ x.columns = probing.candidates[i] /\ x.key
    <3> SUFFICES ASSUME NEW i \in 1..Len(R) + 1, Append(R, answer)[i]
                 PROVE  \E x \in scanned' : /\ x.table = T /\ x.key
                                             /\ x.columns = probing.candidates[i]
      BY <2>1
    <3>1. CASE i \in 1..Len(R)
      <4>1. R[i]
        BY <2>1, <3>1
      <4>2. Proven(T, probing.candidates[i])
        BY <1>1, <2>1, <3>1, <4>1 DEF KeyInv, ProbingInv
      <4> QED BY <1>3, <4>2 DEF Proven
    <3>2. CASE i = Len(R) + 1
      <4>1. answer
        BY <2>1, <3>2
      <4> QED BY <1>6, <3>2, <4>1 DEF CandidateNow
    <3> QED BY <2>1, <3>1, <3>2
  <2>4. T \in (DOMAIN suggestion \ todo)' /\ Unnamed(T)' /\ MayScan(T)'
    BY <1>1, <1>2 DEF Unnamed, MayScan, WithinCeiling
  <2>5. probing'.table = T /\ probing'.results = Append(R, answer)
        /\ probing'.candidates = probing.candidates
    BY <1>2
  <2> QED BY <1>2, <2>2, <2>3, <2>4, <2>5 DEF ProbingInv, Unnamed, MayScan, WithinCeiling, Proven
<1>10. SuggestionsInv'
  BY <1>1, <1>3 DEF KeyInv, SuggestionsInv, Justified
<1>11. CeilingHolds'
  <2>1. \/ WithinCeiling(tables[T])
        \/ tables[T].rows < 0 /\ phase = "composite" /\ options.interactive
    BY <1>1 DEF KeyInv, PhaseInv, MayScan
  <2>2. ~options.noProbeKeys
    BY <1>1 DEF KeyInv, PhaseInv
  <2>3. scan.table = T /\ (scan.asked <=> phase = "composite")
    BY DEF scan
  <2> QED BY <1>1, <2>1, <2>2, <2>3 DEF KeyInv, CeilingHolds, WithinCeiling
<1> QED BY <1>7, <1>8, <1>9, <1>10, <1>11 DEF KeyInv

LEMMA ScanUnverifiedKeys == ASSUME KeyInv, ScanUnverified PROVE KeyInv'
<1> DEFINE R == probing.results
<1>1. /\ probing # Idle /\ phase \in {"keys", "composite"} /\ phase' = phase /\ options' = options
      /\ tables' = tables /\ suggestion' = suggestion /\ data' = data /\ todo' = todo
      /\ scanned' = scanned
  BY DEF ScanUnverified, catalogVars, findingVars, KeyInv, PhaseInv
<1>2. probing' = [table |-> probing.table, candidates |-> probing.candidates,
                 results |-> Append(R, FALSE)]
  BY DEF ScanUnverified, KeyInv, ProbingInv
<1>3. PhaseInv'
  BY <1>1 DEF KeyInv, PhaseInv
<1>4. TodoInv'
  BY <1>1 DEF KeyInv, TodoInv, Unnamed, MayScan, WithinCeiling
<1>5. ProbingInv'
  <2>1. R \in Seq(BOOLEAN)
    BY DEF KeyInv, ProbingInv
  <2>2. /\ Append(R, FALSE) \in Seq(BOOLEAN)
        /\ \A i \in DOMAIN Append(R, FALSE) : Append(R, FALSE)[i] => i \in DOMAIN R /\ R[i]
    BY <2>1
  <2> QED BY <1>1, <1>2, <2>2 DEF KeyInv, ProbingInv, Unnamed, MayScan, WithinCeiling, Proven
<1>6. SuggestionsInv' /\ CeilingHolds'
  BY <1>1 DEF KeyInv, SuggestionsInv, Justified, CeilingHolds, WithinCeiling, Proven
<1> QED BY <1>3, <1>4, <1>5, <1>6 DEF KeyInv

LEMMA ScanFailsKeys == ASSUME KeyInv, ScanFails PROVE KeyInv'
<1>1. /\ phase \in {"keys", "composite"} /\ phase' = phase /\ options' = options
      /\ tables' = tables /\ suggestion' = suggestion /\ data' = data /\ todo' = todo
      /\ scanned' = scanned /\ probing' = Idle
  BY DEF ScanFails, LeftToProbe, catalogVars, findingVars, KeyInv, PhaseInv
<1>2. PhaseInv'
  BY <1>1 DEF KeyInv, PhaseInv
<1>3. TodoInv'
  BY <1>1 DEF KeyInv, TodoInv, Unnamed, MayScan, WithinCeiling
<1>4. ProbingInv'
  BY <1>1 DEF ProbingInv, Idle
<1>5. SuggestionsInv' /\ CeilingHolds'
  BY <1>1 DEF KeyInv, SuggestionsInv, Justified, CeilingHolds, WithinCeiling, Proven
<1> QED BY <1>2, <1>3, <1>4, <1>5 DEF KeyInv

(* The columns that are named are those of a result that says so.           *)
LEMMA ApplyKeys == ASSUME KeyInv, applyKeyProbeResults PROVE KeyInv'
<1> DEFINE T == probing.table
           s == suggestion[T]
           yes == {i \in DOMAIN probing.results : probing.results[i]}
<1>1. /\ probing # Idle /\ phase \in {"keys", "composite"} /\ phase' = phase /\ options' = options
      /\ tables' = tables /\ data' = data /\ todo' = todo
      /\ scanned' = scanned /\ probing' = Idle
      /\ T \in DOMAIN suggestion \ todo /\ s.kind = "create_primary_key" /\ s.probe # "confirmed"
  BY DEF applyKeyProbeResults, catalogVars, KeyInv, PhaseInv, ProbingInv, Unnamed
<1>2. suggestion' = [suggestion EXCEPT ![T] = Applied(s, probing)]
  BY DEF applyKeyProbeResults
<1>3. Justified(s, T, scanned) /\ s.columns = <<>>
  BY <1>1 DEF KeyInv, SuggestionsInv, Justified
<1> DEFINE n == Applied(s, probing)
<1>4. /\ DOMAIN n = {"kind", "columns", "probe", "tried"} /\ n.kind = "create_primary_key"
      /\ \/ n.probe = "unverified" /\ n.columns = <<>>
         \/ /\ n.probe = "confirmed"
            /\ \E x \in scanned : x.table = T /\ x.columns = n.columns /\ x.key
  <2>1. CASE yes # {}
    <3>1. yes \in SUBSET Nat
      BY DEF KeyInv, ProbingInv
    <3>2. Min(yes) \in yes
      BY <2>1, <3>1, MinIsAMember
    <3>3. Proven(T, probing.candidates[Min(yes)])
      BY <1>1, <3>2 DEF KeyInv, ProbingInv
    <3>4. n = [s EXCEPT !.columns = probing.candidates[Min(yes)], !.probe = "confirmed"]
      BY <2>1 DEF Applied
    <3>5. /\ DOMAIN n = {"kind", "columns", "probe", "tried"} /\ n.kind = "create_primary_key"
          /\ n.columns = probing.candidates[Min(yes)] /\ n.probe = "confirmed"
      BY <1>1, <1>3, <3>4 DEF Justified
    <3> QED BY <3>3, <3>5 DEF Proven
  <2>2. CASE yes = {}
    <3>1. n = [s EXCEPT !.probe = "unverified", !.tried = probing.results # <<>>]
      BY <2>2 DEF Applied
    <3> QED BY <1>1, <1>3, <3>1 DEF Justified
  <2> QED BY <2>1, <2>2
<1> HIDE DEF n
<1>5. Justified(n, T, scanned)
  BY <1>4 DEF Justified
<1>6. /\ DOMAIN suggestion' = DOMAIN suggestion /\ suggestion'[T] = n
      /\ \A t \in DOMAIN suggestion \ {T} : suggestion'[t] = suggestion[t]
  BY <1>1, <1>2 DEF n
<1>7. SuggestionsInv'
  BY <1>1, <1>5, <1>6 DEF KeyInv, SuggestionsInv
<1>8. TodoInv'
  BY <1>1, <1>6 DEF KeyInv, TodoInv, Unnamed, MayScan, WithinCeiling
<1>9. PhaseInv'
  BY <1>1, <1>6 DEF KeyInv, PhaseInv
<1>10. ProbingInv'
  BY <1>1 DEF ProbingInv, Idle
<1>11. CeilingHolds'
  BY <1>1 DEF KeyInv, CeilingHolds, WithinCeiling
<1> QED BY <1>7, <1>8, <1>9, <1>10, <1>11 DEF KeyInv
(* A composite key is asked for, of the tables that have no name yet.       *)
LEMMA CompositeKeys == ASSUME KeyInv, AnswerComposite PROVE KeyInv'
<1>1. /\ phase = "prompt" /\ phase' = "composite" /\ options' = options /\ probing = Idle
      /\ tables' = tables /\ suggestion' = suggestion /\ data' = data /\ scanned' = scanned
      /\ probing' = probing /\ todo' = WithComposite
  BY DEF AnswerComposite, catalogVars, findingVars, KeyInv, PhaseInv
<1>2. \A t \in WithComposite : /\ t \in DOMAIN suggestion /\ Unnamed(t)
                               /\ tables[t].rows < 0 \/ WithinCeiling(tables[t])
  BY DEF WithComposite, Pending, Composite, Unnamed
<1>3. PhaseInv'
  BY <1>1 DEF KeyInv, PhaseInv
<1>4. TodoInv'
  BY <1>1, <1>2 DEF TodoInv, Unnamed, MayScan, WithinCeiling
<1>5. ProbingInv' /\ SuggestionsInv' /\ CeilingHolds'
  BY <1>1 DEF KeyInv, ProbingInv, SuggestionsInv, CeilingHolds, WithinCeiling
<1> QED BY <1>3, <1>4, <1>5 DEF KeyInv

(* A new column is suggested only where no column is named.                 *)
LEMMA SyntheticKeys == ASSUME KeyInv, AnswerSynthetic PROVE KeyInv'
<1>1. /\ phase = "prompt" /\ phase' = "output" /\ options' = options /\ probing = Idle /\ todo = {}
      /\ tables' = tables /\ data' = data /\ scanned' = scanned
      /\ probing' = probing /\ todo' = todo
  BY DEF AnswerSynthetic, catalogVars, probeVars, KeyInv, PhaseInv
<1>2. PICK name \in PrimaryKeyNames :
        suggestion' = [t \in DOMAIN suggestion |->
            IF t \in Pending THEN Suggest("synthesize_primary_key", <<name>>) ELSE suggestion[t]]
  BY DEF AnswerSynthetic
<1>3. SuggestionsInv'
  BY <1>1, <1>2 DEF KeyInv, SuggestionsInv, Justified, Suggest
<1>4. PhaseInv'
  BY <1>1, <1>2 DEF KeyInv, PhaseInv, Idle
<1>5. TodoInv' /\ ProbingInv' /\ CeilingHolds'
  BY <1>1 DEF KeyInv, TodoInv, ProbingInv, CeilingHolds, WithinCeiling
<1> QED BY <1>3, <1>4, <1>5 DEF KeyInv

LEMMA KeySteps == KeyInv /\ [Next]_vars => KeyInv'
<1> SUFFICES ASSUME KeyInv, [Next]_vars PROVE KeyInv'
  OBVIOUS
<1>1. CASE Step
  <2>1. CASE Read
    BY <2>1, ReadKeys
  <2>2. CASE Derive
    BY <2>2, DeriveKeys
  <2>3. CASE ReadFailed \/ Report \/ KeysProbed \/ CompositeDone
    <3>1. /\ UNCHANGED <<options, tables, suggestion, todo, probing, scanned, data>>
          /\ todo = {} /\ probing = Idle
      BY <2>3 DEF ReadFailed, Report, KeysProbed, CompositeDone, catalogVars, findingVars, probeVars,
                  KeyInv, PhaseInv
    <3>2. /\ phase' \in {"prompt", "output", "over"}
          /\ phase' = "prompt" => ~options.noProbeKeys /\ options.interactive
      BY <2>3 DEF ReadFailed, Report, KeysProbed, CompositeDone, AsksTheOperator, Exit, KeyInv, PhaseInv
    <3>3. PhaseInv'
      BY <3>1, <3>2 DEF KeyInv, PhaseInv, Idle
    <3> QED BY <3>1, <3>3, ProbeIsOver
  <2>4. ASSUME NEW t \in Tables, SkipProbe(t) \/ StartProbe(t) \/ StartComposite(t) PROVE KeyInv'
    BY <2>4, SkipKeys, StartKeys
  <2>5. CASE ScanAnswers \/ ScanUnverified \/ ScanFails \/ applyKeyProbeResults
    BY <2>5, ScanAnswersKeys, ScanUnverifiedKeys, ScanFailsKeys, ApplyKeys
  <2> QED BY <1>1, <2>1, <2>2, <2>3, <2>4, <2>5 DEF Step, Probing
<1>2. CASE Answer
  <2>1. CASE AnswerComposite
    BY <2>1, CompositeKeys
  <2>2. CASE AnswerSynthetic
    BY <2>2, SyntheticKeys
  <2>3. CASE AnswerSkip \/ AnswerUnreadable
    <3>1. /\ UNCHANGED <<options, tables, suggestion, todo, probing, scanned, data>>
          /\ todo = {} /\ probing = Idle /\ phase' \in {"output", "over"}
      BY <2>3 DEF AnswerSkip, AnswerUnreadable, Exit, catalogVars, findingVars, probeVars, KeyInv, PhaseInv
    <3>2. PhaseInv'
      BY <3>1 DEF KeyInv, PhaseInv, Idle
    <3> QED BY <3>1, <3>2, ProbeIsOver
  <2> QED BY <1>2, <2>1, <2>2, <2>3 DEF Answer
<1>3. CASE Interrupt \/ Change \/ UNCHANGED vars
  <2>1. UNCHANGED <<phase, options, tables, suggestion, todo, probing, scanned, data>>
    BY <1>3 DEF Interrupt, Change, Alter, vars, catalogVars, findingVars, probeVars
  <2>2. data' \in [Tables -> Seq(Rows)]
    BY <2>1 DEF KeyInv, PhaseInv
  <2> QED BY <2>1, <2>2, ProbeUntouched
<1>4. CASE Insert
  <2>1. UNCHANGED <<phase, options, tables, suggestion, todo, probing, scanned>>
    BY <1>4 DEF Insert, catalogVars, findingVars, probeVars
  <2>2. PICK t \in Growing, r \in Rows : data' = [data EXCEPT ![t] = Append(@, r)]
    BY <1>4 DEF Insert
  <2>3. t \in Tables /\ data \in [Tables -> Seq(Rows)]
    BY AuditAssumption DEF KeyInv, PhaseInv
  <2>4. Append(data[t], r) \in Seq(Rows)
    BY <2>3
  <2>5. data' \in [Tables -> Seq(Rows)]
    BY <2>2, <2>3, <2>4
  <2> QED BY <2>1, <2>5, ProbeUntouched
<1> QED BY <1>1, <1>2, <1>3, <1>4 DEF Next

------------------------------------------------------------------------------
(* The SQL of the suggested keys says what the suggestions say.             *)
LEMMA StatementsOfOne == ASSUME NEW a PROVE <<a>> \in Seq({a}) /\ ToSet(<<a>>) = {a}
<1>1. DOMAIN <<a>> = {1} /\ <<a>>[1] = a
  OBVIOUS
<1>2. ToSet(<<a>>) = {a}
  BY <1>1 DEF ToSet
<1> QED BY <1>2

LEMMA StatementsOfTwo ==
    ASSUME NEW a, NEW b PROVE <<a, b>> \in Seq({a, b}) /\ ToSet(<<a, b>>) = {a, b}
<1>1. DOMAIN <<a, b>> = {1, 2} /\ <<a, b>>[1] = a /\ <<a, b>>[2] = b
  OBVIOUS
<1>2. ToSet(<<a, b>>) = {a, b}
  BY <1>1 DEF ToSet
<1> QED BY <1>2

LEMMA StatementsOfBoth ==
    ASSUME NEW S, NEW T, NEW s \in Seq(S), NEW t \in Seq(T)
    PROVE  ToSet(s \o t) = ToSet(s) \cup ToSet(t)
<1>0. s \in Seq(S \cup T) /\ t \in Seq(S \cup T)
  OBVIOUS
<1> DEFINE c == s \o t
<1>1. /\ c \in Seq(S \cup T) /\ Len(c) = Len(s) + Len(t) /\ Len(s) \in Nat /\ Len(t) \in Nat
      /\ DOMAIN c = 1..Len(s) + Len(t) /\ DOMAIN s = 1..Len(s) /\ DOMAIN t = 1..Len(t)
  BY <1>0
<1>2. \A i \in 1..Len(s) : c[i] = s[i]
  BY <1>0
<1>3. \A i \in Len(s) + 1..Len(s) + Len(t) : c[i] = t[i - Len(s)]
  BY <1>0
<1> HIDE DEF c
<1>4. ToSet(c) \subseteq ToSet(s) \cup ToSet(t)
  <2> SUFFICES ASSUME NEW i \in 1..Len(s) + Len(t) PROVE c[i] \in ToSet(s) \cup ToSet(t)
    BY <1>1 DEF ToSet
  <2>1. CASE i \in 1..Len(s)
    BY <1>1, <1>2, <2>1 DEF ToSet
  <2>2. CASE i \in Len(s) + 1..Len(s) + Len(t)
    <3>1. i - Len(s) \in 1..Len(t)
      BY <1>1, <2>2
    <3> QED BY <1>1, <1>3, <2>2, <3>1 DEF ToSet
  <2> QED BY <1>1, <2>1, <2>2
<1>5. ToSet(s) \subseteq ToSet(c)
  <2> SUFFICES ASSUME NEW i \in 1..Len(s) PROVE s[i] \in ToSet(c)
    BY <1>1 DEF ToSet
  <2>1. i \in 1..Len(s) + Len(t)
    BY <1>1
  <2> QED BY <1>1, <1>2, <2>1 DEF ToSet
<1>6. ToSet(t) \subseteq ToSet(c)
  <2> SUFFICES ASSUME NEW i \in 1..Len(t) PROVE t[i] \in ToSet(c)
    BY <1>1 DEF ToSet
  <2>1. i + Len(s) \in Len(s) + 1..Len(s) + Len(t) /\ (i + Len(s)) - Len(s) = i
    BY <1>1
  <2>2. i + Len(s) \in 1..Len(s) + Len(t)
    BY <1>1
  <2> QED BY <1>1, <1>3, <2>1, <2>2 DEF ToSet
<1> QED BY <1>4, <1>5, <1>6 DEF c

(* Every statement for a table is about it, and about the columns given.    *)
LEMMA KeyStatements ==
    ASSUME NEW t, NEW columns
    PROVE  /\ \E a, b : KeyFromIndex(t, columns) \in Seq({a, b})
           /\ \A sql \in ToSet(KeyFromIndex(t, columns)) : sql.table = t /\ sql.columns = columns
<1> DEFINE a == Commented("create_unique_index", t, uniqueName(t, columns), columns, "")
           b == Commented("add_primary_key", t, uniqueName(t, columns), columns, "")
<1>1. KeyFromIndex(t, columns) = <<a, b>>
  BY DEF KeyFromIndex
<1>2. a.table = t /\ a.columns = columns /\ b.table = t /\ b.columns = columns
  BY DEF Commented, Sql
<1> HIDE DEF a, b
<1> QED BY <1>1, <1>2, StatementsOfTwo

LEMMA PromotedStatements ==
    ASSUME NEW t, NEW columns
    PROVE  \A sql \in ToSet(writePromoteUnique(t, columns)) : sql.table = t /\ sql.columns = columns
<1> DEFINE drop == Commented("drop_constraint", t, <<>>, columns, "")
<1>1. drop.table = t /\ drop.columns = columns
  BY DEF Commented, Sql
<1>2. writePromoteUnique(t, columns) = KeyFromIndex(t, columns) \o <<drop>>
  BY DEF writePromoteUnique
<1> HIDE DEF drop
<1>3. ToSet(<<drop>>) = {drop} /\ <<drop>> \in Seq({drop})
  BY StatementsOfOne
<1>4. PICK a, b : KeyFromIndex(t, columns) \in Seq({a, b})
  BY KeyStatements
<1>5. ToSet(writePromoteUnique(t, columns)) = ToSet(KeyFromIndex(t, columns)) \cup {drop}
  <2>1. ToSet(KeyFromIndex(t, columns) \o <<drop>>) = ToSet(KeyFromIndex(t, columns)) \cup ToSet(<<drop>>)
    <3> DEFINE K == KeyFromIndex(t, columns)
               D == <<drop>>
    <3>1. K \in Seq({a, b}) /\ D \in Seq({drop})
      BY <1>3, <1>4
    <3> HIDE DEF K, D
    <3>2. ToSet(K \o D) = ToSet(K) \cup ToSet(D)
      BY <3>1, StatementsOfBoth
    <3> QED BY <3>2 DEF K, D
  <2> QED BY <1>2, <1>3, <2>1, Zenon
<1> QED BY <1>1, <1>5, KeyStatements

LEMMA SyntheticStatements ==
    ASSUME NEW t, NEW column
    PROVE  /\ \A sql \in ToSet(writeSyntheticPrimaryKey(t, column)) : sql.table = t /\ sql.columns = <<column>>
           /\ \E sql \in ToSet(writeSyntheticPrimaryKey(t, column)) : sql.does = "add_column"
<1> DEFINE add == Commented("add_column", t, <<>>, <<column>>, "")
<1>1. add.table = t /\ add.columns = <<column>> /\ add.does = "add_column"
  BY DEF Commented, Sql
<1>2. writeSyntheticPrimaryKey(t, column) = <<add>> \o KeyFromIndex(t, <<column>>)
  BY DEF writeSyntheticPrimaryKey
<1> HIDE DEF add
<1>3. ToSet(<<add>>) = {add} /\ <<add>> \in Seq({add})
  BY StatementsOfOne
<1>4. PICK a, b : KeyFromIndex(t, <<column>>) \in Seq({a, b})
  BY KeyStatements
<1>5. ToSet(writeSyntheticPrimaryKey(t, column)) = {add} \cup ToSet(KeyFromIndex(t, <<column>>))
  <2>1. ToSet(<<add>> \o KeyFromIndex(t, <<column>>)) = ToSet(<<add>>) \cup ToSet(KeyFromIndex(t, <<column>>))
    <3> DEFINE K == KeyFromIndex(t, <<column>>)
               D == <<add>>
    <3>1. K \in Seq({a, b}) /\ D \in Seq({add})
      BY <1>3, <1>4
    <3> HIDE DEF K, D
    <3>2. ToSet(D \o K) = ToSet(D) \cup ToSet(K)
      BY <3>1, StatementsOfBoth
    <3> QED BY <3>2 DEF K, D
  <2> QED BY <1>2, <1>3, <2>1, Zenon
<1> QED BY <1>1, <1>5, KeyStatements

LEMMA KeyInvImpliesNamed == KeyInv => NamedOnlyWhenProven
<1> SUFFICES ASSUME KeyInv PROVE NamedOnlyWhenProven
  OBVIOUS
<1>1. ASSUME NEW t \in DOMAIN suggestion
      PROVE  LET s == suggestion[t]
             IN  /\ s.kind = "create_primary_key" /\ s.columns # <<>> => s.probe = "confirmed"
                 /\ s.probe = "confirmed" => s.kind = "create_primary_key" /\ Proven(t, s.columns)
                 /\ s.kind # "create_primary_key" => s.probe = ""
  BY DEF KeyInv, SuggestionsInv, Justified, Proven
<1>2. ASSUME phase = "output", NEW sql \in KeysWritten
      PROVE  \/ Proven(sql.table, sql.columns)
             \/ Promotable(tables[sql.table]) # <<>> /\ sql.columns = Promotable(tables[sql.table])[1]
             \/ \E new \in KeysWritten : /\ new.does = "add_column" /\ new.table = sql.table
                                          /\ new.columns = sql.columns
  <2>1. PICK ddl \in AuditArtifacts.suggestedKeys : sql \in ToSet(ddl)
    BY <1>2 DEF KeysWritten, AllSql
  <2>2. AuditArtifacts.suggestedKeys = suggestedKeysFile(tables, suggestion)
    BY DEF AuditArtifacts
  <2>3. \A new \in ToSet(ddl) : new \in KeysWritten
    BY <2>1 DEF KeysWritten, AllSql
  <2>4. PICK t \in DOMAIN suggestion :
          LET s == suggestion[t]
          IN  \/ Promotable(tables[t]) # <<>> /\ ddl = writePromoteUnique(t, Promotable(tables[t])[1])
              \/ s.probe = "confirmed" /\ ddl = writeConfirmedPrimaryKey(t, s.columns)
              \/ ddl = writeSyntheticPrimaryKey(t, s.columns[1])
    BY <2>1, <2>2 DEF suggestedKeysFile
  <2>5. CASE Promotable(tables[t]) # <<>> /\ ddl = writePromoteUnique(t, Promotable(tables[t])[1])
    BY <2>1, <2>5, PromotedStatements
  <2>6. CASE suggestion[t].probe = "confirmed" /\ ddl = writeConfirmedPrimaryKey(t, suggestion[t].columns)
    <3>1. sql.table = t /\ sql.columns = suggestion[t].columns
      BY <2>1, <2>6, KeyStatements DEF writeConfirmedPrimaryKey
    <3> QED BY <1>1, <2>6, <3>1
  <2>7. CASE ddl = writeSyntheticPrimaryKey(t, suggestion[t].columns[1])
    BY <2>1, <2>3, <2>7, SyntheticStatements
  <2> QED BY <2>4, <2>5, <2>6, <2>7
<1> QED BY <1>1, <1>2 DEF NamedOnlyWhenProven

------------------------------------------------------------------------------
(* A column is named as a key only after a full scan that saw it was one,   *)
(* and no DDL is written for any other: whatever the application inserts    *)
(* between two scans, whichever of them fail, and whatever is answered.     *)
THEOREM AuditNamesOnlyWhatItProved == Spec => []NamedOnlyWhenProven
<1>1. Init => KeyInv
  BY InitKeys
<1>2. KeyInv /\ [Next]_vars => KeyInv'
  BY KeySteps
<1>3. KeyInv => NamedOnlyWhenProven
  BY KeyInvImpliesNamed
<1> QED BY <1>1, <1>2, <1>3, PTL DEF Spec

(* Every full scan is of a table within the ceiling, or of unknown size and *)
(* asked for at a terminal; with the probe turned off there is none.        *)
THEOREM AuditScansWithinTheCeiling == Spec => []CeilingHolds
<1>1. Init => KeyInv
  BY InitKeys
<1>2. KeyInv /\ [Next]_vars => KeyInv'
  BY KeySteps
<1>3. KeyInv => CeilingHolds
  BY DEF KeyInv
<1> QED BY <1>1, <1>2, <1>3, PTL DEF Spec

(* No later probe and no answer takes back a name that was proved, or a     *)
(* suggestion that needs no proof.                                          *)
LEMMA StepsKeepTheConfirmed ==
    ASSUME KeyInv, [Next]_vars, NEW t \in DOMAIN suggestion,
           suggestion[t].probe = "confirmed" \/ suggestion[t].kind # "create_primary_key"
    PROVE  suggestion'[t] = suggestion[t]
<1>1. CASE Derive
  BY <1>1 DEF Derive, KeyInv, PhaseInv
<1>2. CASE applyKeyProbeResults
  BY <1>2 DEF applyKeyProbeResults, KeyInv, ProbingInv, Unnamed
<1>3. CASE AnswerSynthetic
  BY <1>3 DEF AnswerSynthetic, Pending
<1>4. CASE UNCHANGED suggestion
  BY <1>4
<1>5. Derive \/ applyKeyProbeResults \/ AnswerSynthetic \/ UNCHANGED suggestion
  BY DEF Next, Step, Answer, Probing, Read, ReadFailed, SkipProbe, StartProbe, StartComposite, ScanAnswers,
         ScanUnverified, ScanFails, KeysProbed, CompositeDone, Report, AnswerComposite, AnswerSkip,
         AnswerUnreadable, Interrupt, Change, Insert, findingVars, vars
<1> QED BY <1>1, <1>2, <1>3, <1>4, <1>5

THEOREM AuditKeepsTheConfirmed == Spec => ConfirmedIsKept
<1>1. Init => KeyInv
  BY InitKeys
<1>2. KeyInv /\ [Next]_vars => KeyInv'
  BY KeySteps
<1>3. KeyInv /\ [Next]_vars =>
        [\A t \in DOMAIN suggestion :
           suggestion[t].probe = "confirmed" \/ suggestion[t].kind # "create_primary_key" =>
              suggestion'[t] = suggestion[t]]_vars
  BY StepsKeepTheConfirmed
<1> QED BY <1>1, <1>2, <1>3, PTL DEF Spec, ConfirmedIsKept
------------------------------------------------------------------------------
(* What the report says of the catalog.  The invariant ties every part of   *)
(* what was read to one of the server's moments, or to a table dropped      *)
(* since, and what was found to what was read.                              *)

(* The queries that follow one of them.                                     *)
PastRelations   == {"columns", "constraints", "indexes", "usage", "extensions", "done"}
PastConstraints == {"indexes", "usage", "extensions", "done"}
PastIndexes     == {"usage", "extensions", "done"}
PastUsage       == {"extensions", "done"}

(* Of a definition, or of what was read of one, what the findings look at.  *)
KeysOf(x)  == {<<k.name, k.columns, k.validated>> : k \in ToSet(x.foreignKeys)}
LeadsOf(x) == {i.columns : i \in ToSet(x.indexes)}

TableFields == {"columns", "primaryKey", "uniques", "foreignKeys", "indexes", "partitioned", "inherits", "rows"}
KeyFields   == {"name", "columns", "validated", "hasIndex"}

(* The server has held definitions, and holds the latest.                   *)
MomentsInv ==
    /\ server = [t \in Tables |-> server[t]]
    /\ server \in moments
    /\ \A m \in moments : \A t \in Tables : Definable(m[t])

(* What is read has the shape of a table, whatever has been filled in.      *)
ShapeInv ==
    /\ DOMAIN tables \subseteq Tables \ Excluded
    /\ \A t \in DOMAIN tables :
          /\ DOMAIN tables[t] = TableFields
          /\ tables[t].columns \in Seq(ToSet(tables[t].columns))
          /\ tables[t].indexes \in Seq(ToSet(tables[t].indexes))
          /\ \A k \in DOMAIN tables[t].foreignKeys : DOMAIN tables[t].foreignKeys[k] = KeyFields

AlwaysThere(t) == \A m \in moments : m[t] # Gone /\ m[t].readable

(* A table that was there and readable all along was read.                  *)
RelationsInv ==
    reading \in PastRelations => \A t \in Tables \ Excluded : AlwaysThere(t) => t \in DOMAIN tables

(* The columns, the keys and the indexes are each of one moment; where the  *)
(* table was missing from a query's answer, it is missing still.            *)
ColumnsInv ==
    \A t \in DOMAIN tables :
       \/ tables[t].columns = <<>>
       \/ \E m \in moments : m[t] # Gone /\ tables[t].columns = m[t].columns

ConstraintsInv ==
    reading \in PastConstraints =>
        \A t \in DOMAIN tables :
           \/ server[t] = Gone
           \/ \E m \in moments : m[t] # Gone /\ tables[t].primaryKey = m[t].primaryKey /\ KeysOf(tables[t]) = KeysOf(m[t])

IndexesInv ==
    reading \in PastIndexes =>
        \A t \in DOMAIN tables :
           \/ server[t] = Gone
           \/ \E m \in moments : m[t] # Gone /\ LeadsOf(tables[t]) = LeadsOf(m[t])

(* A key is linked by the indexes that were read.                           *)
LinkInv ==
    reading \in PastUsage =>
        \A t \in DOMAIN tables : \A k \in ToSet(tables[t].foreignKeys) :
           k.hasIndex = IsIndexedLeading(tables[t], k.columns[1])

CoverageFields == {"total", "excluded", "noPrivilege", "analyzed", "unsupported"}

(* A table of the first query is in one count only.                         *)
CountInv ==
    /\ DOMAIN coverage = CoverageFields
    /\ reading \in PastRelations =>
          coverage.total = Cardinality(coverage.excluded) + Cardinality(coverage.noPrivilege)
                            + Cardinality(DOMAIN tables)
    /\ reading \in PastRelations =>
          Cardinality(coverage.excluded) \in Nat /\ Cardinality(coverage.noPrivilege) \in Nat
    /\ reading \in PastUsage =>
          /\ Cardinality(DOMAIN tables) = coverage.analyzed + Cardinality(coverage.unsupported)
          /\ coverage.analyzed \in Nat /\ Cardinality(coverage.unsupported) \in Nat

ReadingInv ==
    /\ reading \in ToSet(Queries) \cup {"done", "failed"}
    /\ extensions \subseteq Installed
    /\ MomentsInv /\ ShapeInv /\ RelationsInv /\ ColumnsInv /\ ConstraintsInv /\ IndexesInv /\ LinkInv /\ CountInv

(* A hot column is one that was read, is not led by an index that was read, *)
(* and is recommended an index the server can build.                        *)
Honest(h) ==
    /\ h.table \in DOMAIN tables
    /\ \E c \in ToSet(tables[h.table].columns) : c.name = h.column
    /\ ~IsIndexedLeading(tables[h.table], h.column)
    /\ requiredExtension(h.index) \in Installed \cup {""}

FoundInv ==
    /\ phase # "catalog" => reading \in {"done", "failed"}
    /\ phase # "catalog" /\ reading = "done" =>
          /\ found = StructuralFindings \cup {<<"unindexed_hot_column", h.table, h.column>> : h \in recommended}
          /\ \A h \in recommended : Honest(h)

------------------------------------------------------------------------------
(* An index leads with a column in the tool's eyes exactly when it does on  *)
(* the server.                                                              *)
LEMMA OpensWith ==
    ASSUME NEW X, NEW cols \in Seq(X), cols # <<>>, NEW column
    PROVE  IsPrefix(<<column>>, cols) <=> cols[1] = column
<1> DEFINE a == SubSeq(<<column>>, 1, 1)
           b == SubSeq(cols, 1, 1)
<1>1. Len(cols) \in Nat /\ Len(cols) >= 1 /\ cols[1] \in X
  OBVIOUS
<1>2. Len(<<column>>) = 1 /\ <<column>>[1] = column
  OBVIOUS
<1>3. /\ a \in Seq({column}) /\ Len(a) = 1 /\ a[1] = column
      /\ b \in Seq(X) /\ Len(b) = 1 /\ b[1] = cols[1]
  <2>1. \A i \in 1..1 : <<column>>[i] \in {column}
    BY <1>2
  <2>2. \A i \in 1..1 : cols[i] \in X
    BY <1>1
  <2>3. 1 \in Int /\ 1 \in 1..(1 - 1 + 1) /\ 1 + 1 - 1 = 1
    OBVIOUS
  <2>4. a \in Seq({column}) /\ Len(a) = 1 /\ a[1] = <<column>>[1]
    BY <2>1, <2>3, SubSeqProperties
  <2>5. b \in Seq(X) /\ Len(b) = 1 /\ b[1] = cols[1]
    BY <2>2, <2>3, SubSeqProperties
  <2> QED BY <1>2, <2>4, <2>5
<1>4. a = b <=> cols[1] = column
  <2> HIDE DEF a, b
  <2>1. a = <<a[1]>> /\ b = <<b[1]>>
    BY <1>3
  <2> QED BY <1>3, <2>1
<1>5. IsPrefix(<<column>>, cols) <=> a = b
  BY <1>1, <1>2, Zenon DEF IsPrefix
<1> QED BY <1>4, <1>5

LEMMA LeadsAsSeen ==
    ASSUME NEW x, NEW s, s # Gone, Definable(s), LeadsOf(x) = LeadsOf(s), NEW column
    PROVE  IsIndexedLeading(x, column) <=> LedBy(s, column)
<1>1. IsIndexedLeading(x, column) <=> \E cols \in LeadsOf(x) : IsPrefix(<<column>>, cols)
  <2>1. <<column>> # <<>>
    OBVIOUS
  <2> QED BY <2>1, Zenon DEF IsIndexedLeading, IndexLeads, LeadsOf, ToSet
<1>2. LedBy(s, column) <=> \E cols \in LeadsOf(s) : cols[1] = column
  BY DEF LedBy, LeadsOf
<1>3. \A cols \in LeadsOf(s) : cols \in Seq(ToSet(cols)) /\ cols # <<>>
  BY DEF Definable, LeadsOf
<1>4. \A cols \in LeadsOf(s) : IsPrefix(<<column>>, cols) <=> cols[1] = column
  BY <1>3, OpensWith
<1> QED BY <1>1, <1>2, <1>4

------------------------------------------------------------------------------
LEMMA InitReading == Init => ReadingInv /\ FoundInv
<1> SUFFICES ASSUME Init PROVE ReadingInv /\ FoundInv
  OBVIOUS
<1>1. CatalogInit /\ phase = "catalog" /\ reading = "relations" /\ tables = <<>> /\ DOMAIN tables = {}
  BY DEF Init, CatalogInit
<1>2. "relations" \in ToSet(Queries)
  BY DEF ToSet, Queries
<1>3. MomentsInv
  BY <1>1, DefinitionsAssumption DEF CatalogInit, MomentsInv
<1>4. ShapeInv /\ ColumnsInv
  BY <1>1 DEF ShapeInv, ColumnsInv
<1>5. RelationsInv /\ ConstraintsInv /\ IndexesInv /\ LinkInv
  BY <1>1 DEF RelationsInv, ConstraintsInv, IndexesInv, LinkInv, PastRelations, PastConstraints, PastIndexes, PastUsage
<1>6. CountInv
  BY <1>1 DEF CatalogInit, CountInv, CoverageFields, PastRelations, PastUsage
<1>7. extensions \subseteq Installed
  BY <1>1 DEF CatalogInit
<1> QED BY <1>1, <1>2, <1>3, <1>4, <1>5, <1>6, <1>7 DEF ReadingInv, FoundInv

(* Nothing that was read is undone by a change of the server: what it held  *)
(* stays among the moments, and a table dropped is not made again.          *)
LEMMA AlterKeepsReading == ReadingInv /\ Alter => ReadingInv'
<1> SUFFICES ASSUME ReadingInv, Alter PROVE ReadingInv'
  OBVIOUS
<1>0. PICK t \in {u \in Changing : server[u] # Gone} :
         \E s \in {d \in Statement(server[t]) : Definable(d)} : server' = [server EXCEPT ![t] = s]
  BY DEF Alter
<1>1. PICK s \in {d \in Statement(server[t]) : Definable(d)} : server' = [server EXCEPT ![t] = s]
  BY <1>0
<1>2. /\ reading' = reading /\ tables' = tables /\ coverage' = coverage /\ extensions' = extensions
      /\ moments' = moments \cup {server'}
  BY DEF Alter
<1>3. /\ t \in Tables /\ server[t] # Gone /\ server'[t] = s /\ \A u \in Tables \ {t} : server'[u] = server[u]
      /\ server' = [u \in Tables |-> server'[u]]
  BY <1>1, CatalogAssumption DEF ReadingInv, MomentsInv
<1>4. \A u \in Tables : server[u] = Gone => server'[u] = Gone
  BY <1>3
<1>5. MomentsInv'
  <2>1. \A u \in Tables : Definable(server'[u])
    BY <1>1, <1>3 DEF ReadingInv, MomentsInv
  <2>2. server' \in moments'
    BY <1>2
  <2> QED BY <1>2, <1>3, <2>1, <2>2 DEF ReadingInv, MomentsInv
<1>6. ShapeInv'
  BY <1>2 DEF ReadingInv, ShapeInv
<1>7. RelationsInv'
  BY <1>2 DEF ReadingInv, RelationsInv, AlwaysThere
<1>8. ColumnsInv'
  BY <1>2 DEF ReadingInv, ColumnsInv
<1>9. DOMAIN tables \subseteq Tables
  BY DEF ReadingInv, ShapeInv
<1>10. ConstraintsInv'
  BY <1>2, <1>4, <1>9 DEF ReadingInv, ConstraintsInv
<1>11. IndexesInv'
  BY <1>2, <1>4, <1>9 DEF ReadingInv, IndexesInv
<1>12. LinkInv'
  BY <1>2 DEF ReadingInv, LinkInv
<1>13. CountInv'
  BY <1>2 DEF ReadingInv, CountInv
<1> QED BY <1>2, <1>5, <1>6, <1>7, <1>8, <1>10, <1>11, <1>12, <1>13 DEF ReadingInv

LEMMA QueriesAre == ToSet(Queries) = {"relations", "columns", "constraints", "indexes", "usage", "extensions"}
<1>1. DOMAIN Queries = 1..6 /\ Queries[1] = "relations" /\ Queries[2] = "columns" /\ Queries[3] = "constraints"
      /\ Queries[4] = "indexes" /\ Queries[5] = "usage" /\ Queries[6] = "extensions"
  BY DEF Queries
<1>2. 1..6 = {1, 2, 3, 4, 5, 6}
  OBVIOUS
<1> QED BY <1>1, <1>2 DEF ToSet

LEMMA QuietMoments == MomentsInv /\ Quiet => MomentsInv'
BY DEF MomentsInv, Quiet

LEMMA UnreadIs ==
    ASSUME NEW s
    PROVE  /\ DOMAIN Unread(s) = TableFields
           /\ Unread(s).columns = <<>> /\ Unread(s).indexes = <<>> /\ Unread(s).foreignKeys = <<>>
BY DEF Unread, TableFields

LEMMA FirstQuery == ReadingInv /\ readRelations => ReadingInv'
<1> SUFFICES ASSUME ReadingInv, readRelations PROVE ReadingInv'
  OBVIOUS
<1> DEFINE present == {t \in Tables : server[t] # Gone}
           refused == {t \in present \ Excluded : ~server[t].readable}
           D == present \ (Excluded \cup refused)
<1>1. /\ tables' = [t \in D |-> Unread(server[t])] /\ reading' = "columns" /\ extensions' = extensions
      /\ coverage' = [coverage EXCEPT !.total = Cardinality(present),
                                      !.excluded = present \cap Excluded,
                                      !.noPrivilege = refused]
  BY DEF readRelations
<1>2. Quiet /\ server' = server /\ moments' = moments
  BY DEF readRelations, Quiet
<1>3. MomentsInv'
  BY <1>2, QuietMoments DEF ReadingInv
<1>4. DOMAIN tables' = D /\ \A t \in D : tables'[t] = Unread(server[t])
  BY <1>1
<1>10. \A t \in D : /\ DOMAIN tables'[t] = TableFields /\ tables'[t].columns = <<>>
                    /\ tables'[t].indexes = <<>> /\ tables'[t].foreignKeys = <<>>
  <2> HIDE DEF D
  <2> QED BY <1>4, UnreadIs
<1>5. ShapeInv'
  <2>2. D \subseteq Tables \ Excluded
    OBVIOUS
  <2>3. <<>> \in Seq(ToSet(<<>>))
    OBVIOUS
  <2> HIDE DEF D
  <2>4. ASSUME NEW t \in DOMAIN tables'
        PROVE  /\ DOMAIN tables'[t] = TableFields
               /\ tables'[t].columns \in Seq(ToSet(tables'[t].columns))
               /\ tables'[t].indexes \in Seq(ToSet(tables'[t].indexes))
               /\ \A k \in DOMAIN tables'[t].foreignKeys : DOMAIN tables'[t].foreignKeys[k] = KeyFields
    <3>1. /\ DOMAIN tables'[t] = TableFields /\ tables'[t].columns = <<>>
          /\ tables'[t].indexes = <<>> /\ tables'[t].foreignKeys = <<>>
      BY <1>4, <1>10
    <3> QED BY <3>1, <2>3
  <2> QED BY <1>4, <2>2, <2>4 DEF ShapeInv
<1>6. ColumnsInv'
  <2> HIDE DEF D
  <2> QED BY <1>4, <1>10 DEF ColumnsInv
<1>7. RelationsInv'
  <2>1. server \in moments
    BY DEF ReadingInv, MomentsInv
  <2> QED BY <1>2, <1>4, <2>1 DEF RelationsInv, AlwaysThere
<1>8. ConstraintsInv' /\ IndexesInv' /\ LinkInv'
  BY <1>1 DEF ConstraintsInv, IndexesInv, LinkInv, PastConstraints, PastIndexes, PastUsage
<1>9. CountInv'
  <2>1. /\ DOMAIN coverage' = CoverageFields /\ coverage'.total = Cardinality(present)
        /\ coverage'.excluded = present \cap Excluded /\ coverage'.noPrivilege = refused
    BY <1>1 DEF ReadingInv, CountInv, CoverageFields
  <2>2. IsFiniteSet(present) /\ IsFiniteSet(present \cap Excluded) /\ IsFiniteSet(refused) /\ IsFiniteSet(D)
    BY DefinitionsAssumption, FS_Subset
  <2>3. Cardinality(present) = Cardinality(present \cap Excluded) + Cardinality(refused) + Cardinality(D)
    <3>1. present = (present \cap Excluded) \cup (refused \cup D)
      OBVIOUS
    <3>2. refused \cap D = {} /\ (present \cap Excluded) \cap (refused \cup D) = {}
      OBVIOUS
    <3> HIDE DEF present, refused, D
    <3>3. IsFiniteSet(refused \cup D) /\ Cardinality(refused \cup D) = Cardinality(refused) + Cardinality(D)
      BY <2>2, <3>2, DisjointSizes
    <3>4. Cardinality((present \cap Excluded) \cup (refused \cup D)) =
            Cardinality(present \cap Excluded) + Cardinality(refused \cup D)
      BY <2>2, <3>2, <3>3, DisjointSizes
    <3>5. Cardinality(present \cap Excluded) \in Nat /\ Cardinality(refused) \in Nat /\ Cardinality(D) \in Nat
      BY <2>2, FS_CardinalityType
    <3>6. Cardinality(present) = Cardinality((present \cap Excluded) \cup (refused \cup D))
      BY <3>1, Zenon
    <3> QED BY <3>6, <3>3, <3>4, <3>5
  <2>4. Cardinality(present \cap Excluded) \in Nat /\ Cardinality(refused) \in Nat
    BY <2>2, FS_CardinalityType
  <2> HIDE DEF present, refused, D
  <2> QED BY <1>1, <1>4, <2>1, <2>3, <2>4 DEF CountInv, PastUsage
<1> QED BY <1>1, <1>3, <1>5, <1>6, <1>7, <1>8, <1>9, QueriesAre DEF ReadingInv

(* What the later queries keep of the earlier ones.                         *)
LEMMA QuietQuery ==
    ASSUME ReadingInv, Quiet, DOMAIN tables' = DOMAIN tables, reading \in PastRelations, UNCHANGED coverage
    PROVE  MomentsInv' /\ RelationsInv' /\ (reading' \notin PastUsage => CountInv')
<1>1. MomentsInv'
  BY QuietMoments DEF ReadingInv
<1>2. RelationsInv'
  BY DEF ReadingInv, RelationsInv, Quiet, AlwaysThere
<1>3. reading' \notin PastUsage => CountInv'
  BY DEF ReadingInv, CountInv
<1> QED BY <1>1, <1>2, <1>3

LEMMA SecondQuery == ReadingInv /\ readColumns => ReadingInv'
<1> SUFFICES ASSUME ReadingInv, readColumns PROVE ReadingInv'
  OBVIOUS
<1>1. /\ reading = "columns" /\ reading' = "constraints" /\ Quiet /\ UNCHANGED <<coverage, extensions>>
      /\ server' = server /\ moments' = moments
      /\ DOMAIN tables' = DOMAIN tables
  BY DEF readColumns, Quiet
<1>2. ASSUME NEW t \in DOMAIN tables
      PROVE  /\ DOMAIN tables'[t] = TableFields
             /\ tables'[t].foreignKeys = tables[t].foreignKeys /\ tables'[t].indexes = tables[t].indexes
             /\ \/ tables'[t].columns = tables[t].columns
                \/ server[t] # Gone /\ tables'[t].columns = server[t].columns
  <2>1. DOMAIN tables[t] = TableFields
    BY DEF ReadingInv, ShapeInv
  <2>2. \/ tables'[t] = tables[t]
        \/ server[t] # Gone /\ tables'[t] = [tables[t] EXCEPT !.columns = server[t].columns]
    BY DEF readColumns, StillThere
  <2> QED BY <2>1, <2>2 DEF TableFields
<1>3. MomentsInv' /\ RelationsInv' /\ CountInv'
  BY <1>1, QuietQuery DEF PastRelations, PastUsage
<1>4. ShapeInv'
  <2>1. ASSUME NEW t \in DOMAIN tables
        PROVE  tables'[t].columns \in Seq(ToSet(tables'[t].columns))
    <3>1. tables[t].columns \in Seq(ToSet(tables[t].columns)) /\ t \in Tables
      BY DEF ReadingInv, ShapeInv
    <3>2. Definable(server[t])
      BY <3>1 DEF ReadingInv, MomentsInv
    <3> QED BY <1>2, <3>1, <3>2 DEF Definable
  <2> QED BY <1>1, <1>2, <2>1 DEF ReadingInv, ShapeInv
<1>5. ColumnsInv'
  <2>1. server \in moments
    BY DEF ReadingInv, MomentsInv
  <2> QED BY <1>1, <1>2, <2>1 DEF ReadingInv, ColumnsInv
<1>6. ConstraintsInv' /\ IndexesInv' /\ LinkInv'
  BY <1>1 DEF ConstraintsInv, IndexesInv, LinkInv, PastConstraints, PastIndexes, PastUsage
<1> QED BY <1>1, <1>3, <1>4, <1>5, <1>6, QueriesAre DEF ReadingInv

LEMMA UnlinkedKeys ==
    ASSUME NEW keys, NEW x, x.foreignKeys = [i \in DOMAIN keys |-> Unlinked(keys[i])]
    PROVE  /\ \A k \in DOMAIN x.foreignKeys : DOMAIN x.foreignKeys[k] = KeyFields
           /\ KeysOf(x) = {<<k.name, k.columns, k.validated>> : k \in ToSet(keys)}
<1>1. \A k : /\ DOMAIN Unlinked(k) = KeyFields /\ Unlinked(k).name = k.name
             /\ Unlinked(k).columns = k.columns /\ Unlinked(k).validated = k.validated
  BY DEF Unlinked, KeyFields
<1>2. DOMAIN x.foreignKeys = DOMAIN keys /\ \A i \in DOMAIN keys : x.foreignKeys[i] = Unlinked(keys[i])
  OBVIOUS
<1>3. ToSet(x.foreignKeys) = {Unlinked(k) : k \in ToSet(keys)}
  BY <1>2 DEF ToSet
<1> HIDE DEF Unlinked
<1>4. KeysOf(x) = {<<k.name, k.columns, k.validated>> : k \in ToSet(keys)}
  BY <1>1, <1>3 DEF KeysOf
<1> QED BY <1>1, <1>2, <1>4

(* A query that fills in one part of the tables leaves the others true.     *)
LEMMA ColumnsKept ==
    ASSUME ColumnsInv, DOMAIN tables' = DOMAIN tables, moments' = moments,
           \A t \in DOMAIN tables : tables'[t].columns = tables[t].columns
    PROVE  ColumnsInv'
BY DEF ColumnsInv

LEMMA ConstraintsKept ==
    ASSUME ConstraintsInv, reading \in PastConstraints, DOMAIN tables' = DOMAIN tables,
           server' = server, moments' = moments,
           \A t \in DOMAIN tables : /\ tables'[t].foreignKeys = tables[t].foreignKeys
                                    /\ tables'[t].primaryKey = tables[t].primaryKey
    PROVE  ConstraintsInv'
BY DEF ConstraintsInv, KeysOf

LEMMA ThirdQuery == ReadingInv /\ readConstraints => ReadingInv'
<1> SUFFICES ASSUME ReadingInv, readConstraints PROVE ReadingInv'
  OBVIOUS
<1>1. /\ reading = "constraints" /\ reading' = "indexes" /\ Quiet /\ UNCHANGED <<coverage, extensions>>
      /\ server' = server /\ moments' = moments
      /\ DOMAIN tables' = DOMAIN tables
  BY DEF readConstraints, Quiet
<1>2. ASSUME NEW t \in DOMAIN tables
      PROVE  /\ DOMAIN tables'[t] = TableFields
             /\ tables'[t].columns = tables[t].columns /\ tables'[t].indexes = tables[t].indexes
             /\ server[t] # Gone =>
                   /\ tables'[t].primaryKey = server[t].primaryKey
                   /\ tables'[t].foreignKeys = [i \in DOMAIN server[t].foreignKeys |->
                                                   Unlinked(server[t].foreignKeys[i])]
             /\ server[t] = Gone => tables'[t] = tables[t]
  <2>1. DOMAIN tables[t] = TableFields
    BY DEF ReadingInv, ShapeInv
  <2>2. /\ server[t] = Gone => tables'[t] = tables[t]
        /\ server[t] # Gone =>
             tables'[t] = [tables[t] EXCEPT !.primaryKey = server[t].primaryKey, !.uniques = server[t].uniques,
                                            !.foreignKeys = [i \in DOMAIN server[t].foreignKeys |->
                                                               Unlinked(server[t].foreignKeys[i])]]
    BY DEF readConstraints, StillThere
  <2> QED BY <2>1, <2>2 DEF TableFields
<1>3. MomentsInv' /\ RelationsInv' /\ CountInv'
  BY <1>1, QuietQuery DEF PastRelations, PastUsage
<1>4. ASSUME NEW t \in DOMAIN tables, server[t] # Gone
      PROVE  /\ \A k \in DOMAIN tables'[t].foreignKeys : DOMAIN tables'[t].foreignKeys[k] = KeyFields
             /\ KeysOf(tables'[t]) = KeysOf(server[t])
  BY <1>2, <1>4, UnlinkedKeys DEF KeysOf
<1>5. ShapeInv'
  <2>1. ASSUME NEW t \in DOMAIN tables
        PROVE  \A k \in DOMAIN tables'[t].foreignKeys : DOMAIN tables'[t].foreignKeys[k] = KeyFields
    <3>1. CASE server[t] = Gone
      <4>1. tables'[t] = tables[t]
        BY <1>2, <3>1
      <4>2. \A k \in DOMAIN tables[t].foreignKeys : DOMAIN tables[t].foreignKeys[k] = KeyFields
        BY DEF ReadingInv, ShapeInv
      <4> QED BY <4>1, <4>2
    <3> QED BY <1>4, <3>1
  <2>2. ASSUME NEW t \in DOMAIN tables
        PROVE  /\ tables'[t].columns \in Seq(ToSet(tables'[t].columns))
               /\ tables'[t].indexes \in Seq(ToSet(tables'[t].indexes))
    <3>1. tables'[t].columns = tables[t].columns /\ tables'[t].indexes = tables[t].indexes
      BY <1>2
    <3>2. /\ tables[t].columns \in Seq(ToSet(tables[t].columns))
          /\ tables[t].indexes \in Seq(ToSet(tables[t].indexes))
      BY DEF ReadingInv, ShapeInv
    <3> QED BY <3>1, <3>2
  <2>3. DOMAIN tables' \subseteq Tables \ Excluded
    BY <1>1 DEF ReadingInv, ShapeInv
  <2>4. \A t \in DOMAIN tables' : DOMAIN tables'[t] = TableFields
    BY <1>1, <1>2
  <2> QED BY <1>1, <2>1, <2>2, <2>3, <2>4 DEF ShapeInv
<1>6. ColumnsInv'
  BY <1>1, <1>2, ColumnsKept DEF ReadingInv
<1>7. ConstraintsInv'
  <2>1. server \in moments
    BY DEF ReadingInv, MomentsInv
  <2> QED BY <1>1, <1>2, <1>4, <2>1 DEF ConstraintsInv
<1>8. IndexesInv' /\ LinkInv'
  BY <1>1 DEF IndexesInv, LinkInv, PastIndexes, PastUsage
<1> QED BY <1>1, <1>3, <1>5, <1>6, <1>7, <1>8, QueriesAre DEF ReadingInv

LEMMA FourthQuery == ReadingInv /\ readIndexes => ReadingInv'
<1> SUFFICES ASSUME ReadingInv, readIndexes PROVE ReadingInv'
  OBVIOUS
<1> DEFINE Seen(i) == [unique |-> i.unique, primary |-> i.primary, columns |-> i.columns]
<1>1. /\ reading = "indexes" /\ reading' = "usage" /\ Quiet /\ UNCHANGED <<coverage, extensions>>
      /\ server' = server /\ moments' = moments
      /\ DOMAIN tables' = DOMAIN tables
  BY DEF readIndexes, Quiet
<1>2. ASSUME NEW t \in DOMAIN tables
      PROVE  /\ DOMAIN tables'[t] = TableFields
             /\ tables'[t].columns = tables[t].columns /\ tables'[t].foreignKeys = tables[t].foreignKeys
             /\ tables'[t].primaryKey = tables[t].primaryKey
             /\ server[t] # Gone =>
                   tables'[t].indexes = [i \in DOMAIN server[t].indexes |-> Seen(server[t].indexes[i])]
             /\ server[t] = Gone => tables'[t] = tables[t]
  <2>1. DOMAIN tables[t] = TableFields
    BY DEF ReadingInv, ShapeInv
  <2>2. /\ server[t] = Gone => tables'[t] = tables[t]
        /\ server[t] # Gone =>
             tables'[t] = [tables[t] EXCEPT !.indexes = [i \in DOMAIN server[t].indexes |->
                                                            Seen(server[t].indexes[i])]]
    BY DEF readIndexes, StillThere
  <2> HIDE DEF Seen
  <2> QED BY <2>1, <2>2 DEF TableFields
<1>3. MomentsInv' /\ RelationsInv' /\ CountInv'
  BY <1>1, QuietQuery DEF PastRelations, PastUsage
<1>4. ASSUME NEW t \in DOMAIN tables, server[t] # Gone
      PROVE  /\ tables'[t].indexes \in Seq(ToSet(tables'[t].indexes))
             /\ LeadsOf(tables'[t]) = LeadsOf(server[t])
  <2> DEFINE held == server[t].indexes
             q == tables'[t].indexes
  <2>1. held \in Seq(ToSet(held))
    BY <1>4 DEF ReadingInv, MomentsInv, ShapeInv, Definable
  <2>2. Len(held) \in Nat /\ DOMAIN held = 1..Len(held)
    BY <2>1
  <2>3. q = [i \in DOMAIN held |-> Seen(held[i])]
    BY <1>2, <1>4
  <2>4. \A i : Seen(i).columns = i.columns
    OBVIOUS
  <2> HIDE DEF held, q, Seen
  <2>5. ToSet(q) = {Seen(i) : i \in ToSet(held)}
    BY <2>3 DEF ToSet
  <2>6. q \in Seq(ToSet(q))
    BY <2>2, <2>3, <2>5 DEF ToSet
  <2>7. {i.columns : i \in ToSet(q)} = {i.columns : i \in ToSet(held)}
    BY <2>4, <2>5
  <2> QED BY <2>6, <2>7 DEF LeadsOf, held, q
<1>5. ShapeInv'
  <2>1. ASSUME NEW t \in DOMAIN tables
        PROVE  tables'[t].indexes \in Seq(ToSet(tables'[t].indexes))
    <3>1. CASE server[t] = Gone
      BY <1>2, <3>1 DEF ReadingInv, ShapeInv
    <3> QED BY <1>4, <3>1
  <2>2. ASSUME NEW t \in DOMAIN tables
        PROVE  /\ tables'[t].columns \in Seq(ToSet(tables'[t].columns))
               /\ \A k \in DOMAIN tables'[t].foreignKeys : DOMAIN tables'[t].foreignKeys[k] = KeyFields
    <3>1. tables'[t].columns = tables[t].columns /\ tables'[t].foreignKeys = tables[t].foreignKeys
      BY <1>2
    <3>2. tables[t].columns \in Seq(ToSet(tables[t].columns))
      BY DEF ReadingInv, ShapeInv
    <3>3. \A k \in DOMAIN tables[t].foreignKeys : DOMAIN tables[t].foreignKeys[k] = KeyFields
      BY DEF ReadingInv, ShapeInv
    <3> QED BY <3>1, <3>2, <3>3
  <2>3. DOMAIN tables' \subseteq Tables \ Excluded
    BY <1>1 DEF ReadingInv, ShapeInv
  <2>4. \A t \in DOMAIN tables' : DOMAIN tables'[t] = TableFields
    BY <1>1, <1>2
  <2> QED BY <1>1, <2>1, <2>2, <2>3, <2>4 DEF ShapeInv
<1>6. ColumnsInv'
  BY <1>1, <1>2, ColumnsKept DEF ReadingInv
<1>7. ConstraintsInv'
  <2>1. reading \in PastConstraints
    BY <1>1 DEF PastConstraints
  <2> QED BY <1>1, <1>2, <2>1, ConstraintsKept DEF ReadingInv
<1>8. IndexesInv'
  <2>1. server \in moments
    BY DEF ReadingInv, MomentsInv
  <2> QED BY <1>1, <1>2, <1>4, <2>1 DEF IndexesInv
<1>9. LinkInv'
  BY <1>1 DEF LinkInv, PastUsage
<1> QED BY <1>1, <1>3, <1>5, <1>6, <1>7, <1>8, <1>9, QueriesAre DEF ReadingInv

(* Linking changes nothing of a table but the mark on its keys.             *)
LEMMA LinkedIs ==
    ASSUME NEW t, DOMAIN t = TableFields,
           \A k \in DOMAIN t.foreignKeys : DOMAIN t.foreignKeys[k] = KeyFields
    PROVE  /\ DOMAIN Linked(t) = TableFields
           /\ Linked(t).columns = t.columns /\ Linked(t).indexes = t.indexes
           /\ Linked(t).primaryKey = t.primaryKey
           /\ DOMAIN Linked(t).foreignKeys = DOMAIN t.foreignKeys
           /\ \A k \in DOMAIN t.foreignKeys :
                 /\ DOMAIN Linked(t).foreignKeys[k] = KeyFields
                 /\ Linked(t).foreignKeys[k].name = t.foreignKeys[k].name
                 /\ Linked(t).foreignKeys[k].columns = t.foreignKeys[k].columns
                 /\ Linked(t).foreignKeys[k].validated = t.foreignKeys[k].validated
                 /\ Linked(t).foreignKeys[k].hasIndex = IsIndexedLeading(t, t.foreignKeys[k].columns[1])
<1> DEFINE keys == t.foreignKeys
           linked == [k \in DOMAIN keys |-> [keys[k] EXCEPT !.hasIndex = IsIndexedLeading(t, keys[k].columns[1])]]
<1>1. Linked(t) = [t EXCEPT !.foreignKeys = linked]
  BY DEF Linked
<1>2. \A k \in DOMAIN keys : linked[k] = [keys[k] EXCEPT !.hasIndex = IsIndexedLeading(t, keys[k].columns[1])]
  OBVIOUS
<1>3. DOMAIN linked = DOMAIN keys
  OBVIOUS
<1>4. \A k \in DOMAIN keys : DOMAIN keys[k] = KeyFields
  OBVIOUS
<1>5. /\ DOMAIN Linked(t) = TableFields /\ Linked(t).foreignKeys = linked
      /\ Linked(t).columns = t.columns /\ Linked(t).indexes = t.indexes
      /\ Linked(t).primaryKey = t.primaryKey
  <2> HIDE DEF linked
  <2> QED BY <1>1 DEF TableFields
<1>6. \A k \in DOMAIN keys :
         /\ DOMAIN linked[k] = KeyFields
         /\ linked[k].name = keys[k].name /\ linked[k].columns = keys[k].columns
         /\ linked[k].validated = keys[k].validated
         /\ linked[k].hasIndex = IsIndexedLeading(t, keys[k].columns[1])
  <2> HIDE DEF keys, linked
  <2> QED BY <1>2, <1>4 DEF KeyFields
<1> HIDE DEF linked
<1> QED BY <1>3, <1>5, <1>6

(* Every table read is either analyzed or has its reason not to be.         *)
AllCounted(D, reason) ==
    Cardinality(D) = Cardinality({t \in D : reason[t] = ""})
                       + Cardinality({<<t, reason[t]>> : t \in {u \in D : reason[u] # ""}})

LEMMA EveryTableIsCounted ==
    ASSUME NEW D, IsFiniteSet(D), NEW reason
    PROVE  AllCounted(D, reason)
<1> DEFINE S == {t \in D : reason[t] = ""}
           T == {u \in D : reason[u] # ""}
           m == [t \in T |-> <<t, reason[t]>>]
<1>1. IsFiniteSet(S) /\ IsFiniteSet(T) /\ S \cap T = {} /\ D = S \cup T
  BY FS_Subset
<1>2. {m[t] : t \in T} = {<<t, reason[t]>> : t \in T}
  OBVIOUS
<1>3. \A x, y \in T : m[x] = m[y] => x = y
  OBVIOUS
<1> HIDE DEF S, T, m
<1>4. Cardinality({m[t] : t \in T}) = Cardinality(T)
  BY <1>1, <1>3, AsManyImages
<1>5. Cardinality(D) = Cardinality(S) + Cardinality(T)
  <2>1. Cardinality(S \cup T) = Cardinality(S) + Cardinality(T)
    BY <1>1, DisjointSizes
  <2> QED BY <1>1, <2>1, Zenon
<1>6. Cardinality(D) = Cardinality(S) + Cardinality({<<t, reason[t]>> : t \in T})
  BY <1>2, <1>4, <1>5
<1> QED BY <1>6 DEF AllCounted, S, T

LEMMA FifthQuery == ReadingInv /\ readUsage => ReadingInv'
<1> SUFFICES ASSUME ReadingInv, readUsage PROVE ReadingInv'
  OBVIOUS
<1>1. /\ reading = "usage" /\ reading' = "extensions" /\ Quiet /\ UNCHANGED extensions
      /\ server' = server /\ moments' = moments
      /\ tables' = [t \in DOMAIN tables |-> Linked(tables[t])]
      /\ DOMAIN tables' = DOMAIN tables
  BY DEF readUsage, Quiet
<1>2. \A t \in DOMAIN tables : tables'[t] = Linked(tables[t])
  BY <1>1
<1>3. ASSUME NEW t \in DOMAIN tables
      PROVE  /\ DOMAIN tables'[t] = TableFields
             /\ tables'[t].columns = tables[t].columns /\ tables'[t].indexes = tables[t].indexes
             /\ tables'[t].primaryKey = tables[t].primaryKey
             /\ DOMAIN tables'[t].foreignKeys = DOMAIN tables[t].foreignKeys
             /\ \A k \in DOMAIN tables[t].foreignKeys :
                   /\ DOMAIN tables'[t].foreignKeys[k] = KeyFields
                   /\ tables'[t].foreignKeys[k].name = tables[t].foreignKeys[k].name
                   /\ tables'[t].foreignKeys[k].columns = tables[t].foreignKeys[k].columns
                   /\ tables'[t].foreignKeys[k].validated = tables[t].foreignKeys[k].validated
                   /\ tables'[t].foreignKeys[k].hasIndex =
                        IsIndexedLeading(tables[t], tables[t].foreignKeys[k].columns[1])
  <2>1. /\ DOMAIN tables[t] = TableFields
        /\ \A k \in DOMAIN tables[t].foreignKeys : DOMAIN tables[t].foreignKeys[k] = KeyFields
    BY DEF ReadingInv, ShapeInv
  <2> QED BY <1>2, <2>1, LinkedIs
<1>4. MomentsInv' /\ RelationsInv'
  <2>1. MomentsInv'
    BY <1>1, QuietMoments DEF ReadingInv
  <2>2. RelationsInv'
    BY <1>1 DEF ReadingInv, RelationsInv, AlwaysThere, PastRelations
  <2> QED BY <2>1, <2>2
<1>5. ShapeInv'
  <2>1. ASSUME NEW t \in DOMAIN tables
        PROVE  /\ tables'[t].columns \in Seq(ToSet(tables'[t].columns))
               /\ tables'[t].indexes \in Seq(ToSet(tables'[t].indexes))
    <3>1. tables'[t].columns = tables[t].columns /\ tables'[t].indexes = tables[t].indexes
      BY <1>3
    <3>2. /\ tables[t].columns \in Seq(ToSet(tables[t].columns))
          /\ tables[t].indexes \in Seq(ToSet(tables[t].indexes))
      BY DEF ReadingInv, ShapeInv
    <3> QED BY <3>1, <3>2
  <2>2. \A t \in DOMAIN tables : \A k \in DOMAIN tables'[t].foreignKeys :
           DOMAIN tables'[t].foreignKeys[k] = KeyFields
    BY <1>3
  <2>3. DOMAIN tables' \subseteq Tables \ Excluded
    BY <1>1 DEF ReadingInv, ShapeInv
  <2>4. \A t \in DOMAIN tables' : DOMAIN tables'[t] = TableFields
    BY <1>1, <1>3
  <2> QED BY <1>1, <2>1, <2>2, <2>3, <2>4 DEF ShapeInv
<1>6. ColumnsInv'
  BY <1>1, <1>3 DEF ReadingInv, ColumnsInv
<1>7. ASSUME NEW t \in DOMAIN tables PROVE KeysOf(tables'[t]) = KeysOf(tables[t])
  <2> DEFINE a == tables[t].foreignKeys
             b == tables'[t].foreignKeys
  <2>1. /\ DOMAIN b = DOMAIN a
        /\ \A k \in DOMAIN a : b[k].name = a[k].name /\ b[k].columns = a[k].columns /\ b[k].validated = a[k].validated
    BY <1>3
  <2> HIDE DEF a, b
  <2>2. {<<k.name, k.columns, k.validated>> : k \in ToSet(b)} = {<<k.name, k.columns, k.validated>> : k \in ToSet(a)}
    BY <2>1 DEF ToSet
  <2> QED BY <2>2 DEF KeysOf, a, b
<1>8. ConstraintsInv'
  BY <1>1, <1>3, <1>7 DEF ReadingInv, ConstraintsInv, PastConstraints
<1>9. IndexesInv'
  <2>1. \A t \in DOMAIN tables : LeadsOf(tables'[t]) = LeadsOf(tables[t])
    BY <1>3 DEF LeadsOf
  <2> QED BY <1>1, <2>1 DEF ReadingInv, IndexesInv, PastIndexes
<1>10. LinkInv'
  <2>1. ASSUME NEW t \in DOMAIN tables, NEW k \in DOMAIN tables'[t].foreignKeys
        PROVE  tables'[t].foreignKeys[k].hasIndex =
                  IsIndexedLeading(tables'[t], tables'[t].foreignKeys[k].columns[1])
    <3>1. \A column : IsIndexedLeading(tables'[t], column) <=> IsIndexedLeading(tables[t], column)
      BY <1>3 DEF IsIndexedLeading
    <3>2. IsIndexedLeading(tables[t], tables[t].foreignKeys[k].columns[1]) \in BOOLEAN
      BY DEF IsIndexedLeading, IndexLeads
    <3>3. tables'[t].foreignKeys[k].hasIndex = IsIndexedLeading(tables[t], tables[t].foreignKeys[k].columns[1])
          /\ tables'[t].foreignKeys[k].columns = tables[t].foreignKeys[k].columns
      BY <1>3
    <3>4. IsIndexedLeading(tables'[t], tables'[t].foreignKeys[k].columns[1])
             = IsIndexedLeading(tables[t], tables[t].foreignKeys[k].columns[1])
      BY <1>3, <3>3, Zenon DEF IsIndexedLeading
    <3> QED BY <3>3, <3>4
  <2> QED BY <1>1, <2>1 DEF LinkInv, ToSet
<1>11. CountInv'
  <2> DEFINE reason == [t \in DOMAIN tables |-> unsupportedReason(tables[t])]
             N == {t \in DOMAIN tables : reason[t] = ""}
             U == {<<t, reason[t]>> : t \in {u \in DOMAIN tables : reason[u] # ""}}
  <2>1. N = {t \in DOMAIN tables : unsupportedReason(tables[t]) = ""}
    OBVIOUS
  <2>2. U = {<<t, unsupportedReason(tables[t])>> : t \in {u \in DOMAIN tables : unsupportedReason(tables[u]) # ""}}
    OBVIOUS
  <2>3. coverage' = [coverage EXCEPT !.analyzed = Cardinality(N), !.unsupported = U]
    <3> HIDE DEF N, U
    <3> QED BY <2>1, <2>2 DEF readUsage
  <2>4. IsFiniteSet(DOMAIN tables)
    BY DefinitionsAssumption, FS_Subset DEF ReadingInv, ShapeInv
  <2>9. Cardinality(N) \in Nat /\ Cardinality(U) \in Nat
    <3> DEFINE m == [t \in DOMAIN tables |-> <<t, reason[t]>>]
               all == {m[t] : t \in DOMAIN tables}
    <3>1. IsFiniteSet(N)
      BY <2>4, FS_Subset
    <3>2. U \subseteq all
      OBVIOUS
    <3> HIDE DEF m
    <3>3. IsFiniteSet(all)
      BY <2>4, ImageIsFinite
    <3> HIDE DEF all, N, U
    <3>4. IsFiniteSet(U)
      BY <3>2, <3>3, FS_Subset
    <3> QED BY <3>1, <3>4, FS_CardinalityType
  <2>5. Cardinality(DOMAIN tables) = Cardinality(N) + Cardinality(U)
    <3> DEFINE D == DOMAIN tables
    <3>1. IsFiniteSet(D)
      BY <2>4
    <3> HIDE DEF reason, N, U, D
    <3>2. AllCounted(D, reason)
      BY <3>1, EveryTableIsCounted
    <3> QED BY <3>2 DEF AllCounted, N, U, D
  <2> HIDE DEF N, U
  <2>6. /\ DOMAIN coverage' = CoverageFields /\ coverage'.total = coverage.total
        /\ coverage'.excluded = coverage.excluded /\ coverage'.noPrivilege = coverage.noPrivilege
        /\ coverage'.analyzed = Cardinality(N) /\ coverage'.unsupported = U
    BY <2>3 DEF ReadingInv, CountInv, CoverageFields
  <2>7. coverage.total = Cardinality(coverage.excluded) + Cardinality(coverage.noPrivilege)
                            + Cardinality(DOMAIN tables)
    BY <1>1 DEF ReadingInv, CountInv, PastRelations
  <2>8. Cardinality(coverage.excluded) \in Nat /\ Cardinality(coverage.noPrivilege) \in Nat
    BY <1>1 DEF ReadingInv, CountInv, PastRelations
  <2> QED BY <1>1, <2>5, <2>6, <2>7, <2>8, <2>9 DEF CountInv
<1> QED BY <1>1, <1>4, <1>5, <1>6, <1>8, <1>9, <1>10, <1>11, QueriesAre DEF ReadingInv

LEMMA LastQuery == ReadingInv /\ (readExtensions \/ ReadFails) => ReadingInv'
<1> SUFFICES ASSUME ReadingInv, readExtensions \/ ReadFails PROVE ReadingInv'
  OBVIOUS
<1>1. /\ UNCHANGED <<server, moments, tables, coverage>> /\ Quiet
      /\ reading' = "failed" \/ (reading = "extensions" /\ reading' = "done")
  BY DEF readExtensions, ReadFails, Quiet
<1>2. extensions' \subseteq Installed
  BY DEF readExtensions, ReadFails, ReadingInv
<1>3. MomentsInv'
  BY <1>1, QuietMoments DEF ReadingInv
<1>4. ShapeInv' /\ ColumnsInv'
  BY <1>1 DEF ReadingInv, ShapeInv, ColumnsInv
<1>5. RelationsInv'
  BY <1>1 DEF ReadingInv, RelationsInv, PastRelations, AlwaysThere
<1>6. ConstraintsInv' /\ IndexesInv' /\ LinkInv'
  BY <1>1 DEF ReadingInv, ConstraintsInv, IndexesInv, LinkInv, PastConstraints, PastIndexes, PastUsage
<1>7. CountInv'
  BY <1>1 DEF ReadingInv, CountInv, PastRelations, PastUsage
<1>8. reading' \in {"done", "failed"}
  BY <1>1
<1> QED BY <1>2, <1>3, <1>4, <1>5, <1>6, <1>7, <1>8 DEF ReadingInv

LEMMA ReadingUntouched == ReadingInv /\ UNCHANGED catalogVars => ReadingInv'
<1> SUFFICES ASSUME ReadingInv, UNCHANGED catalogVars PROVE ReadingInv'
  OBVIOUS
<1>1. UNCHANGED <<server, moments, tables, coverage, reading, extensions>>
  BY DEF catalogVars
<1>2. MomentsInv' /\ ShapeInv' /\ ColumnsInv'
  BY <1>1 DEF ReadingInv, MomentsInv, ShapeInv, ColumnsInv
<1>3. RelationsInv' /\ ConstraintsInv' /\ IndexesInv' /\ LinkInv' /\ CountInv'
  BY <1>1 DEF ReadingInv, RelationsInv, AlwaysThere, ConstraintsInv, IndexesInv, LinkInv, CountInv
<1> QED BY <1>1, <1>2, <1>3 DEF ReadingInv

(* The catalog's part of the audit: the six queries, or somebody's DDL.     *)
LEMMA ReadingSteps == ReadingInv /\ [Next]_vars => ReadingInv'
<1> SUFFICES ASSUME ReadingInv, [Next]_vars PROVE ReadingInv'
  OBVIOUS
<1>1. CASE UNCHANGED catalogVars
  BY <1>1, ReadingUntouched
<1>2. CASE Alter
  BY <1>2, AlterKeepsReading
<1>3. CASE Read
  BY <1>3, FirstQuery, SecondQuery, ThirdQuery, FourthQuery, FifthQuery, LastQuery DEF Read, ReadCatalog
<1>4. Read \/ Alter \/ UNCHANGED catalogVars
  BY DEF Next, Step, Answer, Probing, ReadFailed, Derive, SkipProbe, StartProbe, StartComposite, ScanAnswers,
         ScanUnverified, ScanFails, applyKeyProbeResults, KeysProbed, CompositeDone, Report, AnswerComposite,
         AnswerSynthetic, AnswerSkip, AnswerUnreadable, Interrupt, Change, Insert, vars
<1> QED BY <1>1, <1>2, <1>3, <1>4

------------------------------------------------------------------------------
(* What is derived from the catalog.                                        *)
LEMMA HotIsHonest ==
    ASSUME ReadingInv, NEW uses, NEW n, NEW h \in unindexedHotColumns(uses, n, extensions)
    PROVE  Honest(h)
<1>1. PICK c : /\ c[1] \in DOMAIN tables
               /\ ~IsIndexedLeading(tables[c[1]], c[2])
               /\ ColumnsNamed(tables[c[1]], c[2]) # <<>>
               /\ \E operator, type : h = [table |-> c[1], column |-> c[2],
                                           index |-> IndexMethodFor(operator, type, extensions)]
  BY Zenon DEF unindexedHotColumns
<1>2. PICK operator, type : h = [table |-> c[1], column |-> c[2],
                                 index |-> IndexMethodFor(operator, type, extensions)]
  BY <1>1
<1>3. h.table = c[1] /\ h.column = c[2] /\ h.index = IndexMethodFor(operator, type, extensions)
  BY <1>2
<1>4. \E d \in ToSet(tables[c[1]].columns) : d.name = c[2]
  <2> DEFINE cols == tables[c[1]].columns
             named == {d \in ToSet(cols) : d.name = c[2]}
             q == Among(cols, named)
  <2>1. cols \in Seq(ToSet(cols))
    BY <1>1 DEF ReadingInv, ShapeInv
  <2>2. q # <<>>
    BY <1>1 DEF ColumnsNamed
  <2> HIDE DEF cols, named
  <2>3. q \in Seq(ToSet(cols)) /\ ToSet(q) = ToSet(cols) \cap named
    BY <2>1, AmongIs
  <2> HIDE DEF q
  <2>4. q[1] \in ToSet(q)
    <3>1. 1 \in DOMAIN q
      BY <2>2, <2>3
    <3> QED BY <3>1 DEF ToSet
  <2> QED BY <2>3, <2>4 DEF named, cols
<1>5. requiredExtension(IndexMethodFor(operator, type, extensions)) \in extensions \cup {""}
  BY DEF requiredExtension, IndexMethodFor, Method, NoMethod, btree
<1>6. extensions \subseteq Installed
  BY DEF ReadingInv
<1> QED BY <1>1, <1>3, <1>4, <1>5, <1>6 DEF Honest

LEMMA FoundSteps == ReadingInv /\ FoundInv /\ [Next]_vars => FoundInv'
<1> SUFFICES ASSUME ReadingInv, FoundInv, [Next]_vars PROVE FoundInv'
  OBVIOUS
<1>1. CASE Derive
  <2>1. /\ reading = "done" /\ reading' = "done" /\ tables' = tables
    BY <1>1 DEF Derive, catalogVars
  <2>2. /\ \A h \in recommended' : Honest(h)
        /\ found' = StructuralFindings \cup {<<"unindexed_hot_column", h.table, h.column>> : h \in recommended'}
    <3>1. PICK uses : /\ recommended' = unindexedHotColumns(uses, RecurrenceMin, extensions)
                      /\ found' = StructuralFindings
                           \cup {<<"unindexed_hot_column", h.table, h.column>> : h \in recommended'}
      BY <1>1, Zenon DEF Derive
    <3> QED BY <3>1, HotIsHonest
  <2>3. StructuralFindings' = StructuralFindings
    BY <2>1, Zenon DEF StructuralFindings, notValidConstraints, unindexedForeignKeys, missingPrimaryKeys
  <2>4. \A h \in recommended' : Honest(h)'
    BY <2>1, <2>2 DEF Honest
  <2> QED BY <2>1, <2>2, <2>3, <2>4 DEF FoundInv
<1>2. CASE phase' = "catalog" \/ ReadFailed
  BY <1>2 DEF FoundInv, ReadFailed, Exit, catalogVars
<1>3. CASE phase # "catalog" /\ UNCHANGED <<found, recommended, tables, reading>>
  <2>1. StructuralFindings' = StructuralFindings
    BY <1>3, Zenon DEF StructuralFindings, notValidConstraints, unindexedForeignKeys, missingPrimaryKeys
  <2>2. \A h : Honest(h)' <=> Honest(h)
    BY <1>3 DEF Honest
  <2> QED BY <1>3, <2>1, <2>2 DEF FoundInv
<1>4. \/ Derive \/ ReadFailed \/ phase' = "catalog"
      \/ phase # "catalog" /\ UNCHANGED <<found, recommended, tables, reading>>
  BY DEF Next, Step, Answer, Probing, Read, SkipProbe, StartProbe, StartComposite, ScanAnswers,
         ScanUnverified, ScanFails, applyKeyProbeResults, KeysProbed, CompositeDone, Report, AnswerComposite,
         AnswerSynthetic, AnswerSkip, AnswerUnreadable, Interrupt, Change, Alter, Insert, vars, catalogVars, findingVars
<1> QED BY <1>1, <1>2, <1>3, <1>4

------------------------------------------------------------------------------
(* From the invariants to what the report says.                             *)
LEMMA KeysAsRead ==
    ASSUME ReadingInv, reading = "done", NEW t \in DOMAIN tables, server[t] # Gone
    PROVE  \E m \in moments : /\ m[t] # Gone /\ tables[t].primaryKey = m[t].primaryKey
                              /\ KeysOf(tables[t]) = KeysOf(m[t])
BY DEF ReadingInv, ConstraintsInv, PastConstraints

LEMMA IndexesAsRead ==
    ASSUME ReadingInv, reading = "done", NEW t \in DOMAIN tables, server[t] # Gone
    PROVE  \E m \in moments : m[t] # Gone /\ \A column : IsIndexedLeading(tables[t], column) <=> LedBy(m[t], column)
<1>1. PICK m \in moments : m[t] # Gone /\ LeadsOf(tables[t]) = LeadsOf(m[t])
  BY DEF ReadingInv, IndexesInv, PastIndexes
<1>2. Definable(m[t])
  BY DEF ReadingInv, MomentsInv, ShapeInv
<1>3. \A column : IsIndexedLeading(tables[t], column) <=> LedBy(m[t], column)
  BY <1>1, <1>2, LeadsAsSeen
<1> QED BY <1>1, <1>3

LEMMA LinkedAsRead ==
    ASSUME ReadingInv, reading = "done", NEW t \in DOMAIN tables, NEW k \in ToSet(tables[t].foreignKeys)
    PROVE  k.hasIndex <=> IsIndexedLeading(tables[t], k.columns[1])
BY DEF ReadingInv, LinkInv, PastUsage

LEMMA InvalidAsRead ==
    ASSUME ReadingInv, reading = "done", NEW t \in DOMAIN tables, server[t] # Gone,
           NEW k \in ToSet(tables[t].foreignKeys), ~k.validated
    PROVE  AsRead(<<"not_valid_constraint", t, k.name>>)
<1> DEFINE f == <<"not_valid_constraint", t, k.name>>
<1>1. PICK m \in moments : m[t] # Gone /\ KeysOf(tables[t]) = KeysOf(m[t])
  BY KeysAsRead
<1>2. <<k.name, k.columns, k.validated>> \in KeysOf(m[t])
  BY <1>1 DEF KeysOf
<1>3. PICK x \in ToSet(m[t].foreignKeys) : x.name = k.name /\ x.validated = k.validated
  BY <1>2 DEF KeysOf
<1>4. f \in FactsOf(t, m[t])
  BY <1>3 DEF FactsOf
<1>5. f[1] = "not_valid_constraint" /\ f[2] = t
  OBVIOUS
<1> HIDE DEF f
<1>6. AsRead(f)
  BY <1>1, <1>4, <1>5 DEF AsRead
<1> QED BY <1>6 DEF f

LEMMA KeylessAsRead ==
    ASSUME ReadingInv, reading = "done", NEW t \in DOMAIN tables, server[t] # Gone, ~HasPrimaryKey(tables[t])
    PROVE  AsRead(<<"missing_primary_key", t>>)
<1> DEFINE f == <<"missing_primary_key", t>>
<1>1. PICK m \in moments : m[t] # Gone /\ tables[t].primaryKey = m[t].primaryKey
  BY KeysAsRead
<1>2. f \in FactsOf(t, m[t])
  BY <1>1 DEF FactsOf, HasPrimaryKey
<1>3. f[1] = "missing_primary_key" /\ f[2] = t
  OBVIOUS
<1> HIDE DEF f
<1>4. AsRead(f)
  BY <1>1, <1>2, <1>3 DEF AsRead
<1> QED BY <1>4 DEF f

LEMMA UncoveredAsRead ==
    ASSUME ReadingInv, reading = "done", NEW t \in DOMAIN tables, server[t] # Gone,
           NEW k \in ToSet(tables[t].foreignKeys), ~k.hasIndex
    PROVE  AsRead(<<"fk_without_index", t, k.name, k.columns[1]>>)
<1> DEFINE f == <<"fk_without_index", t, k.name, k.columns[1]>>
<1>1. PICK m \in moments : m[t] # Gone /\ KeysOf(tables[t]) = KeysOf(m[t])
  BY KeysAsRead
<1>2. <<k.name, k.columns, k.validated>> \in KeysOf(m[t])
  BY <1>1 DEF KeysOf
<1>3. PICK x \in ToSet(m[t].foreignKeys) : x.name = k.name /\ x.columns = k.columns
  BY <1>2 DEF KeysOf
<1>4. ~IsIndexedLeading(tables[t], k.columns[1])
  BY LinkedAsRead
<1>5. PICK n \in moments : n[t] # Gone /\ ~LedBy(n[t], k.columns[1])
  BY <1>4, IndexesAsRead
<1>6. f[1] = "fk_without_index" /\ f[2] = t /\ f[3] = k.name /\ f[4] = k.columns[1]
  OBVIOUS
<1> HIDE DEF f
<1>7. AsRead(f)
  BY <1>1, <1>3, <1>5, <1>6 DEF AsRead
<1> QED BY <1>7 DEF f

LEMMA HotAsRead ==
    ASSUME ReadingInv, reading = "done", NEW h, Honest(h), server[h.table] # Gone
    PROVE  AsRead(<<"unindexed_hot_column", h.table, h.column>>)
<1> DEFINE t == h.table
           f == <<"unindexed_hot_column", t, h.column>>
<1>1. PICK c \in ToSet(tables[t].columns) : c.name = h.column
  BY DEF Honest
<1>2. t \in DOMAIN tables
  BY DEF Honest
<1>3. tables[t].columns # <<>>
  BY <1>1 DEF ToSet
<1>4. PICK m \in moments : m[t] # Gone /\ tables[t].columns = m[t].columns
  BY <1>2, <1>3 DEF ReadingInv, ColumnsInv
<1>5. PICK n \in moments : n[t] # Gone /\ ~LedBy(n[t], h.column)
  BY <1>2, IndexesAsRead DEF Honest
<1>6. f[1] = "unindexed_hot_column" /\ f[2] = t /\ f[3] = h.column
  OBVIOUS
<1> HIDE DEF f
<1>7. AsRead(f)
  BY <1>1, <1>4, <1>5, <1>6 DEF AsRead
<1> QED BY <1>7 DEF f

(* A table that was there and readable throughout is one of those read, and *)
(* what was true of it throughout was true when it was read.                *)
LEMMA NothingMissed ==
    ASSUME ReadingInv, FoundInv, reading = "done", phase # "catalog",
           NEW f, \A m \in moments : f \in Facts(m), f[1] # "unindexed_hot_column"
    PROVE  f \in StructuralFindings
<1> DEFINE t == f[2]
<1>1. server \in moments
  BY DEF ReadingInv, MomentsInv
<1>2. \A srv : f \in Facts(srv) => t \in InReach(srv) /\ f \in FactsOf(t, srv[t])
  <2> SUFFICES ASSUME NEW srv, f \in Facts(srv) PROVE t \in InReach(srv) /\ f \in FactsOf(t, srv[t])
    OBVIOUS
  <2>1. PICK u \in InReach(srv) : f \in FactsOf(u, srv[u])
    BY DEF Facts
  <2>2. f[2] = u
    BY <2>1 DEF FactsOf
  <2> QED BY <2>1, <2>2
<1>3. \A m \in moments : t \in Tables \ Excluded /\ m[t] # Gone /\ m[t].readable /\ f \in FactsOf(t, m[t])
  BY <1>2 DEF InReach
<1> HIDE DEF t
<1>4. t \in DOMAIN tables
  BY <1>1, <1>3 DEF ReadingInv, RelationsInv, AlwaysThere, PastRelations
<1>5. server[t] # Gone
  BY <1>1, <1>3
<1>6. PICK m \in moments : m[t] # Gone /\ tables[t].primaryKey = m[t].primaryKey /\ KeysOf(tables[t]) = KeysOf(m[t])
  BY <1>4, <1>5, KeysAsRead
<1>7. PICK n \in moments : n[t] # Gone /\ \A column : IsIndexedLeading(tables[t], column) <=> LedBy(n[t], column)
  BY <1>4, <1>5, IndexesAsRead
<1>8. CASE f = <<"missing_primary_key", t>> /\ m[t].primaryKey = <<>>
  BY <1>4, <1>6, <1>8 DEF StructuralFindings, missingPrimaryKeys, HasPrimaryKey
<1>9. ASSUME NEW x \in ToSet(m[t].foreignKeys), ~x.validated, f = <<"not_valid_constraint", t, x.name>>
      PROVE  f \in StructuralFindings
  <2>1. <<x.name, x.columns, x.validated>> \in KeysOf(tables[t])
    BY <1>6 DEF KeysOf
  <2>2. PICK k \in ToSet(tables[t].foreignKeys) : k.name = x.name /\ k.validated = x.validated
    BY <2>1 DEF KeysOf
  <2>3. f \in notValidConstraints(t)
    BY <1>9, <2>2 DEF notValidConstraints
  <2> QED BY <1>4, <2>3 DEF StructuralFindings
<1>10. ASSUME NEW x \in ToSet(m[t].foreignKeys), f = <<"fk_without_index", t, x.name, x.columns[1]>>
       PROVE  f \in StructuralFindings
  <2>1. <<x.name, x.columns, x.validated>> \in KeysOf(tables[t])
    BY <1>6 DEF KeysOf
  <2>2. PICK k \in ToSet(tables[t].foreignKeys) : k.name = x.name /\ k.columns = x.columns
    BY <2>1 DEF KeysOf
  <2>3. ~LedBy(n[t], x.columns[1])
    <3>1. f \in FactsOf(t, n[t])
      BY <1>3
    <3>2. f[1] = "fk_without_index" /\ f[4] = x.columns[1]
      BY <1>10
    <3>3. \E y : f = <<"fk_without_index", t, y.name, y.columns[1]>> /\ ~LedBy(n[t], y.columns[1])
      BY <3>1, <3>2 DEF FactsOf
    <3> QED BY <3>2, <3>3
  <2>4. ~k.hasIndex
    BY <1>4, <1>7, <2>2, <2>3, LinkedAsRead
  <2>5. f \in unindexedForeignKeys(t)
    BY <1>10, <2>2, <2>4 DEF unindexedForeignKeys
  <2> QED BY <1>4, <2>5 DEF StructuralFindings
<1>11. f \in FactsOf(t, m[t])
  BY <1>3
<1> QED BY <1>8, <1>9, <1>10, <1>11 DEF FactsOf

LEMMA FindingsAsRead ==
    ASSUME ReadingInv, FoundInv, reading = "done", phase # "catalog", NEW f \in found
    PROVE  AsRead(f) \/ server[f[2]] = Gone
<1>1. /\ found = StructuralFindings \cup {<<"unindexed_hot_column", h.table, h.column>> : h \in recommended}
      /\ \A h \in recommended : Honest(h)
  BY DEF FoundInv
<1>2. ASSUME NEW t \in DOMAIN tables, NEW k \in ToSet(tables[t].foreignKeys), ~k.validated,
             f = <<"not_valid_constraint", t, k.name>>
      PROVE  AsRead(f) \/ server[f[2]] = Gone
  BY <1>2, InvalidAsRead
<1>3. ASSUME NEW t \in DOMAIN tables, NEW k \in ToSet(tables[t].foreignKeys), ~k.hasIndex,
             f = <<"fk_without_index", t, k.name, k.columns[1]>>
      PROVE  AsRead(f) \/ server[f[2]] = Gone
  BY <1>3, UncoveredAsRead
<1>4. ASSUME NEW t \in DOMAIN tables, ~HasPrimaryKey(tables[t]), f = <<"missing_primary_key", t>>
      PROVE  AsRead(f) \/ server[f[2]] = Gone
  BY <1>4, KeylessAsRead
<1>5. ASSUME NEW h \in recommended, f = <<"unindexed_hot_column", h.table, h.column>>
      PROVE  AsRead(f) \/ server[f[2]] = Gone
  BY <1>1, <1>5, HotAsRead
<1>6. CASE f \in StructuralFindings
  <2>1. PICK t \in DOMAIN tables : \/ f \in notValidConstraints(t)
                                   \/ f \in unindexedForeignKeys(t)
                                   \/ f \in missingPrimaryKeys(t)
    BY <1>6, Zenon DEF StructuralFindings
  <2>2. CASE f \in notValidConstraints(t)
    <3>1. PICK k \in ToSet(tables[t].foreignKeys) : ~k.validated /\ f = <<"not_valid_constraint", t, k.name>>
      BY <2>2, Zenon DEF notValidConstraints
    <3> QED BY <3>1, <1>2
  <2>3. CASE f \in unindexedForeignKeys(t)
    <3>1. PICK k \in ToSet(tables[t].foreignKeys) :
            ~k.hasIndex /\ f = <<"fk_without_index", t, k.name, k.columns[1]>>
      BY <2>3, Zenon DEF unindexedForeignKeys
    <3> QED BY <3>1, <1>3
  <2>4. CASE f \in missingPrimaryKeys(t)
    <3>1. ~HasPrimaryKey(tables[t]) /\ f = <<"missing_primary_key", t>>
      BY <2>4 DEF missingPrimaryKeys
    <3> QED BY <3>1, <1>4
  <2> QED BY <2>1, <2>2, <2>3, <2>4
<1>7. CASE f \in {<<"unindexed_hot_column", h.table, h.column>> : h \in recommended}
  <2>1. PICK h \in recommended : f = <<"unindexed_hot_column", h.table, h.column>>
    BY <1>7
  <2> QED BY <1>5, <2>1
<1> QED BY <1>1, <1>6, <1>7

LEMMA NotValidStatements ==
    ASSUME FoundInv, reading = "done", phase # "catalog", NEW sql \in AllSql(AuditArtifacts.notValid)
    PROVE  <<"not_valid_constraint", sql.table, sql.of>> \in found
<1>1. AuditArtifacts.notValid = notValidFile(tables)
  BY DEF AuditArtifacts
<1>2. PICK ddl \in notValidFile(tables) : sql \in ToSet(ddl)
  BY <1>1 DEF AllSql
<1>3. PICK t \in DOMAIN tables, k \in UNION {ToSet(tables[u].foreignKeys) : u \in DOMAIN tables} :
        /\ k \in ToSet(tables[t].foreignKeys) /\ ~k.validated
        /\ ddl = <<Live("violation_query", t, <<>>, k.columns, k.name),
                   Commented("validate", t, <<k.name>>, k.columns, k.name)>>
  BY <1>2, Zenon DEF notValidFile
<1> DEFINE a == Live("violation_query", t, <<>>, k.columns, k.name)
           b == Commented("validate", t, <<k.name>>, k.columns, k.name)
<1>4. a.table = t /\ a.of = k.name /\ b.table = t /\ b.of = k.name
  BY DEF Live, Commented, Sql
<1>5. ddl = <<a, b>>
  BY <1>3
<1> HIDE DEF a, b
<1>6. sql.table = t /\ sql.of = k.name
  BY <1>2, <1>4, <1>5, StatementsOfTwo
<1> DEFINE f == <<"not_valid_constraint", t, k.name>>
<1>7. f \in notValidConstraints(t)
  BY <1>3 DEF notValidConstraints
<1>8. f \in StructuralFindings
  <2> HIDE DEF f
  <2> QED BY <1>3, <1>7 DEF StructuralFindings
<1> QED BY <1>6, <1>8 DEF FoundInv

LEMMA IndexStatements ==
    ASSUME FoundInv, reading = "done", phase # "catalog", NEW sql \in AllSql(AuditArtifacts.suggestedIndexes)
    PROVE  /\ sql.does = "create_index" => <<"unindexed_hot_column", sql.table, sql.columns[1]>> \in found
           /\ sql.does = "create_extension" => sql.of \in Installed
<1>1. AuditArtifacts.suggestedIndexes = suggestedIndexesFile(recommended)
  BY DEF AuditArtifacts
<1>2. PICK h \in recommended : sql \in ToSet(writeIndexRecommendation(h))
  BY <1>1 DEF AllSql, suggestedIndexesFile
<1> DEFINE x == Commented("create_extension", h.table, <<>>, <<>>, requiredExtension(h.index))
           i == Commented("create_index", h.table, indexName(h.table, <<h.column>>), <<h.column>>, h.index.method)
           needed == requiredExtension(h.index)
<1>3. /\ x.does = "create_extension" /\ x.of = needed
      /\ i.does = "create_index" /\ i.table = h.table /\ i.columns = <<h.column>>
  BY DEF Commented, Sql
<1>4. writeIndexRecommendation(h) = (IF needed = "" THEN <<>> ELSE <<x>>) \o <<i>>
  BY DEF writeIndexRecommendation
<1>5. needed \in Installed \cup {""}
  BY DEF FoundInv, Honest
<1> HIDE DEF x, i, needed
<1>6. sql = i \/ (needed # "" /\ sql = x)
  <2> DEFINE first == IF needed = "" THEN <<>> ELSE <<x>>
             second == <<i>>
  <2>1. first \in Seq({x}) /\ ToSet(first) \subseteq {x} /\ (needed = "" => ToSet(first) = {})
    <3>1. CASE needed = ""
      <4>1. first = <<>>
        BY <3>1
      <4>2. <<>> \in Seq({x}) /\ ToSet(<<>>) = {}
        BY DEF ToSet
      <4> QED BY <4>1, <4>2
    <3>2. CASE needed # ""
      <4>1. first = <<x>>
        BY <3>2
      <4> QED BY <3>2, <4>1, StatementsOfOne
    <3> QED BY <3>1, <3>2
  <2>2. second \in Seq({i}) /\ ToSet(second) = {i}
    BY StatementsOfOne
  <2>3. writeIndexRecommendation(h) = first \o second
    BY <1>4
  <2> HIDE DEF first, second
  <2>5. first \in Seq({x}) /\ second \in Seq({i})
    BY <2>1, <2>2
  <2>4. ToSet(first \o second) = ToSet(first) \cup ToSet(second)
    BY <2>5, StatementsOfBoth
  <2> QED BY <1>2, <2>1, <2>2, <2>3, <2>4
<1>7. <<"unindexed_hot_column", h.table, h.column>> \in found
  BY DEF FoundInv
<1>8. <<h.column>>[1] = h.column
  OBVIOUS
<1> QED BY <1>3, <1>5, <1>6, <1>7, <1>8

LEMMA ReportIsFacts == ReadingInv /\ FoundInv => FindingsAreFacts
<1> SUFFICES ASSUME ReadingInv, FoundInv, reading = "done", phase # "catalog" PROVE FindingsAreFacts
  BY DEF FindingsAreFacts
<1>1. coverage.total = Cardinality(coverage.excluded) + Cardinality(coverage.noPrivilege)
                          + coverage.analyzed + Cardinality(coverage.unsupported)
  BY DEF ReadingInv, CountInv, PastRelations, PastUsage
<1>2. \A f \in found : AsRead(f) \/ server[f[2]] = Gone
  BY FindingsAsRead
<1>3. \A f \in Facts(server) \ found : f[1] = "unindexed_hot_column" \/ \E m \in moments : f \notin Facts(m)
  <2>1. StructuralFindings \subseteq found
    BY DEF FoundInv
  <2> QED BY <2>1, NothingMissed
<1> QED BY <1>1, <1>2, <1>3, NotValidStatements, IndexStatements DEF FindingsAreFacts

(* Whatever changes on the server while the catalog is read, the report     *)
(* says only what was read there, and everything that held throughout; its  *)
(* counts add up, and its SQL is about its findings and needs no extension  *)
(* the server is without.                                                   *)
THEOREM FindingsAreAsRead == Spec => []FindingsAreFacts
<1>1. Init => ReadingInv /\ FoundInv
  BY InitReading
<1>2. ReadingInv /\ FoundInv /\ [Next]_vars => ReadingInv' /\ FoundInv'
  BY ReadingSteps, FoundSteps
<1>3. ReadingInv /\ FoundInv => FindingsAreFacts
  BY ReportIsFacts
<1> QED BY <1>1, <1>2, <1>3, PTL DEF Spec

------------------------------------------------------------------------------
(* Types.  The probe has as many candidates as it can have results.         *)
SuggestionTypes ==
    /\ DOMAIN suggestion \subseteq DOMAIN tables
    /\ \A t \in DOMAIN suggestion : suggestion[t].kind \in Kinds /\ suggestion[t].probe \in Probes

ProbingTypes == Len(probing.candidates) \in Nat /\ Len(probing.results) <= Len(probing.candidates)

OutcomeTypes ==
    /\ options \in Options /\ skipped \subseteq Tables
    /\ interrupted \in BOOLEAN /\ exit \in {"none", "ok", "failure", "interrupted"}
    /\ exit # "none" <=> phase = "over"

TypeInv == SuggestionTypes /\ ProbingTypes /\ OutcomeTypes

LEMMA CandidatesAreCounted ==
    ASSUME NEW t, t.columns \in Seq(ToSet(t.columns)), t.indexes \in Seq(ToSet(t.indexes))
    PROVE  Len(candidateKeys(t)) \in Nat
<1> DEFINE indexed == Among(t.indexes, {i \in ToSet(t.indexes) : ~i.unique /\ ~i.primary /\ allNotNull(t, i.columns)})
           solid   == Among(t.columns, {c \in ToSet(t.columns) : ~c.nullable})
           ofIndexes == [k \in DOMAIN indexed |-> indexed[k].columns]
           ofColumns == [k \in DOMAIN solid |-> <<solid[k].name>>]
           all == IF indexed # <<>> THEN ofIndexes ELSE ofColumns
<1>1. indexed \in Seq(ToSet(t.indexes)) /\ solid \in Seq(ToSet(t.columns))
  BY AmongIs
<1>2. candidateKeys(t) = IF Len(all) <= 3 THEN all ELSE SubSeq(all, 1, 3)
  BY DEF candidateKeys, maxKeyProbeCandidatesPerTable
<1> HIDE DEF indexed, solid
<1>3. Len(ofIndexes) \in Nat /\ Len(ofColumns) \in Nat
  <2>1. Len(indexed) \in Nat /\ DOMAIN indexed = 1..Len(indexed) /\ Len(solid) \in Nat /\ DOMAIN solid = 1..Len(solid)
    BY <1>1
  <2>2. Len(ofIndexes) = Len(indexed)
    BY <2>1
  <2>3. Len(ofColumns) = Len(solid)
    BY <2>1
  <2> QED BY <2>1, <2>2, <2>3
<1> HIDE DEF ofIndexes, ofColumns
<1>4. Len(all) \in Nat
  BY <1>3
<1> HIDE DEF all
<1>5. Len(SubSeq(all, 1, 3)) \in Nat
  BY <1>4
<1> QED BY <1>2, <1>4, <1>5

LEMMA InitTypes == Init => TypeInv
<1> SUFFICES ASSUME Init PROVE TypeInv
  OBVIOUS
<1>1. SuggestionTypes
  BY DEF Init, SuggestionTypes
<1>2. ProbingTypes
  BY DEF Init, Idle, ProbingTypes
<1>3. OutcomeTypes
  BY DEF Init, OutcomeTypes
<1> QED BY <1>1, <1>2, <1>3 DEF TypeInv

LEMMA SuggestionTypesStay == KeyInv /\ SuggestionTypes /\ [Next]_vars => SuggestionTypes'
<1> SUFFICES ASSUME KeyInv, SuggestionTypes, [Next]_vars PROVE SuggestionTypes'
  OBVIOUS
<1>1. CASE Read
  BY <1>1 DEF Read, findingVars, KeyInv, PhaseInv, SuggestionTypes
<1>2. CASE Derive
  <2>1. tables' = tables /\ suggestion' = [t \in KeyLess |-> SuggestionFor(tables[t])]
    BY <1>2 DEF Derive, catalogVars
  <2>2. \A x : SuggestionFor(x).kind \in Kinds /\ SuggestionFor(x).probe \in Probes
    BY DEF SuggestionFor, Suggest, Kinds, Probes
  <2>3. KeyLess \subseteq DOMAIN tables
    BY DEF KeyLess
  <2> QED BY <2>1, <2>2, <2>3 DEF SuggestionTypes
<1>3. CASE applyKeyProbeResults
  <2>1. tables' = tables /\ probing.table \in DOMAIN suggestion
        /\ suggestion' = [suggestion EXCEPT ![probing.table] = Applied(suggestion[probing.table], probing)]
    BY <1>3 DEF applyKeyProbeResults, catalogVars, KeyInv, ProbingInv
  <2>2. DOMAIN suggestion[probing.table] = {"kind", "columns", "probe", "tried"}
    BY <2>1 DEF KeyInv, SuggestionsInv, Justified
  <2>3. LET a == Applied(suggestion[probing.table], probing)
        IN  a.kind = suggestion[probing.table].kind /\ a.probe \in Probes
    BY <2>2 DEF Applied, Probes
  <2> QED BY <2>1, <2>3 DEF SuggestionTypes
<1>4. CASE AnswerSynthetic
  <2>1. PICK name \in PrimaryKeyNames :
          suggestion' = [t \in DOMAIN suggestion |->
              IF t \in Pending THEN Suggest("synthesize_primary_key", <<name>>) ELSE suggestion[t]]
    BY <1>4 DEF AnswerSynthetic
  <2>2. tables' = tables
    BY <1>4 DEF AnswerSynthetic, catalogVars
  <2>3. \A x : Suggest("synthesize_primary_key", x).kind \in Kinds
               /\ Suggest("synthesize_primary_key", x).probe \in Probes
    BY DEF Suggest, Kinds, Probes
  <2> QED BY <2>1, <2>2, <2>3 DEF SuggestionTypes
<1>5. CASE UNCHANGED <<tables, suggestion>>
  BY <1>5 DEF SuggestionTypes
<1>6. Read \/ Derive \/ applyKeyProbeResults \/ AnswerSynthetic \/ UNCHANGED <<tables, suggestion>>
  BY DEF Next, Step, Answer, Probing, ReadFailed, SkipProbe, StartProbe, StartComposite, ScanAnswers,
         ScanUnverified, ScanFails, KeysProbed, CompositeDone, Report, AnswerComposite, AnswerSkip,
         AnswerUnreadable, Interrupt, Change, Alter, Insert, findingVars, catalogVars, vars
<1> QED BY <1>1, <1>2, <1>3, <1>4, <1>5, <1>6

LEMMA ProbingTypesStay == ReadingInv /\ KeyInv /\ SuggestionTypes /\ ProbingTypes /\ [Next]_vars => ProbingTypes'
<1> SUFFICES ASSUME ReadingInv, KeyInv, SuggestionTypes, ProbingTypes, [Next]_vars PROVE ProbingTypes'
  OBVIOUS
<1>1. ASSUME NEW t \in Tables, StartProbe(t) PROVE ProbingTypes'
  <2>1. t \in DOMAIN tables
    BY <1>1 DEF StartProbe, KeyInv, TodoInv, SuggestionTypes
  <2>2. Len(candidateKeys(tables[t])) \in Nat
    BY <2>1, CandidatesAreCounted DEF ReadingInv, ShapeInv
  <2>3. probing'.candidates = candidateKeys(tables[t]) /\ probing'.results = <<>>
    BY <1>1 DEF StartProbe
  <2> QED BY <2>2, <2>3 DEF ProbingTypes
<1>2. ASSUME NEW t \in Tables, StartComposite(t) PROVE ProbingTypes'
  BY <1>2 DEF StartComposite, ProbingTypes
<1>3. CASE ScanAnswers \/ ScanUnverified
  <2>1. PICK answer : probing' = [probing EXCEPT !.results = Append(probing.results, answer)]
    BY <1>3 DEF ScanAnswers, ScanUnverified
  <2>2. MoreToProbe
    BY <1>3 DEF ScanAnswers, ScanUnverified
  <2>3. DOMAIN probing = {"table", "candidates", "results"} /\ probing.results \in Seq(BOOLEAN)
    BY DEF KeyInv, ProbingInv
  <2>4. probing'.candidates = probing.candidates /\ probing'.results = Append(probing.results, answer)
    BY <2>1, <2>3
  <2>5. Len(probing.results) \in Nat /\ Len(Append(probing.results, answer)) = Len(probing.results) + 1
    BY <2>3
  <2> QED BY <2>2, <2>4, <2>5 DEF ProbingTypes, MoreToProbe
<1>4. CASE probing' = Idle
  BY <1>4 DEF ProbingTypes, Idle
<1>5. CASE UNCHANGED probing
  BY <1>5 DEF ProbingTypes
<1>6. \/ \E t \in Tables : StartProbe(t) \/ StartComposite(t)
      \/ ScanAnswers \/ ScanUnverified \/ probing' = Idle \/ UNCHANGED probing
  BY DEF Next, Step, Answer, Probing, Read, ReadFailed, Derive, SkipProbe, ScanFails, applyKeyProbeResults,
         KeysProbed, CompositeDone, Report, AnswerComposite, AnswerSynthetic, AnswerSkip,
         AnswerUnreadable, Interrupt, Change, Insert, probeVars, vars
<1> QED BY <1>1, <1>2, <1>3, <1>4, <1>5, <1>6

LEMMA OutcomeTypesStay == OutcomeTypes /\ [Next]_vars => OutcomeTypes'
<1> SUFFICES ASSUME OutcomeTypes, [Next]_vars PROVE OutcomeTypes'
  OBVIOUS
<1>1. CASE Step
  <2>1. CASE Read \/ Derive
    BY <2>1 DEF Read, Derive, findingVars, outcome, OutcomeTypes
  <2>2. CASE ReadFailed \/ Report
    BY <2>2 DEF ReadFailed, Report, Exit, ExitCode, findingVars, OutcomeTypes
  <2>3. CASE Probing
    BY <2>3 DEF Probing, SkipProbe, StartProbe, StartComposite, ScanAnswers, ScanUnverified, ScanFails,
                applyKeyProbeResults, KeysProbed, CompositeDone, findingVars, outcome, OutcomeTypes
  <2> QED BY <1>1, <2>1, <2>2, <2>3 DEF Step
<1>2. CASE Answer
  BY <1>2 DEF Answer, AnswerComposite, AnswerSynthetic, AnswerSkip, AnswerUnreadable, Exit, ExitCode,
              findingVars, outcome, OutcomeTypes
<1>3. CASE Interrupt \/ Change \/ Insert \/ UNCHANGED vars
  BY <1>3 DEF Interrupt, Change, Insert, vars, findingVars, outcome, OutcomeTypes
<1> QED BY <1>1, <1>2, <1>3 DEF Next

(* What is to be probed has a suggestion, a table is given no more results  *)
(* than it has candidates, and the command has an exit code when it is over.*)
THEOREM TypesOfTheAudit == Spec => []TypeOK
<1> DEFINE I == ReadingInv /\ KeyInv /\ TypeInv
<1>1. Init => I
  BY InitReading, InitKeys, InitTypes
<1>2. I /\ [Next]_vars => I'
  <2> SUFFICES ASSUME ReadingInv, KeyInv, SuggestionTypes, ProbingTypes, OutcomeTypes, [Next]_vars PROVE I'
    BY DEF TypeInv
  <2>1. ReadingInv' /\ KeyInv'
    BY ReadingSteps, KeySteps
  <2>2. SuggestionTypes' /\ ProbingTypes' /\ OutcomeTypes'
    BY SuggestionTypesStay, ProbingTypesStay, OutcomeTypesStay
  <2> QED BY <2>1, <2>2 DEF TypeInv
<1>3. I => TypeOK
  <2> SUFFICES ASSUME ReadingInv, KeyInv, TypeInv PROVE TypeOK
    OBVIOUS
  <2>1. phase \in {"catalog", "keys", "prompt", "composite", "output", "over"}
    BY DEF KeyInv, PhaseInv
  <2>2. reading \in ToSet(Queries) \cup {"done", "failed"}
    BY DEF ReadingInv
  <2>3. DOMAIN suggestion \subseteq Tables /\ todo \subseteq DOMAIN suggestion
    BY DEF KeyInv, PhaseInv, TodoInv
  <2>4. probing = Idle \/ probing.table \in DOMAIN suggestion
    BY DEF KeyInv, ProbingInv
  <2> QED BY <2>1, <2>2, <2>3, <2>4 DEF TypeInv, SuggestionTypes, ProbingTypes, OutcomeTypes, TypeOK
<1> QED BY <1>1, <1>2, <1>3, PTL DEF Spec
==============================================================================
