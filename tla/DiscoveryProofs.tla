--------------------------- MODULE DiscoveryProofs ---------------------------
(***************************************************************************)
(* The pipeline proved for every set of candidates, every weight, every    *)
(* option and every moment of the signal.                                  *)
(***************************************************************************)
EXTENDS Discovery, CountingProofs

(* The stages up to the first list of candidates.                           *)
Early == {"catalog", "naming detection", "usage evidence", "candidate generation"}

Late == {"validation", "report", "failed", "over"}

------------------------------------------------------------------------------
LEMMA StagesAre ==
    /\ DOMAIN Stages = 1..6
    /\ Stages[1] = "catalog" /\ Stages[2] = "naming detection" /\ Stages[3] = "usage evidence"
    /\ Stages[4] = "candidate generation" /\ Stages[5] = "statistical prefilter"
    /\ Stages[6] = "validation"
BY DEF Stages

LEMMA FirstStage ==
    ASSUME NEW S \in SUBSET (1..6), S # {}
    PROVE  Min(S) \in S /\ \A y \in S : Min(S) =< y
<1>1. IsFiniteSet(1..6)
  BY FS_Interval, 1 \in Int, 6 \in Int, Zenon
<1>2. IsFiniteSet(S)
  BY <1>1, FS_Subset, Zenon
<1>3. S \in SUBSET Int
  OBVIOUS
<1>4. Min(S) \in S /\ \A y \in S : Min(S) =< y
  BY <1>2, <1>3, MinIs, Zenon
<1> QED BY <1>4

LEMMA StagesLeftAfter ==
    ASSUME NEW k \in 1..6
    PROVE  \A i : i \in StagesLeft(Stages[k]) <=> i \in 1..6 /\ k < i /\ Stages[i] \notin options.off
<1>1. \A j \in 1..6 : Stages[j] = Stages[k] => j = k
  <2> TAKE j \in 1..6
  <2>1. j \in {1, 2, 3, 4, 5, 6} /\ k \in {1, 2, 3, 4, 5, 6}
    OBVIOUS
  <2>2. CASE k = 1
    BY <2>1, <2>2, StagesAre
  <2>3. CASE k = 2
    BY <2>1, <2>3, StagesAre
  <2>4. CASE k = 3
    BY <2>1, <2>4, StagesAre
  <2>5. CASE k = 4
    BY <2>1, <2>5, StagesAre
  <2>6. CASE k = 5
    BY <2>1, <2>6, StagesAre
  <2>7. CASE k = 6
    BY <2>1, <2>7, StagesAre
  <2> QED BY <2>1, <2>2, <2>3, <2>4, <2>5, <2>6, <2>7
<1> QED BY <1>1, StagesAre DEF StagesLeft, StagesAfter

(* Closing a stage opens one that is on, and generation and validation are  *)
(* always on.                                                               *)
LEMMA Advances ==
    ASSUME options \in OptionSets, NEW s, Advance(s)
    PROVE  /\ s \in Early \ {"candidate generation"} => stage' \in Early \ options.off
           /\ s = "candidate generation" =>
                stage' \in {"statistical prefilter", "validation"} \ options.off
           /\ s = "statistical prefilter" => stage' = "validation"
           /\ s = "validation" => stage' = "report"
<1> DEFINE left == StagesLeft(s)
<1>1. options.off \subseteq {"naming detection", "usage evidence", "statistical prefilter"}
  BY OptionAssumption
<1>2. stage' = IF left = {} THEN "report" ELSE Stages[Min(left)]
  BY DEF Advance
<1>3. \A k \in 1..6 : s = Stages[k] =>
         \A i : i \in left <=> i \in 1..6 /\ k < i /\ Stages[i] \notin options.off
  BY StagesLeftAfter
<1> HIDE DEF left
<1>4. \A k \in 1..6 : s = Stages[k] /\ left # {} => Min(left) \in left
  <2> SUFFICES ASSUME NEW k \in 1..6, s = Stages[k], left # {} PROVE Min(left) \in left
    OBVIOUS
  <2>1. left \subseteq 1..6
    BY <1>3
  <2> QED BY <2>1, FirstStage
<1>5. CASE s \in Early \ {"candidate generation"}
  <2>1. PICK k \in {1, 2, 3} : s = Stages[k]
    BY <1>5, StagesAre DEF Early
  <2>2. Stages[4] \notin options.off
    BY <1>1, StagesAre
  <2>3. 4 \in left
    BY <1>3, <2>1, <2>2
  <2>4. Min(left) \in {2, 3, 4, 5, 6} /\ Stages[Min(left)] \notin options.off
    BY <1>3, <1>4, <2>1, <2>3
  <2>5. Min(left) =< 4
    BY <1>3, <2>1, <2>3, FirstStage
  <2>6. Min(left) \in {2, 3, 4}
    BY <2>4, <2>5
  <2> QED
    BY <1>2, <1>5, <2>3, <2>4, <2>6, StagesAre DEF Early
<1>6. CASE s = "candidate generation"
  <2>1. Stages[6] \notin options.off
    BY <1>1, StagesAre
  <2>0. \A i : i \in left <=> i \in 1..6 /\ 4 < i /\ Stages[i] \notin options.off
    <3>1. s = Stages[4]
      BY <1>6, StagesAre
    <3> QED BY <1>3, <3>1
  <2>2. 6 \in left
    BY <2>0, <2>1
  <2>3. Min(left) \in {5, 6} /\ Stages[Min(left)] \notin options.off
    <3>1. Min(left) \in left
      <4>1. s = Stages[4]
        BY <1>6, StagesAre
      <4> QED BY <1>4, <2>2, <4>1
    <3> QED BY <2>0, <3>1
  <2> QED
    BY <1>2, <1>6, <2>2, <2>3, StagesAre DEF Early
<1>7. CASE s = "statistical prefilter"
  <2>1. Stages[6] \notin options.off
    BY <1>1, StagesAre
  <2>0. \A i : i \in left <=> i \in 1..6 /\ 5 < i /\ Stages[i] \notin options.off
    <3>1. s = Stages[5]
      BY <1>7, StagesAre
    <3> QED BY <1>3, <3>1
  <2>2. 6 \in left
    BY <2>0, <2>1
  <2>3. Min(left) = 6
    <3>1. Min(left) \in left
      <4>1. s = Stages[5]
        BY <1>7, StagesAre
      <4> QED BY <1>4, <2>2, <4>1
    <3> QED BY <2>0, <3>1
  <2> QED
    BY <1>2, <1>7, <2>2, <2>3, StagesAre DEF Early
<1>8. CASE s = "validation"
  <2>1. \A i : i \notin left
    <3>1. s = Stages[6]
      BY <1>8, StagesAre
    <3>2. \A i : i \in left => i \in 1..6 /\ 6 < i
      BY <1>3, <3>1
    <3> QED BY <3>2
  <2> QED
    BY <1>2, <1>8, <2>1 DEF Early
<1> QED BY <1>5, <1>6, <1>7, <1>8

LEMMA DisjointUnion ==
    ASSUME NEW S, NEW T, IsFiniteSet(S), IsFiniteSet(T), S \intersect T = {}
    PROVE  /\ IsFiniteSet(S \union T)
           /\ Cardinality(S \union T) = Cardinality(S) + Cardinality(T)
<1>1. IsFiniteSet(S \union T)
  BY FS_Union
<1>2. Cardinality(S \union T) = Cardinality(S) + Cardinality(T) - Cardinality({})
  BY FS_Union
<1>3. Cardinality({}) = 0
  BY FS_EmptySet
<1>4. Cardinality(S) \in Nat /\ Cardinality(T) \in Nat
  BY FS_CardinalityType
<1> QED BY <1>1, <1>2, <1>3, <1>4

(* Whatever the statistics say, an opinion is one of three outcomes, and a  *)
(* rejection names its reason.                                              *)
LEMMA OpinionsAre ==
    \A o \in Opinions : /\ o.signals \subseteq StatSignals
                        /\ o.outcome = "rejected" => "cardinality_violation" \in o.signals
BY DEF Opinions, evaluateOne, StatSignals

------------------------------------------------------------------------------
(* The inductive invariant, in its parts.                                   *)
CoverageOK ==
    coverage \in [found : Nat, statements : BOOLEAN, prefilter : BOOLEAN, checked : Nat,
                  rejected : Nat, withoutStats : Nat, validated : Nat, timedOut : Nat]

StageInv ==
    /\ stage \in Early \union {"statistical prefilter"} \union Late
    /\ stage \notin options.off
    /\ stage \in Early => survivors = {} /\ discarded = {}

(* Statistics leave a trace exactly when they were read.                    *)
PrefilterInv ==
    /\ coverage.prefilter \/ "statistical prefilter" \in warned => stage \in Late
    /\ coverage.prefilter => "statistical prefilter" \notin warned \union options.off
    /\ ~coverage.prefilter =>
          /\ coverage.checked = 0 /\ coverage.rejected = 0
          /\ \A c \in Candidates : signals[c] = {}
          /\ \A c \in discarded : cutScore(c, joins[c]) < MinScore

DiscardInv ==
    \A c \in discarded : cutScore(c, joins[c]) < MinScore \/ "cardinality_violation" \in signals[c]

AccountInv ==
    /\ survivors \intersect discarded = {}
    /\ coverage.found = Cardinality(survivors) + Cardinality(discarded)
    /\ coverage.prefilter => coverage.checked = Cardinality(survivors) + coverage.rejected

(* A slot for every survivor and for nobody else.                           *)
SlotInv ==
    /\ ret = "idle" => stage \notin {"report"}
    /\ ret = "running" => stage = "validation"
    /\ ret = "ok" => stage \in {"report", "over"}
    /\ ret = "error" => stage \in {"failed", "over"}
    /\ ret # "idle" => \A c \in Candidates : slot[c] = Absent <=> c \notin survivors

ReportInv ==
    /\ printed => ret = "ok"
    /\ exit # "none" => stage = "over"
    /\ ret = "ok" => /\ \A c \in Candidates : slot[c] # Unset
                     /\ coverage.validated = Cardinality({c \in Candidates : Measured(c)})
                     /\ coverage.timedOut = Cardinality({c \in Candidates : TimedOut(c)})

(* A run the signal found before validation measures nothing.               *)
InterruptInv ==
    /\ ~Alive => exit \in {"none", "interrupted"}
    /\ interruptedAt \notin {"never", "validation", "report"} /\ ret \in {"running", "ok"} =>
          \A c \in Candidates : slot[c] \in {Unset, Absent}

DInv == /\ TypeOK /\ CoverageOK /\ StageInv /\ PrefilterInv /\ DiscardInv /\ AccountInv
        /\ SlotInv /\ ReportInv /\ InterruptInv

LEMMA StageNamed == ToSet(Stages) = Early \union {"statistical prefilter", "validation"}
<1>1. DOMAIN Stages = {1, 2, 3, 4, 5, 6}
  BY 1..6 = {1, 2, 3, 4, 5, 6}, StagesAre
<1>2. ToSet(Stages) = {Stages[i] : i \in {1, 2, 3, 4, 5, 6}}
  BY <1>1 DEF ToSet
<1>3. ToSet(Stages) = {Stages[1], Stages[2], Stages[3], Stages[4], Stages[5], Stages[6]}
  BY <1>2
<1> QED BY <1>3, StagesAre DEF Early

LEMMA InitDInv == Init => DInv
<1> SUFFICES ASSUME Init PROVE DInv
  OBVIOUS
<1>1. options \in OptionSets /\ stage = "catalog" /\ survivors = {} /\ discarded = {}
  BY DEF Init
<1>2. TypeOK
  BY StageNamed DEF Init, TypeOK, Early
<1>3. CoverageOK
  BY DEF Init, CoverageOK
<1>4. StageInv
  BY <1>1, OptionAssumption DEF StageInv, Early
<1>5. PrefilterInv /\ DiscardInv
  BY DEF Init, PrefilterInv, DiscardInv
<1>6. AccountInv
  BY FS_EmptySet DEF Init, AccountInv
<1>7. SlotInv /\ ReportInv /\ InterruptInv
  BY DEF Init, SlotInv, ReportInv, InterruptInv, Alive
<1> QED BY <1>2, <1>3, <1>4, <1>5, <1>6, <1>7 DEF DInv

(* The stages before there is a list change nothing the later ones rest on. *)
LEMMA EarlyDInv ==
    ASSUME DInv, stage \in Early \ {"candidate generation"}, Advance(stage),
           joins' \in [Candidates -> SUBSET JoinKinds],
           warned' \in {warned, warned \union {"usage evidence"}},
           CoverageOK', \A f \in DOMAIN coverage \ {"statements"} : coverage'[f] = coverage[f],
           UNCHANGED <<options, interruptedAt, survivors, discarded, signals, validation, command>>
    PROVE  DInv'
<1>1. options \in OptionSets /\ StageInv
  BY DEF DInv, TypeOK
<1>2. stage' \in Early \ options.off
  BY <1>1, Advances
<1>3. survivors = {} /\ discarded = {}
  BY <1>1 DEF StageInv
<1>4. /\ coverage'.found = coverage.found /\ coverage'.prefilter = coverage.prefilter
      /\ coverage'.checked = coverage.checked /\ coverage'.rejected = coverage.rejected
      /\ coverage'.validated = coverage.validated /\ coverage'.timedOut = coverage.timedOut
  BY DEF DInv, CoverageOK
<1>5. stage \notin Late /\ stage' \notin Late
  BY <1>2 DEF Early, Late
<1>6. TypeOK'
  BY <1>2, StageNamed DEF DInv, TypeOK, Early, validation, command
<1>7. StageInv'
  BY <1>2, <1>3 DEF StageInv
<1>8. PrefilterInv'
  BY <1>3, <1>4, <1>5 DEF DInv, PrefilterInv
<1>9. DiscardInv' /\ AccountInv'
  BY <1>3, <1>4 DEF DInv, DiscardInv, AccountInv
<1>10. ret = "idle" /\ ret' = "idle" /\ printed' = printed /\ exit' = exit
  BY <1>5 DEF DInv, SlotInv, Late, Early, validation, command, TypeOK
<1>11. SlotInv'
  BY <1>2, <1>10 DEF SlotInv, Early
<1>12. ReportInv' /\ InterruptInv'
  BY <1>5, <1>10 DEF DInv, ReportInv, InterruptInv, Alive, Late
<1> QED BY <1>6, <1>7, <1>8, <1>9, <1>11, <1>12 DEF DInv

LEMMA ReadCatalogDInv == DInv /\ ReadCatalog => DInv'
<1> SUFFICES ASSUME DInv, ReadCatalog PROVE DInv'
  OBVIOUS
<1> USE DEF run, inference, validation, command
<1>1. CASE Advance("catalog")
  BY <1>1, EarlyDInv DEF ReadCatalog, Early, DInv, TypeOK, CoverageOK
<1>2. CASE Abort
  <2>1. ret = "idle" /\ ~printed /\ exit = "none"
    BY DEF ReadCatalog, DInv, TypeOK, SlotInv, ReportInv
  <2>2. TypeOK' /\ CoverageOK'
    BY <1>2 DEF ReadCatalog, DInv, TypeOK, CoverageOK, Abort
  <2>3. StageInv'
    <3>1. options.off \subseteq {"naming detection", "usage evidence", "statistical prefilter"}
      BY OptionAssumption DEF DInv, TypeOK
    <3> QED BY <1>2, <3>1 DEF ReadCatalog, DInv, StageInv, Abort, Early, Late
  <2>4. PrefilterInv' /\ DiscardInv' /\ AccountInv'
    BY <1>2 DEF ReadCatalog, DInv, PrefilterInv, DiscardInv, AccountInv, Abort, Late
  <2>5. SlotInv' /\ ReportInv' /\ InterruptInv'
    BY <1>2, <2>1 DEF ReadCatalog, DInv, SlotInv, ReportInv, InterruptInv, Abort, Alive, Measured, TimedOut
  <2> QED BY <2>2, <2>3, <2>4, <2>5 DEF DInv
<1> QED BY <1>1, <1>2 DEF ReadCatalog

LEMMA DetectNamingDInv == DInv /\ DetectNaming => DInv'
<1> SUFFICES ASSUME DInv, DetectNaming PROVE DInv'
  OBVIOUS
<1> QED
  BY EarlyDInv DEF DetectNaming, Early, DInv, TypeOK, CoverageOK, run, inference, validation, command

LEMMA ProbeDInv == DInv /\ Probe => DInv'
<1> SUFFICES ASSUME DInv, Probe PROVE DInv'
  OBVIOUS
<1>1. joins' \in [Candidates -> SUBSET JoinKinds]
  <2>1. \A c \in Candidates : JoinedIn[c] \subseteq JoinKinds
    BY CandidateAssumption
  <2>2. CASE UNCHANGED joins
    BY <2>2 DEF DInv, TypeOK
  <2>3. CASE \E available \in BOOLEAN :
                joins' = [c \in Candidates |-> JoinedIn[c] \ (IF available THEN {} ELSE {"statements"})]
    BY <2>1, <2>3
  <2> QED BY <2>2, <2>3 DEF Probe
<1>2. CoverageOK' /\ \A f \in DOMAIN coverage \ {"statements"} : coverage'[f] = coverage[f]
  BY DEF Probe, DInv, CoverageOK
<1> QED
  BY <1>1, <1>2, EarlyDInv DEF Probe, Early, validation, command

(* The threshold divides what was generated.                                *)
LEMMA GenerateDInv == DInv /\ Generate => DInv'
<1> SUFFICES ASSUME DInv, Generate PROVE DInv'
  OBVIOUS
<1> DEFINE generated == Named \union {c \in Candidates : joins[c] # {}}
           above     == {c \in generated : cutScore(c, joins[c]) >= MinScore}
<1>1. /\ stage = "candidate generation" /\ Advance(stage)
      /\ survivors' = above /\ discarded' = generated \ above
      /\ coverage' = [coverage EXCEPT !.found = Cardinality(generated)]
      /\ UNCHANGED <<options, warned, interruptedAt, joins, signals, slot, doomed, ret, printed, exit>>
  BY DEF Generate, run, validation, command
<1>2. options \in OptionSets
  BY DEF DInv, TypeOK
<1>3. stage' \in {"statistical prefilter", "validation"} \ options.off
  BY <1>1, <1>2, Advances
<1>4. generated \subseteq Candidates /\ above \subseteq generated /\ IsFiniteSet(generated)
  BY CandidateAssumption, FS_Subset
<1>5. Cardinality(generated) = Cardinality(above) + Cardinality(generated \ above)
      /\ Cardinality(generated) \in Nat
  <2>1. IsFiniteSet(above) /\ IsFiniteSet(generated \ above)
    BY <1>4, FS_Subset
  <2>2. above \union (generated \ above) = generated /\ above \intersect (generated \ above) = {}
    BY <1>4
  <2> HIDE DEF generated, above
  <2> QED BY <2>1, <2>2, <1>4, DisjointUnion, FS_CardinalityType
<1>6. \A c \in generated \ above : cutScore(c, joins[c]) < MinScore
  <2> SUFFICES ASSUME NEW c \in generated, ~(cutScore(c, joins[c]) >= MinScore)
               PROVE  cutScore(c, joins[c]) < MinScore
    OBVIOUS
  <2>1. Base[c] \in Int /\ MinScore \in Int
    BY <1>4, CandidateAssumption
  <2>2. cutScore(c, joins[c]) \in Int
    BY <2>1 DEF cutScore, saturate, TotalWeight
  <2> QED BY <2>1, <2>2
<1>7. /\ ~coverage.prefilter /\ "statistical prefilter" \notin warned
      /\ coverage'.prefilter = coverage.prefilter /\ coverage'.checked = coverage.checked
      /\ coverage'.rejected = coverage.rejected /\ coverage'.found = Cardinality(generated)
      /\ CoverageOK'
  BY <1>1, <1>5 DEF DInv, PrefilterInv, Late, CoverageOK
<1>8. ret = "idle" /\ ~printed /\ exit = "none"
  BY <1>1 DEF DInv, TypeOK, SlotInv, ReportInv
<1> HIDE DEF generated, above
<1>9. TypeOK'
  BY <1>1, <1>3, <1>4, StageNamed DEF DInv, TypeOK
<1>10. StageInv'
  BY <1>1, <1>3 DEF StageInv, Early, Late
<1>11. PrefilterInv' /\ DiscardInv'
  BY <1>1, <1>6, <1>7 DEF DInv, PrefilterInv, DiscardInv
<1>12. AccountInv'
  BY <1>1, <1>4, <1>5, <1>7 DEF AccountInv
<1>13. SlotInv' /\ ReportInv' /\ InterruptInv'
  BY <1>1, <1>3, <1>8 DEF DInv, SlotInv, ReportInv, InterruptInv, Alive
<1> QED BY <1>7, <1>9, <1>10, <1>11, <1>12, <1>13 DEF DInv

(* Either an opinion about every survivor, or none and a warning.           *)
LEMMA PrefilterDInv == DInv /\ Prefilter => DInv'
<1> SUFFICES ASSUME DInv, Prefilter PROVE DInv'
  OBVIOUS
<1>1. /\ stage = "statistical prefilter" /\ Advance(stage)
      /\ UNCHANGED <<options, interruptedAt, joins, slot, doomed, ret, printed, exit>>
  BY DEF Prefilter, validation, command
<1>2. options \in OptionSets /\ stage \notin options.off
  BY DEF DInv, TypeOK, StageInv
<1>3. stage' = "validation" /\ "validation" \notin options.off
  BY <1>1, <1>2, Advances, OptionAssumption
<1>4. ret = "idle" /\ ~printed /\ exit = "none"
  BY <1>1 DEF DInv, TypeOK, SlotInv, ReportInv
<1>5. /\ ~coverage.prefilter /\ "statistical prefilter" \notin warned \union options.off
      /\ \A c \in discarded : cutScore(c, joins[c]) < MinScore
  BY <1>1, <1>2 DEF DInv, PrefilterInv, Late
<1>6. StageInv' /\ SlotInv' /\ InterruptInv'
  BY <1>1, <1>3, <1>4 DEF DInv, StageInv, SlotInv, InterruptInv, Early, Late, Alive
<1>7. ReportInv'
  BY <1>1, <1>4 DEF ReportInv
<1>8. CASE warned' = warned \union {stage} /\ NoOpinion
  <2>1. TypeOK' /\ CoverageOK'
    BY <1>1, <1>3, <1>8, StageNamed DEF DInv, TypeOK, CoverageOK, NoOpinion
  <2>2. PrefilterInv' /\ DiscardInv' /\ AccountInv'
    BY <1>1, <1>3, <1>5, <1>8 DEF DInv, PrefilterInv, DiscardInv, AccountInv, NoOpinion, Late
  <2> QED BY <1>6, <1>7, <2>1, <2>2 DEF DInv
<1>9. ASSUME UNCHANGED warned, NEW opinion \in [survivors -> Opinions],
             NEW rejected, rejected = {c \in survivors : opinion[c].outcome = "rejected"},
             NEW untold, untold = {c \in survivors : opinion[c].outcome = "nostats"},
             survivors' = survivors \ rejected, discarded' = discarded \union rejected,
             signals' = [c \in Candidates |-> IF c \in survivors THEN opinion[c].signals ELSE {}],
             coverage' = [coverage EXCEPT !.prefilter = TRUE, !.checked = Cardinality(survivors),
                                          !.rejected = Cardinality(rejected),
                                          !.withoutStats = Cardinality(untold)]
      PROVE  DInv'
  <2>1. survivors \subseteq Candidates /\ discarded \subseteq Candidates
    BY DEF DInv, TypeOK
  <2>2. /\ IsFiniteSet(survivors) /\ IsFiniteSet(discarded) /\ IsFiniteSet(rejected)
        /\ IsFiniteSet(untold) /\ IsFiniteSet(survivors \ rejected)
    BY <1>9, <2>1, CandidateAssumption, FS_Subset
  <2>3. /\ Cardinality(survivors) \in Nat /\ Cardinality(rejected) \in Nat
        /\ Cardinality(untold) \in Nat /\ Cardinality(discarded) \in Nat
        /\ Cardinality(survivors \ rejected) \in Nat
    BY <2>2, FS_CardinalityType
  <2>4. Cardinality(survivors) = Cardinality(survivors \ rejected) + Cardinality(rejected)
    <3>1. (survivors \ rejected) \union rejected = survivors /\ (survivors \ rejected) \intersect rejected = {}
      BY <1>9
    <3> QED BY <2>2, <3>1, DisjointUnion
  <2>5. Cardinality(discarded') = Cardinality(discarded) + Cardinality(rejected)
    <3>1. discarded \intersect rejected = {}
      BY <1>9 DEF DInv, AccountInv
    <3> QED BY <1>9, <2>2, <3>1, DisjointUnion
  <2>6. \A c \in survivors : /\ opinion[c].signals \subseteq StatSignals
                             /\ c \in rejected => "cardinality_violation" \in opinion[c].signals
    BY <1>9, OpinionsAre
  <2>7. CoverageOK' /\ coverage'.prefilter /\ coverage'.checked = Cardinality(survivors)
        /\ coverage'.rejected = Cardinality(rejected) /\ coverage'.found = coverage.found
    BY <1>9, <2>3 DEF DInv, CoverageOK
  <2>8. TypeOK'
    <3>1. signals' \in [Candidates -> SUBSET StatSignals]
      BY <1>9, <2>6
    <3> QED BY <1>1, <1>3, <1>9, <2>1, <3>1, StageNamed DEF DInv, TypeOK
  <2>9. PrefilterInv'
    BY <1>1, <1>3, <1>5, <1>9, <2>7 DEF PrefilterInv, Late
  <2>10. DiscardInv'
    <3> SUFFICES ASSUME NEW c \in discarded'
                 PROVE  cutScore(c, joins[c]) < MinScore \/ "cardinality_violation" \in signals'[c]
      BY <1>1 DEF DiscardInv, cutScore
    <3>1. CASE c \in discarded
      BY <1>5, <3>1
    <3>2. CASE c \in rejected
      BY <1>9, <2>1, <2>6, <3>2
    <3> QED BY <1>9, <3>1, <3>2
  <2>11. AccountInv'
    BY <1>9, <2>3, <2>4, <2>5, <2>7 DEF DInv, AccountInv
  <2> QED BY <1>6, <1>7, <2>7, <2>8, <2>9, <2>10, <2>11 DEF DInv
<1>10. CASE UNCHANGED warned /\ \E opinion \in [survivors -> Opinions] :
                LET of(outcome) == {c \in survivors : opinion[c].outcome = outcome}
                IN  /\ survivors' = survivors \ of("rejected")
                    /\ discarded' = BesideOf(discarded, of("rejected"))
                    /\ signals' = [c \in Candidates |->
                                      IF c \in survivors THEN opinion[c].signals ELSE {}]
                    /\ coverage' = [coverage EXCEPT
                                      !.prefilter = TRUE,
                                      !.checked = Cardinality(survivors),
                                      !.rejected = Cardinality(of("rejected")),
                                      !.withoutStats = Cardinality(of("nostats"))]
  <2>1. PICK opinion \in [survivors -> Opinions] :
           LET of(outcome) == {c \in survivors : opinion[c].outcome = outcome}
           IN  /\ survivors' = survivors \ of("rejected")
               /\ discarded' = discarded \union of("rejected")
               /\ signals' = [c \in Candidates |-> IF c \in survivors THEN opinion[c].signals ELSE {}]
               /\ coverage' = [coverage EXCEPT !.prefilter = TRUE, !.checked = Cardinality(survivors),
                                               !.rejected = Cardinality(of("rejected")),
                                               !.withoutStats = Cardinality(of("nostats"))]
    BY <1>10, Zenon DEF BesideOf
  <2> DEFINE rejected == {c \in survivors : opinion[c].outcome = "rejected"}
             untold   == {c \in survivors : opinion[c].outcome = "nostats"}
  <2>2. /\ survivors' = survivors \ rejected /\ discarded' = discarded \union rejected
        /\ signals' = [c \in Candidates |-> IF c \in survivors THEN opinion[c].signals ELSE {}]
        /\ coverage' = [coverage EXCEPT !.prefilter = TRUE, !.checked = Cardinality(survivors),
                                        !.rejected = Cardinality(rejected),
                                        !.withoutStats = Cardinality(untold)]
    BY <2>1, Zenon
  <2>3. UNCHANGED warned /\ opinion \in [survivors -> Opinions]
    BY <1>10, <2>1
  <2> QED BY <1>9, <2>2, <2>3, Zenon
<1> QED BY <1>8, <1>10 DEF Prefilter

LEMMA BeginValidationDInv == DInv /\ BeginValidation => DInv'
<1> SUFFICES ASSUME DInv, BeginValidation PROVE DInv'
  OBVIOUS
<1> USE DEF run, timeline, inference, command, BeginValidation
<1>1. TypeOK' /\ CoverageOK' /\ StageInv'
  BY DEF DInv, TypeOK, CoverageOK, StageInv
<1>2. PrefilterInv' /\ DiscardInv' /\ AccountInv'
  BY DEF DInv, PrefilterInv, DiscardInv, AccountInv, cutScore
<1>3. SlotInv'
  BY SlotAssumption DEF DInv, SlotInv
<1>4. ReportInv' /\ InterruptInv'
  BY DEF DInv, ReportInv, InterruptInv, Alive
<1> QED BY <1>1, <1>2, <1>3, <1>4 DEF DInv

LEMMA ValidateOneDInv == ASSUME DInv, NEW d \in Candidates, ValidateOne(d) PROVE DInv'
<1> USE DEF run, timeline, inference, command
<1>1. PICK r \in Resolutions : slot' = [slot EXCEPT ![d] = r]
  BY DEF ValidateOne, Validating!Settle
<1>2. /\ stage = "validation" /\ CanBegin /\ ret = "running" /\ slot[d] = Unset
      /\ UNCHANGED <<options, warned, interruptedAt, stage, joins, survivors, discarded, signals,
                     coverage, ret, printed, exit>>
  BY DEF ValidateOne, Validating!Settle
<1>3. TypeOK' /\ CoverageOK' /\ StageInv'
  BY <1>1, <1>2 DEF DInv, TypeOK, CoverageOK, StageInv
<1>4. PrefilterInv' /\ DiscardInv' /\ AccountInv'
  BY <1>2 DEF DInv, PrefilterInv, DiscardInv, AccountInv, cutScore
<1>5. SlotInv'
  BY <1>1, <1>2, SlotAssumption DEF DInv, SlotInv, TypeOK
<1>6. ReportInv'
  BY <1>2 DEF DInv, ReportInv
<1>7. InterruptInv'
  BY <1>2 DEF DInv, InterruptInv, CanBegin, Alive
<1> QED BY <1>3, <1>4, <1>5, <1>6, <1>7 DEF DInv

LEMMA EndValidationDInv == DInv /\ EndValidation => DInv'
<1> SUFFICES ASSUME DInv, EndValidation PROVE DInv'
  OBVIOUS
<1> DEFINE measured == {c \in Candidates : Measured(c)}
           late     == {c \in Candidates : TimedOut(c)}
<1>1. /\ stage = "validation" /\ Advance(stage) /\ ret = "running" /\ ret' = "ok"
      /\ \A c \in Candidates : slot[c] # Unset
      /\ coverage' = [coverage EXCEPT !.validated = Cardinality(measured), !.timedOut = Cardinality(late)]
      /\ UNCHANGED <<options, warned, interruptedAt, joins, survivors, discarded, signals,
                     slot, printed, exit>>
  BY DEF EndValidation, Validating!Finish, run, inference, command
<1>2. measured' = measured /\ late' = late
  BY <1>1 DEF Measured, TimedOut
<1>3. stage' = "report" /\ "report" \notin options.off
  BY <1>1, Advances, OptionAssumption DEF DInv, TypeOK
<1>4. Cardinality(measured) \in Nat /\ Cardinality(late) \in Nat
  BY CandidateAssumption, FS_Subset, FS_CardinalityType
<1> HIDE DEF measured, late
<1>5. /\ CoverageOK' /\ coverage'.validated = Cardinality(measured)
      /\ coverage'.timedOut = Cardinality(late) /\ coverage'.found = coverage.found
      /\ coverage'.prefilter = coverage.prefilter /\ coverage'.checked = coverage.checked
      /\ coverage'.rejected = coverage.rejected
  BY <1>1, <1>4 DEF DInv, CoverageOK
<1>6. TypeOK' /\ StageInv'
  BY <1>1, <1>3 DEF DInv, TypeOK, StageInv, Early, Late
<1>7. PrefilterInv' /\ DiscardInv' /\ AccountInv'
  BY <1>1, <1>3, <1>5 DEF DInv, PrefilterInv, DiscardInv, AccountInv, cutScore, Late
<1>8. SlotInv' /\ InterruptInv'
  BY <1>1, <1>3 DEF DInv, SlotInv, InterruptInv, Alive
<1>9. ReportInv'
  <2>1. exit' = "none"
    BY <1>1 DEF DInv, TypeOK, ReportInv
  <2>2. coverage'.validated = Cardinality(measured') /\ coverage'.timedOut = Cardinality(late')
    BY <1>2, <1>5
  <2> QED BY <1>1, <2>1, <2>2 DEF ReportInv, measured, late
<1> QED BY <1>5, <1>6, <1>7, <1>8, <1>9 DEF DInv

LEMMA FailValidationDInv == DInv /\ FailValidation => DInv'
<1> SUFFICES ASSUME DInv, FailValidation PROVE DInv'
  OBVIOUS
<1> USE DEF run, inference, command, FailValidation, Abort
<1>1. ~printed /\ exit = "none"
  BY DEF DInv, TypeOK, ReportInv
<1>2. "failed" \notin options.off
  BY OptionAssumption DEF DInv, TypeOK
<1>3. TypeOK' /\ CoverageOK' /\ StageInv'
  BY <1>2 DEF DInv, TypeOK, CoverageOK, StageInv, Early, Late
<1>4. PrefilterInv' /\ DiscardInv' /\ AccountInv'
  BY DEF DInv, PrefilterInv, DiscardInv, AccountInv, cutScore, Late
<1>5. SlotInv' /\ ReportInv' /\ InterruptInv'
  BY <1>1 DEF DInv, SlotInv, ReportInv, InterruptInv, Alive
<1> QED BY <1>3, <1>4, <1>5 DEF DInv

LEMMA ReportDInv == DInv /\ Report => DInv'
<1> SUFFICES ASSUME DInv, Report PROVE DInv'
  OBVIOUS
<1> USE DEF run, timeline, inference, validation, Report
<1>1. TypeOK' /\ CoverageOK' /\ StageInv'
  BY DEF DInv, TypeOK, CoverageOK, StageInv
<1>2. PrefilterInv' /\ DiscardInv' /\ AccountInv'
  BY DEF DInv, PrefilterInv, DiscardInv, AccountInv, cutScore
<1>3. ret = "ok"
  BY DEF DInv, TypeOK, SlotInv
<1>4. SlotInv' /\ InterruptInv'
  BY DEF DInv, SlotInv, InterruptInv, Alive
<1>5. ReportInv'
  BY <1>3 DEF DInv, ReportInv, Measured, TimedOut
<1> QED BY <1>1, <1>2, <1>4, <1>5 DEF DInv

LEMMA ExitDInv == DInv /\ Exit => DInv'
<1> SUFFICES ASSUME DInv, Exit PROVE DInv'
  OBVIOUS
<1> USE DEF run, inference, validation, Exit
<1>1. "over" \notin options.off /\ ExitCode \in {"ok", "failure", "interrupted"}
  BY OptionAssumption DEF DInv, TypeOK, ExitCode
<1>2. TypeOK' /\ CoverageOK' /\ StageInv'
  BY <1>1 DEF DInv, TypeOK, CoverageOK, StageInv, Early, Late
<1>3. PrefilterInv' /\ DiscardInv' /\ AccountInv'
  BY DEF DInv, PrefilterInv, DiscardInv, AccountInv, cutScore, Late
<1>4. SlotInv' /\ InterruptInv'
  BY DEF DInv, SlotInv, InterruptInv, Alive, ExitCode
<1>5. ReportInv'
  BY DEF DInv, ReportInv, Measured, TimedOut
<1> QED BY <1>2, <1>3, <1>4, <1>5 DEF DInv

LEMMA InterruptDInv == DInv /\ Interrupt => DInv'
<1> SUFFICES ASSUME DInv, Interrupt PROVE DInv'
  OBVIOUS
<1> USE DEF timeline, inference, command, Interrupt
<1>1. TypeOK' /\ CoverageOK' /\ StageInv'
  BY DEF DInv, TypeOK, CoverageOK, StageInv
<1>2. PrefilterInv' /\ DiscardInv' /\ AccountInv'
  BY DEF DInv, PrefilterInv, DiscardInv, AccountInv, cutScore
<1>3. SlotInv'
  BY DEF DInv, SlotInv
<1>4. ReportInv'
  BY DEF DInv, ReportInv, Measured, TimedOut
<1>5. exit = "none"
  BY DEF DInv, ReportInv
<1>6. ret \in {"running", "ok"} => stage \in {"validation", "report"}
  BY DEF DInv, SlotInv
<1>7. InterruptInv'
  BY <1>5, <1>6 DEF InterruptInv
<1> QED BY <1>1, <1>2, <1>3, <1>4, <1>7 DEF DInv

LEMMA StepDInv == DInv /\ [Next]_vars => DInv'
<1> SUFFICES ASSUME DInv, [Next]_vars PROVE DInv'
  OBVIOUS
<1>1. CASE ReadCatalog
  BY <1>1, ReadCatalogDInv
<1>2. CASE DetectNaming
  BY <1>2, DetectNamingDInv
<1>3. CASE Probe
  BY <1>3, ProbeDInv
<1>4. CASE Generate
  BY <1>4, GenerateDInv
<1>5. CASE Prefilter
  BY <1>5, PrefilterDInv
<1>6. CASE BeginValidation
  BY <1>6, BeginValidationDInv
<1>7. CASE \E c \in Candidates : ValidateOne(c)
  BY <1>7, ValidateOneDInv
<1>8. CASE EndValidation
  BY <1>8, EndValidationDInv
<1>9. CASE FailValidation
  BY <1>9, FailValidationDInv
<1>10. CASE Report
  BY <1>10, ReportDInv
<1>11. CASE Exit
  BY <1>11, ExitDInv
<1>12. CASE Interrupt
  BY <1>12, InterruptDInv
<1>13. CASE UNCHANGED vars
  <2> USE <1>13 DEF vars
  <2>1. TypeOK' /\ CoverageOK' /\ StageInv'
    BY DEF DInv, TypeOK, CoverageOK, StageInv
  <2>2. PrefilterInv' /\ DiscardInv' /\ AccountInv'
    BY DEF DInv, PrefilterInv, DiscardInv, AccountInv, cutScore
  <2>3. SlotInv' /\ InterruptInv'
    BY DEF DInv, SlotInv, InterruptInv, Alive
  <2>4. ReportInv'
    BY DEF DInv, ReportInv, Measured, TimedOut
  <2> QED BY <2>1, <2>2, <2>3, <2>4 DEF DInv
<1> QED
  BY <1>1, <1>2, <1>3, <1>4, <1>5, <1>6, <1>7, <1>8, <1>9, <1>10, <1>11, <1>12, <1>13 DEF Next, Step

------------------------------------------------------------------------------
(* The inductive invariant holds of every run of the pipeline.              *)
THEOREM PipelineInductive == Spec => []DInv
<1>1. Init => DInv
  BY InitDInv
<1>2. DInv /\ [Next]_vars => DInv'
  BY StepDInv
<1> QED BY <1>1, <1>2, PTL DEF Spec

(* Every variable keeps to its type.                                        *)
THEOREM PipelineTypeCorrect == Spec => []TypeOK
<1>1. DInv => TypeOK
  BY DEF DInv
<1> QED BY <1>1, PipelineInductive, PTL

------------------------------------------------------------------------------
(* What was found without evidence: nothing is joined before the probe, or  *)
(* when it failed or was off, and nothing in a query log that was not read. *)
Unread == {"catalog", "naming detection", "usage evidence"}
Found  == survivors \union discarded

EvidenceInv ==
    /\ stage \in Unread => "usage evidence" \notin warned
    /\ stage \in Unread \/ "usage evidence" \in warned \union options.off =>
          \A c \in Candidates : joins[c] = {}
    /\ ~coverage.statements => \A c \in Candidates : "statements" \notin joins[c]
    /\ "usage evidence" \in warned \union options.off => Found \subseteq Named
    /\ ~coverage.statements =>
          \A c \in Found : c \in Named \/ joins[c] \intersect {"view", "function"} # {}

LEMMA EvidenceFrame ==
    ASSUME EvidenceInv, joins' = joins, options' = options, coverage'.statements = coverage.statements,
           "usage evidence" \in warned' <=> "usage evidence" \in warned,
           Found' \subseteq Found, stage' \in Unread => stage \in Unread
    PROVE  EvidenceInv'
BY DEF EvidenceInv

LEMMA ProbeEvidence == DInv /\ EvidenceInv /\ Probe => EvidenceInv'
<1> SUFFICES ASSUME DInv, EvidenceInv, Probe PROVE EvidenceInv'
  OBVIOUS
<1>1. /\ stage = "usage evidence" /\ options' = options /\ Found = {} /\ Found' = {}
      /\ "usage evidence" \notin warned \union options.off
      /\ \A c \in Candidates : joins[c] = {}
  BY DEF Probe, DInv, StageInv, EvidenceInv, Unread, Early, Found
<1>2. stage' = "candidate generation"
  <2> DEFINE left == StagesLeft(stage)
  <2>1. options \in OptionSets /\ stage = Stages[3]
    BY <1>1, StagesAre DEF DInv, TypeOK
  <2>2. \A i : i \in left <=> i \in 1..6 /\ 3 < i /\ Stages[i] \notin options.off
    BY <2>1, StagesLeftAfter
  <2>3. stage' = IF left = {} THEN "report" ELSE Stages[Min(left)]
    BY DEF Probe, Advance
  <2> HIDE DEF left
  <2>4. 4 \in left
    <3>1. "candidate generation" \notin options.off
      BY <2>1, OptionAssumption
    <3>2. Stages[4] = "candidate generation"
      BY StagesAre, Zenon
    <3>3. 4 \in left <=> 4 \in 1..6 /\ 3 < 4 /\ Stages[4] \notin options.off
      BY <2>2, Zenon
    <3>4. 4 \in 1..6 /\ 3 < 4
      OBVIOUS
    <3> QED BY <3>1, <3>2, <3>3, <3>4, Zenon
  <2>5. left \subseteq 1..6
    BY <2>2
  <2>6. Min(left) \in left /\ Min(left) =< 4
    BY <2>4, <2>5, FirstStage
  <2>7. Min(left) = 4
    BY <2>2, <2>6
  <2> QED BY <2>3, <2>4, <2>7, StagesAre
<1>3. ASSUME NEW available \in BOOLEAN, warned' = warned, coverage' = [coverage EXCEPT !.statements = available],
             joins' = [c \in Candidates |-> JoinedIn[c] \ (IF available THEN {} ELSE {"statements"})]
      PROVE  EvidenceInv'
  <2>1. coverage'.statements = available
    BY <1>3 DEF DInv, CoverageOK
  <2>2. ~available => \A c \in Candidates : "statements" \notin joins'[c]
    BY <1>3
  <2> QED BY <1>1, <1>2, <1>3, <2>1, <2>2 DEF EvidenceInv, Unread
<1>4. CASE joins' = joins /\ coverage' = coverage
  BY <1>1, <1>2, <1>4 DEF EvidenceInv, Unread
<1> QED BY <1>3, <1>4 DEF Probe

LEMMA GenerateEvidence == DInv /\ EvidenceInv /\ Generate => EvidenceInv'
<1> SUFFICES ASSUME DInv, EvidenceInv, Generate PROVE EvidenceInv'
  OBVIOUS
<1> DEFINE generated == Named \union {c \in Candidates : joins[c] # {}}
<1>1. /\ stage = "candidate generation" /\ Advance(stage) /\ joins' = joins
      /\ options' = options /\ warned' = warned
  BY DEF Generate, run
<1>2. Found' = generated
  <2> DEFINE above == {c \in generated : cutScore(c, joins[c]) >= MinScore}
  <2>1. survivors' = above /\ discarded' = generated \ above
    BY DEF Generate
  <2> QED BY <2>1 DEF Found
<1>3. coverage'.statements = coverage.statements
  BY DEF Generate, DInv, CoverageOK
<1>4. stage' \notin Unread
  BY <1>1, Advances DEF DInv, TypeOK, Unread
<1>5. \A c \in Candidates : joins[c] \subseteq JoinKinds
  BY DEF DInv, TypeOK
<1>6. "usage evidence" \in warned \union options.off => Found' \subseteq Named
  BY <1>2 DEF EvidenceInv
<1>7. ~coverage.statements => \A c \in Found' : c \in Named \/ joins[c] \intersect {"view", "function"} # {}
  BY <1>2, <1>5 DEF EvidenceInv, JoinKinds
<1> QED BY <1>1, <1>3, <1>4, <1>6, <1>7 DEF EvidenceInv

LEMMA EvidenceSteps == DInv /\ EvidenceInv /\ [Next]_vars => EvidenceInv'
<1> SUFFICES ASSUME DInv, EvidenceInv, [Next]_vars PROVE EvidenceInv'
  OBVIOUS
<1>1. CASE ReadCatalog \/ DetectNaming
  <2>1. stage \in Unread /\ joins' = joins /\ options' = options /\ warned' = warned /\ coverage' = coverage
        /\ Found' = Found
    BY <1>1 DEF ReadCatalog, DetectNaming, run, inference, Unread, Found
  <2> QED BY <2>1, EvidenceFrame
<1>2. CASE Probe
  BY <1>2, ProbeEvidence
<1>3. CASE Generate
  BY <1>3, GenerateEvidence
<1>4. CASE Prefilter
  <2>1. /\ stage = "statistical prefilter" /\ Advance(stage) /\ joins' = joins /\ options' = options
        /\ warned' \in {warned, warned \union {"statistical prefilter"}}
    BY <1>4 DEF Prefilter
  <2>2. stage' = "validation"
    BY <2>1, Advances DEF DInv, TypeOK
  <2>3. Found' \subseteq Found
    BY <1>4 DEF Prefilter, NoOpinion, BesideOf, Found
  <2>4. coverage'.statements = coverage.statements
    BY <1>4 DEF Prefilter, NoOpinion, DInv, CoverageOK
  <2> QED BY <2>1, <2>2, <2>3, <2>4, EvidenceFrame DEF Unread
<1>5. CASE BeginValidation \/ (\E c \in Candidates : ValidateOne(c)) \/ Report \/ Interrupt
  BY <1>5, EvidenceFrame DEF BeginValidation, ValidateOne, Report, Interrupt, run, timeline, inference, Found
<1>6. CASE EndValidation
  <2>1. stage' = "report" /\ joins' = joins /\ options' = options /\ warned' = warned /\ Found' = Found
    BY <1>6, Advances DEF EndValidation, run, inference, Found, DInv, TypeOK
  <2>2. coverage'.statements = coverage.statements
    BY <1>6 DEF EndValidation, DInv, CoverageOK
  <2> QED BY <2>1, <2>2, EvidenceFrame DEF Unread
<1>7. CASE FailValidation \/ Exit
  BY <1>7, EvidenceFrame DEF FailValidation, Exit, Abort, run, inference, Found, Unread
<1>8. CASE UNCHANGED vars
  BY <1>8, EvidenceFrame DEF vars, Found
<1> QED BY <1>1, <1>2, <1>3, <1>4, <1>5, <1>6, <1>7, <1>8 DEF Next, Step

(* stats.Prefilter that failed or was off has no opinion: no signal, no     *)
(* check claimed, and nothing discarded but what the threshold discarded.   *)
(* sqlprobe.Probe that failed or was off raises nothing, and a query log    *)
(* that could not be read speaks for no candidate.                          *)
THEOREM NoReadingNoOpinion == Spec => []NoOpinionWithoutReading
<1>1. Init => EvidenceInv
  BY DEF Init, EvidenceInv, Found
<1>2. DInv /\ EvidenceInv => NoOpinionWithoutReading
  BY DEF DInv, PrefilterInv, EvidenceInv, Found, NoOpinionWithoutReading
<1> QED BY <1>1, <1>2, EvidenceSteps, PipelineInductive, PTL DEF Spec

(* A pair leaves the list for weak evidence or a cardinality violation, and *)
(* never for a generic name or a range.                                     *)
THEOREM DiscardsHaveAReason == Spec => []DiscardNeedsAReason
<1>1. DInv => DiscardNeedsAReason
  <2> SUFFICES ASSUME DInv, NEW c \in discarded, cutScore(c, joins[c]) < MinScore
               PROVE  Base[c] + TotalWeight(joins[c]) < MinScore
    BY DEF DInv, DiscardInv, DiscardNeedsAReason
  <2>1. Base[c] \in Int /\ MinScore \in 0..100
    BY CandidateAssumption DEF DInv, TypeOK
  <2> QED BY <2>1 DEF cutScore, saturate, TotalWeight
<1> QED BY <1>1, PipelineInductive, PTL

(* Whatever an interrupted run prints, it exits as interrupted; one that    *)
(* the signal found before validation prints no candidate.                  *)
THEOREM InterruptedIsInterrupted == Spec => []InterruptionNeverPassesAsSuccess
<1>1. DInv => InterruptionNeverPassesAsSuccess
  <2> SUFFICES ASSUME DInv, ~Alive
               PROVE  /\ exit \in {"none", "interrupted"}
                      /\ printed /\ interruptedAt \notin {"validation", "report"} => survivors = {}
    BY DEF InterruptionNeverPassesAsSuccess
  <2>1. exit \in {"none", "interrupted"}
    BY DEF DInv, InterruptInv
  <2>2. ASSUME printed, interruptedAt \notin {"validation", "report"} PROVE survivors = {}
    <3>1. ret = "ok" /\ \A c \in Candidates : slot[c] # Unset
      BY <2>2 DEF DInv, ReportInv
    <3>2. \A c \in Candidates : slot[c] = Absent
      BY <2>2, <3>1 DEF DInv, InterruptInv, Alive
    <3> QED BY <3>1, <3>2 DEF DInv, SlotInv, TypeOK
  <2> QED BY <2>1, <2>2
<1> QED BY <1>1, PipelineInductive, PTL

LEMMA ResolutionsAre ==
    \A r \in Resolutions : r.verdict \in {"confirmed", "broken", "weak", "rejected", "unvalidated"}
BY DEF Resolutions

(* The account of a printed report closes: every candidate generation found *)
(* is measured, timed out, refused or discarded, is in one group of the     *)
(* closing line or rejected by the data, and in no two of them.             *)
THEOREM AccountCloses == Spec => []EveryCandidateAccounted
<1>1. DInv => EveryCandidateAccounted
  <2> DEFINE measured == {c \in Candidates : Measured(c)}
             late     == {c \in Candidates : TimedOut(c)}
             refused  == {c \in survivors : slot[c] \notin {Unset, Absent} /\ ~Measured(c) /\ ~TimedOut(c)}
             broken   == ByVerdict("broken")
             confirmed == ByVerdict("confirmed")
             weak     == ByVerdict("weak")
             unknown  == ByVerdict("unvalidated")
             rejected == ByVerdict("rejected")
  <2> SUFFICES ASSUME DInv, printed
               PROVE  /\ survivors \intersect discarded = {}
                      /\ coverage.found = Cardinality(survivors) + Cardinality(discarded)
                      /\ coverage.prefilter => coverage.checked = Cardinality(survivors) + coverage.rejected
                      /\ coverage.validated + coverage.timedOut + Cardinality(refused) = Cardinality(survivors)
                      /\ Cardinality(broken) + Cardinality(confirmed) + Cardinality(weak)
                           + Cardinality(unknown) + Cardinality(discarded)
                           + Cardinality(rejected) = coverage.found
    BY DEF EveryCandidateAccounted, Tally
  <2>1. /\ ret = "ok" /\ \A c \in Candidates : slot[c] # Unset
        /\ coverage.validated = Cardinality(measured) /\ coverage.timedOut = Cardinality(late)
    BY DEF DInv, ReportInv
  <2>2. survivors \subseteq Candidates /\ discarded \subseteq Candidates
    BY DEF DInv, TypeOK
  <2>3. \A c \in Candidates : c \in survivors <=> slot[c] \notin {Unset, Absent}
    BY <2>1 DEF DInv, SlotInv
  <2>4. \A c \in survivors : slot[c].verdict \in {"confirmed", "broken", "weak", "rejected", "unvalidated"}
    BY <2>2, <2>3, ResolutionsAre DEF DInv, TypeOK
  <2>5. /\ survivors = (measured \union late) \union refused
        /\ measured \intersect late = {} /\ (measured \union late) \intersect refused = {}
    BY <2>2, <2>3 DEF Measured, TimedOut
  <2>6. /\ survivors = (((broken \union confirmed) \union weak) \union unknown) \union rejected
        /\ broken \intersect confirmed = {} /\ (broken \union confirmed) \intersect weak = {}
        /\ ((broken \union confirmed) \union weak) \intersect unknown = {}
        /\ (((broken \union confirmed) \union weak) \union unknown) \intersect rejected = {}
    BY <2>2, <2>3, <2>4 DEF ByVerdict
  <2> HIDE DEF measured, late, refused, broken, confirmed, weak, unknown, rejected
  <2>7. IsFiniteSet(survivors) /\ IsFiniteSet(discarded)
    BY <2>2, CandidateAssumption, FS_Subset
  <2>8. /\ IsFiniteSet(measured) /\ IsFiniteSet(late) /\ IsFiniteSet(refused)
        /\ IsFiniteSet(broken) /\ IsFiniteSet(confirmed) /\ IsFiniteSet(weak)
        /\ IsFiniteSet(unknown) /\ IsFiniteSet(rejected)
    BY <2>5, <2>6, <2>7, FS_Subset
  <2>9. /\ Cardinality(measured) \in Nat /\ Cardinality(late) \in Nat /\ Cardinality(refused) \in Nat
        /\ Cardinality(broken) \in Nat /\ Cardinality(confirmed) \in Nat /\ Cardinality(weak) \in Nat
        /\ Cardinality(unknown) \in Nat /\ Cardinality(rejected) \in Nat
        /\ Cardinality(survivors) \in Nat /\ Cardinality(discarded) \in Nat
    BY <2>7, <2>8, FS_CardinalityType
  <2>10. Cardinality(survivors) = Cardinality(measured) + Cardinality(late) + Cardinality(refused)
    <3>1. /\ IsFiniteSet(measured \union late)
          /\ Cardinality(measured \union late) = Cardinality(measured) + Cardinality(late)
      BY <2>5, <2>8, DisjointUnion
    <3> QED BY <2>5, <2>8, <3>1, DisjointUnion
  <2>11. Cardinality(survivors) = Cardinality(broken) + Cardinality(confirmed) + Cardinality(weak)
                                    + Cardinality(unknown) + Cardinality(rejected)
    <3>1. /\ IsFiniteSet(broken \union confirmed)
          /\ Cardinality(broken \union confirmed) = Cardinality(broken) + Cardinality(confirmed)
      BY <2>6, <2>8, DisjointUnion
    <3>2. /\ IsFiniteSet((broken \union confirmed) \union weak)
          /\ Cardinality((broken \union confirmed) \union weak) =
                Cardinality(broken \union confirmed) + Cardinality(weak)
      BY <2>6, <2>8, <3>1, DisjointUnion
    <3>3. /\ IsFiniteSet(((broken \union confirmed) \union weak) \union unknown)
          /\ Cardinality(((broken \union confirmed) \union weak) \union unknown) =
                Cardinality((broken \union confirmed) \union weak) + Cardinality(unknown)
      BY <2>6, <2>8, <3>2, DisjointUnion
    <3>4. Cardinality(survivors) =
            Cardinality(((broken \union confirmed) \union weak) \union unknown) + Cardinality(rejected)
      BY <2>6, <2>8, <3>3, DisjointUnion
    <3> QED BY <2>9, <3>1, <3>2, <3>3, <3>4
  <2>12. /\ survivors \intersect discarded = {}
         /\ coverage.found = Cardinality(survivors) + Cardinality(discarded)
         /\ coverage.prefilter => coverage.checked = Cardinality(survivors) + coverage.rejected
    BY DEF DInv, AccountInv
  <2> QED BY <2>1, <2>9, <2>10, <2>11, <2>12
<1> QED BY <1>1, PipelineInductive, PTL

------------------------------------------------------------------------------
(* The stages that are on, by their recursion.                              *)

Then(q, n, off)   == IF Stages[n] \in off THEN q ELSE Append(q, Stages[n])
Lists(on, off, D) == on = [n \in D |-> IF n = 0 THEN <<>> ELSE Then(on[n - 1], n, off)]

LEMMA ListsExist ==
    ASSUME NEW off
    PROVE  \A m \in Nat : \E on : Lists(on, off, 0..m)
<1> DEFINE Bad == {m \in Nat : ~ \E on : Lists(on, off, 0..m)}
<1>1. \A m \in Bad : m # 0
  <2>1. Lists([n \in 0..0 |-> <<>>], off, 0..0)
    BY DEF Lists
  <2> QED BY <2>1
<1>2. \A m \in Bad : \E k \in Bad : k < m
  <2> SUFFICES ASSUME NEW m \in Bad, m - 1 \notin Bad PROVE FALSE
    BY <1>1
  <2>1. m \in Nat /\ m # 0
    BY <1>1
  <2>2. PICK on : Lists(on, off, 0..(m - 1))
    BY <2>1
  <2> DEFINE more == [n \in 0..m |-> IF n = 0 THEN <<>> ELSE Then(on[n - 1], n, off)]
  <2>3. \A n \in 0..(m - 1) : more[n] = on[n]
    BY <2>1, <2>2 DEF Lists
  <2>4. \A n \in 0..m : n # 0 => Then(more[n - 1], n, off) = Then(on[n - 1], n, off)
    <3> SUFFICES ASSUME NEW n \in 0..m, n # 0 PROVE more[n - 1] = on[n - 1]
      OBVIOUS
    <3>1. n - 1 \in 0..(m - 1)
      BY <2>1
    <3> HIDE DEF more
    <3> QED BY <2>3, <3>1
  <2>5. more = [n \in 0..m |-> IF n = 0 THEN <<>> ELSE Then(more[n - 1], n, off)]
    BY <2>4
  <2> QED BY <2>5 DEF Lists
<1>3. Bad = {}
  <2>1. Bad \in SUBSET Nat
    OBVIOUS
  <2> HIDE DEF Bad
  <2> QED BY <1>1, <1>2, <2>1, SizeInduction
<1> QED BY <1>3

LEMMA StagesOnIs ==
    ASSUME NEW off
    PROVE  /\ StagesOn(off)[0] = <<>>
           /\ \A n \in 1..6 : StagesOn(off)[n] = Then(StagesOn(off)[n - 1], n, off)
<1>1. Len(Stages) = 6
  BY DEF Stages
<1>2. StagesOn(off) = CHOOSE on : Lists(on, off, 0..Len(Stages))
  BY Zenon DEF StagesOn, Lists, Then
<1>3. \E on : Lists(on, off, 0..6)
  BY ListsExist
<1>4. Lists(StagesOn(off), off, 0..6)
  BY <1>1, <1>2, <1>3
<1> DEFINE on == StagesOn(off)
<1> HIDE DEF on
<1>5. Lists(on, off, 0..6)
  BY <1>4 DEF on
<1>6. on[0] = <<>> /\ \A n \in 1..6 : on[n] = Then(on[n - 1], n, off)
  BY <1>5 DEF Lists
<1> QED BY <1>6 DEF on

Names == ToSet(Stages)

LEMMA ThenNames ==
    ASSUME NEW off, NEW n \in 1..6
    PROVE  \A q \in Seq(Names) : Then(q, n, off) \in Seq(Names)
<1>1. Stages[n] \in Names
  BY StagesAre DEF Names, ToSet
<1> QED BY <1>1 DEF Then

LEMMA StagesOnAreNames ==
    ASSUME NEW off
    PROVE  \A n \in 0..6 : StagesOn(off)[n] \in Seq(Names)
<1> DEFINE on == StagesOn(off)
<1>0. \A q \in Seq(Names), n \in 1..6 : Then(q, n, off) \in Seq(Names)
  BY ThenNames
<1>1. on[0] = <<>> /\ \A n \in 1..6 : on[n] = Then(on[n - 1], n, off)
  BY StagesOnIs
<1> HIDE DEF on
<1> DEFINE Bad == {n \in Nat : n =< 6 /\ on[n] \notin Seq(Names)}
<1>2. \A n \in Bad : n # 0
  <2>1. on[0] \in Seq(Names)
    BY <1>1
  <2> HIDE <1>1
  <2> QED BY <2>1
<1>3. \A n \in Bad : \E m \in Bad : m < n
  <2> SUFFICES ASSUME NEW n \in Bad PROVE n - 1 \in Bad
    OBVIOUS
  <2>1. n \in 1..6
    BY <1>2
  <2>2. on[n] = Then(on[n - 1], n, off)
    BY <1>1, <2>1
  <2> QED BY <1>0, <2>1, <2>2
<1>4. Bad \in SUBSET Nat
  OBVIOUS
<1>5. Bad = {}
  <2> HIDE DEF Bad
  <2> QED BY <1>3, <1>4, LeastNatural
<1> QED BY <1>5 DEF on

(* Stages that are off leave nothing.                                       *)
LEMMA NothingBetween ==
    ASSUME NEW off, NEW k \in 0..6, NEW m \in k..6,
           \A i \in (k + 1)..m : Stages[i] \in off
    PROVE  StagesOn(off)[m] = StagesOn(off)[k]
<1> DEFINE Bad == {n \in Nat : n >= k /\ n =< m /\ StagesOn(off)[n] # StagesOn(off)[k]}
<1>1. \A n \in Bad : \E l \in Bad : l < n
  <2> SUFFICES ASSUME NEW n \in Bad PROVE n - 1 \in Bad
    OBVIOUS
  <2>1. n # k /\ n \in 1..6 /\ n \in (k + 1)..m
    OBVIOUS
  <2>2. StagesOn(off)[n] = StagesOn(off)[n - 1]
    BY <2>1, StagesOnIs DEF Then
  <2> QED BY <2>1, <2>2
<1>2. Bad \in SUBSET Nat
  OBVIOUS
<1>3. Bad = {}
  <2> HIDE DEF Bad
  <2> QED BY <1>1, <1>2, LeastNatural
<1> QED BY <1>3

LEMMA PrefixSteps ==
    ASSUME NEW S, NEW s \in Seq(S), NEW t \in Seq(S), NEW x \in S, IsPrefix(s, t)
    PROVE  IsPrefix(s, Append(t, x))
<1>1. Len(s) <= Len(t) /\ SubSeq(s, 1, Len(s)) = SubSeq(t, 1, Len(s))
  BY DEF IsPrefix
<1>2. SubSeq(Append(t, x), 1, Len(s)) = SubSeq(t, 1, Len(s))
  BY <1>1
<1> QED BY <1>1, <1>2 DEF IsPrefix

LEMMA EarlierIsPrefix ==
    ASSUME NEW off, NEW k \in 0..6, NEW m \in k..6
    PROVE  IsPrefix(StagesOn(off)[k], StagesOn(off)[m])
<1> DEFINE on == StagesOn(off)
           Bad == {n \in Nat : n >= k /\ n =< m /\ ~ IsPrefix(on[k], on[n])}
<1>1. \A n \in Bad : \E l \in Bad : l < n
  <2> SUFFICES ASSUME NEW n \in Bad PROVE n - 1 \in Bad
    OBVIOUS
  <2>1. n # k
    <3>1. IsPrefix(on[k], on[k])
      BY StagesOnAreNames DEF IsPrefix
    <3> QED BY <3>1
  <2>2. n \in 1..6 /\ n - 1 \in 0..6
    BY <2>1
  <2>3. on[n] \in {on[n - 1], Append(on[n - 1], Stages[n])} /\ Stages[n] \in Names
    <3>1. n \in DOMAIN Stages
      BY <2>2, StagesAre
    <3>2. Stages[n] \in Names
      BY <3>1 DEF Names, ToSet
    <3>3. on[n] = Then(on[n - 1], n, off)
      BY <2>2, StagesOnIs
    <3> QED BY <3>2, <3>3, Zenon DEF Then
  <2>4. on[n - 1] \in Seq(Names) /\ on[k] \in Seq(Names)
    BY <2>2, StagesOnAreNames
  <2> HIDE DEF on
  <2>5. ~ IsPrefix(on[k], on[n - 1])
    BY <2>3, <2>4, PrefixSteps
  <2> QED BY <2>1, <2>2, <2>5
<1>2. Bad \in SUBSET Nat
  OBVIOUS
<1>3. Bad = {}
  <2> HIDE DEF Bad
  <2> QED BY <1>1, <1>2, LeastNatural
<1> QED BY <1>3

------------------------------------------------------------------------------
(* Where the timeline stands: stage k announced and the ones before it      *)
(* timed, or all of them timed.                                             *)
InStage(k) ==
    /\ stage \in {Stages[k], "failed", "over"} /\ ~ printed
    /\ Stages[k] \notin options.off
    /\ begun = StagesOn(options.off)[k] /\ timings = StagesOn(options.off)[k - 1]

AllTimed ==
    /\ stage \in {"report", "over"}
    /\ begun = StagesOn(options.off)[6] /\ timings = StagesOn(options.off)[6]

TimeInv == (\E k \in 1..6 : InStage(k)) \/ AllTimed

WarnedInv == warned \subseteq ToSet(timings)

LEMMA InitTime == Init => TimeInv /\ WarnedInv
<1> SUFFICES ASSUME Init PROVE InStage(1) /\ WarnedInv
  BY DEF TimeInv
<1>1. "catalog" \notin options.off
  BY OptionAssumption DEF Init
<1>2. StagesOn(options.off)[0] = <<>>
  BY StagesOnIs
<1>3. StagesOn(options.off)[1] = Append(<<>>, "catalog")
  <2>1. StagesOn(options.off)[1] = Then(StagesOn(options.off)[0], 1, options.off)
    BY StagesOnIs
  <2> QED BY <1>1, <1>2, <2>1, StagesAre DEF Then
<1>4. Append(<<>>, "catalog") = <<"catalog">>
  OBVIOUS
<1>5. InStage(1)
  <2>1. /\ stage = Stages[1] /\ Stages[1] \notin options.off /\ ~ printed
        /\ begun = StagesOn(options.off)[1] /\ timings = StagesOn(options.off)[0]
    BY <1>1, <1>2, <1>3, <1>4, StagesAre DEF Init
  <2> QED BY <2>1 DEF InStage
<1> QED BY <1>5 DEF Init, WarnedInv

(* Closing stage k opens the next one that is on.                           *)
LEMMA AdvanceTime ==
    ASSUME NEW k \in 1..6, InStage(k), stage = Stages[k], Advance(stage), UNCHANGED <<options, printed>>
    PROVE  TimeInv' /\ timings' = Append(timings, stage)
<1> DEFINE left == StagesLeft(stage)
           on   == StagesOn(options.off)
<1>1. \A i : i \in left <=> i \in 1..6 /\ k < i /\ Stages[i] \notin options.off
  BY StagesLeftAfter
<1>2. on[k] = Append(on[k - 1], Stages[k])
  BY StagesOnIs DEF InStage, Then
<1>3. /\ timings' = on[k]
      /\ stage' = IF left = {} THEN "report" ELSE Stages[Min(left)]
      /\ begun' = IF left = {} THEN begun ELSE Append(begun, Stages[Min(left)])
  BY <1>2 DEF Advance, InStage
<1>4. begun = on[k] /\ printed' = printed /\ ~ printed /\ options' = options
  BY DEF InStage
<1> HIDE DEF left
<1>5. CASE left = {}
  <2>1. \A i \in (k + 1)..6 : Stages[i] \in options.off
    BY <1>1, <1>5
  <2>2. on[6] = on[k]
    BY <2>1, NothingBetween
  <2>3. AllTimed'
    BY <1>3, <1>4, <1>5, <2>2 DEF AllTimed
  <2> QED BY <1>3, <2>3 DEF TimeInv, Advance
<1>6. CASE left # {}
  <2>1. left \in SUBSET (1..6)
    BY <1>1
  <2>2. Min(left) \in left /\ \A i \in left : Min(left) =< i
    BY <1>6, <2>1, FirstStage
  <2>0. PICK m \in 1..6 : m = Min(left)
    BY <2>1, <2>2
  <2>3. m \in 1..6 /\ k < m /\ Stages[m] \notin options.off
    BY <1>1, <2>0, <2>2
  <2>4. \A i \in (k + 1)..(m - 1) : Stages[i] \in options.off
    <3> SUFFICES ASSUME NEW i \in (k + 1)..(m - 1), Stages[i] \notin options.off PROVE FALSE
      OBVIOUS
    <3>1. i \in left
      BY <1>1, <2>3
    <3>2. m =< i
      BY <2>0, <2>2, <3>1
    <3> QED BY <2>3, <3>2
  <2>5. on[m - 1] = on[k]
    <3>1. k \in 0..6 /\ m - 1 \in k..6
      BY <2>3
    <3> HIDE DEF on
    <3> QED BY <2>4, <3>1, NothingBetween DEF on
  <2>6. on[m] = Append(on[m - 1], Stages[m])
    BY <2>3, StagesOnIs DEF Then
  <2>7. InStage(m)'
    BY <1>3, <1>4, <1>6, <2>0, <2>3, <2>5, <2>6 DEF InStage
  <2> QED BY <2>3, <2>7 DEF TimeInv, Advance
<1> QED BY <1>5, <1>6

LEMMA NextTime ==
    ASSUME DInv, TimeInv, WarnedInv, [Next]_vars
    PROVE  TimeInv' /\ WarnedInv'
<1> USE DEF run, inference, validation, command, timeline
<1>0. ASSUME UNCHANGED <<options, stage, begun, timings, warned, printed>> PROVE TimeInv' /\ WarnedInv'
  BY <1>0 DEF TimeInv, WarnedInv, InStage, AllTimed
<1>1. ASSUME Advance(stage), stage \in ToSet(Stages), UNCHANGED <<options, printed>>,
             warned' \subseteq warned \union {stage}
      PROVE  TimeInv' /\ WarnedInv'
  <2>1. stage \notin {"failed", "over", "report"}
    BY <1>1, StageNamed DEF Early
  <2>2. PICK k \in 1..6 : InStage(k) /\ stage = Stages[k]
    BY <2>1 DEF TimeInv, InStage, AllTimed
  <2>3. TimeInv' /\ timings' = Append(timings, stage)
    BY <1>1, <2>2, AdvanceTime
  <2>4. timings \in Seq(Names)
    BY <2>2, StagesOnAreNames DEF InStage
  <2>5. ToSet(Append(timings, stage)) = ToSet(timings) \union {stage}
    BY <1>1, <2>4 DEF ToSet, Names
  <2> QED BY <1>1, <2>3, <2>5 DEF WarnedInv
<1>2. ASSUME Abort, stage \in ToSet(Stages), UNCHANGED <<options, printed, warned>>
      PROVE  TimeInv' /\ WarnedInv'
  <2>1. stage \notin {"failed", "over", "report"}
    BY <1>2, StageNamed DEF Early
  <2>2. PICK k \in 1..6 : InStage(k) /\ stage = Stages[k]
    BY <2>1 DEF TimeInv, InStage, AllTimed
  <2>3. InStage(k)'
    BY <1>2, <2>2 DEF InStage, Abort
  <2> QED BY <1>2, <2>3 DEF WarnedInv, TimeInv, Abort
<1>3. CASE ReadCatalog
  <2>1. stage \in ToSet(Stages) /\ UNCHANGED <<options, printed, warned>>
    BY <1>3, StageNamed DEF ReadCatalog, Early
  <2>2. Advance(stage) \/ Abort
    BY <1>3 DEF ReadCatalog
  <2> QED BY <1>1, <1>2, <2>1, <2>2
<1>4. CASE DetectNaming \/ Generate
  <2>1. stage \in ToSet(Stages) /\ UNCHANGED <<options, printed, warned>> /\ Advance(stage)
    BY <1>4, StageNamed DEF DetectNaming, Generate, Early
  <2> QED BY <1>1, <2>1
<1>5. CASE Probe \/ Prefilter
  <2>1. /\ stage \in ToSet(Stages) /\ UNCHANGED <<options, printed>> /\ Advance(stage)
        /\ warned' \subseteq warned \union {stage}
    BY <1>5, StageNamed DEF Probe, Prefilter, Early
  <2> QED BY <1>1, <2>1
<1>6. CASE BeginValidation \/ (\E c \in Candidates : ValidateOne(c))
  BY <1>0, <1>6 DEF BeginValidation, ValidateOne
<1>7. CASE EndValidation
  <2>1. stage \in ToSet(Stages) /\ UNCHANGED <<options, printed, warned>> /\ Advance(stage)
    BY <1>7, StageNamed DEF EndValidation, Early
  <2> QED BY <1>1, <2>1
<1>8. CASE FailValidation
  <2>1. stage \in ToSet(Stages) /\ UNCHANGED <<options, printed, warned>> /\ Abort
    BY <1>8, StageNamed DEF FailValidation, Early
  <2> QED BY <1>2, <2>1
<1>9. CASE Report
  <2>1. stage = "report" /\ UNCHANGED <<options, stage, begun, timings, warned>>
    BY <1>9 DEF Report
  <2>2. stage \notin {"failed", "over"} /\ \A k \in 1..6 : stage # Stages[k]
    <3>1. \A k \in 1..6 : Stages[k] \in ToSet(Stages)
      BY StagesAre DEF ToSet
    <3> QED BY <2>1, <3>1, StageNamed DEF Early
  <2> QED BY <2>1, <2>2 DEF TimeInv, WarnedInv, InStage, AllTimed
<1>10. CASE Exit
  BY <1>10 DEF Exit, TimeInv, WarnedInv, InStage, AllTimed
<1>11. CASE Interrupt
  BY <1>0, <1>11 DEF Interrupt
<1>12. CASE UNCHANGED vars
  BY <1>0, <1>12 DEF vars
<1> QED
  BY <1>3, <1>4, <1>5, <1>6, <1>7, <1>8, <1>9, <1>10, <1>11, <1>12 DEF Next, Step

(* discover.Run and model.Result.Stages: whatever is off, whatever fails    *)
(* and whenever the signal comes, the stages timed are the stages announced *)
(* so far, in their order and without a gap, all of them in a report; and a *)
(* warning is of one of them.                                               *)
THEOREM TheTimelineIsTrue == Spec => []StagesInOrder
<1>1. DInv /\ TimeInv /\ WarnedInv => StagesInOrder
  <2> SUFFICES ASSUME DInv, TimeInv, WarnedInv PROVE StagesInOrder
    OBVIOUS
  <2>1. Len(Stages) = 6
    BY DEF Stages
  <2>2. CASE AllTimed
    <3>1. IsPrefix(StagesOn(options.off)[6], StagesOn(options.off)[6])
      BY EarlierIsPrefix
    <3> QED BY <2>1, <2>2, <3>1 DEF StagesInOrder, AllTimed, WarnedInv
  <2>3. ASSUME NEW k \in 1..6, InStage(k) PROVE StagesInOrder
    <3>1. k \in 0..6 /\ 6 \in k..6 /\ k - 1 \in 0..6 /\ k \in (k - 1)..6
      OBVIOUS
    <3>2. IsPrefix(begun, StagesOn(options.off)[6]) /\ IsPrefix(timings, begun)
      BY <2>3, <3>1, EarlierIsPrefix DEF InStage
    <3> QED BY <2>1, <2>3, <3>2 DEF StagesInOrder, InStage, WarnedInv
  <2> QED BY <2>2, <2>3 DEF TimeInv
<1>2. Init => TimeInv /\ WarnedInv
  BY InitTime
<1>3. DInv /\ TimeInv /\ WarnedInv /\ [Next]_vars => TimeInv' /\ WarnedInv'
  BY NextTime
<1> QED BY <1>1, <1>2, <1>3, PipelineInductive, PTL DEF Spec
==============================================================================
