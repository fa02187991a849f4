----------------------------- MODULE Inference ------------------------------
(***************************************************************************)
(* internal/infer: from catalog facts and the probe's joins to scored      *)
(* hypotheses.  Names first, then composite keys, then the joins, then the *)
(* cut.  Lists are sets and are walked in any order: what the code sorts,  *)
(* it sorts for presentation.  Weights are in ten-thousandths, similarity  *)
(* in hundredths.                                                          *)
(***************************************************************************)
EXTENDS Naming, Probe, Lists

CONSTANTS
    Profile,            \* the naming profile in effect
    Similarity(_, _),   \* dice over trigrams: entity, table name -> 0..100
    Inputs,             \* catalogs and SQL objects: [catalog, objects]
    MinScore, MinNameSimilarity, SmallTableRows

(* What PostgreSQL guarantees of what the catalog returns: a table has one  *)
(* name, a column one name in its table, a key is of its table's columns;   *)
(* and a SQL object comes from one of the three sources.                    *)
ASSUME InputAssumption == \A input \in Inputs :
    /\ IsFiniteSet(input.catalog)
    /\ input.objects \in Seq(ToSet(input.objects))
    /\ \A o \in ToSet(input.objects) : o.source \in Sources
    /\ \A t, u \in input.catalog : Ref(t) = Ref(u) => t = u
    /\ \A t \in input.catalog :
          /\ \A c, d \in t.columns : c.name = d.name => c = d
          /\ t.pk \in Seq(ColumnNames(t))

(* Likeness is a ratio, the cut a number, a profile's rules a list.         *)
ASSUME ScoringAssumption ==
    /\ MinScore \in Int /\ IsFiniteSet(Profile.plural)
    /\ \A input \in Inputs : \A t, u \in input.catalog : \A c \in t.columns :
          Similarity(EntityName(Profile, c.name), u.name) \in 0..100

VARIABLES phase, pending, groups, candidates, known, discarded, skipped, polymorphic

inferVars == <<phase, pending, groups, candidates, known, discarded, skipped, polymorphic>>
vars == <<probeVars, inferVars>>

Phases == {"probe", "names", "composite", "evidence", "done"}

------------------------------------------------------------------------------
(* Tables.  A table is [schema, name, columns, pk, fks, indexes, mentions,  *)
(* rows]: pk and each index a sequence of column names, each foreign key    *)
(* the set of its columns, mentions the names its comments contain.         *)
Column(t, name) == CHOOSE c \in t.columns : c.name = name

Table(ref) == CHOOSE t \in catalog : Ref(t) = ref

Has(t, names) == ToSet(names) \subseteq ColumnNames(t)

Types(t, names) == [i \in DOMAIN names |-> Column(t, names[i]).type]

\* Mutant: a column a declared foreign key covers is proposed again.
EligibleBesideTheKey(t, name) == t.pk # <<name>>

(* A column worth a hypothesis: not by itself the key, and not covered by a *)
(* declared foreign key.                                                    *)
eligible(t, name) == t.pk # <<name>> /\ \A fk \in t.fks : name \notin fk

IndexLeads(t, names) == \E idx \in t.indexes : IsPrefix(names, idx)

AllNotNull(t, names) == \A i \in DOMAIN names : ~Column(t, names[i]).nullable

(* types.go: the integer family widens, the textual types are one.          *)
integerWidth == [int2 |-> 1, int4 |-> 2, int8 |-> 3]
textualTypes == {"text", "varchar", "bpchar"}

CompareTypes(child, parent) ==
    IF child = parent THEN "identical"
    ELSE IF \/ /\ {child, parent} \subseteq DOMAIN integerWidth
               /\ integerWidth[child] <= integerWidth[parent]
            \/ {child, parent} \subseteq textualTypes
         THEN "compatible" ELSE "incompatible"

(* compareKeys: the weakest position decides for the key.                   *)
compareKeys(child, parent) ==
    LET fits == {CompareTypes(child[i], parent[i]) : i \in DOMAIN parent}
    IN  IF Len(child) # Len(parent) \/ "incompatible" \in fits THEN "incompatible"
        ELSE IF "compatible" \in fits THEN "compatible" ELSE "identical"

------------------------------------------------------------------------------
(* Scoring.                                                                 *)
Weight == [exact_name |-> 3000, normalized_name |-> 1500, identical_type |-> 2500,
           compatible_type |-> 1000, unique_target |-> 2000, child_indexed |-> 1500,
           comment_mention |-> 1200, not_null |-> 500, view |-> 5000, function |-> 4500,
           statements |-> 4000, ambiguous_target |-> -2500, generic_domain_name |-> -3000]

weightNameSimilarityMax == 12       \* per hundredth of similarity

(* The sources name the signals their joins earn.                           *)
UsageKinds == Sources
NameKinds  == {"exact_name", "normalized_name", "name_similarity"}
Kinds      == DOMAIN Weight \cup {"name_similarity", "composite_arity"}

Signal(kind) == [kind |-> kind, weight |-> Weight[kind], detail |-> ""]

arityWeight(n) == IF n < 2 THEN 0 ELSE LET w == 1500 + 500 * (n - 2)
                                       IN  IF w > 3000 THEN 3000 ELSE w

\* Mutant: the sum of the weights taken for the score.
unsaturated(total) == total

saturate(total) == IF total < 0 THEN 0 ELSE IF total > 10000 THEN 10000 ELSE total

score(signals) == saturate(SumFunctionOnSet([s \in signals |-> s.weight], signals))

cutScore(c) == score({s \in c.signals : s.kind # "generic_domain_name"})

HasSignal(c, kind) == \E s \in c.signals : s.kind = kind

(* A hypothesis before any row is read, and the pair it is about.           *)
KeyRef(ref, names) == [table |-> ref, columns |-> names]

Candidate(child, parent, signals) ==
    [child |-> child, parent |-> parent, signals |-> signals, score |-> score(signals)]

Pair(c) == <<c.child, c.parent>>

TypeSignal(match) == Signal(IF match = "identical" THEN "identical_type" ELSE "compatible_type")

Optional(condition, kind) == IF condition THEN {Signal(kind)} ELSE {}

------------------------------------------------------------------------------
(* Names.  A match is a table and the name signal it earns: through the     *)
(* profile's forms or, only if no table answers at all, by likeness.        *)
FormsOf(t) == TableForms(Profile, t.name)

NameSignal(origin) == Signal(IF origin = OriginExact THEN "exact_name" ELSE "normalized_name")

AffixMatches(entity) ==
    UNION {{<<t, NameSignal(f.origin)>> : f \in {g \in FormsOf(t) : g.value = entity}} : t \in catalog}

SimilarMatches(entity) ==
    {<<t, [kind |-> "name_similarity", detail |-> "",
           weight |-> weightNameSimilarityMax * Similarity(entity, t.name)]>> :
        t \in {u \in catalog : Similarity(entity, u.name) >= MinNameSimilarity}}

NameMatches(entity) ==
    IF AffixMatches(entity) # {} THEN AffixMatches(entity) ELSE SimilarMatches(entity)

\* Mutant: two tables answering to one name are no longer ambiguous.
AmbiguousFromThree(matches) == Cardinality(matches) > 2

Ambiguous(matches) == Cardinality(matches) > 1

(* buildSignals.  A generic name counts only against a table known small.   *)
buildSignals(t, c, entity, match, ambiguous) ==
    {match[2], TypeSignal(CompareTypes(c.type, Column(match[1], match[1].pk[1]).type)),
     Signal(IF ambiguous THEN "ambiguous_target" ELSE "unique_target")}
    \cup Optional(IndexLeads(t, <<c.name>>), "child_indexed")
    \cup Optional(entity \in c.mentions \cup t.mentions, "comment_mention")
    \cup Optional(~c.nullable, "not_null")
    \cup Optional(/\ entity \in Profile.generic
                  /\ match[1].rows \in 0..(SmallTableRows - 1), "generic_domain_name")

(* generateFor one column: a target needs a key of one column; the others   *)
(* are skipped with the reason, and a type that cannot fit says nothing.    *)
Eligibles(t) == {c \in t.columns : eligible(t, c.name) /\ EntityName(Profile, c.name) # <<>>}

ByName(t, c) ==
    LET entity   == EntityName(Profile, c.name)
        resolved == {m \in NameMatches(entity) : Len(m[1].pk) = 1}
        fitting  == {m \in resolved : CompareTypes(c.type, Column(m[1], m[1].pk[1]).type) # "incompatible"}
    IN  {Candidate(KeyRef(Ref(t), <<c.name>>), KeyRef(Ref(m[1]), m[1].pk),
                   buildSignals(t, c, entity, m, Ambiguous(resolved))) : m \in fitting}

Skip(child, names, target, reason) ==
    [child |-> KeyRef(Ref(child), names), target |-> Ref(target), reason |-> reason]

\* Mutant: a target whose key cannot be used is passed over in silence.
SkippedSilently(t, c) == {}

SkippedByName(t, c) ==
    {Skip(t, <<c.name>>, m[1], IF m[1].pk = <<>> THEN "no key" ELSE "arity") :
        m \in {n \in NameMatches(EntityName(Profile, c.name)) : Len(n[1].pk) # 1}}

(* A reference column beside a discriminator of the same stem.              *)
polymorphicPairs(t) ==
    {<<Ref(t), c.name>> : c \in {d \in t.columns :
        LET entity == EntityName(Profile, d.name)
        IN  /\ entity \notin {<<>>, d.name}
            /\ \E suffix \in Profile.typeSuffixes : entity \o suffix \in ColumnNames(t)}}

------------------------------------------------------------------------------
(* Composite keys.  A reading gives one child column for each position of   *)
(* the target's key: every position by the key's own column name (mirror),  *)
(* or by one form of the target's name ahead of it, that form anchoring at  *)
(* least one position.  Two readings never share their columns.             *)
Anchor(form, k) == form.value \o <<Separator>> \o k

resolveMirror(child, target) == Among(target.pk, ColumnNames(child))

resolveAnchored(child, target, form) ==
    LET names == ColumnNames(child)
        held  == Among(target.pk, {k \in ToSet(target.pk) : {k, Anchor(form, k)} \cap names # {}})
    IN  [i \in DOMAIN held |-> IF Anchor(form, held[i]) \in names THEN Anchor(form, held[i]) ELSE held[i]]

Anchoring(child, target) ==
    {f \in FormsOf(target) : \E k \in ToSet(target.pk) : Anchor(f, k) \in ColumnNames(child)}

Readings(child, target) ==
    {[columns |-> resolveMirror(child, target), name |-> {}]}
    \cup {[columns |-> resolveAnchored(child, target, f), name |-> {NameSignal(f.origin)}] :
             f \in Anchoring(child, target)}

usable(child, target, names) ==
    /\ Has(child, names)
    /\ \A i \in DOMAIN names : eligible(child, names[i])
    /\ compareKeys(Types(child, names), Types(target, target.pk)) # "incompatible"

Complete(child, target) ==
    {r \in Readings(child, target) :
        /\ Len(r.columns) = Len(target.pk)
        /\ ~(child = target /\ r.columns = target.pk)
        /\ usable(child, target, r.columns)}

minPartialMatch == 2

NearMiss(child, target) ==
    /\ Complete(child, target) = {}
    /\ \E r \in Readings(child, target) : Len(r.columns) \in minPartialMatch..(Len(target.pk) - 1)

compositeTargets == {t \in catalog : Len(t.pk) >= 2}

Resolved(child) == {t \in compositeTargets : Cardinality(Complete(child, t)) = 1}
Reading1(child, t) == CHOOSE r \in Complete(child, t) : TRUE

(* resolveAmbiguity: the targets that the same child columns point at.  One *)
(* reading without a name among several takes them all out.                 *)
Rivals(child, t) ==
    {u \in Resolved(child) : Reading1(child, u).columns = Reading1(child, t).columns}

Guesswork(child, t) ==
    /\ Cardinality(Rivals(child, t)) > 1
    /\ \E u \in Rivals(child, t) : Reading1(child, u).name = {}

compositeSignals(child, t) ==
    LET r == Reading1(child, t)
    IN  {[kind |-> "composite_arity", weight |-> arityWeight(Len(t.pk)), detail |-> ""],
         TypeSignal(compareKeys(Types(child, r.columns), Types(t, t.pk))),
         Signal(IF Ambiguous(Rivals(child, t)) THEN "ambiguous_target" ELSE "unique_target")}
        \cup r.name
        \cup Optional(IndexLeads(child, r.columns), "child_indexed")
        \cup Optional(t.name \in child.mentions, "comment_mention")
        \cup Optional(AllNotNull(child, r.columns), "not_null")

ByKey(child) ==
    {Candidate(KeyRef(Ref(child), Reading1(child, t).columns), KeyRef(Ref(t), t.pk),
               compositeSignals(child, t)) : t \in {u \in Resolved(child) : ~Guesswork(child, u)}}

SkippedByKey(child) ==
    {Skip(child, <<>>, t, "ambiguous position") :
        t \in {u \in compositeTargets : Cardinality(Complete(child, u)) > 1}}
    \cup {Skip(child, <<>>, t, "partial key") : t \in {u \in compositeTargets : NearMiss(child, u)}}
    \cup {Skip(child, <<>>, t, "ambiguous signature") : t \in {u \in Resolved(child) : Guesswork(child, u)}}

------------------------------------------------------------------------------
(* Joins.  A group is what one object states about one pair of tables.      *)
GroupOf(j) == [source |-> j.source, object |-> j.object, tables |-> {r.table : r \in j.pair}]

JoinsOf(g) == {j \in joins : GroupOf(j) = g}

(* keyMapping: parent column, child column.                                 *)
Equated(g, parentRef, childRef) ==
    {<<pc[1].column, pc[2].column>> : pc \in
        {d \in UNION {j.pair \X j.pair : j \in JoinsOf(g)} :
            d[1].table = parentRef /\ d[2].table = childRef /\ d[1] # d[2]}}

(* A whole key or nothing: each position equated with one child column, and *)
(* no column used twice.  A join of a table with itself has no direction.   *)
CompositeClaims(g) ==
    LET Covers(parent, equated) ==
            /\ \A e, f \in equated : e[1] = f[1] => e[2] = f[2]
            /\ ToSet(parent.pk) \subseteq {e[1] : e \in equated}
        Names(parent, equated) ==
            [i \in DOMAIN parent.pk |-> (CHOOSE e \in equated : e[1] = parent.pk[i])[2]]
    IN  {[child |-> o[2], names |-> Names(Table(o[1]), Equated(g, o[1], o[2])), parent |-> o[1]] :
            o \in {d \in g.tables \X g.tables :
                     /\ d[1] # d[2]
                     /\ Len(Table(d[1]).pk) >= 2
                     /\ Covers(Table(d[1]), Equated(g, d[1], d[2]))
                     /\ IsInjective(Names(Table(d[1]), Equated(g, d[1], d[2])))}}

(* applyOriented, both ways: the side that is a key is the parent.          *)
SingleClaims(g) ==
    {[child |-> o[1].table, names |-> <<o[1].column>>, parent |-> o[2].table] :
        o \in {d \in UNION {j.pair \X j.pair : j \in JoinsOf(g)} :
                 d[1] # d[2] /\ Table(d[2].table).pk = <<d[2].column>>}}

Claims(g) == {cl \in CompositeClaims(g) \cup SingleClaims(g) :
                 usable(Table(cl.child), Table(cl.parent), cl.names)}

ClaimedPair(cl) == <<KeyRef(cl.child, cl.names), KeyRef(cl.parent, Table(cl.parent).pk)>>

UsageSignal(g) == [kind |-> g.source, weight |-> Weight[g.source], detail |-> g.object]

\* Mutant: one source is enough, whichever group comes first.
StrengthenedByOne(c, g) ==
    IF \E kind \in UsageKinds : HasSignal(c, kind) THEN c
    ELSE Candidate(c.child, c.parent, c.signals \cup {UsageSignal(g)})

\* Mutant: the join stands in for what the names said.
Replaced(c, g) == Candidate(c.child, c.parent, {UsageSignal(g)})

(* One signal of a kind, and the score composed again from all of them.     *)
Strengthened(c, g) ==
    IF HasSignal(c, g.source) THEN c
    ELSE Candidate(c.child, c.parent, c.signals \cup {UsageSignal(g)})

Born(cl, g) ==
    LET child == Table(cl.child)  parent == Table(cl.parent)
    IN  Candidate(ClaimedPair(cl)[1], ClaimedPair(cl)[2],
            {UsageSignal(g), TypeSignal(compareKeys(Types(child, cl.names), Types(parent, parent.pk)))}
            \cup (IF Len(cl.names) = 1 THEN {}
                  ELSE {[kind |-> "composite_arity", weight |-> arityWeight(Len(cl.names)), detail |-> ""]})
            \cup Optional(IndexLeads(child, cl.names), "child_indexed")
            \cup Optional(AllNotNull(child, cl.names), "not_null"))

------------------------------------------------------------------------------
Init ==
    /\ \E input \in Inputs : catalog = input.catalog /\ objects = input.objects
    /\ ProbeInit
    /\ phase = "probe" /\ pending = {} /\ groups = {}
    /\ candidates = {} /\ known = {} /\ discarded = {} /\ skipped = {} /\ polymorphic = {}

Probing == phase = "probe" /\ ProbeNext /\ UNCHANGED inferVars

(* A probe that failed is a warning of the pipeline and no joins.           *)
Begin ==
    /\ phase = "probe" /\ Probed
    /\ phase' = "names" /\ pending' = catalog
    /\ UNCHANGED <<probeVars, groups, candidates, known, discarded, skipped, polymorphic>>

GenerateNames(t) ==
    /\ phase = "names" /\ t \in pending
    /\ candidates' = candidates \cup UNION {ByName(t, c) : c \in Eligibles(t)}
    /\ skipped' = skipped \cup UNION {SkippedByName(t, c) : c \in Eligibles(t)}
    /\ polymorphic' = polymorphic \cup polymorphicPairs(t)
    /\ pending' = pending \ {t}
    /\ UNCHANGED <<probeVars, phase, groups, known, discarded>>

BeginComposite ==
    /\ phase = "names" /\ pending = {}
    /\ phase' = "composite" /\ pending' = IF compositeTargets = {} THEN {} ELSE catalog
    /\ UNCHANGED <<probeVars, groups, candidates, known, discarded, skipped, polymorphic>>

generateComposite(t) ==
    /\ phase = "composite" /\ t \in pending
    /\ candidates' = candidates \cup ByKey(t)
    /\ skipped' = skipped \cup SkippedByKey(t)
    /\ pending' = pending \ {t}
    /\ UNCHANGED <<probeVars, phase, groups, known, discarded, polymorphic>>

(* candidateIndex and groupEvidence.                                        *)
BeginEvidence ==
    /\ phase = "composite" /\ pending = {}
    /\ phase' = "evidence"
    /\ known' = {Pair(c) : c \in candidates}
    /\ groups' = {GroupOf(j) : j \in joins}
    /\ UNCHANGED <<probeVars, pending, candidates, discarded, skipped, polymorphic>>

\* Mutant: a candidate a join created is not entered in the index.
IndexOnce(pairs) == known

Index(pairs) == known \cup pairs

applyEvidence(g) ==
    /\ phase = "evidence" /\ g \in groups
    /\ LET pairs == {ClaimedPair(cl) : cl \in Claims(g)}
       IN  /\ candidates' = {IF Pair(c) \in pairs \cap known THEN Strengthened(c, g) ELSE c : c \in candidates}
                            \cup {Born(cl, g) : cl \in {k \in Claims(g) : ClaimedPair(k) \notin known}}
           /\ known' = Index(pairs)
    /\ groups' = groups \ {g}
    /\ UNCHANGED <<probeVars, phase, pending, discarded, skipped, polymorphic>>

finalize ==
    /\ phase = "evidence" /\ groups = {}
    /\ phase' = "done"
    /\ candidates' = {c \in candidates : cutScore(c) >= MinScore}
    /\ discarded' = {c \in candidates : cutScore(c) < MinScore}
    /\ UNCHANGED <<probeVars, pending, groups, known, skipped, polymorphic>>

Next ==
    \/ Probing
    \/ Begin
    \/ \E t \in pending : GenerateNames(t)
    \/ BeginComposite
    \/ \E t \in pending : generateComposite(t)
    \/ BeginEvidence
    \/ \E g \in groups : applyEvidence(g)
    \/ finalize

Spec == Init /\ [][Next]_vars

------------------------------------------------------------------------------
(* Properties.                                                              *)
Hypotheses == candidates \cup discarded

(* Types, and a score between zero and one however many signals fire.       *)
TypeOK ==
    /\ phase \in Phases /\ reading \in Reading /\ available \in BOOLEAN
    /\ pending \subseteq catalog
    /\ \A c \in Hypotheses :
           /\ c.score \in Nat /\ c.score <= 10000
           /\ {c.child.table, c.parent.table} \subseteq {Ref(t) : t \in catalog}
           /\ {s.kind : s \in c.signals} \subseteq Kinds
    /\ \A k \in skipped : k.target \in {Ref(t) : t \in catalog}

(* A pair of keys is one hypothesis, whatever found it and however often:   *)
(* names, a composite key, several objects of several sources.  And one     *)
(* kind of evidence is one signal, so volume never passes for strength.     *)
OneHypothesisPerPair ==
    /\ \A c, d \in Hypotheses : Pair(c) = Pair(d) => c = d
    /\ \A c \in Hypotheses : \A s, r \in c.signals : s.kind = r.kind => s = r

(* A score can be composed again from the signals shown beside it, after    *)
(* every layer that added one.                                              *)
ScoresAreExplained == \A c \in Hypotheses : c.score = score(c.signals)

(* Every hypothesis is a foreign key the database would take and does not   *)
(* have: the whole primary key of its parent, columns that fit it position  *)
(* by position, none under a declared key, none the child's own surrogate.  *)
KeysAreWhole == \A c \in Hypotheses :
    LET child == Table(c.child.table)  parent == Table(c.parent.table)
    IN  /\ c.parent.columns = parent.pk /\ parent.pk # <<>> /\ c.child # c.parent
        /\ \A fk \in child.fks : fk \cap ToSet(c.child.columns) = {}
        /\ child.pk # c.child.columns \/ Len(child.pk) > 1
        /\ compareKeys(Types(child, c.child.columns), Types(parent, parent.pk)) # "incompatible"

(* The sources the probe could read.                                        *)
Heard(o) == /\ phase = "done" /\ reading = "probed"
            /\ o.source = "statements" => available

(* A join between a column and a single-column key, stated anywhere the     *)
(* probe could read, is evidence on that pair, whichever side of the        *)
(* equality the key is on and whatever else states the same pair.           *)
JoinsAreHeard == \A i \in DOMAIN objects : Heard(objects[i]) =>
    \A pair \in ResolvedPairs(objects[i].joins, catalog) : \A child, parent \in pair :
        (/\ child # parent
         /\ Table(parent.table).pk = <<parent.column>>
         /\ usable(Table(child.table), Table(parent.table), <<child.column>>))
        => \E c \in Hypotheses : /\ Pair(c) = <<KeyRef(child.table, <<child.column>>),
                                                KeyRef(parent.table, <<parent.column>>)>>
                                 /\ HasSignal(c, objects[i].source)

(* Evidence only adds: what the names alone would have kept is kept, with   *)
(* the signals it had and no lower a score, whatever joins are mined.       *)
NamesAlone == UNION {(UNION {ByName(t, c) : c \in Eligibles(t)}) \cup ByKey(t) : t \in catalog}

EvidenceOnlyAdds == phase = "done" => \A n \in NamesAlone :
    \E c \in Hypotheses : /\ Pair(c) = Pair(n)
                          /\ n.signals \subseteq c.signals /\ n.score <= c.score
                          /\ cutScore(n) >= MinScore => c \in candidates

(* A near miss stays legible: a table a column's name answers to is either  *)
(* a hypothesis, a skip with its reason, or a type that cannot fit; and so  *)
(* is a composite key whose columns a table carries under their own names.  *)
NearMissesAreLegible == phase = "done" => \A t, u \in catalog :
    /\ \A c \in Eligibles(t) :
           (\E f \in FormsOf(u) : f.value = EntityName(Profile, c.name)) =>
               \/ \E h \in Hypotheses : Pair(h) = <<KeyRef(Ref(t), <<c.name>>), KeyRef(Ref(u), u.pk)>>
               \/ \E k \in skipped : k.child = KeyRef(Ref(t), <<c.name>>) /\ k.target = Ref(u)
               \/ Len(u.pk) = 1 /\ CompareTypes(c.type, Column(u, u.pk[1]).type) = "incompatible"
    /\ t # u /\ Len(u.pk) >= 2 /\ usable(t, u, u.pk) =>
           \/ \E h \in Hypotheses : h.child.table = Ref(t) /\ h.parent = KeyRef(Ref(u), u.pk)
           \/ \E k \in skipped : k.child.table = Ref(t) /\ k.target = Ref(u)

(* Uncertainty shows: the same columns proposed for two parents either say  *)
(* on both that the target is ambiguous, or a join speaks for one of them.  *)
RivalsAreMarked == \A c, d \in Hypotheses :
    c.child = d.child /\ c.parent # d.parent =>
        \/ HasSignal(c, "ambiguous_target") /\ HasSignal(d, "ambiguous_target")
        \/ \E kind \in UsageKinds : HasSignal(c, kind) \/ HasSignal(d, kind)

------------------------------------------------------------------------------
(* The answer with no order in it: what the names give, what each group     *)
(* that claims a pair of keys adds to it, and what the cut leaves.  A row   *)
(* is a pair, its evidence (each kind with its weight) and their score.     *)
Weigh(signals) == {<<s.kind, s.weight>> : s \in signals}

AllGroups == {GroupOf(j) : j \in joins}

Claimed(g) == {ClaimedPair(cl) : cl \in Claims(g)}

NamedPairs == {Pair(n) : n \in NamesAlone}

(* What a join finds beside itself, in the two keys alone.                  *)
Unsaid(pair) ==
    LET child == Table(pair[1].table)  names == pair[1].columns  parent == Table(pair[2].table)
    IN  {TypeSignal(compareKeys(Types(child, names), Types(parent, parent.pk)))}
        \cup (IF Len(names) = 1 THEN {}
              ELSE {[kind |-> "composite_arity", weight |-> arityWeight(Len(names)), detail |-> ""]})
        \cup Optional(IndexLeads(child, names), "child_indexed")
        \cup Optional(AllNotNull(child, names), "not_null")

Use(pair, G) == {<<g.source, Weight[g.source]>> : g \in {h \in G : pair \in Claimed(h)}}

WeightsScore(weights) == saturate(SumFunctionOnSet([w \in weights |-> w[2]], weights))

Row(pair, weights) == [pair |-> pair, weights |-> weights, score |-> WeightsScore(weights)]

Rows(G) ==
    {Row(Pair(n), Weigh(n.signals) \cup Use(Pair(n), G)) : n \in NamesAlone}
    \cup {Row(p, Weigh(Unsaid(p)) \cup Use(p, G)) : p \in (UNION {Claimed(g) : g \in G}) \ NamedPairs}

Passes(row) == WeightsScore({w \in row.weights : w[1] # "generic_domain_name"}) >= MinScore

Outcome(C) == {[pair |-> Pair(c), weights |-> Weigh(c.signals), score |-> c.score] : c \in C}

(* What is proposed, on what evidence, with what score and on which side of *)
(* the cut is a function of the catalog and the joins: tables and groups    *)
(* are walked in an order no one chose, and only the detail of a signal,    *)
(* the first object that spoke, can tell.                                   *)
ResultIsDetermined == phase = "done" =>
    LET rows == Rows(AllGroups)
    IN  /\ Outcome(candidates) = {r \in rows : Passes(r)}
        /\ Outcome(discarded) = {r \in rows : ~Passes(r)}

------------------------------------------------------------------------------
(* What the repository says and the code does not do.                       *)

(* openspec/specs/usage-evidence/spec.md, "Junção composta vira um          *)
(* candidato composto": the equalities of one object between two tables are *)
(* grouped, and a group that equates the whole key is one hypothesis.       *)
Whole(o, child, parent) ==
    LET pairs   == ResolvedPairs(o.joins, catalog)
        equated == {<<pc[1].column, pc[2].column>> : pc \in
                      {d \in UNION {q \X q : q \in pairs} :
                          d[1].table = Ref(parent) /\ d[2].table = Ref(child)}}
        names   == [i \in DOMAIN parent.pk |-> (CHOOSE e \in equated : e[1] = parent.pk[i])[2]]
    IN  /\ child # parent /\ Len(parent.pk) >= 2
        /\ \A e, f \in equated : e[1] = f[1] => e[2] = f[2]
        /\ {e[1] : e \in equated} = ToSet(parent.pk)
        /\ IsInjective(names) /\ usable(child, parent, names)

CompositeJoinIsHeard == \A i \in DOMAIN objects : Heard(objects[i]) =>
    \A child, parent \in catalog : Whole(objects[i], child, parent) =>
        \E c \in Hypotheses : /\ c.child.table = Ref(child) /\ c.parent = KeyRef(Ref(parent), parent.pk)
                              /\ HasSignal(c, objects[i].source)
==============================================================================
