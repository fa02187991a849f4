---------------------------- MODULE InferenceProofs ----------------------------
(***************************************************************************)
(* For every catalog, every profile and every set of SQL objects, however  *)
(* the probe ends.  What a hypothesis is: a foreign key PostgreSQL would   *)
(* accept and does not have, once, with a score its signals explain.  And  *)
(* what becomes of what was found: rivals are marked, joins only add, near *)
(* misses stay legible, every join the probe could read is heard, and the  *)
(* order in which tables and joins are walked does not show in the answer. *)
(***************************************************************************)
EXTENDS Inference, CountingProofs

(* KeysAreWhole of one hypothesis, and ScoresAreExplained of one.           *)
KeyIsWhole(c) ==
    LET child == Table(c.child.table)  parent == Table(c.parent.table)
    IN  /\ c.parent.columns = parent.pk /\ parent.pk # <<>> /\ c.child # c.parent
        /\ \A fk \in child.fks : fk \cap ToSet(c.child.columns) = {}
        /\ child.pk # c.child.columns \/ Len(child.pk) > 1
        /\ compareKeys(Types(child, c.child.columns), Types(parent, parent.pk)) # "incompatible"

Sound(c) == c.score = score(c.signals) /\ KeyIsWhole(c)

(* The inductive invariant, in its parts.                                   *)
CatalogRead == \E input \in Inputs : catalog = input.catalog

TableRefs == {Ref(t) : t \in catalog}

JoinsResolved == \A j \in joins : \A r \in j.pair :
    r = [table |-> r.table, column |-> r.column] /\ r.table \in TableRefs

GroupsResolved == \A g \in groups : g.tables \subseteq TableRefs

AllSound == \A c \in Hypotheses : Sound(c)

SInv == CatalogRead /\ pending \subseteq catalog /\ JoinsResolved /\ GroupsResolved /\ AllSound

------------------------------------------------------------------------------
LEMMA TableOfRef == ASSUME CatalogRead, NEW t \in catalog PROVE Table(Ref(t)) = t
BY InputAssumption DEF CatalogRead, Table

LEMMA ColumnOfName ==
    ASSUME CatalogRead, NEW t \in catalog, NEW c \in t.columns
    PROVE  Column(t, c.name) = c
BY InputAssumption DEF CatalogRead, Column

LEMMA KeyIsSequence == ASSUME CatalogRead, NEW t \in catalog PROVE t.pk \in Seq(ColumnNames(t))
BY InputAssumption DEF CatalogRead

LEMMA CandidateFields ==
    ASSUME NEW child, NEW parent, NEW signals
    PROVE  LET c == Candidate(child, parent, signals)
           IN  /\ c.child = child /\ c.parent = parent /\ c.signals = signals
               /\ c.score = score(signals)
BY DEF Candidate

(* One position that fits is a key of one column that fits.                 *)
LEMMA SingleFits ==
    ASSUME NEW a, NEW b, CompareTypes(a, b) # "incompatible"
    PROVE  compareKeys(<<a>>, <<b>>) # "incompatible"
<1>1. {CompareTypes(<<a>>[i], <<b>>[i]) : i \in DOMAIN <<b>>} = {CompareTypes(a, b)}
  OBVIOUS
<1> QED BY <1>1 DEF compareKeys

(* A hypothesis over columns that are usable for its parent's key.          *)
LEMMA UsableIsWhole ==
    ASSUME NEW childRef, NEW names, NEW parentRef, NEW signals,
           usable(Table(childRef), Table(parentRef), names),
           Table(parentRef).pk # <<>>,
           childRef # parentRef \/ names # Table(parentRef).pk,
           Table(childRef).pk # names \/ Len(Table(childRef).pk) > 1
    PROVE  Sound(Candidate(KeyRef(childRef, names), KeyRef(parentRef, Table(parentRef).pk), signals))
<1> DEFINE c == Candidate(KeyRef(childRef, names), KeyRef(parentRef, Table(parentRef).pk), signals)
<1>1. /\ c.child.table = childRef /\ c.child.columns = names
      /\ c.parent.table = parentRef /\ c.parent.columns = Table(parentRef).pk
      /\ c.score = score(c.signals)
  BY CandidateFields DEF KeyRef
<1>2. c.child # c.parent
  BY <1>1
<1>3. \A fk \in Table(childRef).fks : fk \cap ToSet(names) = {}
  BY DEF usable, eligible, ToSet
<1>4. compareKeys(Types(Table(childRef), names), Types(Table(parentRef), Table(parentRef).pk)) # "incompatible"
  BY DEF usable
<1> HIDE DEF c
<1>5. KeyIsWhole(c)
  BY <1>1, <1>2, <1>3, <1>4 DEF KeyIsWhole
<1> QED BY <1>1, <1>5 DEF Sound, c

(* Names: generateFor.                                                      *)
LEMMA MatchesAreTables == ASSUME NEW entity, NEW m \in NameMatches(entity) PROVE m[1] \in catalog
<1>1. CASE m \in AffixMatches(entity)
  <2>1. PICK t \in catalog : m \in {<<t, NameSignal(f.origin)>> : f \in {g \in FormsOf(t) : g.value = entity}}
    BY <1>1, Zenon DEF AffixMatches
  <2> QED BY <2>1
<1>2. CASE m \in SimilarMatches(entity)
  <2> DEFINE signal(t) == [kind |-> "name_similarity", detail |-> "",
                           weight |-> weightNameSimilarityMax * Similarity(entity, t.name)]
  <2>1. PICK t \in {u \in catalog : Similarity(entity, u.name) >= MinNameSimilarity} : m = <<t, signal(t)>>
    BY <1>2, Zenon DEF SimilarMatches
  <2> HIDE DEF signal
  <2> QED BY <2>1
<1> QED BY <1>1, <1>2 DEF NameMatches

LEMMA NamesAreSound ==
    ASSUME CatalogRead, NEW t \in catalog, NEW c \in Eligibles(t), NEW h \in ByName(t, c)
    PROVE  Sound(h)
<1> DEFINE entity   == EntityName(Profile, c.name)
           resolved == {m \in NameMatches(entity) : Len(m[1].pk) = 1}
           fitting  == {m \in resolved : CompareTypes(c.type, Column(m[1], m[1].pk[1]).type) # "incompatible"}
<1>0. PICK m \in fitting :
         h = Candidate(KeyRef(Ref(t), <<c.name>>), KeyRef(Ref(m[1]), m[1].pk),
                       buildSignals(t, c, entity, m, Ambiguous(resolved)))
  BY Zenon DEF ByName
<1> DEFINE signals == buildSignals(t, c, entity, m, Ambiguous(resolved))
<1>1. /\ m \in NameMatches(entity) /\ Len(m[1].pk) = 1
      /\ CompareTypes(c.type, Column(m[1], m[1].pk[1]).type) # "incompatible"
  OBVIOUS
<1> HIDE DEF entity, resolved, fitting, signals
<1> DEFINE p == m[1]
<1>2. p \in catalog /\ p.pk \in Seq(ColumnNames(p)) /\ Table(Ref(p)) = p /\ Table(Ref(t)) = t
  BY <1>1, MatchesAreTables, KeyIsSequence, TableOfRef
<1>3. c \in t.columns /\ eligible(t, c.name)
  BY DEF Eligibles
<1>4. /\ h.child.table = Ref(t) /\ h.child.columns = <<c.name>>
      /\ h.parent.table = Ref(p) /\ h.parent.columns = p.pk /\ h.score = score(h.signals)
  BY <1>0, CandidateFields DEF KeyRef, signals
<1>5. p.pk # <<>> /\ p.pk = <<p.pk[1]>>
  BY <1>1, <1>2
<1>6. h.child # h.parent
  <2>1. t = p => <<c.name>> # p.pk
    BY <1>3 DEF eligible
  <2>2. Ref(t) = Ref(p) => t = p
    BY <1>2
  <2> QED BY <1>4, <2>1, <2>2
<1>7. \A fk \in t.fks : fk \cap ToSet(<<c.name>>) = {}
  BY <1>3 DEF eligible, ToSet
<1>8. Types(t, <<c.name>>) = <<c.type>>
  <2>1. Column(t, c.name) = c
    BY <1>3, ColumnOfName
  <2> QED BY <2>1 DEF Types
<1>9. Types(p, p.pk) = <<Column(p, p.pk[1]).type>>
  BY <1>5 DEF Types
<1>10. compareKeys(Types(t, <<c.name>>), Types(p, p.pk)) # "incompatible"
  BY <1>1, <1>8, <1>9, SingleFits
<1>11. t.pk # <<c.name>>
  BY <1>3 DEF eligible
<1> HIDE DEF p
<1>12. KeyIsWhole(h)
  BY <1>2, <1>4, <1>5, <1>6, <1>7, <1>10, <1>11 DEF KeyIsWhole
<1> QED BY <1>4, <1>12 DEF Sound

(* Composite keys: emitComposite.                                           *)
LEMMA KeyIsSound ==
    ASSUME CatalogRead, NEW child \in catalog, NEW h \in ByKey(child)
    PROVE  Sound(h)
<1>1. PICK u \in Resolved(child) :
         h = Candidate(KeyRef(Ref(child), Reading1(child, u).columns), KeyRef(Ref(u), u.pk),
                       compositeSignals(child, u))
  BY DEF ByKey
<1> DEFINE r == Reading1(child, u)
<1>2. u \in catalog /\ Len(u.pk) >= 2 /\ Cardinality(Complete(child, u)) = 1
  BY DEF Resolved, compositeTargets
<1>3. r \in Complete(child, u)
  <2>1. ASSUME Complete(child, u) = {} PROVE FALSE
    <3>1. Cardinality(Complete(child, u)) = Cardinality({})
      BY <2>1, Zenon
    <3> QED BY <1>2, <3>1, FS_EmptySet
  <2> QED BY <2>1 DEF Reading1
<1>4. /\ Len(r.columns) = Len(u.pk) /\ usable(child, u, r.columns)
      /\ ~(child = u /\ r.columns = u.pk)
  BY <1>3 DEF Complete
<1>5. Table(Ref(child)) = child /\ Table(Ref(u)) = u /\ u.pk \in Seq(ColumnNames(u))
  BY <1>2, TableOfRef, KeyIsSequence
<1>6. u.pk # <<>>
  BY <1>2, <1>5
<1>7. Ref(child) # Ref(u) \/ r.columns # u.pk
  BY <1>4, <1>5
<1>8. child.pk # r.columns \/ Len(child.pk) > 1
  BY <1>2, <1>4, <1>5
<1> HIDE DEF r
<1>9. Sound(Candidate(KeyRef(Ref(child), r.columns), KeyRef(Ref(u), Table(Ref(u)).pk), compositeSignals(child, u)))
  BY <1>4, <1>5, <1>6, <1>7, <1>8, UsableIsWhole
<1> QED BY <1>1, <1>5, <1>9 DEF r

(* Joins: what a group claims.                                              *)
LEMMA TableIsRead == ASSUME NEW ref \in TableRefs PROVE Table(ref) \in catalog /\ Ref(Table(ref)) = ref
BY DEF TableRefs, Table

LEMMA SingleIsSound ==
    ASSUME JoinsResolved, NEW g, NEW cl \in SingleClaims(g),
           usable(Table(cl.child), Table(cl.parent), cl.names)
    PROVE  /\ Table(cl.parent).pk # <<>>
           /\ cl.child # cl.parent \/ cl.names # Table(cl.parent).pk
           /\ Table(cl.child).pk # cl.names
<1>1. PICK d \in UNION {j.pair \X j.pair : j \in JoinsOf(g)} :
         /\ d[1] # d[2] /\ Table(d[2].table).pk = <<d[2].column>>
         /\ cl = [child |-> d[1].table, names |-> <<d[1].column>>, parent |-> d[2].table]
  BY DEF SingleClaims
<1>2. PICK j \in joins : d \in j.pair \X j.pair
  BY DEF JoinsOf
<1>3. d[1] = [table |-> d[1].table, column |-> d[1].column] /\ d[2] = [table |-> d[2].table, column |-> d[2].column]
  BY <1>2 DEF JoinsResolved
<1>4. d[1].table # d[2].table \/ d[1].column # d[2].column
  BY <1>1, <1>3
<1>5. cl.child = d[1].table /\ cl.names = <<d[1].column>> /\ cl.parent = d[2].table
  BY <1>1
<1>6. eligible(Table(cl.child), d[1].column)
  BY <1>5 DEF usable
<1> QED BY <1>1, <1>4, <1>5, <1>6 DEF eligible

LEMMA CompositeIsSound ==
    ASSUME CatalogRead, NEW g, g.tables \subseteq TableRefs, NEW cl \in CompositeClaims(g)
    PROVE  /\ Table(cl.parent).pk # <<>>
           /\ cl.child # cl.parent
           /\ Table(cl.child).pk # cl.names \/ Len(Table(cl.child).pk) > 1
<1> DEFINE Names(parent, equated) ==
               [i \in DOMAIN parent.pk |-> (CHOOSE e \in equated : e[1] = parent.pk[i])[2]]
<1>1. PICK o \in g.tables \X g.tables :
         /\ o[1] # o[2] /\ Len(Table(o[1]).pk) >= 2
         /\ cl = [child |-> o[2], names |-> Names(Table(o[1]), Equated(g, o[1], o[2])), parent |-> o[1]]
  BY Zenon DEF CompositeClaims
<1>2. /\ cl.child = o[2] /\ cl.parent = o[1]
      /\ DOMAIN cl.names = DOMAIN Table(o[1]).pk
  BY <1>1
<1>3. /\ Table(o[1]).pk \in Seq(ColumnNames(Table(o[1])))
      /\ Table(o[2]).pk \in Seq(ColumnNames(Table(o[2])))
  BY TableIsRead, KeyIsSequence
<1> HIDE DEF Names
<1>4. 2 \in DOMAIN cl.names
  BY <1>1, <1>2, <1>3
<1>5. Table(cl.child).pk = cl.names => Len(Table(cl.child).pk) > 1
  BY <1>2, <1>3, <1>4
<1> QED BY <1>1, <1>2, <1>5, <1>3

LEMMA BornIsSound ==
    ASSUME CatalogRead, JoinsResolved, NEW g, g.tables \subseteq TableRefs, NEW cl \in Claims(g)
    PROVE  Sound(Born(cl, g))
<1>1. usable(Table(cl.child), Table(cl.parent), cl.names)
  BY DEF Claims
<1>2. /\ Table(cl.parent).pk # <<>>
      /\ cl.child # cl.parent \/ cl.names # Table(cl.parent).pk
      /\ Table(cl.child).pk # cl.names \/ Len(Table(cl.child).pk) > 1
  <2>1. CASE cl \in CompositeClaims(g)
    BY <2>1, CompositeIsSound
  <2>2. CASE cl \in SingleClaims(g)
    BY <1>1, <2>2, SingleIsSound
  <2> QED BY <2>1, <2>2 DEF Claims
<1>3. PICK signals : Born(cl, g) = Candidate(KeyRef(cl.child, cl.names),
                                            KeyRef(cl.parent, Table(cl.parent).pk), signals)
  BY DEF Born, ClaimedPair
<1> QED BY <1>1, <1>2, <1>3, UsableIsWhole

(* A new signal leaves the pair alone and composes the score again.         *)
LEMMA StrengthenedIsSound ==
    ASSUME NEW c, Sound(c), NEW g PROVE Sound(Strengthened(c, g))
<1>1. CASE HasSignal(c, g.source)
  BY <1>1 DEF Strengthened
<1>2. CASE ~HasSignal(c, g.source)
  <2> DEFINE d == Candidate(c.child, c.parent, c.signals \cup {UsageSignal(g)})
  <2>1. d.child = c.child /\ d.parent = c.parent /\ d.score = score(d.signals)
    BY CandidateFields
  <2>2. Strengthened(c, g) = d
    BY <1>2 DEF Strengthened
  <2> HIDE DEF d
  <2>3. KeyIsWhole(d)
    BY <2>1 DEF Sound, KeyIsWhole
  <2> QED BY <2>1, <2>2, <2>3 DEF Sound
<1> QED BY <1>1, <1>2

------------------------------------------------------------------------------
(* The steps of the probe.                                                  *)
LEMMA ResolvedIsRead ==
    ASSUME NEW ref, Resolves(ref, catalog)
    PROVE  LET r == resolveRef(ref, catalog)
           IN  r = [table |-> r.table, column |-> r.column] /\ r.table \in TableRefs
<1>1. ASSUME Meanings(ref, catalog) = {} PROVE FALSE
  <2>1. Cardinality(Meanings(ref, catalog)) = Cardinality({})
    BY <1>1, Zenon
  <2> QED BY <2>1, FS_EmptySet DEF Resolves
<1> DEFINE meant == CHOOSE t \in Meanings(ref, catalog) : TRUE
<1>2. meant \in catalog
  <2>1. meant \in Meanings(ref, catalog)
    BY <1>1
  <2> HIDE DEF meant
  <2> QED BY <2>1 DEF Meanings
<1>3. resolveRef(ref, catalog) = [table |-> Ref(meant), column |-> ref.column]
  BY DEF resolveRef
<1> HIDE DEF meant
<1>4. Ref(meant) \in TableRefs
  BY <1>2 DEF TableRefs
<1> QED BY <1>3, <1>4

LEMMA PairsAreRead ==
    ASSUME NEW stated, NEW p \in ResolvedPairs(stated, catalog), NEW r \in p
    PROVE  r = [table |-> r.table, column |-> r.column] /\ r.table \in TableRefs
<1>1. PICK j \in stated : /\ Resolves(j[1], catalog) /\ Resolves(j[2], catalog)
                         /\ p = {resolveRef(j[1], catalog), resolveRef(j[2], catalog)}
  BY Zenon DEF ResolvedPairs
<1>2. r = resolveRef(j[1], catalog) \/ r = resolveRef(j[2], catalog)
  BY <1>1
<1> QED BY <1>1, <1>2, ResolvedIsRead

LEMMA ProbeStep ==
    ASSUME JoinsResolved, ProbeNext
    PROVE  JoinsResolved' /\ catalog' = catalog
<1>1. CASE joins' = joins /\ catalog' = catalog
  BY <1>1 DEF JoinsResolved, TableRefs
<1>2. CASE resolveAgainstCatalog
  <2>0. catalog' = catalog
    BY <1>2 DEF resolveAgainstCatalog
  <2>1. ASSUME NEW j \in joins', NEW r \in j.pair
        PROVE  r = [table |-> r.table, column |-> r.column] /\ r.table \in TableRefs
    <3>1. PICK i \in Extracted : j \in {[pair |-> p, source |-> objects[i].source, object |-> objects[i].object] :
                          p \in {q \in ResolvedPairs(objects[i].joins, catalog) : FirstStated(i, q)}}
      BY <1>2, Zenon DEF resolveAgainstCatalog
    <3>2. j.pair \in ResolvedPairs(objects[i].joins, catalog)
      BY <3>1
    <3> QED BY <3>2, PairsAreRead
  <2> QED BY <2>0, <2>1 DEF JoinsResolved, TableRefs
<1> QED BY <1>1, <1>2 DEF ProbeNext, ReadViews, ReadFunctions, ReadStatements

------------------------------------------------------------------------------
(* The invariant.                                                           *)
LEMMA SInvInit == Init => SInv
BY DEF Init, ProbeInit, SInv, CatalogRead, JoinsResolved, GroupsResolved, AllSound, Hypotheses

(* Hypotheses that are old, or sound over a catalog that stays, are sound.  *)
LEMMA StaySound ==
    ASSUME AllSound, catalog' = catalog,
           \A h \in Hypotheses' : h \in Hypotheses \/ Sound(h)
    PROVE  AllSound'
<1>1. \A h : Sound(h) => Sound(h)'
  BY DEF Sound, KeyIsWhole, Table
<1> QED BY <1>1 DEF AllSound

LEMMA SInvStep == SInv /\ [Next]_vars => SInv'
<1> SUFFICES ASSUME SInv, [Next]_vars PROVE SInv'
  OBVIOUS
<1> USE DEF SInv
<1>0. (catalog' = catalog) => CatalogRead'
  BY DEF CatalogRead
<1>1. CASE Probing
  <2>1. /\ JoinsResolved' /\ catalog' = catalog /\ Hypotheses' = Hypotheses
        /\ pending' = pending /\ groups' = groups
    BY <1>1, ProbeStep DEF Probing, inferVars, Hypotheses
  <2>2. AllSound'
    BY <2>1, StaySound
  <2> QED BY <1>0, <2>1, <2>2 DEF GroupsResolved, TableRefs
<1>2. CASE Begin
  <2>1. /\ catalog' = catalog /\ joins' = joins /\ Hypotheses' = Hypotheses
        /\ pending' = catalog /\ groups' = groups
    BY <1>2 DEF Begin, probeVars, Hypotheses
  <2>2. AllSound'
    BY <2>1, StaySound
  <2> QED BY <1>0, <2>1, <2>2 DEF GroupsResolved, JoinsResolved, TableRefs
<1>3. ASSUME NEW t \in pending, GenerateNames(t) PROVE SInv'
  <2>1. /\ catalog' = catalog /\ joins' = joins /\ pending' = pending \ {t} /\ groups' = groups
        /\ discarded' = discarded
        /\ candidates' = candidates \cup UNION {ByName(t, c) : c \in Eligibles(t)}
    BY <1>3 DEF GenerateNames, probeVars
  <2>2. \A h \in Hypotheses' : h \in Hypotheses \/ Sound(h)
    BY <2>1, NamesAreSound DEF Hypotheses
  <2>3. AllSound'
    BY <2>1, <2>2, StaySound
  <2> QED BY <1>0, <2>1, <2>3 DEF GroupsResolved, JoinsResolved, TableRefs
<1>4. CASE BeginComposite
  <2>1. /\ catalog' = catalog /\ joins' = joins /\ Hypotheses' = Hypotheses
        /\ pending' \subseteq catalog /\ groups' = groups
    BY <1>4 DEF BeginComposite, probeVars, Hypotheses
  <2>2. AllSound'
    BY <2>1, StaySound
  <2> QED BY <1>0, <2>1, <2>2 DEF GroupsResolved, JoinsResolved, TableRefs
<1>5. ASSUME NEW t \in pending, generateComposite(t) PROVE SInv'
  <2>1. /\ catalog' = catalog /\ joins' = joins /\ pending' = pending \ {t} /\ groups' = groups
        /\ discarded' = discarded /\ candidates' = candidates \cup ByKey(t)
    BY <1>5 DEF generateComposite, probeVars
  <2>2. \A h \in Hypotheses' : h \in Hypotheses \/ Sound(h)
    BY <2>1, KeyIsSound DEF Hypotheses
  <2>3. AllSound'
    BY <2>1, <2>2, StaySound
  <2> QED BY <1>0, <2>1, <2>3 DEF GroupsResolved, JoinsResolved, TableRefs
<1>6. CASE BeginEvidence
  <2>1. /\ catalog' = catalog /\ joins' = joins /\ Hypotheses' = Hypotheses
        /\ pending' = pending /\ groups' = {GroupOf(j) : j \in joins}
    BY <1>6 DEF BeginEvidence, probeVars, Hypotheses
  <2>2. AllSound'
    BY <2>1, StaySound
  <2>3. GroupsResolved'
    <3>1. \A j \in joins : GroupOf(j).tables \subseteq TableRefs
      BY DEF GroupOf, JoinsResolved
    <3> QED BY <2>1, <3>1 DEF GroupsResolved, TableRefs
  <2> QED BY <1>0, <2>1, <2>2, <2>3 DEF JoinsResolved, TableRefs
<1>7. ASSUME NEW g \in groups, applyEvidence(g) PROVE SInv'
  <2> DEFINE pairs == {ClaimedPair(cl) : cl \in Claims(g)}
             touched(c) == IF Pair(c) \in pairs \cap known THEN Strengthened(c, g) ELSE c
             born == {Born(cl, g) : cl \in {k \in Claims(g) : ClaimedPair(k) \notin known}}
  <2>1. /\ catalog' = catalog /\ joins' = joins /\ pending' = pending /\ groups' = groups \ {g}
        /\ discarded' = discarded /\ candidates' = {touched(c) : c \in candidates} \cup born
    BY <1>7, Zenon DEF applyEvidence, probeVars
  <2>2. \A h \in born : Sound(h)
    BY BornIsSound DEF GroupsResolved
  <2>3. \A c \in candidates : Sound(touched(c))
    BY StrengthenedIsSound DEF AllSound, Hypotheses
  <2> HIDE DEF born, touched
  <2>4. \A h \in Hypotheses' : h \in Hypotheses \/ Sound(h)
    BY <2>1, <2>2, <2>3 DEF Hypotheses
  <2>5. AllSound'
    BY <2>1, <2>4, StaySound
  <2> QED BY <1>0, <2>1, <2>5 DEF GroupsResolved, JoinsResolved, TableRefs
<1>8. CASE finalize
  <2>1. /\ catalog' = catalog /\ joins' = joins /\ pending' = pending /\ groups' = groups
        /\ candidates' \subseteq candidates /\ discarded' \subseteq candidates
    BY <1>8 DEF finalize, probeVars
  <2>2. AllSound'
    BY <2>1, StaySound DEF Hypotheses
  <2> QED BY <1>0, <2>1, <2>2 DEF GroupsResolved, JoinsResolved, TableRefs
<1>9. CASE UNCHANGED vars
  <2>1. /\ catalog' = catalog /\ joins' = joins /\ Hypotheses' = Hypotheses
        /\ pending' = pending /\ groups' = groups
    BY <1>9 DEF vars, probeVars, inferVars, Hypotheses
  <2>2. AllSound'
    BY <2>1, StaySound
  <2> QED BY <1>0, <2>1, <2>2 DEF GroupsResolved, JoinsResolved, TableRefs
<1> QED BY <1>1, <1>2, <1>3, <1>4, <1>5, <1>6, <1>7, <1>8, <1>9 DEF Next

(* SInv holds of every reachable state: whatever the catalog, the profile,  *)
(* the likeness of names, the SQL objects, and however the probe ends.      *)
THEOREM HypothesesInductive == Spec => []SInv
BY SInvInit, SInvStep, PTL DEF Spec

(* ScoresAreExplained: every layer that adds a signal (names, composite     *)
(* keys, joins) composes the score again from all of them.                  *)
THEOREM EveryScoreIsExplained == Spec => []ScoresAreExplained
<1>1. SInv => ScoresAreExplained
  BY DEF SInv, AllSound, Sound, ScoresAreExplained
<1> QED BY <1>1, HypothesesInductive, PTL

(* KeysAreWhole: the three ways into the list, each by its own path, admit  *)
(* only a whole key the database would accept and does not declare.         *)
THEOREM EveryKeyIsWhole == Spec => []KeysAreWhole
<1>1. SInv => KeysAreWhole
  BY DEF SInv, AllSound, Sound, KeyIsWhole, KeysAreWhole
<1> QED BY <1>1, HypothesesInductive, PTL

------------------------------------------------------------------------------
(* One hypothesis per pair.  Signals of one hypothesis, by kind.            *)
Distinct(signals) == \A s, r \in signals : s.kind = r.kind => s = r

Plain(s) == s = Signal(s.kind)

(* Of names and keys, before any join is heard.                             *)
Silent(signals) == \A s \in signals : s.kind \notin UsageKinds

(* At most one signal is not made by Signal, or two of different kinds.     *)
LEMMA DistinctSignals ==
    ASSUME NEW signals, NEW x, NEW y, x.kind = y.kind => x = y,
           \A s \in signals : s = x \/ s = y \/ (Plain(s) /\ s.kind \notin {x.kind, y.kind})
    PROVE  Distinct(signals)
<1> SUFFICES ASSUME NEW s \in signals, NEW r \in signals, s.kind = r.kind PROVE s = r
  BY DEF Distinct
<1> QED BY DEF Plain

LEMMA DistinctBeside ==
    ASSUME NEW signals, NEW x, \A s \in signals : s = x \/ (Plain(s) /\ s.kind # x.kind)
    PROVE  Distinct(signals)
<1> SUFFICES ASSUME NEW s \in signals, NEW r \in signals, s.kind = r.kind PROVE s = r
  BY DEF Distinct
<1> QED BY DEF Plain

LEMMA KeyRefIs ==
    ASSUME NEW a, NEW b, NEW c, NEW d, KeyRef(a, b) = KeyRef(c, d)
    PROVE  a = c /\ b = d
<1>1. KeyRef(a, b).table = a /\ KeyRef(a, b).columns = b /\ KeyRef(c, d).table = c /\ KeyRef(c, d).columns = d
  BY DEF KeyRef
<1> QED BY <1>1

LEMMA SignalIsPlain == ASSUME NEW kind PROVE Plain(Signal(kind)) /\ Signal(kind).kind = kind
BY DEF Plain, Signal

LEMMA OptionalIsPlain ==
    ASSUME NEW kind, NEW condition, NEW s \in Optional(condition, kind)
    PROVE  Plain(s) /\ s.kind = kind
BY SignalIsPlain DEF Optional

LEMMA TypeIsPlain ==
    ASSUME NEW match
    PROVE  Plain(TypeSignal(match)) /\ TypeSignal(match).kind \in {"identical_type", "compatible_type"}
BY SignalIsPlain DEF TypeSignal

(* A match earns a signal of the name, and one only.                        *)
LEMMA MatchSignals ==
    ASSUME NEW entity, NEW m \in NameMatches(entity)
    PROVE  m[2].kind \in NameKinds
<1>1. CASE m \in AffixMatches(entity)
  <2>1. PICK t \in catalog : m \in {<<t, NameSignal(f.origin)>> : f \in {g \in FormsOf(t) : g.value = entity}}
    BY <1>1, Zenon DEF AffixMatches
  <2>2. PICK f : m[2] = NameSignal(f.origin)
    BY <2>1
  <2> QED BY <2>2, SignalIsPlain DEF NameSignal, NameKinds
<1>2. CASE m \in SimilarMatches(entity)
  <2> DEFINE weight(t) == weightNameSimilarityMax * Similarity(entity, t.name)
  <2>1. PICK t \in {u \in catalog : Similarity(entity, u.name) >= MinNameSimilarity} :
           m = <<t, [kind |-> "name_similarity", detail |-> "", weight |-> weight(t)]>>
    BY <1>2, Zenon DEF SimilarMatches
  <2> HIDE DEF weight
  <2> QED BY <2>1 DEF NameKinds
<1> QED BY <1>1, <1>2 DEF NameMatches

LEMMA FormsByValue ==
    ASSUME NEW t, NEW f \in FormsOf(t), NEW g \in FormsOf(t), f.value = g.value
    PROVE  f = g
<1> DEFINE ways == {d \in Derivations(Profile, t.name) : d[1] # <<>>}
           origin(v) == Min({d[2] : d \in {w \in ways : w[1] = v}})
<1>1. FormsOf(t) = {[value |-> v, origin |-> origin(v)] : v \in {d[1] : d \in ways}}
  BY Zenon DEF FormsOf, TableForms
<1> HIDE DEF ways, origin
<1> QED BY <1>1

LEMMA OneMatchPerTable ==
    ASSUME NEW entity, NEW m \in NameMatches(entity), NEW n \in NameMatches(entity), m[1] = n[1]
    PROVE  m = n
<1>1. CASE AffixMatches(entity) # {}
  <2>1. PICK t \in catalog : m \in {<<t, NameSignal(f.origin)>> : f \in {g \in FormsOf(t) : g.value = entity}}
    BY <1>1, Zenon DEF NameMatches, AffixMatches
  <2>2. PICK u \in catalog : n \in {<<u, NameSignal(f.origin)>> : f \in {g \in FormsOf(u) : g.value = entity}}
    BY <1>1, Zenon DEF NameMatches, AffixMatches
  <2>3. PICK f \in FormsOf(t) : f.value = entity /\ m = <<t, NameSignal(f.origin)>>
    BY <2>1
  <2>4. PICK g \in FormsOf(u) : g.value = entity /\ n = <<u, NameSignal(g.origin)>>
    BY <2>2
  <2>5. t = u
    BY <2>3, <2>4
  <2>6. f = g
    BY <2>3, <2>4, <2>5, FormsByValue
  <2> QED BY <2>3, <2>4, <2>5, <2>6
<1>2. CASE AffixMatches(entity) = {}
  <2> DEFINE signal(t) == [kind |-> "name_similarity", detail |-> "",
                           weight |-> weightNameSimilarityMax * Similarity(entity, t.name)]
  <2>1. PICK t \in {u \in catalog : Similarity(entity, u.name) >= MinNameSimilarity} : m = <<t, signal(t)>>
    BY <1>2, Zenon DEF NameMatches, SimilarMatches
  <2>2. PICK u \in {v \in catalog : Similarity(entity, v.name) >= MinNameSimilarity} : n = <<u, signal(u)>>
    BY <1>2, Zenon DEF NameMatches, SimilarMatches
  <2>3. t = u
    <3> HIDE DEF signal
    <3> QED BY <2>1, <2>2
  <2> QED BY <2>1, <2>2, <2>3, Zenon
<1> QED BY <1>1, <1>2

(* What one column's name gives, and what one table's keys give.            *)
NamedBy(t, c, m) ==
    Candidate(KeyRef(Ref(t), <<c.name>>), KeyRef(Ref(m[1]), m[1].pk),
              buildSignals(t, c, EntityName(Profile, c.name), m,
                  Ambiguous({n \in NameMatches(EntityName(Profile, c.name)) : Len(n[1].pk) = 1})))

LEMMA ByNameIs ==
    ASSUME NEW t, NEW c, NEW h \in ByName(t, c)
    PROVE  \E m \in NameMatches(EntityName(Profile, c.name)) : h = NamedBy(t, c, m)
<1> DEFINE entity   == EntityName(Profile, c.name)
           resolved == {m \in NameMatches(entity) : Len(m[1].pk) = 1}
           fitting  == {m \in resolved : CompareTypes(c.type, Column(m[1], m[1].pk[1]).type) # "incompatible"}
<1>1. PICK m \in fitting :
         h = Candidate(KeyRef(Ref(t), <<c.name>>), KeyRef(Ref(m[1]), m[1].pk),
                       buildSignals(t, c, entity, m, Ambiguous(resolved)))
  BY Zenon DEF ByName
<1>2. m \in NameMatches(entity) /\ h = NamedBy(t, c, m)
  BY <1>1, Zenon DEF NamedBy
<1> QED BY <1>2

LEMMA NamedOnce ==
    ASSUME CatalogRead, NEW t \in catalog,
           NEW c \in Eligibles(t), NEW d \in Eligibles(t),
           NEW h \in ByName(t, c), NEW k \in ByName(t, d), Pair(h) = Pair(k)
    PROVE  h = k
<1>1. PICK m \in NameMatches(EntityName(Profile, c.name)) : h = NamedBy(t, c, m)
  BY ByNameIs
<1>2. PICK n \in NameMatches(EntityName(Profile, d.name)) : k = NamedBy(t, d, n)
  BY ByNameIs
<1>3. /\ h.child = KeyRef(Ref(t), <<c.name>>) /\ h.parent = KeyRef(Ref(m[1]), m[1].pk)
      /\ k.child = KeyRef(Ref(t), <<d.name>>) /\ k.parent = KeyRef(Ref(n[1]), n[1].pk)
      /\ h.child = k.child /\ h.parent = k.parent
  BY <1>1, <1>2, CandidateFields DEF NamedBy, Pair
<1>4. c.name = d.name /\ Ref(m[1]) = Ref(n[1])
  <2>1. KeyRef(Ref(t), <<c.name>>) = KeyRef(Ref(t), <<d.name>>)
    BY <1>3, Zenon
  <2>2. KeyRef(Ref(m[1]), m[1].pk) = KeyRef(Ref(n[1]), n[1].pk)
    BY <1>3, Zenon
  <2>3. <<c.name>> = <<d.name>>
    BY <2>1, KeyRefIs
  <2> QED BY <2>2, <2>3, KeyRefIs
<1>5. c = d
  BY <1>4, InputAssumption DEF CatalogRead, Eligibles
<1>6. m[1] = n[1]
  BY <1>4, <1>5, MatchesAreTables, TableOfRef
<1>7. m = n
  BY <1>5, <1>6, OneMatchPerTable
<1> QED BY <1>1, <1>2, <1>5, <1>7

LEMMA NamedSignals ==
    ASSUME NEW t, NEW c, NEW h \in ByName(t, c)
    PROVE  /\ Distinct(h.signals) /\ h.child = KeyRef(Ref(t), <<c.name>>) /\ Silent(h.signals)
<1> DEFINE entity   == EntityName(Profile, c.name)
           resolved == {n \in NameMatches(entity) : Len(n[1].pk) = 1}
<1>1. PICK m \in NameMatches(entity) : h = NamedBy(t, c, m)
  BY ByNameIs
<1>2. h.signals = buildSignals(t, c, entity, m, Ambiguous(resolved)) /\ h.child = KeyRef(Ref(t), <<c.name>>)
  BY <1>1, CandidateFields DEF NamedBy
<1>3. m[2].kind \in NameKinds
  BY MatchSignals
<1>4. ASSUME NEW s \in h.signals PROVE s = m[2] \/ (Plain(s) /\ s.kind \notin NameKinds \cup UsageKinds)
  <2> DEFINE match == CompareTypes(c.type, Column(m[1], m[1].pk[1]).type)
             leads == IndexLeads(t, <<c.name>>)
             spoken == entity \in c.mentions \cup t.mentions
             generic == entity \in Profile.generic /\ m[1].rows \in 0..(SmallTableRows - 1)
             target == IF Ambiguous(resolved) THEN "ambiguous_target" ELSE "unique_target"
  <2>1. h.signals = {m[2], TypeSignal(match), Signal(target)}
                    \cup Optional(leads, "child_indexed") \cup Optional(spoken, "comment_mention")
                    \cup Optional(~c.nullable, "not_null") \cup Optional(generic, "generic_domain_name")
    BY <1>2, Zenon DEF buildSignals
  <2>2. target \in {"ambiguous_target", "unique_target"}
    OBVIOUS
  <2> HIDE DEF match, leads, spoken, generic, target
  <2>3. \/ s = m[2] \/ s = TypeSignal(match) \/ s = Signal(target)
        \/ \E kind \in {"child_indexed", "comment_mention", "not_null", "generic_domain_name"} : s = Signal(kind)
    BY <2>1 DEF Optional
  <2> QED BY <2>2, <2>3, SignalIsPlain, TypeIsPlain DEF NameKinds, UsageKinds, Sources
<1>5. Distinct(h.signals)
  BY <1>3, <1>4, DistinctBeside
<1>6. Silent(h.signals)
  BY <1>3, <1>4 DEF Silent, NameKinds, UsageKinds, Sources
<1> QED BY <1>2, <1>5, <1>6

KeyedTo(child, u) ==
    Candidate(KeyRef(Ref(child), Reading1(child, u).columns), KeyRef(Ref(u), u.pk), compositeSignals(child, u))

LEMMA KeyedOnce ==
    ASSUME CatalogRead, NEW child, NEW h \in ByKey(child), NEW k \in ByKey(child), Pair(h) = Pair(k)
    PROVE  h = k
<1>1. PICK u \in Resolved(child) : h = KeyedTo(child, u)
  BY DEF ByKey, KeyedTo
<1>2. PICK v \in Resolved(child) : k = KeyedTo(child, v)
  BY DEF ByKey, KeyedTo
<1>3. Ref(u) = Ref(v)
  BY <1>1, <1>2, CandidateFields DEF KeyedTo, Pair, KeyRef
<1>4. u = v
  BY <1>3, TableOfRef DEF Resolved, compositeTargets
<1> QED BY <1>1, <1>2, <1>4

LEMMA KeyedSignals ==
    ASSUME CatalogRead, NEW child, NEW h \in ByKey(child)
    PROVE  /\ Distinct(h.signals) /\ h.child.table = Ref(child) /\ Len(h.child.columns) # 1
           /\ Silent(h.signals)
<1>1. PICK u \in Resolved(child) : h = KeyedTo(child, u)
  BY DEF ByKey, KeyedTo
<1> DEFINE r == Reading1(child, u)
           arity == [kind |-> "composite_arity", weight |-> arityWeight(Len(u.pk)), detail |-> ""]
<1>2. r \in Complete(child, u)
  <2>1. ASSUME Complete(child, u) = {} PROVE FALSE
    <3>1. Cardinality(Complete(child, u)) = Cardinality({})
      BY <2>1, Zenon
    <3> QED BY <3>1, FS_EmptySet DEF Resolved
  <2> QED BY <2>1 DEF Reading1
<1>3. Len(r.columns) = Len(u.pk) /\ r \in Readings(child, u) /\ Len(u.pk) >= 2
  BY <1>2 DEF Complete, Resolved, compositeTargets
<1>4. \A s \in r.name : \E f : s = NameSignal(f.origin)
  <2> HIDE DEF r
  <2>1. CASE r = [columns |-> resolveMirror(child, u), name |-> {}]
    BY <2>1
  <2>2. CASE r \in {[columns |-> resolveAnchored(child, u, f), name |-> {NameSignal(f.origin)}] :
                        f \in Anchoring(child, u)}
    <3>1. PICK f : r = [columns |-> resolveAnchored(child, u, f), name |-> {NameSignal(f.origin)}]
      BY <2>2
    <3> QED BY <3>1
  <2> QED BY <1>3, <2>1, <2>2 DEF Readings
<1>5. \A s \in r.name : Plain(s) /\ s.kind \in NameKinds
  BY <1>4, SignalIsPlain DEF NameSignal, NameKinds
<1>6. h.signals = compositeSignals(child, u) /\ h.child = KeyRef(Ref(child), r.columns)
  BY <1>1, CandidateFields DEF KeyedTo
<1>7. ASSUME NEW s \in h.signals
      PROVE  s = arity \/ (Plain(s) /\ s.kind \notin UsageKinds \cup {"composite_arity"})
  <2> HIDE DEF r
  <2> SUFFICES ASSUME s # arity PROVE Plain(s) /\ s.kind \notin UsageKinds \cup {"composite_arity"}
    OBVIOUS
  <2>1. s \in compositeSignals(child, u) /\ r = Reading1(child, u)
    BY <1>6 DEF r
  <2>2. CASE s \in r.name
    BY <1>5, <2>2 DEF NameKinds, UsageKinds, Sources
  <2>3. CASE s \notin r.name
    <3> DEFINE match == compareKeys(Types(child, r.columns), Types(u, u.pk))
               target == IF Ambiguous(Rivals(child, u)) THEN "ambiguous_target" ELSE "unique_target"
               leads == IndexLeads(child, r.columns)
               spoken == u.name \in child.mentions
               full == AllNotNull(child, r.columns)
    <3>1. s \in {arity, TypeSignal(match), Signal(target)} \cup r.name \cup Optional(leads, "child_indexed")
               \cup Optional(spoken, "comment_mention") \cup Optional(full, "not_null")
      BY <2>1, Zenon DEF compositeSignals
    <3>2. target \in {"ambiguous_target", "unique_target"}
      OBVIOUS
    <3> HIDE DEF match, target, leads, spoken, full
    <3>3. \/ s = TypeSignal(match) \/ s = Signal(target) \/ s \in Optional(leads, "child_indexed")
          \/ s \in Optional(spoken, "comment_mention") \/ s \in Optional(full, "not_null")
      BY <2>3, <3>1
    <3>4. Plain(s) /\ s.kind \in {"identical_type", "compatible_type", "ambiguous_target", "unique_target",
                                  "child_indexed", "comment_mention", "not_null"}
      BY <3>2, <3>3, SignalIsPlain, OptionalIsPlain, TypeIsPlain
    <3> QED BY <3>4 DEF UsageKinds, Sources
  <2> QED BY <2>2, <2>3
<1>8. Distinct(h.signals)
  <2> HIDE DEF r
  <2>1. arity.kind = "composite_arity"
    OBVIOUS
  <2> HIDE DEF arity
  <2> QED BY <1>7, <2>1, DistinctBeside
<1>9. Len(r.columns) # 1
  <2>1. u.pk \in Seq(ColumnNames(u))
    BY KeyIsSequence DEF Resolved, compositeTargets
  <2> QED BY <1>3, <2>1
<1>10. Silent(h.signals)
  <2>1. arity.kind \notin UsageKinds
    BY DEF UsageKinds, Sources
  <2> HIDE DEF r, arity
  <2> QED BY <1>7, <2>1 DEF Silent
<1> HIDE DEF r, arity
<1> QED BY <1>6, <1>8, <1>9, <1>10 DEF KeyRef

(* A hypothesis a join creates, and the pair it is for.                     *)
LEMMA BornSignals ==
    ASSUME NEW g, g.source \in UsageKinds, NEW cl
    PROVE  Distinct(Born(cl, g).signals) /\ Pair(Born(cl, g)) = ClaimedPair(cl)
<1> DEFINE arity == [kind |-> "composite_arity", weight |-> arityWeight(Len(cl.names)), detail |-> ""]
           signals == Born(cl, g).signals
<1> DEFINE child == Table(cl.child)
           parent == Table(cl.parent)
           match == compareKeys(Types(child, cl.names), Types(parent, parent.pk))
           leads == IndexLeads(child, cl.names)
           full == AllNotNull(child, cl.names)
           shape == {UsageSignal(g), TypeSignal(match)}
                    \cup (IF Len(cl.names) = 1 THEN {} ELSE {arity})
                    \cup Optional(leads, "child_indexed") \cup Optional(full, "not_null")
<1>0. Born(cl, g) = Candidate(ClaimedPair(cl)[1], ClaimedPair(cl)[2], shape)
  BY Zenon DEF Born
<1>1. signals = shape /\ Pair(Born(cl, g)) = ClaimedPair(cl)
  <2> HIDE DEF shape
  <2> QED BY <1>0, CandidateFields DEF Pair, ClaimedPair
<1>2. ASSUME NEW s \in signals
      PROVE  s = arity \/ s = UsageSignal(g) \/ (Plain(s) /\ s.kind \notin UsageKinds \cup {"composite_arity"})
  <2> HIDE DEF match, leads, full, arity
  <2>1. \/ s = arity \/ s = UsageSignal(g) \/ s = TypeSignal(match)
        \/ \E kind \in {"child_indexed", "not_null"} : s = Signal(kind)
    BY <1>1 DEF Optional
  <2> QED BY <2>1, SignalIsPlain, TypeIsPlain DEF UsageKinds, Sources
<1>3. arity.kind = "composite_arity" /\ UsageSignal(g).kind = g.source /\ g.source # "composite_arity"
  BY DEF UsageSignal, UsageKinds, Sources
<1> HIDE DEF arity, signals
<1>4. \A s \in signals : s = arity \/ s = UsageSignal(g)
                        \/ (Plain(s) /\ s.kind \notin {arity.kind, UsageSignal(g).kind})
  BY <1>2, <1>3
<1>5. Distinct(signals)
  BY <1>3, <1>4, DistinctSignals
<1> QED BY <1>1, <1>5 DEF signals

LEMMA BornOnce ==
    ASSUME NEW g, NEW cl \in Claims(g), NEW k \in Claims(g), ClaimedPair(cl) = ClaimedPair(k)
    PROVE  Born(cl, g) = Born(k, g)
<1>1. cl.child = k.child /\ cl.names = k.names /\ cl.parent = k.parent
  BY DEF ClaimedPair, KeyRef
<1> QED BY <1>1, Zenon DEF Born, ClaimedPair

LEMMA StrengthenedSignals ==
    ASSUME NEW c, Distinct(c.signals), NEW g
    PROVE  Distinct(Strengthened(c, g).signals) /\ Pair(Strengthened(c, g)) = Pair(c)
<1>1. CASE HasSignal(c, g.source)
  BY <1>1 DEF Strengthened
<1>2. CASE ~HasSignal(c, g.source)
  <2>1. /\ Strengthened(c, g).signals = c.signals \cup {UsageSignal(g)}
        /\ Strengthened(c, g).child = c.child /\ Strengthened(c, g).parent = c.parent
    BY <1>2, CandidateFields DEF Strengthened
  <2>2. UsageSignal(g).kind = g.source
    BY DEF UsageSignal
  <2> QED BY <1>2, <2>1, <2>2 DEF HasSignal, Distinct, Pair
<1> QED BY <1>1, <1>2

------------------------------------------------------------------------------
(* The list while it grows.  What is still to be walked has given nothing   *)
(* yet, the index is the list's, and a source is one of the three.          *)
Unwalked == {Ref(t) : t \in pending}

PairsOnce == \A c, d \in Hypotheses : Pair(c) = Pair(d) => c = d

KindsOnce == \A c \in Hypotheses : Distinct(c.signals)

NamesAhead == phase = "names" =>
    \A c \in candidates : Len(c.child.columns) = 1 /\ c.child.table \notin Unwalked

KeysAhead == phase = "composite" =>
    \A c \in candidates : c.child.table \in Unwalked => Len(c.child.columns) = 1

IndexIsTrue == phase = "evidence" => known = {Pair(c) : c \in candidates}

NothingYet == (phase = "probe" => candidates = {}) /\ (phase # "done" => discarded = {})

SourcesNamed ==
    /\ raw \subseteq UsageKinds
    /\ \A j \in joins : j.source \in UsageKinds
    /\ \A g \in groups : g.source \in UsageKinds

OInv == PairsOnce /\ KindsOnce /\ NamesAhead /\ KeysAhead /\ IndexIsTrue /\ NothingYet /\ SourcesNamed

LEMMA OInvInit == Init => OInv
<1> SUFFICES ASSUME Init PROVE OInv
  OBVIOUS
<1>1. Hypotheses = {} /\ candidates = {} /\ discarded = {}
  BY DEF Init, Hypotheses
<1>2. phase = "probe" /\ raw = {} /\ joins = {} /\ groups = {}
  BY DEF Init, ProbeInit
<1> QED BY <1>1, <1>2 DEF OInv, PairsOnce, KindsOnce, NamesAhead, KeysAhead, IndexIsTrue, NothingYet, SourcesNamed

LEMMA SourcesStep ==
    ASSUME SourcesNamed, ProbeNext, UNCHANGED groups PROVE SourcesNamed'
<1>1. CASE ReadViews \/ ReadFunctions \/ ReadStatements
  BY <1>1 DEF ReadViews, ReadFunctions, ReadStatements, extractAll, SourcesNamed, UsageKinds, Sources
<1>2. CASE resolveAgainstCatalog
  <2>1. ASSUME NEW j \in joins' PROVE j.source \in UsageKinds
    <3>1. PICK i \in Extracted : j \in {[pair |-> p, source |-> objects[i].source, object |-> objects[i].object] :
                          p \in {q \in ResolvedPairs(objects[i].joins, catalog) : FirstStated(i, q)}}
      BY <1>2, Zenon DEF resolveAgainstCatalog
    <3>2. j.source = objects[i].source
      BY <3>1
    <3> QED BY <3>2 DEF Extracted, SourcesNamed
  <2> QED BY <1>2, <2>1 DEF resolveAgainstCatalog, SourcesNamed
<1> QED BY <1>1, <1>2 DEF ProbeNext

(* A step that leaves the lists as they are, and opens no walk.             *)
LEMMA ListsStay ==
    ASSUME OInv, UNCHANGED <<candidates, discarded>>
    PROVE  PairsOnce' /\ KindsOnce'
BY DEF OInv, PairsOnce, KindsOnce, Hypotheses, Pair, Distinct

LEMMA AddedOnce ==
    ASSUME OInv, phase # "done", discarded' = discarded, NEW added, candidates' = candidates \cup added,
           \A h, k \in added : Pair(h) = Pair(k) => h = k,
           \A h \in added : Distinct(h.signals),
           \A h \in added, c \in candidates : Pair(h) # Pair(c)
    PROVE  PairsOnce' /\ KindsOnce'
<1>1. Hypotheses = candidates /\ Hypotheses' = candidates \cup added
  BY DEF OInv, NothingYet, Hypotheses
<1>2. \A c, d \in candidates \cup added : Pair(c) = Pair(d) => c = d
  BY <1>1 DEF OInv, PairsOnce
<1>3. \A c \in candidates \cup added : Distinct(c.signals)
  BY <1>1 DEF OInv, KindsOnce
<1>4. PairsOnce'
  BY <1>1, <1>2 DEF PairsOnce, Pair
<1>5. KindsOnce'
  BY <1>1, <1>3 DEF KindsOnce, Distinct
<1> QED BY <1>4, <1>5

LEMMA NamesOnce ==
    ASSUME SInv, OInv, NEW t \in pending, GenerateNames(t) PROVE OInv'
<1> DEFINE added == UNION {ByName(t, c) : c \in Eligibles(t)}
<1>1. /\ phase = "names" /\ phase' = "names" /\ pending' = pending \ {t}
      /\ discarded' = discarded /\ candidates' = candidates \cup added
      /\ UNCHANGED <<catalog, raw, joins, groups>>
  BY DEF GenerateNames, probeVars
<1>2. t \in catalog /\ CatalogRead
  BY DEF SInv
<1>3. \A h \in added : Distinct(h.signals) /\ Len(h.child.columns) = 1 /\ h.child.table = Ref(t)
  <2> SUFFICES ASSUME NEW c \in Eligibles(t), NEW h \in ByName(t, c)
               PROVE  Distinct(h.signals) /\ Len(h.child.columns) = 1 /\ h.child.table = Ref(t)
    OBVIOUS
  <2>1. Distinct(h.signals) /\ h.child = KeyRef(Ref(t), <<c.name>>)
    BY NamedSignals
  <2>2. h.child.table = Ref(t) /\ h.child.columns = <<c.name>>
    BY <2>1 DEF KeyRef
  <2> QED BY <2>1, <2>2
<1>4. \A h, k \in added : Pair(h) = Pair(k) => h = k
  BY <1>2, NamedOnce
<1> HIDE DEF added
<1>5. \A h \in added, c \in candidates : Pair(h) # Pair(c)
  BY <1>1, <1>3 DEF OInv, NamesAhead, Unwalked, Pair
<1>6. PairsOnce' /\ KindsOnce'
  BY <1>1, <1>3, <1>4, <1>5, AddedOnce
<1>7. NamesAhead'
  <2>1. Ref(t) \notin Unwalked'
    BY <1>1, <1>2, TableOfRef DEF Unwalked, SInv
  <2>2. Unwalked' \subseteq Unwalked
    BY <1>1 DEF Unwalked
  <2> QED BY <1>1, <1>3, <2>1, <2>2 DEF OInv, NamesAhead
<1> QED BY <1>1, <1>6, <1>7 DEF OInv, KeysAhead, IndexIsTrue, NothingYet, SourcesNamed

LEMMA KeysOnce ==
    ASSUME SInv, OInv, NEW t \in pending, generateComposite(t) PROVE OInv'
<1> DEFINE added == ByKey(t)
<1>1. /\ phase = "composite" /\ phase' = "composite" /\ pending' = pending \ {t}
      /\ discarded' = discarded /\ candidates' = candidates \cup added
      /\ UNCHANGED <<catalog, raw, joins, groups>>
  BY DEF generateComposite, probeVars
<1>2. t \in catalog /\ CatalogRead
  BY DEF SInv
<1>3. \A h \in added : Distinct(h.signals) /\ Len(h.child.columns) # 1 /\ h.child.table = Ref(t)
  BY <1>2, KeyedSignals
<1>4. \A h, k \in added : Pair(h) = Pair(k) => h = k
  BY <1>2, KeyedOnce
<1> HIDE DEF added
<1>5. \A h \in added, c \in candidates : Pair(h) # Pair(c)
  BY <1>1, <1>3 DEF OInv, KeysAhead, Unwalked, Pair
<1>6. PairsOnce' /\ KindsOnce'
  BY <1>1, <1>3, <1>4, <1>5, AddedOnce
<1>7. KeysAhead'
  <2>1. Ref(t) \notin Unwalked'
    BY <1>1, <1>2, TableOfRef DEF Unwalked, SInv
  <2>2. Unwalked' \subseteq Unwalked
    BY <1>1 DEF Unwalked
  <2> QED BY <1>1, <1>3, <2>1, <2>2 DEF OInv, KeysAhead
<1> QED BY <1>1, <1>6, <1>7 DEF OInv, NamesAhead, IndexIsTrue, NothingYet, SourcesNamed

LEMMA JoinsOnce ==
    ASSUME OInv, NEW g \in groups, applyEvidence(g) PROVE OInv'
<1> DEFINE pairs == {ClaimedPair(cl) : cl \in Claims(g)}
           touched(c) == IF Pair(c) \in pairs \cap known THEN Strengthened(c, g) ELSE c
           fresh == {k \in Claims(g) : ClaimedPair(k) \notin known}
           kept == {touched(c) : c \in candidates}
           born == {Born(cl, g) : cl \in fresh}
<1>1. /\ phase = "evidence" /\ phase' = "evidence" /\ discarded' = discarded
      /\ groups' = groups \ {g} /\ UNCHANGED <<raw, joins>>
  BY DEF applyEvidence, probeVars
<1>2. candidates' = kept \cup born /\ known' = known \cup pairs
  BY Zenon DEF applyEvidence, Index
<1>3. /\ known = {Pair(c) : c \in candidates} /\ Hypotheses = candidates
      /\ g.source \in UsageKinds /\ discarded = {}
  BY <1>1 DEF OInv, IndexIsTrue, NothingYet, Hypotheses, SourcesNamed
<1>4. \A c \in candidates : Pair(touched(c)) = Pair(c) /\ Distinct(touched(c).signals)
  BY <1>3, StrengthenedSignals DEF OInv, KindsOnce
<1>5. \A h \in born : Distinct(h.signals) /\ Pair(h) \in pairs \ known
  BY <1>3, BornSignals
<1>6. \A h, k \in born : Pair(h) = Pair(k) => h = k
  <2> SUFFICES ASSUME NEW cl \in fresh, NEW k \in fresh, Pair(Born(cl, g)) = Pair(Born(k, g))
               PROVE  Born(cl, g) = Born(k, g)
    BY Zenon
  <2>1. ClaimedPair(cl) = ClaimedPair(k)
    BY <1>3, BornSignals
  <2> QED BY <2>1, BornOnce
<1>7. pairs \ known \subseteq {Pair(h) : h \in born}
  <2> SUFFICES ASSUME NEW cl \in fresh PROVE \E h \in born : ClaimedPair(cl) = Pair(h)
    OBVIOUS
  <2> WITNESS Born(cl, g) \in born
  <2> QED BY <1>3, BornSignals
<1> HIDE DEF pairs, touched, fresh, born
<1>8. \A h \in kept : Distinct(h.signals) /\ Pair(h) \in known
  BY <1>3, <1>4
<1>9. \A h, k \in kept : Pair(h) = Pair(k) => h = k
  <2> SUFFICES ASSUME NEW c \in candidates, NEW d \in candidates, Pair(touched(c)) = Pair(touched(d))
               PROVE  touched(c) = touched(d)
    OBVIOUS
  <2>1. Pair(c) = Pair(d)
    BY <1>4
  <2>2. c = d
    BY <1>3, <2>1 DEF OInv, PairsOnce
  <2> QED BY <2>2
<1>10. known \subseteq {Pair(h) : h \in kept}
  BY <1>3, <1>4
<1> HIDE DEF kept
<1>11. Hypotheses' = kept \cup born
  BY <1>1, <1>2, <1>3 DEF Hypotheses
<1>12. PairsOnce'
  <2>1. \A c, d \in kept \cup born : Pair(c) = Pair(d) => c = d
    BY <1>5, <1>6, <1>8, <1>9
  <2> QED BY <1>11, <2>1 DEF PairsOnce, Pair
<1>13. KindsOnce'
  BY <1>5, <1>8, <1>11 DEF KindsOnce, Distinct
<1>14. IndexIsTrue'
  <2>1. known \cup pairs = {Pair(c) : c \in kept \cup born}
    BY <1>5, <1>7, <1>8, <1>10
  <2> QED BY <1>2, <2>1 DEF IndexIsTrue, Pair
<1> QED BY <1>1, <1>3, <1>12, <1>13, <1>14 DEF OInv, NamesAhead, KeysAhead, NothingYet, SourcesNamed

LEMMA OInvStep == SInv /\ OInv /\ [Next]_vars => OInv'
<1> SUFFICES ASSUME SInv, OInv, [Next]_vars PROVE OInv'
  OBVIOUS
<1> USE DEF probeVars
<1>1. CASE Probing
  <2>1. UNCHANGED <<phase, groups, candidates, discarded>> /\ ProbeNext /\ phase = "probe"
    BY <1>1 DEF Probing, inferVars
  <2>2. SourcesNamed'
    BY <2>1, SourcesStep DEF OInv
  <2>3. PairsOnce' /\ KindsOnce'
    BY <2>1, ListsStay
  <2> QED BY <2>1, <2>2, <2>3 DEF OInv, NamesAhead, KeysAhead, IndexIsTrue, NothingYet
<1>2. CASE Begin
  <2>1. /\ UNCHANGED <<raw, joins, groups, candidates, discarded>> /\ phase = "probe" /\ phase' = "names"
        /\ candidates = {}
    BY <1>2 DEF Begin, OInv, NothingYet
  <2>2. PairsOnce' /\ KindsOnce'
    BY <2>1, ListsStay
  <2> QED BY <2>1, <2>2 DEF OInv, NamesAhead, KeysAhead, IndexIsTrue, NothingYet, SourcesNamed
<1>3. ASSUME NEW t \in pending, GenerateNames(t) PROVE OInv'
  BY <1>3, NamesOnce
<1>4. CASE BeginComposite
  <2>1. UNCHANGED <<raw, joins, groups, candidates, discarded>> /\ phase = "names" /\ phase' = "composite"
    BY <1>4 DEF BeginComposite
  <2>2. PairsOnce' /\ KindsOnce'
    BY <2>1, ListsStay
  <2> QED BY <2>1, <2>2 DEF OInv, NamesAhead, KeysAhead, IndexIsTrue, NothingYet, SourcesNamed
<1>5. ASSUME NEW t \in pending, generateComposite(t) PROVE OInv'
  BY <1>5, KeysOnce
<1>6. CASE BeginEvidence
  <2>1. /\ UNCHANGED <<raw, joins, candidates, discarded>> /\ phase = "composite" /\ phase' = "evidence"
        /\ known' = {Pair(c) : c \in candidates} /\ groups' = {GroupOf(j) : j \in joins}
    BY <1>6 DEF BeginEvidence
  <2>2. PairsOnce' /\ KindsOnce'
    BY <2>1, ListsStay
  <2>3. SourcesNamed'
    BY <2>1 DEF OInv, SourcesNamed, GroupOf
  <2>4. IndexIsTrue'
    BY <2>1 DEF IndexIsTrue, Pair
  <2> QED BY <2>1, <2>2, <2>3, <2>4 DEF OInv, NamesAhead, KeysAhead, NothingYet
<1>7. ASSUME NEW g \in groups, applyEvidence(g) PROVE OInv'
  BY <1>7, JoinsOnce
<1>8. CASE finalize
  <2>1. /\ UNCHANGED <<raw, joins, groups>> /\ phase' = "done"
        /\ candidates' \subseteq candidates /\ discarded' \subseteq candidates
    BY <1>8 DEF finalize
  <2>2. Hypotheses' \subseteq Hypotheses
    BY <2>1 DEF Hypotheses
  <2>3. PairsOnce' /\ KindsOnce'
    BY <2>2 DEF OInv, PairsOnce, KindsOnce, Pair, Distinct
  <2> QED BY <2>1, <2>3 DEF OInv, NamesAhead, KeysAhead, IndexIsTrue, NothingYet, SourcesNamed
<1>9. CASE UNCHANGED vars
  <2>1. UNCHANGED <<phase, pending, groups, candidates, known, discarded, raw, joins>>
    BY <1>9 DEF vars, inferVars
  <2>2. PairsOnce' /\ KindsOnce'
    BY <2>1, ListsStay
  <2>3. IndexIsTrue'
    BY <2>1 DEF OInv, IndexIsTrue, Pair
  <2> QED BY <2>1, <2>2, <2>3 DEF OInv, NamesAhead, KeysAhead, Unwalked, NothingYet, SourcesNamed
<1> QED BY <1>1, <1>2, <1>3, <1>4, <1>5, <1>6, <1>7, <1>8, <1>9 DEF Next

(* OneHypothesisPerPair: names, composite keys and joins add to one list    *)
(* through an index, and no pair enters it twice; volume of evidence of one *)
(* kind is one signal.                                                      *)
THEOREM PairsAreOnce == Spec => []OneHypothesisPerPair
<1>1. SInv /\ OInv /\ [Next]_vars => OInv'
  BY OInvStep
<1>2. OInv => OneHypothesisPerPair
  BY DEF OInv, PairsOnce, KindsOnce, Distinct, OneHypothesisPerPair
<1> QED BY <1>1, <1>2, SInvInit, SInvStep, OInvInit, PTL DEF Spec

------------------------------------------------------------------------------
(* Signals of a hypothesis: finitely many, each of a kind and with a weight. *)
Weighed(s) == s.kind \in Kinds /\ s.weight \in Int

Typed(signals) == IsFiniteSet(signals) /\ \A s \in signals : Weighed(s)

LEMMA SignalIsWeighed == ASSUME NEW kind \in DOMAIN Weight PROVE Weighed(Signal(kind))
<1>1. Weight[kind] \in Int /\ kind \in Kinds
  BY DEF Weight, Kinds
<1>2. Signal(kind).kind = kind /\ Signal(kind).weight = Weight[kind]
  BY DEF Signal
<1> QED BY <1>1, <1>2 DEF Weighed

LEMMA KindsOfSignals ==
    /\ \A k \in {"exact_name", "normalized_name", "identical_type", "compatible_type", "unique_target", "child_indexed",
                 "comment_mention", "not_null", "ambiguous_target", "generic_domain_name"} : k \in DOMAIN Weight
    /\ UsageKinds \subseteq DOMAIN Weight
    /\ \A k \in UsageKinds : Weight[k] \in Nat
BY DEF Weight, UsageKinds, Sources

LEMMA OneIsTyped == ASSUME NEW s, Weighed(s) PROVE Typed({s})
BY FS_Singleton DEF Typed

LEMMA BothAreTyped == ASSUME NEW a, Typed(a), NEW b, Typed(b) PROVE Typed(a \cup b)
BY FS_Union DEF Typed

LEMMA ThreeAreTyped ==
    ASSUME NEW x, Weighed(x), NEW y, Weighed(y), NEW z, Weighed(z) PROVE Typed({x, y, z})
<1>1. Typed({x} \cup {y})
  BY OneIsTyped, BothAreTyped
<1>2. Typed(({x} \cup {y}) \cup {z})
  BY <1>1, OneIsTyped, BothAreTyped
<1>3. ({x} \cup {y}) \cup {z} = {x, y, z}
  OBVIOUS
<1> QED BY <1>2, <1>3

LEMMA NoneIsTyped == Typed({})
BY FS_EmptySet DEF Typed

LEMMA OptionalIsTyped ==
    ASSUME NEW condition, NEW kind \in DOMAIN Weight PROVE Typed(Optional(condition, kind))
BY SignalIsWeighed, OneIsTyped, NoneIsTyped DEF Optional

LEMMA TypeIsWeighed == ASSUME NEW match PROVE Weighed(TypeSignal(match))
BY SignalIsWeighed, KindsOfSignals DEF TypeSignal

LEMMA NameIsWeighed == ASSUME NEW origin PROVE Weighed(NameSignal(origin))
BY SignalIsWeighed, KindsOfSignals DEF NameSignal

LEMMA ArityIsWeighed ==
    ASSUME NEW n \in Nat
    PROVE  Weighed([kind |-> "composite_arity", weight |-> arityWeight(n), detail |-> ""])
<1>1. arityWeight(n) \in Int
  BY DEF arityWeight
<1>2. "composite_arity" \in Kinds
  BY DEF Kinds
<1> QED BY <1>1, <1>2 DEF Weighed

(* A score is between zero and one, and more evidence does not lower it.    *)
LEMMA ScoreIsBounded == ASSUME NEW signals, Typed(signals) PROVE score(signals) \in Nat /\ score(signals) <= 10000
<1> DEFINE w == [s \in signals |-> s.weight]
<1>1. \A s \in signals : w[s] \in Int
  BY DEF Typed, Weighed
<1> HIDE DEF w
<1>2. SumFunctionOnSet(w, signals) \in Int
  BY <1>1, SumIsInt DEF Typed
<1>3. PICK total \in Int : total = SumFunctionOnSet(w, signals)
  BY <1>2
<1>4. saturate(total) \in Nat /\ saturate(total) <= 10000
  BY DEF saturate
<1>5. score(signals) = saturate(total)
  BY <1>3, Zenon DEF score, w
<1> QED BY <1>4, <1>5

LEMMA ScoreGrows ==
    ASSUME NEW more, Typed(more), NEW signals \in SUBSET more, \A s \in more \ signals : s.weight \in Nat
    PROVE  score(signals) =< score(more)
<1> DEFINE v == [s \in signals |-> s.weight]
           w == [s \in more |-> s.weight]
<1>1. /\ \A s \in more : w[s] \in Int
      /\ \A s \in more \ signals : w[s] >= 0
      /\ \A s \in signals : v[s] = w[s]
      /\ \A s \in signals : w[s] \in Int
  BY DEF Typed, Weighed
<1>2. IsFiniteSet(more) /\ IsFiniteSet(signals)
  BY FS_Subset DEF Typed
<1> HIDE DEF v, w
<1>3. SumFunctionOnSet(v, signals) = SumFunctionOnSet(w, signals)
  BY <1>1, <1>2, SumIsLocal
<1>4. SumFunctionOnSet(w, signals) =< SumFunctionOnSet(w, more)
  BY <1>1, <1>2, SumOfMore
<1>5. SumFunctionOnSet(w, signals) \in Int /\ SumFunctionOnSet(w, more) \in Int
  BY <1>1, <1>2, SumIsInt
<1>6. saturate(SumFunctionOnSet(v, signals)) =< saturate(SumFunctionOnSet(w, more))
  BY <1>3, <1>4, <1>5 DEF saturate
<1> QED BY <1>6 DEF score, v, w

------------------------------------------------------------------------------
(* A match earns a weighed signal.                                          *)
LEMMA MatchIsWeighed ==
    ASSUME CatalogRead, NEW t \in catalog, NEW c \in t.columns, NEW m \in NameMatches(EntityName(Profile, c.name))
    PROVE  Weighed(m[2])
<1> DEFINE entity == EntityName(Profile, c.name)
<1>1. CASE m \in AffixMatches(entity)
  <2>1. PICK u \in catalog : m \in {<<u, NameSignal(f.origin)>> : f \in {g \in FormsOf(u) : g.value = entity}}
    BY <1>1, Zenon DEF AffixMatches
  <2>2. PICK f : m[2] = NameSignal(f.origin)
    BY <2>1
  <2> QED BY <2>2, NameIsWeighed
<1>2. CASE m \in SimilarMatches(entity)
  <2> DEFINE weight(u) == weightNameSimilarityMax * Similarity(entity, u.name)
  <2>1. PICK u \in {v \in catalog : Similarity(entity, v.name) >= MinNameSimilarity} :
           m = <<u, [kind |-> "name_similarity", detail |-> "", weight |-> weight(u)]>>
    BY <1>2, Zenon DEF SimilarMatches
  <2>2. Similarity(entity, u.name) \in 0..100
    BY <2>1, ScoringAssumption DEF CatalogRead
  <2>3. weight(u) \in Int
    BY <2>2 DEF weightNameSimilarityMax
  <2> HIDE DEF weight
  <2>4. m[2].kind = "name_similarity" /\ m[2].weight = weight(u)
    BY <2>1
  <2>5. "name_similarity" \in Kinds
    BY DEF Kinds
  <2> QED BY <2>3, <2>4, <2>5 DEF Weighed
<1> QED BY <1>1, <1>2 DEF NameMatches

TablesRead(h) == h.child.table \in TableRefs /\ h.parent.table \in TableRefs

Proper(h) == Typed(h.signals) /\ TablesRead(h)

LEMMA NamedIsProper ==
    ASSUME CatalogRead, NEW t \in catalog, NEW c \in Eligibles(t), NEW h \in ByName(t, c)
    PROVE  Proper(h)
<1> DEFINE entity   == EntityName(Profile, c.name)
           resolved == {n \in NameMatches(entity) : Len(n[1].pk) = 1}
<1>1. PICK m \in NameMatches(entity) : h = NamedBy(t, c, m)
  BY ByNameIs
<1>2. /\ h.signals = buildSignals(t, c, entity, m, Ambiguous(resolved))
      /\ h.child = KeyRef(Ref(t), <<c.name>>) /\ h.parent = KeyRef(Ref(m[1]), m[1].pk)
  BY <1>1, CandidateFields DEF NamedBy
<1>3. Weighed(m[2])
  BY MatchIsWeighed DEF Eligibles
<1>4. Typed(h.signals)
  <2> DEFINE match == CompareTypes(c.type, Column(m[1], m[1].pk[1]).type)
             leads == IndexLeads(t, <<c.name>>)
             spoken == entity \in c.mentions \cup t.mentions
             generic == entity \in Profile.generic /\ m[1].rows \in 0..(SmallTableRows - 1)
             target == IF Ambiguous(resolved) THEN "ambiguous_target" ELSE "unique_target"
             null == ~c.nullable
  <2>1. h.signals = {m[2], TypeSignal(match), Signal(target)}
                    \cup Optional(leads, "child_indexed") \cup Optional(spoken, "comment_mention")
                    \cup Optional(null, "not_null") \cup Optional(generic, "generic_domain_name")
    BY <1>2, Zenon DEF buildSignals
  <2>2. target \in DOMAIN Weight
    BY KindsOfSignals
  <2> HIDE DEF match, leads, spoken, generic, target, null
  <2>3. Weighed(TypeSignal(match)) /\ Weighed(Signal(target))
    BY <2>2, SignalIsWeighed, TypeIsWeighed
  <2>4. Typed({m[2], TypeSignal(match), Signal(target)})
    BY <1>3, <2>3, ThreeAreTyped
  <2>5. /\ Typed(Optional(leads, "child_indexed")) /\ Typed(Optional(spoken, "comment_mention"))
        /\ Typed(Optional(null, "not_null")) /\ Typed(Optional(generic, "generic_domain_name"))
    BY KindsOfSignals, OptionalIsTyped
  <2> QED BY <2>1, <2>4, <2>5, BothAreTyped
<1>5. TablesRead(h)
  <2>1. m[1] \in catalog
    BY MatchesAreTables
  <2>2. h.child.table = Ref(t) /\ h.parent.table = Ref(m[1])
    BY <1>2 DEF KeyRef
  <2> QED BY <2>1, <2>2 DEF TablesRead, TableRefs
<1> QED BY <1>4, <1>5 DEF Proper

LEMMA ReadingIsComplete ==
    ASSUME NEW child, NEW u \in Resolved(child)
    PROVE  Reading1(child, u) \in Complete(child, u) /\ u \in catalog /\ Len(u.pk) >= 2
<1>1. ASSUME Complete(child, u) = {} PROVE FALSE
  <2>1. Cardinality(Complete(child, u)) = Cardinality({})
    BY <1>1, Zenon
  <2> QED BY <2>1, FS_EmptySet DEF Resolved
<1> QED BY <1>1 DEF Reading1, Resolved, compositeTargets

LEMMA KeyedIsProper ==
    ASSUME CatalogRead, NEW child \in catalog, NEW h \in ByKey(child)
    PROVE  Proper(h)
<1>1. PICK u \in Resolved(child) : h = KeyedTo(child, u)
  BY DEF ByKey, KeyedTo
<1> DEFINE r == Reading1(child, u)
           arity == [kind |-> "composite_arity", weight |-> arityWeight(Len(u.pk)), detail |-> ""]
<1>2. r \in Readings(child, u) /\ u \in catalog
  BY ReadingIsComplete DEF Complete
<1>3. /\ h.signals = compositeSignals(child, u)
      /\ h.child = KeyRef(Ref(child), r.columns) /\ h.parent = KeyRef(Ref(u), u.pk)
  BY <1>1, CandidateFields DEF KeyedTo
<1>4. Typed(r.name)
  <2> HIDE DEF r
  <2>1. CASE r = [columns |-> resolveMirror(child, u), name |-> {}]
    BY <2>1, NoneIsTyped
  <2>2. CASE r \in {[columns |-> resolveAnchored(child, u, f), name |-> {NameSignal(f.origin)}] :
                        f \in Anchoring(child, u)}
    <3>1. PICK f : r = [columns |-> resolveAnchored(child, u, f), name |-> {NameSignal(f.origin)}]
      BY <2>2
    <3>2. r.name = {NameSignal(f.origin)}
      BY <3>1
    <3> QED BY <3>2, NameIsWeighed, OneIsTyped
  <2> QED BY <1>2, <2>1, <2>2 DEF Readings
<1>5. Weighed(arity)
  <2>1. Len(u.pk) \in Nat
    BY <1>2, KeyIsSequence
  <2> QED BY <2>1, ArityIsWeighed
<1>6. Typed(h.signals)
  <2> DEFINE match == compareKeys(Types(child, r.columns), Types(u, u.pk))
             leads == IndexLeads(child, r.columns)
             spoken == u.name \in child.mentions
             full == AllNotNull(child, r.columns)
             target == IF Ambiguous(Rivals(child, u)) THEN "ambiguous_target" ELSE "unique_target"
  <2>1. h.signals = {arity, TypeSignal(match), Signal(target)} \cup r.name
                    \cup Optional(leads, "child_indexed") \cup Optional(spoken, "comment_mention")
                    \cup Optional(full, "not_null")
    BY <1>3, Zenon DEF compositeSignals
  <2>2. target \in DOMAIN Weight
    BY KindsOfSignals
  <2> HIDE DEF match, leads, spoken, full, target, r, arity
  <2>3. Weighed(TypeSignal(match)) /\ Weighed(Signal(target))
    BY <2>2, SignalIsWeighed, TypeIsWeighed
  <2>4. Typed({arity, TypeSignal(match), Signal(target)})
    BY <1>5, <2>3, ThreeAreTyped
  <2>5. /\ Typed(Optional(leads, "child_indexed")) /\ Typed(Optional(spoken, "comment_mention"))
        /\ Typed(Optional(full, "not_null"))
    BY KindsOfSignals, OptionalIsTyped
  <2> QED BY <1>4, <2>1, <2>4, <2>5, BothAreTyped
<1>7. TablesRead(h)
  <2>1. h.child.table = Ref(child) /\ h.parent.table = Ref(u)
    BY <1>3 DEF KeyRef
  <2> QED BY <1>2, <2>1 DEF TablesRead, TableRefs
<1> QED BY <1>6, <1>7 DEF Proper

(* What a group claims is about tables of the catalog.                      *)
LEMMA ClaimsAreRead ==
    ASSUME CatalogRead, JoinsResolved, NEW g, g.tables \subseteq TableRefs, NEW cl \in Claims(g)
    PROVE  cl.child \in TableRefs /\ cl.parent \in TableRefs /\ Len(cl.names) \in Nat
<1>1. CASE cl \in SingleClaims(g)
  <2>1. PICK d \in UNION {j.pair \X j.pair : j \in JoinsOf(g)} :
           cl = [child |-> d[1].table, names |-> <<d[1].column>>, parent |-> d[2].table]
    BY <1>1 DEF SingleClaims
  <2>2. PICK j \in joins : d \in j.pair \X j.pair
    BY DEF JoinsOf
  <2>3. d[1].table \in TableRefs /\ d[2].table \in TableRefs
    BY <2>2 DEF JoinsResolved
  <2>4. cl.names = <<d[1].column>>
    BY <2>1
  <2>5. Len(<<d[1].column>>) = 1
    OBVIOUS
  <2> QED BY <2>1, <2>3, <2>4, <2>5
<1>2. CASE cl \in CompositeClaims(g)
  <2> DEFINE Names(parent, equated) ==
                 [i \in DOMAIN parent.pk |-> (CHOOSE e \in equated : e[1] = parent.pk[i])[2]]
  <2>1. PICK o \in g.tables \X g.tables :
           cl = [child |-> o[2], names |-> Names(Table(o[1]), Equated(g, o[1], o[2])), parent |-> o[1]]
    BY <1>2, Zenon DEF CompositeClaims
  <2>2. Table(o[1]).pk \in Seq(ColumnNames(Table(o[1])))
    BY TableIsRead, KeyIsSequence
  <2>3. /\ cl.child = o[2] /\ cl.parent = o[1]
        /\ cl.names = Names(Table(o[1]), Equated(g, o[1], o[2]))
    BY <2>1
  <2> DEFINE names == cl.names
             N == Len(Table(o[1]).pk)
  <2>4. names = [i \in 1..N |-> names[i]] /\ N \in Nat
    BY <2>2, <2>3
  <2> HIDE DEF Names, names, N
  <2>5. Len(names) = N
    BY <2>4
  <2> QED BY <2>3, <2>4, <2>5 DEF names
<1> QED BY <1>1, <1>2 DEF Claims

LEMMA UsageIsWeighed == ASSUME NEW g, g.source \in UsageKinds PROVE Weighed(UsageSignal(g))
<1>1. g.source \in Kinds /\ Weight[g.source] \in Int
  BY KindsOfSignals DEF Kinds, Weight, UsageKinds, Sources
<1>2. UsageSignal(g).kind = g.source /\ UsageSignal(g).weight = Weight[g.source]
  BY DEF UsageSignal
<1> QED BY <1>1, <1>2 DEF Weighed

LEMMA BornIsProper ==
    ASSUME CatalogRead, JoinsResolved, NEW g, g.tables \subseteq TableRefs, g.source \in UsageKinds,
           NEW cl \in Claims(g)
    PROVE  Proper(Born(cl, g))
<1> DEFINE arity == [kind |-> "composite_arity", weight |-> arityWeight(Len(cl.names)), detail |-> ""]
           child == Table(cl.child)
           parent == Table(cl.parent)
           match == compareKeys(Types(child, cl.names), Types(parent, parent.pk))
           leads == IndexLeads(child, cl.names)
           full == AllNotNull(child, cl.names)
           some == IF Len(cl.names) = 1 THEN {} ELSE {arity}
           shape == {UsageSignal(g), TypeSignal(match)} \cup some
                    \cup Optional(leads, "child_indexed") \cup Optional(full, "not_null")
<1>1. Born(cl, g) = Candidate(ClaimedPair(cl)[1], ClaimedPair(cl)[2], shape)
  BY Zenon DEF Born
<1>2. cl.child \in TableRefs /\ cl.parent \in TableRefs /\ Len(cl.names) \in Nat
  BY ClaimsAreRead
<1>3. Typed(some)
  <2>1. Weighed(arity)
    BY <1>2, ArityIsWeighed
  <2> HIDE DEF arity
  <2> QED BY <2>1, OneIsTyped, NoneIsTyped
<1>4. Typed({UsageSignal(g), TypeSignal(match)})
  <2> HIDE DEF match
  <2>1. Typed({UsageSignal(g), TypeSignal(match), TypeSignal(match)})
    BY UsageIsWeighed, TypeIsWeighed, ThreeAreTyped
  <2>2. {UsageSignal(g), TypeSignal(match), TypeSignal(match)} = {UsageSignal(g), TypeSignal(match)}
    OBVIOUS
  <2> QED BY <2>1, <2>2
<1>5. Typed(shape)
  <2> HIDE DEF match, leads, full, some
  <2>1. Typed(Optional(leads, "child_indexed")) /\ Typed(Optional(full, "not_null"))
    BY KindsOfSignals, OptionalIsTyped
  <2> QED BY <1>3, <1>4, <2>1, BothAreTyped
<1> HIDE DEF shape
<1>6. /\ Born(cl, g).signals = shape
      /\ Born(cl, g).child.table = cl.child /\ Born(cl, g).parent.table = cl.parent
  BY <1>1, CandidateFields DEF ClaimedPair, KeyRef
<1> QED BY <1>2, <1>5, <1>6 DEF Proper, TablesRead

LEMMA StrengthenedIsProper ==
    ASSUME NEW c, Proper(c), NEW g, g.source \in UsageKinds PROVE Proper(Strengthened(c, g))
<1>1. CASE HasSignal(c, g.source)
  BY <1>1 DEF Strengthened
<1>2. CASE ~HasSignal(c, g.source)
  <2>1. /\ Strengthened(c, g).signals = c.signals \cup {UsageSignal(g)}
        /\ Strengthened(c, g).child = c.child /\ Strengthened(c, g).parent = c.parent
    BY <1>2, CandidateFields DEF Strengthened
  <2>2. Typed({UsageSignal(g)})
    BY UsageIsWeighed, OneIsTyped
  <2> QED BY <2>1, <2>2, BothAreTyped DEF Proper, TablesRead
<1> QED BY <1>1, <1>2

LEMMA SkippedByNameRead ==
    ASSUME NEW t, NEW c, NEW k \in SkippedByName(t, c) PROVE k.target \in TableRefs
<1> DEFINE entity == EntityName(Profile, c.name)
<1>1. PICK m \in NameMatches(entity) :
         k = Skip(t, <<c.name>>, m[1], IF m[1].pk = <<>> THEN "no key" ELSE "arity")
  BY Zenon DEF SkippedByName
<1>2. k.target = Ref(m[1])
  BY <1>1 DEF Skip
<1> QED BY <1>2, MatchesAreTables DEF TableRefs

LEMMA SkippedByKeyRead ==
    ASSUME NEW child, NEW k \in SkippedByKey(child) PROVE k.target \in TableRefs
<1>1. PICK u \in compositeTargets, reason \in {"ambiguous position", "partial key", "ambiguous signature"} :
         k = Skip(child, <<>>, u, reason)
  BY DEF SkippedByKey, Resolved
<1>2. k.target = Ref(u)
  BY <1>1 DEF Skip
<1> QED BY <1>2 DEF TableRefs, compositeTargets

------------------------------------------------------------------------------
AllProper == \A c \in Hypotheses : Proper(c)

SkipsRead == \A k \in skipped : k.target \in TableRefs

TInv == phase \in Phases /\ reading \in Reading /\ available \in BOOLEAN /\ AllProper /\ SkipsRead

LEMMA StayProper ==
    ASSUME AllProper, catalog' = catalog,
           \A h \in Hypotheses' : h \in Hypotheses \/ Proper(h)
    PROVE  AllProper'
<1>1. \A h : Proper(h) => Proper(h)'
  BY DEF Proper, TablesRead, TableRefs, Typed, Weighed
<1> QED BY <1>1 DEF AllProper

LEMMA StaySkipped ==
    ASSUME SkipsRead, catalog' = catalog,
           \A k \in skipped' : k \in skipped \/ k.target \in TableRefs
    PROVE  SkipsRead'
BY DEF SkipsRead, TableRefs

LEMMA TInvInit == Init => TInv
BY DEF Init, ProbeInit, TInv, AllProper, SkipsRead, Hypotheses, Phases, Reading, Sources

LEMMA TInvStep == SInv /\ OInv /\ TInv /\ [Next]_vars => TInv'
<1> SUFFICES ASSUME SInv, OInv, TInv, [Next]_vars PROVE TInv'
  OBVIOUS
<1> USE DEF TInv
<1>1. CASE Probing
  <2>1. /\ reading' \in Reading /\ available' \in BOOLEAN /\ catalog' = catalog
        /\ UNCHANGED <<phase, candidates, discarded, skipped>>
    BY <1>1 DEF Probing, inferVars, ProbeNext, ReadViews, ReadFunctions, ReadStatements,
                resolveAgainstCatalog, Reading, Sources
  <2>2. AllProper' /\ SkipsRead'
    BY <2>1, StayProper, StaySkipped DEF Hypotheses
  <2> QED BY <2>1, <2>2
<1>2. CASE Begin \/ BeginComposite \/ BeginEvidence
  <2>1. /\ phase' \in Phases
        /\ UNCHANGED <<reading, available, catalog, candidates, discarded, skipped>>
    BY <1>2 DEF Begin, BeginComposite, BeginEvidence, probeVars, Phases
  <2>2. AllProper' /\ SkipsRead'
    BY <2>1, StayProper, StaySkipped DEF Hypotheses
  <2> QED BY <2>1, <2>2
<1>3. ASSUME NEW t \in pending, GenerateNames(t) PROVE TInv'
  <2>1. /\ UNCHANGED <<phase, reading, available, catalog, discarded>>
        /\ candidates' = candidates \cup UNION {ByName(t, c) : c \in Eligibles(t)}
        /\ skipped' = skipped \cup UNION {SkippedByName(t, c) : c \in Eligibles(t)}
    BY <1>3 DEF GenerateNames, probeVars
  <2>2. CatalogRead /\ t \in catalog
    BY DEF SInv
  <2>3. \A h \in Hypotheses' : h \in Hypotheses \/ Proper(h)
    BY <2>1, <2>2, NamedIsProper DEF Hypotheses
  <2>4. \A k \in skipped' : k \in skipped \/ k.target \in TableRefs
    BY <2>1, SkippedByNameRead
  <2> QED BY <2>1, <2>3, <2>4, StayProper, StaySkipped
<1>4. ASSUME NEW t \in pending, generateComposite(t) PROVE TInv'
  <2>1. /\ UNCHANGED <<phase, reading, available, catalog, discarded>>
        /\ candidates' = candidates \cup ByKey(t) /\ skipped' = skipped \cup SkippedByKey(t)
    BY <1>4 DEF generateComposite, probeVars
  <2>2. CatalogRead /\ t \in catalog
    BY DEF SInv
  <2>3. \A h \in Hypotheses' : h \in Hypotheses \/ Proper(h)
    BY <2>1, <2>2, KeyedIsProper DEF Hypotheses
  <2>4. \A k \in skipped' : k \in skipped \/ k.target \in TableRefs
    BY <2>1, SkippedByKeyRead
  <2> QED BY <2>1, <2>3, <2>4, StayProper, StaySkipped
<1>5. ASSUME NEW g \in groups, applyEvidence(g) PROVE TInv'
  <2> DEFINE pairs == {ClaimedPair(cl) : cl \in Claims(g)}
             touched(c) == IF Pair(c) \in pairs \cap known THEN Strengthened(c, g) ELSE c
             born == {Born(cl, g) : cl \in {k \in Claims(g) : ClaimedPair(k) \notin known}}
  <2>1. /\ UNCHANGED <<phase, reading, available, catalog, discarded, skipped>>
        /\ candidates' = {touched(c) : c \in candidates} \cup born
    BY <1>5, Zenon DEF applyEvidence, probeVars
  <2>2. g.source \in UsageKinds /\ g.tables \subseteq TableRefs /\ CatalogRead /\ JoinsResolved
    BY DEF SInv, GroupsResolved, OInv, SourcesNamed
  <2>3. \A h \in born : Proper(h)
    BY <2>2, BornIsProper
  <2>4. \A c \in candidates : Proper(touched(c))
    BY <2>2, StrengthenedIsProper DEF AllProper, Hypotheses
  <2> HIDE DEF born, touched
  <2>5. \A h \in Hypotheses' : h \in Hypotheses \/ Proper(h)
    BY <2>1, <2>3, <2>4 DEF Hypotheses
  <2> QED BY <2>1, <2>5, StayProper, StaySkipped
<1>6. CASE finalize
  <2>1. /\ UNCHANGED <<reading, available, catalog, skipped>> /\ phase' = "done"
        /\ candidates' \subseteq candidates /\ discarded' \subseteq candidates
    BY <1>6 DEF finalize, probeVars
  <2>2. AllProper' /\ SkipsRead'
    BY <2>1, StayProper, StaySkipped DEF Hypotheses
  <2> QED BY <2>1, <2>2 DEF Phases
<1>7. CASE UNCHANGED vars
  <2>1. UNCHANGED <<phase, reading, available, catalog, candidates, discarded, skipped>>
    BY <1>7 DEF vars, inferVars, probeVars
  <2>2. AllProper' /\ SkipsRead'
    BY <2>1, StayProper, StaySkipped DEF Hypotheses
  <2> QED BY <2>1, <2>2
<1> QED BY <1>1, <1>2, <1>3, <1>4, <1>5, <1>6, <1>7 DEF Next

(* TypeOK: in particular a score is between zero and one however many       *)
(* signals fire, for every profile and every table of weights a catalog can *)
(* make apply at once, because every layer composes it by score.            *)
THEOREM TypesOfTheInference == Spec => []TypeOK
<1>1. SInv /\ TInv => TypeOK
  <2> SUFFICES ASSUME SInv, TInv PROVE TypeOK
    OBVIOUS
  <2>1. ASSUME NEW c \in Hypotheses
        PROVE  /\ c.score \in Nat /\ c.score <= 10000 /\ {c.child.table, c.parent.table} \subseteq {Ref(t) : t \in catalog}
               /\ {s.kind : s \in c.signals} \subseteq Kinds
    <3>1. Proper(c) /\ Sound(c)
      BY DEF TInv, AllProper, SInv, AllSound
    <3>2. Typed(c.signals) /\ TablesRead(c) /\ c.score = score(c.signals)
      BY <3>1 DEF Proper, Sound
    <3>3. {s.kind : s \in c.signals} \subseteq Kinds
      BY <3>2 DEF Typed, Weighed
    <3>4. c.score \in Nat /\ c.score <= 10000
      BY <3>2, ScoreIsBounded
    <3>5. {c.child.table, c.parent.table} \subseteq {Ref(t) : t \in catalog}
      BY <3>2 DEF TablesRead, TableRefs
    <3> QED BY <3>3, <3>4, <3>5
  <2>2. /\ phase \in Phases /\ reading \in Reading /\ available \in BOOLEAN
        /\ pending \subseteq catalog
        /\ \A k \in skipped : k.target \in {Ref(t) : t \in catalog}
    BY DEF TInv, SInv, SkipsRead, TableRefs
  <2> QED BY <2>1, <2>2 DEF TypeOK
<1> QED BY <1>1, SInvInit, SInvStep, OInvInit, OInvStep, TInvInit, TInvStep, PTL DEF Spec

(* What the names give does not depend on when they are read.               *)
LEMMA MatchesFixed == ASSUME catalog' = catalog, NEW CONSTANT entity PROVE NameMatches(entity)' = NameMatches(entity)
BY DEF NameMatches, AffixMatches, SimilarMatches

LEMMA NamesFixed == ASSUME catalog' = catalog, NEW CONSTANT t, NEW CONSTANT c PROVE ByName(t, c)' = ByName(t, c)
BY Zenon DEF ByName, NameMatches, AffixMatches, SimilarMatches

LEMMA KeysFixed == ASSUME catalog' = catalog, NEW CONSTANT t PROVE ByKey(t)' = ByKey(t)
BY Zenon DEF ByKey, Resolved, compositeTargets, Guesswork, Rivals, compositeSignals

LEMMA GivenFixed == ASSUME catalog' = catalog PROVE NamesAlone' = NamesAlone
BY NamesFixed, KeysFixed DEF NamesAlone

(* The tables a column's name resolves to, whichever of them fit.           *)
NameTargets(c) == {m \in NameMatches(EntityName(Profile, c.name)) : Len(m[1].pk) = 1}

LEMMA NamedIs ==
    ASSUME NEW t, NEW c, NEW h \in ByName(t, c)
    PROVE  \E m \in NameTargets(c) :
              /\ h.child = KeyRef(Ref(t), <<c.name>>) /\ h.parent = KeyRef(Ref(m[1]), m[1].pk)
              /\ Ambiguous(NameTargets(c)) => HasSignal(h, "ambiguous_target")
<1> DEFINE entity   == EntityName(Profile, c.name)
           resolved == {m \in NameMatches(entity) : Len(m[1].pk) = 1}
           fitting  == {m \in resolved : CompareTypes(c.type, Column(m[1], m[1].pk[1]).type) # "incompatible"}
<1>1. PICK m \in fitting :
         h = Candidate(KeyRef(Ref(t), <<c.name>>), KeyRef(Ref(m[1]), m[1].pk),
                       buildSignals(t, c, entity, m, Ambiguous(resolved)))
  BY Zenon DEF ByName
<1>2. m \in NameTargets(c) /\ resolved = NameTargets(c)
  BY <1>1, Zenon DEF NameTargets
<1> HIDE DEF entity, resolved, fitting
<1>3. /\ h.child = KeyRef(Ref(t), <<c.name>>) /\ h.parent = KeyRef(Ref(m[1]), m[1].pk)
      /\ h.signals = buildSignals(t, c, entity, m, Ambiguous(resolved))
  BY <1>1, CandidateFields
<1>4. ASSUME Ambiguous(resolved) PROVE HasSignal(h, "ambiguous_target")
  <2>1. Signal("ambiguous_target") \in h.signals
    BY <1>3, <1>4, Zenon DEF buildSignals
  <2> QED BY <2>1, SignalIsPlain DEF HasSignal
<1> QED BY <1>2, <1>3, <1>4

LEMMA CatalogIsFinite == ASSUME CatalogRead PROVE IsFiniteSet(catalog)
BY InputAssumption DEF CatalogRead

LEMMA TargetsAreFinite == ASSUME CatalogRead, NEW c PROVE IsFiniteSet(NameTargets(c))
<1> DEFINE told == [m \in NameTargets(c) |-> m[1]]
<1>1. \A m \in NameTargets(c) : told[m] \in catalog
  BY MatchesAreTables DEF NameTargets
<1>2. \A m, n \in NameTargets(c) : told[m] = told[n] => m = n
  BY OneMatchPerTable DEF NameTargets
<1> HIDE DEF told
<1> QED BY <1>1, <1>2, CatalogIsFinite, FinitelyManyTold

LEMMA NamedRivals ==
    ASSUME CatalogRead, NEW t \in catalog, NEW c \in Eligibles(t), NEW h \in ByName(t, c),
           NEW u \in catalog, NEW d \in Eligibles(u), NEW k \in ByName(u, d),
           h.child = k.child, h.parent # k.parent
    PROVE  HasSignal(h, "ambiguous_target") /\ HasSignal(k, "ambiguous_target")
<1>1. PICK m \in NameTargets(c) :
         /\ h.child = KeyRef(Ref(t), <<c.name>>) /\ h.parent = KeyRef(Ref(m[1]), m[1].pk)
         /\ Ambiguous(NameTargets(c)) => HasSignal(h, "ambiguous_target")
  BY NamedIs
<1>2. PICK n \in NameTargets(d) :
         /\ k.child = KeyRef(Ref(u), <<d.name>>) /\ k.parent = KeyRef(Ref(n[1]), n[1].pk)
         /\ Ambiguous(NameTargets(d)) => HasSignal(k, "ambiguous_target")
  BY NamedIs
<1>3. Ref(t) = Ref(u) /\ <<c.name>> = <<d.name>>
  <2>1. KeyRef(Ref(t), <<c.name>>) = KeyRef(Ref(u), <<d.name>>)
    BY <1>1, <1>2, Zenon
  <2> QED BY <2>1, KeyRefIs
<1>4. t = u
  BY <1>3, TableOfRef
<1>5. c = d
  <2>1. c.name = d.name
    BY <1>3
  <2> QED BY <1>4, <2>1, InputAssumption DEF CatalogRead, Eligibles
<1>6. m # n
  BY <1>1, <1>2
<1>7. Ambiguous(NameTargets(c))
  BY <1>5, <1>6, TargetsAreFinite, TwoAreMoreThanOne DEF Ambiguous
<1> QED BY <1>1, <1>2, <1>5, <1>7

LEMMA KeyedIs ==
    ASSUME NEW child, NEW h \in ByKey(child)
    PROVE  \E a \in Resolved(child) :
              /\ h.child = KeyRef(Ref(child), Reading1(child, a).columns) /\ h.parent = KeyRef(Ref(a), a.pk)
              /\ Ambiguous(Rivals(child, a)) => HasSignal(h, "ambiguous_target")
<1>1. PICK a \in Resolved(child) : h = KeyedTo(child, a)
  BY DEF ByKey, KeyedTo
<1>2. /\ h.child = KeyRef(Ref(child), Reading1(child, a).columns) /\ h.parent = KeyRef(Ref(a), a.pk)
      /\ h.signals = compositeSignals(child, a)
  BY <1>1, CandidateFields DEF KeyedTo
<1>3. ASSUME Ambiguous(Rivals(child, a)) PROVE HasSignal(h, "ambiguous_target")
  <2>1. Signal("ambiguous_target") \in h.signals
    BY <1>2, <1>3, Zenon DEF compositeSignals
  <2> QED BY <2>1, SignalIsPlain DEF HasSignal
<1> QED BY <1>2, <1>3

LEMMA KeyedRivals ==
    ASSUME CatalogRead, NEW t \in catalog, NEW h \in ByKey(t), NEW u \in catalog, NEW k \in ByKey(u),
           h.child = k.child, h.parent # k.parent
    PROVE  HasSignal(h, "ambiguous_target") /\ HasSignal(k, "ambiguous_target")
<1>1. PICK a \in Resolved(t) :
         /\ h.child = KeyRef(Ref(t), Reading1(t, a).columns) /\ h.parent = KeyRef(Ref(a), a.pk)
         /\ Ambiguous(Rivals(t, a)) => HasSignal(h, "ambiguous_target")
  BY KeyedIs
<1>2. PICK b \in Resolved(u) :
         /\ k.child = KeyRef(Ref(u), Reading1(u, b).columns) /\ k.parent = KeyRef(Ref(b), b.pk)
         /\ Ambiguous(Rivals(u, b)) => HasSignal(k, "ambiguous_target")
  BY KeyedIs
<1>3. Ref(t) = Ref(u) /\ Reading1(t, a).columns = Reading1(u, b).columns
  <2>1. KeyRef(Ref(t), Reading1(t, a).columns) = KeyRef(Ref(u), Reading1(u, b).columns)
    BY <1>1, <1>2, Zenon
  <2> QED BY <2>1, KeyRefIs
<1>4. t = u
  BY <1>3, TableOfRef
<1>5. a # b
  BY <1>1, <1>2
<1>6. /\ a \in Rivals(t, a) /\ b \in Rivals(t, a) /\ a \in Rivals(u, b) /\ b \in Rivals(u, b)
  BY <1>3, <1>4 DEF Rivals
<1>7. IsFiniteSet(Rivals(t, a)) /\ IsFiniteSet(Rivals(u, b))
  <2>1. Rivals(t, a) \subseteq catalog /\ Rivals(u, b) \subseteq catalog
    BY DEF Rivals, Resolved, compositeTargets
  <2> QED BY <2>1, CatalogIsFinite, FS_Subset
<1>8. Ambiguous(Rivals(t, a)) /\ Ambiguous(Rivals(u, b))
  BY <1>5, <1>6, <1>7, TwoAreMoreThanOne DEF Ambiguous
<1> QED BY <1>1, <1>2, <1>8

(* One column or several.                                                   *)
LEMMA ColumnsTell ==
    ASSUME CatalogRead, NEW t, NEW c, NEW h \in ByName(t, c), NEW u \in catalog, NEW k \in ByKey(u)
    PROVE  h.child # k.child
<1>1. h.child = KeyRef(Ref(t), <<c.name>>)
  BY NamedIs
<1>2. h.child.columns = <<c.name>>
  BY <1>1 DEF KeyRef
<1>3. Len(h.child.columns) = 1
  BY <1>2
<1> QED BY <1>3, KeyedSignals

LEMMA RivalsOfNames ==
    ASSUME CatalogRead, NEW h \in NamesAlone, NEW k \in NamesAlone, h.child = k.child, h.parent # k.parent
    PROVE  HasSignal(h, "ambiguous_target") /\ HasSignal(k, "ambiguous_target")
<1>1. PICK t \in catalog : (\E c \in Eligibles(t) : h \in ByName(t, c)) \/ h \in ByKey(t)
  BY DEF NamesAlone
<1>2. PICK u \in catalog : (\E c \in Eligibles(u) : k \in ByName(u, c)) \/ k \in ByKey(u)
  BY DEF NamesAlone
<1>3. CASE (\E c \in Eligibles(t) : h \in ByName(t, c)) /\ (\E c \in Eligibles(u) : k \in ByName(u, c))
  BY <1>3, NamedRivals
<1>4. CASE h \in ByKey(t) /\ k \in ByKey(u)
  BY <1>4, KeyedRivals
<1>5. CASE (\E c \in Eligibles(t) : h \in ByName(t, c)) /\ k \in ByKey(u)
  BY <1>5, ColumnsTell
<1>6. CASE h \in ByKey(t) /\ (\E c \in Eligibles(u) : k \in ByName(u, c))
  BY <1>6, ColumnsTell
<1> QED BY <1>1, <1>2, <1>3, <1>4, <1>5, <1>6

------------------------------------------------------------------------------
(* A hypothesis is what the names gave, or a join has spoken for it.        *)
Spoken(c) == \E kind \in UsageKinds : HasSignal(c, kind)

FromInv == \A c \in Hypotheses : c \in NamesAlone \/ Spoken(c)

LEMMA UsageSpeaks ==
    ASSUME NEW g, g.source \in UsageKinds, NEW c, UsageSignal(g) \in c.signals PROVE Spoken(c)
BY DEF UsageSignal, Spoken, HasSignal

LEMMA BornHasSignal == ASSUME NEW g, NEW cl PROVE HasSignal(Born(cl, g), g.source)
<1>1. PICK more : Born(cl, g) = Candidate(ClaimedPair(cl)[1], ClaimedPair(cl)[2], {UsageSignal(g)} \cup more)
  <2> DEFINE child == Table(cl.child)
             parent == Table(cl.parent)
             fits == TypeSignal(compareKeys(Types(child, cl.names), Types(parent, parent.pk)))
             some == IF Len(cl.names) = 1 THEN {}
                     ELSE {[kind |-> "composite_arity", weight |-> arityWeight(Len(cl.names)), detail |-> ""]}
             leads == Optional(IndexLeads(child, cl.names), "child_indexed")
             full == Optional(AllNotNull(child, cl.names), "not_null")
  <2>1. Born(cl, g) = Candidate(ClaimedPair(cl)[1], ClaimedPair(cl)[2], {UsageSignal(g), fits} \cup some \cup leads \cup full)
    BY Zenon DEF Born
  <2> HIDE DEF fits, some, leads, full
  <2>2. {UsageSignal(g), fits} \cup some \cup leads \cup full = {UsageSignal(g)} \cup ({fits} \cup some \cup leads \cup full)
    OBVIOUS
  <2> QED BY <2>1, <2>2
<1>2. UsageSignal(g) \in Born(cl, g).signals /\ UsageSignal(g).kind = g.source
  BY <1>1, CandidateFields DEF UsageSignal
<1> QED BY <1>2 DEF HasSignal

LEMMA BornSpeaks == ASSUME NEW g, g.source \in UsageKinds, NEW cl PROVE Spoken(Born(cl, g))
BY BornHasSignal DEF Spoken

LEMMA StrengthenedSpeaks == ASSUME NEW g, g.source \in UsageKinds, NEW c PROVE Spoken(Strengthened(c, g))
<1>1. CASE HasSignal(c, g.source)
  BY <1>1 DEF Strengthened, Spoken
<1>2. CASE ~HasSignal(c, g.source)
  <2>1. Strengthened(c, g).signals = c.signals \cup {UsageSignal(g)}
    BY <1>2, CandidateFields DEF Strengthened
  <2> QED BY <2>1, UsageSpeaks
<1> QED BY <1>1, <1>2

LEMMA StayFrom ==
    ASSUME FromInv, catalog' = catalog,
           \A h \in Hypotheses' : h \in Hypotheses \cup NamesAlone \/ Spoken(h)
    PROVE  FromInv'
<1>1. \A h : Spoken(h) => Spoken(h)'
  BY DEF Spoken, HasSignal
<1>2. NamesAlone' = NamesAlone
  BY GivenFixed
<1> QED BY <1>1, <1>2 DEF FromInv

LEMMA FromInvStep == SInv /\ OInv /\ FromInv /\ [Next]_vars => FromInv'
<1> SUFFICES ASSUME SInv, OInv, FromInv, [Next]_vars PROVE FromInv'
  OBVIOUS
<1>1. ASSUME catalog' = catalog, Hypotheses' \subseteq Hypotheses PROVE FromInv'
  BY <1>1, StayFrom
<1>2. CASE Probing
  <2>1. catalog' = catalog
    BY <1>2, ProbeStep DEF Probing, SInv
  <2>2. Hypotheses' = Hypotheses
    BY <1>2 DEF Probing, inferVars, Hypotheses
  <2> QED BY <1>1, <2>1, <2>2
<1>3. CASE Begin \/ BeginComposite \/ BeginEvidence \/ finalize \/ UNCHANGED vars
  <2>1. catalog' = catalog
    BY <1>3 DEF Begin, BeginComposite, BeginEvidence, finalize, vars, probeVars
  <2>2. Hypotheses' \subseteq Hypotheses
    BY <1>3 DEF Begin, BeginComposite, BeginEvidence, finalize, vars, inferVars, Hypotheses
  <2> QED BY <1>1, <2>1, <2>2
<1>4. ASSUME NEW t \in pending, GenerateNames(t) PROVE FromInv'
  <2>1. /\ UNCHANGED <<catalog, discarded>> /\ t \in catalog
        /\ candidates' = candidates \cup UNION {ByName(t, c) : c \in Eligibles(t)}
    BY <1>4 DEF GenerateNames, probeVars, SInv
  <2>2. \A h \in Hypotheses' : h \in Hypotheses \cup NamesAlone
    BY <2>1 DEF Hypotheses, NamesAlone
  <2> QED BY <2>1, <2>2, StayFrom
<1>5. ASSUME NEW t \in pending, generateComposite(t) PROVE FromInv'
  <2>1. UNCHANGED <<catalog, discarded>> /\ t \in catalog /\ candidates' = candidates \cup ByKey(t)
    BY <1>5 DEF generateComposite, probeVars, SInv
  <2>2. \A h \in Hypotheses' : h \in Hypotheses \cup NamesAlone
    BY <2>1 DEF Hypotheses, NamesAlone
  <2> QED BY <2>1, <2>2, StayFrom
<1>6. ASSUME NEW g \in groups, applyEvidence(g) PROVE FromInv'
  <2> DEFINE pairs == {ClaimedPair(cl) : cl \in Claims(g)}
             touched(c) == IF Pair(c) \in pairs \cap known THEN Strengthened(c, g) ELSE c
             born == {Born(cl, g) : cl \in {k \in Claims(g) : ClaimedPair(k) \notin known}}
  <2>1. UNCHANGED <<catalog, discarded>> /\ candidates' = {touched(c) : c \in candidates} \cup born
    BY <1>6, Zenon DEF applyEvidence, probeVars
  <2>2. g.source \in UsageKinds
    BY DEF OInv, SourcesNamed
  <2>3. \A h \in born : Spoken(h)
    BY <2>2, BornSpeaks
  <2>4. \A c \in candidates : touched(c) = c \/ Spoken(touched(c))
    BY <2>2, StrengthenedSpeaks
  <2> HIDE DEF born, touched
  <2>5. \A h \in Hypotheses' : h \in Hypotheses \cup NamesAlone \/ Spoken(h)
    BY <2>1, <2>3, <2>4 DEF Hypotheses
  <2> QED BY <2>1, <2>5, StayFrom
<1> QED BY <1>2, <1>3, <1>4, <1>5, <1>6 DEF Next

(* RivalsAreMarked: among what the names gave, two parents for the same     *)
(* columns are both counted when either is marked; and evidence, which may  *)
(* create a third parent nobody counted, leaves its own signal.             *)
THEOREM RivalsAreToldApart == Spec => []RivalsAreMarked
<1>1. Init => FromInv
  BY DEF Init, FromInv, Hypotheses
<1>2. SInv /\ FromInv => RivalsAreMarked
  <2> SUFFICES ASSUME SInv, FromInv, NEW c \in Hypotheses, NEW d \in Hypotheses,
                      c.child = d.child, c.parent # d.parent, ~Spoken(c), ~Spoken(d)
               PROVE  HasSignal(c, "ambiguous_target") /\ HasSignal(d, "ambiguous_target")
    BY DEF RivalsAreMarked, Spoken
  <2> QED BY RivalsOfNames DEF FromInv, SInv
<1> QED BY <1>1, <1>2, SInvInit, SInvStep, OInvInit, OInvStep, FromInvStep, PTL DEF Spec

(* What a table's names and keys give, and the skips they leave.            *)
NamesOf(t) == UNION {ByName(t, c) : c \in Eligibles(t)}

NameSkips(t) == UNION {SkippedByName(t, c) : c \in Eligibles(t)}

LEMMA AloneIs == NamesAlone = UNION {NamesOf(t) \cup ByKey(t) : t \in catalog}
BY Zenon DEF NamesAlone, NamesOf

LEMMA SkipsFixed ==
    ASSUME catalog' = catalog, NEW CONSTANT t, NEW CONSTANT c PROVE SkippedByName(t, c)' = SkippedByName(t, c)
BY Zenon DEF SkippedByName, NameMatches, AffixMatches, SimilarMatches

LEMMA WalksFixed ==
    ASSUME catalog' = catalog, NEW CONSTANT t
    PROVE  /\ NamesOf(t)' = NamesOf(t) /\ ByKey(t)' = ByKey(t)
           /\ NameSkips(t)' = NameSkips(t) /\ SkippedByKey(t)' = SkippedByKey(t)
<1>1. NamesOf(t)' = NamesOf(t)
  BY NamesFixed DEF NamesOf
<1>2. NameSkips(t)' = NameSkips(t)
  <2>1. \A c : SkippedByName(t, c)' = SkippedByName(t, c)
    BY SkipsFixed
  <2> QED BY <2>1 DEF NameSkips
<1>3. SkippedByKey(t)' = SkippedByKey(t)
  BY Zenon DEF SkippedByKey, Resolved, compositeTargets, Guesswork, Rivals
<1> QED BY <1>1, <1>2, <1>3, KeysFixed

LEMMA NoTargets ==
    ASSUME compositeTargets = {}, NEW t PROVE ByKey(t) = {} /\ SkippedByKey(t) = {}
<1>1. Resolved(t) = {}
  BY DEF Resolved
<1> QED BY <1>1 DEF ByKey, SkippedByKey

(* The tables walked so far, by name and by key.                            *)
WalkedByName ==
    IF phase = "probe" THEN {} ELSE IF phase = "names" THEN catalog \ pending ELSE catalog

WalkedByKey ==
    IF phase \in {"probe", "names"} THEN {} ELSE IF phase = "composite" THEN catalog \ pending ELSE catalog

(* A hypothesis the joins have added to, and what it was.                   *)
Grown(n, c) ==
    /\ Pair(c) = Pair(n) /\ n.signals \subseteq c.signals
    /\ \A s \in c.signals \ n.signals : s.kind \in UsageKinds /\ s.weight \in Nat

GivenInv == phase \notin {"evidence", "done"} =>
    /\ \A t \in WalkedByName : NamesOf(t) \subseteq candidates
    /\ \A t \in WalkedByKey : ByKey(t) \subseteq candidates

SkipsInv ==
    /\ \A t \in WalkedByName : NameSkips(t) \subseteq skipped
    /\ \A t \in WalkedByKey : SkippedByKey(t) \subseteq skipped

GrownInv == phase \in {"evidence", "done"} => \A n \in NamesAlone : \E c \in Hypotheses : Grown(n, c)

CutInv == phase = "done" => \A c \in discarded : cutScore(c) < MinScore

LInv == GivenInv /\ SkipsInv /\ GrownInv /\ CutInv

LEMMA LInvInit == Init => LInv
BY DEF Init, LInv, GivenInv, SkipsInv, GrownInv, CutInv, WalkedByName, WalkedByKey

(* A step that walks no table, or walks one and keeps what it gives.        *)
LEMMA StayGiven ==
    ASSUME LInv, catalog' = catalog, phase' \notin {"evidence", "done"},
           candidates \subseteq candidates', skipped \subseteq skipped',
           phase \notin {"evidence", "done"},
           \A t \in WalkedByName' : t \in WalkedByName
                                    \/ (NamesOf(t) \subseteq candidates' /\ NameSkips(t) \subseteq skipped'),
           \A t \in WalkedByKey' : t \in WalkedByKey
                                   \/ (ByKey(t) \subseteq candidates' /\ SkippedByKey(t) \subseteq skipped')
    PROVE  LInv'
<1>1. \A t \in WalkedByName' : NamesOf(t) \subseteq candidates' /\ NameSkips(t) \subseteq skipped'
  BY DEF LInv, GivenInv, SkipsInv
<1>2. \A t \in WalkedByKey' : ByKey(t) \subseteq candidates' /\ SkippedByKey(t) \subseteq skipped'
  BY DEF LInv, GivenInv, SkipsInv
<1>3. GivenInv' /\ SkipsInv'
  BY <1>1, <1>2, WalksFixed DEF GivenInv, SkipsInv
<1> QED BY <1>3 DEF LInv, GrownInv, CutInv

LEMMA GrownIsGrown ==
    ASSUME NEW n, NEW c, Grown(n, c), NEW g, g.source \in UsageKinds
    PROVE  Grown(n, Strengthened(c, g))
<1>1. CASE HasSignal(c, g.source)
  BY <1>1 DEF Strengthened
<1>2. CASE ~HasSignal(c, g.source)
  <2>1. /\ Strengthened(c, g).signals = c.signals \cup {UsageSignal(g)}
        /\ Pair(Strengthened(c, g)) = Pair(c)
    BY <1>2, CandidateFields DEF Strengthened, Pair
  <2>2. UsageSignal(g).kind \in UsageKinds /\ UsageSignal(g).weight \in Nat
    BY KindsOfSignals DEF UsageSignal
  <2> QED BY <2>1, <2>2 DEF Grown
<1> QED BY <1>1, <1>2

LEMMA CutIsInt == ASSUME NEW c, Proper(c) PROVE cutScore(c) \in Int
<1>1. Typed({s \in c.signals : s.kind # "generic_domain_name"})
  BY FS_Subset DEF Proper, Typed
<1>2. cutScore(c) \in Nat
  BY <1>1, ScoreIsBounded DEF cutScore
<1> QED BY <1>2

LEMMA StayGrown ==
    ASSUME LInv, catalog' = catalog, phase \in {"evidence", "done"}, phase' = "evidence", skipped' = skipped,
           \A n \in NamesAlone : \E c \in Hypotheses' : Grown(n, c)
    PROVE  LInv'
<1>1. \A n, c : Grown(n, c)' <=> Grown(n, c)
  BY DEF Grown, Pair
<1>2. GrownInv'
  BY <1>1, GivenFixed DEF GrownInv
<1>3. SkipsInv'
  BY WalksFixed DEF LInv, SkipsInv, WalkedByName, WalkedByKey
<1> QED BY <1>2, <1>3 DEF LInv, GivenInv, CutInv

LEMMA GrownStep ==
    ASSUME SInv, OInv, LInv, NEW g \in groups, applyEvidence(g) PROVE LInv'
<1> DEFINE pairs == {ClaimedPair(cl) : cl \in Claims(g)}
           touched(c) == IF Pair(c) \in pairs \cap known THEN Strengthened(c, g) ELSE c
           born == {Born(cl, g) : cl \in {k \in Claims(g) : ClaimedPair(k) \notin known}}
<1>1. /\ UNCHANGED <<catalog, discarded, skipped>> /\ phase = "evidence" /\ phase' = "evidence"
      /\ candidates' = {touched(c) : c \in candidates} \cup born
  BY Zenon DEF applyEvidence, probeVars
<1>2. g.source \in UsageKinds /\ Hypotheses = candidates
  BY <1>1 DEF OInv, SourcesNamed, NothingYet, Hypotheses
<1>3. ASSUME NEW n \in NamesAlone PROVE \E c \in Hypotheses' : Grown(n, c)
  <2>1. PICK c \in candidates : Grown(n, c)
    BY <1>1, <1>2 DEF LInv, GrownInv
  <2>2. Grown(n, touched(c))
    BY <1>2, <2>1, GrownIsGrown
  <2> HIDE DEF touched, born
  <2>3. touched(c) \in Hypotheses'
    BY <1>1, <2>1 DEF Hypotheses
  <2> QED BY <2>2, <2>3
<1> QED BY <1>1, <1>3, StayGrown

(* The cut moves hypotheses from one list to the other, and loses none.     *)
LEMMA CutKeepsAll == ASSUME OInv, TInv, finalize PROVE Hypotheses' = Hypotheses
<1>1. /\ phase = "evidence" /\ candidates' = {c \in candidates : cutScore(c) >= MinScore}
      /\ discarded' = {c \in candidates : cutScore(c) < MinScore}
  BY DEF finalize
<1>2. Hypotheses = candidates
  BY <1>1 DEF OInv, NothingYet, Hypotheses
<1>3. \A c \in candidates : cutScore(c) \in Int
  BY <1>2, CutIsInt DEF TInv, AllProper
<1>4. \A c \in candidates : cutScore(c) >= MinScore \/ cutScore(c) < MinScore
  BY <1>3, ScoringAssumption
<1> QED BY <1>1, <1>2, <1>4 DEF Hypotheses

LEMMA CutStep ==
    ASSUME SInv, OInv, TInv, LInv, finalize PROVE LInv'
<1>1. /\ UNCHANGED <<catalog, skipped>> /\ phase = "evidence" /\ phase' = "done"
      /\ candidates' = {c \in candidates : cutScore(c) >= MinScore}
      /\ discarded' = {c \in candidates : cutScore(c) < MinScore}
  BY DEF finalize, probeVars
<1>3. Hypotheses' = Hypotheses
  BY CutKeepsAll
<1>4. GrownInv'
  <2>1. \A n, c : Grown(n, c)' <=> Grown(n, c)
    BY DEF Grown, Pair
  <2> QED BY <1>1, <1>3, <2>1, GivenFixed DEF LInv, GrownInv
<1>5. SkipsInv'
  BY <1>1, WalksFixed DEF LInv, SkipsInv, WalkedByName, WalkedByKey
<1>6. CutInv'
  <2>1. \A c : cutScore(c)' = cutScore(c)
    BY DEF cutScore
  <2> QED BY <1>1, <2>1 DEF CutInv
<1> QED BY <1>1, <1>4, <1>5, <1>6 DEF LInv, GivenInv

LEMMA BeginEvidenceStep ==
    ASSUME SInv, OInv, LInv, BeginEvidence PROVE LInv'
<1>1. /\ UNCHANGED <<catalog, pending, candidates, discarded, skipped>>
      /\ phase = "composite" /\ pending = {} /\ phase' = "evidence"
  BY DEF BeginEvidence, probeVars
<1>2. WalkedByName = catalog /\ WalkedByKey = catalog
  BY <1>1 DEF WalkedByName, WalkedByKey
<1>3. NamesAlone \subseteq Hypotheses'
  <2>1. NamesAlone \subseteq candidates
    BY <1>1, <1>2, AloneIs DEF LInv, GivenInv
  <2> QED BY <1>1, <2>1 DEF Hypotheses
<1>4. GrownInv'
  <2>1. \A n, c : Grown(n, c)' <=> Grown(n, c)
    BY DEF Grown, Pair
  <2>2. \A n : Grown(n, n)
    BY DEF Grown
  <2> QED BY <1>1, <1>3, <2>1, <2>2, GivenFixed DEF GrownInv
<1>5. SkipsInv'
  BY <1>1, <1>2, WalksFixed DEF LInv, SkipsInv, WalkedByName, WalkedByKey
<1> QED BY <1>1, <1>4, <1>5 DEF LInv, GivenInv, CutInv

LEMMA LInvStep == SInv /\ OInv /\ TInv /\ LInv /\ [Next]_vars => LInv'
<1> SUFFICES ASSUME SInv, OInv, TInv, LInv, [Next]_vars PROVE LInv'
  OBVIOUS
<1>1. CASE Probing
  <2>1. catalog' = catalog
    BY <1>1, ProbeStep DEF Probing, SInv
  <2>2. phase = "probe" /\ UNCHANGED inferVars
    BY <1>1 DEF Probing
  <2> QED BY <2>1, <2>2, StayGiven DEF WalkedByName, WalkedByKey, inferVars
<1>2. CASE Begin
  <2>1. /\ UNCHANGED <<catalog, candidates, skipped>>
        /\ phase = "probe" /\ phase' = "names" /\ pending' = catalog
    BY <1>2 DEF Begin, probeVars
  <2>2. WalkedByName' = {} /\ WalkedByKey' = {}
    BY <2>1 DEF WalkedByName, WalkedByKey
  <2> QED BY <2>1, <2>2, StayGiven
<1>3. ASSUME NEW t \in pending, GenerateNames(t) PROVE LInv'
  <2>1. /\ catalog' = catalog /\ phase = "names" /\ phase' = "names" /\ pending' = pending \ {t}
        /\ candidates' = candidates \cup NamesOf(t) /\ skipped' = skipped \cup NameSkips(t)
    BY <1>3 DEF GenerateNames, probeVars, NamesOf, NameSkips
  <2>2. WalkedByName' \subseteq WalkedByName \cup {t} /\ WalkedByKey' = {}
    BY <2>1 DEF WalkedByName, WalkedByKey
  <2> QED BY <2>1, <2>2, StayGiven
<1>4. CASE BeginComposite
  <2>1. /\ UNCHANGED <<catalog, candidates, skipped>>
        /\ phase = "names" /\ phase' = "composite" /\ pending = {}
        /\ pending' = IF compositeTargets = {} THEN {} ELSE catalog
    BY <1>4 DEF BeginComposite, probeVars
  <2>2. WalkedByName' = WalkedByName
    BY <2>1 DEF WalkedByName
  <2>3. \A t \in WalkedByKey' : ByKey(t) = {} /\ SkippedByKey(t) = {}
    <3>1. CASE compositeTargets = {}
      BY <3>1, NoTargets
    <3>2. CASE compositeTargets # {}
      BY <2>1, <3>2 DEF WalkedByKey
    <3> QED BY <3>1, <3>2
  <2> QED BY <2>1, <2>2, <2>3, StayGiven
<1>5. ASSUME NEW t \in pending, generateComposite(t) PROVE LInv'
  <2>1. /\ catalog' = catalog /\ phase = "composite" /\ phase' = "composite" /\ pending' = pending \ {t}
        /\ candidates' = candidates \cup ByKey(t) /\ skipped' = skipped \cup SkippedByKey(t)
    BY <1>5 DEF generateComposite, probeVars
  <2>2. WalkedByName' = WalkedByName /\ WalkedByKey' \subseteq WalkedByKey \cup {t}
    BY <2>1 DEF WalkedByName, WalkedByKey
  <2> QED BY <2>1, <2>2, StayGiven
<1>6. CASE BeginEvidence
  BY <1>6, BeginEvidenceStep
<1>7. ASSUME NEW g \in groups, applyEvidence(g) PROVE LInv'
  BY <1>7, GrownStep
<1>8. CASE finalize
  BY <1>8, CutStep
<1>9. CASE UNCHANGED vars
  <2>1. UNCHANGED <<catalog, phase, pending, candidates, discarded, skipped>>
    BY <1>9 DEF vars, probeVars, inferVars
  <2>2. WalkedByName' = WalkedByName /\ WalkedByKey' = WalkedByKey /\ Hypotheses' = Hypotheses
    BY <2>1 DEF WalkedByName, WalkedByKey, Hypotheses
  <2>3. SkipsInv' /\ GivenInv'
    BY <2>1, <2>2, WalksFixed DEF LInv, SkipsInv, GivenInv
  <2>4. GrownInv'
    <3>1. \A n, c : Grown(n, c)' <=> Grown(n, c)
      BY DEF Grown, Pair
    <3> QED BY <2>1, <2>2, <3>1, GivenFixed DEF LInv, GrownInv
  <2>5. CutInv'
    <3>1. \A c : cutScore(c)' = cutScore(c)
      BY DEF cutScore
    <3> QED BY <2>1, <3>1 DEF LInv, CutInv
  <2> QED BY <2>3, <2>4, <2>5 DEF LInv
<1> QED BY <1>1, <1>2, <1>3, <1>4, <1>5, <1>6, <1>7, <1>8, <1>9 DEF Next

------------------------------------------------------------------------------
(* More signals of use do not cost a hypothesis its place.                  *)
LEMMA GrownScores ==
    ASSUME NEW n, NEW c, Proper(c), Grown(n, c)
    PROVE  score(n.signals) =< score(c.signals) /\ cutScore(n) =< cutScore(c)
<1>1. Typed(c.signals) /\ n.signals \in SUBSET c.signals
  BY DEF Proper, Grown
<1>2. \A s \in c.signals \ n.signals : s.weight \in Nat
  BY DEF Grown
<1>3. score(n.signals) =< score(c.signals)
  BY <1>1, <1>2, ScoreGrows
<1> DEFINE some == {s \in n.signals : s.kind # "generic_domain_name"}
           more == {s \in c.signals : s.kind # "generic_domain_name"}
<1>4. Typed(more) /\ some \in SUBSET more /\ \A s \in more \ some : s.weight \in Nat
  BY <1>1, <1>2, FS_Subset DEF Typed
<1> HIDE DEF some, more
<1>5. score(some) =< score(more)
  BY <1>4, ScoreGrows
<1> QED BY <1>3, <1>5 DEF cutScore, some, more

LEMMA GivenIsSound == ASSUME CatalogRead, NEW n \in NamesAlone PROVE n.score = score(n.signals) /\ Proper(n)
BY NamesAreSound, KeyIsSound, NamedIsProper, KeyedIsProper DEF NamesAlone, Sound

(* EvidenceOnlyAdds: whatever the joins say, in whatever order the groups   *)
(* are applied, a hypothesis of the names keeps its signals, its score does *)
(* not fall, and a cut it would have passed alone it passes.                *)
THEOREM EvidenceNeverTakes == Spec => []EvidenceOnlyAdds
<1>1. SInv /\ OInv /\ TInv /\ LInv => EvidenceOnlyAdds
  <2> SUFFICES ASSUME SInv, OInv, TInv, LInv, phase = "done", NEW n \in NamesAlone
               PROVE  \E c \in Hypotheses : /\ Pair(c) = Pair(n)
                                            /\ n.signals \subseteq c.signals /\ n.score =< c.score
                                            /\ cutScore(n) >= MinScore => c \in candidates
    BY DEF EvidenceOnlyAdds
  <2>1. PICK c \in Hypotheses : Grown(n, c)
    BY DEF LInv, GrownInv
  <2>2. Proper(c) /\ c.score = score(c.signals) /\ n.score = score(n.signals) /\ Proper(n)
    BY GivenIsSound DEF SInv, AllSound, Sound, TInv, AllProper
  <2>3. n.score =< c.score /\ cutScore(n) =< cutScore(c)
    BY <2>1, <2>2, GrownScores
  <2>4. ASSUME cutScore(n) >= MinScore PROVE c \in candidates
    <3>1. cutScore(n) \in Int /\ cutScore(c) \in Int
      BY <2>2, CutIsInt
    <3>2. ~ (cutScore(c) < MinScore)
      BY <2>3, <2>4, <3>1, ScoringAssumption
    <3> QED BY <3>2 DEF LInv, CutInv, Hypotheses
  <2> QED BY <2>1, <2>3, <2>4 DEF Grown
<1> QED BY <1>1, SInvInit, SInvStep, OInvInit, OInvStep, TInvInit, TInvStep, LInvInit, LInvStep, PTL DEF Spec

(* A table has finitely many forms, and a child finitely many readings of   *)
(* a key.                                                                   *)
LEMMA SingularsAreFinite == ASSUME NEW name PROVE IsFiniteSet(depluralize(Profile, name))
<1> DEFINE rules == {r \in Profile.plural : IsSuffix(r.suffix, name) /\ Len(r.suffix) < Len(name)}
           singular == [r \in rules |-> WithoutSuffix(name, r.suffix) \o r.singular]
<1>1. IsFiniteSet(rules)
  BY ScoringAssumption, FS_Subset
<1>2. depluralize(Profile, name) = {singular[r] : r \in rules}
  BY DEF depluralize
<1> HIDE DEF rules, singular
<1> QED BY <1>1, <1>2, ImageIsFinite

LEMMA TaggedIsFinite == ASSUME NEW S, IsFiniteSet(S), NEW n PROVE IsFiniteSet({<<v, n>> : v \in S})
<1> DEFINE tagged == [v \in S |-> <<v, n>>]
<1>1. {<<v, n>> : v \in S} = {tagged[v] : v \in S}
  OBVIOUS
<1> HIDE DEF tagged
<1> QED BY <1>1, ImageIsFinite

LEMMA FormsAreFinite == ASSUME NEW t PROVE IsFiniteSet(FormsOf(t))
<1> DEFINE all == Derivations(Profile, t.name)
           ways == {d \in all : d[1] # <<>>}
           values == {d[1] : d \in ways}
           form == [v \in values |-> [value |-> v, origin |-> Min({d[2] : d \in {w \in ways : w[1] = v}})]]
           value == [d \in ways |-> d[1]]
<1>1. IsFiniteSet(all)
  <2> DEFINE stripped == StripPrefix(t.name, Profile.tablePrefixes)
             plain == {<<t.name, OriginExact>>}
             plural == {<<v, 2>> : v \in depluralize(Profile, t.name)}
             bare == {<<stripped, 1>>}
             both == {<<v, 3>> : v \in depluralize(Profile, stripped)}
  <2>1. all = plain \cup plural \cup (IF stripped = t.name THEN {} ELSE bare \cup both)
    BY Zenon DEF Derivations
  <2>2. IsFiniteSet(plain) /\ IsFiniteSet(bare)
    BY FS_Singleton
  <2>3. IsFiniteSet(plural) /\ IsFiniteSet(both)
    BY SingularsAreFinite, TaggedIsFinite
  <2> HIDE DEF all, stripped, plain, plural, bare, both
  <2>4. IsFiniteSet(plain \cup plural) /\ IsFiniteSet(bare \cup both)
    BY <2>2, <2>3, FS_Union
  <2>5. IsFiniteSet(IF stripped = t.name THEN {} ELSE bare \cup both)
    BY <2>4, FS_EmptySet
  <2> QED BY <2>1, <2>4, <2>5, FS_Union
<1>2. IsFiniteSet(ways)
  BY <1>1, FS_Subset
<1>3. values = {value[d] : d \in ways}
  OBVIOUS
<1>4. IsFiniteSet(values)
  <2> HIDE DEF value, ways, values
  <2> QED BY <1>2, <1>3, ImageIsFinite
<1>5. FormsOf(t) = {form[v] : v \in values}
  <2>1. FormsOf(t) = {[value |-> v, origin |-> Min({d[2] : d \in {w \in ways : w[1] = v}})] : v \in values}
    BY Zenon DEF FormsOf, TableForms
  <2> HIDE DEF values
  <2> QED BY <2>1
<1> HIDE DEF values, form
<1> QED BY <1>4, <1>5, ImageIsFinite

LEMMA CompleteIsFinite == ASSUME NEW child, NEW u PROVE IsFiniteSet(Complete(child, u))
<1> DEFINE forms == Anchoring(child, u)
           reading1 == [f \in forms |-> [columns |-> resolveAnchored(child, u, f), name |-> {NameSignal(f.origin)}]]
           mirror == [columns |-> resolveMirror(child, u), name |-> {}]
<1>1. IsFiniteSet(forms)
  BY FormsAreFinite, FS_Subset DEF Anchoring
<1>2. Readings(child, u) = {mirror} \cup {reading1[f] : f \in forms}
  BY Zenon DEF Readings
<1>3. IsFiniteSet({reading1[f] : f \in forms})
  <2> HIDE DEF reading1, forms
  <2> QED BY <1>1, ImageIsFinite
<1>4. IsFiniteSet({mirror})
  BY FS_Singleton
<1> HIDE DEF mirror, reading1, forms
<1>5. IsFiniteSet(Readings(child, u))
  BY <1>2, <1>3, <1>4, FS_Union
<1>6. Complete(child, u) \subseteq Readings(child, u)
  BY DEF Complete
<1> QED BY <1>5, <1>6, FS_Subset

(* What a name that a table answers to becomes.                             *)
LEMMA NameIsAnswered ==
    ASSUME CatalogRead, NEW t \in catalog, NEW u \in catalog, NEW c \in Eligibles(t),
           NEW f \in FormsOf(u), f.value = EntityName(Profile, c.name)
    PROVE  \/ \E n \in NamesOf(t) : Pair(n) = <<KeyRef(Ref(t), <<c.name>>), KeyRef(Ref(u), u.pk)>>
           \/ \E k \in NameSkips(t) : k.child = KeyRef(Ref(t), <<c.name>>) /\ k.target = Ref(u)
           \/ Len(u.pk) = 1 /\ CompareTypes(c.type, Column(u, u.pk[1]).type) = "incompatible"
<1> DEFINE entity   == EntityName(Profile, c.name)
           m        == <<u, NameSignal(f.origin)>>
           resolved == {n \in NameMatches(entity) : Len(n[1].pk) = 1}
           fitting  == {n \in resolved : CompareTypes(c.type, Column(n[1], n[1].pk[1]).type) # "incompatible"}
<1>1. m \in NameMatches(entity) /\ m[1] = u
  <2>1. m \in {<<u, NameSignal(g.origin)>> : g \in {h \in FormsOf(u) : h.value = entity}}
    OBVIOUS
  <2>2. m \in AffixMatches(entity)
    <3> HIDE DEF m, entity
    <3> QED BY <2>1, Zenon DEF AffixMatches
  <2> HIDE DEF entity
  <2> QED BY <2>2 DEF NameMatches
<1>2. CASE Len(u.pk) # 1
  <2> DEFINE k == Skip(t, <<c.name>>, m[1], IF m[1].pk = <<>> THEN "no key" ELSE "arity")
  <2>1. k \in SkippedByName(t, c)
    <3>1. m \in {n \in NameMatches(entity) : Len(n[1].pk) # 1}
      BY <1>1, <1>2
    <3> HIDE DEF m
    <3> QED BY <3>1, Zenon DEF SkippedByName
  <2>2. k.child = KeyRef(Ref(t), <<c.name>>) /\ k.target = Ref(u)
    <3> HIDE DEF m
    <3> QED BY <1>1 DEF Skip
  <2> HIDE DEF k
  <2>3. k \in NameSkips(t)
    BY <2>1 DEF NameSkips
  <2> QED BY <2>2, <2>3
<1>3. CASE Len(u.pk) = 1 /\ CompareTypes(c.type, Column(u, u.pk[1]).type) # "incompatible"
  <2>1. m \in fitting
    <3> HIDE DEF m
    <3> QED BY <1>1, <1>3
  <2> DEFINE n == Candidate(KeyRef(Ref(t), <<c.name>>), KeyRef(Ref(m[1]), m[1].pk),
                            buildSignals(t, c, entity, m, Ambiguous(resolved)))
  <2>2. n \in ByName(t, c)
    <3> HIDE DEF m
    <3> QED BY <2>1, Zenon DEF ByName
  <2>3. Pair(n) = <<KeyRef(Ref(t), <<c.name>>), KeyRef(Ref(u), u.pk)>>
    <3> HIDE DEF m
    <3> QED BY <1>1, CandidateFields DEF Pair
  <2> HIDE DEF n
  <2>4. n \in NamesOf(t)
    BY <2>2 DEF NamesOf
  <2> QED BY <2>3, <2>4
<1> QED BY <1>2, <1>3

(* What a key whose columns a table carries under their names becomes.      *)
LEMMA MirrorIsAnswered ==
    ASSUME CatalogRead, NEW t \in catalog, NEW u \in catalog, t # u, Len(u.pk) >= 2, usable(t, u, u.pk)
    PROVE  \/ \E n \in ByKey(t) : n.child.table = Ref(t) /\ n.parent = KeyRef(Ref(u), u.pk)
           \/ \E k \in SkippedByKey(t) : k.child.table = Ref(t) /\ k.target = Ref(u)
<1> DEFINE mirror == [columns |-> resolveMirror(t, u), name |-> {}]
<1>1. u.pk \in Seq(ColumnNames(u))
  BY KeyIsSequence
<1>2. resolveMirror(t, u) = u.pk
  <2>1. \A i \in DOMAIN u.pk : u.pk[i] \in ColumnNames(t)
    BY DEF usable, Has, ToSet
  <2> QED BY <1>1, <2>1, AmongAll DEF resolveMirror
<1>3. mirror \in Complete(t, u)
  <2>1. mirror \in Readings(t, u) /\ mirror.columns = u.pk
    BY <1>2 DEF Readings
  <2> HIDE DEF mirror
  <2> QED BY <2>1 DEF Complete
<1>4. IsFiniteSet(Complete(t, u)) /\ Complete(t, u) # {} /\ u \in compositeTargets
  BY <1>3, CompleteIsFinite DEF compositeTargets
<1>5. Cardinality(Complete(t, u)) = 1 \/ Cardinality(Complete(t, u)) > 1
  <2>1. Cardinality(Complete(t, u)) \in Nat /\ Cardinality(Complete(t, u)) # 0
    BY <1>4, FS_CardinalityType, FS_EmptySet
  <2> QED BY <2>1
<1>6. ASSUME NEW reason, Skip(t, <<>>, u, reason) \in SkippedByKey(t)
      PROVE  \E k \in SkippedByKey(t) : k.child.table = Ref(t) /\ k.target = Ref(u)
  <2>1. Skip(t, <<>>, u, reason).child.table = Ref(t) /\ Skip(t, <<>>, u, reason).target = Ref(u)
    BY DEF Skip, KeyRef
  <2> QED BY <1>6, <2>1
<1>7. CASE Cardinality(Complete(t, u)) > 1
  <2>1. Skip(t, <<>>, u, "ambiguous position") \in SkippedByKey(t)
    BY <1>4, <1>7 DEF SkippedByKey
  <2> QED BY <1>6, <2>1
<1>8. CASE Cardinality(Complete(t, u)) = 1 /\ Guesswork(t, u)
  <2>1. Skip(t, <<>>, u, "ambiguous signature") \in SkippedByKey(t)
    BY <1>4, <1>8 DEF SkippedByKey, Resolved
  <2> QED BY <1>6, <2>1
<1>9. CASE Cardinality(Complete(t, u)) = 1 /\ ~Guesswork(t, u)
  <2>1. KeyedTo(t, u) \in ByKey(t)
    BY <1>4, <1>9, Zenon DEF ByKey, KeyedTo, Resolved
  <2>2. KeyedTo(t, u).child.table = Ref(t) /\ KeyedTo(t, u).parent = KeyRef(Ref(u), u.pk)
    BY CandidateFields DEF KeyedTo, KeyRef
  <2> QED BY <2>1, <2>2
<1> QED BY <1>5, <1>7, <1>8, <1>9

(* NearMissesAreLegible: a name that answers and a key that is carried are  *)
(* hypotheses, or skips with a reason, once the walk is over and whatever   *)
(* the joins then add.                                                      *)
THEOREM NearMissesAreTold == Spec => []NearMissesAreLegible
<1>1. SInv /\ LInv => NearMissesAreLegible
  <2> SUFFICES ASSUME SInv, LInv, phase = "done", NEW t \in catalog, NEW u \in catalog
               PROVE  /\ \A c \in Eligibles(t) :
                            (\E f \in FormsOf(u) : f.value = EntityName(Profile, c.name)) =>
                                \/ \E h \in Hypotheses : Pair(h) = <<KeyRef(Ref(t), <<c.name>>), KeyRef(Ref(u), u.pk)>>
                                \/ \E k \in skipped : k.child = KeyRef(Ref(t), <<c.name>>) /\ k.target = Ref(u)
                                \/ Len(u.pk) = 1 /\ CompareTypes(c.type, Column(u, u.pk[1]).type) = "incompatible"
                      /\ t # u /\ Len(u.pk) >= 2 /\ usable(t, u, u.pk) =>
                            \/ \E h \in Hypotheses : h.child.table = Ref(t) /\ h.parent = KeyRef(Ref(u), u.pk)
                            \/ \E k \in skipped : k.child.table = Ref(t) /\ k.target = Ref(u)
    BY DEF NearMissesAreLegible
  <2>1. NameSkips(t) \subseteq skipped /\ SkippedByKey(t) \subseteq skipped
    BY DEF LInv, SkipsInv, WalkedByName, WalkedByKey
  <2>2. \A n \in NamesOf(t) \cup ByKey(t) : \E h \in Hypotheses : Pair(h) = Pair(n)
    BY AloneIs DEF LInv, GrownInv, Grown
  <2>3. ASSUME NEW c \in Eligibles(t), NEW f \in FormsOf(u), f.value = EntityName(Profile, c.name)
        PROVE  \/ \E h \in Hypotheses : Pair(h) = <<KeyRef(Ref(t), <<c.name>>), KeyRef(Ref(u), u.pk)>>
               \/ \E k \in skipped : k.child = KeyRef(Ref(t), <<c.name>>) /\ k.target = Ref(u)
               \/ Len(u.pk) = 1 /\ CompareTypes(c.type, Column(u, u.pk[1]).type) = "incompatible"
    BY <2>1, <2>2, <2>3, NameIsAnswered DEF SInv
  <2>4. ASSUME t # u, Len(u.pk) >= 2, usable(t, u, u.pk)
        PROVE  \/ \E h \in Hypotheses : h.child.table = Ref(t) /\ h.parent = KeyRef(Ref(u), u.pk)
               \/ \E k \in skipped : k.child.table = Ref(t) /\ k.target = Ref(u)
    BY <2>1, <2>2, <2>4, MirrorIsAnswered DEF SInv, Pair
  <2> QED BY <2>3, <2>4
<1> QED BY <1>1, SInvInit, SInvStep, OInvInit, OInvStep, TInvInit, TInvStep, LInvInit, LInvStep, PTL DEF Spec

------------------------------------------------------------------------------
(* From what an object states to a signal.  The objects are the ones read,  *)
(* every source that answered is in, a pair an object states is a join of   *)
(* its source, and a join waits in its group or has been told.              *)
InputRead == \E input \in Inputs : catalog = input.catalog /\ objects = input.objects

SourcesRead ==
    /\ reading \in {"function", "statements", "resolve", "probed"} => "view" \in raw
    /\ reading \in {"statements", "resolve", "probed"} => "function" \in raw
    /\ available => "statements" \in raw

Joined(i, p) == \E j \in joins : j.pair = p /\ j.source = objects[i].source

PairsJoined == reading = "probed" =>
    \A i \in Extracted : \A p \in ResolvedPairs(objects[i].joins, catalog) : Joined(i, p)

ToldOf(cl, g) == \E c \in Hypotheses : Pair(c) = ClaimedPair(cl) /\ HasSignal(c, g.source)

Told(g) == \A cl \in Claims(g) : ToldOf(cl, g)

JoinsTold ==
    /\ phase \in {"evidence", "done"} => \A j \in joins : GroupOf(j) \in groups \/ Told(GroupOf(j))
    /\ phase = "done" => groups = {}

HInv == InputRead /\ SourcesRead /\ PairsJoined /\ JoinsTold

LEMMA HInvInit == Init => HInv
<1> SUFFICES ASSUME Init PROVE HInv
  OBVIOUS
<1>1. InputRead
  BY DEF Init, InputRead
<1>2. SourcesRead /\ PairsJoined /\ JoinsTold
  BY DEF Init, ProbeInit, SourcesRead, PairsJoined, JoinsTold
<1> QED BY <1>1, <1>2 DEF HInv

LEMMA ObjectsAreListed ==
    ASSUME InputRead
    PROVE  DOMAIN objects \in SUBSET Nat /\ \A i \in DOMAIN objects : objects[i].source \in Sources
<1>1. PICK input \in Inputs : objects = input.objects
  BY DEF InputRead
<1>2. objects \in Seq(ToSet(objects)) /\ \A o \in ToSet(objects) : o.source \in Sources
  BY <1>1, InputAssumption
<1>3. \A i \in DOMAIN objects : objects[i] \in ToSet(objects)
  BY DEF ToSet
<1>4. DOMAIN objects = 1..Len(objects)
  BY <1>2
<1> QED BY <1>2, <1>3, <1>4

(* Deduplication keeps a pair once per source: for its first object.        *)
LEMMA FirstIsKept ==
    ASSUME InputRead, NEW i \in Extracted, NEW p \in ResolvedPairs(objects[i].joins, catalog)
    PROVE  \E k \in Extracted : /\ objects[k].source = objects[i].source
                                /\ p \in ResolvedPairs(objects[k].joins, catalog) /\ FirstStated(k, p)
<1> DEFINE T == {k \in Extracted : /\ objects[k].source = objects[i].source
                                   /\ p \in ResolvedPairs(objects[k].joins, catalog)}
<1>1. T \in SUBSET Nat /\ T # {}
  BY ObjectsAreListed DEF Extracted
<1>2. PICK k \in T : \A n \in T : k =< n
  <2> HIDE DEF T
  <2> QED BY <1>1, LeastNatural
<1>3. FirstStated(k, p)
  <2> SUFFICES ASSUME NEW n \in Extracted, n < k, objects[n].source = objects[k].source,
                      p \in ResolvedPairs(objects[n].joins, catalog)
               PROVE  FALSE
    BY DEF FirstStated
  <2>1. n \in T
    BY <1>2
  <2>2. k =< n /\ k \in Nat /\ n \in Nat
    BY <1>1, <1>2, <2>1
  <2> QED BY <2>2
<1> QED BY <1>2, <1>3

LEMMA ResolvedAreJoined ==
    ASSUME InputRead, resolveAgainstCatalog
    PROVE  \A i \in Extracted : \A p \in ResolvedPairs(objects[i].joins, catalog) :
              \E j \in joins' : j.pair = p /\ j.source = objects[i].source
<1> SUFFICES ASSUME NEW i \in Extracted, NEW p \in ResolvedPairs(objects[i].joins, catalog)
             PROVE  \E j \in joins' : j.pair = p /\ j.source = objects[i].source
  OBVIOUS
<1>1. PICK k \in Extracted : /\ objects[k].source = objects[i].source
                             /\ p \in ResolvedPairs(objects[k].joins, catalog) /\ FirstStated(k, p)
  BY FirstIsKept
<1> DEFINE Of(m) == {[pair |-> q, source |-> objects[m].source, object |-> objects[m].object] :
                        q \in {r \in ResolvedPairs(objects[m].joins, catalog) : FirstStated(m, r)}}
           j == [pair |-> p, source |-> objects[k].source, object |-> objects[k].object]
<1>2. joins' = UNION {Of(m) : m \in Extracted}
  BY Zenon DEF resolveAgainstCatalog
<1>3. j \in Of(k)
  BY <1>1
<1>4. j.pair = p /\ j.source = objects[i].source
  BY <1>1
<1> HIDE DEF Of, j
<1> QED BY <1>2, <1>3, <1>4

LEMMA ProbeHears ==
    ASSUME HInv, SInv, ProbeNext, phase = "probe", UNCHANGED <<phase, groups>>
    PROVE  HInv'
<1>1. UNCHANGED <<catalog, objects>>
  BY DEF ProbeNext, ReadViews, ReadFunctions, ReadStatements, resolveAgainstCatalog
<1>2. InputRead'
  BY <1>1 DEF HInv, InputRead
<1>3. SourcesRead'
  BY DEF HInv, SourcesRead, ProbeNext, ReadViews, ReadFunctions, ReadStatements, resolveAgainstCatalog, extractAll
<1>4. PairsJoined'
  <2>1. CASE resolveAgainstCatalog
    <3>1. Extracted' = Extracted
      BY <2>1 DEF resolveAgainstCatalog, Extracted
    <3> QED BY <1>1, <2>1, <3>1, ResolvedAreJoined DEF HInv, PairsJoined, Joined
  <2>2. CASE ReadViews \/ ReadFunctions \/ ReadStatements
    BY <2>2 DEF ReadViews, ReadFunctions, ReadStatements, PairsJoined
  <2> QED BY <2>1, <2>2 DEF ProbeNext
<1> QED BY <1>2, <1>3, <1>4 DEF HInv, JoinsTold

------------------------------------------------------------------------------
LEMMA ClaimsFixed ==
    ASSUME catalog' = catalog, joins' = joins, NEW CONSTANT g
    PROVE  Claims(g)' = Claims(g)
<1>1. SingleClaims(g)' = SingleClaims(g)
  BY Zenon DEF SingleClaims, JoinsOf, Table
<1>2. CompositeClaims(g)' = CompositeClaims(g)
  BY SMT DEF CompositeClaims, Equated, JoinsOf, Table
<1>3. \A r : Table(r)' = Table(r)
  BY Zenon DEF Table
<1> QED BY <1>1, <1>2, <1>3 DEF Claims

LEMMA ToldStays ==
    ASSUME catalog' = catalog, joins' = joins, NEW CONSTANT g, Told(g),
           \A c \in Hypotheses : \E d \in Hypotheses' : Pair(d) = Pair(c) /\ c.signals \subseteq d.signals
    PROVE  Told(g)'
<1> SUFFICES ASSUME NEW cl \in Claims(g) PROVE ToldOf(cl, g)'
  BY ClaimsFixed DEF Told
<1>1. PICK c \in Hypotheses : Pair(c) = ClaimedPair(cl) /\ HasSignal(c, g.source)
  BY DEF Told, ToldOf
<1>2. PICK d \in Hypotheses' : Pair(d) = Pair(c) /\ c.signals \subseteq d.signals
  OBVIOUS
<1>3. HasSignal(d, g.source) /\ Pair(d) = ClaimedPair(cl)
  BY <1>1, <1>2 DEF HasSignal
<1>4. ClaimedPair(cl)' = ClaimedPair(cl) /\ Pair(d)' = Pair(d) /\ HasSignal(d, g.source)' = HasSignal(d, g.source)
  BY DEF ClaimedPair, Table, Pair, HasSignal
<1> QED BY <1>2, <1>3, <1>4 DEF ToldOf

(* The group that is applied is told, and the others stay told.             *)
LEMMA GroupIsTold ==
    ASSUME OInv, HInv, NEW g \in groups, applyEvidence(g) PROVE HInv'
<1> DEFINE pairs == {ClaimedPair(cl) : cl \in Claims(g)}
           touched(c) == IF Pair(c) \in pairs \cap known THEN Strengthened(c, g) ELSE c
           fresh == {k \in Claims(g) : ClaimedPair(k) \notin known}
           born == {Born(cl, g) : cl \in fresh}
<1>1. /\ UNCHANGED <<catalog, objects, reading, raw, joins, available, discarded>>
      /\ phase = "evidence" /\ phase' = "evidence" /\ groups' = groups \ {g}
      /\ candidates' = {touched(c) : c \in candidates} \cup born
  BY Zenon DEF applyEvidence, probeVars
<1>2. Hypotheses = candidates /\ known = {Pair(c) : c \in candidates} /\ g.source \in UsageKinds
  BY <1>1 DEF OInv, SourcesNamed, NothingYet, IndexIsTrue, Hypotheses
<1>3. \A c : Pair(Strengthened(c, g)) = Pair(c) /\ c.signals \subseteq Strengthened(c, g).signals
             /\ HasSignal(Strengthened(c, g), g.source)
  <2> SUFFICES ASSUME NEW c
               PROVE  Pair(Strengthened(c, g)) = Pair(c) /\ c.signals \subseteq Strengthened(c, g).signals
                      /\ HasSignal(Strengthened(c, g), g.source)
    OBVIOUS
  <2>1. CASE HasSignal(c, g.source)
    BY <2>1 DEF Strengthened
  <2>2. CASE ~HasSignal(c, g.source)
    <3>1. /\ Strengthened(c, g).signals = c.signals \cup {UsageSignal(g)}
          /\ Pair(Strengthened(c, g)) = Pair(c)
      BY <2>2, CandidateFields DEF Strengthened, Pair
    <3>2. UsageSignal(g).kind = g.source
      BY DEF UsageSignal
    <3> QED BY <3>1, <3>2 DEF HasSignal
  <2> QED BY <2>1, <2>2
<1>4. \A c \in Hypotheses : \E d \in Hypotheses' : Pair(d) = Pair(c) /\ c.signals \subseteq d.signals
  <2> SUFFICES ASSUME NEW c \in candidates
               PROVE  \E d \in Hypotheses' : Pair(d) = Pair(c) /\ c.signals \subseteq d.signals
    BY <1>2
  <2>1. Pair(touched(c)) = Pair(c) /\ c.signals \subseteq touched(c).signals
    BY <1>3
  <2> HIDE DEF touched, born
  <2>2. touched(c) \in Hypotheses'
    BY <1>1 DEF Hypotheses
  <2> QED BY <2>1, <2>2
<1>5. Told(g)'
  <2> SUFFICES ASSUME NEW cl \in Claims(g) PROVE ToldOf(cl, g)'
    BY <1>1, ClaimsFixed DEF Told
  <2>1. \E d \in Hypotheses' : Pair(d) = ClaimedPair(cl) /\ HasSignal(d, g.source)
    <3>1. CASE ClaimedPair(cl) \in known
      <4>1. PICK c \in candidates : Pair(c) = ClaimedPair(cl)
        BY <1>2, <3>1
      <4>2. touched(c) = Strengthened(c, g)
        BY <3>1, <4>1
      <4> HIDE DEF touched, born
      <4>3. touched(c) \in Hypotheses'
        BY <1>1 DEF Hypotheses
      <4> QED BY <1>3, <4>1, <4>2, <4>3
    <3>2. CASE ClaimedPair(cl) \notin known
      <4>1. Born(cl, g) \in born
        BY <3>2
      <4>2. Pair(Born(cl, g)) = ClaimedPair(cl)
        BY <1>2, BornSignals
      <4>3. HasSignal(Born(cl, g), g.source)
        BY BornHasSignal
      <4> HIDE DEF touched, born
      <4>4. Born(cl, g) \in Hypotheses'
        BY <1>1, <4>1 DEF Hypotheses
      <4> QED BY <4>2, <4>3, <4>4
    <3> QED BY <3>1, <3>2
  <2>2. PICK d \in Hypotheses' : Pair(d) = ClaimedPair(cl) /\ HasSignal(d, g.source)
    BY <2>1
  <2>3. ClaimedPair(cl)' = ClaimedPair(cl) /\ Pair(d)' = Pair(d) /\ HasSignal(d, g.source)' = HasSignal(d, g.source)
    BY <1>1 DEF ClaimedPair, Table, Pair, HasSignal
  <2> QED BY <2>2, <2>3 DEF ToldOf
<1> HIDE DEF pairs, touched, born
<1>6. \A j \in joins : GroupOf(j) \in groups' \/ Told(GroupOf(j))'
  <2> SUFFICES ASSUME NEW j \in joins, GroupOf(j) \notin groups' PROVE Told(GroupOf(j))'
    OBVIOUS
  <2>1. CASE GroupOf(j) = g
    BY <1>5, <2>1
  <2>2. CASE GroupOf(j) # g
    <3>1. Told(GroupOf(j))
      BY <1>1, <2>2 DEF HInv, JoinsTold
    <3> QED BY <1>1, <1>4, <3>1, ToldStays
  <2> QED BY <2>1, <2>2
<1>7. JoinsTold'
  <2>1. \A j : GroupOf(j)' = GroupOf(j)
    BY DEF GroupOf
  <2> QED BY <1>1, <1>6, <2>1 DEF JoinsTold
<1>8. InputRead' /\ SourcesRead' /\ PairsJoined'
  BY <1>1 DEF HInv, InputRead, SourcesRead, PairsJoined, Joined, Extracted
<1> QED BY <1>7, <1>8 DEF HInv

LEMMA HInvStep == SInv /\ OInv /\ TInv /\ HInv /\ [Next]_vars => HInv'
<1> SUFFICES ASSUME SInv, OInv, TInv, HInv, [Next]_vars PROVE HInv'
  OBVIOUS
<1>1. CASE Probing
  <2>1. ProbeNext /\ phase = "probe" /\ UNCHANGED <<phase, groups>>
    BY <1>1 DEF Probing, inferVars
  <2> QED BY <2>1, ProbeHears
<1>2. ASSUME UNCHANGED probeVars PROVE InputRead' /\ SourcesRead' /\ PairsJoined'
  BY <1>2 DEF HInv, InputRead, SourcesRead, PairsJoined, Joined, Extracted, probeVars
<1>3. CASE Begin \/ BeginComposite \/ (\E t \in pending : GenerateNames(t) \/ generateComposite(t))
  <2>1. UNCHANGED probeVars /\ phase' \notin {"evidence", "done"}
    BY <1>3 DEF Begin, BeginComposite, GenerateNames, generateComposite
  <2> QED BY <1>2, <2>1 DEF HInv, JoinsTold
<1>4. CASE BeginEvidence
  <2>1. UNCHANGED probeVars /\ phase' = "evidence" /\ groups' = {GroupOf(j) : j \in joins}
    BY <1>4 DEF BeginEvidence
  <2>2. \A j \in joins : GroupOf(j) \in groups'
    BY <2>1
  <2>3. \A j : GroupOf(j)' = GroupOf(j)
    BY DEF GroupOf
  <2>4. joins' = joins
    BY <2>1 DEF probeVars
  <2> QED BY <1>2, <2>1, <2>2, <2>3, <2>4 DEF HInv, JoinsTold
<1>5. ASSUME NEW g \in groups, applyEvidence(g) PROVE HInv'
  BY <1>5, GroupIsTold
<1>6. CASE finalize
  <2>1. UNCHANGED probeVars /\ groups' = groups /\ groups = {} /\ phase = "evidence"
    BY <1>6 DEF finalize
  <2>4. Hypotheses' = Hypotheses
    BY <1>6, CutKeepsAll
  <2>5. catalog' = catalog /\ joins' = joins
    BY <2>1 DEF probeVars
  <2>6. \A j \in joins : Told(GroupOf(j))'
    <3> SUFFICES ASSUME NEW j \in joins PROVE Told(GroupOf(j))'
      OBVIOUS
    <3>1. Told(GroupOf(j))
      BY <2>1 DEF HInv, JoinsTold
    <3> QED BY <2>4, <2>5, <3>1, ToldStays
  <2>7. \A j : GroupOf(j)' = GroupOf(j)
    BY DEF GroupOf
  <2>8. JoinsTold'
    BY <2>1, <2>5, <2>6, <2>7 DEF JoinsTold
  <2> QED BY <1>2, <2>1, <2>8 DEF HInv
<1>7. CASE UNCHANGED vars
  <2>1. UNCHANGED <<probeVars, phase, groups, candidates, discarded>>
    BY <1>7 DEF vars, inferVars
  <2>2. catalog' = catalog /\ joins' = joins /\ Hypotheses' = Hypotheses
    BY <2>1 DEF probeVars, Hypotheses
  <2>3. \A j \in joins : Told(GroupOf(j)) => Told(GroupOf(j))'
    BY <2>2, ToldStays
  <2>4. \A j : GroupOf(j)' = GroupOf(j)
    BY DEF GroupOf
  <2>5. JoinsTold'
    BY <2>1, <2>2, <2>3, <2>4 DEF HInv, JoinsTold
  <2> QED BY <1>2, <2>1, <2>5 DEF HInv
<1> QED BY <1>1, <1>3, <1>4, <1>5, <1>6, <1>7 DEF Next

(* JoinsAreHeard: a pair some object states survives deduplication for its  *)
(* source, its group claims the side that is a key as the parent, and the   *)
(* claim is a signal on the one hypothesis of the pair, in whatever order   *)
(* the groups are applied.                                                  *)
THEOREM EveryJoinIsHeard == Spec => []JoinsAreHeard
<1>1. SInv /\ OInv /\ HInv => JoinsAreHeard
  <2> SUFFICES ASSUME SInv, OInv, HInv, NEW i \in DOMAIN objects, Heard(objects[i]),
                      NEW pair \in ResolvedPairs(objects[i].joins, catalog),
                      NEW child \in pair, NEW parent \in pair, child # parent,
                      Table(parent.table).pk = <<parent.column>>,
                      usable(Table(child.table), Table(parent.table), <<child.column>>)
               PROVE  \E c \in Hypotheses : /\ Pair(c) = <<KeyRef(child.table, <<child.column>>),
                                                            KeyRef(parent.table, <<parent.column>>)>>
                                             /\ HasSignal(c, objects[i].source)
    BY DEF JoinsAreHeard
  <2>1. i \in Extracted
    BY ObjectsAreListed DEF HInv, SourcesRead, Heard, Extracted, Sources
  <2>2. Joined(i, pair)
    BY <2>1 DEF HInv, PairsJoined, Heard
  <2>3. PICK j \in joins : j.pair = pair /\ j.source = objects[i].source
    BY <2>2 DEF Joined
  <2> DEFINE g == GroupOf(j)
             cl == [child |-> child.table, names |-> <<child.column>>, parent |-> parent.table]
  <2>4. Told(g) /\ g.source = objects[i].source
    BY <2>3 DEF HInv, JoinsTold, Heard, GroupOf
  <2>5. cl \in SingleClaims(g)
    <3> DEFINE both == {d \in UNION {k.pair \X k.pair : k \in JoinsOf(g)} :
                           d[1] # d[2] /\ Table(d[2].table).pk = <<d[2].column>>}
               o == <<child, parent>>
    <3>1. j \in JoinsOf(g)
      BY DEF JoinsOf
    <3>2. o \in both
      BY <2>3, <3>1
    <3>3. cl = [child |-> o[1].table, names |-> <<o[1].column>>, parent |-> o[2].table]
      OBVIOUS
    <3> HIDE DEF o, cl, g
    <3> QED BY <3>2, <3>3, Zenon DEF SingleClaims
  <2>6. cl.child = child.table /\ cl.names = <<child.column>> /\ cl.parent = parent.table
    OBVIOUS
  <2> HIDE DEF g, cl
  <2>7. cl \in Claims(g)
    BY <2>5, <2>6 DEF Claims
  <2>8. ClaimedPair(cl) = <<KeyRef(child.table, <<child.column>>), KeyRef(parent.table, <<parent.column>>)>>
    BY <2>6 DEF ClaimedPair
  <2> QED BY <2>4, <2>7, <2>8 DEF Told, ToldOf
<1> QED BY <1>1, SInvInit, SInvStep, OInvInit, OInvStep, TInvInit, TInvStep, HInvInit, HInvStep, PTL DEF Spec

------------------------------------------------------------------------------
(* The answer with no order in it.  Pair by pair: what the names gave or    *)
(* the keys say, and what the groups heard so far added.                    *)
Ground(pair) ==
    Weigh(IF pair \in NamedPairs THEN (CHOOSE n \in NamesAlone : Pair(n) = pair).signals ELSE Unsaid(pair))

Owed(pair, G) == Ground(pair) \cup Use(pair, G)

Proposed(G) == NamedPairs \cup UNION {Claimed(g) : g \in G}

LEMMA WeighBoth == ASSUME NEW a, NEW b PROVE Weigh(a \cup b) = Weigh(a) \cup Weigh(b)
BY DEF Weigh

(* A score is the score of the weights, and so is the cut.                  *)
LEMMA ScoreOfWeights ==
    ASSUME NEW signals, Typed(signals), Distinct(signals)
    PROVE  score(signals) = WeightsScore(Weigh(signals))
<1> DEFINE f == [s \in signals |-> s.weight]
           m == [s \in signals |-> <<s.kind, s.weight>>]
           h == [w \in Weigh(signals) |-> w[2]]
<1>1. IsFiniteSet(signals) /\ \A s \in signals : f[s] \in Int
  BY DEF Typed, Weighed
<1>2. \A s, r \in signals : m[s] = m[r] => s = r
  BY DEF Distinct
<1>3. \A s \in signals : m[s] \in Weigh(signals) /\ m[s][2] = f[s]
  BY DEF Weigh
<1>4. \A s \in signals : h[m[s]] = f[s]
  BY <1>3
<1>5. {m[s] : s \in signals} = Weigh(signals)
  BY DEF Weigh
<1> HIDE DEF f, m, h
<1>6. SumFunctionOnSet(h, {m[s] : s \in signals}) = SumFunctionOnSet(f, signals)
  BY <1>1, <1>2, <1>4, SumMoves
<1>7. SumFunctionOnSet(h, Weigh(signals)) = SumFunctionOnSet(f, signals)
  BY <1>5, <1>6
<1> QED BY <1>7, Zenon DEF score, WeightsScore, f, h

LEMMA CutOfWeights ==
    ASSUME NEW c, Typed(c.signals), Distinct(c.signals)
    PROVE  cutScore(c) = WeightsScore({w \in Weigh(c.signals) : w[1] # "generic_domain_name"})
<1> DEFINE some == {s \in c.signals : s.kind # "generic_domain_name"}
           left == {w \in Weigh(c.signals) : w[1] # "generic_domain_name"}
<1>1. Typed(some) /\ Distinct(some)
  BY FS_Subset DEF Typed, Distinct
<1>2. Weigh(some) = left
  BY DEF Weigh
<1> HIDE DEF some, left
<1>3. score(some) = WeightsScore(left)
  BY <1>1, <1>2, ScoreOfWeights
<1> QED BY <1>3 DEF cutScore, some, left

LEMMA UnsaidIsSilent == ASSUME NEW pair PROVE Silent(Unsaid(pair))
<1> SUFFICES ASSUME NEW s \in Unsaid(pair) PROVE s.kind \notin UsageKinds
  BY DEF Silent
<1> DEFINE child == Table(pair[1].table)
           names == pair[1].columns
           parent == Table(pair[2].table)
           arity == [kind |-> "composite_arity", weight |-> arityWeight(Len(names)), detail |-> ""]
           match == compareKeys(Types(child, names), Types(parent, parent.pk))
           leads == IndexLeads(child, names)
           full == AllNotNull(child, names)
<1>1. s \in {TypeSignal(match)} \cup (IF Len(names) = 1 THEN {} ELSE {arity})
           \cup Optional(leads, "child_indexed") \cup Optional(full, "not_null")
  BY Zenon DEF Unsaid
<1>2. arity.kind = "composite_arity"
  OBVIOUS
<1> HIDE DEF match, leads, full, arity
<1>3. s = TypeSignal(match) \/ s = arity \/ s \in Optional(leads, "child_indexed") \/ s \in Optional(full, "not_null")
  BY <1>1
<1>4. s.kind \in {"identical_type", "compatible_type", "composite_arity", "child_indexed", "not_null"}
  BY <1>2, <1>3, TypeIsPlain, OptionalIsPlain
<1> QED BY <1>4 DEF UsageKinds, Sources

LEMMA GivenIsSilent == ASSUME CatalogRead, NEW n \in NamesAlone PROVE Silent(n.signals)
<1>1. PICK t \in catalog : n \in UNION {ByName(t, c) : c \in Eligibles(t)} \/ n \in ByKey(t)
  BY Zenon DEF NamesAlone
<1> QED BY <1>1, NamedSignals, KeyedSignals

LEMMA GroundIsSilent ==
    ASSUME CatalogRead, NEW pair, NEW w \in Ground(pair) PROVE w[1] \notin UsageKinds
<1>1. CASE pair \in NamedPairs
  <2> DEFINE n == CHOOSE n \in NamesAlone : Pair(n) = pair
  <2>1. \E k \in NamesAlone : Pair(k) = pair
    BY <1>1 DEF NamedPairs
  <2>2. n \in NamesAlone
    BY <2>1, Zenon
  <2>3. w \in Weigh(n.signals)
    BY <1>1 DEF Ground
  <2> HIDE DEF n
  <2> QED BY <2>2, <2>3, GivenIsSilent DEF Weigh, Silent
<1>2. CASE pair \notin NamedPairs
  <2>1. w \in Weigh(Unsaid(pair))
    BY <1>2 DEF Ground
  <2> QED BY <2>1, UnsaidIsSilent DEF Weigh, Silent
<1> QED BY <1>1, <1>2

LEMMA ClaimedPairIs ==
    ASSUME NEW cl
    PROVE  /\ ClaimedPair(cl)[1].table = cl.child /\ ClaimedPair(cl)[1].columns = cl.names
           /\ ClaimedPair(cl)[2].table = cl.parent
BY DEF ClaimedPair, KeyRef

LEMMA BornIsUnsaid ==
    ASSUME NEW g, NEW cl PROVE Born(cl, g).signals = {UsageSignal(g)} \cup Unsaid(ClaimedPair(cl))
<1> DEFINE child == Table(cl.child)
           parent == Table(cl.parent)
           fits == TypeSignal(compareKeys(Types(child, cl.names), Types(parent, parent.pk)))
           some == IF Len(cl.names) = 1 THEN {}
                   ELSE {[kind |-> "composite_arity", weight |-> arityWeight(Len(cl.names)), detail |-> ""]}
           leads == Optional(IndexLeads(child, cl.names), "child_indexed")
           full == Optional(AllNotNull(child, cl.names), "not_null")
           shape == {UsageSignal(g), fits} \cup some \cup leads \cup full
<1>1. Born(cl, g) = Candidate(ClaimedPair(cl)[1], ClaimedPair(cl)[2], shape)
  BY Zenon DEF Born
<1>2. Unsaid(ClaimedPair(cl)) = {fits} \cup some \cup leads \cup full
  BY ClaimedPairIs, Zenon DEF Unsaid
<1> HIDE DEF fits, some, leads, full
<1>3. shape = {UsageSignal(g)} \cup Unsaid(ClaimedPair(cl))
  BY <1>2
<1> HIDE DEF shape
<1> QED BY <1>1, <1>3, CandidateFields

LEMMA UsageWeighs == ASSUME NEW g PROVE Weigh({UsageSignal(g)}) = {<<g.source, Weight[g.source]>>}
<1>1. UsageSignal(g).kind = g.source /\ UsageSignal(g).weight = Weight[g.source]
  BY DEF UsageSignal
<1> HIDE DEF UsageSignal
<1> QED BY <1>1 DEF Weigh

(* What is owed when one more group is heard.                               *)
LEMMA OwedMore ==
    ASSUME NEW pair, NEW G, NEW g
    PROVE  /\ pair \in Claimed(g) => Owed(pair, G \cup {g}) = Owed(pair, G) \cup {<<g.source, Weight[g.source]>>}
           /\ pair \notin Claimed(g) => Owed(pair, G \cup {g}) = Owed(pair, G)
BY DEF Owed, Use

(* A hypothesis of a pair the group claims has the weight of its source,    *)
(* once, whether it had the signal already or not.                          *)
LEMMA StrengthenedWeighs ==
    ASSUME CatalogRead, NEW c, NEW G, NEW g, g.source \in UsageKinds,
           Weigh(c.signals) = Owed(Pair(c), G)
    PROVE  Weigh(Strengthened(c, g).signals) = Owed(Pair(c), G) \cup {<<g.source, Weight[g.source]>>}
<1>1. CASE HasSignal(c, g.source)
  <2>1. PICK s \in c.signals : s.kind = g.source
    BY <1>1 DEF HasSignal
  <2>2. <<s.kind, s.weight>> \in Owed(Pair(c), G)
    BY DEF Weigh
  <2>3. <<s.kind, s.weight>> \notin Ground(Pair(c))
    <3> SUFFICES ASSUME <<s.kind, s.weight>> \in Ground(Pair(c)) PROVE FALSE
      OBVIOUS
    <3>1. <<s.kind, s.weight>>[1] \notin UsageKinds
      BY GroundIsSilent
    <3> QED BY <2>1, <3>1
  <2>4. <<s.kind, s.weight>> \in Use(Pair(c), G)
    BY <2>2, <2>3 DEF Owed
  <2>5. PICK h \in G : <<s.kind, s.weight>> = <<h.source, Weight[h.source]>>
    BY <2>4 DEF Use
  <2>6. <<s.kind, s.weight>> = <<g.source, Weight[g.source]>>
    BY <2>1, <2>5
  <2> QED BY <1>1, <2>2, <2>6 DEF Strengthened
<1>2. CASE ~HasSignal(c, g.source)
  <2>1. Strengthened(c, g).signals = c.signals \cup {UsageSignal(g)}
    BY <1>2, CandidateFields DEF Strengthened
  <2>2. Weigh(c.signals \cup {UsageSignal(g)}) = Weigh(c.signals) \cup Weigh({UsageSignal(g)})
    BY WeighBoth
  <2> QED BY <2>1, <2>2, UsageWeighs
<1> QED BY <1>1, <1>2

------------------------------------------------------------------------------
(* The list and the index agree with what has been heard so far.            *)
Agreed(H, G) ==
    /\ {Pair(c) : c \in H} = Proposed(G)
    /\ \A c \in H : Weigh(c.signals) = Owed(Pair(c), G)

EInv == phase \in {"evidence", "done"} =>
    /\ groups \subseteq AllGroups /\ Agreed(Hypotheses, AllGroups \ groups)
    /\ \A n, m \in NamesAlone : Pair(n) = Pair(m) => n = m

GivenOnly == phase \notin {"evidence", "done"} => candidates \subseteq NamesAlone

LEMMA GivenAgrees ==
    ASSUME NEW H, H = NamesAlone, \A c, d \in H : Pair(c) = Pair(d) => c = d PROVE Agreed(H, {})
<1>1. {Pair(c) : c \in H} = Proposed({})
  BY DEF Proposed, NamedPairs
<1>2. ASSUME NEW c \in H PROVE Weigh(c.signals) = Owed(Pair(c), {})
  <2> DEFINE n == CHOOSE n \in NamesAlone : Pair(n) = Pair(c)
  <2>1. n \in NamesAlone /\ Pair(n) = Pair(c)
    BY Zenon
  <2>2. Pair(c) \in NamedPairs
    BY DEF NamedPairs
  <2>3. Ground(Pair(c)) = Weigh(n.signals)
    BY <2>2 DEF Ground
  <2> HIDE DEF n
  <2>4. n = c
    BY <2>1
  <2>5. Use(Pair(c), {}) = {}
    BY DEF Use
  <2> QED BY <2>3, <2>4, <2>5 DEF Owed
<1> QED BY <1>1, <1>2 DEF Agreed

LEMMA GroupAgrees ==
    ASSUME SInv, OInv, NEW g \in groups, applyEvidence(g), NEW G, Agreed(candidates, G)
    PROVE  Agreed(candidates', G \cup {g})
<1> DEFINE touched(c) == IF Pair(c) \in Claimed(g) \cap known THEN Strengthened(c, g) ELSE c
           fresh == {k \in Claims(g) : ClaimedPair(k) \notin known}
           kept == {touched(c) : c \in candidates}
           born == {Born(cl, g) : cl \in fresh}
<1>1. phase = "evidence" /\ candidates' = kept \cup born
  BY Zenon DEF applyEvidence, Claimed
<1>2. known = {Pair(c) : c \in candidates} /\ g.source \in UsageKinds /\ CatalogRead
  BY <1>1 DEF OInv, IndexIsTrue, SourcesNamed, SInv
<1>3. known = Proposed(G)
  BY <1>2 DEF Agreed
<1>4. \A c \in candidates : /\ Pair(touched(c)) = Pair(c) /\ Pair(c) \in known
                            /\ Weigh(touched(c).signals) = Owed(Pair(c), G \cup {g})
  <2> SUFFICES ASSUME NEW c \in candidates
               PROVE  /\ Pair(touched(c)) = Pair(c) /\ Pair(c) \in known
                      /\ Weigh(touched(c).signals) = Owed(Pair(c), G \cup {g})
    OBVIOUS
  <2>1. Weigh(c.signals) = Owed(Pair(c), G) /\ Pair(c) \in known
    BY <1>2 DEF Agreed
  <2>2. CASE Pair(c) \in Claimed(g)
    <3>1. touched(c) = Strengthened(c, g)
      BY <2>1, <2>2
    <3>2. Pair(Strengthened(c, g)) = Pair(c)
      BY CandidateFields DEF Strengthened, Pair
    <3>3. Weigh(Strengthened(c, g).signals) = Owed(Pair(c), G) \cup {<<g.source, Weight[g.source]>>}
      BY <1>2, <2>1, StrengthenedWeighs
    <3>4. Owed(Pair(c), G \cup {g}) = Owed(Pair(c), G) \cup {<<g.source, Weight[g.source]>>}
      BY <2>2, OwedMore
    <3> HIDE DEF touched
    <3> QED BY <2>1, <3>1, <3>2, <3>3, <3>4
  <2>3. CASE Pair(c) \notin Claimed(g)
    <3>1. touched(c) = c
      BY <2>3
    <3> HIDE DEF touched
    <3> QED BY <2>1, <2>3, <3>1, OwedMore
  <2> QED BY <2>2, <2>3
<1>5. \A cl \in fresh : /\ Pair(Born(cl, g)) = ClaimedPair(cl)
                        /\ Weigh(Born(cl, g).signals) = Owed(ClaimedPair(cl), G \cup {g})
  <2> SUFFICES ASSUME NEW cl \in fresh
               PROVE  /\ Pair(Born(cl, g)) = ClaimedPair(cl)
                      /\ Weigh(Born(cl, g).signals) = Owed(ClaimedPair(cl), G \cup {g})
    OBVIOUS
  <2>1. Pair(Born(cl, g)) = ClaimedPair(cl)
    BY <1>2, BornSignals
  <2>2. ClaimedPair(cl) \in Claimed(g) /\ ClaimedPair(cl) \notin Proposed(G)
    BY <1>3 DEF Claimed
  <2>3. Ground(ClaimedPair(cl)) = Weigh(Unsaid(ClaimedPair(cl))) /\ Use(ClaimedPair(cl), G) = {}
    BY <2>2 DEF Ground, Use, Proposed
  <2>4. Owed(ClaimedPair(cl), G) = Weigh(Unsaid(ClaimedPair(cl)))
    BY <2>3 DEF Owed
  <2>5. Weigh(Born(cl, g).signals) = Weigh({UsageSignal(g)}) \cup Weigh(Unsaid(ClaimedPair(cl)))
    BY BornIsUnsaid, WeighBoth
  <2>6. Owed(ClaimedPair(cl), G \cup {g}) = Owed(ClaimedPair(cl), G) \cup {<<g.source, Weight[g.source]>>}
    BY <2>2, OwedMore
  <2> QED BY <2>1, <2>4, <2>5, <2>6, UsageWeighs
<1>6. {Pair(h) : h \in kept} = known
  BY <1>2, <1>4
<1>7. {Pair(h) : h \in born} = Claimed(g) \ known
  BY <1>5 DEF Claimed
<1>8. \A h \in kept : Weigh(h.signals) = Owed(Pair(h), G \cup {g})
  BY <1>4
<1>9. \A h \in born : Weigh(h.signals) = Owed(Pair(h), G \cup {g})
  BY <1>5
<1> HIDE DEF kept, born, fresh, touched
<1>10. {Pair(h) : h \in kept \cup born} = known \cup Claimed(g)
  BY <1>6, <1>7
<1>11. known \cup Claimed(g) = Proposed(G \cup {g})
  BY <1>3 DEF Proposed
<1> QED BY <1>1, <1>8, <1>9, <1>10, <1>11 DEF Agreed

(* None of this moves while the catalog and the joins do not.               *)
LEMMA NamedPairsFixed == ASSUME catalog' = catalog PROVE NamedPairs' = NamedPairs
BY GivenFixed DEF NamedPairs, Pair

LEMMA UnsaidFixed == ASSUME catalog' = catalog, NEW CONSTANT pair PROVE Unsaid(pair)' = Unsaid(pair)
BY Zenon DEF Unsaid, Table

LEMMA GroundFixed == ASSUME catalog' = catalog, NEW CONSTANT pair PROVE Ground(pair)' = Ground(pair)
<1>1. NamedPairs' = NamedPairs /\ NamesAlone' = NamesAlone /\ Unsaid(pair)' = Unsaid(pair)
  BY NamedPairsFixed, GivenFixed, UnsaidFixed
<1> QED BY <1>1, Zenon DEF Ground, Weigh, Pair

LEMMA ClaimedFixed == ASSUME catalog' = catalog, joins' = joins, NEW CONSTANT g PROVE Claimed(g)' = Claimed(g)
<1>1. \A cl : ClaimedPair(cl)' = ClaimedPair(cl)
  BY Zenon DEF ClaimedPair, Table
<1> QED BY <1>1, ClaimsFixed DEF Claimed

LEMMA GroupsFixed == ASSUME joins' = joins PROVE AllGroups' = AllGroups
BY DEF AllGroups, GroupOf

LEMMA OwedFixed ==
    ASSUME catalog' = catalog, joins' = joins, NEW CONSTANT pair, NEW CONSTANT G
    PROVE  Owed(pair, G)' = Owed(pair, G) /\ Proposed(G)' = Proposed(G)
<1>1. \A g : Claimed(g)' = Claimed(g)
  BY ClaimedFixed
<1>2. Use(pair, G)' = Use(pair, G)
  BY <1>1 DEF Use
<1> QED BY <1>1, <1>2, GroundFixed, NamedPairsFixed DEF Owed, Proposed

LEMMA AgreedFixed ==
    ASSUME catalog' = catalog, joins' = joins, NEW CONSTANT H, NEW CONSTANT G, Agreed(H, G)
    PROVE  Agreed(H, G)'
<1>1. \A c : Owed(Pair(c), G)' = Owed(Pair(c), G)
  BY OwedFixed DEF Pair
<1>2. Proposed(G)' = Proposed(G)
  BY OwedFixed
<1> QED BY <1>1, <1>2 DEF Agreed, Pair, Weigh

LEMMA StayAgreed ==
    ASSUME catalog' = catalog, joins' = joins, NEW D, AllGroups \ groups' = D, groups' \subseteq AllGroups,
           Agreed(Hypotheses', D), \A n, m \in NamesAlone : Pair(n) = Pair(m) => n = m
    PROVE  EInv'
<1>1. PICK H : H = Hypotheses'
  OBVIOUS
<1>2. PICK G : G = D
  OBVIOUS
<1>3. Agreed(H, G)'
  BY <1>1, <1>2, AgreedFixed
<1>4. (AllGroups \ groups)' = G
  BY <1>2, GroupsFixed
<1>5. \A n, m \in NamesAlone' : Pair(n)' = Pair(m)' => n = m
  BY GivenFixed DEF Pair
<1> QED BY <1>1, <1>3, <1>4, <1>5, GroupsFixed DEF EInv

LEMMA GivenOnlyStep == SInv /\ OInv /\ GivenOnly /\ [Next]_vars => GivenOnly'
<1> SUFFICES ASSUME SInv, OInv, GivenOnly, [Next]_vars PROVE GivenOnly'
  OBVIOUS
<1>1. ASSUME catalog' = catalog, phase \notin {"evidence", "done"}, candidates' \subseteq candidates \cup NamesAlone
      PROVE  GivenOnly'
  BY <1>1, GivenFixed DEF GivenOnly
<1>2. CASE Probing
  BY <1>1, <1>2, ProbeStep DEF Probing, SInv, inferVars
<1>3. CASE Begin \/ BeginComposite
  BY <1>1, <1>3 DEF Begin, BeginComposite, probeVars
<1>4. ASSUME NEW t \in pending, GenerateNames(t) PROVE GivenOnly'
  <2>1. /\ catalog' = catalog /\ t \in catalog /\ phase = "names"
        /\ candidates' = candidates \cup UNION {ByName(t, c) : c \in Eligibles(t)}
    BY <1>4 DEF GenerateNames, probeVars, SInv
  <2> QED BY <1>1, <2>1 DEF NamesAlone
<1>5. ASSUME NEW t \in pending, generateComposite(t) PROVE GivenOnly'
  <2>1. catalog' = catalog /\ t \in catalog /\ phase = "composite" /\ candidates' = candidates \cup ByKey(t)
    BY <1>5 DEF generateComposite, probeVars, SInv
  <2> QED BY <1>1, <2>1 DEF NamesAlone
<1>6. CASE BeginEvidence \/ finalize \/ (\E g \in groups : applyEvidence(g))
  BY <1>6 DEF BeginEvidence, finalize, applyEvidence, GivenOnly
<1>7. CASE UNCHANGED vars
  <2>1. UNCHANGED <<catalog, phase, candidates>>
    BY <1>7 DEF vars, probeVars, inferVars
  <2> QED BY <2>1, GivenFixed DEF GivenOnly
<1> QED BY <1>2, <1>3, <1>4, <1>5, <1>6, <1>7 DEF Next

LEMMA EInvStep == SInv /\ OInv /\ TInv /\ LInv /\ GivenOnly /\ EInv /\ [Next]_vars => EInv'
<1> SUFFICES ASSUME SInv, OInv, TInv, LInv, GivenOnly, EInv, [Next]_vars PROVE EInv'
  OBVIOUS
<1>1. CASE Probing \/ Begin \/ BeginComposite \/ (\E t \in pending : GenerateNames(t) \/ generateComposite(t))
  <2>1. phase' \notin {"evidence", "done"}
    BY <1>1 DEF Probing, inferVars, Begin, BeginComposite, GenerateNames, generateComposite
  <2> QED BY <2>1 DEF EInv
<1>2. CASE BeginEvidence
  <2>1. /\ UNCHANGED <<catalog, joins, candidates, discarded>> /\ phase = "composite" /\ pending = {}
        /\ groups' = AllGroups
    BY <1>2 DEF BeginEvidence, probeVars, AllGroups
  <2>2. Hypotheses = candidates /\ Hypotheses' = candidates
    BY <2>1 DEF OInv, NothingYet, Hypotheses
  <2>3. candidates = NamesAlone
    <3>1. WalkedByName = catalog /\ WalkedByKey = catalog
      BY <2>1 DEF WalkedByName, WalkedByKey
    <3> QED BY <2>1, <3>1, AloneIs DEF LInv, GivenInv, GivenOnly
  <2>4. Agreed(candidates, {})
    BY <2>2, <2>3, GivenAgrees DEF OInv, PairsOnce
  <2>5. \A n, m \in NamesAlone : Pair(n) = Pair(m) => n = m
    BY <2>2, <2>3 DEF OInv, PairsOnce
  <2> QED BY <2>1, <2>2, <2>4, <2>5, StayAgreed
<1>3. ASSUME NEW g \in groups, applyEvidence(g) PROVE EInv'
  <2>1. UNCHANGED <<catalog, joins, discarded>> /\ phase = "evidence" /\ groups' = groups \ {g}
    BY <1>3 DEF applyEvidence, probeVars
  <2>2. Hypotheses = candidates /\ Hypotheses' = candidates'
    BY <2>1 DEF OInv, NothingYet, Hypotheses
  <2>3. groups \subseteq AllGroups /\ Agreed(candidates, AllGroups \ groups)
    BY <2>1, <2>2 DEF EInv
  <2>4. Agreed(candidates', (AllGroups \ groups) \cup {g})
    BY <1>3, <2>3, GroupAgrees
  <2>5. AllGroups \ groups' = (AllGroups \ groups) \cup {g}
    BY <2>1, <2>3
  <2> QED BY <2>1, <2>2, <2>3, <2>4, <2>5, StayAgreed DEF EInv
<1>4. CASE finalize
  <2>1. UNCHANGED <<catalog, joins, groups>> /\ phase = "evidence" /\ Hypotheses' = Hypotheses
    BY <1>4, CutKeepsAll DEF finalize, probeVars
  <2> QED BY <2>1, StayAgreed DEF EInv
<1>5. CASE UNCHANGED vars
  <2>1. UNCHANGED <<catalog, joins, groups, phase, candidates, discarded>>
    BY <1>5 DEF vars, probeVars, inferVars
  <2>2. Hypotheses' = Hypotheses
    BY <2>1 DEF Hypotheses
  <2>3. CASE phase \in {"evidence", "done"}
    BY <2>1, <2>2, <2>3, StayAgreed DEF EInv
  <2>4. CASE phase \notin {"evidence", "done"}
    BY <2>1, <2>4 DEF EInv
  <2> QED BY <2>3, <2>4
<1> QED BY <1>1, <1>2, <1>3, <1>4, <1>5 DEF Next

KeptInv == phase = "done" => groups = {} /\ \A c \in candidates : cutScore(c) >= MinScore

LEMMA KeptInvStep == KeptInv /\ [Next]_vars => KeptInv'
<1> SUFFICES ASSUME KeptInv, [Next]_vars PROVE KeptInv'
  OBVIOUS
<1>1. \A c : cutScore(c)' = cutScore(c)
  BY DEF cutScore
<1>2. CASE finalize
  BY <1>1, <1>2 DEF finalize, KeptInv
<1>3. CASE UNCHANGED vars
  BY <1>1, <1>3 DEF vars, inferVars, KeptInv
<1>4. CASE \/ Probing \/ Begin \/ BeginComposite \/ BeginEvidence \/ (\E g \in groups : applyEvidence(g))
           \/ (\E t \in pending : GenerateNames(t) \/ generateComposite(t))
  <2>1. phase' # "done"
    BY <1>4 DEF Probing, inferVars, Begin, BeginComposite, BeginEvidence, applyEvidence, GenerateNames, generateComposite
  <2> QED BY <2>1 DEF KeptInv
<1> QED BY <1>2, <1>3, <1>4 DEF Next

(* What a pair is owed, row by row.                                         *)
LEMMA RowsAreOwed ==
    ASSUME NEW G, \A n, m \in NamesAlone : Pair(n) = Pair(m) => n = m
    PROVE  Rows(G) = {Row(p, Owed(p, G)) : p \in Proposed(G)}
<1> DEFINE given == {Row(Pair(n), Weigh(n.signals) \cup Use(Pair(n), G)) : n \in NamesAlone}
           claimed == (UNION {Claimed(g) : g \in G}) \ NamedPairs
           born == {Row(p, Weigh(Unsaid(p)) \cup Use(p, G)) : p \in claimed}
<1>1. \A n \in NamesAlone : Row(Pair(n), Weigh(n.signals) \cup Use(Pair(n), G)) = Row(Pair(n), Owed(Pair(n), G))
  <2> SUFFICES ASSUME NEW n \in NamesAlone PROVE Weigh(n.signals) = Ground(Pair(n))
    BY DEF Owed
  <2>1. Pair(n) \in NamedPairs
    BY DEF NamedPairs
  <2>2. (CHOOSE m \in NamesAlone : Pair(m) = Pair(n)) = n
    BY Zenon
  <2> QED BY <2>1, <2>2 DEF Ground
<1>2. \A p \in claimed : Row(p, Weigh(Unsaid(p)) \cup Use(p, G)) = Row(p, Owed(p, G))
  <2> SUFFICES ASSUME NEW p \in claimed PROVE Weigh(Unsaid(p)) = Ground(p)
    BY DEF Owed
  <2>1. p \notin NamedPairs
    <3> DEFINE heard == UNION {Claimed(g) : g \in G}
    <3>1. p \in heard \ NamedPairs
      OBVIOUS
    <3> HIDE DEF heard
    <3> QED BY <3>1
  <2> QED BY <2>1 DEF Ground
<1>3. given = {Row(p, Owed(p, G)) : p \in NamedPairs}
  BY <1>1 DEF NamedPairs
<1>4. born = {Row(p, Owed(p, G)) : p \in claimed}
  <2> HIDE DEF claimed
  <2> QED BY <1>2
<1>5. Proposed(G) = NamedPairs \cup claimed
  <2> DEFINE heard == UNION {Claimed(g) : g \in G}
  <2>1. Proposed(G) = NamedPairs \cup heard /\ claimed = heard \ NamedPairs
    BY DEF Proposed
  <2> HIDE DEF heard, claimed
  <2> QED BY <2>1
<1>6. Rows(G) = given \cup born
  BY Zenon DEF Rows
<1> HIDE DEF given, born, claimed
<1> QED BY <1>3, <1>4, <1>5, <1>6

(* ResultIsDetermined: at every moment of the joins' walk the list is the   *)
(* rows of the groups heard so far, whichever they are, because a claim     *)
(* adds the same weight to a pair whether it finds it named, born of an     *)
(* earlier group or nowhere; and at the end all have been heard.            *)
THEOREM OrderDoesNotMatter == Spec => []ResultIsDetermined
<1>1. Init => GivenOnly /\ EInv /\ KeptInv
  BY DEF Init, GivenOnly, EInv, KeptInv
<1>2. SInv /\ OInv /\ TInv /\ LInv /\ EInv /\ KeptInv => ResultIsDetermined
  <2> SUFFICES ASSUME SInv, OInv, TInv, LInv, EInv, KeptInv, phase = "done"
               PROVE  /\ Outcome(candidates) = {r \in Rows(AllGroups) : Passes(r)}
                      /\ Outcome(discarded) = {r \in Rows(AllGroups) : ~Passes(r)}
    BY DEF ResultIsDetermined
  <2> DEFINE RowOf(p) == Row(p, Owed(p, AllGroups))
             Shown(c) == [pair |-> Pair(c), weights |-> Weigh(c.signals), score |-> c.score]
  <2>1. {Pair(c) : c \in Hypotheses} = Proposed(AllGroups)
    BY DEF EInv, KeptInv, Agreed
  <2>2. \A c \in Hypotheses : Shown(c) = RowOf(Pair(c)) /\ (Passes(Shown(c)) <=> cutScore(c) >= MinScore)
    <3> SUFFICES ASSUME NEW c \in Hypotheses
                 PROVE  Shown(c) = RowOf(Pair(c)) /\ (Passes(Shown(c)) <=> cutScore(c) >= MinScore)
      OBVIOUS
    <3>1. Weigh(c.signals) = Owed(Pair(c), AllGroups)
      BY DEF EInv, KeptInv, Agreed
    <3>2. Typed(c.signals) /\ Distinct(c.signals) /\ c.score = score(c.signals)
      BY DEF TInv, AllProper, Proper, OInv, KindsOnce, SInv, AllSound, Sound
    <3>3. c.score = WeightsScore(Weigh(c.signals))
      BY <3>2, ScoreOfWeights
    <3>4. cutScore(c) = WeightsScore({w \in Weigh(c.signals) : w[1] # "generic_domain_name"})
      BY <3>2, CutOfWeights
    <3>5. Shown(c).weights = Weigh(c.signals)
      OBVIOUS
    <3>6. Passes(Shown(c)) <=> cutScore(c) >= MinScore
      <4> HIDE DEF Shown
      <4> QED BY <3>4, <3>5 DEF Passes
    <3>7. Shown(c) = RowOf(Pair(c))
      BY <3>1, <3>3 DEF Row
    <3> QED BY <3>6, <3>7
  <2>3. \A c \in candidates : cutScore(c) >= MinScore
    BY DEF KeptInv
  <2>4. \A c \in discarded : ~(cutScore(c) >= MinScore)
    <3> SUFFICES ASSUME NEW c \in discarded PROVE ~(cutScore(c) >= MinScore)
      OBVIOUS
    <3>1. cutScore(c) \in Int /\ cutScore(c) < MinScore
      BY CutIsInt DEF TInv, AllProper, Hypotheses, LInv, CutInv
    <3> QED BY <3>1, ScoringAssumption
  <2>5. Rows(AllGroups) = {RowOf(p) : p \in Proposed(AllGroups)}
    BY RowsAreOwed DEF EInv
  <2> HIDE DEF RowOf
  <2>6. Rows(AllGroups) = {Shown(c) : c \in Hypotheses}
    <3> HIDE DEF Shown
    <3> QED BY <2>1, <2>2, <2>5
  <2>7. Outcome(candidates) = {Shown(c) : c \in candidates} /\ Outcome(discarded) = {Shown(c) : c \in discarded}
    BY Zenon DEF Outcome
  <2> HIDE DEF Shown
  <2>8. Hypotheses = candidates \cup discarded
    BY DEF Hypotheses
  <2> QED BY <2>2, <2>3, <2>4, <2>6, <2>7, <2>8
<1> QED BY <1>1, <1>2, SInvInit, SInvStep, OInvInit, OInvStep, TInvInit, TInvStep, LInvInit, LInvStep,
          GivenOnlyStep, EInvStep, KeptInvStep, PTL DEF Spec

------------------------------------------------------------------------------
(* Composite joins.  What deduplication leaves of an object are the pairs   *)
(* it is the first of its source to state, under its own name.              *)
StatedBy(k, j) ==
    /\ j.source = objects[k].source /\ j.object = objects[k].object
    /\ j.pair \in ResolvedPairs(objects[k].joins, catalog)

FirstJoined(i, p) ==
    \E j \in joins : j.pair = p /\ j.source = objects[i].source /\ j.object = objects[i].object

DInv == reading = "probed" =>
    /\ \A j \in joins : \E k \in Extracted : StatedBy(k, j)
    /\ \A i \in Extracted : \A p \in ResolvedPairs(objects[i].joins, catalog) : FirstStated(i, p) => FirstJoined(i, p)

LEMMA DInvStep == SInv /\ DInv /\ [Next]_vars => DInv'
<1> SUFFICES ASSUME SInv, DInv, [Next]_vars PROVE DInv'
  OBVIOUS
<1>1. ASSUME UNCHANGED probeVars PROVE DInv'
  BY <1>1 DEF DInv, StatedBy, FirstJoined, FirstStated, Extracted, probeVars
<1>2. CASE Probing
  <2>1. CASE resolveAgainstCatalog
    <3> DEFINE Of(i) == {[pair |-> p, source |-> objects[i].source, object |-> objects[i].object] :
                            p \in {q \in ResolvedPairs(objects[i].joins, catalog) : FirstStated(i, q)}}
    <3>1. UNCHANGED <<catalog, objects, raw>> /\ joins' = UNION {Of(i) : i \in Extracted}
      BY <2>1, Zenon DEF resolveAgainstCatalog
    <3>2. \A i : \A j \in Of(i) : StatedBy(i, j)
      BY DEF StatedBy
    <3>3. \A i : \A p \in ResolvedPairs(objects[i].joins, catalog) : FirstStated(i, p) =>
             \E j \in Of(i) : j.pair = p /\ j.source = objects[i].source /\ j.object = objects[i].object
      <4> SUFFICES ASSUME NEW i, NEW p \in ResolvedPairs(objects[i].joins, catalog), FirstStated(i, p)
                   PROVE  \E j \in Of(i) : j.pair = p /\ j.source = objects[i].source /\ j.object = objects[i].object
        OBVIOUS
      <4> DEFINE j == [pair |-> p, source |-> objects[i].source, object |-> objects[i].object]
      <4>1. j \in Of(i)
        OBVIOUS
      <4>2. j.pair = p /\ j.source = objects[i].source /\ j.object = objects[i].object
        OBVIOUS
      <4> HIDE DEF j, Of
      <4> QED BY <4>1, <4>2
    <3> HIDE DEF Of
    <3>4. \A j \in joins' : \E k \in Extracted : StatedBy(k, j)
      BY <3>1, <3>2
    <3>5. \A i \in Extracted : \A p \in ResolvedPairs(objects[i].joins, catalog) : FirstStated(i, p) =>
             \E j \in joins' : j.pair = p /\ j.source = objects[i].source /\ j.object = objects[i].object
      BY <3>1, <3>3
    <3> QED BY <3>1, <3>4, <3>5 DEF DInv, StatedBy, FirstJoined, FirstStated, Extracted
  <2>2. CASE ReadViews \/ ReadFunctions \/ ReadStatements
    BY <2>2 DEF ReadViews, ReadFunctions, ReadStatements, DInv
  <2> QED BY <1>2, <2>1, <2>2 DEF Probing, ProbeNext
<1>3. CASE \/ Begin \/ BeginComposite \/ BeginEvidence \/ finalize \/ UNCHANGED vars
           \/ (\E t \in pending : GenerateNames(t) \/ generateComposite(t))
           \/ (\E g \in groups : applyEvidence(g))
  BY <1>1, <1>3 DEF Begin, BeginComposite, BeginEvidence, finalize, vars, GenerateNames, generateComposite, applyEvidence
<1> QED BY <1>2, <1>3 DEF Next

(* An object on its own: no other of its source has its name, and no other  *)
(* of its source states, before it, an equality between the two tables.     *)
OnItsOwn(i, child, parent) ==
    /\ \A k \in DOMAIN objects :
          objects[k].source = objects[i].source /\ objects[k].object = objects[i].object => k = i
    /\ \A p \in ResolvedPairs(objects[i].joins, catalog) :
          {r.table : r \in p} = {Ref(child), Ref(parent)} => FirstStated(i, p)

WholeJoinsAreHeard == \A i \in DOMAIN objects : Heard(objects[i]) =>
    \A child, parent \in catalog : Whole(objects[i], child, parent) /\ OnItsOwn(i, child, parent) =>
        \E c \in Hypotheses : /\ c.child.table = Ref(child) /\ c.parent = KeyRef(Ref(parent), parent.pk)
                              /\ HasSignal(c, objects[i].source)

(* The equalities of the object, and those of its group.                    *)
EquatedBy(i, parentRef, childRef) ==
    {<<pc[1].column, pc[2].column>> : pc \in
        {d \in UNION {q \X q : q \in ResolvedPairs(objects[i].joins, catalog)} :
            d[1].table = parentRef /\ d[2].table = childRef}}

NamesBy(parent, equated) == [n \in DOMAIN parent.pk |-> (CHOOSE e \in equated : e[1] = parent.pk[n])[2]]

LEMMA ResolvedHasTwo ==
    ASSUME NEW i, NEW p \in ResolvedPairs(objects[i].joins, catalog), NEW a \in p, NEW b \in p, a # b
    PROVE  p = {a, b}
<1>1. PICK x, y : p = {x, y}
  BY DEF ResolvedPairs
<1> QED BY <1>1

LEMMA WholeIs ==
    ASSUME NEW i, NEW child, NEW parent, Whole(objects[i], child, parent)
    PROVE  LET equated == EquatedBy(i, Ref(parent), Ref(child))
           IN  /\ child # parent /\ Len(parent.pk) >= 2
               /\ \A e, f \in equated : e[1] = f[1] => e[2] = f[2]
               /\ {e[1] : e \in equated} = ToSet(parent.pk)
               /\ IsInjective(NamesBy(parent, equated)) /\ usable(child, parent, NamesBy(parent, equated))
BY Zenon DEF Whole, EquatedBy, NamesBy

(* Two columns of a pair the object states, one of each table.              *)
Across(i, d, parent, child) ==
    \E q \in ResolvedPairs(objects[i].joins, catalog) :
        d \in q \X q /\ d[1].table = Ref(parent) /\ d[2].table = Ref(child)

LEMMA EquatedByIs ==
    ASSUME NEW i, NEW parent, NEW child
    PROVE  EquatedBy(i, Ref(parent), Ref(child))
               = {<<d[1].column, d[2].column>> : d \in {x \in UNION {q \X q : q \in ResolvedPairs(objects[i].joins, catalog)} :
                                                         Across(i, x, parent, child)}}
<1> DEFINE all == UNION {q \X q : q \in ResolvedPairs(objects[i].joins, catalog)}
           these == {d \in all : d[1].table = Ref(parent) /\ d[2].table = Ref(child)}
           those == {d \in all : Across(i, d, parent, child)}
<1>1. these = those
  BY DEF Across
<1>2. EquatedBy(i, Ref(parent), Ref(child)) = {<<pc[1].column, pc[2].column>> : pc \in these}
  BY Zenon DEF EquatedBy
<1> HIDE DEF these, those
<1> QED BY <1>1, <1>2 DEF those

(* All the equalities of an object on its own, and nothing else, are in one *)
(* group.                                                                   *)
LEMMA AcrossIsJoined ==
    ASSUME CatalogRead, InputRead, DInv, reading = "probed", NEW i \in Extracted,
           NEW child \in catalog, NEW parent \in catalog, child # parent, OnItsOwn(i, child, parent),
           NEW d, Across(i, d, parent, child)
    PROVE  \E j \in joins : /\ d \in j.pair \X j.pair
                            /\ GroupOf(j) = [source |-> objects[i].source, object |-> objects[i].object,
                                             tables |-> {Ref(child), Ref(parent)}]
<1>1. PICK q \in ResolvedPairs(objects[i].joins, catalog) :
         d \in q \X q /\ d[1].table = Ref(parent) /\ d[2].table = Ref(child)
  BY DEF Across
<1>2. Ref(child) # Ref(parent)
  BY TableOfRef
<1>3. q = {d[1], d[2]}
  BY <1>1, <1>2, ResolvedHasTwo
<1>4. {r.table : r \in q} = {Ref(child), Ref(parent)}
  BY <1>1, <1>3
<1>5. FirstStated(i, q)
  BY <1>1, <1>4 DEF OnItsOwn
<1>6. PICK j \in joins : j.pair = q /\ j.source = objects[i].source /\ j.object = objects[i].object
  BY <1>1, <1>5 DEF DInv, FirstJoined
<1> QED BY <1>1, <1>4, <1>6 DEF GroupOf

LEMMA JoinedIsAcross ==
    ASSUME DInv, reading = "probed", NEW i \in Extracted, NEW child, NEW parent, OnItsOwn(i, child, parent),
           NEW j \in joins, j.source = objects[i].source, j.object = objects[i].object,
           NEW d \in j.pair \X j.pair, d[1].table = Ref(parent), d[2].table = Ref(child)
    PROVE  Across(i, d, parent, child)
<1>1. PICK k \in Extracted : StatedBy(k, j)
  BY DEF DInv
<1>2. k = i
  BY <1>1 DEF OnItsOwn, StatedBy, Extracted
<1> QED BY <1>1, <1>2 DEF Across, StatedBy

LEMMA GroupEquates ==
    ASSUME CatalogRead, InputRead, DInv, reading = "probed", NEW i \in Extracted,
           NEW child \in catalog, NEW parent \in catalog, child # parent, OnItsOwn(i, child, parent)
    PROVE  Equated([source |-> objects[i].source, object |-> objects[i].object, tables |-> {Ref(child), Ref(parent)}],
                   Ref(parent), Ref(child)) = EquatedBy(i, Ref(parent), Ref(child))
<1> DEFINE g == [source |-> objects[i].source, object |-> objects[i].object, tables |-> {Ref(child), Ref(parent)}]
           joined == UNION {j.pair \X j.pair : j \in JoinsOf(g)}
           these == {d \in joined : d[1].table = Ref(parent) /\ d[2].table = Ref(child) /\ d[1] # d[2]}
           all == UNION {q \X q : q \in ResolvedPairs(objects[i].joins, catalog)}
           those == {d \in all : Across(i, d, parent, child)}
<1>1. Equated(g, Ref(parent), Ref(child)) = {<<pc[1].column, pc[2].column>> : pc \in these}
  BY Zenon DEF Equated
<1>2. ASSUME NEW d \in these PROVE d \in those
  <2>1. PICK j \in JoinsOf(g) : d \in j.pair \X j.pair
    OBVIOUS
  <2>2. j \in joins /\ j.source = objects[i].source /\ j.object = objects[i].object
    BY <2>1 DEF JoinsOf, GroupOf
  <2>3. Across(i, d, parent, child)
    BY <2>1, <2>2, JoinedIsAcross
  <2> QED BY <2>3 DEF Across
<1>3. ASSUME NEW d \in those PROVE d \in these
  <2>1. PICK j \in joins : d \in j.pair \X j.pair /\ GroupOf(j) = g
    BY AcrossIsJoined
  <2>2. d[1].table = Ref(parent) /\ d[2].table = Ref(child) /\ Ref(parent) # Ref(child)
    BY TableOfRef DEF Across
  <2>3. j \in JoinsOf(g)
    BY <2>1 DEF JoinsOf
  <2> HIDE DEF g
  <2> QED BY <2>1, <2>2, <2>3
<1>4. EquatedBy(i, Ref(parent), Ref(child)) = {<<d[1].column, d[2].column>> : d \in those}
  BY EquatedByIs
<1> HIDE DEF these, those, joined
<1>5. these = those
  BY <1>2, <1>3
<1> QED BY <1>1, <1>4, <1>5

LEMMA WholeIsClaimed ==
    ASSUME CatalogRead, InputRead, DInv, reading = "probed", NEW i \in Extracted,
           NEW child \in catalog, NEW parent \in catalog,
           Whole(objects[i], child, parent), OnItsOwn(i, child, parent)
    PROVE  \E j \in joins : /\ GroupOf(j).source = objects[i].source
                            /\ \E cl \in Claims(GroupOf(j)) : cl.child = Ref(child) /\ cl.parent = Ref(parent)
<1> DEFINE g == [source |-> objects[i].source, object |-> objects[i].object, tables |-> {Ref(child), Ref(parent)}]
           equated == EquatedBy(i, Ref(parent), Ref(child))
           names == NamesBy(parent, equated)
           cl == [child |-> Ref(child), names |-> names, parent |-> Ref(parent)]
<1>1. /\ child # parent /\ Len(parent.pk) >= 2
      /\ \A e, f \in equated : e[1] = f[1] => e[2] = f[2]
      /\ {e[1] : e \in equated} = ToSet(parent.pk)
      /\ IsInjective(names) /\ usable(child, parent, names)
  BY WholeIs
<1>2. Table(Ref(child)) = child /\ Table(Ref(parent)) = parent /\ Ref(child) # Ref(parent)
  BY <1>1, TableOfRef
<1>3. PICK j \in joins : GroupOf(j) = g
  <2>1. parent.pk[1] \in ToSet(parent.pk)
    BY <1>1, KeyIsSequence DEF ToSet
  <2>2. PICK e \in equated : e[1] = parent.pk[1]
    BY <1>1, <2>1
  <2>3. \E d : Across(i, d, parent, child)
    BY <2>2, EquatedByIs
  <2> QED BY <1>1, <2>3, AcrossIsJoined
<1>4. Equated(g, Ref(parent), Ref(child)) = equated
  BY <1>1, GroupEquates
<1>5. cl \in CompositeClaims(g)
  <2> DEFINE Covers(p, equal) ==
                 /\ \A e, f \in equal : e[1] = f[1] => e[2] = f[2]
                 /\ ToSet(p.pk) \subseteq {e[1] : e \in equal}
             Claim(o) == [child |-> o[2], names |-> NamesBy(Table(o[1]), Equated(g, o[1], o[2])), parent |-> o[1]]
             pairs == {d \in g.tables \X g.tables :
                         /\ d[1] # d[2] /\ Len(Table(d[1]).pk) >= 2
                         /\ Covers(Table(d[1]), Equated(g, d[1], d[2]))
                         /\ IsInjective(NamesBy(Table(d[1]), Equated(g, d[1], d[2])))}
             o == <<Ref(parent), Ref(child)>>
  <2>1. CompositeClaims(g) = {Claim(d) : d \in pairs}
    BY Zenon DEF CompositeClaims, NamesBy
  <2>2. g.tables = {Ref(child), Ref(parent)}
    OBVIOUS
  <2> HIDE DEF g, equated, names
  <2>3. Covers(parent, equated)
    BY <1>1
  <2> HIDE DEF Covers
  <2>4. o[1] = Ref(parent) /\ o[2] = Ref(child) /\ o \in g.tables \X g.tables
    BY <2>2
  <2>5. o \in pairs
    BY <1>1, <1>2, <1>4, <2>3, <2>4 DEF names
  <2>6. Claim(o) = cl
    BY <1>2, <1>4, <2>4 DEF names
  <2> HIDE DEF pairs, Claim, o, cl
  <2> QED BY <2>1, <2>5, <2>6
<1>6. cl.child = Ref(child) /\ cl.parent = Ref(parent) /\ cl.names = names
  OBVIOUS
<1>7. g.source = objects[i].source
  OBVIOUS
<1> HIDE DEF g, cl, names
<1>8. cl \in Claims(g)
  BY <1>1, <1>2, <1>5, <1>6 DEF Claims
<1> QED BY <1>3, <1>6, <1>7, <1>8

(* WholeJoinsAreHeard: the half of CompositeJoinIsHeard that holds.  The    *)
(* join of a whole composite key that an object of its own name states, and *)
(* no earlier object of its source states any part of, is a hypothesis with *)
(* that source's signal: what loses the key is deduplication, nothing else. *)
THEOREM WholeJoinsReachTheirKey == Spec => []WholeJoinsAreHeard
<1>1. Init => DInv
  BY DEF Init, ProbeInit, DInv
<1>2. SInv /\ OInv /\ HInv /\ DInv => WholeJoinsAreHeard
  <2> SUFFICES ASSUME SInv, OInv, HInv, DInv, NEW i \in DOMAIN objects, Heard(objects[i]),
                      NEW child \in catalog, NEW parent \in catalog,
                      Whole(objects[i], child, parent), OnItsOwn(i, child, parent)
               PROVE  \E c \in Hypotheses : /\ c.child.table = Ref(child) /\ c.parent = KeyRef(Ref(parent), parent.pk)
                                            /\ HasSignal(c, objects[i].source)
    BY DEF WholeJoinsAreHeard
  <2>1. i \in Extracted
    BY ObjectsAreListed DEF HInv, SourcesRead, Heard, Extracted, Sources
  <2>2. PICK j \in joins : /\ GroupOf(j).source = objects[i].source
                           /\ \E cl \in Claims(GroupOf(j)) : cl.child = Ref(child) /\ cl.parent = Ref(parent)
    BY <2>1, WholeIsClaimed DEF HInv, SInv, Heard
  <2>3. PICK cl \in Claims(GroupOf(j)) : cl.child = Ref(child) /\ cl.parent = Ref(parent)
    BY <2>2
  <2>4. Told(GroupOf(j))
    BY DEF HInv, JoinsTold, Heard
  <2>5. PICK c \in Hypotheses : Pair(c) = ClaimedPair(cl) /\ HasSignal(c, GroupOf(j).source)
    BY <2>3, <2>4 DEF Told, ToldOf
  <2>6. c.child.table = Ref(child)
    BY <2>3, <2>5 DEF Pair, ClaimedPair, KeyRef
  <2>7. c.parent = KeyRef(Ref(parent), parent.pk)
    BY <2>3, <2>5, TableOfRef DEF Pair, ClaimedPair, SInv
  <2> QED BY <2>2, <2>5, <2>6, <2>7
<1> QED BY <1>1, <1>2, SInvInit, SInvStep, OInvInit, OInvStep, TInvInit, TInvStep, HInvInit, HInvStep, DInvStep, PTL DEF Spec
==============================================================================
