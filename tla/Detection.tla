------------------------------ MODULE Detection ------------------------------
(***************************************************************************)
(* internal/profile detect.go: the conventions a schema states by itself,  *)
(* read from its declared keys and its tables' names, and the profile that *)
(* carries them beside its own.                                            *)
(***************************************************************************)
EXTENDS Naming

CONSTANTS
    Profiles,       \* naming profiles; Validate refuses some of them
    Schemas,        \* sets of tables: a name, declared single-column keys
    Before(_, _)    \* the order of two affixes as strings

VARIABLES base, tables, profile

vars == <<base, tables, profile>>

minRefAffixShare    == 15
minRefAffixCount    == 3
minTablePrefixShare == 10
minTablePrefixCount == 3

------------------------------------------------------------------------------
(* The residue around a table's name in the column that references it: the  *)
(* first of the table's forms that opens or closes the column decides, and  *)
(* one that is the whole column says there is none.                         *)
NoResidue == [suffix |-> <<>>, prefix |-> <<>>]

referenceAffix(p, column, refTable) ==
    LET form == {f \in TableForms(p, refTable) : IsPrefix(f.value, column) \/ IsSuffix(f.value, column)}
        first == CHOOSE f \in form : \A g \in form : f.origin <= g.origin
    IN  IF form = {} \/ first.value = column THEN NoResidue
        ELSE IF IsPrefix(first.value, column)
        THEN [NoResidue EXCEPT !.suffix = WithoutPrefix(column, first.value)]
        ELSE [NoResidue EXCEPT !.prefix = WithoutSuffix(column, first.value)]

(* Every prefix of a table's name that ends in a separator.                 *)
candidateTablePrefixes(name) ==
    {SubSeq(name, 1, i) : i \in {j \in 1..(Len(name) - 1) : name[j] = Separator}}

(* The affixes frequent enough to be a convention, strongest first.         *)
rank(occurrences, population, share, count) ==
    LET convention == {a \in DOMAIN occurrences :
                          occurrences[a] >= count /\ 100 * occurrences[a] >= share * population}
    IN  SetToSortSeq(convention, LAMBDA a, b :
            \/ occurrences[a] > occurrences[b]
            \/ occurrences[a] = occurrences[b] /\ Before(a, b))

(* How many witnesses state each affix, from pairs of one of each.          *)
Tally(stated) ==
    [a \in {s[2] : s \in stated} \ {<<>>} |-> Cardinality({s \in stated : s[2] = a})]

Detect(p, schema) ==
    LET keys == {<<t.name, k>> : t \in schema, k \in UNION {u.keys : u \in schema}}
        declared == {w \in keys : \E t \in schema : t.name = w[1] /\ w[2] \in t.keys}
        residue(w) == referenceAffix(p, w[2].column, w[2].refTable)
        opened  == UNION {{<<t, a>> : a \in candidateTablePrefixes(t.name)} : t \in schema}
    IN  [columnSuffixes |-> rank(Tally({<<w, residue(w).suffix>> : w \in declared}),
                                 Cardinality(declared), minRefAffixShare, minRefAffixCount),
         columnPrefixes |-> rank(Tally({<<w, residue(w).prefix>> : w \in declared}),
                                 Cardinality(declared), minRefAffixShare, minRefAffixCount),
         tablePrefixes  |-> rank(Tally(opened),
                                 Cardinality(schema), minTablePrefixShare, minTablePrefixCount)]

------------------------------------------------------------------------------
longestFirst(edge, a, b) ==
    /\ a # b
    /\ \/ edge = "suffix" /\ IsSuffix(b, a)
       \/ edge = "prefix" /\ IsPrefix(b, a)

(* Validate's rule, of a profile somebody wrote as of one that was merged:  *)
(* no affix is declared ahead of a longer one it would shadow.              *)
Shadowless(affixes, edge) ==
    \A i, j \in DOMAIN affixes : i < j => ~longestFirst(edge, affixes[j], affixes[i])

(* mergeAffixes: what is new is added at the end, and each affix then moves *)
(* ahead of those right before it that it comes before; sort.SliceStable    *)
(* sorts by insertion up to twenty elements.                                *)
mergeAffixes(own, detected, edge) ==
    LET new == SelectSeq(detected, LAMBDA a : a \notin ToSet(own))
        inserted(sorted, a) ==
            LET stays == {i \in DOMAIN sorted : ~longestFirst(edge, a, sorted[i])}
            IN  InsertAt(sorted, IF stays = {} THEN 1 ELSE Max(stays) + 1, a)
    IN  FoldLeft(inserted, <<>>, own \o new)

WithDetected(p, d) ==
    [p EXCEPT !.columnSuffixes = mergeAffixes(@, d.columnSuffixes, "suffix"),
              !.columnPrefixes = mergeAffixes(@, d.columnPrefixes, "prefix"),
              !.tablePrefixes  = mergeAffixes(@, d.tablePrefixes, "prefix")]

InOrder(p) ==
    /\ Shadowless(p.columnSuffixes, "suffix")
    /\ Shadowless(p.columnPrefixes, "prefix")
    /\ Shadowless(p.tablePrefixes, "prefix")

Init ==
    /\ base \in {p \in Profiles : InOrder(p)} /\ tables \in Schemas
    /\ profile = base

DetectNaming ==
    /\ profile' = WithDetected(base, Detect(base, tables))
    /\ UNCHANGED <<base, tables>>

Next == DetectNaming

Spec == Init /\ [][Next]_vars

------------------------------------------------------------------------------
(* "o perfil resultante ainda passa na validação de ordem": merging what    *)
(* was detected leaves no affix ahead of a longer one, or the detected one  *)
(* would never be stripped and its convention not be read.                  *)
NoAffixShadows == InOrder(profile)
==============================================================================
