------------------------------- MODULE Naming -------------------------------
(***************************************************************************)
(* internal/profile: what a column's name says it refers to, and the names *)
(* a table answers to.  A name is a sequence of fragments of the real one, *)
(* lowercase as PostgreSQL folds it; the separator is a fragment, so       *)
(* nota_id is <<"nota", "_", "id">> and notaid is <<"nota", "id">>.        *)
(***************************************************************************)
EXTENDS Integers, SequencesExt

Separator == "_"

(* strings.Trim(name, "_").                                                 *)
Trimmed(name) ==
    LET solid == {i \in DOMAIN name : name[i] # Separator}
    IN  IF solid = {} THEN <<>> ELSE SubSeq(name, Min(solid), Max(solid))

(* trimSuffix, trimPrefix: an affix comes off unless nothing is left.       *)
WithoutSuffix(name, affix) == SubSeq(name, 1, Len(name) - Len(affix))
WithoutPrefix(name, affix) == SubSeq(name, Len(affix) + 1, Len(name))

SuffixApplies(name, affix) ==
    /\ affix # <<>> /\ IsSuffix(affix, name)
    /\ Trimmed(WithoutSuffix(name, affix)) # <<>>

PrefixApplies(name, affix) ==
    /\ affix # <<>> /\ IsPrefix(affix, name)
    /\ Trimmed(WithoutPrefix(name, affix)) # <<>>

(* The first affix of the list that applies, in declared order.             *)
StripSuffix(name, affixes) ==
    LET apply == {i \in DOMAIN affixes : SuffixApplies(name, affixes[i])}
    IN  IF apply = {} THEN name ELSE WithoutSuffix(name, affixes[Min(apply)])

StripPrefix(name, affixes) ==
    LET apply == {i \in DOMAIN affixes : PrefixApplies(name, affixes[i])}
    IN  IF apply = {} THEN name ELSE WithoutPrefix(name, affixes[Min(apply)])

EntityName(profile, column) ==
    Trimmed(StripPrefix(StripSuffix(column, profile.columnSuffixes), profile.columnPrefixes))

------------------------------------------------------------------------------
(* The forms of a table's name.  Every plural rule that applies gives one.  *)
depluralize(profile, name) ==
    {WithoutSuffix(name, rule.suffix) \o rule.singular :
        rule \in {r \in profile.plural : IsSuffix(r.suffix, name) /\ Len(r.suffix) < Len(name)}}

(* Origins, strongest first: exact, prefix stripped, depluralized, both.    *)
OriginExact == 0

Derivations(profile, table) ==
    LET stripped == StripPrefix(table, profile.tablePrefixes)
    IN  {<<table, OriginExact>>}
        \cup {<<v, 2>> : v \in depluralize(profile, table)}
        \cup IF stripped = table THEN {}
             ELSE {<<stripped, 1>>} \cup {<<v, 3>> : v \in depluralize(profile, stripped)}

(* A form keeps the first way it was derived, in the order exact, stripped, *)
(* depluralized, both; the empty one is dropped.                            *)
TableForms(profile, table) ==
    LET ways == {d \in Derivations(profile, table) : d[1] # <<>>}
    IN  {[value |-> v, origin |-> Min({d[2] : d \in {w \in ways : w[1] = v}})] :
            v \in {d[1] : d \in ways}}
==============================================================================
