----------------------------- MODULE MCDetection -----------------------------
(***************************************************************************)
(* A child table whose four keys each follow one of a few conventions, in  *)
(* a schema whose tables may carry an application's prefix.                *)
(***************************************************************************)
EXTENDS Detection

MCProfiles ==
    {[columnSuffixes |-> s, columnPrefixes |-> <<<<"id", "_">>, <<"fk", "_">>>>,
      tablePrefixes |-> <<<<"tb", "_">>, <<"sys", "_">>>>,
      plural |-> {[suffix |-> <<"s">>, singular |-> <<>>]}] :
        s \in {<<<<"_", "id">>, <<"_", "ref">>, <<"id">>>>, <<<<"_", "ref">>, <<"id">>>>}}

Words == <<<<"lote">>, <<"rua">>, <<"bairro">>, <<"dono">>>>

Conventions == {"id", "ref_id", "fk_id", "none"}

Column(word, convention) ==
    CASE convention = "id"     -> word \o <<"_", "id">>
      [] convention = "ref_id" -> word \o <<"_", "ref", "_", "id">>
      [] convention = "fk_id"  -> <<"fk", "_", "id", "_">> \o word
      [] convention = "none"   -> <<"nr">>

MCSchemas ==
    {{[name |-> opening \o Words[i] \o <<"s">>, keys |-> {}] : i \in DOMAIN Words}
     \cup {[name |-> <<"imovel">>,
            keys |-> {[column |-> Column(Words[i], of[i]), refTable |-> opening \o Words[i] \o <<"s">>] :
                        i \in DOMAIN Words}]} :
        opening \in {<<>>, <<"sys", "_">>, <<"tb", "_", "gov", "_">>}, of \in [DOMAIN Words -> Conventions]}

(* As the strings compare, where it matters: the shorter first.             *)
MCBefore(a, b) == Len(a) < Len(b)
==============================================================================
