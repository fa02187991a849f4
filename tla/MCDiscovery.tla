----------------------------- MODULE MCDiscovery -----------------------------
(* Three pairs: a lookup key of generic name that only the penalty puts     *)
(* under the threshold, a pair no name suggests that joins do, and a name   *)
(* too weak to survive even when the query log joins it.                    *)
EXTENDS Discovery

CONSTANTS lookup, joined, weak

Pairs       == {lookup, joined, weak}
ByName      == {lookup, weak}
LookupTable == {lookup}
Sources     == (lookup :> {}) @@ (joined :> {"view", "statements"}) @@ (weak :> {"statements"})

Weights == (lookup :> 65) @@ (joined :> 25) @@ (weak :> 5)

(* Everything on, sampled and full, and each stage off at least once.       *)
Runs == {[off |-> {}, full |-> FALSE],
         [off |-> {"naming detection", "statistical prefilter"}, full |-> TRUE],
         [off |-> {"usage evidence"}, full |-> FALSE]}
==============================================================================
