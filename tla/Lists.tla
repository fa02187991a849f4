--------------------------------- MODULE Lists ---------------------------------
(***************************************************************************)
(* What the code does to a slice with a loop and an append, written as a   *)
(* fold so that it can be proved about.                                    *)
(***************************************************************************)
EXTENDS Integers, Sequences, SequencesExt, FiniteSets

(* The elements of a sequence that are in a set, in their order.            *)
Among(seq, S) == FoldLeft(LAMBDA kept, x : IF x \in S THEN Append(kept, x) ELSE kept, <<>>, seq)
==============================================================================
