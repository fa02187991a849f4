----------------------------- MODULE MCPrefilter -----------------------------
(* Tables of at most three rows: enough for a child with more distinct keys *)
(* than twice its parent's rows, for an excess within the margin, and for   *)
(* statistics older than the rows.                                          *)
EXTENDS Prefilter

(* One nullable numeric column of three values, loaded from nothing.        *)
SingleColumn == <<1..3>>
FirstColumn  == {1}
NothingYet   == {[t \in Tuples |-> 0]}

(* A key of two columns of text, the second nullable, already loaded with   *)
(* two complete tuples and three MATCH SIMPLE exempts.                      *)
TwoColumns   == <<{"a", "b", "c", "d", "e"}, {"x"}>>
NoColumn     == {}
SecondColumn == {2}
SomePartial  == {[t \in Tuples |-> IF (t[2] = Null) = (t[1] \in {"c", "d", "e"}) THEN 1 ELSE 0]}

(* pg_class.reltuples of a table that was never analyzed.                   *)
SinceVersion14  == -1
==============================================================================
