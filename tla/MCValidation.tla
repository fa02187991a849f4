----------------------------- MODULE MCValidation -----------------------------
(* Three candidates under two slots and two connections: one goroutine     *)
(* always has to wait for another, and a fatal error can find siblings     *)
(* before, inside and after their query.                                   *)
EXTENDS Validation

MCOptions == [full |-> FALSE, targetRows |-> 10, broken |-> 0, reject |-> 0, maxNull |-> 0]

(* A table read whole, a sampled one, and one the planner never analyzed.  *)
MCRows == <<10, 11, -1>>

Clean  == [sampledRows |-> 10, notNull |-> 10, distinct |-> 5, orphanRows |-> 0, orphanVals |-> 0]
Orphan == [sampledRows |-> 10, notNull |-> 10, distinct |-> 5, orphanRows |-> 1, orphanVals |-> 1]

MCMeasurements == {Clean, Orphan}
==============================================================================
