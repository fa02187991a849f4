-------------------------- MODULE ValidationContract --------------------------
(***************************************************************************)
(* What validate.Run promises its caller, without goroutines, connections  *)
(* or errors: every candidate is resolved at most once, the run returns a  *)
(* result exactly when all of them are, and a run that has been doomed (by *)
(* a database error or by the caller's context) resolves nothing more on   *)
(* the strength of an error.                                               *)
(***************************************************************************)
EXTENDS Integers

CONSTANTS
    Candidates,     \* the candidates that reached validation
    Resolutions,    \* what a resolved candidate can carry
    Unset           \* the zero value of a result slot

VARIABLES
    slot,           \* result slot per candidate
    doomed,         \* the run's context has been cancelled
    ret             \* "running", "ok" or "error"

contractVars == <<slot, doomed, ret>>

Init ==
    /\ slot = [c \in Candidates |-> Unset]
    /\ doomed = FALSE
    /\ ret = "running"

(* A measurement may still land after the run is doomed; an error may not   *)
(* be read as an answer any more.                                           *)
Settle(c) ==
    /\ ret = "running"
    /\ slot[c] = Unset
    /\ \E r \in Resolutions :
          /\ doomed => r.method # "none"
          /\ slot' = [slot EXCEPT ![c] = r]
    /\ UNCHANGED <<doomed, ret>>

Doom ==
    /\ ret = "running"
    /\ ~doomed
    /\ doomed' = TRUE
    /\ UNCHANGED <<slot, ret>>

Finish ==
    /\ ret = "running"
    /\ \A c \in Candidates : slot[c] # Unset
    /\ ret' = "ok"
    /\ UNCHANGED <<slot, doomed>>

Fail ==
    /\ ret = "running"
    /\ doomed
    /\ \E c \in Candidates : slot[c] = Unset
    /\ ret' = "error"
    /\ UNCHANGED <<slot, doomed>>

Next == (\E c \in Candidates : Settle(c)) \/ Doom \/ Finish \/ Fail

Spec == Init /\ [][Next]_contractVars
==============================================================================
