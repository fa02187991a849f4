-------------------------------- MODULE Scope --------------------------------
(***************************************************************************)
(* internal/catalog ResolveScope: which of the schemas the role can open   *)
(* are analyzed, which were left out and which nobody asked for.           *)
(***************************************************************************)
EXTENDS Integers, FiniteSets

CONSTANT TrimSpace(_)   \* a name without the blanks around it

(* A pattern is the set of names it matches.                                *)
matchesSchema(patterns, schema) == \E p \in patterns : schema \in p

(* SortedSchemas, as a set: trimmed, blank entries and duplicates gone.     *)
SortedSchemas(raw) == {TrimSpace(s) : s \in raw} \ {""}

requested(visible, opts) ==
    IF opts.all THEN visible
    ELSE IF SortedSchemas(opts.schemas) = {} THEN {"public"} ELSE SortedSchemas(opts.schemas)

(* ErrEmptyScope.                                                           *)
EmptyScope == [schemas |-> {}, excluded |-> {}, notAnalyzed |-> {}, total |-> 0]

resolveScope(visible, opts) ==
    LET asked   == requested(visible, opts)
        dropped == {s \in asked : matchesSchema(opts.exclude, s)}
    IN  IF asked = dropped THEN EmptyScope
        ELSE [schemas |-> asked \ dropped, excluded |-> dropped, notAnalyzed |-> visible \ asked,
              total |-> Cardinality(visible)]
==============================================================================
