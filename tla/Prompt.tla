-------------------------------- MODULE Prompt --------------------------------
(***************************************************************************)
(* internal/cli/prompt.go: the chooser, a list with a cursor.  Multi mode  *)
(* ticks options; enter takes what is ticked or, with nothing ticked, what *)
(* is under the cursor.                                                    *)
(***************************************************************************)
EXTENDS Integers, FiniteSets, FiniteSetsExt

CONSTANT Height     \* how many options fit on the screen

ASSUME PromptAssumption == Height \in Nat /\ Height >= 3

chooser(n, multi) == [n |-> n, multi |-> multi, cursor |-> 1, picked |-> {}]

window(m) == Min({Height, m.n})

(* The options drawn, around the cursor.                                    *)
slice(m) ==
    LET above == Max({0, m.cursor - 1 - window(m) \div 2})
        first == IF above + window(m) > m.n THEN m.n - window(m) ELSE above
    IN  (first + 1)..(first + window(m))

Keys == {"up", "down", "pgup", "pgdown", "home", "end", "space"}

\* Mutant: space ticks in single mode too.
TicksAnywhere(m) ==
    [m EXCEPT !.picked = IF m.cursor \in @ THEN @ \ {m.cursor} ELSE @ \cup {m.cursor}]

Toggled(m) ==
    IF ~m.multi THEN m
    ELSE [m EXCEPT !.picked = IF m.cursor \in @ THEN @ \ {m.cursor} ELSE @ \cup {m.cursor}]

Update(m, key) ==
    CASE key = "up"     -> [m EXCEPT !.cursor = Max({1, @ - 1})]
      [] key = "down"   -> [m EXCEPT !.cursor = Min({m.n, @ + 1})]
      [] key = "pgup"   -> [m EXCEPT !.cursor = Max({1, @ - window(m)})]
      [] key = "pgdown" -> [m EXCEPT !.cursor = Min({m.n, @ + window(m)})]
      [] key = "home"   -> [m EXCEPT !.cursor = 1]
      [] key = "end"    -> [m EXCEPT !.cursor = m.n]
      [] key = "space"  -> Toggled(m)

chosen(m) == IF m.picked = {} THEN {m.cursor} ELSE m.picked
==============================================================================
