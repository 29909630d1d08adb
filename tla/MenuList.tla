------------------------------ MODULE MenuList ------------------------------
(* The menu widget, internal/widgets/menu/main.go: where the keys take the   *)
(* cursor in a list of items some of which are separators.                   *)
EXTENDS Integers, Sequences, FiniteSetsExt

Separator == "separator"

Selectable(items, i) == items[i] # Separator

\* Up: to the item above, past separators, or to the top.
Above(items, at) ==
    IF at = 1 THEN 1
    ELSE Max({i \in 1..(at - 1) : i = 1 \/ Selectable(items, i)})

\* Mutant of Below: separators are not skipped.
BelowPlain(items, at) == IF at = Len(items) THEN at ELSE at + 1

\* Down: to the item below, past separators, or to the bottom.
Below(items, at) ==
    IF at = Len(items) THEN at
    ELSE Min({i \in (at + 1)..Len(items) :
                 i = Len(items) \/ Selectable(items, i)})

\* SetCursor: to the first item with the value; it stays if there is none.
CursorTo(items, at, val) ==
    IF \E i \in 1..Len(items) : items[i] = val
    THEN Min({i \in 1..Len(items) : items[i] = val})
    ELSE at
=============================================================================
