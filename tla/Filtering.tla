------------------------------ MODULE Filtering ------------------------------
(***************************************************************************)
(* The loop by which the program filters a slice.                          *)
(***************************************************************************)
EXTENDS Naturals, Sequences

\* The elements of s that are in S, in the order they have in s.
OnlyIn(s, S) ==
    LET kept[i \in 0..Len(s)] ==
            IF i = 0 THEN <<>>
            ELSE IF s[i] \in S THEN Append(kept[i - 1], s[i])
            ELSE kept[i - 1]
    IN  kept[Len(s)]
=============================================================================
