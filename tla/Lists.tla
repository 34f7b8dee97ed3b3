--------------------------------- MODULE Lists ---------------------------------
(* Selections from a list, as Python's comprehensions make them. *)
EXTENDS Integers, Sequences

\* The members of a list at some of its places, in their order, and those
\* that pass a test.
Chosen(list, places) ==
    LET first[n \in 0..Len(list)] ==
            IF n = 0 THEN <<>>
            ELSE IF n \in places THEN Append(first[n - 1], list[n]) ELSE first[n - 1]
    IN  first[Len(list)]
Those(list, Test(_)) == Chosen(list, {i \in DOMAIN list : Test(list[i])})
=============================================================================
