-------------------------------- MODULE Arrays --------------------------------
(***************************************************************************)
(* What the transformers use of JavaScript's arrays.  The kept elements    *)
(* are given as a set, and the recursion is a function on the array's      *)
(* prefixes, so that both can be reasoned about.                           *)
(***************************************************************************)
EXTENDS Naturals, Sequences

\* array.filter(x => S.has(x)).
filter(array, S) ==
    LET kept[n \in 0..Len(array)] ==
            IF n = 0 THEN <<>>
            ELSE IF array[n] \in S THEN Append(kept[n - 1], array[n])
            ELSE kept[n - 1]
    IN  kept[Len(array)]
==============================================================================
