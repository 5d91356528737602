-------------------------------- MODULE Lists --------------------------------
(***************************************************************************)
(* The loop by which the sigma library takes elements out of an array.     *)
(***************************************************************************)
EXTENDS Naturals, Sequences

\* The members of a list that are in set, in their order
Kept(list, set) ==
    LET kept[n \in 0 .. Len(list)] ==
            IF n = 0 THEN <<>>
            ELSE IF list[n] \in set THEN Append(kept[n - 1], list[n]) ELSE kept[n - 1]
    IN  kept[Len(list)]
=============================================================================
