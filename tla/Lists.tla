-------------------------------- MODULE Lists ---------------------------------
(***************************************************************************)
(* The list comprehensions and loops over lists that the resolver, the     *)
(* planner and the schedule's builder share.                               *)
(***************************************************************************)
EXTENDS Integers, Sequences, SequencesExt

\* The elements of `list` that are in `set`, in their order:
\* [i for i in list if i in set].
Kept(list, set) ==
    LET kept[n \in 0..Len(list)] ==
            IF n = 0 THEN <<>>
            ELSE IF list[n] \in set THEN Append(kept[n - 1], list[n])
            ELSE kept[n - 1]
    IN  kept[Len(list)]

\* Slip: what is in the list twice is returned twice.
Once_Twice(list) == list

\* The first of each: the loop of _eval over what both sides of an OR find.
Once(list) ==
    LET once[n \in 0..Len(list)] ==
            IF n = 0 THEN <<>>
            ELSE LET out == once[n - 1]
                 IN  IF Contains(out, list[n]) THEN out
                     ELSE Append(out, list[n])
    IN  once[Len(list)]

=============================================================================
