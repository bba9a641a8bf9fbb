------------------------------- MODULE Values -------------------------------
(* What several modules share: the value for "nothing" (null, undefined, an *)
(* option that is not chosen), lists that are filtered, and sums.           *)
EXTENDS Integers, Sequences, Functions

CONSTANT None

\* The elements of a list at some of its positions, in the order of the list.
Kept(list, positions) ==
  LET kept[n \in 0 .. Len(list)] ==
        IF n = 0 THEN <<>>
        ELSE IF n \in positions THEN Append(kept[n - 1], list[n]) ELSE kept[n - 1]
  IN kept[Len(list)]

\* The sum of the values of a function.
Sum(f) == FoldFunction(LAMBDA x, y : x + y, 0, f)
=============================================================================
