--------------------------------- MODULE Sums ----------------------------------
(***************************************************************************)
(* Sums of the numbers a table has for the members of a finite set.        *)
(***************************************************************************)
EXTENDS Integers

\* A member; the one there is of a set with one.
Only(c) == CHOOSE x \in c : TRUE

SumAt(numbers, S) ==
  LET sum[T \in SUBSET S] == IF T = {} THEN 0 ELSE numbers[Only(T)] + sum[T \ {Only(T)}]
  IN sum[S]
================================================================================
