-------------------------------- MODULE Sums --------------------------------
(***************************************************************************)
(* The sum of a function over a finite set of its arguments, which the     *)
(* contracts' books are compared with.                                     *)
(***************************************************************************)
EXTENDS Integers

SumOver(f, S) ==
    LET sum[T \in SUBSET S] ==
            IF T = {} THEN 0
            ELSE LET x == CHOOSE x \in T : TRUE IN f[x] + sum[T \ {x}]
    IN  sum[S]
=============================================================================
