---------------------------- MODULE Semidefinite ----------------------------
(***************************************************************************)
(* positive_semidefinite of continuous_common.hpp: the Cholesky            *)
(* factorization by which solve_qp decides whether a QP is convex.         *)
(*                                                                         *)
(* The code divides each column by the root of its pivot and subtracts     *)
(* products of earlier columns when it comes to an entry.  Here the        *)
(* subtraction is done as soon as a column is known, and the division is   *)
(* replaced by multiplying the rest by the pivot, which is positive: the   *)
(* signs of the pivots are the same and every number stays an integer.     *)
(* What the code tests against its tolerance of 1e-10 is here a multiple   *)
(* of a step, so within the tolerance of zero means zero.                  *)
(*                                                                         *)
(* A matrix is a symmetric function on (1 .. n) \X (1 .. n).               *)
(***************************************************************************)
EXTENDS Integers

\* Mutant: only the diagonal is updated.
EliminatedDiagonal(schur, k) ==
    [e \in DOMAIN schur |->
        IF e[1] > k /\ e[1] = e[2]
        THEN schur[<<k, k>>] * schur[e] - schur[<<e[1], k>>] * schur[<<e[2], k>>]
        ELSE schur[e]]
\* The entries not yet factored, less column k's part of them.
Eliminated(schur, k) ==
    [e \in DOMAIN schur |->
        IF e[1] > k /\ e[2] > k
        THEN schur[<<k, k>>] * schur[e] - schur[<<e[1], k>>] * schur[<<e[2], k>>]
        ELSE schur[e]]

\* A pivot of zero: the code looks at the entries of q below it, from which it
\* has not subtracted the earlier columns, and goes on with the column zero.
ColumnIsZero(q, k, n) == \A i \in k + 1 .. n : q[<<i, k>>] = 0

\* One column: s is what the earlier ones left and whether they were accepted.
FactorColumn(q, n, s, k) ==
    LET pivot == s.schur[<<k, k>>] IN
    [schur |-> IF pivot > 0 THEN Eliminated(s.schur, k) ELSE s.schur,
     accepted |-> /\ s.accepted
                  /\ pivot >= 0
                  /\ pivot = 0 => ColumnIsZero(q, k, n)]

PositiveSemidefinite(q, n) ==
    LET factored[k \in 0 .. n] ==
            IF k = 0 THEN [schur |-> q, accepted |-> TRUE]
            ELSE FactorColumn(q, n, factored[k - 1], k)
    IN  factored[n].accepted
=============================================================================
