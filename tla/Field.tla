------------------------------- MODULE Field -------------------------------
(***************************************************************************)
(* The scalars of the linear algebra, as exact numbers of some field, and  *)
(* the vectors over it (Scalar, CpuVector, CudaVector::axpby).             *)
(***************************************************************************)
EXTENDS Integers

CONSTANTS
    Scalars, Zero, One,
    Plus(_, _), Minus(_, _), Times(_, _), Over(_, _)

\* What of a field's laws the proofs rest on.
ASSUME FieldAssumption ==
    /\ Zero \in Scalars /\ One \in Scalars
    /\ \A a, b \in Scalars :
          /\ Plus(a, b) \in Scalars /\ Minus(a, b) \in Scalars /\ Times(a, b) \in Scalars
          /\ b # Zero => Over(a, b) \in Scalars
          /\ Minus(a, Zero) = a /\ Times(One, a) = a
    /\ \A a, b, c \in Scalars : Minus(a, Plus(b, c)) = Minus(Minus(a, b), c)

Vectors(n) == [1 .. n -> Scalars]
Origin(n) == [i \in 1 .. n |-> Zero]
More(x, a, y) == [i \in DOMAIN x |-> Plus(x[i], Times(a, y[i]))]
Less(x, a, y) == [i \in DOMAIN x |-> Minus(x[i], Times(a, y[i]))]
=============================================================================
