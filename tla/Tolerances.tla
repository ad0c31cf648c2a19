----------------------------- MODULE Tolerances -----------------------------
(***************************************************************************)
(* The tolerances of contracts/SolverOptions.hpp the mixed-integer engines *)
(* read, and the gap test they share.                                      *)
(***************************************************************************)
EXTENDS MipModel

CONSTANTS
    PrimalTol, IntTol,   \* primal_tolerance, integrality_tolerance
    AbsTol,              \* absolute_gap_tolerance, in objective steps
    RelNum, RelDen       \* relative_gap_tolerance = RelNum / RelDen

ASSUME ToleranceAssumption ==
    /\ PrimalTol \in Nat /\ IntTol \in Nat
    /\ AbsTol \in 0 .. Inf - 1 /\ RelNum \in Nat /\ RelDen \in Nat \ {0}

\* absolute_gap and relative_gap against their tolerances; a gap to an
\* infinite bound is infinite.
WithinGap(primal, dual) ==
    /\ Finite(primal) /\ Finite(dual)
    /\ LET gap == Larger(0, primal - dual) IN
       \/ gap <= AbsTol
       \/ gap * RelDen <= RelNum * Larger(ObjectiveOne, Magnitude(primal))
=============================================================================
