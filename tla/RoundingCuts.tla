---------------------------- MODULE RoundingCuts ----------------------------
(***************************************************************************)
(* RoundingCutGenerator::generate (solver/mip/CutGenerator.cpp): a row     *)
(* over integer variables whose coefficients are integral, within int_tol, *)
(* has an integral activity, so a fractional bound of it is rounded inward *)
(* when the relaxation's point violates the rounded bound.                 *)
(***************************************************************************)
EXTENDS MipModel

CONSTANT CutTol      \* int_tol, in grid steps

ASSUME CutTolAssumption == CutTol \in Nat

IntegralRow(m, row) ==
    /\ row.indices # <<>>
    /\ \A k \in DOMAIN row.indices :
          /\ row.indices[k] \in IntegerVars(m)
          /\ IntegralityViolation(row.coefficients[k]) <= CutTol

RoundsUpper(row, x) ==
    /\ Finite(row.upper)
    /\ Floor(row.upper) < row.upper - CutTol
    /\ Activity(row, x) > (Floor(row.upper) + CutTol) * Unit
RoundsLower(row, x) ==
    /\ Finite(row.lower)
    /\ Ceil(row.lower) > row.lower + CutTol
    /\ Activity(row, x) < (Ceil(row.lower) - CutTol) * Unit

\* generate: the cuts offered for model m at the relaxation point x.
RoundingCuts(m, x) ==
    LET integral == {row \in m.rows : IntegralRow(m, row)}
    IN  {[row EXCEPT !.lower = -Inf, !.upper = Floor(@)] :
            row \in {r \in integral : RoundsUpper(r, x)}}
        \cup
        {[row EXCEPT !.lower = Ceil(@), !.upper = Inf] :
            row \in {r \in integral : RoundsLower(r, x)}}
=============================================================================
