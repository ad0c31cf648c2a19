------------------------------- MODULE Grid -------------------------------
(***************************************************************************)
(* The scalars of VIKALP.  The code computes with IEEE doubles; a scalar   *)
(* is here an integer number of grid steps, Unit steps to the integer 1,   *)
(* so a fractional value is a value that is not a multiple of Unit.  The   *)
(* code's std::floor, std::ceil and std::round are modelled by what they   *)
(* do on that grid.  Inf stands for Model::infinity(): every finite scalar *)
(* lies strictly between -Inf and Inf.                                     *)
(***************************************************************************)
EXTENDS Integers

CONSTANTS Unit,     \* grid steps per integer
          Inf       \* Model::infinity(), in grid steps

ASSUME GridAssumption == Unit \in Nat \ {0} /\ Inf \in Nat \ {0}

Finite(a) == -Inf < a /\ a < Inf                       \* std::isfinite

Magnitude(a) == IF a < 0 THEN -a ELSE a                \* std::abs
Larger(a, b) == IF a < b THEN b ELSE a                 \* std::max
Smaller(a, b) == IF b < a THEN b ELSE a                \* std::min
Clamp(a, lo, hi) == IF a < lo THEN lo ELSE IF hi < a THEN hi ELSE a

Floor(a) == (a \div Unit) * Unit
Ceil(a) == -Floor(-a)
\* Ties are rounded away from zero, as std::round does.
Round(a) == IF a >= 0 THEN ((2 * a + Unit) \div (2 * Unit)) * Unit
                      ELSE -(((Unit - 2 * a) \div (2 * Unit)) * Unit)

IntegralityViolation(a) == Magnitude(a - Round(a))
=============================================================================
