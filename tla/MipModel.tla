----------------------------- MODULE MipModel -----------------------------
(***************************************************************************)
(* The optimisation model of contracts/Model.hpp and the predicates the    *)
(* mixed-integer engines evaluate on it.  A model is a record              *)
(*   lower, upper  variable bounds, +-Inf when absent                      *)
(*   types         "continuous", "integer" or "binary" for each variable   *)
(*   linear, offset, quadratic   min offset + c'x + 0.5 x'Qx; quadratic is *)
(*                 a function on the stored coordinates <<i, j>> of Q      *)
(*   rows          the set of rows lower <= a'x <= upper, each with the    *)
(*                 parallel lists indices and coefficients of its CSR row  *)
(*   nonlinear     whether a NonlinearOracle is attached                   *)
(* Every scalar is in grid steps, except the entries of Q, which are       *)
(* integers.                                                               *)
(***************************************************************************)
EXTENDS Grid, Sequences, FiniteSets, Functions

CONSTANTS NumVars,   \* Model::num_variables()
          Values     \* the scalars a component of a point may take

\* Values is any set of finite scalars that rounding does not leave.
ASSUME ValuesAssumption ==
    /\ NumVars \in Nat \ {0}
    /\ \A a \in Values :
          a \in Int /\ Finite(a) /\ {Floor(a), Ceil(a), Round(a)} \subseteq Values

Vars == 1 .. NumVars
Points == [Vars -> Values]
NoPoint == <<>>      \* a primal vector of the wrong size: empty

Sum(f) == FoldFunction(+, 0, f)

\* c'x + offset + 0.5 x'Qx, measured in steps of 1 / (2 * Unit^2).
EvaluateObjective(m, x) ==
    2 * (Unit * m.offset + Sum([v \in Vars |-> m.linear[v] * x[v]]))
      + Sum([e \in DOMAIN m.quadratic |-> m.quadratic[e] * x[e[1]] * x[e[2]]])
ObjectiveOne == 2 * Unit * Unit

\* a'x, in steps of 1 / Unit^2.
Activity(row, x) ==
    Sum([k \in DOMAIN row.indices |-> row.coefficients[k] * x[row.indices[k]]])
RowHolds(row, x, tol) ==
    LET a == Activity(row, x)
    IN  (row.lower - tol) * Unit <= a /\ a <= (row.upper + tol) * Unit

WithinBounds(x, lower, upper, tol) ==
    \A v \in Vars : lower[v] - tol <= x[v] /\ x[v] <= upper[v] + tol
IsFeasible(rows, x, lower, upper, tol) ==
    /\ x \in Points
    /\ WithinBounds(x, lower, upper, tol)
    /\ \A row \in rows : RowHolds(row, x, tol)

IntegerVars(m) == {v \in Vars : m.types[v] # "continuous"}
IsIntegerFeasible(m, x, tol) ==
    /\ x \in Points
    /\ \A v \in IntegerVars(m) : IntegralityViolation(x[v]) <= tol

\* What a row or a cut must look like: parallel lists, columns in range and
\* strictly ordered, ordered bounds.
ValidColumns(row) ==
    /\ Len(row.indices) = Len(row.coefficients)
    /\ \A k \in DOMAIN row.indices : row.indices[k] \in Vars
    /\ \A k \in 2 .. Len(row.indices) : row.indices[k - 1] < row.indices[k]
ValidModel(m) ==
    /\ \A v \in Vars : m.lower[v] <= m.upper[v]
    /\ \A row \in m.rows : ValidColumns(row) /\ row.lower <= row.upper
    /\ \A e \in DOMAIN m.quadratic :
          /\ <<e[2], e[1]>> \in DOMAIN m.quadratic
          /\ m.quadratic[<<e[2], e[1]>>] = m.quadratic[e]

\* The points the model asks for: inside every bound and row, and integral.
Solutions(m) ==
    {p \in Points : /\ IsFeasible(m.rows, p, m.lower, m.upper, 0)
                    /\ IsIntegerFeasible(m, p, 0)}
=============================================================================
