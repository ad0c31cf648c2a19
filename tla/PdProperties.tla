---------------------------- MODULE PdProperties ----------------------------
(***************************************************************************)
(* What the first-order solvers promise of an Optimal answer.              *)
(***************************************************************************)
EXTENDS PrimalDual

CONSTANT
    GridPoints,      \* points of the reference definitions, per model
    Directions,      \* directions along which the operator bound is tested
    RoundOff         \* steps a sum of rounded products may be off

Solved == pc = "returned" /\ status = "Optimal"

\* At every iteration the steps are positive and meet the condition under which the method
\* converges, tau sigma |A|^2 + tau |Q| / 2 <= 1, for the scaled matrices
\* themselves and not for the bounds the code computes of their norms: tested
\* along Directions (pdhg.cpp:75-78, 133-145, continuous_common.hpp:207-225).
Squared(f) == Total([i \in DOMAIN f |-> f[i] * f[i]])
StepsConverge ==
    pc \in {"loop", "report"} =>
        \A d \in {e \in Directions : DOMAIN e = ColumnsOf(model)} :
            LET ad == [r \in RowsOf(model) |-> Total(
                          [v \in ColumnsOf(model) |-> Product(tau, scaled.matrix[r][v]) * d[v]])]
                qd == [v \in ColumnsOf(model) |-> Total(
                          [w \in ColumnsOf(model) |-> Product(tau, scaled.quadratic[<<v, w>>]) * d[w]])]
            IN  /\ sigma = tau /\ tau > 0
                /\ Squared(ad) + Total([v \in DOMAIN d |-> d[v] * qd[v] * (Unit \div 2)])
                      <= Unit * Unit * Squared(d)

\* An Optimal point is inside the bounds and the rows of the model that was
\* asked, whatever scaling the loop worked with (pdhg.cpp:167-173, 250-255).
Feasible(m, lower, upper, p, tol) ==
    /\ \A v \in ColumnsOf(m) : /\ Finite(lower[v]) => lower[v] - tol <= p[v]
                               /\ Finite(upper[v]) => p[v] <= upper[v] + tol
    /\ \A r \in RowsOf(m) :
          LET a == Total([v \in ColumnsOf(m) |-> m.rows[r].coefficients[v] * p[v]])
          IN  /\ Finite(m.rows[r].lower) => (m.rows[r].lower - tol) * Unit <= a
              /\ Finite(m.rows[r].upper) => a <= (m.rows[r].upper + tol) * Unit
AskedFor(p, tol) == Feasible(model, LowerBounds(request), UpperBounds(request), p, tol)
OptimalIsFeasible == Solved => 
    AskedFor(result.primal_solution, PrimalTol + Len(model.linear))

\* The four dual vectors satisfy the stationarity equation SolveResult.hpp
\* documents, up to the dual tolerance (pdhg.cpp:181-228).
RowDual == [r \in RowsOf(model) |->
    result.constraint_upper_dual[r] - result.constraint_lower_dual[r]]
Stationary ==
    LET g == Gradient(model, model.linear, model.quadratic, Coefficients(model),
                      result.primal_solution, RowDual)
    IN  \A v \in ColumnsOf(model) :
            Magnitude(g[v] - result.variable_lower_dual[v] + result.variable_upper_dual[v])
              <= DualTol
DualsAreStationary == Solved => Stationary

\* What an Optimal answer does say about optimality: no point of the model is
\* better by more than the complementarity residual summed over the bounds and
\* rows, and the tolerances times the lengths they act on; a gradient, and each
\* of the terms, are RoundOff steps off themselves.
Slack(p) ==
    LET length == Total([v \in ColumnsOf(model) |->
                            Magnitude(p[v] - result.primal_solution[v])])
        weight == Total(result.constraint_lower_dual) + Total(result.constraint_upper_dual)
        terms == Len(model.linear) + Len(model.rows)
    IN  terms * result.complementarity_residual
          + Product(DualTol + RoundOff, length) + Product(PrimalTol, weight)
          + RoundOff * (1 + terms)
GapWithinComplementarity ==
    Solved =>
        \A p \in {q \in GridPoints : DOMAIN q = ColumnsOf(model) /\ AskedFor(q, 0)} :
            result.objective_value <= ObjectiveValue(model, p) + Slack(p)

\* An Optimal answer satisfies the complementarity part of the KKT conditions
\* within the tolerances of the options.
OptimalIsComplementary ==
    Solved => result.complementarity_residual <= Larger(PrimalTol, DualTol)

-----------------------------------------------------------------------------
(* Which matrices are semidefinite, by their principal minors, for the     *)
(* orders up to 3.                                                         *)
Minor2(q, i, j) == q[<<i, i>>] * q[<<j, j>>] - q[<<i, j>>] * q[<<j, i>>]
Determinant3(q) ==
    q[<<1, 1>>] * Minor2(q, 2, 3)
      - q[<<1, 2>>] * (q[<<1, 2>>] * q[<<3, 3>>] - q[<<2, 3>>] * q[<<1, 3>>])
      + q[<<1, 3>>] * (q[<<1, 2>>] * q[<<2, 3>>] - q[<<2, 2>>] * q[<<1, 3>>])
IsSemidefinite(q, n) ==
    /\ \A i \in 1 .. n : q[<<i, i>>] >= 0
    /\ \A i, j \in 1 .. n : i < j => Minor2(q, i, j) >= 0
    /\ n = 3 => Determinant3(q) >= 0

\* A call of solve_qp that nothing but its matrix can make unsupported.
Judged ==
    /\ pc = "returned" /\ status # "InvalidModel"
    /\ request.solver = "QP" /\ model.class = "QP" /\ request.method = "Auto"

\* A QP is refused exactly if its matrix is not semidefinite, as the message
\* of the refusal says (pdqp.cpp:318-320).
MatricesAreJudged ==
    Judged => (status = "UnsupportedModel" <=>
                  ~IsSemidefinite(model.quadratic, Len(model.linear)))

\* It is so unless a pivot of zero follows a positive one and is not the last:
\* whatever the order in which the factorization meets zero, negative and
\* positive pivots (continuous_common.hpp:227-275).
ZeroPivotInside(q, n) == n = 3 /\ q[<<1, 1>>] > 0 /\ Minor2(q, 1, 2) = 0
RegularMatricesAreJudged ==
    ~ZeroPivotInside(model.quadratic, Len(model.linear)) => MatricesAreJudged
=============================================================================
