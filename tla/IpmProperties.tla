--------------------------- MODULE IpmProperties ---------------------------
(***************************************************************************)
(* What the interior point method keeps, and what LocallyOptimal means.    *)
(***************************************************************************)
EXTENDS InteriorPoint

CONSTANTS
    GridPoints,      \* points LocallyOptimal answers of convex models are compared with
    RoundOff         \* steps a sum of rounded products may be off

Running == pc \in {"loop", "report"}
Answered == pc = "returned" /\ result # NoResult
Solved == pc = "returned" /\ status = "LocallyOptimal"

\* From the start to the report, and whichever way the loop ends, the point is
\* strictly inside every bound and every row that is not an equation, as the
\* oracle sees them there, no multiplier of one is below the floor, and what the
\* loop works with is that point's own evaluation, not one of a rejected attempt
\* (ipm.cpp:275-284, 432-468).
StaysInterior ==
    /\ Running => /\ evaluation = Evaluate(request, x)
                  /\ Interior(evaluation)
                  /\ \A i \in DOMAIN mu : mu[i] = MuFloor \/ MuFloor < mu[i]
    /\ Answered => Interior(Evaluate(request, result.primal_solution))

-----------------------------------------------------------------------------
(* The multipliers by what they belong to, found in the model and not by   *)
(* walking the lists in step with evaluate.                                *)
RowSides == {s \in RowsOf(model) \X {"lower", "upper"} :
                LET row == model.rows[s[1]] IN
                /\ ~IsEquality(row)
                /\ Finite(IF s[2] = "lower" THEN row.lower ELSE row.upper)}
BoundSides == {s \in ColumnsOf(model) \X {"lower", "upper"} :
                  Finite(IF s[2] = "lower" THEN LowerBounds(request)[s[1]]
                                           ELSE UpperBounds(request)[s[1]])}
Before(a, b) == a[1] < b[1] \/ (a[1] = b[1] /\ a[2] = "lower" /\ b[2] = "upper")
Rank(s, sides) == 1 + Cardinality({t \in sides : Before(t, s)})
RowDual(r, side) ==
    IF <<r, side>> \in RowSides THEN mu[Rank(<<r, side>>, RowSides)] ELSE 0
BoundDual(v, side) ==
    IF <<v, side>> \in BoundSides
    THEN mu[Cardinality(RowSides) + Rank(<<v, side>>, BoundSides)] ELSE 0
RowMultiplier(r) ==
    IF IsEquality(model.rows[r])
    THEN lambda[1 + Cardinality({s \in 1 .. r - 1 : IsEquality(model.rows[s])})]
    ELSE RowDual(r, "upper") - RowDual(r, "lower")

\* Every entry of evaluate's lists has its multiplier, and those handed to the
\* oracle's Hessian are those of the rows they are handed for: the loop that
\* rebuilds them from the flat lists moves on exactly as the loop that filled
\* them (ipm.cpp:100-138, 303-321).
HessianSeesMultipliers ==
    pc = "loop" =>
        /\ DOMAIN lambda = DOMAIN evaluation.equalities
        /\ DOMAIN mu = DOMAIN evaluation.inequalities
        /\ DOMAIN mu = 1 .. Cardinality(RowSides) + Cardinality(BoundSides)
        /\ NonlinearMultipliers(model, lambda, mu) = [r \in RowsOf(model) |-> RowMultiplier(r)]

\* A LocallyOptimal point is a KKT point of the model that was asked: inside
\* its bounds and rows, with non-negative multipliers of their sides that
\* satisfy the stationarity equation of SolveResult.hpp and vanish away from
\* their sides (ipm.cpp:295-300, 471-476).
Within(a, lower, upper, tol) ==
    /\ Finite(lower) => lower - tol <= a
    /\ Finite(upper) => a <= upper + tol
Inside(m, lower, upper, p, tol) ==
    LET values == Constraints(m, p, Nonlinear(m, p))
    IN  /\ \A v \in ColumnsOf(m) : Within(p[v], lower[v], upper[v], tol)
        /\ \A r \in RowsOf(m) : Within(values[r], m.rows[r].lower, m.rows[r].upper, tol)
AskedFor(p, tol) == Inside(model, LowerBounds(request), UpperBounds(request), p, tol)
Stationary(p) ==
    LET n == Nonlinear(model, p)
        curved == Curved(model, model.quadratic, p)
    IN  \A v \in ColumnsOf(model) :
            Magnitude(model.linear[v] + curved[v] + n.gradient[v]
                        + Total([r \in RowsOf(model) |->
                              Product(RowMultiplier(r), Jacobian(model, n)[r][v])])
                        - BoundDual(v, "lower") + BoundDual(v, "upper")) <= DualTol + RoundOff
Complementary(p) ==
    LET values == Constraints(model, p, Nonlinear(model, p))
        small(excess, dual) == Magnitude(Product(excess, dual)) <= PrimalTol
    IN  /\ \A r \in RowsOf(model) :
              /\ small(model.rows[r].lower - values[r], RowDual(r, "lower"))
              /\ small(values[r] - model.rows[r].upper, RowDual(r, "upper"))
        /\ \A v \in ColumnsOf(model) :
              /\ small(LowerBounds(request)[v] - p[v], BoundDual(v, "lower"))
              /\ small(p[v] - UpperBounds(request)[v], BoundDual(v, "upper"))
LocallyOptimalIsKkt ==
    Solved => LET p == result.primal_solution IN
        AskedFor(p, PrimalTol) /\ Stationary(p) /\ Complementary(p)

\* Of a convex model, no point is better than a LocallyOptimal one by more than
\* what the three tolerances allow for: PrimalTol for every side, DualTol for
\* every unit of distance, and what the equations may be off; a residual, and
\* the value of a row, are RoundOff steps off themselves.
Allowance(p) ==
    LET length == Total([v \in ColumnsOf(model) |-> Magnitude(p[v] - result.primal_solution[v])])
        pull == NormInf(lambda) * Len(lambda)
    IN  Len(mu) * PrimalTol + Product(DualTol + RoundOff, length)
          + Product(PrimalTol + RoundOff, pull) + Product(RoundOff, Total(mu))
          + RoundOff * (2 + Len(mu))
ConvexIsSolved ==
    Solved /\ model.convex =>
        \A p \in {g \in GridPoints : DOMAIN g = ColumnsOf(model) /\ Nonlinear(model, g).finite} :
            AskedFor(p, 0) =>
                result.objective_value
                    <= ObjectiveValue(model, p) + Nonlinear(model, p).objective + Allowance(p)
=============================================================================
