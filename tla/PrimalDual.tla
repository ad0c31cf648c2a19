----------------------------- MODULE PrimalDual -----------------------------
(***************************************************************************)
(* The first-order solvers of LPs and QPs: solve_lp of lp/pdhg.cpp and     *)
(* solve_qp of qp/pdqp.cpp, with the scaling and the residuals of          *)
(* continuous_common.hpp.  The two share everything but the step length    *)
(* and the term Qx.                                                        *)
(*                                                                         *)
(* Calls, models and scalars are those of ContinuousCommon.  NaN and the   *)
(* tests for it after the loop are left out.                               *)
(***************************************************************************)
EXTENDS ContinuousCommon, Semidefinite

CONSTANTS
    Requests,
    PrimalTol, DualTol,    \* primal_tolerance, dual_tolerance
    ActiveFloor,           \* 1e-8, the least tolerance of an active bound
    IterationLimit,        \* iteration_limit
    CheckInterval,         \* 50: iterations between two looks at the metric
    TimeLimited            \* whether the clock may run out

ASSUME LimitsAssumption ==
    /\ PrimalTol \in Nat /\ DualTol \in Nat /\ ActiveFloor \in Nat
    /\ IterationLimit \in Nat /\ CheckInterval \in Nat \ {0}
    /\ TimeLimited \in BOOLEAN

\* Coefficients of at most Unit integers: no scale is rounded to zero.
Scalable(m) == \A r \in RowsOf(m) : \A v \in ColumnsOf(m) :
    Magnitude(m.rows[r].coefficients[v]) <= Unit * Unit
ASSUME RequestsAssumption == \A q \in Requests : IsCall(q) /\ Scalable(q.model)

VARIABLES
    pc, request,
    scaled,                       \* ScaledLinearModel, and the largest step
    x, y, tau, sigma, restart, previous_metric, iter,
    status, result

iterates == <<x, y, tau, sigma, restart, previous_metric, iter>>
vars == <<pc, request, scaled, iterates, status, result>>

-----------------------------------------------------------------------------
(* Arithmetic.                                                             *)
SquareRoot(a) == CHOOSE r \in 0 .. a + 1 : r * r <= a /\ a < (r + 1) * (r + 1)
Project(f, lower, upper) == [i \in DOMAIN f |-> Clamp(f[i], lower[i], upper[i])]

-----------------------------------------------------------------------------
(* The scaled model.                                                       *)
Scale(maximum) == IF maximum > Unit THEN Quotient(Unit, maximum) ELSE Unit
RowScale(m) == [r \in RowsOf(m) |-> Scale(NormInf(m.rows[r].coefficients))]
ColumnScale(m) ==
    [v \in ColumnsOf(m) |->
        Scale(NormInf([r \in RowsOf(m) |-> m.rows[r].coefficients[v]]))]
ScaleUp(a, scale) == IF Finite(a) THEN Product(a, scale) ELSE a
ScaleDown(a, scale) == IF Finite(a) THEN Quotient(a, scale) ELSE a

\* Mutant: row sums alone, the norm of A as a map between maximum norms.
RowSumBound(m, matrix) ==
    Largest([r \in RowsOf(m) |-> Total([v \in ColumnsOf(m) |-> Magnitude(matrix[r][v])])])
\* sqrt(|A|_1 |A|_inf), a bound on the operator norm of A.
OperatorBound(m, matrix) ==
    LET rowSum(r) == Total([v \in ColumnsOf(m) |-> Magnitude(matrix[r][v])])
        columnSum(v) == Total([r \in RowsOf(m) |-> Magnitude(matrix[r][v])])
    IN  SquareRoot(Largest([r \in RowsOf(m) |-> rowSum(r)])
                     * Largest([v \in ColumnsOf(m) |-> columnSum(v)]))
QuadraticBound(m, quadratic) ==
    Largest([v \in ColumnsOf(m) |->
        Total([w \in ColumnsOf(m) |-> Magnitude(quadratic[<<v, w>>])])])
Safe == (99 * Unit) \div 100
MaxStep(solver, norm, q_norm) ==
    Quotient(Safe, Larger(Unit, IF solver = "LP" THEN norm
                                ELSE Product(norm, norm) + q_norm))

Scaled(m, solver, lower, upper) ==
    LET rs == RowScale(m)
        cs == ColumnScale(m)
        matrix == [r \in RowsOf(m) |-> [v \in ColumnsOf(m) |->
                      Product(Product(m.rows[r].coefficients[v], rs[r]), cs[v])]]
        quadratic == [e \in DOMAIN m.quadratic |->
                         Product(Product(m.quadratic[e], cs[e[1]]), cs[e[2]])]
        norm == OperatorBound(m, matrix)
    IN  [matrix |-> matrix, quadratic |-> quadratic, norm |-> norm,
         linear |-> [v \in ColumnsOf(m) |-> Product(m.linear[v], cs[v])],
         lower |-> [v \in ColumnsOf(m) |-> ScaleDown(lower[v], cs[v])],
         upper |-> [v \in ColumnsOf(m) |-> ScaleDown(upper[v], cs[v])],
         row_lower |-> [r \in RowsOf(m) |-> ScaleUp(m.rows[r].lower, rs[r])],
         row_upper |-> [r \in RowsOf(m) |-> ScaleUp(m.rows[r].upper, rs[r])],
         row_scale |-> rs, column_scale |-> cs,
         max_step |-> MaxStep(solver, norm, QuadraticBound(m, quadratic))]

\* A'y and Qx.
Transposed(m, matrix, dual) ==
    [v \in ColumnsOf(m) |-> Total([r \in RowsOf(m) |-> Product(matrix[r][v], dual[r])])]
Gradient(m, linear, quadratic, matrix, point, dual) ==
    LET qx == Curved(m, quadratic, point)
        aty == Transposed(m, matrix, dual)
    IN  [v \in ColumnsOf(m) |-> linear[v] + qx[v] + aty[v]]

-----------------------------------------------------------------------------
(* The call, up to the loop.                                               *)
Refusal(q) ==
    IF ~BoundsCopied(q) \/ ~Ordered(q.model) THEN "InvalidModel"
    ELSE IF q.model.class # q.solver THEN "UnsupportedModel"
    ELSE IF q.model.linear = <<>> THEN "InvalidModel"
    ELSE IF q.solver = "QP" /\ ~PositiveSemidefinite(q.model.quadratic, Len(q.model.linear))
         THEN "UnsupportedModel"
    ELSE IF ~q.usable THEN "InvalidModel"
    ELSE IF q.method \notin {"Auto", "PDHG"} THEN "UnsupportedModel"
    ELSE IF ~Sized(q, q.warm_start) THEN "InvalidModel"
    ELSE "NotSolved"

NoResult == <<>>
Init ==
    /\ pc = "call" /\ request \in Requests
    /\ scaled = <<>> /\ x = <<>> /\ y = <<>> /\ tau = 0 /\ sigma = 0 /\ restart = FALSE
    /\ previous_metric = Inf /\ iter = 0
    /\ status = "NotSolved" /\ result = NoResult

model == request.model

Refuse ==
    /\ pc = "call" /\ Refusal(request) # "NotSolved"
    /\ status' = Refusal(request) /\ pc' = "returned"
    /\ UNCHANGED <<request, scaled, iterates, result>>

Start(q, s) ==
    IF q.warm_start = <<>> THEN [v \in ColumnsOf(q.model) |-> 0]
    ELSE [v \in ColumnsOf(q.model) |-> Quotient(q.warm_start[v], s.column_scale[v])]
Prepare ==
    /\ pc = "call" /\ Refusal(request) = "NotSolved"
    /\ scaled' = Scaled(model, request.solver, LowerBounds(request), UpperBounds(request))
    /\ x' = Project(Start(request, scaled'), scaled'.lower, scaled'.upper)
    /\ y' = [r \in RowsOf(model) |-> 0]
    /\ tau' = scaled'.max_step /\ sigma' = scaled'.max_step
    /\ pc' = "loop"
    /\ UNCHANGED <<request, restart, previous_metric, iter, status, result>>

-----------------------------------------------------------------------------
(* The loop.                                                               *)
OutOfIterations ==
    /\ pc = "loop" /\ iter = IterationLimit
    /\ pc' = "report"
    /\ UNCHANGED <<request, scaled, iterates, status, result>>
TimedOut ==
    /\ pc = "loop" /\ iter < IterationLimit /\ TimeLimited
    /\ status' = "TimeLimit" /\ pc' = "report"
    /\ UNCHANGED <<request, scaled, iterates, result>>

ScaledGradient(point, dual) ==
    Gradient(model, scaled.linear, scaled.quadratic, scaled.matrix, point, dual)
NextPoint ==
    LET g == ScaledGradient(x, y)
    IN  Project([v \in DOMAIN x |-> x[v] - Product(tau, g[v])], scaled.lower, scaled.upper)
Extrapolated(x_next) ==
    IF restart THEN x_next ELSE [v \in DOMAIN x |-> 2 * x_next[v] - x[v]]
\* sigma * P(a / sigma) is P on the row's bounds times sigma: nothing is
\* divided, and a row at rest has a multiplier of exactly 0.
NextDual(x_bar) ==
    LET ax_bar == RowValues(model, scaled.matrix, x_bar)
        argument(r) == y[r] + Product(sigma, ax_bar[r])
    IN  [r \in DOMAIN y |->
            argument(r) - Clamp(argument(r), ScaleUp(scaled.row_lower[r], sigma),
                                             ScaleUp(scaled.row_upper[r], sigma))]

\* The scaled residuals of a pair: distance of Ax to its box, and of x to
\* where a gradient step of length 1 leads.
Metric(point, dual) ==
    LET ax == RowValues(model, scaled.matrix, point)
        g == ScaledGradient(point, dual)
        stepped == Project(Difference(point, g), scaled.lower, scaled.upper)
    IN  Larger(NormInf(Difference(ax, Project(ax, scaled.row_lower, scaled.row_upper))),
               NormInf(Difference(point, stepped)))

\* Every CheckInterval iterations: shorter steps after a rise, longer ones
\* after a fall.
Adapt(metric) ==
    LET check == iter > 0 /\ iter % CheckInterval = 0
        rise == check /\ 4 * metric > 5 * previous_metric
        fall == check /\ ~rise /\ 10 * metric < previous_metric
    IN  /\ restart' = rise
        /\ previous_metric' = IF check \/ iter = 0 THEN metric ELSE previous_metric
        /\ tau' = IF rise THEN tau \div 2
                  ELSE IF fall THEN Smaller((tau * 105) \div 100, scaled.max_step)
                  ELSE tau
        /\ sigma' = IF rise THEN sigma \div 2 ELSE IF fall THEN tau' ELSE sigma

Iterate ==
    /\ pc = "loop" /\ iter < IterationLimit
    /\ x' = NextPoint
    /\ y' = NextDual(Extrapolated(x'))
    /\ iter' = iter + 1
    /\ LET metric == Metric(x', y') IN
       /\ Adapt(metric)
       /\ \/ /\ metric <= Larger(PrimalTol, DualTol)
             /\ status' = "Optimal" /\ pc' = "report"
          \/ /\ metric > Larger(PrimalTol, DualTol)
             /\ UNCHANGED <<status, pc>>
    /\ UNCHANGED <<request, scaled, result>>

-----------------------------------------------------------------------------
(* The report, in the coordinates of the model.                            *)
Unscaled(f, scale) == [i \in DOMAIN f |-> Product(f[i], scale[i])]

PrimalResidual(q, point, values) ==
    Larger(Largest([r \in DOMAIN values |->
               Violation(values[r], q.model.rows[r].lower, q.model.rows[r].upper)]),
           Largest([v \in DOMAIN point |->
               Violation(point[v], LowerBounds(q)[v], UpperBounds(q)[v])]))
StationarityResidual(q, point, g) ==
    NormInf(Difference(point,
                       Project(Difference(point, g), LowerBounds(q), UpperBounds(q))))

\* Mutant: the whole gradient, whichever way it pushes.
UnsignedBoundDual(distance, bound, push) ==
    IF Finite(bound) /\ distance <= 10 * PrimalTol THEN Magnitude(push) ELSE 0
\* The multiplier of a bound: the gradient's part that pushes against it,
\* where the bound is active.
ActiveTol == Larger(10 * PrimalTol, ActiveFloor)
BoundDual(distance, bound, push) ==
    IF Finite(bound) /\ distance <= ActiveTol THEN Larger(0, push) ELSE 0
\* Mutant: only rows and bounds the point is close to, as the multipliers of bounds.
ActiveComplementarity(distance, bound, dual) ==
    IF Finite(bound) /\ distance <= ActiveTol THEN Magnitude(Product(distance, dual)) ELSE 0
Complementarity(distance, bound, dual) ==
    IF Finite(bound) THEN Magnitude(Product(distance, dual)) ELSE 0

Answer(q, point, dual) ==
    LET m == q.model
        lower == LowerBounds(q)
        upper == UpperBounds(q)
        values == RowValues(m, Coefficients(m), point)
        g == Gradient(m, m.linear, m.quadratic, Coefficients(m), point, dual)
        rowLower == [r \in DOMAIN dual |-> Larger(0, -dual[r])]
        rowUpper == [r \in DOMAIN dual |-> Larger(0, dual[r])]
        varLower == [v \in DOMAIN point |->
                        BoundDual(point[v] - lower[v], lower[v], g[v])]
        varUpper == [v \in DOMAIN point |->
                        BoundDual(upper[v] - point[v], upper[v], -g[v])]
        rowGap(r) == Larger(
            Complementarity(values[r] - m.rows[r].lower, m.rows[r].lower, rowLower[r]),
            Complementarity(m.rows[r].upper - values[r], m.rows[r].upper, rowUpper[r]))
        varGap(v) == Larger(
            Complementarity(point[v] - lower[v], lower[v], varLower[v]),
            Complementarity(upper[v] - point[v], upper[v], varUpper[v]))
    IN  [primal_solution |-> point, objective_value |-> ObjectiveValue(m, point),
         constraint_lower_dual |-> rowLower, constraint_upper_dual |-> rowUpper,
         variable_lower_dual |-> varLower, variable_upper_dual |-> varUpper,
         primal_residual |-> PrimalResidual(q, point, values),
         stationarity_residual |-> StationarityResidual(q, point, g),
         complementarity_residual |->
             Larger(Largest([r \in DOMAIN dual |-> rowGap(r)]),
                    Largest([v \in DOMAIN point |-> varGap(v)]))]

\* Mutant: the loop's own test is trusted.
ConvergedAsScaled(answer) == answer.stationarity_residual < Inf
WithinTolerances(answer) ==
    /\ answer.primal_residual <= PrimalTol
    /\ answer.stationarity_residual <= DualTol
FinalStatus(answer) ==
    IF status = "NotSolved" THEN "IterationLimit"
    ELSE IF status = "Optimal" /\ ~WithinTolerances(answer) THEN "NumericalFailure"
    ELSE status

Report ==
    /\ pc = "report"
    /\ result' = Answer(request, Unscaled(x, scaled.column_scale),
                        Unscaled(y, scaled.row_scale))
    /\ status' = FinalStatus(result')
    /\ pc' = "returned"
    /\ UNCHANGED <<request, scaled, iterates>>

Returned == pc = "returned" /\ UNCHANGED vars

Next ==
    \/ Refuse \/ Prepare
    \/ OutOfIterations \/ TimedOut \/ Iterate
    \/ Report \/ Returned

Spec == Init /\ [][Next]_vars
=============================================================================
