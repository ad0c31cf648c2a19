--------------------------- MODULE InteriorPoint ---------------------------
(***************************************************************************)
(* solve_nlp of solver/nlp/ipm.cpp: a primal-dual interior point method    *)
(* with a filter line search.                                              *)
(*                                                                         *)
(* Calls, models and scalars are those of ContinuousCommon; a request has  *)
(* a field iterations besides, its iteration_limit.  The nonlinear oracle  *)
(* and the backend's linear solver are outside: Nonlinear and Hessian are  *)
(* the oracle's answers, LinearAnswers the outcomes a solve may have, and  *)
(* nothing below depends on the direction being a good one.                *)
(***************************************************************************)
EXTENDS ContinuousCommon, SequencesExt

CONSTANTS
    Requests,
    Nonlinear(_, _),         \* model, point: [finite, objective, gradient, values, jacobian]
    Hessian(_, _, _),        \* model, point, row multipliers: [finite, values]
    LinearAnswers(_, _, _),  \* request, matrix, right-hand side: a set of
                             \* [converged, direction]
    PrimalTol, DualTol,      \* primal_tolerance, dual_tolerance
    MuFloor,                 \* 1e-12, the least multiplier
    MarginFloor, MarginParts,    \* 1e-12, 1e6: the start's distance from two bounds
    SideMargin,              \* 1e-6: the same from a single bound
    Attempts,                \* 20: attempts of the line search
    FilterParts,             \* 1e4: the least decrease, as a part
    TimeLimited              \* whether the clock may run out

ASSUME InteriorAssumption ==
    /\ PrimalTol \in Nat /\ DualTol \in Nat
    /\ MuFloor \in 1 .. Unit /\ MarginFloor \in Nat /\ SideMargin \in Nat /\ MarginParts \in Nat \ {0}
    /\ Attempts \in Nat /\ FilterParts \in Nat \ {0} /\ TimeLimited \in BOOLEAN
ASSUME RequestsAssumption == \A q \in Requests : IsCall(q)

VARIABLES
    pc, request,
    x, evaluation,           \* the iterate and what evaluate made of it
    lambda, mu,              \* multipliers of the equalities and inequalities
    iter, status, result

vars == <<pc, request, x, evaluation, lambda, mu, iter, status, result>>
iterates == <<x, evaluation, lambda, mu, iter>>

model == request.model

-----------------------------------------------------------------------------
(* evaluate: the rows and bounds as equations = 0 and inequalities <= 0.   *)
NlpRow(gradient, value) == [gradient |-> gradient, value |-> value]
Minus(f) == [i \in DOMAIN f |-> -f[i]]
Basis(m, v, a) == [w \in ColumnsOf(m) |-> IF w = v THEN a ELSE 0]

IsEquality(row) == Finite(row.lower) /\ row.lower = row.upper
If(test, row) == IF test THEN <<row>> ELSE <<>>
\* The finite sides of lower <= value <= upper, the lower one first.
Sides(lower, upper, gradient, minus, value) ==
    If(Finite(lower), NlpRow(minus, lower - value))
        \o If(Finite(upper), NlpRow(gradient, value - upper))

\* Constraint values and their gradients, linear and nonlinear part together.
Constraints(m, p, n) ==
    LET linear == RowValues(m, Coefficients(m), p)
    IN  [r \in RowsOf(m) |-> linear[r] + n.values[r]]
Jacobian(m, n) ==
    [r \in RowsOf(m) |-> [v \in ColumnsOf(m) |-> m.rows[r].coefficients[v] + n.jacobian[r][v]]]

Equalities(m, values, jacobian) ==
    FlattenSeq([r \in RowsOf(m) |->
        If(IsEquality(m.rows[r]), NlpRow(jacobian[r], values[r] - m.rows[r].lower))])
RowInequalities(m, values, jacobian) ==
    FlattenSeq([r \in RowsOf(m) |->
        IF IsEquality(m.rows[r]) THEN <<>>
        ELSE Sides(m.rows[r].lower, m.rows[r].upper,
                   jacobian[r], Minus(jacobian[r]), values[r])])
BoundInequalities(m, lower, upper, p) ==
    FlattenSeq([v \in ColumnsOf(m) |->
        Sides(lower[v], upper[v], Basis(m, v, Unit), Basis(m, v, -Unit), p[v])])

Evaluate(q, p) ==
    LET m == q.model
        n == Nonlinear(m, p)
        values == Constraints(m, p, n)
        jacobian == Jacobian(m, n)
        curved == Curved(m, m.quadratic, p)
    IN  [objective |-> ObjectiveValue(m, p) + n.objective,
         gradient |-> [v \in ColumnsOf(m) |-> m.linear[v] + curved[v] + n.gradient[v]],
         constraints |-> values,
         equalities |-> Equalities(m, values, jacobian),
         inequalities |-> RowInequalities(m, values, jacobian)
                              \o BoundInequalities(m, LowerBounds(q), UpperBounds(q), p)]

Infeasibility(e) ==
    Larger(NormInf([i \in DOMAIN e.equalities |-> e.equalities[i].value]),
           Largest([i \in DOMAIN e.inequalities |-> e.inequalities[i].value]))
Interior(e) == \A i \in DOMAIN e.inequalities : e.inequalities[i].value < 0
Weighted(list, multipliers, v) ==
    Total([i \in DOMAIN list |-> Product(multipliers[i], list[i].gradient[v])])
DualResidual(e, dual, weights) ==
    [v \in DOMAIN e.gradient |->
        e.gradient[v] + Weighted(e.equalities, dual, v) + Weighted(e.inequalities, weights, v)]
ComplementarityResidual(e, weights) ==
    NormInf([i \in DOMAIN e.inequalities |-> Product(e.inequalities[i].value, weights[i])])

\* Mutant: complementarity is not looked at.
FeasibleAndStationary(e, dual, weights) ==
    /\ Infeasibility(e) <= PrimalTol
    /\ NormInf(DualResidual(e, dual, weights)) <= DualTol
\* Mutant: a gradient that is large enough is trusted.
FeasibleAndComplementary(e, dual, weights) ==
    /\ Infeasibility(e) <= PrimalTol
    /\ ComplementarityResidual(e, weights) <= PrimalTol
Converged(e, dual, weights) ==
    /\ Infeasibility(e) <= PrimalTol
    /\ NormInf(DualResidual(e, dual, weights)) <= DualTol
    /\ ComplementarityResidual(e, weights) <= PrimalTol

-----------------------------------------------------------------------------
(* The call, up to the loop.                                               *)
Refusal(q) ==
    IF ~BoundsCopied(q) \/ ~Ordered(q.model) THEN "InvalidModel"
    ELSE IF q.model.class # "NLP" THEN "UnsupportedModel"
    ELSE IF q.model.linear = <<>> \/ ~q.usable THEN "InvalidModel"
    ELSE IF q.method \notin {"Auto", "InteriorPoint"} THEN "UnsupportedModel"
    ELSE IF ~Sized(q, q.warm_start) THEN "InvalidModel"
    ELSE "NotSolved"

Middle(lower, upper) ==
    IF Finite(lower) /\ Finite(upper) THEN lower + (upper - lower) \div 2
    ELSE IF Finite(lower) THEN lower + Unit
    ELSE IF Finite(upper) THEN upper - Unit
    ELSE 0
Margin(width) == Smaller(width \div 4, Larger(MarginFloor, width \div MarginParts))
MovedInside(a, lower, upper) ==
    IF Finite(lower) /\ Finite(upper)
    THEN Clamp(a, lower + Margin(upper - lower), upper - Margin(upper - lower))
    ELSE IF Finite(lower) THEN Larger(a, lower + SideMargin)
    ELSE IF Finite(upper) THEN Smaller(a, upper - SideMargin)
    ELSE a
StartingPoint(q) ==
    [v \in ColumnsOf(q.model) |->
        LET lower == LowerBounds(q)[v]
            upper == UpperBounds(q)[v]
        IN  MovedInside(IF q.warm_start = <<>> THEN Middle(lower, upper) ELSE q.warm_start[v],
                        lower, upper)]

NoResult == <<>>
NoEvaluation == [equalities |-> <<>>, inequalities |-> <<>>]
Init ==
    /\ pc = "call" /\ request \in Requests
    /\ x = <<>> /\ evaluation = NoEvaluation /\ lambda = <<>> /\ mu = <<>> /\ iter = 0
    /\ status = "NotSolved" /\ result = NoResult

Refuse ==
    /\ pc = "call" /\ Refusal(request) # "NotSolved"
    /\ status' = Refusal(request) /\ pc' = "returned"
    /\ UNCHANGED <<request, iterates, result>>

StartUndefined ==
    /\ pc = "call" /\ Refusal(request) = "NotSolved"
    /\ ~Nonlinear(model, StartingPoint(request)).finite
    /\ status' = "InvalidModel" /\ pc' = "returned"
    /\ UNCHANGED <<request, iterates, result>>

\* There is no phase one: a start that is not strictly inside is a failure.
StartOutside ==
    /\ pc = "call" /\ Refusal(request) = "NotSolved"
    /\ Nonlinear(model, StartingPoint(request)).finite
    /\ ~Interior(Evaluate(request, StartingPoint(request)))
    /\ status' = "NumericalFailure" /\ pc' = "returned"
    /\ UNCHANGED <<request, iterates, result>>

Start ==
    /\ pc = "call" /\ Refusal(request) = "NotSolved"
    /\ Nonlinear(model, StartingPoint(request)).finite
    /\ LET e == Evaluate(request, StartingPoint(request)) IN
       /\ Interior(e)
       /\ evaluation' = e
       /\ lambda' = [i \in DOMAIN e.equalities |-> 0]
       /\ mu' = [i \in DOMAIN e.inequalities |-> Unit]
    /\ x' = StartingPoint(request)
    /\ pc' = "loop"
    /\ UNCHANGED <<request, iter, status, result>>

-----------------------------------------------------------------------------
(* The reduced KKT system at the iterate.                                  *)
One(test) == IF test THEN 1 ELSE 0
\* Mutant: the lower side's multiplier is read without moving on.
MultiplierStuck(row, k, dual, weights) ==
    IF IsEquality(row) THEN dual[k.equalities + 1]
    ELSE (IF Finite(row.upper) THEN weights[k.inequalities + 1] ELSE 0)
           - (IF Finite(row.lower) THEN weights[k.inequalities + 1] ELSE 0)
\* The multiplier of a row, k being the entries of evaluate's lists before it.
MultiplierOf(row, k, dual, weights) ==
    IF IsEquality(row) THEN dual[k.equalities + 1]
    ELSE (IF Finite(row.upper) THEN weights[k.inequalities + One(Finite(row.lower)) + 1] ELSE 0)
           - (IF Finite(row.lower) THEN weights[k.inequalities + 1] ELSE 0)
Passed(m, r) ==
    LET sides(row) == IF IsEquality(row) THEN 0
                      ELSE One(Finite(row.lower)) + One(Finite(row.upper))
    IN  [equalities |-> Total([s \in 1 .. r - 1 |-> One(IsEquality(m.rows[s]))]),
         inequalities |-> Total([s \in 1 .. r - 1 |-> sides(m.rows[s])])]
NonlinearMultipliers(m, dual, weights) ==
    [r \in RowsOf(m) |-> MultiplierOf(m.rows[r], Passed(m, r), dual, weights)]

OracleHessian == Hessian(model, x, NonlinearMultipliers(model, lambda, mu))
Slack(i) == -evaluation.inequalities[i].value
Complementarities == [i \in DOMAIN mu |-> Product(Slack(i), mu[i])]
Target == IF mu = <<>> THEN 0 ELSE (Total(Complementarities) \div Len(mu)) \div 10
Excess(i) == Complementarities[i] - Target                                \* rc
SideGradient(i) == evaluation.inequalities[i].gradient

RightHandSide ==
    LET residual == DualResidual(evaluation, lambda, mu)
        n == Len(x)
    IN  [k \in 1 .. n + Len(lambda) |->
            IF k > n THEN -evaluation.equalities[k - n].value
            ELSE Total([i \in DOMAIN mu |->
                     Quotient(Product(SideGradient(i)[k], Excess(i)), Slack(i))]) - residual[k]]
BarrierHessian(v, w) ==
    Total([i \in DOMAIN mu |->
        Product(Product(Quotient(mu[i], Slack(i)), SideGradient(i)[v]), SideGradient(i)[w])])
KktMatrix ==
    LET n == Len(x) IN
    [k \in (1 .. n + Len(lambda)) \X (1 .. n + Len(lambda)) |->
        IF k[1] <= n /\ k[2] <= n
        THEN model.quadratic[k] + OracleHessian.values[k] + BarrierHessian(k[1], k[2])
        ELSE IF k[1] <= n THEN evaluation.equalities[k[2] - n].gradient[k[1]]
        ELSE IF k[2] <= n THEN evaluation.equalities[k[1] - n].gradient[k[2]]
        ELSE 0]
Answers == LinearAnswers(request, KktMatrix, RightHandSide)

-----------------------------------------------------------------------------
(* The step along a direction of the linear solver.                        *)
Along(i, dx) == Times(SideGradient(i), dx)
MuDirection(dx) ==
    [i \in DOMAIN mu |-> Quotient(Product(mu[i], Along(i, dx)) - Excess(i), Slack(i))]
\* 0.99 of the way a may go at a rate of change that is negative.
ToBoundary(a, change) ==
    IF change < 0 THEN (99 * Quotient(a, -change)) \div 100 ELSE Unit
FullStep(dx) ==
    LET limits == {ToBoundary(Slack(i), -Along(i, dx)) : i \in DOMAIN mu}
                    \cup {ToBoundary(mu[i], MuDirection(dx)[i]) : i \in DOMAIN mu}
    IN  CHOOSE a \in limits \cup {Unit} : \A b \in limits \cup {Unit} : a <= b

\* The attempt with step length alpha.
Moved(f, alpha, d) == [i \in DOMAIN f |-> f[i] + Product(alpha, d[i])]
MovedMu(alpha, dx) ==
    [i \in DOMAIN mu |-> Larger(MuFloor, mu[i] + Product(alpha, MuDirection(dx)[i]))]
\* The least decrease by a part: a fraction of a step counts as a step.
Part(a) == -((-a) \div FilterParts)
Progress(alpha, e, weights) ==
    \/ Infeasibility(e) <= Infeasibility(evaluation) - Part(Infeasibility(evaluation))
    \/ e.objective <= evaluation.objective
                        - Part(Product(alpha, Larger(Unit, Magnitude(evaluation.objective))))
    \/ LET before == ComplementarityResidual(evaluation, mu) IN
       ComplementarityResidual(e, weights) <= before - Part(Product(alpha, before))
\* Mutant: the filter alone decides.
AcceptableOutside(alpha, dx) ==
    LET trial == Moved(x, alpha, dx) IN
    /\ Nonlinear(model, trial).finite
    /\ Progress(alpha, Evaluate(request, trial), MovedMu(alpha, dx))
Acceptable(alpha, dx) ==
    LET trial == Moved(x, alpha, dx) IN
    /\ Nonlinear(model, trial).finite
    /\ Interior(Evaluate(request, trial))
    /\ Progress(alpha, Evaluate(request, trial), MovedMu(alpha, dx))
\* The step lengths of the attempts, in order; each is half the one before.
Length(dx, k) == FullStep(dx) \div (2 ^ k)

-----------------------------------------------------------------------------
(* The loop.                                                               *)
OutOfIterations ==
    /\ pc = "loop" /\ iter = request.iterations
    /\ pc' = "report"
    /\ UNCHANGED <<request, iterates, status, result>>
TimedOut ==
    /\ pc = "loop" /\ iter < request.iterations /\ TimeLimited
    /\ status' = "TimeLimit" /\ pc' = "report"
    /\ UNCHANGED <<request, iterates, result>>
ConvergedAtHead ==
    /\ pc = "loop" /\ iter < request.iterations
    /\ Converged(evaluation, lambda, mu)
    /\ status' = "LocallyOptimal" /\ pc' = "report"
    /\ UNCHANGED <<request, iterates, result>>

AtStep == pc = "loop" /\ iter < request.iterations /\ ~Converged(evaluation, lambda, mu)
Fail ==
    /\ status' = "NumericalFailure" /\ pc' = "report"
    /\ UNCHANGED <<request, iterates, result>>
HessianUndefined == AtStep /\ ~OracleHessian.finite /\ Fail
LinearSolveFails ==
    /\ AtStep /\ OracleHessian.finite
    /\ \E answer \in Answers : ~answer.converged
    /\ Fail

Directions == {answer.direction : answer \in {a \in Answers : a.converged}}
Primal(direction) == SubSeq(direction, 1, Len(x))
LineSearchFails ==
    /\ AtStep /\ OracleHessian.finite
    /\ \E direction \in Directions : \A k \in 0 .. Attempts - 1 :
          ~Acceptable(Length(Primal(direction), k), Primal(direction))
    /\ Fail

Step ==
    /\ AtStep /\ OracleHessian.finite
    /\ \E direction \in Directions : \E k \in 0 .. Attempts - 1 :
          LET dx == Primal(direction)
              dlambda == SubSeq(direction, Len(x) + 1, Len(direction))
              alpha == Length(dx, k)
          IN  /\ Acceptable(alpha, dx)
              /\ \A j \in 0 .. k - 1 : ~Acceptable(Length(dx, j), dx)
              /\ x' = Moved(x, alpha, dx)
              /\ evaluation' = Evaluate(request, x')
              /\ lambda' = Moved(lambda, alpha, dlambda)
              /\ mu' = MovedMu(alpha, dx)
    /\ iter' = iter + 1
    /\ IF Converged(evaluation', lambda', mu')
       THEN status' = "LocallyOptimal" /\ pc' = "report"
       ELSE UNCHANGED <<status, pc>>
    /\ UNCHANGED <<request, result>>

-----------------------------------------------------------------------------
Answer ==
    [primal_solution |-> x, objective_value |-> evaluation.objective,
     primal_residual |-> Infeasibility(evaluation),
     stationarity_residual |-> NormInf(DualResidual(evaluation, lambda, mu)),
     complementarity_residual |-> ComplementarityResidual(evaluation, mu)]
Report ==
    /\ pc = "report"
    /\ result' = Answer
    /\ status' = IF status = "NotSolved" THEN "IterationLimit" ELSE status
    /\ pc' = "returned"
    /\ UNCHANGED <<request, iterates>>

Returned == pc = "returned" /\ UNCHANGED vars

Next ==
    \/ Refuse \/ StartUndefined \/ StartOutside \/ Start
    \/ OutOfIterations \/ TimedOut \/ ConvergedAtHead
    \/ HessianUndefined \/ LinearSolveFails \/ LineSearchFails \/ Step
    \/ Report \/ Returned

Spec == Init /\ [][Next]_vars
=============================================================================
