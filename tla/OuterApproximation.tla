------------------------- MODULE OuterApproximation -------------------------
(***************************************************************************)
(* solve_oa of solver/mip/OuterApproximation.cpp: convex outer             *)
(* approximation of a mixed-integer nonlinear model.  The master problem   *)
(* is the linear part of the model with one more variable, the epigraph of *)
(* the nonlinear objective, and a tangent row for every nonlinear row and  *)
(* for the objective at each point of linearized.  Masters are solved by   *)
(* solve_mip, of which only what MipSolve promises is used here.           *)
(*                                                                         *)
(* A nonlinear model has a field oracle, the NonlinearOracle tabulated on  *)
(* Points: objective and gradient in objective steps (gradient: per grid   *)
(* step), values and jacobian of each row in steps of 1 / Unit^2, and      *)
(* singular, the points at which a derivative is not finite.               *)
(***************************************************************************)
EXTENDS Tolerances, FiniteSetsExt

CONSTANTS
    Models,            \* the models a call may be given
    MaxIterations,     \* max_iterations: 50
    NodeLimit,         \* node_limit
    TimeLimited,       \* whether time_limit_seconds is finite
    DualValues,        \* finite dual bounds the oracle may report
    FailureStatuses,   \* statuses that come with no usable relaxation
    Slacks,            \* a master's epigraph variable above its tangents
    DualExcess         \* a master's dual bound above its objective value

ASSUME SettingsAssumption ==
    /\ MaxIterations \in Nat /\ NodeLimit \in Nat /\ TimeLimited \in BOOLEAN
    /\ DualValues \subseteq Int /\ \A d \in DualValues : Finite(d)
    /\ DualExcess \subseteq Int
    /\ Slacks \subseteq Int /\ \A s \in Slacks : s >= -2 * Unit * PrimalTol
    /\ FailureStatuses \subseteq
          {"Unbounded", "UnsupportedModel", "InvalidModel", "NumericalFailure",
           "IterationLimit", "NodeLimit", "TimeLimit"}

NonlinearModels == {m \in Models : m.nonlinear}
Dot(slope, x, y) == Sum([v \in Vars |-> slope[v] * (y[v] - x[v])])

\* evaluate_objective: the linear part, in objective steps, and the oracle's.
TotalObjective(m, x) == EvaluateObjective(m, x) + m.oracle.objective[x]

\* Mutant: the right-hand side of a tangent row forgets the gradient at x.
RowTangentNoOffset(m, row, x, y) ==
    m.oracle.values[row][x] + Dot(m.oracle.jacobian[row][x], [v \in Vars |-> 0], y)
\* The tangents add_linearizations appends at x, evaluated at y.
RowTangent(m, row, x, y) ==
    m.oracle.values[row][x] + Dot(m.oracle.jacobian[row][x], x, y)
\* Mutant: the same for the objective.
ObjectiveTangentNoOffset(m, x, y) ==
    m.oracle.objective[x] + Dot(m.oracle.gradient[x], [v \in Vars |-> 0], y)
ObjectiveTangent(m, x, y) ==
    m.oracle.objective[x] + Dot(m.oracle.gradient[x], x, y)

InRow(row, value, tol) ==
    (row.lower - tol) * Unit <= value /\ value <= (row.upper + tol) * Unit

LinearlyFeasible(m, x) == IsFeasible(m.rows, x, m.lower, m.upper, PrimalTol)
\* Mutant: the nonlinear rows are left to the tangents.
NonlinearlyFeasibleAlways(m, x) == TRUE
NonlinearlyFeasible(m, x) ==
    \A row \in m.rows : InRow(row, m.oracle.values[row][x], PrimalTol)

-----------------------------------------------------------------------------
(***************************************************************************)
(* What the model asks for (contracts/Model.hpp): the rows bound the sum   *)
(* of the linear and the nonlinear part.                                   *)
(***************************************************************************)
SatisfiesModel(m, x, tol) ==
    /\ x \in Points /\ WithinBounds(x, m.lower, m.upper, tol)
    /\ \A row \in m.rows :
          InRow(row, Activity(row, x) + m.oracle.values[row][x], tol)
NlSolutions(m) ==
    {p \in Points : SatisfiesModel(m, p, 0) /\ IsIntegerFeasible(m, p, 0)}

\* The convex OA contract of the oracle's tables: a tangent touches its
\* function and stays below it, in a row as far as the row's bounds can tell.
\* Values are finite throughout.
ASSUME ConvexAssumption ==
    \A m \in NonlinearModels : \A y \in Points :
        /\ TotalObjective(m, y) \in -Inf + 1 .. Inf - AbsTol - 1
        /\ EvaluateObjective(m, y) \in Int /\ m.oracle.objective[y] \in Int
        /\ \A x \in Points \ m.oracle.singular :
              LET f == m.oracle.objective[x] + Dot(m.oracle.gradient[x], x, y)
                  g(row) == m.oracle.values[row][x] + Dot(m.oracle.jacobian[row][x], x, y)
              IN  /\ f \in Int /\ f <= m.oracle.objective[y]
                  /\ x = y => f = m.oracle.objective[y]
                  /\ \A row \in m.rows :
                        /\ InRow(row, g(row), 0) \/ ~InRow(row, m.oracle.values[row][y], 0)
                        /\ x = y => g(row) = m.oracle.values[row][y]

(***************************************************************************)
(* The master after linearizing at the points of L, tabulated: the points  *)
(* it accepts and the points it wants, each given by its original          *)
(* variables, and its objective at a point when the epigraph variable is   *)
(* as low as the tangents allow.                                           *)
(***************************************************************************)
MasterHolds(m, L, y, tol) ==
    /\ IsFeasible(m.rows, y, m.lower, m.upper, tol)
    /\ \A x \in L, row \in m.rows : InRow(row, RowTangent(m, row, x, y), tol)
MasterLeast(m, L, y) ==
    EvaluateObjective(m, y) + Max({ObjectiveTangent(m, x, y) : x \in L})
MasterOf(m, L) ==
    [accepted |-> {y \in Points : /\ MasterHolds(m, L, y, PrimalTol)
                                  /\ IsIntegerFeasible(m, y, IntTol)},
     wanted |-> {y \in Points : /\ MasterHolds(m, L, y, 0)
                                /\ IsIntegerFeasible(m, y, 0)},
     least |-> [y \in Points |-> MasterLeast(m, L, y)]]
AcceptedBy(master) == master.accepted
WantedOf(master) == master.wanted
LeastAt(master, y) == master.least[y]

VARIABLES
    model,                 \* the argument
    linearized,            \* where the master's tangents were taken
    reply,                 \* the last answer: initial, then master_result
    incumbent,             \* incumbent_solution, NoPoint when empty
    incumbent_objective,
    dual_bound,
    total_nodes,
    iterations,
    termination,
    result,
    pc

vars == <<model, linearized, reply, incumbent, incumbent_objective, dual_bound,
          total_nodes, iterations, termination, result, pc>>
best == <<incumbent, incumbent_objective>>
effort == <<total_nodes, iterations>>

Master == INSTANCE MipSolve WITH
    Problems <- {}, NoObjective <- Inf, Accepted <- AcceptedBy,
    Wanted <- WantedOf, Objective <- LeastAt, Close <- WithinGap,
    problem <- MasterOf(model, linearized), bestValue <- reply.objective,
    answer <- reply.status

Answer(status, x, objective, dual) ==
    [status |-> status, x |-> x, objective |-> objective, dual_bound |-> dual]
NoReply == Answer("none", NoPoint, Inf, -Inf)
SolvedStatuses == {"Optimal", "LocallyOptimal", "Feasible"}

(***************************************************************************)
(* The oracle on the nonlinear relaxation: as in BranchAndBound, and with  *)
(* the objective value of the point it returns.                            *)
(***************************************************************************)
InitialReplies(m) ==
    LET inside == {p \in Points : SatisfiesModel(m, p, 0)}
        near == {p \in Points : SatisfiesModel(m, p, PrimalTol)}
        AtMost(a) == \A p \in inside : a <= TotalObjective(m, p)
        duals == {-Inf} \cup {d \in DualValues : AtMost(d)}
    IN  UNION {
          IF inside = {} THEN {Answer("Infeasible", NoPoint, Inf, Inf)} ELSE {},
          {Answer("Optimal", x, TotalObjective(m, x), d) :
              x \in {p \in near : AtMost(TotalObjective(m, p))}, d \in duals},
          {Answer(s, x, TotalObjective(m, x), d) :
              s \in SolvedStatuses \ {"Optimal"}, x \in near, d \in duals},
          {Answer(s, NoPoint, Inf, -Inf) : s \in FailureStatuses \cup {"Optimal"}}}

(***************************************************************************)
(* solve_mip on the master: Optimal and Infeasible as MipSolve promises,   *)
(* an Optimal dual bound as ReportedBoundHolds says, and any accepted      *)
(* point or none with the other statuses.  What the caller does not read   *)
(* is left at its default: the bound of a master that is not Optimal, the  *)
(* point of a refusal.                                                     *)
(***************************************************************************)
Refusals == {"NumericalFailure", "InvalidModel", "UnsupportedModel"}
MasterReplies(m, L) ==
    LET master == MasterOf(m, L)
        Reached(x) == {master.least[x] + s : s \in Slacks}
        values == {value \in UNION {Reached(x) : x \in master.accepted} :
                      Master!Justified(master, value, "Optimal")}
        BoundHolds(value, d) == \A q \in master.wanted :
            master.least[q] >= Smaller(d, value - AbsTol)
        Bounds(value) == {d \in {value + e : e \in DualExcess} :
                             WithinGap(value, d) /\ BoundHolds(value, d)}
    IN  UNION {
          UNION {{Answer("Optimal", x, value, d) :
                     x \in {y \in master.accepted : value \in Reached(y)},
                     d \in Bounds(value)} : value \in values},
          IF Master!Justified(master, Inf, "Infeasible")
          THEN {Answer("Infeasible", NoPoint, Inf, Inf)} ELSE {},
          {Answer("Feasible", x, Inf, -Inf) : x \in master.accepted},
          {Answer(s, x, Inf, -Inf) :
              s \in (FailureStatuses \ Refusals) \cup {"NodeLimit"}
                    \cup (IF TimeLimited THEN {"TimeLimit"} ELSE {}),
              x \in master.accepted \cup {NoPoint}},
          {Answer(s, NoPoint, Inf, -Inf) : s \in Refusals}}

-----------------------------------------------------------------------------
Init ==
    /\ model \in Models
    /\ linearized = {} /\ reply = NoReply
    /\ incumbent = NoPoint /\ incumbent_objective = Inf /\ dual_bound = -Inf
    /\ total_nodes = 0 /\ iterations = 0
    /\ termination = "IterationLimit"
    /\ result = [status |-> "NotSolved", objective |-> Inf,
                 dual_bound |-> -Inf, integrality_residual |-> Inf]
    /\ pc = "entry"

(***************************************************************************)
(* Entry checks, and the nonlinear relaxation that starts the master.      *)
(***************************************************************************)
Supported ==
    model.nonlinear /\ IntegerVars(model) # {} /\ DOMAIN model.quadratic = {}

Refuse(status) ==
    /\ result' = [result EXCEPT !.status = status]
    /\ pc' = "returned"
    /\ UNCHANGED <<model, linearized, reply, best, dual_bound, effort, termination>>

RejectModel ==
    /\ pc = "entry" /\ ~(Supported /\ ValidModel(model))
    /\ Refuse(IF Supported THEN "InvalidModel" ELSE "UnsupportedModel")

SolveInitial ==
    /\ pc = "entry" /\ Supported /\ ValidModel(model)
    /\ reply' \in InitialReplies(model)
    /\ pc' = "initial"
    /\ UNCHANGED <<model, linearized, best, dual_bound, effort, termination, result>>

InitialFailed ==
    /\ pc = "initial" /\ reply.status \notin SolvedStatuses
    /\ Refuse(reply.status)

\* Also when the oracle's derivatives are not finite at the point.
InitialUnusable ==
    /\ pc = "initial" /\ reply.status \in SolvedStatuses
    /\ ~LinearlyFeasible(model, reply.x) \/ reply.x \in model.oracle.singular
    /\ Refuse("NumericalFailure")

\* Mutant: any solved relaxation is taken for a minimum.
InitialDualAnySolved ==
    IF Finite(reply.dual_bound) THEN reply.dual_bound ELSE reply.objective
InitialDual ==
    IF Finite(reply.dual_bound) THEN reply.dual_bound
    ELSE IF reply.status = "Optimal" THEN reply.objective ELSE dual_bound

BuildMaster ==
    /\ pc = "initial" /\ reply.status \in SolvedStatuses
    /\ LinearlyFeasible(model, reply.x) /\ reply.x \notin model.oracle.singular
    /\ linearized' = {reply.x}
    /\ dual_bound' = InitialDual
    /\ reply' = NoReply /\ pc' = "loop"
    /\ UNCHANGED <<model, best, effort, termination, result>>

(***************************************************************************)
(* The head of the loop.                                                   *)
(***************************************************************************)
Stop(status) ==
    /\ termination' = status
    /\ pc' = "finish"

IterationsExhausted ==
    /\ pc = "loop" /\ iterations >= MaxIterations
    /\ Stop(termination)
    /\ UNCHANGED <<model, linearized, reply, best, dual_bound, effort, result>>

\* Mutant: the limits are tested once more after the last iteration.
OutOfBudgetUnchecked ==
    /\ pc = "loop"
    /\ iterations' = iterations + 1
    /\ \/ TimeLimited /\ Stop("TimeLimit")
       \/ total_nodes >= NodeLimit /\ Stop("NodeLimit")
    /\ UNCHANGED <<model, linearized, reply, best, dual_bound, total_nodes, result>>
OutOfBudget ==
    /\ pc = "loop" /\ iterations < MaxIterations
    /\ iterations' = iterations + 1
    /\ \/ TimeLimited /\ Stop("TimeLimit")
       \/ total_nodes >= NodeLimit /\ Stop("NodeLimit")
    /\ UNCHANGED <<model, linearized, reply, best, dual_bound, total_nodes, result>>

\* Mutant: the iteration counter stands still.
SolveMasterUncounted ==
    /\ pc = "loop" /\ iterations < MaxIterations /\ total_nodes < NodeLimit
    /\ reply' \in MasterReplies(model, linearized)
    /\ total_nodes' \in total_nodes .. NodeLimit
    /\ reply'.status = "NodeLimit" => total_nodes' = NodeLimit
    /\ pc' = "master"
    /\ UNCHANGED <<model, linearized, iterations, best, dual_bound, termination, result>>
SolveMaster ==
    /\ pc = "loop" /\ iterations < MaxIterations /\ total_nodes < NodeLimit
    /\ iterations' = iterations + 1
    /\ reply' \in MasterReplies(model, linearized)
    /\ total_nodes' \in total_nodes .. NodeLimit
    /\ reply'.status = "NodeLimit" => total_nodes' = NodeLimit
    /\ pc' = "master"
    /\ UNCHANGED <<model, linearized, best, dual_bound, termination, result>>

(***************************************************************************)
(* The master's answer.                                                    *)
(***************************************************************************)
Refused == reply.status \in Refusals
Limited == reply.status \in {"NodeLimit", "TimeLimit"}
TerminationNow == IF Limited THEN reply.status ELSE termination

MasterInfeasible ==
    /\ pc = "master" /\ reply.status = "Infeasible"
    /\ Stop(IF incumbent = NoPoint THEN "Infeasible" ELSE "IterationLimit")
    /\ UNCHANGED <<model, linearized, reply, best, dual_bound, effort, result>>

MasterRefused ==
    /\ pc = "master" /\ Refused
    /\ Stop(reply.status)
    /\ UNCHANGED <<model, linearized, reply, best, dual_bound, effort, result>>

MasterWithoutPoint ==
    /\ pc = "master" /\ reply.status # "Infeasible" /\ ~Refused
    /\ reply.x = NoPoint
    /\ Stop(TerminationNow)
    /\ UNCHANGED <<model, linearized, reply, best, dual_bound, effort, result>>

\* Mutant: only the first relaxation's bound is kept.
DualBoundKept == dual_bound
RaisedDualBound ==
    IF reply.status = "Optimal" /\ Finite(reply.dual_bound)
    THEN Larger(dual_bound, reply.dual_bound) ELSE dual_bound

Improves ==
    /\ LinearlyFeasible(model, reply.x) /\ NonlinearlyFeasible(model, reply.x)
    /\ TotalObjective(model, reply.x) < incumbent_objective

TakeCandidate ==
    /\ pc = "master" /\ reply.status # "Infeasible" /\ ~Refused
    /\ reply.x # NoPoint
    /\ termination' = TerminationNow
    /\ dual_bound' = RaisedDualBound
    /\ IF Improves
       THEN /\ incumbent' = reply.x
            /\ incumbent_objective' = TotalObjective(model, reply.x)
       ELSE UNCHANGED best
    /\ pc' = "linearize"
    /\ UNCHANGED <<model, linearized, reply, effort, result>>

(***************************************************************************)
(* The end of the body: tangents at the candidate, then the gap test.      *)
(***************************************************************************)
LinearizationFails ==
    /\ pc = "linearize" /\ reply.x \in model.oracle.singular
    /\ Stop("NumericalFailure")
    /\ UNCHANGED <<model, linearized, reply, best, dual_bound, effort, result>>

GapClosed == reply.status = "Optimal" /\ WithinGap(incumbent_objective, dual_bound)

Linearize ==
    /\ pc = "linearize" /\ reply.x \notin model.oracle.singular
    /\ linearized' = linearized \cup {reply.x} /\ reply' = NoReply
    /\ \/ GapClosed /\ Stop("Optimal")
       \/ ~GapClosed /\ Limited /\ Stop(termination)
       \/ ~GapClosed /\ ~Limited /\ pc' = "loop" /\ UNCHANGED termination
    /\ UNCHANGED <<model, best, dual_bound, effort, result>>

Report ==
    /\ pc = "finish"
    /\ result' =
          [status |-> IF termination = "IterationLimit" /\ incumbent = NoPoint
                      THEN "Infeasible" ELSE termination,
           objective |-> incumbent_objective, dual_bound |-> dual_bound,
           integrality_residual |->
              IF incumbent = NoPoint THEN result.integrality_residual ELSE 0]
    /\ pc' = "returned"
    /\ UNCHANGED <<model, linearized, reply, best, dual_bound, effort, termination>>

Returned == pc = "returned" /\ UNCHANGED vars

Next ==
    \/ RejectModel \/ SolveInitial \/ InitialFailed \/ InitialUnusable
    \/ BuildMaster \/ IterationsExhausted \/ OutOfBudget \/ SolveMaster
    \/ MasterInfeasible \/ MasterRefused \/ MasterWithoutPoint
    \/ TakeCandidate \/ LinearizationFails \/ Linearize \/ Report \/ Returned

Spec == Init /\ [][Next]_vars
\* One thread that never waits, and whose callbacks return.
FairSpec == Spec /\ WF_vars(Next)
=============================================================================
