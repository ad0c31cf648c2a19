---------------------------- MODULE OaProperties ----------------------------
(***************************************************************************)
(* What makes outer approximation correct.  Three conditions decide how    *)
(* much of it holds; each has a run that shows what happens without it.    *)
(***************************************************************************)
EXTENDS OuterApproximation

\* The code tests Ax and g(x) separately against the row bounds; this is the
\* model's own row Ax + g(x) when at each point one part is idle.
RowsSplit ==
    \A m \in NonlinearModels : \A x \in Points, row \in m.rows, tol \in {0, PrimalTol} :
        InRow(row, Activity(row, x) + m.oracle.values[row][x], tol) <=>
        /\ RowHolds(row, x, tol) /\ InRow(row, m.oracle.values[row][x], tol)

\* No master reports a dual bound above its own objective value.
TightMasters == \A e \in DualExcess : e <= 0

Value(p) == TotalObjective(model, p)
Statuses == SolvedStatuses \cup FailureStatuses \cup
    {"NotSolved", "Infeasible", "TimeLimit", "NodeLimit", "IterationLimit",
     "NumericalFailure", "InvalidModel", "UnsupportedModel"}

ReplySet == [status : Statuses \cup {"none"}, x : Points \cup {NoPoint},
             objective : Int, dual_bound : Int]

\* Every variable of the solve has its type, and the budget is kept.
OaTypeOK ==
    /\ model \in Models
    /\ linearized \subseteq Points
    /\ reply \in ReplySet
    /\ incumbent \in Points \cup {NoPoint} /\ incumbent_objective \in Int
    /\ dual_bound \in Int
    /\ total_nodes \in 0 .. NodeLimit /\ iterations \in 0 .. MaxIterations
    /\ termination \in Statuses
    /\ result \in [status : Statuses, objective : Int, dual_bound : Int,
                   integrality_residual : Int]
    /\ pc \in {"entry", "initial", "loop", "master", "linearize", "finish", "returned"}

\* The incumbent comes from a master that knows the nonlinear rows only by
\* tangents, and yet it satisfies the model within tolerances.
OaIncumbentFeasible ==
    IF incumbent = NoPoint THEN incumbent_objective = Inf
    ELSE /\ SatisfiesModel(model, incumbent, PrimalTol)
         /\ IsIntegerFeasible(model, incumbent, IntTol)
         /\ incumbent_objective = Value(incumbent)

\* However many tangents it has, the master stays a relaxation: it keeps
\* every wanted point and never overestimates its objective.
MastersRelax ==
    linearized # {} => \A p \in NlSolutions(model) :
        LET master == MasterOf(model, linearized)
        IN  p \in master.wanted /\ master.least[p] <= Value(p)

\* The dual bound, the largest of bounds reported by different searches on
\* different masters, is below every wanted point up to the absolute gap.
OaDualBoundHolds ==
    Finite(dual_bound) =>
        \A p \in NlSolutions(model) : dual_bound - AbsTol <= Value(p)

\* An Optimal answer is within the gap of every wanted point; the absolute
\* gap counts twice, once in the master's search and once in the loop's test.
OaOptimalIsOptimal ==
    result.status = "Optimal" =>
        /\ incumbent # NoPoint
        /\ \A p \in NlSolutions(model) : WithinGap(result.objective, Value(p) + AbsTol)

\* A model that has solutions is only called infeasible after the loop gave
\* up: never on the word of the relaxation or of a master.
InfeasibleIsNotProof ==
    result.status = "Infeasible" /\ NlSolutions(model) # {} =>
        linearized # {} /\ termination = "IterationLimit"

\* Why the loop makes progress: when a master is solved to its own optimum
\* and the loop goes on, its candidate is one no tangent was taken at before.
CandidatesAreNew ==
    [][/\ pc = "linearize" /\ pc' = "loop"
       /\ reply.status = "Optimal" /\ reply.dual_bound >= reply.objective
       /\ 2 * Unit * PrimalTol <= AbsTol
       => reply.x \notin linearized]_vars

\* Every call returns.
OaTermination == <>(pc = "returned")
=============================================================================
