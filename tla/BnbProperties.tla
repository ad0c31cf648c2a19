--------------------------- MODULE BnbProperties ---------------------------
(***************************************************************************)
(* What makes the branch-and-bound engine correct, as properties of its    *)
(* specification.                                                          *)
(***************************************************************************)
EXTENDS BranchAndBound

Open == queue \cup ({node} \ {NoNode})
Accepted == pc # "entry" /\ Acceptable

InBox(p, n) ==
    WithinBounds(p, EffectiveLower(model, n), EffectiveUpper(model, n), 0)
Objective(p) == EvaluateObjective(model, p)

NodeSet ==
    [id : Nat, parent_id : Nat \cup {-1}, depth : Nat,
     lower_overrides : Seq(Vars \X Values), upper_overrides : Seq(Vars \X Values),
     relaxation_bound : Int, relaxation_solution : Points \cup {NoPoint},
     branching_variable : 0 .. NumVars, branch_direction : {"Down", "Up"}]
ReplySet ==
    [status : SolvedStatuses \cup FailureStatuses \cup {"Infeasible"},
     x : Points \cup {NoPoint}, dual_bound : Int]
Statuses == SolvedStatuses \cup FailureStatuses \cup
    {"NotSolved", "Optimal", "Feasible", "Infeasible", "TimeLimit", "NodeLimit",
     "NumericalFailure", "InvalidModel", "UnsupportedModel"}

\* Every variable of the solve has its type.
TypeOK ==
    /\ model \in Models
    /\ queue \subseteq NodeSet /\ node \in NodeSet \cup {NoNode}
    /\ relaxation \in ReplySet \cup {NoReply}
    /\ incumbent \in Points \cup {NoPoint} /\ incumbent_objective \in Int
    /\ all_bounds_certified \in BOOLEAN /\ root_cuts_applied \in BOOLEAN
    /\ nodes_created \in Nat /\ nodes_processed \in Nat
    /\ observations \in [Vars -> Nat \X Nat]
    /\ termination \in Statuses
    /\ result \in [status : Statuses, objective : Int, dual_bound : Int]
    /\ pc \in {"entry", "loop", "solve", "reply", "resolve", "cut_reply",
              "bound", "fathom", "gap", "finish", "returned"}

\* No open node has an empty box: the bounds handed to the oracle and to
\* std::clamp in try_rounding are ordered for every node branching creates.
BoxesNonEmpty ==
    Accepted => \A n \in Open : \A v \in Vars :
        EffectiveLower(model, n)[v] <= EffectiveUpper(model, n)[v]

\* The incumbent is a point the original model accepts within tolerances,
\* although it was found in a node's box and against rows that include cuts,
\* and its objective is the one the solver reports.
IncumbentFeasible ==
    IF incumbent = NoPoint THEN incumbent_objective = Inf
    ELSE /\ IsFeasible(model.rows, incumbent, model.lower, model.upper, PrimalTol)
         /\ IsIntegerFeasible(model, incumbent, IntTol)
         /\ incumbent_objective = Objective(incumbent)

\* No wanted point is ever lost: while every bound is certified, each one is
\* in the box of a node still open or no better than the incumbent, up to
\* absolute_gap_tolerance.
Coverage ==
    Accepted /\ all_bounds_certified =>
        \A p \in Solutions(model) :
            \/ \E n \in Open : InBox(p, n)
            \/ Objective(p) >= incumbent_objective - AbsTol

\* Before the first incumbent nothing may be cut away, whatever the oracle
\* certified: each wanted point is in an open box.
NothingLostBeforeIncumbent ==
    Accepted /\ incumbent = NoPoint =>
        \A p \in Solutions(model) : \E n \in Open : InBox(p, n)

\* The bound a node carries holds for every wanted point of its box.
BoundsValid ==
    Accepted => \A n \in Open : \A p \in Solutions(model) :
        InBox(p, n) => n.relaxation_bound <= Objective(p)

\* Branching partitions: no integral point is in the boxes of two open nodes,
\* so no subtree is explored twice.
OpenBoxesDisjoint ==
    \A n1, n2 \in Open : n1 # n2 =>
        \A p \in Points : IsIntegerFeasible(model, p, 0) =>
            ~(InBox(p, n1) /\ InBox(p, n2))

\* An Optimal answer has an incumbent and every wanted point is within the
\* configured absolute or relative gap of it.
OptimalIsOptimal ==
    result.status = "Optimal" =>
        /\ incumbent # NoPoint
        /\ \A p \in Solutions(model) : WithinGap(result.objective, Objective(p))

\* An Infeasible answer is only given to a model that wants no point.
InfeasibleIsInfeasible ==
    result.status = "Infeasible" => Solutions(model) = {}

\* A search that was not broken off inside a node reports a dual bound that
\* no wanted point beats, except those within tolerance of the incumbent.
ReportedBoundHolds ==
    pc = "returned" /\ Acceptable /\ node = NoNode /\ all_bounds_certified =>
        \A p \in Solutions(model) :
            Objective(p) >= Smaller(result.dual_bound, result.objective - AbsTol)

\* Best-first search with an exact oracle: the lowest bound among the open
\* nodes never falls.
LowestBound == Min({n.relaxation_bound : n \in Open} \cup {Inf})
LowestBoundNeverFalls == [][pc # "entry" => LowestBound' >= LowestBound]_vars

\* With primal_tolerance at most integrality_tolerance every child box is
\* strictly inside its parent's.
ChildrenShrink ==
    [][pc # "entry" => \A n \in queue' \ queue :
         \E v \in Vars : \/ EffectiveLower(model, n)[v] > lower[v]
                         \/ EffectiveUpper(model, n)[v] < upper[v]]_vars

\* The unit steps across a box in the integer variables, outward to integers,
\* and the nodes of a binary tree with k levels below its root: 2^(k+1) - 1.
Spans(m, lo, hi) ==
    [v \in Vars |-> IF v \in IntegerVars(m) THEN Ceil(hi[v]) - Floor(lo[v]) ELSE 0]
Levels(m) == Sum(Spans(m, m.lower, m.upper)) \div Unit
Times(a, b) == a * b
TwoTo(k) == FoldFunction(Times, 1, [i \in 1 .. k |-> 2])
TreeSize(k) == 2 * TwoTo(k) - 1

\* The search is finite by itself: even without a node limit it creates no
\* more nodes than a tree that uses up one unit step of the model's integer
\* boxes per level, whatever the oracle answers.
NodesAreBounded == Accepted => nodes_created <= TreeSize(Levels(model))

\* Every call returns.
Termination == <>(pc = "returned")

-----------------------------------------------------------------------------
(***************************************************************************)
(* The inductive invariant: what must hold besides the properties above at *)
(* each place of the loop body for them to be preserved by every step.     *)
(***************************************************************************)
\* Ids are fresh and unique, a node is never deeper than its id, and bounds
\* are below infinity: so the queue always has a top (BbNodeCompare).
QueueWellFormed ==
    /\ \A n \in Open : /\ n.id < nodes_created /\ n.depth <= n.id
                       /\ -Inf <= n.relaxation_bound /\ n.relaxation_bound < Inf
    /\ \A n1, n2 \in Open : n1.id = n2.id => n1 = n2
    /\ node \notin queue

\* What each place of the loop body may assume.
InBody == {"solve", "reply", "resolve", "cut_reply", "bound", "fathom"}
Answered == {"reply", "cut_reply", "bound", "fathom"}
PlaceOK ==
    /\ pc \notin {"entry", "returned"} => Acceptable
    /\ pc \in InBody => node # NoNode
    /\ pc \in {"entry", "loop", "gap"} => node = NoNode
    /\ pc = "entry" => queue = {} /\ incumbent = NoPoint
    /\ pc \in Answered => relaxation \in Answers(model, rows, lower, upper)
    /\ pc \in {"bound", "fathom"} => relaxation.status \in SolvedStatuses /\ Usable
    /\ pc = "fathom" /\ all_bounds_certified => BoundCertified
    /\ pc = "gap" => relaxation \in ReplySet /\ relaxation.x \in Points

\* Only the root has no parent, and it is processed first, before there is
\* an incumbent; cuts are only generated for it.
RootAlone ==
    /\ pc \notin {"finish", "returned"} => \A n \in Open :
          n.parent_id < 0 => Open = {n} /\ incumbent = NoPoint
    /\ pc \in {"resolve", "cut_reply"} => node.parent_id < 0

\* What a reason to stop says about the search.
StopOK ==
    /\ pc \notin {"finish", "returned"} => termination = "NotSolved"
    /\ pc # "returned" => result.status = "NotSolved"
    /\ pc = "finish" /\ termination = "NotSolved" => queue = {} /\ node = NoNode
    /\ pc = "finish" /\ termination = "Infeasible" =>
          Solutions(model) = {} /\ incumbent = NoPoint
    /\ pc = "finish" /\ termination = "Optimal" => node = NoNode /\ incumbent # NoPoint

\* The working rows contain the model's and keep every wanted point.
RowsKeepSolutions ==
    /\ model.rows \subseteq rows
    /\ \A row \in rows : \A p \in Solutions(model) : RowHolds(row, p, 0)

\* The search's own bookkeeping: fresh ids, what each place of the loop body
\* may assume, why it stopped, and working rows that keep every wanted point.
SearchInv ==
    QueueWellFormed /\ PlaceOK /\ RootAlone /\ StopOK /\ RowsKeepSolutions

-----------------------------------------------------------------------------
AcceptedPoints(m) ==
    {p \in Points : /\ IsFeasible(m.rows, p, m.lower, m.upper, PrimalTol)
                    /\ IsIntegerFeasible(m, p, IntTol)}
\* The engine implements the promise of a mixed-integer solve.
Promise == INSTANCE MipSolve WITH
    Problems <- Models, NoObjective <- Inf, Accepted <- AcceptedPoints,
    Wanted <- Solutions, Objective <- EvaluateObjective, Close <- WithinGap,
    problem <- model, bestValue <- incumbent_objective, answer <- result.status
PromiseKept == Promise!Spec
=============================================================================
