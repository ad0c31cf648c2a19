--------------------------- MODULE BranchAndBound ---------------------------
(***************************************************************************)
(* solve_mip of solver/mip/BranchAndBound.cpp, one call from entry to the  *)
(* returned SolveResult.  The engine is one thread; what makes it hard is  *)
(* what it is told: the relaxation oracle and the root cut generator are   *)
(* supplied by the caller, and every answer they may give is explored.     *)
(*                                                                         *)
(* pc names the place in the loop body.  node is the node in hand: it left *)
(* the queue and its subtree is not accounted for yet.  It becomes NoNode  *)
(* once the node is fathomed, pruned or branched, and it stays the         *)
(* unfinished node when a break leaves the body in the middle.             *)
(***************************************************************************)
EXTENDS BbQueue, Tolerances

CONSTANTS
    Models,              \* the models a call may be given
    NodeLimit,           \* node_limit
    TimeLimited,         \* whether time_limit_seconds is finite
    MostFractionalNodes, \* nodes branched by fractionality only: 8
    MinReliable,         \* PseudocostTracker::is_reliable's min_reliable: 4
    DualValues,          \* finite dual bounds an oracle may report
    StrayPoints,         \* points a broken oracle may call a solution
    FailureStatuses,     \* statuses that come with no usable relaxation
    InexactStatuses,     \* solved statuses that prove no bound by themselves
    InexactBounds,       \* whether inexact relaxations report dual bounds
    CutOffers(_, _)      \* the sets of cuts a generator may return at a point

ASSUME SolverAssumption ==
    /\ NodeLimit \in Nat /\ MostFractionalNodes \in Nat /\ MinReliable \in Nat
    /\ TimeLimited \in BOOLEAN /\ InexactBounds \in BOOLEAN
    /\ StrayPoints \subseteq Points
    /\ DualValues \subseteq Int /\ \A d \in DualValues : Finite(d)
    /\ InexactStatuses \subseteq {"Feasible", "LocallyOptimal"}
    /\ FailureStatuses \subseteq
          {"NotSolved", "Unbounded", "UnsupportedModel", "InvalidModel",
           "NumericalFailure", "IterationLimit", "NodeLimit", "TimeLimit"}

\* Bounds are infinite or values a point can take; objectives are finite.
ASSUME ModelAssumption ==
    \A m \in Models :
        /\ \A v \in Vars : /\ m.lower[v] \in Values \cup {-Inf}
                           /\ m.upper[v] \in Values \cup {Inf}
        /\ \A x \in Points : /\ EvaluateObjective(m, x) \in Int
                             /\ -Inf < EvaluateObjective(m, x)
                             /\ EvaluateObjective(m, x) < Inf - AbsTol

\* CutGenerator's contract: a well-formed cut removes no wanted point.
ValidCut(cut) ==
    /\ cut.indices # <<>> /\ ValidColumns(cut) /\ cut.lower <= cut.upper
    /\ Finite(cut.lower) \/ Finite(cut.upper)
ASSUME CutAssumption ==
    \A m \in Models, x \in Points : \A cuts \in CutOffers(m, x) : \A cut \in cuts :
        ValidCut(cut) => \A p \in Solutions(m) : RowHolds(cut, p, 0)

NoNode == [id |-> -1]
NoReply == [status |-> "none"]
ExactStatuses == {"Optimal"}
SolvedStatuses == ExactStatuses \cup InexactStatuses

\* An oracle whose answers never mislead the engine: no NotSolved answer and
\* no dual bound with a point that is not a minimiser.
ProperOracle == "NotSolved" \notin FailureStatuses /\ ~InexactBounds

VARIABLES
    model,                 \* the argument
    rows,                  \* the rows of working_model: model's, then cuts
    queue,                 \* the open nodes
    node,                  \* the node in hand
    relaxation,            \* the oracle's last answer for it
    incumbent,             \* incumbent_solution, NoPoint when empty
    incumbent_objective,
    all_bounds_certified,
    root_cuts_applied,
    nodes_created,
    nodes_processed,
    observations,          \* PseudocostTracker: <<down_count, up_count>>
    termination,
    result,
    pc

vars == <<model, rows, queue, node, relaxation, incumbent,
          incumbent_objective, all_bounds_certified, root_cuts_applied,
          nodes_created, nodes_processed, observations, termination, result,
          pc>>
search == <<queue, nodes_created, nodes_processed>>
best == <<incumbent, incumbent_objective>>
knowledge == <<all_bounds_certified, root_cuts_applied, observations>>

lower == EffectiveLower(model, node)
upper == EffectiveUpper(model, node)

(***************************************************************************)
(* The callbacks.  An oracle answers for a box and a set of rows:          *)
(* Infeasible only if no point satisfies them, Optimal with a point within *)
(* primal_tolerance that no such point beats, an inexact status with any   *)
(* point within primal_tolerance, a failure, or a solved status with an    *)
(* unusable point.  A reported dual bound is a true lower bound.           *)
(***************************************************************************)
Answers(m, rws, lo, hi) ==
    LET inside == {p \in Points : IsFeasible(rws, p, lo, hi, 0)}
        near == {p \in Points : IsFeasible(rws, p, lo, hi, PrimalTol)}
        AtMost(a) == \A p \in inside : a <= EvaluateObjective(m, p)
        exact == {p \in near : AtMost(EvaluateObjective(m, p))}
        bounds == {d \in DualValues : AtMost(d)}
        Reply(statuses, points, duals) ==
            [status : statuses, x : points, dual_bound : duals]
    IN  UNION {
          Reply(IF inside = {} THEN {"Infeasible"} ELSE {}, {NoPoint}, {-Inf}),
          Reply(ExactStatuses, exact, bounds \cup {-Inf}),
          Reply(InexactStatuses, near,
                (IF InexactBounds THEN bounds ELSE {}) \cup {-Inf}),
          Reply(FailureStatuses, {NoPoint}, {-Inf}),
          Reply(ExactStatuses, (StrayPoints \ near) \cup {NoPoint}, {-Inf})}

-----------------------------------------------------------------------------
(***************************************************************************)
(* What the loop body computes from the state.                             *)
(***************************************************************************)
Usable == IsFeasible(rows, relaxation.x, lower, upper, PrimalTol)

\* Mutant: every solved relaxation is taken to prove its bound.
BoundCertifiedAlways == relaxation.status \in SolvedStatuses
BoundCertified ==
    relaxation.status = "Optimal" \/ Finite(relaxation.dual_bound)
\* Mutant: the bound is rounded up as if every objective were integral.
NodeBoundRoundedUp ==
    -((-EvaluateObjective(model, relaxation.x)) \div ObjectiveOne) * ObjectiveOne
NodeBound ==
    IF Finite(relaxation.dual_bound) THEN relaxation.dual_bound
    ELSE IF relaxation.status = "Optimal"
         THEN EvaluateObjective(model, relaxation.x) ELSE -Inf

Prunable ==
    /\ Finite(incumbent_objective) /\ Finite(NodeBound)
    /\ NodeBound >= incumbent_objective - AbsTol

\* Mutant: the candidate is taken without comparing it.
UpdateIncumbentAlways(x) ==
    incumbent' = x /\ incumbent_objective' = EvaluateObjective(model, x)
\* update_incumbent.
UpdateIncumbent(x) ==
    IF EvaluateObjective(model, x) < incumbent_objective
    THEN incumbent' = x /\ incumbent_objective' = EvaluateObjective(model, x)
    ELSE UNCHANGED best

\* try_rounding.
Rounded(x) ==
    [v \in Vars |-> Clamp(IF v \in IntegerVars(model) THEN Round(x[v]) ELSE x[v],
                          lower[v], upper[v])]
\* Mutant: the rounded point is not tested against the rows.
RoundingSucceedsInBox(x) ==
    /\ IsIntegerFeasible(model, Rounded(x), IntTol)
    /\ WithinBounds(Rounded(x), lower, upper, PrimalTol)
RoundingSucceeds(x) ==
    /\ IsIntegerFeasible(model, Rounded(x), IntTol)
    /\ IsFeasible(rows, Rounded(x), lower, upper, PrimalTol)

\* select_most_fractional and select_pseudocost, whose scores are abstracted
\* to some reliable variable having the best one.
Candidates(x) ==
    {v \in IntegerVars(model) :
        /\ IntegralityViolation(x[v]) > IntTol
        /\ Floor(x[v]) >= lower[v] \/ Ceil(x[v]) <= upper[v]}
Fractionality(a) == Smaller(a - Floor(a), Unit - (a - Floor(a)))
MostFractional(x) ==
    {v \in Candidates(x) : \A w \in Candidates(x) \ {v} :
        \/ Fractionality(x[w]) < Fractionality(x[v])
        \/ Fractionality(x[w]) = Fractionality(x[v]) /\ v < w}
IsReliable(v) == \A k \in 1 .. 2 : observations[v][k] >= MinReliable
Reliable(x) == {v \in Candidates(x) : IsReliable(v)}
BranchChoices(x) ==
    IF nodes_processed <= MostFractionalNodes \/ Reliable(x) = {}
    THEN MostFractional(x) ELSE Reliable(x)

\* Mutant: children pushed without looking at the box.
ChildrenUnguarded(v) ==
    {DownChild(node, nodes_created, NodeBound, relaxation.x, v),
     UpChild(node, nodes_created + 1, NodeBound, relaxation.x, v)}
\* The children pushed for branch variable v, the down child numbered first.
Children(v) ==
    LET x == relaxation.x
        down == IF Floor(x[v]) >= lower[v]
                THEN {DownChild(node, nodes_created, NodeBound, x, v)} ELSE {}
        up == IF Ceil(x[v]) <= upper[v]
              THEN {UpChild(node, nodes_created + Cardinality(down),
                            NodeBound, x, v)} ELSE {}
    IN  down \cup up

\* A child's relaxation against its parent's bound: record_down, record_up,
\* unless the branching moved the variable by nothing.
Distance(v, direction) ==
    LET value == node.relaxation_solution[v]
    IN  IF direction = "Down" THEN value - Floor(value) ELSE Ceil(value) - value
Record(v, direction, frac) ==
    IF frac = 0 THEN observations
    ELSE [observations EXCEPT ![v] = IF direction = "Down" THEN <<@[1] + 1, @[2]>>
                                                           ELSE <<@[1], @[2] + 1>>]
HasParentSolution == node.parent_id >= 0 /\ node.relaxation_solution # NoPoint
Observed ==
    LET v == node.branching_variable IN
    IF HasParentSolution /\ Finite(node.relaxation_bound) /\ v \in Vars
    THEN Record(v, node.branch_direction, Distance(v, node.branch_direction))
    ELSE observations

-----------------------------------------------------------------------------
Init ==
    /\ model \in Models
    /\ rows = model.rows
    /\ queue = {} /\ nodes_created = 0 /\ nodes_processed = 0
    /\ node = NoNode /\ relaxation = NoReply
    /\ incumbent = NoPoint /\ incumbent_objective = Inf
    /\ all_bounds_certified = TRUE
    /\ root_cuts_applied \in BOOLEAN     \* called without or with a generator
    /\ observations = [v \in Vars |-> <<0, 0>>]
    /\ termination = "NotSolved"
    /\ result = [status |-> "NotSolved", objective |-> Inf, dual_bound |-> -Inf]
    /\ pc = "entry"

(***************************************************************************)
(* Entry checks: a model that is nonlinear, has no integer variable or is  *)
(* not valid is refused; otherwise the root becomes the only open node.    *)
(***************************************************************************)
Acceptable == ~model.nonlinear /\ IntegerVars(model) # {} /\ ValidModel(model)

RejectModel ==
    /\ pc = "entry" /\ ~Acceptable
    /\ result' = [result EXCEPT !.status =
                     IF model.nonlinear \/ IntegerVars(model) = {}
                     THEN "UnsupportedModel" ELSE "InvalidModel"]
    /\ pc' = "returned"
    /\ UNCHANGED <<model, rows, search, node, relaxation, best, knowledge,
                   termination>>

PushRoot ==
    /\ pc = "entry" /\ Acceptable
    /\ queue' = {RootNode} /\ nodes_created' = 1
    /\ pc' = "loop"
    /\ UNCHANGED <<model, rows, nodes_processed, node, relaxation, best,
                   knowledge, termination, result>>

(***************************************************************************)
(* The head of the loop: the queue, the clock and the node limit, then the *)
(* top node is popped.  Its box is empty for no node the engine creates    *)
(* (BoxesNonEmpty), but the code tests it.                                 *)
(***************************************************************************)
Stop(status) ==
    /\ termination' = status
    /\ pc' = "finish"

SearchExhausted ==
    /\ pc = "loop" /\ queue = {}
    /\ pc' = "finish"
    /\ UNCHANGED <<model, rows, search, node, relaxation, best, knowledge,
                   termination, result>>

TimeLimitReached ==
    /\ pc = "loop" /\ queue # {} /\ TimeLimited
    /\ Stop("TimeLimit")
    /\ UNCHANGED <<model, rows, search, node, relaxation, best, knowledge, result>>

\* Mutant: the break is missing.
NodeLimitWithoutBreak ==
    /\ pc = "loop" /\ queue # {} /\ nodes_processed >= NodeLimit
    /\ termination' = "NodeLimit"
    /\ UNCHANGED <<model, rows, search, node, relaxation, best, knowledge,
                   result, pc>>
NodeLimitReached ==
    /\ pc = "loop" /\ queue # {} /\ nodes_processed >= NodeLimit
    /\ Stop("NodeLimit")
    /\ UNCHANGED <<model, rows, search, node, relaxation, best, knowledge, result>>

BoxEmpty(n) ==
    \E v \in Vars :
        EffectiveLower(model, n)[v] > EffectiveUpper(model, n)[v] + PrimalTol

PopNode ==
    /\ pc = "loop" /\ nodes_processed < NodeLimit
    /\ \E n \in queue :
          /\ IsTop(queue, n)
          /\ queue' = queue \ {n}
          /\ nodes_processed' = nodes_processed + 1
          /\ IF BoxEmpty(n) THEN UNCHANGED <<node, pc>>
                           ELSE node' = n /\ pc' = "solve"
    /\ UNCHANGED <<model, rows, relaxation, best, knowledge, nodes_created,
                   termination, result>>

(***************************************************************************)
(* The relaxation of the node in hand.  "reply" holds the first answer,    *)
(* "cut_reply" the answer for the root with its cuts, where Infeasible     *)
(* ends the search like any other status that is not a solved one.         *)
(***************************************************************************)
Resume(place) ==      \* the loop body continues or ends with nothing in hand
    /\ node' = NoNode /\ relaxation' = NoReply
    /\ pc' = place

SolveRelaxation ==
    /\ pc \in {"solve", "resolve"}
    /\ relaxation' \in Answers(model, rows, lower, upper)
    /\ pc' = IF pc = "solve" THEN "reply" ELSE "cut_reply"
    /\ UNCHANGED <<model, rows, search, node, best, knowledge, termination, result>>

\* Mutant: an oracle that gave up is read as an empty node.
NodeInfeasibleOrUnsolved ==
    /\ pc = "reply" /\ relaxation.status \in {"Infeasible", "IterationLimit"}
    /\ Resume("loop")
    /\ UNCHANGED <<model, rows, search, best, knowledge, termination, result>>
NodeInfeasible ==
    /\ pc = "reply" /\ relaxation.status = "Infeasible"
    /\ Resume("loop")
    /\ UNCHANGED <<model, rows, search, best, knowledge, termination, result>>

RelaxationFailed ==
    /\ pc \in {"reply", "cut_reply"}
    /\ relaxation.status \notin SolvedStatuses
    /\ pc = "reply" => relaxation.status # "Infeasible"
    /\ Stop(relaxation.status)
    /\ UNCHANGED <<model, rows, search, node, relaxation, best, knowledge, result>>

RelaxationInvalid ==
    /\ pc \in {"reply", "cut_reply"}
    /\ relaxation.status \in SolvedStatuses /\ ~Usable
    /\ Stop("NumericalFailure")
    /\ UNCHANGED <<model, rows, search, node, relaxation, best, knowledge, result>>

(***************************************************************************)
(* Root cuts, generated once; all are validated before any is appended.    *)
(***************************************************************************)
AwaitsCuts == ~root_cuts_applied /\ node.parent_id < 0

GenerateRootCuts ==
    /\ pc = "reply" /\ relaxation.status \in SolvedStatuses /\ Usable
    /\ AwaitsCuts
    /\ root_cuts_applied' = TRUE
    /\ \E cuts \in CutOffers(model, relaxation.x) :
          IF \A cut \in cuts : ValidCut(cut)
          THEN /\ rows' = rows \cup cuts
               /\ pc' = IF cuts = {} THEN "bound" ELSE "resolve"
               /\ UNCHANGED termination
          ELSE UNCHANGED rows /\ Stop("InvalidModel")
    /\ UNCHANGED <<model, search, node, relaxation, best, all_bounds_certified,
                   observations, result>>

AcceptRelaxation ==
    /\ pc \in {"reply", "cut_reply"}
    /\ relaxation.status \in SolvedStatuses /\ Usable
    /\ pc = "reply" => ~AwaitsCuts
    /\ pc' = "bound"
    /\ UNCHANGED <<model, rows, search, node, relaxation, best, knowledge,
                   termination, result>>

(***************************************************************************)
(* The bound the relaxation proves, then the fate of the node: pruned,     *)
(* fathomed as integral, branched, or a failure to find a branch.          *)
(***************************************************************************)
RecordBound ==
    /\ pc = "bound"
    /\ all_bounds_certified' = (all_bounds_certified /\ BoundCertified)
    /\ observations' = Observed
    /\ pc' = "fathom"
    /\ UNCHANGED <<model, rows, search, node, relaxation, best,
                   root_cuts_applied, termination, result>>

PruneNode ==
    /\ pc = "fathom" /\ Prunable
    /\ Resume("loop")
    /\ UNCHANGED <<model, rows, search, best, knowledge, termination, result>>

Integral == IsIntegerFeasible(model, relaxation.x, IntTol)

AcceptIntegral ==
    /\ pc = "fathom" /\ ~Prunable /\ Integral
    /\ UpdateIncumbent(relaxation.x)
    /\ node' = NoNode /\ pc' = "gap"
    /\ UNCHANGED <<model, rows, search, relaxation, knowledge,
                   termination, result>>

TryRounding ==
    IF RoundingSucceeds(relaxation.x)
    THEN UpdateIncumbent(Rounded(relaxation.x)) ELSE UNCHANGED best

BranchNode ==
    /\ pc = "fathom" /\ ~Prunable /\ ~Integral
    /\ TryRounding
    /\ \E v \in BranchChoices(relaxation.x) :
          /\ queue' = queue \cup Children(v)
          /\ nodes_created' = nodes_created + Cardinality(Children(v))
    /\ node' = NoNode /\ pc' = "gap"
    /\ UNCHANGED <<model, rows, nodes_processed, relaxation, knowledge,
                   termination, result>>

NoBranch ==
    /\ pc = "fathom" /\ ~Prunable /\ ~Integral
    /\ TryRounding
    /\ BranchChoices(relaxation.x) = {}
    /\ Stop("NumericalFailure")
    /\ UNCHANGED <<model, rows, search, node, relaxation, knowledge, result>>

(***************************************************************************)
(* The gap test at the end of the body, only while every bound is certified*)
(***************************************************************************)
BestOpenBound == IF queue = {} THEN incumbent_objective ELSE BestBound(queue)
GapClosed ==
    /\ all_bounds_certified
    /\ Finite(incumbent_objective) /\ Finite(NodeBound)
    /\ WithinGap(incumbent_objective, BestOpenBound)

TestGap ==
    /\ pc = "gap"
    /\ IF GapClosed THEN termination' = "Optimal" /\ Resume("finish")
                    ELSE UNCHANGED termination /\ Resume("loop")
    /\ UNCHANGED <<model, rows, search, best, knowledge, result>>

(***************************************************************************)
(* The result.  A break with NotSolved cannot be told from running out of  *)
(* nodes.                                                                  *)
(***************************************************************************)
\* Mutant: the incumbent is reported as its own bound.
DualBoundOfIncumbent == incumbent_objective
DualBound ==
    IF queue = {} THEN incumbent_objective ELSE BestBound(queue)
Conclusion ==
    IF termination # "NotSolved" THEN termination
    ELSE IF queue = {} /\ incumbent = NoPoint THEN "Infeasible"
    ELSE IF queue = {} /\ all_bounds_certified THEN "Optimal" ELSE "Feasible"
FinalStatus ==
    IF /\ Conclusion = "Optimal"
       /\ ~all_bounds_certified \/ ~WithinGap(incumbent_objective, DualBound)
    THEN IF incumbent = NoPoint THEN "Infeasible" ELSE "Feasible"
    ELSE Conclusion

Report ==
    /\ pc = "finish"
    /\ result' = [status |-> FinalStatus, objective |-> incumbent_objective,
                  dual_bound |-> DualBound]
    /\ pc' = "returned"
    /\ UNCHANGED <<model, rows, search, node, relaxation, best, knowledge,
                   termination>>

Returned == pc = "returned" /\ UNCHANGED vars

Next ==
    \/ RejectModel \/ PushRoot
    \/ SearchExhausted \/ TimeLimitReached \/ NodeLimitReached \/ PopNode
    \/ SolveRelaxation \/ NodeInfeasible \/ RelaxationFailed
    \/ RelaxationInvalid \/ GenerateRootCuts \/ AcceptRelaxation
    \/ RecordBound \/ PruneNode \/ AcceptIntegral \/ BranchNode \/ NoBranch
    \/ TestGap \/ Report \/ Returned

Spec == Init /\ [][Next]_vars
\* The loop is one thread that never waits, and its callbacks return.
FairSpec == Spec /\ WF_vars(Next)
=============================================================================
