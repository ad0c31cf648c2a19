------------------------------ MODULE BbQueue ------------------------------
(***************************************************************************)
(* Branch-and-bound nodes (BbNode.hpp) and the order in which BbQueue.hpp  *)
(* hands them out.  A node stores only the bounds branching has tightened, *)
(* as two lists of <<variable, value>> in the order they were pushed; the  *)
(* box of the node is computed from them.  The queue is a set of nodes:    *)
(* the heap's layout is invisible, only which node is on top matters.      *)
(***************************************************************************)
EXTENDS MipModel, FiniteSetsExt

\* The in-class initialisers of BbNode, with id = 0 from BbQueue::next_id.
RootNode ==
    [id |-> 0, parent_id |-> -1, depth |-> 0,
     lower_overrides |-> <<>>, upper_overrides |-> <<>>,
     relaxation_bound |-> -Inf, relaxation_solution |-> NoPoint,
     branching_variable |-> 0, branch_direction |-> "Down"]

Overrides(list, v) == {list[i][2] : i \in {j \in DOMAIN list : list[j][1] = v}}
EffectiveLower(m, node) ==
    [v \in Vars |-> Max({m.lower[v]} \cup Overrides(node.lower_overrides, v))]
EffectiveUpper(m, node) ==
    [v \in Vars |-> Min({m.upper[v]} \cup Overrides(node.upper_overrides, v))]

\* What every child of node takes from it and from its relaxation.
Child(node, id, bound, x, v, direction) ==
    [node EXCEPT !.id = id, !.parent_id = node.id, !.depth = node.depth + 1,
                 !.relaxation_bound = bound, !.relaxation_solution = x,
                 !.branching_variable = v, !.branch_direction = direction]
\* Mutants: the wrong end of the interval, one integer too far, or the bound
\* left at its default.
DownChildToCeil(node, id, bound, x, v) ==
    [Child(node, id, bound, x, v, "Down")
        EXCEPT !.upper_overrides = Append(@, <<v, Ceil(x[v])>>)]
DownChildTooFar(node, id, bound, x, v) ==
    [Child(node, id, bound, x, v, "Down")
        EXCEPT !.upper_overrides = Append(@, <<v, Floor(x[v]) - Unit>>)]
DownChildNoBound(node, id, bound, x, v) ==
    [Child(node, id, -Inf, x, v, "Down")
        EXCEPT !.upper_overrides = Append(@, <<v, Floor(x[v])>>)]
DownChild(node, id, bound, x, v) ==
    [Child(node, id, bound, x, v, "Down")
        EXCEPT !.upper_overrides = Append(@, <<v, Floor(x[v])>>)]
\* Mutant: both children get the floor.
UpChildFromFloor(node, id, bound, x, v) ==
    [Child(node, id, bound, x, v, "Up")
        EXCEPT !.lower_overrides = Append(@, <<v, Floor(x[v])>>)]
UpChild(node, id, bound, x, v) ==
    [Child(node, id, bound, x, v, "Up")
        EXCEPT !.lower_overrides = Append(@, <<v, Ceil(x[v])>>)]

\* BbNodeCompare: a is popped before b.
Before(a, b) ==
    \/ a.relaxation_bound < b.relaxation_bound
    \/ /\ a.relaxation_bound = b.relaxation_bound
       /\ \/ a.depth > b.depth
          \/ a.depth = b.depth /\ a.id < b.id

IsTop(queue, node) ==
    node \in queue /\ \A other \in queue \ {node} : Before(node, other)
BestBound(queue) ==
    IF queue = {} THEN Inf
    ELSE (CHOOSE node \in queue : IsTop(queue, node)).relaxation_bound
=============================================================================
