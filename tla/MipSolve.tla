------------------------------ MODULE MipSolve ------------------------------
(***************************************************************************)
(* What a mixed-integer solve promises its caller, whatever the algorithm: *)
(* its best objective only improves, each value being that of a point it   *)
(* may accept, and then it answers once.  Optimal is only answered when    *)
(* every point that is wanted is within the gap of the best one, and       *)
(* Infeasible only when no point is wanted.  Any other status is a         *)
(* disclaimer.                                                             *)
(***************************************************************************)
EXTENDS Integers

CONSTANTS Problems, NoObjective,
          Accepted(_),      \* the points a problem lets a solver return
          Wanted(_),        \* the points the answer is judged against
          Objective(_, _),
          Close(_, _)       \* the best value is close enough to another

\* What a status says of a problem whose best objective is value.
Justified(p, value, status) ==
    /\ status = "Optimal" =>
          value # NoObjective /\ \A q \in Wanted(p) : Close(value, Objective(p, q))
    /\ status = "Infeasible" => value = NoObjective /\ Wanted(p) = {}

VARIABLES problem, bestValue, answer

Unanswered == "NotSolved"

Init == problem \in Problems /\ bestValue = NoObjective /\ answer = Unanswered

Improve ==
    /\ answer = Unanswered
    /\ \E p \in Accepted(problem) :
          /\ Objective(problem, p) < bestValue
          /\ bestValue' = Objective(problem, p)
    /\ UNCHANGED <<problem, answer>>

Answer ==
    /\ answer = Unanswered
    /\ answer' # Unanswered
    /\ Justified(problem, bestValue, answer')
    /\ UNCHANGED <<problem, bestValue>>

Next == Improve \/ Answer
Spec == Init /\ [][Next]_<<problem, bestValue, answer>>
=============================================================================
