------------------------------ MODULE OaProofs ------------------------------
(***************************************************************************)
(* Outer approximation, for every set of convex models, every oracle and   *)
(* every tolerance.  OaTyped is the inductive invariant: OaTypeOK, and     *)
(* what each place of the loop may assume about the last reply and about   *)
(* the tangents.  Its consequences need one or both of RowsSplit and       *)
(* TightMasters: without the first a run breaks OaIncumbentFeasible.       *)
(***************************************************************************)
EXTENDS OaProperties, FiniteSetTheorems, WellFoundedInduction, TLAPS

Plus(a, b) == a + b
Numbers == INSTANCE FoldTheory WITH Typ <- Int, Op <- Plus, Base <- 0

OaPlaceOK ==
    /\ pc \notin {"entry", "returned"} => model.nonlinear
    /\ linearized # {} =>
          model.nonlinear /\ linearized \subseteq Points \ model.oracle.singular
    /\ pc \in {"loop", "master", "linearize", "finish"} => linearized # {}
    /\ pc = "initial" => reply \in InitialReplies(model)
    /\ pc \in {"master", "linearize"} => reply \in MasterReplies(model, linearized)
    /\ pc = "linearize" =>
          reply.x # NoPoint /\ reply.status \notin Refusals \cup {"Infeasible"}
OaTyped == OaTypeOK /\ OaPlaceOK

-----------------------------------------------------------------------------
(***************************************************************************)
(* Max of a bounded set, and the gap test.                                 *)
(***************************************************************************)
LEMMA MaxIsGreatest ==
  ASSUME NEW S \in SUBSET Int, S # {}, NEW b \in Int, \A s \in S : s <= b
  PROVE  Max(S) \in S /\ Max(S) \in Int /\ \A s \in S : s <= Max(S)
<1>1. \E x \in S : \A s \in S : x >= s
  <2>1. PICK x \in S : \A s \in S : s <= x BY Numbers!GreatestExists
  <2> QED BY <2>1
<1> QED BY <1>1 DEF Max

LEMMA Scaling ==
  ASSUME NEW a \in Int, NEW b \in Int, a <= b, NEW k \in Nat
  PROVE  a * k <= b * k /\ a * k \in Int /\ b * k \in Int
OBVIOUS

LEMMA ScaleFacts ==
  /\ AbsTol \in Nat /\ RelDen \in Nat /\ RelNum \in Nat /\ Inf \in Nat /\ -Inf \in Int
  /\ ObjectiveOne \in Int
<1>1. Unit \in Int /\ Unit * Unit \in Int BY GridAssumption
<1>2. ObjectiveOne \in Int BY <1>1 DEF ObjectiveOne
<1> QED BY <1>2, ToleranceAssumption, GridAssumption

\* A better bound never opens a gap that was closed.
LEMMA GapShrinks ==
  ASSUME NEW a \in Int, NEW d \in Int, NEW e \in Int, d <= e, Finite(e), WithinGap(a, d)
  PROVE  WithinGap(a, e)
<1> DEFINE g == Larger(0, a - d)
           h == Larger(0, a - e)
           r == RelNum * Larger(ObjectiveOne, Magnitude(a))
<1>1. g \in Int /\ h \in Int /\ h <= g BY DEF Larger
<1>2. h * RelDen <= g * RelDen /\ h * RelDen \in Int /\ g * RelDen \in Int
  BY <1>1, ScaleFacts, Scaling
<1>3. Larger(ObjectiveOne, Magnitude(a)) \in Int BY ScaleFacts DEF Larger, Magnitude
<1>4. r \in Int BY <1>3, ScaleFacts
<1>5. Finite(a) /\ (g <= AbsTol \/ g * RelDen <= r) BY DEF WithinGap
<1> HIDE DEF g, h, r
<1>6. h <= AbsTol \/ h * RelDen <= r BY <1>1, <1>2, <1>4, <1>5, ScaleFacts
<1> QED BY <1>5, <1>6 DEF WithinGap, g, h, r

LEMMA GapWithinTolerance ==
  ASSUME NEW a \in Int, NEW e \in Int, Finite(a), Finite(e), e >= a - AbsTol
  PROVE  WithinGap(a, e)
BY ScaleFacts DEF WithinGap, Larger

\* The empty vector is no point.
LEMMA NotAPoint == NoPoint \notin Points
<1>1. 1 \in Vars BY ValuesAssumption DEF Vars
<1>2. \A p \in Points : DOMAIN p = Vars BY DEF Points
<1>3. DOMAIN <<>> = {} OBVIOUS
<1> QED BY <1>1, <1>2, <1>3 DEF NoPoint

-----------------------------------------------------------------------------
(***************************************************************************)
(* The constants, the replies and the master.                              *)
(***************************************************************************)
LEMMA SettingsFacts ==
  /\ Inf \in Nat /\ Inf > 0 /\ -Inf \in Int /\ AbsTol \in Nat /\ AbsTol < Inf
  /\ PrimalTol \in Nat /\ Unit \in Nat /\ 2 * Unit * PrimalTol \in Nat
  /\ MaxIterations \in Nat /\ NodeLimit \in Nat
  /\ DualValues \subseteq Int /\ \A d \in DualValues : Finite(d)
  /\ DualExcess \subseteq Int
  /\ Slacks \subseteq Int /\ \A s \in Slacks : s >= -2 * Unit * PrimalTol
<1>1. Unit \in Nat /\ Inf \in Nat /\ Inf > 0 /\ -Inf \in Int BY GridAssumption
<1>2. PrimalTol \in Nat /\ AbsTol \in Nat /\ AbsTol < Inf BY <1>1, ToleranceAssumption
<1>3. 2 * Unit * PrimalTol \in Nat BY <1>1, <1>2
<1> QED BY <1>1, <1>2, <1>3, SettingsAssumption

LEMMA ConvexFacts ==
  ASSUME NEW m \in NonlinearModels, NEW y \in Points
  PROVE  /\ TotalObjective(m, y) \in Int /\ Finite(TotalObjective(m, y))
         /\ TotalObjective(m, y) < Inf - AbsTol
         /\ EvaluateObjective(m, y) \in Int /\ m.oracle.objective[y] \in Int
         /\ TotalObjective(m, y) = EvaluateObjective(m, y) + m.oracle.objective[y]
<1>1. /\ TotalObjective(m, y) \in -Inf + 1 .. Inf - AbsTol - 1
      /\ EvaluateObjective(m, y) \in Int /\ m.oracle.objective[y] \in Int
  BY ConvexAssumption
<1>2. -Inf + 1 \in Int /\ Inf - AbsTol - 1 \in Int /\ AbsTol \in Nat /\ Inf \in Nat
  BY SettingsFacts
<1> QED BY <1>1, <1>2 DEF Finite, TotalObjective

\* What the relaxation's answer says.
LEMMA InitialFacts ==
  ASSUME NEW m \in NonlinearModels, NEW r \in InitialReplies(m)
  PROVE  /\ r \in ReplySet /\ r.status \in Statuses
         /\ r.status = "Infeasible" => NlSolutions(m) = {}
         /\ r.dual_bound < Inf \/ r.status = "Infeasible"
         /\ \A p \in NlSolutions(m) :
              Finite(r.dual_bound) => r.dual_bound <= TotalObjective(m, p)
         /\ r.status = "Optimal" /\ r.x \in Points =>
              /\ Finite(r.objective)
              /\ \A p \in NlSolutions(m) : r.objective <= TotalObjective(m, p)
<1> DEFINE inside == {p \in Points : SatisfiesModel(m, p, 0)}
           near == {p \in Points : SatisfiesModel(m, p, PrimalTol)}
           AtMost(a) == \A p \in inside : a <= TotalObjective(m, p)
           duals == {-Inf} \cup {d \in DualValues : AtMost(d)}
<1>1. NlSolutions(m) \subseteq inside BY DEF NlSolutions
<1>2. near \subseteq Points OBVIOUS
<1>3. \A x \in Points : TotalObjective(m, x) \in Int /\ Finite(TotalObjective(m, x))
  BY ConvexFacts
<1>4. \A d \in duals : d \in Int /\ d < Inf /\ (Finite(d) => AtMost(d))
  BY SettingsFacts DEF Finite
<1>5. \A s \in FailureStatuses : s \in Statuses /\ s \notin SolvedStatuses \cup {"Infeasible"}
  BY SettingsAssumption DEF Statuses, SolvedStatuses
<1>6. -Inf \in Int /\ Inf \in Int /\ -Inf < Inf /\ ~Finite(-Inf) /\ ~Finite(Inf)
  BY SettingsFacts DEF Finite
<1>7. \/ inside = {} /\ r = Answer("Infeasible", NoPoint, Inf, Inf)
      \/ \E x \in {p \in near : AtMost(TotalObjective(m, p))}, d \in duals :
            r = Answer("Optimal", x, TotalObjective(m, x), d)
      \/ \E s \in SolvedStatuses \ {"Optimal"}, x \in near, d \in duals :
            r = Answer(s, x, TotalObjective(m, x), d)
      \/ \E s \in FailureStatuses \cup {"Optimal"} : r = Answer(s, NoPoint, Inf, -Inf)
  BY DEF InitialReplies
<1> HIDE DEF inside, near, duals
<1>8. CASE inside = {} /\ r = Answer("Infeasible", NoPoint, Inf, Inf)
  BY <1>1, <1>6, <1>8 DEF Answer, ReplySet, Statuses
<1>9. ASSUME NEW x \in near, AtMost(TotalObjective(m, x)), NEW d \in duals,
             r = Answer("Optimal", x, TotalObjective(m, x), d)
      PROVE  /\ r \in ReplySet /\ r.status = "Optimal" /\ "Optimal" \in Statuses
             /\ Finite(r.objective) /\ AtMost(r.objective)
             /\ r.dual_bound < Inf /\ (Finite(r.dual_bound) => AtMost(r.dual_bound))
  BY <1>2, <1>3, <1>4, <1>9 DEF Answer, ReplySet, Statuses, SolvedStatuses
<1>10. ASSUME NEW s \in SolvedStatuses \ {"Optimal"}, NEW x \in near, NEW d \in duals,
              r = Answer(s, x, TotalObjective(m, x), d)
       PROVE  /\ r \in ReplySet /\ r.status \notin {"Optimal", "Infeasible"}
              /\ r.status \in Statuses /\ r.dual_bound < Inf
              /\ Finite(r.dual_bound) => AtMost(r.dual_bound)
  BY <1>2, <1>3, <1>4, <1>10 DEF Answer, ReplySet, Statuses, SolvedStatuses
<1>11. CASE \E s \in FailureStatuses \cup {"Optimal"} : r = Answer(s, NoPoint, Inf, -Inf)
  BY <1>5, <1>6, <1>11, NotAPoint DEF Answer, ReplySet, Statuses, SolvedStatuses
<1> QED BY <1>1, <1>7, <1>8, <1>9, <1>10, <1>11

\* The master's objective lies between its tangents and the model's own.
LEMMA MasterFacts ==
  ASSUME NEW m \in NonlinearModels, NEW y \in Points, NEW L, L # {},
         L \subseteq Points \ m.oracle.singular
  PROVE  /\ MasterOf(m, L).least[y] \in Int
         /\ MasterOf(m, L).least[y] <= TotalObjective(m, y)
         /\ y \in L => MasterOf(m, L).least[y] = TotalObjective(m, y)
<1> DEFINE heights == {ObjectiveTangent(m, x, y) : x \in L}
<1>1. \A x \in L : /\ ObjectiveTangent(m, x, y) \in Int
                   /\ ObjectiveTangent(m, x, y) <= m.oracle.objective[y]
                   /\ x = y => ObjectiveTangent(m, x, y) = m.oracle.objective[y]
  BY ConvexAssumption DEF ObjectiveTangent
<1>2. heights \in SUBSET Int /\ heights # {} /\ \A h \in heights : h <= m.oracle.objective[y]
  BY <1>1
<1>3. m.oracle.objective[y] \in Int BY ConvexFacts
<1>4. Max(heights) \in heights /\ Max(heights) \in Int /\ \A h \in heights : h <= Max(heights)
  BY <1>2, <1>3, MaxIsGreatest
<1>5. y \in L => m.oracle.objective[y] \in heights BY <1>1
<1>6. MasterOf(m, L).least[y] = EvaluateObjective(m, y) + Max(heights) BY DEF MasterOf, MasterLeast
<1> HIDE DEF heights
<1>7. /\ EvaluateObjective(m, y) \in Int
      /\ TotalObjective(m, y) = EvaluateObjective(m, y) + m.oracle.objective[y]
  BY ConvexFacts
<1> QED BY <1>2, <1>3, <1>4, <1>5, <1>6, <1>7

\* What the master's answer says.
LEMMA MasterReplyFacts ==
  ASSUME NEW m \in NonlinearModels, NEW L, L # {}, L \subseteq Points \ m.oracle.singular,
         NEW r \in MasterReplies(m, L)
  PROVE  /\ r \in ReplySet /\ r.status \in Statuses
         /\ r.x # NoPoint => r.x \in MasterOf(m, L).accepted
         /\ r.status = "Infeasible" => MasterOf(m, L).wanted = {}
         /\ r.status = "Optimal" =>
              /\ r.x \in MasterOf(m, L).accepted
              /\ \E s \in Slacks : r.objective = MasterOf(m, L).least[r.x] + s
              /\ \E e \in DualExcess : r.dual_bound = r.objective + e
              /\ WithinGap(r.objective, r.dual_bound)
              /\ \A q \in MasterOf(m, L).wanted :
                   MasterOf(m, L).least[q] >= Smaller(r.dual_bound, r.objective - AbsTol)
<1> DEFINE master == MasterOf(m, L)
           accepted == master.accepted
           Reached(x) == {master.least[x] + s : s \in Slacks}
           values == {value \in UNION {Reached(x) : x \in accepted} :
                         Master!Justified(master, value, "Optimal")}
           BoundHolds(value, d) == \A q \in master.wanted :
               master.least[q] >= Smaller(d, value - AbsTol)
           Bounds(value) == {d \in {value + e : e \in DualExcess} :
                                WithinGap(value, d) /\ BoundHolds(value, d)}
           cut_short == (FailureStatuses \ Refusals) \cup {"NodeLimit", "TimeLimit"}
<1>1. \/ \E value \in values : \E x \in {y \in accepted : value \in Reached(y)} :
            \E d \in Bounds(value) : r = Answer("Optimal", x, value, d)
      \/ /\ Master!Justified(master, Inf, "Infeasible")
         /\ r = Answer("Infeasible", NoPoint, Inf, Inf)
      \/ \E x \in accepted : r = Answer("Feasible", x, Inf, -Inf)
      \/ \E s \in cut_short, x \in accepted \cup {NoPoint} : r = Answer(s, x, Inf, -Inf)
      \/ \E s \in Refusals : r = Answer(s, NoPoint, Inf, -Inf)
  BY DEF MasterReplies
<1>2. accepted \subseteq Points BY DEF MasterOf
<1>3. \A x \in accepted : master.least[x] \in Int BY <1>2, MasterFacts
<1>4. cut_short \cup Refusals \subseteq Statuses \ {"Optimal", "Infeasible"}
  BY SettingsAssumption DEF Statuses, Refusals
<1>5. Inf \in Int /\ -Inf \in Int /\ Slacks \subseteq Int /\ DualExcess \subseteq Int
  BY SettingsFacts
<1>6. ASSUME NEW value \in values, NEW x \in accepted, value \in Reached(x),
             NEW d \in Bounds(value), r = Answer("Optimal", x, value, d)
      PROVE  /\ r \in ReplySet /\ r.status = "Optimal" /\ r.x \in accepted
             /\ r.status \in Statuses
             /\ \E s \in Slacks : r.objective = master.least[r.x] + s
             /\ \E e \in DualExcess : r.dual_bound = r.objective + e
             /\ WithinGap(r.objective, r.dual_bound)
             /\ BoundHolds(r.objective, r.dual_bound)
  <2>1. PICK s \in Slacks : value = master.least[x] + s BY <1>6
  <2>2. PICK e \in DualExcess : d = value + e BY <1>6
  <2>3. WithinGap(value, d) /\ BoundHolds(value, d) BY <1>6
  <2>4. value \in Int /\ d \in Int /\ x \in Points BY <1>2, <1>3, <1>5, <2>1, <2>2
  <2>5. r.status = "Optimal" /\ r.x = x /\ r.objective = value /\ r.dual_bound = d
    BY <1>6 DEF Answer
  <2>6. r \in ReplySet BY <1>6, <2>4 DEF Answer, ReplySet, Statuses, SolvedStatuses
  <2> HIDE DEF accepted, BoundHolds
  <2> QED BY <2>1, <2>2, <2>3, <2>5, <2>6 DEF Statuses, SolvedStatuses
<1>7. CASE /\ Master!Justified(master, Inf, "Infeasible")
           /\ r = Answer("Infeasible", NoPoint, Inf, Inf)
  BY <1>5, <1>7 DEF Answer, ReplySet, Statuses, Master!Justified, WantedOf
<1>8. CASE \E x \in accepted : r = Answer("Feasible", x, Inf, -Inf)
  BY <1>2, <1>5, <1>8 DEF Answer, ReplySet, Statuses, SolvedStatuses
<1>9. CASE \E s \in cut_short, x \in accepted \cup {NoPoint} : r = Answer(s, x, Inf, -Inf)
  <2>1. PICK s \in cut_short, x \in accepted \cup {NoPoint} : r = Answer(s, x, Inf, -Inf)
    BY <1>9
  <2> QED BY <1>2, <1>4, <1>5, <2>1 DEF Answer, ReplySet
<1>10. CASE \E s \in Refusals : r = Answer(s, NoPoint, Inf, -Inf)
  BY <1>4, <1>5, <1>10 DEF Answer, ReplySet
<1> HIDE DEF master, accepted, values, Bounds, BoundHolds, Reached, cut_short
<1> QED BY <1>1, <1>6, <1>7, <1>8, <1>9, <1>10 DEF master, accepted, BoundHolds

-----------------------------------------------------------------------------
(***************************************************************************)
(* Type correctness.                                                       *)
(***************************************************************************)
LEMMA PlaceFacts ==
  ASSUME OaTyped
  PROVE  /\ pc \notin {"entry", "returned"} \/ linearized # {} => model \in NonlinearModels
         /\ pc = "initial" => reply \in InitialReplies(model) /\ model \in NonlinearModels
         /\ pc \in {"master", "linearize"} =>
              /\ linearized # {} /\ linearized \subseteq Points \ model.oracle.singular
              /\ reply \in MasterReplies(model, linearized)
              /\ reply.x # NoPoint => reply.x \in Points
              /\ reply.x # NoPoint => IsIntegerFeasible(model, reply.x, IntTol)
<1>1. pc \notin {"entry", "returned"} \/ linearized # {} => model \in NonlinearModels
  BY DEF OaTyped, OaTypeOK, OaPlaceOK, NonlinearModels
<1>2. pc \in {"master", "linearize"} =>
        /\ linearized # {} /\ linearized \subseteq Points \ model.oracle.singular
        /\ reply \in MasterReplies(model, linearized)
  BY DEF OaTyped, OaPlaceOK
<1>3. pc \in {"master", "linearize"} /\ reply.x # NoPoint =>
        reply.x \in MasterOf(model, linearized).accepted
  BY <1>1, <1>2, MasterReplyFacts
<1> QED BY <1>1, <1>2, <1>3 DEF MasterOf, OaTyped, OaPlaceOK

LEMMA OaTypeInit == Init => OaTyped
<1> SUFFICES ASSUME Init PROVE OaTyped OBVIOUS
<1>1. Inf \in Int /\ -Inf \in Int /\ 0 \in 0 .. NodeLimit /\ 0 \in 0 .. MaxIterations
  BY SettingsFacts
<1>2. NoReply \in ReplySet BY <1>1 DEF NoReply, Answer, ReplySet
<1> QED BY <1>1, <1>2 DEF Init, OaTyped, OaTypeOK, OaPlaceOK, Statuses

LEMMA OaTypeStep == OaTyped /\ [Next]_vars => OaTyped'
<1> SUFFICES ASSUME OaTyped, [Next]_vars PROVE OaTyped' OBVIOUS
<1> USE DEF OaTyped, OaTypeOK, OaPlaceOK, best, effort
<1>1. NoReply \in ReplySet
  BY SettingsFacts DEF NoReply, Answer, ReplySet
<1>2. CASE RejectModel BY <1>2 DEF RejectModel, Refuse, Statuses
<1>3. CASE SolveInitial
  <2>1. model \in NonlinearModels BY <1>3 DEF SolveInitial, Supported, NonlinearModels
  <2>2. reply' \in ReplySet BY <1>3, <2>1, InitialFacts DEF SolveInitial
  <2> QED BY <1>3, <2>2 DEF SolveInitial, Supported
<1>4. CASE InitialFailed
  <2>1. reply.status \in Statuses BY <1>4, PlaceFacts, InitialFacts DEF InitialFailed
  <2> QED BY <1>4, <2>1 DEF InitialFailed, Refuse
<1>5. CASE InitialUnusable BY <1>5 DEF InitialUnusable, Refuse, Statuses
<1>6. CASE BuildMaster
  <2>1. InitialDual \in Int BY DEF InitialDual, ReplySet
  <2>2. reply.x \in Points BY <1>6 DEF BuildMaster, LinearlyFeasible, IsFeasible
  <2> QED BY <1>1, <1>6, <2>1, <2>2 DEF BuildMaster
<1>7. CASE IterationsExhausted BY <1>7 DEF IterationsExhausted, Stop
<1>8. CASE OutOfBudget
  <2>1. iterations' \in 0 .. MaxIterations BY <1>8, SettingsFacts DEF OutOfBudget
  <2> QED BY <1>8, <2>1 DEF OutOfBudget, Stop, Statuses
<1>9. CASE SolveMaster
  <2>1. iterations' \in 0 .. MaxIterations /\ total_nodes' \in 0 .. NodeLimit
    BY <1>9, SettingsFacts DEF SolveMaster
  <2>2. reply' \in ReplySet
    BY <1>9, PlaceFacts, MasterReplyFacts DEF SolveMaster
  <2> QED BY <1>9, <2>1, <2>2 DEF SolveMaster
<1>10. CASE MasterInfeasible BY <1>10 DEF MasterInfeasible, Stop, Statuses
<1>11. CASE MasterRefused BY <1>11 DEF MasterRefused, Refused, Refusals, Stop, Statuses
<1>12. CASE MasterWithoutPoint
  BY <1>12 DEF MasterWithoutPoint, TerminationNow, Limited, Stop, Statuses
<1>13. CASE TakeCandidate
  <2>1. model \in NonlinearModels /\ reply.x \in Points BY <1>13, PlaceFacts DEF TakeCandidate
  <2>2. incumbent' \in Points \cup {NoPoint} /\ incumbent_objective' \in Int
    BY <1>13, <2>1, ConvexFacts DEF TakeCandidate
  <2>3. dual_bound' \in Int BY <1>13 DEF TakeCandidate, RaisedDualBound, Larger, ReplySet
  <2>4. termination' \in Statuses
    BY <1>13 DEF TakeCandidate, TerminationNow, Limited, Statuses
  <2> QED BY <1>13, <2>2, <2>3, <2>4 DEF TakeCandidate, Refused
<1>14. CASE LinearizationFails BY <1>14 DEF LinearizationFails, Stop, Statuses
<1>15. CASE Linearize
  <2>1. reply.x \in Points BY <1>15, PlaceFacts DEF Linearize
  <2>2. linearized' \subseteq Points \ model'.oracle.singular /\ linearized' # {}
    BY <1>15, <2>1 DEF Linearize
  <2>3. termination' \in Statuses /\ pc' \in {"finish", "loop"}
    BY <1>15 DEF Linearize, Stop, Statuses, SolvedStatuses
  <2> QED BY <1>1, <1>15, <2>2, <2>3 DEF Linearize
<1>16. CASE Report
  <2>1. (IF incumbent = NoPoint THEN result.integrality_residual ELSE 0) \in Int OBVIOUS
  <2> QED BY <1>16, <2>1 DEF Report, Statuses
<1>17. CASE Returned \/ UNCHANGED vars BY <1>17 DEF Returned, vars
<1> QED
  BY <1>2, <1>3, <1>4, <1>5, <1>6, <1>7, <1>8, <1>9, <1>10, <1>11, <1>12, <1>13, <1>14,
     <1>15, <1>16, <1>17 DEF Next

\* Every variable of outer approximation keeps its type and the loop its
\* budget of iterations and nodes, whatever the oracle and the masters answer.
THEOREM OaTypeCorrect == Spec => []OaTypeOK
<1>1. OaTyped => OaTypeOK BY DEF OaTyped
<1> QED BY <1>1, OaTypeInit, OaTypeStep, PTL DEF Spec

-----------------------------------------------------------------------------
(***************************************************************************)
(* What the loop keeps without any further assumption: where the incumbent *)
(* comes from, what the dual bound remembers, and when it stops.           *)
(***************************************************************************)
Passed(x) == LinearlyFeasible(model, x) /\ NonlinearlyFeasible(model, x)
OaLoopOK ==
    /\ IF incumbent = NoPoint THEN incumbent_objective = Inf
       ELSE /\ incumbent \in Points /\ model \in NonlinearModels
            /\ Passed(incumbent) /\ IsIntegerFeasible(model, incumbent, IntTol)
            /\ incumbent_objective = Value(incumbent)
    /\ dual_bound < Inf
    /\ pc = "linearize" =>
          /\ reply.status = "Optimal" => reply.dual_bound <= dual_bound
          /\ Passed(reply.x) => incumbent_objective <= Value(reply.x)
    /\ termination \in {"Optimal", "Infeasible"} => pc \in {"finish", "returned"}
    /\ termination = "Optimal" => WithinGap(incumbent_objective, dual_bound)
    /\ pc # "returned" => result.status = "NotSolved"
    /\ result.status = "Optimal" =>
          termination = "Optimal" /\ result.objective = incumbent_objective

LEMMA OaLoopInit == Init => OaLoopOK
BY SettingsFacts DEF Init, OaLoopOK

\* Actions that leave the search as it is.
OaCalm == UNCHANGED <<model, best, dual_bound>> /\ pc' \notin {"linearize", "returned"}
OaStops(status) == /\ termination' = status /\ pc' = "finish" /\ result' = result
                   /\ status = "Optimal" => WithinGap(incumbent_objective, dual_bound)

LEMMA StopsKeepLoop ==
  ASSUME OaLoopOK, OaCalm, NEW status, OaStops(status), pc # "returned"
  PROVE  OaLoopOK'
<1>1. \A x : Passed(x)' <=> Passed(x)
  BY DEF OaCalm, Passed, LinearlyFeasible, NonlinearlyFeasible
<1> QED BY <1>1 DEF OaLoopOK, OaCalm, OaStops, best, Value

LEMMA RefusalKeepsLoop ==
  ASSUME OaTypeOK, OaLoopOK, NEW status, Refuse(status), status # "Optimal",
         pc \in {"entry", "initial"}
  PROVE  OaLoopOK'
<1>1. \A x : Passed(x)' <=> Passed(x)
  BY DEF Refuse, Passed, LinearlyFeasible, NonlinearlyFeasible
<1>2. termination' \notin {"Optimal", "Infeasible"} BY DEF OaLoopOK, Refuse
<1>3. model' = model /\ incumbent' = incumbent /\ incumbent_objective' = incumbent_objective
      /\ dual_bound' = dual_bound /\ pc' = "returned"
  BY DEF Refuse, best
<1>4. result'.status # "Optimal" BY DEF Refuse, OaTypeOK
<1> QED BY <1>1, <1>2, <1>3, <1>4 DEF OaLoopOK, Value

LEMMA OaLoopStep == OaTyped /\ OaLoopOK /\ [Next]_vars => OaLoopOK'
<1> SUFFICES ASSUME OaTyped, OaLoopOK, [Next]_vars PROVE OaLoopOK' OBVIOUS
<1> USE DEF OaTyped, OaTypeOK
<1>0. model' = model => \A x : Passed(x)' <=> Passed(x)
  BY DEF Passed, LinearlyFeasible, NonlinearlyFeasible
<1>1. CASE RejectModel BY <1>1, RefusalKeepsLoop DEF RejectModel
<1>2. CASE SolveInitial BY <1>0, <1>2 DEF SolveInitial, OaLoopOK, Value, best
<1>3. CASE InitialFailed
  BY <1>3, RefusalKeepsLoop DEF InitialFailed, SolvedStatuses
<1>4. CASE InitialUnusable BY <1>4, RefusalKeepsLoop DEF InitialUnusable
<1>5. CASE BuildMaster
  <2>1. reply.x \in Points BY <1>5 DEF BuildMaster, LinearlyFeasible, IsFeasible
  <2>2. reply.dual_bound < Inf /\ (reply.status = "Optimal" => Finite(reply.objective))
    BY <1>5, <2>1, PlaceFacts, InitialFacts DEF BuildMaster, SolvedStatuses
  <2>3. dual_bound' < Inf BY <1>5, <2>2 DEF BuildMaster, InitialDual, OaLoopOK, Finite
  <2>4. termination \notin {"Optimal", "Infeasible"} BY <1>5 DEF BuildMaster, OaLoopOK
  <2> QED BY <1>0, <1>5, <2>3, <2>4 DEF BuildMaster, OaLoopOK, Value, best
<1>6. CASE IterationsExhausted
  BY <1>6, StopsKeepLoop DEF IterationsExhausted, OaCalm, OaStops, Stop, best, OaLoopOK
<1>7. CASE OutOfBudget
  BY <1>7, StopsKeepLoop DEF OutOfBudget, OaCalm, OaStops, Stop, best, OaLoopOK
<1>8. CASE SolveMaster
  <2>1. termination \notin {"Optimal", "Infeasible"} BY <1>8 DEF SolveMaster, OaLoopOK
  <2> QED BY <1>0, <1>8, <2>1 DEF SolveMaster, OaLoopOK, Value, best
<1>9. CASE MasterInfeasible
  BY <1>9, StopsKeepLoop DEF MasterInfeasible, OaCalm, OaStops, Stop, best
<1>10. CASE MasterRefused
  BY <1>10, StopsKeepLoop DEF MasterRefused, Refused, Refusals, OaCalm, OaStops, Stop, best
<1>11. CASE MasterWithoutPoint
  <2>1. TerminationNow # "Optimal"
    BY <1>11 DEF MasterWithoutPoint, TerminationNow, Limited, OaLoopOK
  <2> QED BY <1>11, <2>1, StopsKeepLoop DEF MasterWithoutPoint, OaCalm, OaStops, Stop, best
<1>12. CASE TakeCandidate
  <2>1. /\ model \in NonlinearModels /\ reply.x \in Points
        /\ IsIntegerFeasible(model, reply.x, IntTol) /\ Value(reply.x) \in Int
    BY <1>12, PlaceFacts, ConvexFacts DEF TakeCandidate, Value
  <2>2. dual_bound' < Inf BY <1>12 DEF TakeCandidate, RaisedDualBound, Larger, Finite, OaLoopOK
  <2>3. reply.status = "Optimal" => reply.dual_bound <= dual_bound'
    <3> SUFFICES ASSUME reply.status = "Optimal" PROVE reply.dual_bound <= dual_bound' OBVIOUS
    <3>1. WithinGap(reply.objective, reply.dual_bound)
      BY <1>12, PlaceFacts, MasterReplyFacts DEF TakeCandidate
    <3>2. Finite(reply.dual_bound) /\ reply.dual_bound \in Int
      BY <3>1 DEF WithinGap, ReplySet
    <3> QED BY <1>12, <3>2 DEF TakeCandidate, RaisedDualBound, Larger
  <2>4. Passed(reply.x) => incumbent_objective' <= Value(reply.x)
    <3>1. CASE Improves BY <1>12, <2>1, <3>1 DEF TakeCandidate, Value
    <3>2. CASE ~Improves
      <4>1. incumbent_objective' = incumbent_objective BY <1>12, <3>2 DEF TakeCandidate, best
      <4>2. Passed(reply.x) => ~(Value(reply.x) < incumbent_objective)
        BY <3>2 DEF Improves, Passed, Value
      <4>3. Value(reply.x) \in Int /\ incumbent_objective \in Int BY <2>1
      <4> HIDE DEF OaTyped, OaTypeOK
      <4> QED BY <4>1, <4>2, <4>3
    <3> QED BY <3>1, <3>2
  <2>5. Improves => Passed(reply.x) BY DEF Improves, Passed
  <2>6. termination' \notin {"Optimal", "Infeasible"}
    BY <1>12 DEF TakeCandidate, TerminationNow, Limited, OaLoopOK
  <2>7. /\ model' = model /\ reply' = reply /\ result' = result
        /\ result.status = "NotSolved" /\ pc' = "linearize"
        /\ \/ Improves /\ incumbent' = reply.x /\ incumbent_objective' = Value(reply.x)
           \/ incumbent' = incumbent /\ incumbent_objective' = incumbent_objective
    BY <1>12 DEF TakeCandidate, best, Value, OaLoopOK
  <2>8. Value(reply.x)' = Value(reply.x) /\ Value(incumbent)' = TotalObjective(model, incumbent')
    BY <2>7 DEF Value
  <2>9. IF incumbent' = NoPoint THEN incumbent_objective' = Inf
        ELSE /\ incumbent' \in Points /\ model \in NonlinearModels
             /\ Passed(incumbent') /\ IsIntegerFeasible(model, incumbent', IntTol)
             /\ incumbent_objective' = TotalObjective(model, incumbent')
    BY <2>1, <2>5, <2>7, NotAPoint DEF OaLoopOK, Value
  <2> QED BY <1>0, <2>2, <2>3, <2>4, <2>6, <2>7, <2>8, <2>9 DEF OaLoopOK
<1>13. CASE LinearizationFails
  BY <1>13, StopsKeepLoop DEF LinearizationFails, OaCalm, OaStops, Stop, best
<1>14. CASE Linearize
  <2>1. /\ GapClosed => WithinGap(incumbent_objective, dual_bound)
        /\ termination \notin {"Optimal", "Infeasible"}
    BY <1>14 DEF GapClosed, Linearize, OaLoopOK
  <2> QED BY <1>0, <1>14, <2>1 DEF Linearize, Stop, OaLoopOK, Value, best
<1>15. CASE Report
  BY <1>0, <1>15 DEF Report, OaLoopOK, Value, best
<1>16. CASE Returned \/ UNCHANGED vars
  BY <1>0, <1>16 DEF Returned, vars, OaLoopOK, Value
<1> QED
  BY <1>1, <1>2, <1>3, <1>4, <1>5, <1>6, <1>7, <1>8, <1>9, <1>10, <1>11, <1>12, <1>13,
     <1>14, <1>15, <1>16 DEF Next

LEMMA OaLoopInvariant == Spec => [](OaTyped /\ OaLoopOK)
BY OaTypeInit, OaTypeStep, OaLoopInit, OaLoopStep, PTL DEF Spec

-----------------------------------------------------------------------------
(***************************************************************************)
(* Progress: a master solved to its own optimum proposes a new point.      *)
(***************************************************************************)
LEMMA RepeatClosesGap ==
  ASSUME OaTyped, OaLoopOK, pc = "linearize", reply.status = "Optimal",
         reply.dual_bound >= reply.objective, 2 * Unit * PrimalTol <= AbsTol,
         reply.x \in linearized
  PROVE  GapClosed
<1> DEFINE m == model
           x == reply.x
           master == MasterOf(model, linearized)
<1>1. /\ m \in NonlinearModels /\ linearized # {} /\ reply \in MasterReplies(m, linearized)
      /\ linearized \subseteq Points \ m.oracle.singular /\ x \in Points
  BY PlaceFacts
<1>2. /\ x \in master.accepted /\ WithinGap(reply.objective, reply.dual_bound)
      /\ \E s \in Slacks : reply.objective = master.least[x] + s
  BY <1>1, MasterReplyFacts
<1>3. Passed(x)
  <2>1. MasterHolds(m, linearized, x, PrimalTol) BY <1>2 DEF MasterOf
  <2>2. ASSUME NEW row \in m.rows PROVE InRow(row, m.oracle.values[row][x], PrimalTol)
    <3>1. InRow(row, RowTangent(m, row, x, x), PrimalTol) BY <2>1 DEF MasterHolds
    <3>2. RowTangent(m, row, x, x) = m.oracle.values[row][x]
      BY <1>1, ConvexAssumption DEF RowTangent
    <3> QED BY <3>1, <3>2
  <2> QED BY <2>1, <2>2 DEF Passed, LinearlyFeasible, NonlinearlyFeasible, MasterHolds
<1>4. master.least[x] = Value(x) BY <1>1, MasterFacts DEF Value
<1>5. Value(x) \in Int /\ Finite(Value(x)) BY <1>1, ConvexFacts DEF Value
<1>6. incumbent_objective <= Value(x) /\ reply.dual_bound <= dual_bound /\ dual_bound < Inf
  BY <1>3 DEF OaLoopOK
<1>7. /\ incumbent_objective \in Int /\ dual_bound \in Int
      /\ reply.dual_bound \in Int /\ reply.objective \in Int
  BY DEF OaTyped, OaTypeOK, ReplySet
<1>8. reply.objective >= Value(x) - AbsTol /\ AbsTol \in Nat
  BY <1>2, <1>4, <1>5, SettingsFacts
<1>9. Finite(reply.dual_bound) BY <1>2 DEF WithinGap
<1>10. Finite(incumbent_objective)
  <2>1. incumbent # NoPoint
    BY <1>5, <1>6, SettingsFacts DEF OaLoopOK, Finite
  <2> QED BY <2>1, ConvexFacts DEF OaLoopOK, Value
<1>11. Finite(dual_bound) /\ dual_bound >= incumbent_objective - AbsTol
  BY <1>5, <1>6, <1>7, <1>8, <1>9, SettingsFacts DEF Finite
<1> QED BY <1>7, <1>10, <1>11, GapWithinTolerance DEF GapClosed

\* A master solved to its own optimum never brings the loop back to a point
\* where it already took its tangents, for every convex model, every oracle
\* and every tolerance: taking the tangents again would change nothing.
THEOREM OaCandidatesAreNew == Spec => CandidatesAreNew
<1>1. OaTyped /\ OaLoopOK /\ [Next]_vars =>
        (/\ pc = "linearize" /\ pc' = "loop"
         /\ reply.status = "Optimal" /\ reply.dual_bound >= reply.objective
         /\ 2 * Unit * PrimalTol <= AbsTol
         => reply.x \notin linearized)
  <2> SUFFICES ASSUME OaTyped, OaLoopOK, [Next]_vars, pc = "linearize", pc' = "loop",
                      reply.status = "Optimal", reply.dual_bound >= reply.objective,
                      2 * Unit * PrimalTol <= AbsTol
               PROVE  reply.x \notin linearized
    OBVIOUS
  <2>1. ~GapClosed
    BY DEF Next, vars, RejectModel, SolveInitial, InitialFailed, InitialUnusable, BuildMaster,
       IterationsExhausted, OutOfBudget, SolveMaster, MasterInfeasible, MasterRefused,
       MasterWithoutPoint, TakeCandidate, LinearizationFails, Linearize, Stop, Report, Returned
  <2> QED BY <2>1, RepeatClosesGap
<1> QED BY <1>1, OaLoopInvariant, PTL DEF Spec, CandidatesAreNew

-----------------------------------------------------------------------------
(***************************************************************************)
(* Incumbents, masters and answers of models whose rows are split.         *)
(***************************************************************************)
LEMMA SplitFacts ==
  ASSUME RowsSplit, NEW m \in NonlinearModels, NEW x \in Points, NEW tol \in {0, PrimalTol}
  PROVE  SatisfiesModel(m, x, tol) <=>
           /\ IsFeasible(m.rows, x, m.lower, m.upper, tol)
           /\ \A row \in m.rows : InRow(row, m.oracle.values[row][x], tol)
BY DEF RowsSplit, SatisfiesModel, IsFeasible

\* Whatever point a master proposes, what becomes the incumbent satisfies the
\* model's own rows and integrality, within tolerances, and its objective
\* value is the model's and not the epigraph's.
THEOREM OaIncumbentsAreFeasible ==
  ASSUME RowsSplit
  PROVE  Spec => []OaIncumbentFeasible
<1>1. OaTyped /\ OaLoopOK => OaIncumbentFeasible
  BY SplitFacts DEF OaLoopOK, OaIncumbentFeasible, Passed, LinearlyFeasible, NonlinearlyFeasible
<1> QED BY <1>1, OaLoopInvariant, PTL

\* Tangents of a convex model never cut off a wanted point.
LEMMA TangentsRelax ==
  ASSUME RowsSplit
  PROVE  OaTyped => MastersRelax
<1> SUFFICES ASSUME OaTyped, linearized # {}, NEW p \in NlSolutions(model)
             PROVE  /\ p \in MasterOf(model, linearized).wanted
                    /\ MasterOf(model, linearized).least[p] <= Value(p)
  BY DEF MastersRelax
<1> DEFINE m == model
<1>1. m \in NonlinearModels /\ linearized \subseteq Points \ m.oracle.singular
  BY PlaceFacts DEF OaTyped, OaPlaceOK
<1>2. p \in Points /\ SatisfiesModel(m, p, 0) /\ IsIntegerFeasible(m, p, 0) BY DEF NlSolutions
<1>3. /\ IsFeasible(m.rows, p, m.lower, m.upper, 0)
      /\ \A row \in m.rows : InRow(row, m.oracle.values[row][p], 0)
  BY <1>1, <1>2, SplitFacts
<1>4. \A x \in linearized, row \in m.rows : InRow(row, RowTangent(m, row, x, p), 0)
  BY <1>1, <1>2, <1>3, ConvexAssumption DEF RowTangent
<1>5. p \in MasterOf(model, linearized).wanted
  BY <1>2, <1>3, <1>4 DEF MasterOf, MasterHolds
<1>6. MasterOf(model, linearized).least[p] <= Value(p) BY <1>1, <1>2, MasterFacts DEF Value
<1> QED BY <1>5, <1>6

THEOREM OaMastersRelax ==
  ASSUME RowsSplit
  PROVE  Spec => []MastersRelax
BY TangentsRelax, OaLoopInvariant, PTL

\* The word of the relaxation or of a master that nothing is feasible.
InfeasibleWord ==
    /\ termination = "Infeasible" => NlSolutions(model) = {}
    /\ result.status = "Infeasible" =>
          \/ NlSolutions(model) = {}
          \/ linearized # {} /\ termination = "IterationLimit"

LEMMA InfeasibleWordStep ==
  ASSUME RowsSplit
  PROVE  OaTyped /\ OaLoopOK /\ InfeasibleWord /\ [Next]_vars => InfeasibleWord'
<1> SUFFICES ASSUME OaTyped, OaLoopOK, InfeasibleWord, [Next]_vars PROVE InfeasibleWord' OBVIOUS
<1>0. model' = model => NlSolutions(model)' = NlSolutions(model)
  BY DEF NlSolutions, SatisfiesModel
<1>1. CASE RejectModel
  <2>1. result'.status # "Infeasible" BY <1>1 DEF RejectModel, Refuse, OaTyped, OaTypeOK
  <2> QED BY <1>0, <1>1, <2>1 DEF RejectModel, Refuse, InfeasibleWord
<1>2. CASE InitialFailed
  <2>1. result'.status = "Infeasible" => NlSolutions(model) = {}
    BY <1>2, PlaceFacts, InitialFacts DEF InitialFailed, Refuse, OaTyped, OaTypeOK
  <2> QED BY <1>0, <1>2, <2>1 DEF InitialFailed, Refuse, InfeasibleWord
<1>3. CASE InitialUnusable
  <2>1. result'.status # "Infeasible" BY <1>3 DEF InitialUnusable, Refuse, OaTyped, OaTypeOK
  <2> QED BY <1>0, <1>3, <2>1 DEF InitialUnusable, Refuse, InfeasibleWord
<1>4. CASE MasterInfeasible
  <2>1. MasterOf(model, linearized).wanted = {}
    BY <1>4, PlaceFacts, MasterReplyFacts DEF MasterInfeasible
  <2>2. linearized # {} BY <1>4, PlaceFacts DEF MasterInfeasible
  <2>3. NlSolutions(model) = {} BY <2>1, <2>2, TangentsRelax DEF MastersRelax
  <2> QED BY <1>0, <1>4, <2>3 DEF MasterInfeasible, InfeasibleWord
<1>5. CASE Report
  <2>1. linearized # {} BY <1>5 DEF Report, OaTyped, OaPlaceOK
  <2>2. result'.status = IF termination = "IterationLimit" /\ incumbent = NoPoint
                         THEN "Infeasible" ELSE termination
    BY <1>5 DEF Report
  <2>3. UNCHANGED <<model, linearized, termination>> BY <1>5 DEF Report
  <2> QED BY <1>0, <2>1, <2>2, <2>3 DEF InfeasibleWord
<1>6. CASE Returned \/ UNCHANGED vars
  BY <1>0, <1>6 DEF Returned, vars, InfeasibleWord
<1>7. ASSUME model' = model, result' = result, pc # "returned",
             termination' = termination \/ termination' # "Infeasible"
      PROVE  InfeasibleWord'
  <2>1. result.status # "Infeasible" BY <1>7 DEF OaLoopOK
  <2> QED BY <1>0, <1>7, <2>1 DEF InfeasibleWord
<1>8. CASE \/ SolveInitial \/ BuildMaster \/ IterationsExhausted \/ OutOfBudget \/ SolveMaster
           \/ MasterRefused \/ MasterWithoutPoint \/ TakeCandidate \/ LinearizationFails
           \/ Linearize
  BY <1>7, <1>8 DEF SolveInitial, BuildMaster, IterationsExhausted, OutOfBudget, SolveMaster,
     MasterRefused, MasterWithoutPoint, TakeCandidate, LinearizationFails, Linearize, Stop,
     Refused, Refusals, Limited, TerminationNow
<1> QED BY <1>1, <1>2, <1>3, <1>4, <1>5, <1>6, <1>8 DEF Next

\* A model with solutions is called infeasible only by the last line of the
\* code, after the loop gave up: never because the relaxation or a master
\* was found infeasible.
THEOREM OaInfeasibleIsNotProof ==
  ASSUME RowsSplit
  PROVE  Spec => []InfeasibleIsNotProof
<1>1. Init => InfeasibleWord BY DEF Init, InfeasibleWord
<1>2. InfeasibleWord => InfeasibleIsNotProof BY DEF InfeasibleWord, InfeasibleIsNotProof
<1> QED BY <1>1, <1>2, InfeasibleWordStep, OaLoopInvariant, PTL DEF Spec

\* The largest of the bounds reported so far stays a bound.
LEMMA DualBoundStep ==
  ASSUME RowsSplit, TightMasters
  PROVE  OaTyped /\ OaLoopOK /\ OaDualBoundHolds /\ [Next]_vars => OaDualBoundHolds'
<1> SUFFICES ASSUME OaTyped, OaLoopOK, OaDualBoundHolds, [Next]_vars,
                    Finite(dual_bound'), NEW p \in NlSolutions(model)'
             PROVE  dual_bound' - AbsTol <= Value(p)'
  BY DEF OaDualBoundHolds
<1>0. model' = model
  BY DEF Next, vars, RejectModel, Refuse, SolveInitial, InitialFailed, InitialUnusable,
     BuildMaster, IterationsExhausted, OutOfBudget, SolveMaster, MasterInfeasible,
     MasterRefused, MasterWithoutPoint, TakeCandidate, LinearizationFails, Linearize, Report,
     Returned
<1>1. p \in NlSolutions(model) /\ p \in Points /\ Value(p)' = Value(p)
  BY <1>0 DEF NlSolutions, SatisfiesModel, Value
<1>2. Finite(dual_bound) => dual_bound - AbsTol <= Value(p) BY <1>1 DEF OaDualBoundHolds
<1>3. /\ dual_bound \in Int /\ reply.dual_bound \in Int /\ reply.objective \in Int
      /\ AbsTol \in Nat
  BY SettingsFacts DEF OaTyped, OaTypeOK, ReplySet
<1>4. CASE BuildMaster
  <2>1. reply \in InitialReplies(model) /\ model \in NonlinearModels
    BY <1>4, PlaceFacts DEF BuildMaster
  <2>2. reply.x \in Points BY <1>4 DEF BuildMaster, LinearlyFeasible, IsFeasible
  <2>3. Value(p) \in Int BY <1>1, <2>1, ConvexFacts DEF Value
  <2>4. /\ Finite(reply.dual_bound) => reply.dual_bound <= Value(p)
        /\ reply.status = "Optimal" => reply.objective <= Value(p)
    BY <1>1, <2>1, <2>2, InitialFacts DEF Value
  <2>5. dual_bound' = InitialDual BY <1>4 DEF BuildMaster
  <2> QED BY <1>1, <1>2, <1>3, <2>3, <2>4, <2>5 DEF InitialDual
<1>5. CASE TakeCandidate
  <2> DEFINE master == MasterOf(model, linearized)
  <2>1. /\ model \in NonlinearModels /\ linearized # {} /\ reply \in MasterReplies(model, linearized)
        /\ linearized \subseteq Points \ model.oracle.singular
    BY <1>5, PlaceFacts DEF TakeCandidate
  <2>2. Value(p) \in Int /\ master.least[p] \in Int
    BY <1>1, <2>1, ConvexFacts, MasterFacts DEF Value
  <2>3. p \in master.wanted /\ master.least[p] <= Value(p)
    BY <1>1, <2>1, TangentsRelax DEF MastersRelax
  <2>4. reply.status = "Optimal" => reply.dual_bound - AbsTol <= Value(p)
    <3> SUFFICES ASSUME reply.status = "Optimal" PROVE reply.dual_bound - AbsTol <= Value(p)
      OBVIOUS
    <3>1. master.least[p] >= Smaller(reply.dual_bound, reply.objective - AbsTol)
      BY <2>1, <2>3, MasterReplyFacts
    <3>2. reply.dual_bound <= reply.objective
      <4>1. PICK e \in DualExcess : reply.dual_bound = reply.objective + e
        BY <2>1, MasterReplyFacts
      <4> QED BY <1>3, <4>1, SettingsFacts DEF TightMasters
    <3> QED BY <1>3, <2>2, <2>3, <3>1, <3>2 DEF Smaller
  <2>5. dual_bound' = RaisedDualBound BY <1>5 DEF TakeCandidate
  <2> QED BY <1>1, <1>2, <1>3, <2>2, <2>4, <2>5 DEF RaisedDualBound, Larger
<1>6. ASSUME dual_bound' = dual_bound PROVE dual_bound' - AbsTol <= Value(p)'
  BY <1>1, <1>2, <1>6
<1> QED
  BY <1>4, <1>5, <1>6 DEF Next, vars, RejectModel, Refuse, SolveInitial, InitialFailed,
     InitialUnusable, IterationsExhausted, OutOfBudget, SolveMaster, MasterInfeasible,
     MasterRefused, MasterWithoutPoint, LinearizationFails, Linearize, Report, Returned

LEMMA DualBoundInvariant ==
  ASSUME RowsSplit, TightMasters
  PROVE  Spec => [](OaTyped /\ OaLoopOK /\ OaDualBoundHolds)
<1>1. Init => OaDualBoundHolds
  BY SettingsFacts DEF Init, OaDualBoundHolds, Finite
<1> QED BY <1>1, DualBoundStep, OaLoopInvariant, PTL DEF Spec

\* No tangent, no master and no bound taken over from an earlier master ever
\* lifts the reported dual bound more than the absolute gap above a solution.
THEOREM OaDualBoundIsValid ==
  ASSUME RowsSplit, TightMasters
  PROVE  Spec => []OaDualBoundHolds
BY DualBoundInvariant, PTL

\* An Optimal answer comes with an incumbent, and no solution is better than
\* it by more than the gap tolerance and one more absolute gap.
THEOREM OaOptimalIsCorrect ==
  ASSUME RowsSplit, TightMasters
  PROVE  Spec => []OaOptimalIsOptimal
<1>1. OaTyped /\ OaLoopOK /\ OaDualBoundHolds => OaOptimalIsOptimal
  <2> SUFFICES ASSUME OaTyped, OaLoopOK, OaDualBoundHolds, result.status = "Optimal"
               PROVE  /\ incumbent # NoPoint
                      /\ \A p \in NlSolutions(model) :
                           WithinGap(result.objective, Value(p) + AbsTol)
    BY DEF OaOptimalIsOptimal
  <2>1. /\ WithinGap(incumbent_objective, dual_bound)
        /\ result.objective = incumbent_objective
        /\ incumbent_objective \in Int /\ dual_bound \in Int
    BY DEF OaLoopOK, OaTyped, OaTypeOK
  <2>2. Finite(incumbent_objective) /\ Finite(dual_bound) BY <2>1 DEF WithinGap
  <2>3. incumbent # NoPoint /\ model \in NonlinearModels
    BY <2>2, SettingsFacts DEF OaLoopOK, Finite
  <2>4. ASSUME NEW p \in NlSolutions(model)
        PROVE  WithinGap(incumbent_objective, Value(p) + AbsTol)
    <3>1. /\ Value(p) \in Int /\ Finite(Value(p)) /\ Value(p) < Inf - AbsTol
      BY <2>3, ConvexFacts DEF Value, NlSolutions
    <3>2. dual_bound - AbsTol <= Value(p) BY <2>2 DEF OaDualBoundHolds
    <3>3. /\ Value(p) + AbsTol \in Int /\ dual_bound <= Value(p) + AbsTol
          /\ Finite(Value(p) + AbsTol)
      BY <2>1, <3>1, <3>2, SettingsFacts DEF Finite
    <3> QED BY <2>1, <3>3, GapShrinks
  <2> QED BY <2>1, <2>3, <2>4
<1> QED BY <1>1, DualBoundInvariant, PTL
=============================================================================
