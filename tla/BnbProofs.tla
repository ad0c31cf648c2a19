----------------------------- MODULE BnbProofs -----------------------------
(***************************************************************************)
(* The branch-and-bound engine, for every grid, every set of models, every *)
(* tolerance and every oracle.                                             *)
(*                                                                         *)
(* Types: TypeOK together with what each place of the loop body may assume *)
(* (PlaceOK) and with unique, bounded ids (QueueWellFormed) is an          *)
(* inductive invariant.  It rests on what rounding, node boxes and the     *)
(* node order guarantee, which comes first.                                *)
(*                                                                         *)
(* Search: sound for every model, every tolerance and every oracle, also   *)
(* one that answers NotSolved or reports a dual bound with a point that is *)
(* not a minimiser: incumbents are feasible, bounds hold, boxes are        *)
(* neither empty nor overlapping, and nothing is lost before the first     *)
(* incumbent.                                                              *)
(*                                                                         *)
(* Answers: right for every oracle that never misleads the engine          *)
(* (ProperOracle): no wanted point is lost, Optimal, Infeasible and the    *)
(* dual bound mean what they say, and the engine implements MipSolve.      *)
(* ProperOracle is needed: a failed root relaxation that says NotSolved is *)
(* answered Infeasible.                                                    *)
(*                                                                         *)
(* Order and size: with an exact oracle the lowest bound never falls; with *)
(* any oracle the search is no larger than a tree over the integer boxes.  *)
(*                                                                         *)
(* Cuts: the repository's own generator meets the contract that is assumed *)
(* of every generator, and what it may lose with int_tol > 0 is bounded.   *)
(***************************************************************************)
EXTENDS BnbProperties, RoundingCuts, FiniteSetTheorems, WellFoundedInduction, TLAPS

Plus(a, b) == a + b
Numbers == INSTANCE FoldTheory WITH Typ <- Int, Op <- Plus, Base <- 0

-----------------------------------------------------------------------------
(***************************************************************************)
(* Rounding.                                                               *)
(***************************************************************************)
LEMMA FloorCeil ==
  ASSUME NEW a \in Int
  PROVE  /\ Floor(a) \in Int /\ Floor(a) <= a /\ a < Floor(a) + Unit
         /\ Ceil(a) \in Int /\ a <= Ceil(a) /\ Ceil(a) < a + Unit
<1>1. \A b \in Int : Floor(b) \in Int /\ Floor(b) <= b /\ b < Floor(b) + Unit
  BY GridAssumption DEF Floor
<1>2. -a \in Int OBVIOUS
<1> QED BY <1>1, <1>2, GridAssumption DEF Ceil

\* Multiples of Unit are ordered like their factors.
LEMMA Factors ==
  ASSUME NEW j \in Int, NEW k \in Int, j * Unit < (k + 1) * Unit
  PROVE  j * Unit <= k * Unit
<1>1. \A b, c, d \in Int : b >= c /\ d > 0 => b * d >= c * d OBVIOUS
<1>2. Unit \in Int /\ Unit > 0 /\ k + 1 \in Int BY GridAssumption
<1>3. j * Unit \in Int /\ k * Unit \in Int /\ (k + 1) * Unit \in Int BY <1>2
<1>4. j < k + 1 BY <1>1, <1>2, <1>3
<1> QED BY <1>1, <1>2, <1>3, <1>4

\* Round returns a multiple of Unit at distance at most Unit / 2.
LEMMA RoundNear ==
  ASSUME NEW a \in Int
  PROVE  \E k \in Int : /\ Round(a) = k * Unit
                        /\ 2 * (a - k * Unit) <= Unit
                        /\ 2 * (k * Unit - a) <= Unit
<1>0. Unit \in Int /\ Unit > 0 /\ 2 * Unit \in Int /\ 2 * Unit > 0 BY GridAssumption
<1>1. \A b \in Int : \E q \in Int : q = b \div (2 * Unit) /\ q * (2 * Unit) <= b
                                    /\ b < q * (2 * Unit) + 2 * Unit
  BY <1>0
<1>2. \A q \in Int : q * (2 * Unit) = 2 * (q * Unit) BY <1>0
<1>3. CASE a >= 0
  <2>1. PICK q \in Int : /\ q = (2 * a + Unit) \div (2 * Unit)
                         /\ q * (2 * Unit) <= 2 * a + Unit
                         /\ 2 * a + Unit < q * (2 * Unit) + 2 * Unit
    BY <1>0, <1>1
  <2>2. Round(a) = q * Unit BY <1>3, <2>1 DEF Round
  <2> QED BY <1>0, <1>2, <2>1, <2>2
<1>4. CASE a < 0
  <2>1. PICK q \in Int : /\ q = (Unit - 2 * a) \div (2 * Unit)
                         /\ q * (2 * Unit) <= Unit - 2 * a
                         /\ Unit - 2 * a < q * (2 * Unit) + 2 * Unit
    BY <1>0, <1>1
  <2>2. Round(a) = (-q) * Unit BY <1>0, <1>4, <2>1 DEF Round
  <2>3. (-q) * Unit = -(q * Unit) BY <1>0
  <2> QED BY <1>0, <1>2, <2>1, <2>2, <2>3
<1> QED BY <1>3, <1>4

LEMMA Multiple ==
  ASSUME NEW a \in Int, IntegralityViolation(a) = 0
  PROVE  \E k \in Int : a = k * Unit
<1>1. PICK k \in Int : Round(a) = k * Unit BY RoundNear
<1>2. k * Unit \in Int BY GridAssumption
<1> QED BY <1>1, <1>2 DEF IntegralityViolation, Magnitude

\* Rounding a point down or up loses no integral value.
LEMMA IntegralBelow ==
  ASSUME NEW a \in Int, NEW p \in Int, IntegralityViolation(p) = 0, p <= a
  PROVE  p <= Floor(a)
<1>0. Unit \in Int /\ Unit > 0 BY GridAssumption
<1>1. PICK j \in Int : p = j * Unit BY Multiple
<1>2. PICK k \in Int : k = a \div Unit /\ a < k * Unit + Unit BY <1>0
<1>3. (k + 1) * Unit = k * Unit + Unit /\ k * Unit \in Int BY <1>0
<1> QED BY <1>0, <1>1, <1>2, <1>3, Factors DEF Floor

LEMMA IntegralAbove ==
  ASSUME NEW a \in Int, NEW p \in Int, IntegralityViolation(p) = 0, a <= p
  PROVE  Ceil(a) <= p
<1>0. Unit \in Int /\ Unit > 0 BY GridAssumption
<1>1. PICK j \in Int : p = j * Unit BY Multiple
<1>2. PICK k \in Int : k = (-a) \div Unit /\ -a < k * Unit + Unit BY <1>0
<1>3. (k + 1) * Unit = k * Unit + Unit /\ k * Unit \in Int BY <1>0
<1>4. -p = (-j) * Unit /\ -j \in Int BY <1>0, <1>1
<1>5. (-j) * Unit < (k + 1) * Unit BY <1>0, <1>2, <1>3, <1>4
<1>6. (-j) * Unit <= k * Unit BY <1>4, <1>5, Factors
<1>7. -p <= Floor(-a) BY <1>2, <1>4, <1>6 DEF Floor
<1> QED BY <1>7, FloorCeil DEF Ceil

\* The distance to the nearest integer is at most the distance to the floor
\* and to the ceiling.
LEMMA ViolationBounds ==
  ASSUME NEW a \in Int
  PROVE  /\ IntegralityViolation(a) \in Nat
         /\ IntegralityViolation(a) <= a - Floor(a)
         /\ IntegralityViolation(a) <= Ceil(a) - a
<1>0. Unit \in Int /\ Unit > 0 BY GridAssumption
<1>1. PICK k \in Int : /\ Round(a) = k * Unit
                       /\ 2 * (a - k * Unit) <= Unit /\ 2 * (k * Unit - a) <= Unit
  BY RoundNear
<1>2. \A j \in Int : IntegralityViolation(a) <= Magnitude(a - j * Unit)
  <2> TAKE j \in Int
  <2>1. j * Unit \in Int /\ k * Unit \in Int BY <1>0
  <2>2. CASE j = k BY <1>1, <2>1, <2>2 DEF IntegralityViolation, Magnitude
  <2>3. CASE j > k
    <3>1. (k + 1) * Unit = k * Unit + Unit BY <1>0
    <3>2. \A b, c, d \in Int : b >= c /\ d > 0 => b * d >= c * d OBVIOUS
    <3>3. j * Unit >= (k + 1) * Unit BY <1>0, <2>3, <3>2
    <3> QED BY <1>0, <1>1, <2>1, <3>1, <3>3 DEF IntegralityViolation, Magnitude
  <2>4. CASE j < k
    <3>1. (k - 1) * Unit = k * Unit - Unit BY <1>0
    <3>2. \A b, c, d \in Int : b >= c /\ d > 0 => b * d >= c * d OBVIOUS
    <3>3. (k - 1) * Unit >= j * Unit BY <1>0, <2>4, <3>2
    <3> QED BY <1>0, <1>1, <2>1, <3>1, <3>3 DEF IntegralityViolation, Magnitude
  <2> QED BY <2>2, <2>3, <2>4
<1>3. PICK f \in Int : Floor(a) = f * Unit BY <1>0 DEF Floor
<1>4. PICK c \in Int : Ceil(a) = c * Unit
  <2>1. PICK q \in Int : Floor(-a) = q * Unit BY <1>0 DEF Floor
  <2>2. -(q * Unit) = (-q) * Unit BY <1>0
  <2> QED BY <2>1, <2>2 DEF Ceil
<1>5. IntegralityViolation(a) \in Nat
  BY <1>0, <1>1 DEF IntegralityViolation, Magnitude
<1>6. Magnitude(a - Floor(a)) = a - Floor(a) /\ Magnitude(a - Ceil(a)) = Ceil(a) - a
  BY FloorCeil DEF Magnitude
<1> QED BY <1>2, <1>3, <1>4, <1>5, <1>6

-----------------------------------------------------------------------------
(***************************************************************************)
(* Max and Min of bounded sets of integers.                                *)
(***************************************************************************)
LEMMA MaxIsGreatest ==
  ASSUME NEW S \in SUBSET Int, S # {}, NEW b \in Int, \A s \in S : s <= b
  PROVE  Max(S) \in S /\ Max(S) \in Int /\ \A s \in S : s <= Max(S)
<1>1. \E x \in S : \A s \in S : x >= s
  <2>1. PICK x \in S : \A s \in S : s <= x BY Numbers!GreatestExists
  <2> QED BY <2>1
<1> QED BY <1>1 DEF Max

LEMMA MinIsLeast ==
  ASSUME NEW S \in SUBSET Int, S # {}, NEW b \in Int, \A s \in S : b <= s
  PROVE  Min(S) \in S /\ Min(S) \in Int /\ \A s \in S : Min(S) <= s
<1>1. \E x \in S : \A s \in S : x <= s BY Numbers!LeastExists
<1> QED BY <1>1 DEF Min

-----------------------------------------------------------------------------
(***************************************************************************)
(* The gap test.                                                           *)
(***************************************************************************)
LEMMA Scaling ==
  ASSUME NEW a \in Int, NEW b \in Int, a <= b, NEW k \in Nat
  PROVE  a * k <= b * k /\ a * k \in Int /\ b * k \in Int
OBVIOUS

LEMMA ScaleFacts ==
  /\ AbsTol \in Nat /\ RelDen \in Nat /\ RelNum \in Nat /\ Inf \in Nat /\ -Inf \in Int
  /\ ObjectiveOne \in Int
<1>1. Unit \in Int /\ Unit * Unit \in Int BY GridAssumption
<1>2. ObjectiveOne \in Int BY <1>1 DEF ObjectiveOne
<1> QED BY <1>2, ToleranceAssumption, GridAssumption

\* A better bound never opens a gap that was closed.
LEMMA GapShrinks ==
  ASSUME NEW a \in Int, NEW d \in Int, NEW e \in Int, d <= e, Finite(e), WithinGap(a, d)
  PROVE  WithinGap(a, e)
<1> DEFINE g == Larger(0, a - d)
           h == Larger(0, a - e)
           r == RelNum * Larger(ObjectiveOne, Magnitude(a))
<1>1. g \in Int /\ h \in Int /\ h <= g BY DEF Larger
<1>2. h * RelDen <= g * RelDen /\ h * RelDen \in Int /\ g * RelDen \in Int
  BY <1>1, ScaleFacts, Scaling
<1>3. Larger(ObjectiveOne, Magnitude(a)) \in Int BY ScaleFacts DEF Larger, Magnitude
<1>4. r \in Int BY <1>3, ScaleFacts
<1>5. Finite(a) /\ (g <= AbsTol \/ g * RelDen <= r) BY DEF WithinGap
<1> HIDE DEF g, h, r
<1>6. h <= AbsTol \/ h * RelDen <= r BY <1>1, <1>2, <1>4, <1>5, ScaleFacts
<1> QED BY <1>5, <1>6 DEF WithinGap, g, h, r

LEMMA GapWithinTolerance ==
  ASSUME NEW a \in Int, NEW e \in Int, Finite(a), Finite(e), e >= a - AbsTol
  PROVE  WithinGap(a, e)
BY ScaleFacts DEF WithinGap, Larger

\* The empty vector is no point.
LEMMA NotAPoint == NoPoint \notin Points
<1>1. 1 \in Vars BY ValuesAssumption DEF Vars
<1>2. \A p \in Points : DOMAIN p = Vars BY DEF Points
<1>3. DOMAIN <<>> = {} OBVIOUS
<1> QED BY <1>1, <1>2, <1>3 DEF NoPoint

-----------------------------------------------------------------------------
(***************************************************************************)
(* The box of a node.                                                      *)
(***************************************************************************)
BoundLists == Seq(Vars \X Values)
ModelBounds(m) ==
    /\ \A v \in Vars : /\ m.lower[v] \in Values \cup {-Inf}
                       /\ m.upper[v] \in Values \cup {Inf}

LEMMA OverrideValues ==
  ASSUME NEW list \in BoundLists, NEW v
  PROVE  Overrides(list, v) \subseteq Values
<1>1. \A i \in DOMAIN list : list[i][2] \in Values BY DEF BoundLists
<1> QED BY <1>1 DEF Overrides

LEMMA AppendOverride ==
  ASSUME NEW list \in BoundLists, NEW v \in Vars, NEW a \in Values, NEW w \in Vars
  PROVE  Overrides(Append(list, <<v, a>>), w) =
           Overrides(list, w) \cup (IF w = v THEN {a} ELSE {})
<1> DEFINE longer == Append(list, <<v, a>>)
<1>1. /\ Len(list) \in Nat /\ DOMAIN list = 1 .. Len(list)
      /\ DOMAIN longer = 1 .. Len(list) + 1
      /\ \A i \in 1 .. Len(list) : longer[i] = list[i]
      /\ longer[Len(list) + 1] = <<v, a>>
  BY DEF BoundLists
<1>2. DOMAIN longer = DOMAIN list \cup {Len(list) + 1} BY <1>1
<1>3. <<v, a>>[1] = v /\ <<v, a>>[2] = a OBVIOUS
<1> HIDE DEF longer
<1>4. Overrides(longer, w) \subseteq Overrides(list, w) \cup (IF w = v THEN {a} ELSE {})
  BY <1>1, <1>2, <1>3 DEF Overrides
<1>5. Overrides(list, w) \subseteq Overrides(longer, w) BY <1>1, <1>2 DEF Overrides
<1>6. w = v => a \in Overrides(longer, w) BY <1>1, <1>2, <1>3 DEF Overrides
<1> QED BY <1>4, <1>5, <1>6 DEF longer

LEMMA OverrideBounds ==
  ASSUME NEW m, ModelBounds(m), NEW list \in BoundLists, NEW v \in Vars
  PROVE  /\ \A s \in {m.lower[v]} \cup Overrides(list, v) : s \in Int /\ -Inf <= s /\ s < Inf
         /\ \A s \in {m.upper[v]} \cup Overrides(list, v) : s \in Int /\ -Inf < s /\ s <= Inf
<1>1. \A a \in Values : a \in Int /\ -Inf < a /\ a < Inf BY ValuesAssumption DEF Finite
<1>2. Inf \in Int /\ -Inf \in Int /\ -Inf < Inf BY GridAssumption
<1> QED BY <1>1, <1>2, OverrideValues DEF ModelBounds

\* A number is inside a node's bound when it is inside the model's and inside
\* every override.
LEMMA LowerBox ==
  ASSUME NEW m, ModelBounds(m), NEW n, n.lower_overrides \in BoundLists, NEW v \in Vars
  PROVE  /\ EffectiveLower(m, n)[v] \in Int
         /\ -Inf <= EffectiveLower(m, n)[v] /\ EffectiveLower(m, n)[v] < Inf
         /\ \A b \in Int : EffectiveLower(m, n)[v] <= b <=>
               m.lower[v] <= b /\ \A s \in Overrides(n.lower_overrides, v) : s <= b
<1> DEFINE S == {m.lower[v]} \cup Overrides(n.lower_overrides, v)
<1>1. \A s \in S : s \in Int /\ -Inf <= s /\ s < Inf BY OverrideBounds
<1>2. S # {} /\ Inf \in Int /\ EffectiveLower(m, n)[v] = Max(S)
  BY GridAssumption DEF EffectiveLower
<1>3. m.lower[v] \in S /\ \A s \in Overrides(n.lower_overrides, v) : s \in S OBVIOUS
<1>4. \A s \in S : s = m.lower[v] \/ s \in Overrides(n.lower_overrides, v) OBVIOUS
<1> HIDE DEF S
<1>5. \A s \in S : s <= Inf BY <1>1, <1>2
<1>6. Max(S) \in S /\ Max(S) \in Int /\ \A s \in S : s <= Max(S)
  BY <1>1, <1>2, <1>5, MaxIsGreatest
<1> QED BY <1>1, <1>2, <1>3, <1>4, <1>6

LEMMA UpperBox ==
  ASSUME NEW m, ModelBounds(m), NEW n, n.upper_overrides \in BoundLists, NEW v \in Vars
  PROVE  /\ EffectiveUpper(m, n)[v] \in Int
         /\ -Inf < EffectiveUpper(m, n)[v] /\ EffectiveUpper(m, n)[v] <= Inf
         /\ \A b \in Int : b <= EffectiveUpper(m, n)[v] <=>
               b <= m.upper[v] /\ \A s \in Overrides(n.upper_overrides, v) : b <= s
<1> DEFINE S == {m.upper[v]} \cup Overrides(n.upper_overrides, v)
<1>1. \A s \in S : s \in Int /\ -Inf < s /\ s <= Inf BY OverrideBounds
<1>2. S # {} /\ -Inf \in Int /\ EffectiveUpper(m, n)[v] = Min(S)
  BY GridAssumption DEF EffectiveUpper
<1>3. m.upper[v] \in S /\ \A s \in Overrides(n.upper_overrides, v) : s \in S OBVIOUS
<1>4. \A s \in S : s = m.upper[v] \/ s \in Overrides(n.upper_overrides, v) OBVIOUS
<1> HIDE DEF S
<1>5. \A s \in S : -Inf <= s BY <1>1, <1>2
<1>6. Min(S) \in S /\ Min(S) \in Int /\ \A s \in S : Min(S) <= s
  BY <1>1, <1>2, <1>5, MinIsLeast
<1> QED BY <1>1, <1>2, <1>3, <1>4, <1>6

\* What one more override does to a box.
LEMMA TightenUpper ==
  ASSUME NEW m, ModelBounds(m), NEW n, NEW c, NEW v \in Vars, NEW a \in Values,
         n.upper_overrides \in BoundLists,
         c.upper_overrides = Append(n.upper_overrides, <<v, a>>),
         NEW w \in Vars, NEW b \in Int
  PROVE  b <= EffectiveUpper(m, c)[w] <=>
           b <= EffectiveUpper(m, n)[w] /\ (w = v => b <= a)
<1>1. c.upper_overrides \in BoundLists BY DEF BoundLists
<1>2. Overrides(c.upper_overrides, w) =
        Overrides(n.upper_overrides, w) \cup (IF w = v THEN {a} ELSE {})
  BY AppendOverride
<1>3. /\ b <= EffectiveUpper(m, n)[w] <=>
           b <= m.upper[w] /\ \A s \in Overrides(n.upper_overrides, w) : b <= s
      /\ b <= EffectiveUpper(m, c)[w] <=>
           b <= m.upper[w] /\ \A s \in Overrides(c.upper_overrides, w) : b <= s
  BY <1>1, UpperBox
<1> QED BY <1>2, <1>3

LEMMA TightenLower ==
  ASSUME NEW m, ModelBounds(m), NEW n, NEW c, NEW v \in Vars, NEW a \in Values,
         n.lower_overrides \in BoundLists,
         c.lower_overrides = Append(n.lower_overrides, <<v, a>>),
         NEW w \in Vars, NEW b \in Int
  PROVE  EffectiveLower(m, c)[w] <= b <=>
           EffectiveLower(m, n)[w] <= b /\ (w = v => a <= b)
<1>1. c.lower_overrides \in BoundLists BY DEF BoundLists
<1>2. Overrides(c.lower_overrides, w) =
        Overrides(n.lower_overrides, w) \cup (IF w = v THEN {a} ELSE {})
  BY AppendOverride
<1>3. /\ EffectiveLower(m, n)[w] <= b <=>
           m.lower[w] <= b /\ \A s \in Overrides(n.lower_overrides, w) : s <= b
      /\ EffectiveLower(m, c)[w] <= b <=>
           m.lower[w] <= b /\ \A s \in Overrides(c.lower_overrides, w) : s <= b
  BY <1>1, LowerBox
<1> QED BY <1>2, <1>3

-----------------------------------------------------------------------------
(***************************************************************************)
(* The order of the queue.                                                 *)
(***************************************************************************)
Orderable(waiting) ==
    /\ \A n \in waiting : /\ n.id \in Nat /\ n.depth \in Nat /\ n.depth <= n.id
                        /\ n.relaxation_bound \in Int /\ -Inf <= n.relaxation_bound
    /\ \A n1, n2 \in waiting : n1.id = n2.id => n1 = n2

\* A queue whose ids are unique, bound its nodes' depths and are bounded
\* themselves has a top node.
LEMMA TopExists ==
  ASSUME NEW waiting, waiting # {}, Orderable(waiting),
         NEW k \in Nat, \A n \in waiting : n.id < k
  PROVE  \E n \in waiting : IsTop(waiting, n)
<1> DEFINE Bounds == {n.relaxation_bound : n \in waiting}
           Lowest(b) == {n \in waiting : n.relaxation_bound = b}
           Depths(b) == {n.depth : n \in Lowest(b)}
           Deepest(b, d) == {n \in Lowest(b) : n.depth = d}
           Ids(b, d) == {n.id : n \in Deepest(b, d)}
<1>1. Bounds \in SUBSET Int /\ Bounds # {} /\ -Inf \in Int /\ \A b \in Bounds : -Inf <= b
  <2>1. -Inf \in Int BY GridAssumption
  <2> QED BY <2>1 DEF Orderable
<1>2. PICK b \in Bounds : \A c \in Bounds : b <= c
  <2> HIDE DEF Bounds
  <2> QED BY <1>1, Numbers!LeastExists
<1>3. Depths(b) \in SUBSET Int /\ Depths(b) # {} /\ k \in Int /\ \A d \in Depths(b) : d <= k
  <2>1. PICK n \in waiting : n.relaxation_bound = b BY <1>2
  <2>2. n.depth \in Depths(b) BY <2>1
  <2>3. \A d \in Depths(b) : d \in Int /\ d <= k BY DEF Orderable
  <2> QED BY <2>2, <2>3
<1>4. PICK d \in Depths(b) : \A e \in Depths(b) : e <= d
  <2> HIDE DEF Depths
  <2> QED BY <1>3, Numbers!GreatestExists
<1>5. Ids(b, d) \in SUBSET Int /\ Ids(b, d) # {} /\ \A i \in Ids(b, d) : 0 <= i
  <2>1. PICK n \in Lowest(b) : n.depth = d BY <1>4
  <2>2. n.id \in Ids(b, d) BY <2>1
  <2>3. \A i \in Ids(b, d) : i \in Int /\ 0 <= i BY DEF Orderable
  <2> QED BY <2>2, <2>3
<1>6. PICK i \in Ids(b, d) : \A j \in Ids(b, d) : i <= j
  <2> DEFINE ids == Ids(b, d)
  <2>1. ids \in SUBSET Int /\ ids # {} /\ 0 \in Int /\ \A j \in ids : 0 <= j BY <1>5
  <2> HIDE DEF ids
  <2>2. \E j \in ids : \A l \in ids : j <= l BY <2>1, Numbers!LeastExists
  <2> QED BY <2>2 DEF ids
<1>7. PICK n \in Deepest(b, d) : n.id = i BY <1>6
<1>8. \A other \in waiting \ {n} : Before(n, other)
  <2> TAKE other \in waiting \ {n}
  <2>1. b <= other.relaxation_bound BY <1>2
  <2>2. other.relaxation_bound = b => other.depth <= d BY <1>4
  <2>3. other.relaxation_bound = b /\ other.depth = d => i <= other.id BY <1>6
  <2>4. other.id # n.id BY <1>7 DEF Orderable
  <2> QED BY <1>7, <2>1, <2>2, <2>3, <2>4 DEF Before, Orderable
<1> QED BY <1>7, <1>8 DEF IsTop

\* best_bound is the bound of an open node, and the lowest one.
LEMMA BestBoundIsLowest ==
  ASSUME NEW waiting, waiting # {}, Orderable(waiting),
         NEW k \in Nat, \A n \in waiting : n.id < k
  PROVE  /\ \E n \in waiting : BestBound(waiting) = n.relaxation_bound
         /\ \A n \in waiting : BestBound(waiting) <= n.relaxation_bound
<1> DEFINE top == CHOOSE n \in waiting : IsTop(waiting, n)
<1>1. top \in waiting /\ IsTop(waiting, top) BY TopExists
<1>2. BestBound(waiting) = top.relaxation_bound BY DEF BestBound
<1> HIDE DEF top
<1>3. \A n \in waiting : top.relaxation_bound <= n.relaxation_bound
  BY <1>1 DEF IsTop, Before, Orderable
<1> QED BY <1>1, <1>2, <1>3

-----------------------------------------------------------------------------
(***************************************************************************)
(* The strengthening of TypeOK.                                            *)
(***************************************************************************)
Typed == TypeOK /\ PlaceOK /\ QueueWellFormed

-----------------------------------------------------------------------------
(***************************************************************************)
(* Facts about the constants and about the oracle's answers.               *)
(***************************************************************************)
LEMMA ModelFacts ==
  ASSUME NEW m \in Models
  PROVE  /\ ModelBounds(m)
         /\ \A p \in Points : /\ EvaluateObjective(m, p) \in Int
                              /\ -Inf < EvaluateObjective(m, p)
                              /\ EvaluateObjective(m, p) < Inf - AbsTol
                              /\ EvaluateObjective(m, p) < Inf
<1>1. AbsTol \in Nat /\ Inf \in Nat BY ToleranceAssumption, GridAssumption
<1> QED BY <1>1, ModelAssumption DEF ModelBounds

LEMMA NoNodeIsNone == NoNode \notin NodeSet
<1>1. NoNode.id = -1 BY DEF NoNode
<1>2. \A n \in NodeSet : n.id \in Nat BY DEF NodeSet
<1> QED BY <1>1, <1>2

LEMMA RootNodeTyped ==
  /\ RootNode \in NodeSet /\ RootNode # NoNode
  /\ RootNode.id = 0 /\ RootNode.depth = 0 /\ RootNode.parent_id = -1
  /\ RootNode.relaxation_bound = -Inf
  /\ RootNode.lower_overrides = <<>> /\ RootNode.upper_overrides = <<>>
<1>1. -Inf \in Int /\ 0 \in 0 .. NumVars BY GridAssumption, ValuesAssumption
<1>2. RootNode \in NodeSet BY <1>1 DEF RootNode, NodeSet
<1> QED BY <1>2, NoNodeIsNone DEF RootNode

\* The contract of the oracle, spelled out for one answer.
LEMMA AnswerFacts ==
  ASSUME NEW m, NEW rws, NEW lo, NEW hi, NEW r \in Answers(m, rws, lo, hi)
  PROVE  /\ r \in ReplySet
         /\ r.status = "Infeasible" =>
              \A p \in Points : ~IsFeasible(rws, p, lo, hi, 0)
         /\ r.status = "Optimal" /\ IsFeasible(rws, r.x, lo, hi, PrimalTol) =>
              \A p \in Points : IsFeasible(rws, p, lo, hi, 0) =>
                 EvaluateObjective(m, r.x) <= EvaluateObjective(m, p)
         /\ Finite(r.dual_bound) =>
              \A p \in Points : IsFeasible(rws, p, lo, hi, 0) =>
                 r.dual_bound <= EvaluateObjective(m, p)
         /\ Finite(r.dual_bound) /\ ~InexactBounds => r.status = "Optimal"
<1>1. -Inf \in Int /\ ~Finite(-Inf) BY GridAssumption DEF Finite
<1> DEFINE inside == {p \in Points : IsFeasible(rws, p, lo, hi, 0)}
           near == {p \in Points : IsFeasible(rws, p, lo, hi, PrimalTol)}
           AtMost(a) == \A p \in inside : a <= EvaluateObjective(m, p)
           exact == {p \in near : AtMost(EvaluateObjective(m, p))}
           bounds == {d \in DualValues : AtMost(d)}
           Kind(st, xs, ds) ==
             \E s \in st, x \in xs, d \in ds : r = [status |-> s, x |-> x, dual_bound |-> d]
<1>2. \/ Kind(IF inside = {} THEN {"Infeasible"} ELSE {}, {NoPoint}, {-Inf})
      \/ Kind(ExactStatuses, exact, bounds \cup {-Inf})
      \/ Kind(InexactStatuses, near, (IF InexactBounds THEN bounds ELSE {}) \cup {-Inf})
      \/ Kind(FailureStatuses, {NoPoint}, {-Inf})
      \/ Kind(ExactStatuses, (StrayPoints \ near) \cup {NoPoint}, {-Inf})
  BY DEF Answers
<1>3. CASE Kind(IF inside = {} THEN {"Infeasible"} ELSE {}, {NoPoint}, {-Inf})
  <2>1. inside = {} /\ r = [status |-> "Infeasible", x |-> NoPoint, dual_bound |-> -Inf]
    BY <1>3
  <2> QED BY <1>1, <2>1 DEF ReplySet
<1>4. CASE Kind(ExactStatuses, exact, bounds \cup {-Inf})
  <2>1. PICK x \in exact, d \in bounds \cup {-Inf} :
          r = [status |-> "Optimal", x |-> x, dual_bound |-> d]
    BY <1>4 DEF ExactStatuses
  <2>2. r \in ReplySet BY <1>1, <2>1, SolverAssumption DEF ReplySet, SolvedStatuses, ExactStatuses
  <2> QED BY <1>1, <2>1, <2>2
<1>5. CASE Kind(InexactStatuses, near, (IF InexactBounds THEN bounds ELSE {}) \cup {-Inf})
  <2>1. PICK s \in InexactStatuses, x \in near,
             d \in (IF InexactBounds THEN bounds ELSE {}) \cup {-Inf} :
          r = [status |-> s, x |-> x, dual_bound |-> d]
    BY <1>5
  <2>2. r \in ReplySet BY <1>1, <2>1, SolverAssumption DEF ReplySet, SolvedStatuses
  <2>3. r.status = s /\ s # "Infeasible" /\ s # "Optimal" BY <2>1, SolverAssumption
  <2> QED BY <1>1, <2>1, <2>2, <2>3
<1>6. CASE Kind(FailureStatuses, {NoPoint}, {-Inf})
  <2>1. PICK s \in FailureStatuses : r = [status |-> s, x |-> NoPoint, dual_bound |-> -Inf]
    BY <1>6
  <2>2. s # "Infeasible" /\ s # "Optimal" BY SolverAssumption
  <2> QED BY <1>1, <2>1, <2>2 DEF ReplySet
<1>7. CASE Kind(ExactStatuses, (StrayPoints \ near) \cup {NoPoint}, {-Inf})
  <2>1. PICK x \in (StrayPoints \ near) \cup {NoPoint} :
          r = [status |-> "Optimal", x |-> x, dual_bound |-> -Inf]
    BY <1>7 DEF ExactStatuses
  <2>2. r \in ReplySet BY <1>1, <2>1, SolverAssumption DEF ReplySet, SolvedStatuses, ExactStatuses
  <2>3. ~IsFeasible(rws, r.x, lo, hi, PrimalTol) BY <2>1, NotAPoint, SolverAssumption DEF IsFeasible
  <2> QED BY <1>1, <2>1, <2>2, <2>3
<1> QED BY <1>2, <1>3, <1>4, <1>5, <1>6, <1>7

-----------------------------------------------------------------------------
(***************************************************************************)
(* A node in hand with a usable relaxation: its bound and its children.    *)
(***************************************************************************)
Fathomable == Typed /\ pc = "fathom"

LEMMA FathomFacts ==
  ASSUME Fathomable
  PROVE  /\ model \in Models /\ node \in NodeSet /\ node \in Open
         /\ relaxation \in Answers(model, rows, lower, upper)
         /\ relaxation.status \in SolvedStatuses
         /\ relaxation.x \in Points /\ Usable
         /\ nodes_created \in Nat
         /\ node.id < nodes_created /\ node.depth <= node.id
         /\ NodeBound \in Int /\ -Inf <= NodeBound /\ NodeBound < Inf
<1>1. /\ model \in Models /\ node \in NodeSet /\ node \in Open
      /\ relaxation \in Answers(model, rows, lower, upper)
      /\ relaxation.status \in SolvedStatuses /\ Usable
      /\ nodes_created \in Nat
  BY DEF Fathomable, Typed, TypeOK, PlaceOK, InBody, Answered, Open
<1>2. relaxation \in ReplySet /\ relaxation.x \in Points
  BY <1>1, AnswerFacts DEF Usable, IsFeasible
<1>3. node.id < nodes_created /\ node.depth <= node.id
  BY <1>1 DEF Fathomable, Typed, QueueWellFormed
<1>4. /\ EvaluateObjective(model, relaxation.x) \in Int
      /\ -Inf < EvaluateObjective(model, relaxation.x)
      /\ EvaluateObjective(model, relaxation.x) < Inf
  BY <1>1, <1>2, ModelFacts
<1>5. relaxation.dual_bound \in Int /\ -Inf \in Int /\ -Inf < Inf
  BY <1>2, GridAssumption DEF ReplySet
<1>6. NodeBound \in Int /\ -Inf <= NodeBound /\ NodeBound < Inf
  BY <1>4, <1>5 DEF NodeBound, Finite
<1> QED BY <1>1, <1>2, <1>3, <1>6

LEMMA BranchVariable ==
  ASSUME Fathomable, NEW v \in BranchChoices(relaxation.x)
  PROVE  /\ v \in Vars /\ v \in IntegerVars(model)
         /\ relaxation.x[v] \in Values /\ relaxation.x[v] \in Int
         /\ Floor(relaxation.x[v]) \in Values /\ Ceil(relaxation.x[v]) \in Values
         /\ IntegralityViolation(relaxation.x[v]) > IntTol
<1>1. v \in Candidates(relaxation.x) BY DEF BranchChoices, MostFractional, Reliable
<1>2. v \in Vars BY <1>1 DEF Candidates, IntegerVars
<1>3. relaxation.x[v] \in Values BY <1>2, FathomFacts DEF Points
<1> QED BY <1>1, <1>2, <1>3, ValuesAssumption DEF Candidates

\* The two possible children, whatever their ids.
LEMMA ChildShape ==
  ASSUME Fathomable, NEW v \in BranchChoices(relaxation.x), NEW i \in Nat,
         NEW c, \/ c = DownChild(node, i, NodeBound, relaxation.x, v)
                \/ c = UpChild(node, i, NodeBound, relaxation.x, v)
  PROVE  /\ c \in NodeSet /\ c.id = i /\ c.parent_id = node.id
         /\ c.depth = node.depth + 1 /\ c.relaxation_bound = NodeBound
<1>1. /\ v \in Vars /\ Floor(relaxation.x[v]) \in Values /\ Ceil(relaxation.x[v]) \in Values
  BY BranchVariable
<1>2. /\ node \in NodeSet /\ NodeBound \in Int /\ relaxation.x \in Points
  BY FathomFacts
<1>3. v \in 0 .. NumVars BY <1>1, ValuesAssumption DEF Vars
<1> DEFINE x == relaxation.x
<1>4. \A dir \in {"Down", "Up"} :
         /\ Child(node, i, NodeBound, x, v, dir) \in NodeSet
         /\ Child(node, i, NodeBound, x, v, dir).id = i
         /\ Child(node, i, NodeBound, x, v, dir).parent_id = node.id
         /\ Child(node, i, NodeBound, x, v, dir).depth = node.depth + 1
         /\ Child(node, i, NodeBound, x, v, dir).relaxation_bound = NodeBound
  <2> TAKE dir \in {"Down", "Up"}
  <2> HIDE DEF x
  <2>1. x \in Points \cup {NoPoint} BY <1>2 DEF x
  <2>2. node.id \in Nat \cup {-1} /\ node.depth + 1 \in Nat BY <1>2 DEF NodeSet
  <2> QED BY <1>2, <1>3, <2>1, <2>2 DEF Child, NodeSet
<1>5. \A k \in NodeSet : \A a \in Values :
         /\ [k EXCEPT !.lower_overrides = Append(@, <<v, a>>)] \in NodeSet
         /\ [k EXCEPT !.upper_overrides = Append(@, <<v, a>>)] \in NodeSet
  <2> TAKE k \in NodeSet
  <2> TAKE a \in Values
  <2>1. /\ Append(k.lower_overrides, <<v, a>>) \in Seq(Vars \X Values)
        /\ Append(k.upper_overrides, <<v, a>>) \in Seq(Vars \X Values)
    BY <1>1 DEF NodeSet
  <2> QED BY <2>1 DEF NodeSet
<1>6. CASE c = DownChild(node, i, NodeBound, x, v)
  <2> DEFINE k == Child(node, i, NodeBound, x, v, "Down")
  <2>1. c = [k EXCEPT !.upper_overrides = Append(@, <<v, Floor(x[v])>>)] BY <1>6 DEF DownChild
  <2>2. k \in NodeSet BY <1>4
  <2>3. c \in NodeSet BY <1>1, <1>5, <2>1, <2>2
  <2>4. /\ c.id = k.id /\ c.parent_id = k.parent_id /\ c.depth = k.depth
        /\ c.relaxation_bound = k.relaxation_bound
    BY <2>1, <2>2 DEF NodeSet
  <2> QED BY <1>4, <2>3, <2>4
<1>7. CASE c = UpChild(node, i, NodeBound, x, v)
  <2> DEFINE k == Child(node, i, NodeBound, x, v, "Up")
  <2>1. c = [k EXCEPT !.lower_overrides = Append(@, <<v, Ceil(x[v])>>)] BY <1>7 DEF UpChild
  <2>2. k \in NodeSet BY <1>4
  <2>3. c \in NodeSet BY <1>1, <1>5, <2>1, <2>2
  <2>4. /\ c.id = k.id /\ c.parent_id = k.parent_id /\ c.depth = k.depth
        /\ c.relaxation_bound = k.relaxation_bound
    BY <2>1, <2>2 DEF NodeSet
  <2> QED BY <1>4, <2>3, <2>4
<1> QED BY <1>6, <1>7

\* Children are nodes with fresh ids, one level down.
LEMMA ChildrenFacts ==
  ASSUME Fathomable, NEW v \in BranchChoices(relaxation.x)
  PROVE  /\ Cardinality(Children(v)) \in Nat
         /\ \A c \in Children(v) :
              /\ c \in NodeSet /\ c.parent_id = node.id /\ c.depth = node.depth + 1
              /\ c.relaxation_bound = NodeBound
              /\ nodes_created <= c.id /\ c.id < nodes_created + Cardinality(Children(v))
         /\ \A c1, c2 \in Children(v) : c1.id = c2.id => c1 = c2
<1> DEFINE d == DownChild(node, nodes_created, NodeBound, relaxation.x, v)
           u(i) == UpChild(node, i, NodeBound, relaxation.x, v)
<1>1. nodes_created \in Nat BY FathomFacts
<1>2. /\ d \in NodeSet /\ d.id = nodes_created /\ d.parent_id = node.id
      /\ d.depth = node.depth + 1 /\ d.relaxation_bound = NodeBound
  BY <1>1, ChildShape
<1>3. \A i \in Nat : /\ u(i) \in NodeSet /\ u(i).id = i /\ u(i).parent_id = node.id
                     /\ u(i).depth = node.depth + 1 /\ u(i).relaxation_bound = NodeBound
  BY ChildShape
<1>4. Cardinality({}) = 0 /\ Cardinality({d}) = 1 BY FS_EmptySet, FS_Singleton
<1>5. Cardinality({u(nodes_created)}) = 1 BY FS_Singleton
<1>6. Cardinality({d, u(nodes_created + 1)}) = 2
  <2>1. IsFiniteSet({u(nodes_created + 1)}) /\ Cardinality({u(nodes_created + 1)}) = 1
    BY FS_Singleton
  <2>2. d \notin {u(nodes_created + 1)} BY <1>1, <1>2, <1>3
  <2>3. {u(nodes_created + 1)} \cup {d} = {d, u(nodes_created + 1)} OBVIOUS
  <2> HIDE DEF d, u
  <2> QED BY <2>1, <2>2, <2>3, FS_AddElement
<1>7. /\ Children(v) \in {{}, {d}, {u(nodes_created)}, {d, u(nodes_created + 1)}}
  <2>1. CASE Floor(relaxation.x[v]) >= lower[v]
    BY <1>4, <2>1 DEF Children
  <2>2. CASE ~(Floor(relaxation.x[v]) >= lower[v])
    <3>1. nodes_created + Cardinality({}) = nodes_created BY <1>1, <1>4
    <3> QED BY <2>2, <3>1 DEF Children
  <2> QED BY <2>1, <2>2
<1> HIDE DEF d, u
<1>8. nodes_created + 1 \in Nat BY <1>1
<1>9. CASE Children(v) = {} BY <1>4, <1>9
<1>10. CASE Children(v) = {d} BY <1>1, <1>2, <1>4, <1>10
<1>11. CASE Children(v) = {u(nodes_created)} BY <1>1, <1>3, <1>5, <1>11
<1>12. CASE Children(v) = {d, u(nodes_created + 1)}
  BY <1>1, <1>2, <1>3, <1>6, <1>8, <1>12
<1> QED BY <1>7, <1>9, <1>10, <1>11, <1>12

-----------------------------------------------------------------------------
(***************************************************************************)
(* Typed is inductive.                                                     *)
(***************************************************************************)
LEMMA QueueOrderable ==
  ASSUME Typed
  PROVE  /\ Orderable(queue) /\ nodes_created \in Nat
         /\ \A n \in queue : n.id < nodes_created
         /\ DualBound \in Int
<1>1. Orderable(queue) /\ nodes_created \in Nat /\ \A n \in queue : n.id < nodes_created
  <2>1. \A n \in queue : /\ n.id \in Nat /\ n.depth \in Nat /\ n.relaxation_bound \in Int
                         /\ n \in Open
    BY DEF Typed, TypeOK, NodeSet, Open
  <2> QED BY <2>1 DEF Typed, TypeOK, QueueWellFormed, Orderable
<1>2. CASE queue = {} BY <1>1, <1>2 DEF DualBound, Typed, TypeOK
<1>3. CASE queue # {}
  <2>1. PICK n \in queue : BestBound(queue) = n.relaxation_bound
    BY <1>1, <1>3, BestBoundIsLowest
  <2> QED BY <1>1, <1>3, <2>1 DEF DualBound, Orderable
<1> QED BY <1>1, <1>2, <1>3

LEMMA InitTyped == Init => Typed
<1> SUFFICES ASSUME Init PROVE Typed OBVIOUS
<1>1. Inf \in Int /\ -Inf \in Int BY GridAssumption
<1>2. TypeOK BY <1>1 DEF Init, TypeOK, Statuses, SolvedStatuses, ExactStatuses
<1>3. PlaceOK BY DEF Init, PlaceOK, InBody, Answered
<1>4. QueueWellFormed BY DEF Init, QueueWellFormed, Open
<1> QED BY <1>2, <1>3, <1>4 DEF Typed

LEMMA StatusFacts ==
  /\ SolvedStatuses \cup FailureStatuses \cup {"Infeasible", "NotSolved", "Optimal", "Feasible"}
       \subseteq Statuses
  /\ {"TimeLimit", "NodeLimit", "NumericalFailure", "InvalidModel", "UnsupportedModel"}
       \subseteq Statuses
BY DEF Statuses

LEMMA TypeStep == Typed /\ [Next]_vars => TypeOK'
<1> SUFFICES ASSUME Typed, [Next]_vars PROVE TypeOK' OBVIOUS
<1> USE DEF Typed, TypeOK
<1>1. CASE RejectModel BY <1>1, StatusFacts DEF RejectModel, search, best, knowledge
<1>2. CASE PushRoot
  <2>1. queue' \subseteq NodeSet /\ nodes_created' \in Nat BY <1>2, RootNodeTyped DEF PushRoot
  <2> QED BY <1>2, <2>1 DEF PushRoot, best, knowledge
<1>3. CASE SearchExhausted BY <1>3 DEF SearchExhausted, search, best, knowledge
<1>4. CASE TimeLimitReached BY <1>4, StatusFacts DEF TimeLimitReached, Stop, search, best, knowledge
<1>5. CASE NodeLimitReached BY <1>5, StatusFacts DEF NodeLimitReached, Stop, search, best, knowledge
<1>6. CASE PopNode BY <1>6 DEF PopNode, best, knowledge
<1>7. CASE SolveRelaxation
  <2>1. relaxation' \in ReplySet BY <1>7, AnswerFacts DEF SolveRelaxation
  <2> QED BY <1>7, <2>1 DEF SolveRelaxation, search, best, knowledge
<1>8. CASE NodeInfeasible BY <1>8 DEF NodeInfeasible, Resume, search, best, knowledge
<1>9. CASE RelaxationFailed
  <2>1. relaxation \in Answers(model, rows, lower, upper)
    BY <1>9 DEF RelaxationFailed, PlaceOK, Answered
  <2>2. relaxation.status \in Statuses BY <2>1, AnswerFacts, StatusFacts DEF ReplySet
  <2> QED BY <1>9, <2>2 DEF RelaxationFailed, Stop, search, best, knowledge
<1>10. CASE RelaxationInvalid BY <1>10, StatusFacts DEF RelaxationInvalid, Stop, search, best, knowledge
<1>11. CASE GenerateRootCuts
  <2>1. termination' \in Statuses /\ pc' \in {"bound", "resolve", "finish"}
    BY <1>11, StatusFacts DEF GenerateRootCuts, Stop
  <2> QED BY <1>11, <2>1 DEF GenerateRootCuts, search, best
<1>12. CASE AcceptRelaxation BY <1>12 DEF AcceptRelaxation, search, best, knowledge
<1>13. CASE RecordBound
  <2>1. all_bounds_certified' \in BOOLEAN BY <1>13 DEF RecordBound
  <2>2. observations' \in [Vars -> Nat \X Nat]
    <3>1. Observed \in [Vars -> Nat \X Nat] BY DEF Observed, Record
    <3> QED BY <1>13, <3>1 DEF RecordBound
  <2> QED BY <1>13, <2>1, <2>2 DEF RecordBound, search, best
<1>14. CASE PruneNode BY <1>14 DEF PruneNode, Resume, search, best, knowledge
<1>15. CASE AcceptIntegral
  <2>1. incumbent' \in Points \cup {NoPoint} /\ incumbent_objective' \in Int
    <3>1. Fathomable BY <1>15 DEF AcceptIntegral, Fathomable
    <3>2. relaxation.x \in Points /\ EvaluateObjective(model, relaxation.x) \in Int
      BY <3>1, FathomFacts, ModelFacts
    <3> QED BY <1>15, <3>2 DEF AcceptIntegral, UpdateIncumbent, best
  <2> QED BY <1>15, <2>1 DEF AcceptIntegral, search, knowledge
<1>16. CASE BranchNode \/ NoBranch
  <2>0. Fathomable BY <1>16 DEF BranchNode, NoBranch, Fathomable
  <2>1. incumbent' \in Points \cup {NoPoint} /\ incumbent_objective' \in Int
    <3>1. RoundingSucceeds(relaxation.x) =>
             /\ Rounded(relaxation.x) \in Points
             /\ EvaluateObjective(model, Rounded(relaxation.x)) \in Int
      BY ModelFacts DEF RoundingSucceeds, IsFeasible
    <3>2. TryRounding BY <1>16 DEF BranchNode, NoBranch
    <3> QED BY <3>1, <3>2 DEF TryRounding, UpdateIncumbent, best
  <2>2. CASE BranchNode
    <3>1. PICK v \in BranchChoices(relaxation.x) :
            /\ queue' = queue \cup Children(v)
            /\ nodes_created' = nodes_created + Cardinality(Children(v))
      BY <2>2 DEF BranchNode
    <3>2. queue' \subseteq NodeSet /\ nodes_created' \in Nat
      BY <2>0, <3>1, ChildrenFacts
    <3> QED BY <2>1, <2>2, <3>2 DEF BranchNode, knowledge
  <2>3. CASE NoBranch BY <2>1, <2>3, StatusFacts DEF NoBranch, Stop, search, knowledge
  <2> QED BY <1>16, <2>2, <2>3
<1>17. CASE TestGap
  <2>1. termination' \in Statuses /\ pc' \in {"loop", "finish"} /\ node' = NoNode
        /\ relaxation' = NoReply
    BY <1>17, StatusFacts DEF TestGap, Resume
  <2> QED BY <1>17, <2>1 DEF TestGap, search, best, knowledge
<1>18. CASE Report
  <2>1. FinalStatus \in Statuses BY StatusFacts DEF FinalStatus, Conclusion
  <2>2. DualBound \in Int BY QueueOrderable
  <2> QED BY <1>18, <2>1, <2>2 DEF Report, search, best, knowledge
<1>19. CASE Returned BY <1>19 DEF Returned, vars
<1>20. CASE UNCHANGED vars BY <1>20 DEF vars
<1> QED
  BY <1>1, <1>2, <1>3, <1>4, <1>5, <1>6, <1>7, <1>8, <1>9, <1>10, <1>11, <1>12,
     <1>13, <1>14, <1>15, <1>16, <1>17, <1>18, <1>19, <1>20 DEF Next

LEMMA PlaceStep == Typed /\ [Next]_vars => PlaceOK'
<1> SUFFICES ASSUME Typed, [Next]_vars PROVE PlaceOK' OBVIOUS
<1> USE DEF Typed, PlaceOK, InBody, Answered
\* What stays true while the model, the node, the rows and the answer stay.
<1>0. /\ UNCHANGED model => Acceptable' = Acceptable
      /\ UNCHANGED <<model, node>> => lower' = lower /\ upper' = upper
      /\ UNCHANGED <<model, node, rows, relaxation>> =>
           /\ Usable' = Usable /\ BoundCertified' = BoundCertified
           /\ (relaxation \in Answers(model, rows, lower, upper))'
                = (relaxation \in Answers(model, rows, lower, upper))
  BY DEF Acceptable, lower, upper, Usable, BoundCertified
<1>1. CASE RejectModel BY <1>1 DEF RejectModel
<1>2. CASE PushRoot BY <1>0, <1>2 DEF PushRoot
<1>3. CASE SearchExhausted BY <1>0, <1>3 DEF SearchExhausted
<1>4. CASE TimeLimitReached BY <1>0, <1>4 DEF TimeLimitReached, Stop
<1>5. CASE NodeLimitReached BY <1>0, <1>5 DEF NodeLimitReached, Stop
<1>6. CASE PopNode
  <2>1. PICK n \in queue : IF BoxEmpty(n) THEN UNCHANGED <<node, pc>>
                                          ELSE node' = n /\ pc' = "solve"
    BY <1>6 DEF PopNode
  <2>2. n # NoNode BY <2>1, NoNodeIsNone DEF TypeOK
  <2> QED BY <1>0, <1>6, <2>1, <2>2 DEF PopNode
<1>7. CASE SolveRelaxation
  <2>1. (relaxation \in Answers(model, rows, lower, upper))'
    BY <1>0, <1>7 DEF SolveRelaxation
  <2> QED BY <1>0, <1>7, <2>1 DEF SolveRelaxation
<1>8. CASE NodeInfeasible BY <1>0, <1>8 DEF NodeInfeasible, Resume
<1>9. CASE RelaxationFailed BY <1>0, <1>9 DEF RelaxationFailed, Stop
<1>10. CASE RelaxationInvalid BY <1>0, <1>10 DEF RelaxationInvalid, Stop
<1>11. CASE GenerateRootCuts
  <2>1. PICK cuts : \/ cuts = {} /\ rows' = rows /\ pc' = "bound"
                    \/ pc' = "resolve"
                    \/ pc' = "finish"
    BY <1>11 DEF GenerateRootCuts, Stop
  <2>2. Acceptable /\ node # NoNode /\ relaxation.status \in SolvedStatuses /\ Usable
        /\ UNCHANGED <<model, node, relaxation>>
        /\ relaxation \in Answers(model, rows, lower, upper)
    BY <1>11 DEF GenerateRootCuts
  <2> QED BY <1>0, <2>1, <2>2
<1>12. CASE AcceptRelaxation BY <1>0, <1>12 DEF AcceptRelaxation
<1>13. CASE RecordBound
  <2>1. all_bounds_certified' => BoundCertified BY <1>13 DEF RecordBound
  <2>2. /\ Acceptable /\ node # NoNode /\ relaxation.status \in SolvedStatuses /\ Usable
        /\ relaxation \in Answers(model, rows, lower, upper)
    BY <1>13 DEF RecordBound
  <2>3. pc' = "fathom" /\ UNCHANGED <<model, node, rows, relaxation>> BY <1>13 DEF RecordBound
  <2> QED BY <1>0, <2>1, <2>2, <2>3
<1>14. CASE PruneNode BY <1>0, <1>14 DEF PruneNode, Resume
<1>15. CASE AcceptIntegral \/ BranchNode
  <2>1. Fathomable BY <1>15 DEF AcceptIntegral, BranchNode, Fathomable
  <2>2. relaxation \in ReplySet /\ relaxation.x \in Points BY <2>1, FathomFacts, AnswerFacts
  <2> QED BY <1>0, <1>15, <2>2 DEF AcceptIntegral, BranchNode
<1>16. CASE NoBranch BY <1>0, <1>16 DEF NoBranch, Stop
<1>17. CASE TestGap BY <1>0, <1>17 DEF TestGap, Resume
<1>18. CASE Report BY <1>18 DEF Report
<1>19. CASE Returned \/ UNCHANGED vars BY <1>0, <1>19 DEF Returned, vars
<1> QED
  BY <1>1, <1>2, <1>3, <1>4, <1>5, <1>6, <1>7, <1>8, <1>9, <1>10, <1>11, <1>12,
     <1>13, <1>14, <1>15, <1>16, <1>17, <1>18, <1>19 DEF Next

LEMMA QueueStep == Typed /\ [Next]_vars => QueueWellFormed'
<1> SUFFICES ASSUME Typed, [Next]_vars PROVE QueueWellFormed' OBVIOUS
<1> USE DEF Typed, QueueWellFormed, Open
<1>1. CASE UNCHANGED <<queue, node, nodes_created>> BY <1>1
<1>2. CASE PushRoot
  <2>1. node = NoNode BY <1>2 DEF PushRoot, PlaceOK
  <2>2. -Inf < Inf /\ -Inf \in Int /\ Inf \in Int BY GridAssumption
  <2> QED BY <1>2, <2>1, <2>2, RootNodeTyped DEF PushRoot
<1>3. CASE PopNode
  <2>1. PICK n \in queue : /\ queue' = queue \ {n}
                           /\ node' = node \/ node' = n
    BY <1>3 DEF PopNode
  <2>2. nodes_created' = nodes_created BY <1>3 DEF PopNode
  <2>3. NoNode \notin queue BY NoNodeIsNone DEF TypeOK
  <2>4. node' \notin queue'
    <3>1. node \notin queue BY DEF Typed, QueueWellFormed
    <3> QED BY <2>1, <3>1
  <2>5. Open' \subseteq Open BY <2>1
  <2> QED BY <2>2, <2>4, <2>5
<1>4. CASE queue' = queue /\ node' = NoNode /\ nodes_created' = nodes_created
  BY <1>4, NoNodeIsNone DEF TypeOK
<1>5. CASE BranchNode
  <2>0. Fathomable BY <1>5 DEF BranchNode, Fathomable
  <2>1. PICK v \in BranchChoices(relaxation.x) :
          /\ queue' = queue \cup Children(v)
          /\ nodes_created' = nodes_created + Cardinality(Children(v))
    BY <1>5 DEF BranchNode
  <2>2. node' = NoNode BY <1>5 DEF BranchNode
  <2>3. /\ \A c \in Children(v) :
              /\ c \in NodeSet /\ c.depth = node.depth + 1 /\ c.relaxation_bound = NodeBound
              /\ nodes_created <= c.id /\ c.id < nodes_created'
        /\ \A c1, c2 \in Children(v) : c1.id = c2.id => c1 = c2
        /\ nodes_created \in Nat /\ nodes_created' \in Nat /\ nodes_created <= nodes_created'
    BY <2>0, <2>1, ChildrenFacts, FathomFacts
  <2>4. /\ node.depth \in Nat /\ node.id \in Nat /\ node.depth <= node.id
        /\ node.id < nodes_created /\ NodeBound \in Int /\ -Inf <= NodeBound /\ NodeBound < Inf
    BY <2>0, FathomFacts DEF NodeSet
  <2>5. \A n \in queue : n \in NodeSet /\ n.id \in Nat BY DEF TypeOK, NodeSet
  <2>6. \A n \in queue' : /\ n.id < nodes_created' /\ n.depth <= n.id
                          /\ -Inf <= n.relaxation_bound /\ n.relaxation_bound < Inf
    <3>1. \A c \in Children(v) : c.id \in Nat BY <2>3 DEF NodeSet
    <3> QED BY <2>1, <2>3, <2>4, <2>5, <3>1
  <2>7. \A n1, n2 \in queue' : n1.id = n2.id => n1 = n2
    <3>1. \A c \in Children(v) : c.id \in Nat BY <2>3 DEF NodeSet
    <3> QED BY <2>1, <2>3, <2>5, <3>1
  <2>8. NoNode \notin queue' BY <2>1, <2>3, <2>5, NoNodeIsNone
  <2> QED BY <2>2, <2>6, <2>7, <2>8
<1>6. UNCHANGED <<queue, node, nodes_created>> \/ PushRoot \/ PopNode \/ BranchNode
      \/ (queue' = queue /\ node' = NoNode /\ nodes_created' = nodes_created)
  BY DEF Next, vars, search, RejectModel, SearchExhausted, TimeLimitReached,
     NodeLimitReached, SolveRelaxation, NodeInfeasible, RelaxationFailed,
     RelaxationInvalid, GenerateRootCuts, AcceptRelaxation, RecordBound, PruneNode,
     AcceptIntegral, NoBranch, TestGap, Report, Returned, Resume
<1> QED BY <1>1, <1>2, <1>3, <1>4, <1>5, <1>6

-----------------------------------------------------------------------------
\* Whatever the model and the oracle, every variable of the solve keeps its
\* type, every place of the loop body has what it needs and node ids are
\* unique.
THEOREM TypeCorrect == Spec => [](TypeOK /\ PlaceOK /\ QueueWellFormed)
<1>1. Init => Typed BY InitTyped
<1>2. Typed /\ [Next]_vars => Typed' BY TypeStep, PlaceStep, QueueStep DEF Typed
<1>3. Typed => TypeOK /\ PlaceOK /\ QueueWellFormed BY DEF Typed
<1> QED BY <1>1, <1>2, <1>3, PTL DEF Spec

-----------------------------------------------------------------------------
(***************************************************************************)
(* What a step does to the open nodes and to the incumbent.                *)
(***************************************************************************)
LEMMA ModelNeverChanges == [Next]_vars => model' = model
BY DEF Next, vars, RejectModel, PushRoot, SearchExhausted, TimeLimitReached,
   NodeLimitReached, PopNode, SolveRelaxation, NodeInfeasible, RelaxationFailed,
   RelaxationInvalid, GenerateRootCuts, AcceptRelaxation, RecordBound, PruneNode,
   AcceptIntegral, BranchNode, NoBranch, TestGap, Report, Returned

\* One node leaves the search without children.
Drops(n) == n \in Open /\ Open' = Open \ {n}

\* The open nodes change by the root, by dropping a node or by branching.
LEMMA OpenSteps ==
  ASSUME Typed, [Next]_vars
  PROVE  \/ Open' = Open
         \/ PushRoot /\ Open = {} /\ Open' = {RootNode}
         \/ PopNode /\ \E n \in queue : BoxEmpty(n) /\ Drops(n)
         \/ (NodeInfeasible \/ PruneNode \/ AcceptIntegral) /\ Drops(node)
         \/ /\ BranchNode /\ Fathomable
            /\ \E v \in BranchChoices(relaxation.x) :
                  Open' = (Open \ {node}) \cup Children(v)
<1> USE DEF Typed
<1>0. NoNode \notin queue BY NoNodeIsNone DEF TypeOK
<1>1. CASE PushRoot
  <2>1. node = NoNode /\ queue = {} /\ node' = node /\ queue' = {RootNode}
    BY <1>1 DEF PushRoot, PlaceOK
  <2> QED BY <1>1, <2>1, RootNodeTyped DEF Open
<1>2. CASE PopNode
  <2>1. node = NoNode BY <1>2 DEF PopNode, PlaceOK
  <2>2. PICK n \in queue : /\ queue' = queue \ {n}
                           /\ IF BoxEmpty(n) THEN node' = node ELSE node' = n
    BY <1>2 DEF PopNode
  <2>3. CASE BoxEmpty(n) BY <1>2, <2>1, <2>2, <2>3 DEF Open, Drops
  <2>4. CASE ~BoxEmpty(n)
    <3>1. Open = queue BY <2>1 DEF Open
    <3>2. Open' = (queue \ {n}) \cup {n} BY <1>0, <2>2, <2>4 DEF Open
    <3> QED BY <3>1, <3>2
  <2> QED BY <2>3, <2>4
<1>3. CASE NodeInfeasible \/ PruneNode \/ AcceptIntegral
  <2>1. node # NoNode /\ node \notin queue
    BY <1>3 DEF NodeInfeasible, PruneNode, AcceptIntegral, PlaceOK, InBody, QueueWellFormed
  <2>2. node' = NoNode /\ queue' = queue
    BY <1>3 DEF NodeInfeasible, PruneNode, AcceptIntegral, Resume, search
  <2>3. Open = queue \cup {node} /\ Open' = queue BY <2>1, <2>2 DEF Open
  <2> QED BY <1>3, <2>1, <2>3 DEF Drops
<1>4. CASE BranchNode
  <2>1. Fathomable /\ node # NoNode /\ node \notin queue /\ node' = NoNode
    BY <1>4 DEF BranchNode, Fathomable, PlaceOK, InBody, QueueWellFormed
  <2>2. PICK v \in BranchChoices(relaxation.x) : queue' = queue \cup Children(v)
    BY <1>4 DEF BranchNode
  <2>3. NoNode \notin queue' BY <1>0, <2>1, <2>2, ChildrenFacts, NoNodeIsNone
  <2>4. Open = queue \cup {node} /\ Open' = queue' BY <2>1, <2>3 DEF Open
  <2> QED BY <1>4, <2>1, <2>2, <2>4
<1>5. CASE TestGap
  <2>1. node = NoNode BY <1>5 DEF TestGap, PlaceOK
  <2> QED BY <1>5, <2>1 DEF TestGap, Resume, search, Open
<1>6. CASE UNCHANGED <<queue, node>> BY <1>6 DEF Open
<1>7. \/ PushRoot \/ PopNode \/ NodeInfeasible \/ PruneNode \/ AcceptIntegral
      \/ BranchNode \/ TestGap \/ UNCHANGED <<queue, node>>
  BY DEF Next, vars, search, RejectModel, SearchExhausted, TimeLimitReached,
     NodeLimitReached, SolveRelaxation, RelaxationFailed, RelaxationInvalid,
     GenerateRootCuts, AcceptRelaxation, RecordBound, NoBranch, Report, Returned
<1> QED BY <1>1, <1>2, <1>3, <1>4, <1>5, <1>6, <1>7

\* A search that works on an accepted model began with PushRoot.
LEMMA AcceptedSteps ==
  ASSUME Typed, [Next]_vars
  PROVE  /\ Accepted /\ PushRoot => FALSE
         /\ Accepted' => Accepted \/ PushRoot
         /\ Accepted => Accepted'
         /\ PushRoot \/ NodeInfeasible \/ PruneNode \/ AcceptIntegral \/ PopNode \/ BranchNode
              => Acceptable
<1>1. Acceptable' = Acceptable BY ModelNeverChanges DEF Acceptable
<1>2. pc = "entry" /\ Next => RejectModel \/ PushRoot
  BY DEF Next, SearchExhausted, TimeLimitReached, NodeLimitReached, PopNode,
     SolveRelaxation, NodeInfeasible, RelaxationFailed, RelaxationInvalid,
     GenerateRootCuts, AcceptRelaxation, RecordBound, PruneNode, AcceptIntegral,
     BranchNode, NoBranch, TestGap, Report, Returned
<1>3. pc # "entry" => pc' # "entry"
  BY DEF Next, vars, RejectModel, PushRoot, SearchExhausted, TimeLimitReached,
     NodeLimitReached, PopNode, SolveRelaxation, NodeInfeasible, RelaxationFailed,
     RelaxationInvalid, GenerateRootCuts, AcceptRelaxation, RecordBound, PruneNode,
     AcceptIntegral, BranchNode, NoBranch, TestGap, Report, Returned, Resume, Stop
<1>4. RejectModel => ~Acceptable BY DEF RejectModel
<1>5. PushRoot => pc = "entry" /\ Acceptable BY DEF PushRoot
<1>6. NodeInfeasible \/ PruneNode \/ AcceptIntegral \/ PopNode \/ BranchNode => Acceptable
  BY DEF Typed, PlaceOK, NodeInfeasible, PruneNode, AcceptIntegral, PopNode, BranchNode
<1>7. UNCHANGED vars => pc' = pc BY DEF vars
<1> QED BY <1>1, <1>2, <1>3, <1>4, <1>5, <1>6, <1>7 DEF Accepted

LEMMA PushRootFacts ==
  ASSUME Typed, PushRoot
  PROVE  /\ ~Accepted /\ Open = {} /\ Open' = {RootNode}
         /\ Acceptable /\ incumbent = NoPoint /\ incumbent' = NoPoint
<1>1. /\ pc = "entry" /\ node = NoNode /\ queue = {} /\ node' = node /\ queue' = {RootNode}
      /\ Acceptable /\ incumbent = NoPoint /\ incumbent' = incumbent
  BY DEF PushRoot, Typed, PlaceOK, best
<1> QED BY <1>1, RootNodeTyped DEF Open, Accepted

\* The only points that become incumbent: the relaxation's, when integral, or
\* its rounding.  The incumbent only improves.
Candidate(x) ==
    /\ pc = "fathom" /\ IsIntegerFeasible(model, x, IntTol)
    /\ IsFeasible(rows, x, lower, upper, PrimalTol)
LEMMA IncumbentSteps ==
  ASSUME Typed, [Next]_vars
  PROVE  /\ UNCHANGED best \/ \E x \in Points :
               /\ Candidate(x) /\ Objective(x) < incumbent_objective
               /\ incumbent' = x /\ incumbent_objective' = Objective(x)
         /\ AcceptIntegral => incumbent_objective' <= Objective(relaxation.x)
         /\ incumbent_objective' <= incumbent_objective
<1> USE DEF Typed
<1>0. /\ incumbent_objective \in Int /\ model \in Models
      /\ \A x \in Points : Objective(x) \in Int
  BY ModelFacts DEF TypeOK, Objective
<1>1. CASE AcceptIntegral
  <2>1. Fathomable /\ Usable /\ relaxation.x \in Points
    BY <1>1, FathomFacts DEF AcceptIntegral, Fathomable
  <2>2. Candidate(relaxation.x)
    BY <1>1, <2>1 DEF AcceptIntegral, Integral, Candidate, Usable
  <2> QED BY <1>0, <1>1, <2>1, <2>2 DEF AcceptIntegral, UpdateIncumbent, best, Objective
<1>2. CASE BranchNode \/ NoBranch
  <2>1. TryRounding /\ pc = "fathom" /\ ~AcceptIntegral
    BY <1>2 DEF BranchNode, NoBranch, AcceptIntegral
  <2>2. RoundingSucceeds(relaxation.x) =>
          Candidate(Rounded(relaxation.x)) /\ Rounded(relaxation.x) \in Points
    BY <2>1 DEF RoundingSucceeds, Candidate, IsFeasible
  <2> QED BY <1>0, <2>1, <2>2 DEF TryRounding, UpdateIncumbent, best, Objective
<1>3. CASE UNCHANGED best /\ ~AcceptIntegral BY <1>0, <1>3 DEF best
<1>4. AcceptIntegral \/ BranchNode \/ NoBranch \/ UNCHANGED best
  BY DEF Next, vars, best, RejectModel, PushRoot, SearchExhausted, TimeLimitReached,
     NodeLimitReached, PopNode, SolveRelaxation, NodeInfeasible, RelaxationFailed,
     RelaxationInvalid, GenerateRootCuts, AcceptRelaxation, RecordBound, PruneNode,
     TestGap, Report, Returned
<1> QED BY <1>1, <1>2, <1>3, <1>4

-----------------------------------------------------------------------------
(***************************************************************************)
(* Branching: the children partition the integral points of the node.      *)
(***************************************************************************)
\* The box of a typed node is made of numbers.
LEMMA BoxTyped ==
  ASSUME NEW m \in Models, NEW n \in NodeSet, NEW v \in Vars
  PROVE  /\ EffectiveLower(m, n)[v] \in Int /\ EffectiveUpper(m, n)[v] \in Int
         /\ m.lower[v] \in Int /\ m.lower[v] <= EffectiveLower(m, n)[v]
         /\ m.upper[v] \in Int /\ EffectiveUpper(m, n)[v] <= m.upper[v]
<1>1. ModelBounds(m) BY ModelFacts
<1>2. n.lower_overrides \in BoundLists /\ n.upper_overrides \in BoundLists
  BY DEF NodeSet, BoundLists
<1>3. m.lower[v] \in Int /\ m.upper[v] \in Int
  BY <1>1, ValuesAssumption, GridAssumption DEF ModelBounds
<1> QED BY <1>1, <1>2, <1>3, LowerBox, UpperBox

\* The box of the down child: the node's below the floor.
LEMMA DownBox ==
  ASSUME Fathomable, NEW v \in BranchChoices(relaxation.x), NEW i \in Nat,
         NEW w \in Vars, NEW b \in Int
  PROVE  LET c == DownChild(node, i, NodeBound, relaxation.x, v)
         IN  /\ EffectiveLower(model, c)[w] = lower[w]
             /\ b <= EffectiveUpper(model, c)[w] <=>
                  b <= upper[w] /\ (w = v => b <= Floor(relaxation.x[v]))
<1> DEFINE c == DownChild(node, i, NodeBound, relaxation.x, v)
           a == Floor(relaxation.x[v])
<1>1. v \in Vars /\ a \in Values BY BranchVariable
<1>2. ModelBounds(model) /\ node \in NodeSet BY FathomFacts, ModelFacts
<1>3. node.upper_overrides \in BoundLists BY <1>2 DEF NodeSet, BoundLists
<1>4. /\ c.upper_overrides = Append(node.upper_overrides, <<v, a>>)
      /\ c.lower_overrides = node.lower_overrides
  BY <1>2 DEF DownChild, Child, NodeSet
<1> HIDE DEF c, a
<1>5. b <= EffectiveUpper(model, c)[w] <=>
         b <= EffectiveUpper(model, node)[w] /\ (w = v => b <= a)
  <2>1. \A k : k.upper_overrides = Append(node.upper_overrides, <<v, a>>) =>
          (b <= EffectiveUpper(model, k)[w] <=>
             b <= EffectiveUpper(model, node)[w] /\ (w = v => b <= a))
    BY <1>1, <1>2, <1>3, TightenUpper
  <2> QED BY <1>4, <2>1
<1>6. EffectiveLower(model, c)[w] = EffectiveLower(model, node)[w]
  BY <1>4 DEF EffectiveLower
<1> QED BY <1>5, <1>6 DEF c, a, lower, upper

\* The box of the up child: the node's above the ceiling.
LEMMA UpBox ==
  ASSUME Fathomable, NEW v \in BranchChoices(relaxation.x), NEW i \in Nat,
         NEW w \in Vars, NEW b \in Int
  PROVE  LET c == UpChild(node, i, NodeBound, relaxation.x, v)
         IN  /\ EffectiveUpper(model, c)[w] = upper[w]
             /\ EffectiveLower(model, c)[w] <= b <=>
                  lower[w] <= b /\ (w = v => Ceil(relaxation.x[v]) <= b)
<1> DEFINE c == UpChild(node, i, NodeBound, relaxation.x, v)
           a == Ceil(relaxation.x[v])
<1>1. v \in Vars /\ a \in Values BY BranchVariable
<1>2. ModelBounds(model) /\ node \in NodeSet BY FathomFacts, ModelFacts
<1>3. node.lower_overrides \in BoundLists BY <1>2 DEF NodeSet, BoundLists
<1>4. /\ c.lower_overrides = Append(node.lower_overrides, <<v, a>>)
      /\ c.upper_overrides = node.upper_overrides
  BY <1>2 DEF UpChild, Child, NodeSet
<1> HIDE DEF c, a
<1>5. EffectiveLower(model, c)[w] <= b <=>
         EffectiveLower(model, node)[w] <= b /\ (w = v => a <= b)
  BY <1>1, <1>2, <1>3, <1>4, TightenLower
<1>6. EffectiveUpper(model, c)[w] = EffectiveUpper(model, node)[w]
  BY <1>4 DEF EffectiveUpper
<1> QED BY <1>5, <1>6 DEF c, a, lower, upper

\* The children that are pushed, with the ids left open.
LEMMA ChildCases ==
  ASSUME Fathomable, NEW v \in BranchChoices(relaxation.x)
  PROVE  /\ Floor(relaxation.x[v]) >= lower[v] =>
              DownChild(node, nodes_created, NodeBound, relaxation.x, v) \in Children(v)
         /\ Ceil(relaxation.x[v]) <= upper[v] =>
              \E i \in Nat : UpChild(node, i, NodeBound, relaxation.x, v) \in Children(v)
         /\ \A c \in Children(v) :
              \/ /\ Floor(relaxation.x[v]) >= lower[v]
                 /\ c = DownChild(node, nodes_created, NodeBound, relaxation.x, v)
              \/ /\ Ceil(relaxation.x[v]) <= upper[v]
                 /\ \E i \in Nat : c = UpChild(node, i, NodeBound, relaxation.x, v)
         /\ \A c1, c2 \in Children(v) : c1 # c2 =>
              \E i \in Nat :
                 {c1, c2} = {DownChild(node, nodes_created, NodeBound, relaxation.x, v),
                             UpChild(node, i, NodeBound, relaxation.x, v)}
<1> DEFINE d == DownChild(node, nodes_created, NodeBound, relaxation.x, v)
           u(i) == UpChild(node, i, NodeBound, relaxation.x, v)
           down == IF Floor(relaxation.x[v]) >= lower[v] THEN {d} ELSE {}
           i0 == nodes_created + Cardinality(down)
<1>1. nodes_created \in Nat BY FathomFacts
<1>2. Cardinality(down) \in Nat
  <2>1. Cardinality({}) = 0 /\ Cardinality({d}) = 1 BY FS_EmptySet, FS_Singleton
  <2>2. down = {} \/ down = {d} OBVIOUS
  <2> QED BY <2>1, <2>2
<1>3. i0 \in Nat BY <1>1, <1>2
<1>4. Children(v) = down \cup (IF Ceil(relaxation.x[v]) <= upper[v] THEN {u(i0)} ELSE {})
  BY DEF Children
<1> HIDE DEF i0, d, u
<1> QED BY <1>3, <1>4 DEF d, u

\* A child's box is not empty, and inside the node's.
LEMMA ChildInside ==
  ASSUME Fathomable, NEW v \in BranchChoices(relaxation.x), NEW c \in Children(v)
  PROVE  /\ \A p \in Points : InBox(p, c) => InBox(p, node)
         /\ (\A w \in Vars : lower[w] <= upper[w]) =>
               \A w \in Vars : EffectiveLower(model, c)[w] <= EffectiveUpper(model, c)[w]
<1> DEFINE x == relaxation.x
<1>1. /\ v \in Vars /\ Floor(x[v]) \in Int /\ Ceil(x[v]) \in Int
  BY BranchVariable, ValuesAssumption
<1>2. /\ model \in Models /\ node \in NodeSet /\ c \in NodeSet
  BY FathomFacts, ChildrenFacts
<1>3. \A w \in Vars : /\ lower[w] \in Int /\ upper[w] \in Int
                      /\ EffectiveLower(model, c)[w] \in Int
                      /\ EffectiveUpper(model, c)[w] \in Int
  BY <1>2, BoxTyped DEF lower, upper
<1>4. \A p \in Points : \A w \in Vars : p[w] \in Int BY ValuesAssumption DEF Points
<1>5. /\ \A w \in Vars : /\ lower[w] <= EffectiveLower(model, c)[w]
                         /\ EffectiveUpper(model, c)[w] <= upper[w]
      /\ (\A w \in Vars : lower[w] <= upper[w]) =>
            \A w \in Vars : EffectiveLower(model, c)[w] <= EffectiveUpper(model, c)[w]
  <2>1. CASE /\ Floor(x[v]) >= lower[v]
             /\ c = DownChild(node, nodes_created, NodeBound, x, v)
    <3>1. nodes_created \in Nat BY FathomFacts
    <3>2. \A w \in Vars : \A b \in Int :
             /\ EffectiveLower(model, c)[w] = lower[w]
             /\ b <= EffectiveUpper(model, c)[w] <=> b <= upper[w] /\ (w = v => b <= Floor(x[v]))
      BY <2>1, <3>1, DownBox
    <3> HIDE DEF x
    <3>3. \A w \in Vars : /\ EffectiveLower(model, c)[w] = lower[w]
                          /\ EffectiveUpper(model, c)[w] <= upper[w]
      BY <1>3, <3>2
    <3>4. \A w \in Vars : lower[w] <= upper[w] => lower[w] <= EffectiveUpper(model, c)[w]
      BY <1>1, <1>3, <2>1, <3>2
    <3> QED BY <1>3, <3>3, <3>4
  <2>2. CASE /\ Ceil(x[v]) <= upper[v]
             /\ \E i \in Nat : c = UpChild(node, i, NodeBound, x, v)
    <3>2. \A w \in Vars : \A b \in Int :
             /\ EffectiveUpper(model, c)[w] = upper[w]
             /\ EffectiveLower(model, c)[w] <= b <=> lower[w] <= b /\ (w = v => Ceil(x[v]) <= b)
      BY <2>2, UpBox
    <3> HIDE DEF x
    <3>3. \A w \in Vars : /\ EffectiveUpper(model, c)[w] = upper[w]
                          /\ lower[w] <= EffectiveLower(model, c)[w]
      BY <1>3, <3>2
    <3>4. \A w \in Vars : lower[w] <= upper[w] => EffectiveLower(model, c)[w] <= upper[w]
      BY <1>1, <1>3, <2>2, <3>2
    <3> QED BY <1>3, <3>3, <3>4
  <2> QED BY <2>1, <2>2, ChildCases
<1>6. \A p \in Points : InBox(p, c) => InBox(p, node)
  <2> SUFFICES ASSUME NEW p \in Points, InBox(p, c), NEW w \in Vars
               PROVE  lower[w] - 0 <= p[w] /\ p[w] <= upper[w] + 0
    BY DEF InBox, WithinBounds, lower, upper
  <2>1. EffectiveLower(model, c)[w] - 0 <= p[w] /\ p[w] <= EffectiveUpper(model, c)[w] + 0
    BY DEF InBox, WithinBounds
  <2> QED BY <1>3, <1>4, <1>5, <2>1
<1> QED BY <1>5, <1>6

\* Every integral point of the node is in a child's box, and in only one.
IntegralPoint(p) == p \in Points /\ IsIntegerFeasible(model, p, 0)
LEMMA ChildrenPartition ==
  ASSUME Fathomable, NEW v \in BranchChoices(relaxation.x), NEW p, IntegralPoint(p)
  PROVE  /\ InBox(p, node) => \E c \in Children(v) : InBox(p, c)
         /\ \A c1, c2 \in Children(v) : c1 # c2 => ~(InBox(p, c1) /\ InBox(p, c2))
<1> DEFINE x == relaxation.x
<1>1. /\ v \in Vars /\ v \in IntegerVars(model) /\ x[v] \in Int
      /\ Floor(x[v]) \in Int /\ Ceil(x[v]) \in Int
      /\ IntegralityViolation(x[v]) > IntTol
  BY BranchVariable, ValuesAssumption
<1>2. \A w \in Vars : p[w] \in Int BY ValuesAssumption DEF IntegralPoint, Points
<1>3. IntegralityViolation(p[v]) = 0
  <2>1. IntegralityViolation(p[v]) <= 0 BY <1>1 DEF IntegralPoint, IsIntegerFeasible
  <2> QED BY <1>1, <1>2, <2>1, ViolationBounds
<1>4. Floor(x[v]) < Ceil(x[v])
  <2>1. IntegralityViolation(x[v]) \in Nat /\ IntTol \in Nat
    BY <1>1, ViolationBounds, ToleranceAssumption
  <2> QED BY <1>1, <2>1, ViolationBounds
<1>5. p[v] <= Floor(x[v]) \/ Ceil(x[v]) <= p[v]
  BY <1>1, <1>2, <1>3, IntegralBelow, IntegralAbove
<1>6. \A w \in Vars : lower[w] \in Int /\ upper[w] \in Int
  BY FathomFacts, BoxTyped DEF lower, upper
<1>7. nodes_created \in Nat BY FathomFacts
<1>8. \A i \in Nat : \A w \in Vars :
         LET c == DownChild(node, i, NodeBound, x, v)
         IN  /\ c \in NodeSet
             /\ EffectiveLower(model, c)[w] = lower[w]
             /\ p[w] <= EffectiveUpper(model, c)[w] <=>
                  p[w] <= upper[w] /\ (w = v => p[w] <= Floor(x[v]))
  BY <1>2, DownBox, ChildShape
<1>9. \A i \in Nat : \A w \in Vars :
         LET c == UpChild(node, i, NodeBound, x, v)
         IN  /\ c \in NodeSet
             /\ EffectiveUpper(model, c)[w] = upper[w]
             /\ EffectiveLower(model, c)[w] <= p[w] <=>
                  lower[w] <= p[w] /\ (w = v => Ceil(x[v]) <= p[w])
  BY <1>2, UpBox, ChildShape
<1>10. \A n \in NodeSet : InBox(p, n) <=>
          \A w \in Vars : EffectiveLower(model, n)[w] <= p[w] /\ p[w] <= EffectiveUpper(model, n)[w]
  <2> SUFFICES ASSUME NEW n \in NodeSet, NEW w \in Vars
               PROVE  /\ EffectiveLower(model, n)[w] - 0 <= p[w] <=> EffectiveLower(model, n)[w] <= p[w]
                      /\ p[w] <= EffectiveUpper(model, n)[w] + 0 <=> p[w] <= EffectiveUpper(model, n)[w]
    BY DEF InBox, WithinBounds
  <2> QED BY <1>2, FathomFacts, BoxTyped
<1>11. InBox(p, node) <=> \A w \in Vars : lower[w] <= p[w] /\ p[w] <= upper[w]
  BY <1>10, FathomFacts DEF lower, upper
<1>12. \A i \in Nat : /\ InBox(p, DownChild(node, i, NodeBound, x, v)) <=>
                            InBox(p, node) /\ p[v] <= Floor(x[v])
                      /\ InBox(p, UpChild(node, i, NodeBound, x, v)) <=>
                            InBox(p, node) /\ Ceil(x[v]) <= p[v]
  BY <1>1, <1>8, <1>9, <1>10, <1>11
<1>13. InBox(p, node) => \E c \in Children(v) : InBox(p, c)
  <2> SUFFICES ASSUME InBox(p, node) PROVE \E c \in Children(v) : InBox(p, c) OBVIOUS
  <2>1. lower[v] <= p[v] /\ p[v] <= upper[v] BY <1>1, <1>11
  <2>2. CASE p[v] <= Floor(x[v])
    <3>1. Floor(x[v]) >= lower[v] BY <1>1, <1>2, <1>6, <2>1, <2>2
    <3> QED BY <1>7, <1>12, <2>2, <3>1, ChildCases
  <2>3. CASE Ceil(x[v]) <= p[v]
    <3>1. Ceil(x[v]) <= upper[v] BY <1>1, <1>2, <1>6, <2>1, <2>3
    <3> QED BY <1>12, <2>3, <3>1, ChildCases
  <2> QED BY <1>5, <2>2, <2>3
<1>14. ASSUME NEW c1 \in Children(v), NEW c2 \in Children(v), c1 # c2
       PROVE  ~(InBox(p, c1) /\ InBox(p, c2))
  <2>1. PICK i \in Nat : {c1, c2} = {DownChild(node, nodes_created, NodeBound, x, v),
                                     UpChild(node, i, NodeBound, x, v)}
    BY <1>14, ChildCases
  <2>2. ~(p[v] <= Floor(x[v]) /\ Ceil(x[v]) <= p[v]) BY <1>1, <1>2, <1>4
  <2>3. ~(/\ InBox(p, DownChild(node, nodes_created, NodeBound, x, v))
          /\ InBox(p, UpChild(node, i, NodeBound, x, v)))
    BY <1>7, <1>12, <2>2
  <2> QED BY <1>14, <2>1, <2>3
<1> QED BY <1>13, <1>14
-----------------------------------------------------------------------------
(***************************************************************************)
(* The parts of the invariant, each preserved by every step.               *)
(***************************************************************************)
\* A wanted point of the box is what the oracle was asked about.
LEMMA WantedInside ==
  ASSUME RowsKeepSolutions, NEW p \in Solutions(model), InBox(p, node)
  PROVE  p \in Points /\ IsFeasible(rows, p, lower, upper, 0) /\ IntegralPoint(p)
BY DEF RowsKeepSolutions, Solutions, InBox, IsFeasible, lower, upper, IntegralPoint

\* The bound taken from the answer holds for every wanted point of the box.
LEMMA NodeBoundValid ==
  ASSUME Fathomable, RowsKeepSolutions, NEW p \in Solutions(model), InBox(p, node)
  PROVE  NodeBound <= Objective(p)
<1>1. p \in Points /\ IsFeasible(rows, p, lower, upper, 0) BY WantedInside
<1>2. -Inf < Objective(p) /\ -Inf \in Int /\ Objective(p) \in Int
  BY <1>1, FathomFacts, ModelFacts, GridAssumption DEF Objective
<1>3. /\ relaxation \in Answers(model, rows, lower, upper)
      /\ IsFeasible(rows, relaxation.x, lower, upper, PrimalTol)
  BY FathomFacts DEF Usable
<1>4. CASE Finite(relaxation.dual_bound)
  BY <1>1, <1>3, <1>4, AnswerFacts DEF NodeBound, Objective
<1>5. CASE ~Finite(relaxation.dual_bound) /\ relaxation.status = "Optimal"
  BY <1>1, <1>3, <1>5, AnswerFacts DEF NodeBound, Objective
<1>6. CASE ~Finite(relaxation.dual_bound) /\ relaxation.status # "Optimal"
  BY <1>2, <1>6 DEF NodeBound
<1> QED BY <1>4, <1>5, <1>6

LEMMA RowsStep == Typed /\ RowsKeepSolutions /\ [Next]_vars => RowsKeepSolutions'
<1> SUFFICES ASSUME Typed, RowsKeepSolutions, [Next]_vars PROVE RowsKeepSolutions' OBVIOUS
<1>1. model' = model BY ModelNeverChanges
<1>2. CASE GenerateRootCuts
  <2>1. relaxation.x \in Points /\ model \in Models
    BY <1>2 DEF GenerateRootCuts, Usable, IsFeasible, Typed, TypeOK
  <2>2. PICK cuts \in CutOffers(model, relaxation.x) :
           rows' = rows \/ (rows' = rows \cup cuts /\ \A cut \in cuts : ValidCut(cut))
    BY <1>2 DEF GenerateRootCuts
  <2>3. \A cut \in cuts : ValidCut(cut) => \A p \in Solutions(model) : RowHolds(cut, p, 0)
    BY <2>1, CutAssumption
  <2> QED BY <1>1, <2>2, <2>3 DEF RowsKeepSolutions
<1>3. CASE UNCHANGED rows BY <1>1, <1>3 DEF RowsKeepSolutions
<1>4. GenerateRootCuts \/ UNCHANGED rows
  BY DEF Next, vars, RejectModel, PushRoot, SearchExhausted, TimeLimitReached,
     NodeLimitReached, PopNode, SolveRelaxation, NodeInfeasible, RelaxationFailed,
     RelaxationInvalid, AcceptRelaxation, RecordBound, PruneNode, AcceptIntegral,
     BranchNode, NoBranch, TestGap, Report, Returned
<1> QED BY <1>2, <1>3, <1>4

LEMMA IncumbentStep ==
  Typed /\ RowsKeepSolutions /\ IncumbentFeasible /\ [Next]_vars => IncumbentFeasible'
<1> SUFFICES ASSUME Typed, RowsKeepSolutions, IncumbentFeasible, [Next]_vars
             PROVE  IncumbentFeasible'
  OBVIOUS
<1>1. model' = model BY ModelNeverChanges
<1>2. CASE UNCHANGED best BY <1>1, <1>2 DEF best, IncumbentFeasible, Objective
<1>3. ASSUME NEW x \in Points, Candidate(x), incumbent' = x, incumbent_objective' = Objective(x)
      PROVE  IncumbentFeasible'
  <2>1. node \in NodeSet /\ model \in Models BY <1>3, FathomFacts DEF Candidate, Fathomable
  <2>2. PrimalTol \in Nat BY ToleranceAssumption
  <2>3. WithinBounds(x, model.lower, model.upper, PrimalTol)
    <3> SUFFICES ASSUME NEW v \in Vars
                 PROVE  model.lower[v] - PrimalTol <= x[v] /\ x[v] <= model.upper[v] + PrimalTol
      BY DEF WithinBounds
    <3>1. lower[v] - PrimalTol <= x[v] /\ x[v] <= upper[v] + PrimalTol
      BY <1>3 DEF Candidate, IsFeasible, WithinBounds
    <3>2. /\ lower[v] \in Int /\ upper[v] \in Int
          /\ model.lower[v] \in Int /\ model.lower[v] <= lower[v]
          /\ model.upper[v] \in Int /\ upper[v] <= model.upper[v]
      BY <2>1, BoxTyped DEF lower, upper
    <3>3. x[v] \in Int BY ValuesAssumption DEF Points
    <3> QED BY <2>2, <3>1, <3>2, <3>3
  <2>4. IsFeasible(model.rows, x, model.lower, model.upper, PrimalTol)
    BY <1>3, <2>3 DEF Candidate, IsFeasible, RowsKeepSolutions
  <2>5. x # NoPoint BY NotAPoint
  <2> QED BY <1>1, <1>3, <2>4, <2>5 DEF IncumbentFeasible, Candidate, Objective
<1> QED BY <1>2, <1>3, IncumbentSteps

\* The root's box is the model's.
LEMMA RootBox ==
  ASSUME NEW m \in Models
  PROVE  /\ \A v \in Vars : /\ EffectiveLower(m, RootNode)[v] = m.lower[v]
                            /\ EffectiveUpper(m, RootNode)[v] = m.upper[v]
         /\ \A p \in Solutions(m) :
              WithinBounds(p, EffectiveLower(m, RootNode), EffectiveUpper(m, RootNode), 0)
<1>1. \A v \in Vars : /\ EffectiveLower(m, RootNode)[v] = m.lower[v]
                      /\ EffectiveUpper(m, RootNode)[v] = m.upper[v]
  <2> TAKE v \in Vars
  <2>1. ModelBounds(m) BY ModelFacts
  <2>2. /\ RootNode.lower_overrides = <<>> /\ RootNode.upper_overrides = <<>>
        /\ <<>> \in BoundLists /\ Overrides(<<>>, v) = {}
    BY RootNodeTyped DEF Overrides, BoundLists
  <2>3. /\ EffectiveLower(m, RootNode)[v] = Max({m.lower[v]})
        /\ EffectiveUpper(m, RootNode)[v] = Min({m.upper[v]})
    BY <2>2 DEF EffectiveLower, EffectiveUpper
  <2>4. m.lower[v] \in Int /\ m.upper[v] \in Int BY RootNodeTyped, BoxTyped
  <2>5. ASSUME NEW a \in Int PROVE Max({a}) = a /\ Min({a}) = a
    <3>1. {a} \in SUBSET Int /\ {a} # {} /\ (\A s \in {a} : s <= a /\ a <= s) OBVIOUS
    <3>2. Max({a}) \in {a} BY <3>1, MaxIsGreatest
    <3>3. Min({a}) \in {a} BY <3>1, MinIsLeast
    <3> QED BY <3>2, <3>3
  <2> QED BY <2>3, <2>4, <2>5
<1>2. \A p \in Solutions(m) : WithinBounds(p, m.lower, m.upper, 0)
  BY DEF Solutions, IsFeasible
<1> QED BY <1>1, <1>2 DEF WithinBounds

LEMMA BoxesStep == Typed /\ BoxesNonEmpty /\ [Next]_vars => BoxesNonEmpty'
<1> SUFFICES ASSUME Typed, BoxesNonEmpty, [Next]_vars, Accepted'
             PROVE  \A n \in Open' : \A v \in Vars :
                      EffectiveLower(model, n)[v] <= EffectiveUpper(model, n)[v]
  BY ModelNeverChanges DEF BoxesNonEmpty
<1>1. CASE PushRoot /\ Open' = {RootNode}
  <2>1. ValidModel(model) /\ model \in Models
    BY <1>1 DEF PushRoot, Acceptable, Typed, TypeOK
  <2> QED BY <1>1, <2>1, RootBox DEF ValidModel
<1>2. CASE ~PushRoot /\ Open' \subseteq Open BY <1>2, AcceptedSteps DEF BoxesNonEmpty
<1>3. ASSUME BranchNode, Fathomable, NEW v \in BranchChoices(relaxation.x),
             Open' = (Open \ {node}) \cup Children(v)
      PROVE  \A n \in Open' : \A w \in Vars :
               EffectiveLower(model, n)[w] <= EffectiveUpper(model, n)[w]
  <2>1. Accepted /\ node \in Open
    BY <1>3, AcceptedSteps, FathomFacts DEF BranchNode, Accepted
  <2>2. \A w \in Vars : lower[w] <= upper[w] BY <2>1 DEF BoxesNonEmpty, lower, upper
  <2> QED BY <1>3, <2>1, <2>2, ChildInside DEF BoxesNonEmpty
<1>4. PushRoot => ~Accepted /\ Open' = {RootNode}
  BY PushRootFacts
<1> QED BY <1>1, <1>2, <1>3, <1>4, OpenSteps DEF Drops

LEMMA BoundsStep ==
  Typed /\ RowsKeepSolutions /\ BoundsValid /\ [Next]_vars => BoundsValid'
<1> SUFFICES ASSUME Typed, RowsKeepSolutions, BoundsValid, [Next]_vars, Accepted',
                    NEW n \in Open', NEW p \in Solutions(model), InBox(p, n)
             PROVE  n.relaxation_bound <= Objective(p)
  BY ModelNeverChanges DEF BoundsValid, InBox, Objective
<1>1. CASE n = RootNode
  <2>1. p \in Points /\ model \in Models BY DEF Solutions, Typed, TypeOK
  <2> QED BY <1>1, <2>1, ModelFacts, RootNodeTyped, GridAssumption DEF Objective
<1>2. CASE n \in Open /\ Accepted BY <1>2 DEF BoundsValid
<1>3. ASSUME Fathomable, NEW v \in BranchChoices(relaxation.x), n \in Children(v)
      PROVE  n.relaxation_bound <= Objective(p)
  <2>1. p \in Points BY DEF Solutions
  <2>2. InBox(p, node) BY <1>3, <2>1, ChildInside
  <2> QED BY <1>3, <2>2, NodeBoundValid, ChildrenFacts
<1>4. PushRoot => Open = {} /\ Open' = {RootNode}
  BY PushRootFacts
<1> QED BY <1>1, <1>2, <1>3, <1>4, OpenSteps, AcceptedSteps DEF Drops

LEMMA DisjointStep == Typed /\ OpenBoxesDisjoint /\ [Next]_vars => OpenBoxesDisjoint'
<1> SUFFICES ASSUME Typed, OpenBoxesDisjoint, [Next]_vars,
                    NEW n1 \in Open', NEW n2 \in Open', n1 # n2,
                    NEW p \in Points, IsIntegerFeasible(model, p, 0),
                    InBox(p, n1), InBox(p, n2)
             PROVE  FALSE
  BY ModelNeverChanges DEF OpenBoxesDisjoint, InBox
<1>1. CASE n1 \in Open /\ n2 \in Open BY <1>1 DEF OpenBoxesDisjoint
<1>2. CASE Open' = {RootNode} BY <1>2
<1>3. ASSUME Fathomable, NEW v \in BranchChoices(relaxation.x),
             Open' = (Open \ {node}) \cup Children(v)
      PROVE  FALSE
  <2>1. node \in Open BY <1>3, FathomFacts
  <2>2. \A c \in Children(v) : InBox(p, c) => InBox(p, node) BY <1>3, ChildInside
  <2>3. \A n \in Open \ {node} : InBox(p, n) => ~InBox(p, node)
    BY <2>1 DEF OpenBoxesDisjoint
  <2>4. n1 \in Children(v) /\ n2 \in Children(v) => FALSE
    BY <1>3, ChildrenPartition DEF IntegralPoint
  <2> QED BY <1>1, <1>3, <2>2, <2>3, <2>4
<1> QED BY <1>1, <1>2, <1>3, OpenSteps DEF Drops
\* A wanted point leaves the open boxes only with a node that is pruned or
\* whose relaxation is integral.
LEMMA Departures ==
  ASSUME Typed, RowsKeepSolutions, [Next]_vars, Accepted, NEW p \in Solutions(model),
         NEW n \in Open, InBox(p, n), \A k \in Open' : ~InBox(p, k)
  PROVE  (PruneNode \/ AcceptIntegral) /\ n = node
<1>1. n \notin Open' OBVIOUS
<1>2. ~PushRoot BY AcceptedSteps
<1>3. p \in Points /\ IsIntegerFeasible(model, p, 0) BY DEF Solutions
<1>4. CASE PopNode /\ \E m \in queue : BoxEmpty(m) /\ Drops(m)
  <2>1. BoxEmpty(n) BY <1>1, <1>4 DEF Drops
  <2>2. PICK v \in Vars : EffectiveLower(model, n)[v] > EffectiveUpper(model, n)[v] + PrimalTol
    BY <2>1 DEF BoxEmpty
  <2>3. EffectiveLower(model, n)[v] - 0 <= p[v] /\ p[v] <= EffectiveUpper(model, n)[v] + 0
    BY DEF InBox, WithinBounds
  <2>4. n \in NodeSet /\ model \in Models BY <1>4 DEF Open, Typed, TypeOK, PopNode, PlaceOK
  <2>5. EffectiveLower(model, n)[v] \in Int /\ EffectiveUpper(model, n)[v] \in Int
    BY <2>4, BoxTyped
  <2>6. p[v] \in Int /\ PrimalTol \in Nat BY <1>3, ValuesAssumption, ToleranceAssumption DEF Points
  <2> QED BY <2>2, <2>3, <2>5, <2>6
<1>5. CASE (NodeInfeasible \/ PruneNode \/ AcceptIntegral) /\ Drops(node)
  <2>1. n = node BY <1>1, <1>5 DEF Drops
  <2>2. ~NodeInfeasible
    <3> SUFFICES ASSUME NodeInfeasible PROVE FALSE OBVIOUS
    <3>1. relaxation.status = "Infeasible" /\ relaxation \in Answers(model, rows, lower, upper)
      BY DEF NodeInfeasible, Typed, PlaceOK, Answered
    <3>2. p \in Points /\ IsFeasible(rows, p, lower, upper, 0) BY <2>1, WantedInside
    <3> QED BY <3>1, <3>2, AnswerFacts
  <2> QED BY <1>5, <2>1, <2>2
<1>6. ASSUME Fathomable, NEW v \in BranchChoices(relaxation.x),
             Open' = (Open \ {node}) \cup Children(v)
      PROVE  FALSE
  <2>1. n = node BY <1>1, <1>6
  <2>2. PICK c \in Children(v) : InBox(p, c)
    BY <1>3, <1>6, <2>1, ChildrenPartition DEF IntegralPoint
  <2> QED BY <1>6, <2>2
<1> QED BY <1>1, <1>2, <1>4, <1>5, <1>6, OpenSteps

LEMMA NothingLostStep ==
  /\ Typed /\ RowsKeepSolutions /\ IncumbentFeasible /\ NothingLostBeforeIncumbent
  /\ [Next]_vars
  => NothingLostBeforeIncumbent'
<1> SUFFICES ASSUME Typed, RowsKeepSolutions, IncumbentFeasible, NothingLostBeforeIncumbent,
                    [Next]_vars, Accepted', incumbent' = NoPoint, NEW p \in Solutions(model)
             PROVE  \E n \in Open' : InBox(p, n)
  BY ModelNeverChanges DEF NothingLostBeforeIncumbent, InBox
<1>1. CASE PushRoot
  <2>1. model \in Models BY DEF Typed, TypeOK
  <2>2. InBox(p, RootNode) BY <2>1, RootBox DEF InBox
  <2> QED BY <1>1, <2>2, PushRootFacts
<1>2. CASE ~PushRoot
  <2>1. Accepted BY <1>2, AcceptedSteps
  <2>2. incumbent = NoPoint /\ ~AcceptIntegral
    <3>1. UNCHANGED best BY IncumbentSteps, NotAPoint
    <3>2. incumbent = NoPoint BY <3>1 DEF best
    <3>3. incumbent_objective = Inf /\ incumbent_objective' = Inf
      BY <3>1, <3>2 DEF best, IncumbentFeasible
    <3>4. AcceptIntegral => Objective(relaxation.x) < Inf /\ Objective(relaxation.x) \in Int
      <4> SUFFICES ASSUME AcceptIntegral
                   PROVE  Objective(relaxation.x) < Inf /\ Objective(relaxation.x) \in Int
        OBVIOUS
      <4>1. Fathomable BY DEF AcceptIntegral, Fathomable
      <4> QED BY <4>1, FathomFacts, ModelFacts DEF Objective
    <3> QED BY <3>2, <3>3, <3>4, IncumbentSteps, GridAssumption
  <2>3. ~PruneNode
    <3>1. ~Finite(incumbent_objective) BY <2>2, GridAssumption DEF IncumbentFeasible, Finite
    <3> QED BY <3>1 DEF PruneNode, Prunable
  <2>4. PICK n \in Open : InBox(p, n) BY <2>1, <2>2 DEF NothingLostBeforeIncumbent
  <2> QED BY <2>1, <2>2, <2>3, <2>4, Departures
<1> QED BY <1>1, <1>2

LEMMA RootAloneStep == Typed /\ RootAlone /\ [Next]_vars => RootAlone'
<1> SUFFICES ASSUME Typed, RootAlone, [Next]_vars PROVE RootAlone' OBVIOUS
<1>1. pc' \in {"resolve", "cut_reply"} => node'.parent_id < 0
  <2>1. GenerateRootCuts => node' = node /\ node.parent_id < 0
    BY DEF GenerateRootCuts, AwaitsCuts
  <2>2. SolveRelaxation => node' = node /\ (pc' = "reply" \/ (pc' = "cut_reply" /\ pc = "resolve"))
    BY DEF SolveRelaxation
  <2>3. GenerateRootCuts \/ SolveRelaxation \/ UNCHANGED <<node, pc>>
        \/ pc' \notin {"resolve", "cut_reply"}
    BY DEF Next, vars, RejectModel, PushRoot, SearchExhausted, TimeLimitReached,
       NodeLimitReached, PopNode, NodeInfeasible, RelaxationFailed, RelaxationInvalid,
       AcceptRelaxation, RecordBound, PruneNode, AcceptIntegral, BranchNode, NoBranch,
       TestGap, Report, Returned, Resume, Stop
  <2> QED BY <2>1, <2>2, <2>3 DEF RootAlone
<1>2. ASSUME pc' \notin {"finish", "returned"}, NEW n \in Open', n.parent_id < 0
      PROVE  Open' = {n} /\ incumbent' = NoPoint
  <2>1. pc \notin {"finish", "returned"}
    BY <1>2 DEF Next, vars, RejectModel, PushRoot, SearchExhausted, TimeLimitReached,
       NodeLimitReached, PopNode, SolveRelaxation, NodeInfeasible, RelaxationFailed,
       RelaxationInvalid, GenerateRootCuts, AcceptRelaxation, RecordBound, PruneNode,
       AcceptIntegral, BranchNode, NoBranch, TestGap, Report, Returned, Resume, Stop
  <2>2. CASE PushRoot BY <1>2, <2>2, PushRootFacts
  <2>3. CASE n \in Open /\ (Open' = Open \/ \E m : Drops(m))
    <3>1. Open = {n} /\ incumbent = NoPoint BY <1>2, <2>1, <2>3 DEF RootAlone
    <3>2. Open' = {n} BY <1>2, <2>3, <3>1 DEF Drops
    <3>3. UNCHANGED best
      <4> SUFFICES ASSUME pc = "fathom", ~UNCHANGED best PROVE FALSE
        BY IncumbentSteps DEF Candidate
      <4>1. node \in Open BY FathomFacts DEF Fathomable
      <4>2. AcceptIntegral \/ BranchNode \/ NoBranch
        BY DEF Next, vars, best, RejectModel, PushRoot, SearchExhausted, TimeLimitReached,
           NodeLimitReached, PopNode, SolveRelaxation, NodeInfeasible, RelaxationFailed,
           RelaxationInvalid, GenerateRootCuts, AcceptRelaxation, RecordBound, PruneNode,
           TestGap, Report, Returned
      <4>3. ~NoBranch BY <1>2 DEF NoBranch, Stop
      <4>4. node \notin Open'
        <5>1. node' = NoNode /\ \A k \in queue' : k \in queue \/ k \in Open'
          BY <4>2, <4>3 DEF AcceptIntegral, BranchNode, Open
        <5>2. CASE AcceptIntegral
          <6>1. queue' = queue /\ node \notin queue /\ node # NoNode
            BY <5>2 DEF AcceptIntegral, search, Typed, QueueWellFormed, PlaceOK, InBody
          <6> QED BY <5>1, <6>1 DEF Open
        <5>3. CASE BranchNode
          <6>1. PICK v \in BranchChoices(relaxation.x) : queue' = queue \cup Children(v)
            BY <5>3 DEF BranchNode
          <6>2. Fathomable BY <5>3 DEF BranchNode, Fathomable
          <6>3. node \notin queue /\ node # NoNode
            BY <5>3 DEF BranchNode, Typed, QueueWellFormed, PlaceOK, InBody
          <6>4. node \notin Children(v)
            <7>1. \A c \in Children(v) : c.depth = node.depth + 1 BY <6>2, ChildrenFacts
            <7>2. node.depth \in Nat BY <6>2, FathomFacts DEF NodeSet
            <7> QED BY <7>1, <7>2
          <6> QED BY <5>1, <6>1, <6>3, <6>4 DEF Open
        <5> QED BY <4>2, <4>3, <5>2, <5>3
      <4> QED BY <3>1, <3>2, <4>1, <4>4
    <3> QED BY <3>1, <3>2, <3>3 DEF best
  <2>4. ASSUME BranchNode, Fathomable, NEW v \in BranchChoices(relaxation.x),
               Open' = (Open \ {node}) \cup Children(v)
        PROVE  FALSE
    <3>1. node \in Open /\ node.id < nodes_created /\ node.id \in Nat \cup {-1}
      BY <2>4, FathomFacts DEF NodeSet
    <3>2. n \in Open \ {node} => FALSE BY <1>2, <2>1, <3>1 DEF RootAlone
    <3>3. n \in Children(v) => FALSE
      <4>1. node.id \in Nat BY <2>4, FathomFacts DEF NodeSet
      <4> QED BY <1>2, <2>4, <4>1, ChildrenFacts
    <3> QED BY <2>4, <3>2, <3>3
  <2> QED BY <1>2, <2>2, <2>3, <2>4, OpenSteps DEF Drops
<1> QED BY <1>1, <1>2 DEF RootAlone

-----------------------------------------------------------------------------
SearchSound ==
    /\ Typed /\ RowsKeepSolutions /\ RootAlone /\ IncumbentFeasible
    /\ BoxesNonEmpty /\ BoundsValid /\ OpenBoxesDisjoint /\ NothingLostBeforeIncumbent

LEMMA SearchSoundInit == Init => SearchSound
<1> SUFFICES ASSUME Init PROVE SearchSound OBVIOUS
<1>1. Typed BY InitTyped
<1>2. pc = "entry" /\ node = NoNode /\ queue = {} /\ ~Accepted BY DEF Init, Accepted
<1>3. Open = {} BY <1>2 DEF Open
<1>4. RowsKeepSolutions BY DEF Init, RowsKeepSolutions, Solutions, IsFeasible
<1>5. IncumbentFeasible BY DEF Init, IncumbentFeasible
<1> QED
  BY <1>1, <1>2, <1>3, <1>4, <1>5 DEF SearchSound, RootAlone, BoxesNonEmpty, BoundsValid,
     OpenBoxesDisjoint, NothingLostBeforeIncumbent

LEMMA SearchSoundStep == SearchSound /\ [Next]_vars => SearchSound'
BY TypeStep, PlaceStep, QueueStep, RowsStep, RootAloneStep, IncumbentStep, BoxesStep,
   BoundsStep, DisjointStep, NothingLostStep DEF SearchSound, Typed

\* SearchSound is an inductive invariant.
THEOREM SearchIsSound == Spec => []SearchSound
<1> QED BY SearchSoundInit, SearchSoundStep, PTL DEF Spec

\* The incumbent always satisfies the original model within its tolerances
\* and carries its own objective, whatever the oracle answers.
THEOREM IncumbentsAreFeasible == Spec => []IncumbentFeasible
<1>1. SearchSound => IncumbentFeasible BY DEF SearchSound
<1> QED BY <1>1, SearchIsSound, PTL

\* No node with an inverted box is ever in the search, so the bounds handed
\* to the oracle and to std::clamp are ordered.
THEOREM BoxesAreNonEmpty == Spec => []BoxesNonEmpty
<1>1. SearchSound => BoxesNonEmpty BY DEF SearchSound
<1> QED BY <1>1, SearchIsSound, PTL

\* The bound of an open node is a lower bound on every wanted point in it.
THEOREM BoundsAreValid == Spec => []BoundsValid
<1>1. SearchSound => BoundsValid BY DEF SearchSound
<1> QED BY <1>1, SearchIsSound, PTL

\* No integral point is ever in the boxes of two open nodes.
THEOREM OpenBoxesAreDisjoint == Spec => []OpenBoxesDisjoint
<1>1. SearchSound => OpenBoxesDisjoint BY DEF SearchSound
<1> QED BY <1>1, SearchIsSound, PTL

\* As long as there is no incumbent every wanted point is in an open node.
THEOREM NothingIsLost == Spec => []NothingLostBeforeIncumbent
<1>1. SearchSound => NothingLostBeforeIncumbent BY DEF SearchSound
<1> QED BY <1>1, SearchIsSound, PTL
-----------------------------------------------------------------------------
(***************************************************************************)
(* Coverage and the reasons to stop.                                       *)
(***************************************************************************)
LEMMA CoverageStep ==
  ASSUME ~InexactBounds
  PROVE  SearchSound /\ Coverage /\ [Next]_vars => Coverage'
<1> SUFFICES ASSUME SearchSound, Coverage, [Next]_vars, Accepted', all_bounds_certified',
                    NEW p \in Solutions(model), \A k \in Open' : ~InBox(p, k)
             PROVE  Objective(p) >= incumbent_objective' - AbsTol
  BY ModelNeverChanges DEF Coverage, InBox, Objective
<1> USE DEF SearchSound
<1>0. /\ model \in Models /\ p \in Points /\ Objective(p) \in Int
      /\ incumbent_objective \in Int /\ incumbent_objective' \in Int
      /\ incumbent_objective' <= incumbent_objective /\ AbsTol \in Nat
  BY TypeStep, ModelFacts, IncumbentSteps, ScaleFacts DEF Typed, TypeOK, Solutions, Objective
<1>1. all_bounds_certified
  BY DEF Next, vars, knowledge, RejectModel, PushRoot, SearchExhausted, TimeLimitReached,
     NodeLimitReached, PopNode, SolveRelaxation, NodeInfeasible, RelaxationFailed,
     RelaxationInvalid, GenerateRootCuts, AcceptRelaxation, RecordBound, PruneNode,
     AcceptIntegral, BranchNode, NoBranch, TestGap, Report, Returned, Typed, TypeOK
<1>2. ~PushRoot
  <2>1. InBox(p, RootNode) BY <1>0, RootBox DEF InBox
  <2> QED BY <2>1, PushRootFacts
<1>3. Accepted BY <1>2, AcceptedSteps
<1>4. CASE Objective(p) >= incumbent_objective - AbsTol BY <1>0, <1>4
<1>5. ASSUME NEW n \in Open, InBox(p, n) PROVE Objective(p) >= incumbent_objective' - AbsTol
  <2>1. (PruneNode \/ AcceptIntegral) /\ n = node BY <1>3, <1>5, Departures
  <2>2. Fathomable BY <2>1 DEF PruneNode, AcceptIntegral, Fathomable
  <2>3. CASE PruneNode
    <3>1. NodeBound >= incumbent_objective - AbsTol BY <2>3 DEF PruneNode, Prunable
    <3>2. NodeBound <= Objective(p) BY <1>5, <2>1, <2>2, NodeBoundValid
    <3>3. NodeBound \in Int BY <2>2, FathomFacts
    <3> QED BY <1>0, <3>1, <3>2, <3>3
  <2>4. CASE AcceptIntegral
    <3>1. BoundCertified BY <1>1, <2>4 DEF AcceptIntegral, Typed, PlaceOK
    <3>2. relaxation \in Answers(model, rows, lower, upper) BY <2>2, FathomFacts
    <3>3. relaxation.status = "Optimal" BY <3>1, <3>2, AnswerFacts DEF BoundCertified
    <3>4. IsFeasible(rows, p, lower, upper, 0) BY <1>5, <2>1, WantedInside
    <3>5. relaxation.x \in Points /\ Usable BY <2>2, FathomFacts
    <3>6. Objective(relaxation.x) <= Objective(p)
      BY <1>0, <3>2, <3>3, <3>4, <3>5, AnswerFacts DEF Usable, Objective
    <3>7. incumbent_objective' <= Objective(relaxation.x) /\ Objective(relaxation.x) \in Int
      BY <1>0, <2>4, <3>5, IncumbentSteps, ModelFacts DEF Objective
    <3> QED BY <1>0, <3>6, <3>7
  <2> QED BY <2>1, <2>3, <2>4
<1> QED BY <1>1, <1>3, <1>4, <1>5 DEF Coverage

LEMMA StopStep ==
  ASSUME "NotSolved" \notin FailureStatuses
  PROVE  SearchSound /\ StopOK /\ [Next]_vars => StopOK'
<1> SUFFICES ASSUME SearchSound, StopOK, [Next]_vars PROVE StopOK' OBVIOUS
<1> USE DEF SearchSound, Typed
<1>0. model' = model BY ModelNeverChanges
<1>1. CASE RejectModel BY <1>0, <1>1 DEF RejectModel, StopOK
<1>2. CASE SearchExhausted
  <2>1. node = NoNode BY <1>2 DEF SearchExhausted, PlaceOK
  <2> QED BY <1>0, <1>2, <2>1 DEF SearchExhausted, StopOK, search
<1>3. CASE TimeLimitReached \/ NodeLimitReached
  <2>1. termination' \in {"TimeLimit", "NodeLimit"} /\ pc' = "finish" /\ result' = result
        /\ pc = "loop"
    BY <1>3 DEF TimeLimitReached, NodeLimitReached, Stop
  <2> QED BY <1>0, <2>1 DEF StopOK
<1>4. CASE RelaxationInvalid \/ NoBranch
  <2>1. termination' = "NumericalFailure" /\ pc' = "finish" /\ result' = result
        /\ pc \in {"reply", "cut_reply", "fathom"}
    BY <1>4 DEF RelaxationInvalid, NoBranch, Stop
  <2> QED BY <1>0, <2>1 DEF StopOK
<1>5. CASE RelaxationFailed
  <2>1. /\ termination' = relaxation.status /\ pc' = "finish" /\ result' = result
        /\ pc \in {"reply", "cut_reply"} /\ node' = node /\ incumbent' = incumbent
        /\ relaxation.status \notin SolvedStatuses
        /\ relaxation.status = "Infeasible" => pc = "cut_reply"
    BY <1>5 DEF RelaxationFailed, Stop, best
  <2>2. relaxation \in Answers(model, rows, lower, upper) /\ relaxation \in ReplySet
    BY <2>1, AnswerFacts DEF PlaceOK, Answered
  <2>3. termination' \notin {"NotSolved", "Optimal"}
    BY <2>1, <2>2 DEF ReplySet, SolvedStatuses, ExactStatuses
  <2>4. relaxation.status = "Infeasible" => Solutions(model) = {} /\ incumbent = NoPoint
    <3> SUFFICES ASSUME relaxation.status = "Infeasible"
                 PROVE  Solutions(model) = {} /\ incumbent = NoPoint
      OBVIOUS
    <3>1. node \in Open /\ Accepted BY <2>1 DEF PlaceOK, InBody, Open, Accepted
    <3>2. Open = {node} /\ incumbent = NoPoint
      BY <2>1, <3>1 DEF RootAlone
    <3>3. ASSUME NEW p \in Solutions(model) PROVE FALSE
      <4>1. InBox(p, node) BY <3>1, <3>2 DEF NothingLostBeforeIncumbent
      <4> QED BY <2>2, <4>1, WantedInside, AnswerFacts
    <3> QED BY <3>2, <3>3
  <2> QED BY <1>0, <2>1, <2>3, <2>4 DEF StopOK
<1>6. CASE GenerateRootCuts
  <2>1. \/ pc' \in {"bound", "resolve"} /\ termination' = termination
        \/ pc' = "finish" /\ termination' = "InvalidModel"
    BY <1>6 DEF GenerateRootCuts, Stop
  <2>2. result' = result /\ pc = "reply" BY <1>6 DEF GenerateRootCuts
  <2> QED BY <1>0, <2>1, <2>2 DEF StopOK
<1>7. CASE TestGap
  <2>1. /\ node' = NoNode /\ incumbent' = incumbent /\ result' = result /\ pc = "gap"
        /\ \/ GapClosed /\ termination' = "Optimal" /\ pc' = "finish"
           \/ termination' = termination /\ pc' = "loop"
    BY <1>7 DEF TestGap, Resume, best
  <2>2. GapClosed => incumbent # NoPoint
    BY GridAssumption DEF GapClosed, Finite, IncumbentFeasible
  <2> QED BY <1>0, <2>1, <2>2 DEF StopOK
<1>8. CASE Report BY <1>0, <1>8 DEF Report, StopOK
<1>9. CASE UNCHANGED vars \/ Returned BY <1>0, <1>9 DEF Returned, vars, StopOK
<1>10. CASE /\ UNCHANGED <<termination, result>>
            /\ pc \notin {"finish", "returned"} /\ pc' \notin {"finish", "returned"}
  BY <1>10 DEF StopOK
<1>11. PushRoot \/ PopNode \/ SolveRelaxation \/ NodeInfeasible \/ AcceptRelaxation
       \/ RecordBound \/ PruneNode \/ AcceptIntegral \/ BranchNode =>
          /\ UNCHANGED <<termination, result>>
          /\ pc \notin {"finish", "returned"} /\ pc' \notin {"finish", "returned"}
  BY DEF PushRoot, PopNode, SolveRelaxation, NodeInfeasible, AcceptRelaxation,
     RecordBound, PruneNode, AcceptIntegral, BranchNode, Resume
<1> QED
  BY <1>1, <1>2, <1>3, <1>4, <1>5, <1>6, <1>7, <1>8, <1>9, <1>10, <1>11 DEF Next
-----------------------------------------------------------------------------
(***************************************************************************)
(* What Report says.                                                       *)
(***************************************************************************)
AnswerSound ==
    /\ SearchSound /\ Coverage /\ StopOK
    /\ InfeasibleIsInfeasible /\ OptimalIsOptimal /\ ReportedBoundHolds

LEMMA BoundOfQueue ==
  ASSUME SearchSound, Coverage, Accepted, all_bounds_certified, node = NoNode,
         NEW p \in Solutions(model)
  PROVE  Objective(p) >= Smaller(DualBound, incumbent_objective - AbsTol)
<1> USE DEF SearchSound
<1>1. /\ p \in Points /\ Objective(p) \in Int /\ incumbent_objective \in Int /\ AbsTol \in Int
      /\ DualBound \in Int
  BY ModelFacts, QueueOrderable, ScaleFacts DEF Typed, TypeOK, Solutions, Objective
<1>2. CASE Objective(p) >= incumbent_objective - AbsTol BY <1>1, <1>2 DEF Smaller
<1>3. ASSUME NEW n \in Open, InBox(p, n) PROVE Objective(p) >= DualBound
  <2>1. n \in queue /\ queue # {} BY <1>3 DEF Open
  <2>2. /\ DualBound = BestBound(queue) /\ BestBound(queue) <= n.relaxation_bound
        /\ n.relaxation_bound \in Int
    BY <2>1, QueueOrderable, BestBoundIsLowest DEF DualBound, Orderable
  <2>3. n.relaxation_bound <= Objective(p) BY <1>3 DEF BoundsValid
  <2> QED BY <1>1, <2>2, <2>3
<1>4. Objective(p) >= DualBound => Objective(p) >= Smaller(DualBound, incumbent_objective - AbsTol)
  BY <1>1 DEF Smaller
<1> QED BY <1>2, <1>3, <1>4 DEF Coverage

LEMMA ReportFacts ==
  ASSUME SearchSound, Coverage, StopOK, pc = "finish"
  PROVE  /\ FinalStatus # "NotSolved"
         /\ FinalStatus = "Infeasible" => incumbent = NoPoint /\ Solutions(model) = {}
         /\ FinalStatus = "Optimal" =>
              /\ incumbent # NoPoint /\ incumbent_objective # Inf
              /\ \A p \in Solutions(model) : WithinGap(incumbent_objective, Objective(p))
<1> USE DEF SearchSound
<1>0. Accepted /\ incumbent_objective \in Int /\ model \in Models /\ AbsTol \in Nat
  BY ScaleFacts DEF Accepted, Typed, PlaceOK, TypeOK
<1>1. FinalStatus # "NotSolved" BY DEF FinalStatus, Conclusion
<1>2. Conclusion = "Optimal" => node = NoNode /\ incumbent # NoPoint
  BY DEF Conclusion, StopOK
<1>3. ASSUME FinalStatus = "Infeasible" PROVE incumbent = NoPoint /\ Solutions(model) = {}
  <2>1. Conclusion = "Infeasible" BY <1>2, <1>3 DEF FinalStatus
  <2>2. CASE termination # "NotSolved" BY <2>1, <2>2 DEF Conclusion, StopOK
  <2>3. CASE termination = "NotSolved"
    <3>1. queue = {} /\ node = NoNode /\ incumbent = NoPoint
      BY <2>1, <2>3 DEF Conclusion, StopOK
    <3>2. Open = {} BY <3>1 DEF Open
    <3> QED BY <1>0, <3>1, <3>2 DEF NothingLostBeforeIncumbent
  <2> QED BY <2>2, <2>3
<1>4. ASSUME FinalStatus = "Optimal"
      PROVE  /\ incumbent # NoPoint /\ incumbent_objective # Inf
             /\ \A p \in Solutions(model) : WithinGap(incumbent_objective, Objective(p))
  <2>1. /\ Conclusion = "Optimal" /\ all_bounds_certified
        /\ WithinGap(incumbent_objective, DualBound)
    BY <1>4 DEF FinalStatus
  <2>2. node = NoNode /\ incumbent # NoPoint BY <1>2, <2>1
  <2>3. Finite(incumbent_objective) BY <2>1 DEF WithinGap
  <2>4. incumbent_objective # Inf BY <2>3, GridAssumption DEF Finite
  <2>5. ASSUME NEW p \in Solutions(model) PROVE WithinGap(incumbent_objective, Objective(p))
    <3>1. p \in Points /\ Objective(p) \in Int /\ Finite(Objective(p)) /\ DualBound \in Int
      BY <1>0, ModelFacts, QueueOrderable DEF Solutions, Objective, Finite
    <3>2. Objective(p) >= Smaller(DualBound, incumbent_objective - AbsTol)
      BY <1>0, <2>1, <2>2, BoundOfQueue
    <3>3. Objective(p) >= DualBound \/ Objective(p) >= incumbent_objective - AbsTol
      BY <3>2 DEF Smaller
    <3>4. CASE Objective(p) >= DualBound BY <1>0, <2>1, <3>1, <3>4, GapShrinks
    <3>5. CASE Objective(p) >= incumbent_objective - AbsTol
      BY <1>0, <2>3, <3>1, <3>5, GapWithinTolerance
    <3> QED BY <3>3, <3>4, <3>5
  <2> QED BY <2>2, <2>4, <2>5
<1> QED BY <1>1, <1>3, <1>4

\* The result is written when a model is refused and at the end, once.
LEMMA ResultSteps ==
  ASSUME Typed, [Next]_vars
  PROVE  \/ result' = result /\ (pc' = "returned" => pc = "returned" /\ UNCHANGED vars)
         \/ /\ RejectModel /\ ~Acceptable /\ pc' = "returned" /\ UNCHANGED incumbent_objective
            /\ result'.status \in {"UnsupportedModel", "InvalidModel"}
         \/ /\ Report /\ pc = "finish" /\ pc' = "returned"
            /\ UNCHANGED <<node, all_bounds_certified, incumbent, incumbent_objective>>
            /\ result'.status = FinalStatus /\ result'.objective = incumbent_objective
            /\ result'.dual_bound = DualBound
<1>1. CASE RejectModel
  <2>1. result'.status \in {"UnsupportedModel", "InvalidModel"}
    BY <1>1 DEF RejectModel, Typed, TypeOK
  <2> QED BY <1>1, <2>1 DEF RejectModel, best
<1>2. CASE Report BY <1>2 DEF Report, best, knowledge
<1>3. CASE UNCHANGED vars \/ Returned BY <1>3 DEF Returned, vars
<1>4. CASE ~RejectModel /\ ~Report /\ ~Returned /\ Next
  BY <1>4 DEF Next, PushRoot, SearchExhausted, TimeLimitReached,
     NodeLimitReached, PopNode, SolveRelaxation, NodeInfeasible, RelaxationFailed,
     RelaxationInvalid, GenerateRootCuts, AcceptRelaxation, RecordBound, PruneNode,
     AcceptIntegral, BranchNode, NoBranch, TestGap, Resume, Stop
<1> QED BY <1>1, <1>2, <1>3, <1>4

LEMMA AnswerSoundStep ==
  ASSUME ProperOracle
  PROVE  AnswerSound /\ [Next]_vars => AnswerSound'
<1> SUFFICES ASSUME AnswerSound, [Next]_vars PROVE AnswerSound' OBVIOUS
<1> USE DEF AnswerSound
<1>0. /\ model' = model /\ Typed /\ Acceptable' = Acceptable
      /\ pc = "finish" => Accepted
  BY ModelNeverChanges DEF SearchSound, Acceptable, Accepted, Typed, PlaceOK
<1>1. SearchSound' /\ Coverage' /\ StopOK'
  BY SearchSoundStep, CoverageStep, StopStep DEF ProperOracle
<1>2. InfeasibleIsInfeasible'
  BY <1>0, ResultSteps, ReportFacts DEF InfeasibleIsInfeasible
<1>3. OptimalIsOptimal'
  <2>1. CASE result' = result /\ UNCHANGED vars
    BY <1>0, <2>1 DEF OptimalIsOptimal, vars, Objective
  <2>2. CASE result' = result /\ pc' # "returned"
    <3>1. result'.status = "NotSolved" BY <1>1, <2>2 DEF StopOK
    <3> QED BY <3>1 DEF OptimalIsOptimal
  <2>3. CASE RejectModel BY <2>3, <1>0, ResultSteps DEF OptimalIsOptimal, Report, RejectModel
  <2>4. CASE Report /\ pc = "finish"
    BY <1>0, <2>4, ResultSteps, ReportFacts DEF OptimalIsOptimal, Report, RejectModel, Objective, best
  <2> QED BY <1>0, <2>1, <2>2, <2>3, <2>4, ResultSteps
<1>4. ReportedBoundHolds'
  <2>1. CASE UNCHANGED vars BY <1>0, <2>1 DEF ReportedBoundHolds, vars, Objective
  <2>2. CASE pc' # "returned" BY <2>2 DEF ReportedBoundHolds
  <2>3. CASE RejectModel /\ ~Acceptable BY <1>0, <2>3 DEF ReportedBoundHolds
  <2>4. CASE /\ Report /\ pc = "finish"
             /\ UNCHANGED <<node, all_bounds_certified>>
             /\ result'.objective = incumbent_objective /\ result'.dual_bound = DualBound
    <3>1. node = NoNode /\ all_bounds_certified => \A p \in Solutions(model) :
            Objective(p) >= Smaller(DualBound, incumbent_objective - AbsTol)
      BY <1>0, <2>4, BoundOfQueue
    <3> QED BY <1>0, <2>4, <3>1 DEF ReportedBoundHolds, Objective
  <2> QED BY <1>0, <2>1, <2>2, <2>3, <2>4, ResultSteps
<1> QED BY <1>1, <1>2, <1>3, <1>4

LEMMA AnswerSoundInit == Init => AnswerSound
<1> SUFFICES ASSUME Init PROVE AnswerSound OBVIOUS
<1>1. /\ SearchSound /\ pc = "entry" /\ ~Accepted /\ termination = "NotSolved"
      /\ result.status = "NotSolved"
  BY SearchSoundInit DEF Init, Accepted
<1> QED
  BY <1>1 DEF AnswerSound, Coverage, StopOK, InfeasibleIsInfeasible, OptimalIsOptimal,
     ReportedBoundHolds

\* AnswerSound is an inductive invariant when the oracle is proper.
THEOREM AnswersAreSound ==
  ASSUME ProperOracle
  PROVE  Spec => []AnswerSound
<1>1. AnswerSound /\ [Next]_vars => AnswerSound' BY AnswerSoundStep
<1> QED BY <1>1, AnswerSoundInit, PTL DEF Spec

\* While every bound is certified each wanted point is in an open node or no
\* better than the incumbent, up to absolute_gap_tolerance.
THEOREM NoWantedPointIsLost ==
  ASSUME ProperOracle
  PROVE  Spec => []Coverage
<1>1. AnswerSound => Coverage BY DEF AnswerSound
<1> QED BY <1>1, AnswersAreSound, PTL

\* Optimal is only answered within the gap of every wanted point.
THEOREM OptimalAnswers ==
  ASSUME ProperOracle
  PROVE  Spec => []OptimalIsOptimal
<1>1. AnswerSound => OptimalIsOptimal BY DEF AnswerSound
<1> QED BY <1>1, AnswersAreSound, PTL

\* Infeasible is only answered to a model without wanted points.
THEOREM InfeasibleAnswers ==
  ASSUME ProperOracle
  PROVE  Spec => []InfeasibleIsInfeasible
<1>1. AnswerSound => InfeasibleIsInfeasible BY DEF AnswerSound
<1> QED BY <1>1, AnswersAreSound, PTL

\* A search not broken off inside a node reports a dual bound that holds.
THEOREM ReportedBounds ==
  ASSUME ProperOracle
  PROVE  Spec => []ReportedBoundHolds
<1>1. AnswerSound => ReportedBoundHolds BY DEF AnswerSound
<1> QED BY <1>1, AnswersAreSound, PTL
\* The search's own bookkeeping: node ids, the places of the loop body, the
\* root being alone, the reasons to stop and the working rows.
THEOREM BookkeepingIsRight ==
  ASSUME ProperOracle
  PROVE  Spec => []SearchInv
<1>1. AnswerSound => SearchInv BY DEF AnswerSound, SearchSound, Typed, SearchInv
<1> QED BY <1>1, AnswersAreSound, PTL

-----------------------------------------------------------------------------
(***************************************************************************)
(* Refinement: the engine implements MipSolve.                             *)
(***************************************************************************)
LEMMA PromiseInit == Init => Promise!Init
<1> SUFFICES ASSUME Init PROVE Promise!Init OBVIOUS
<1> QED BY DEF Init, Promise!Init, Promise!Unanswered

LEMMA PromiseStep ==
  ASSUME ProperOracle
  PROVE  AnswerSound /\ AnswerSound' /\ [Next]_vars =>
           [Promise!Next]_<<model, incumbent_objective, result.status>>
<1> SUFFICES ASSUME AnswerSound, AnswerSound', [Next]_vars
             PROVE  Promise!Next \/ UNCHANGED <<model, incumbent_objective, result.status>>
  OBVIOUS
<1> USE DEF AnswerSound, SearchSound
<1>0. model' = model BY ModelNeverChanges
<1>1. CASE UNCHANGED best /\ result' = result BY <1>0, <1>1 DEF best
<1>2. CASE RejectModel
  <2>1. /\ result.status = "NotSolved" /\ incumbent_objective' = incumbent_objective
        /\ result'.status \in {"UnsupportedModel", "InvalidModel"}
    BY <1>2, ResultSteps DEF RejectModel, Report, StopOK, best
  <2> QED BY <1>0, <2>1 DEF Promise!Next, Promise!Answer, Promise!Justified, Promise!Unanswered
<1>3. CASE Report
  <2>1. /\ result.status = "NotSolved" /\ incumbent_objective' = incumbent_objective
        /\ result'.status = FinalStatus /\ pc = "finish"
    BY <1>3 DEF Report, StopOK, best
  <2>2. FinalStatus # "NotSolved" BY <2>1, ReportFacts
  <2>3. FinalStatus = "Infeasible" => incumbent_objective = Inf /\ Solutions(model) = {}
    BY <2>1, ReportFacts DEF IncumbentFeasible
  <2>4. FinalStatus = "Optimal" =>
          /\ incumbent_objective # Inf
          /\ \A p \in Solutions(model) :
                WithinGap(incumbent_objective, EvaluateObjective(model, p))
    BY <2>1, ReportFacts DEF Objective
  <2> QED BY <1>0, <2>1, <2>2, <2>3, <2>4 DEF Promise!Next, Promise!Answer, Promise!Justified, Promise!Unanswered
<1>4. ASSUME ~UNCHANGED best PROVE Promise!Next
  <2>1. PICK x \in Points : /\ Candidate(x) /\ Objective(x) < incumbent_objective
                            /\ incumbent' = x /\ incumbent_objective' = Objective(x)
    BY <1>4, IncumbentSteps
  <2>2. x \in AcceptedPoints(model)
    <3>1. incumbent' # NoPoint BY <2>1, NotAPoint
    <3> QED BY <1>0, <2>1, <3>1 DEF IncumbentFeasible, AcceptedPoints
  <2>3. result.status = "NotSolved" /\ result' = result
    BY <2>1, ResultSteps DEF Candidate, StopOK, RejectModel, Report
  <2> QED BY <1>0, <2>1, <2>2, <2>3 DEF Promise!Next, Promise!Improve, Promise!Unanswered, Objective
<1>5. result' = result \/ RejectModel \/ Report BY ResultSteps
<1> QED BY <1>1, <1>2, <1>3, <1>4, <1>5

\* Every behaviour of the engine is one the promise of MipSolve allows.
THEOREM EngineKeepsPromise ==
  ASSUME ProperOracle
  PROVE  Spec => PromiseKept
<1>1. AnswerSound /\ AnswerSound' /\ [Next]_vars =>
         [Promise!Next]_<<model, incumbent_objective, result.status>>
  BY PromiseStep
<1>2. Init => Promise!Init BY PromiseInit
<1> QED BY <1>1, <1>2, AnswersAreSound, PTL DEF Spec, PromiseKept, Promise!Spec

-----------------------------------------------------------------------------
(***************************************************************************)
(* Every child is strictly smaller than the node it was branched from.     *)
(***************************************************************************)
\* The value branched on is strictly between the bounds, once rounded.
LEMMA BranchBetween ==
  ASSUME PrimalTol <= IntTol, Fathomable, NEW v \in BranchChoices(relaxation.x)
  PROVE  Floor(relaxation.x[v]) < upper[v] /\ lower[v] < Ceil(relaxation.x[v])
<1> DEFINE a == relaxation.x[v]
<1>1. /\ v \in Vars /\ a \in Int /\ Floor(a) \in Int /\ Ceil(a) \in Int
      /\ IntegralityViolation(a) > IntTol
  BY BranchVariable, ValuesAssumption
<1>2. lower[v] \in Int /\ upper[v] \in Int BY <1>1, FathomFacts, BoxTyped DEF lower, upper
<1>3. lower[v] - PrimalTol <= a /\ a <= upper[v] + PrimalTol
  BY <1>1, FathomFacts DEF Usable, IsFeasible, WithinBounds
<1>4. PrimalTol \in Nat /\ IntTol \in Nat BY ToleranceAssumption
<1>5. IntegralityViolation(a) \in Int /\ Floor(a) < a - IntTol /\ a + IntTol < Ceil(a)
  BY <1>1, <1>4, ViolationBounds
<1> HIDE DEF a
<1>6. Floor(a) < upper[v] /\ lower[v] < Ceil(a) BY <1>1, <1>2, <1>3, <1>4, <1>5
<1> QED BY <1>6 DEF a

LEMMA ChildSmaller ==
  ASSUME PrimalTol <= IntTol, Fathomable, NEW v \in BranchChoices(relaxation.x),
         NEW c \in Children(v)
  PROVE  \/ EffectiveLower(model, c)[v] > lower[v]
         \/ EffectiveUpper(model, c)[v] < upper[v]
<1> DEFINE a == relaxation.x[v]
<1>1. v \in Vars /\ a \in Int /\ Floor(a) \in Int /\ Ceil(a) \in Int
  BY BranchVariable, ValuesAssumption
<1>2. /\ model \in Models /\ node \in NodeSet /\ c \in NodeSet /\ nodes_created \in Nat
  BY FathomFacts, ChildrenFacts
<1>3. /\ lower[v] \in Int /\ upper[v] \in Int
      /\ EffectiveLower(model, c)[v] \in Int /\ EffectiveUpper(model, c)[v] \in Int
  BY <1>1, <1>2, BoxTyped DEF lower, upper
<1>4. Floor(a) < upper[v] /\ lower[v] < Ceil(a) BY BranchBetween
<1>5. CASE c = DownChild(node, nodes_created, NodeBound, relaxation.x, v)
  <2>1. EffectiveUpper(model, c)[v] <= EffectiveUpper(model, c)[v] <=>
          EffectiveUpper(model, c)[v] <= upper[v] /\ EffectiveUpper(model, c)[v] <= Floor(a)
    BY <1>1, <1>2, <1>3, <1>5, DownBox
  <2> QED BY <1>1, <1>3, <1>4, <2>1
<1>6. CASE \E i \in Nat : c = UpChild(node, i, NodeBound, relaxation.x, v)
  <2>1. EffectiveLower(model, c)[v] <= EffectiveLower(model, c)[v] <=>
          lower[v] <= EffectiveLower(model, c)[v] /\ Ceil(a) <= EffectiveLower(model, c)[v]
    BY <1>1, <1>2, <1>3, <1>6, UpBox
  <2> QED BY <1>1, <1>3, <1>4, <2>1
<1> QED BY <1>5, <1>6, ChildCases

LEMMA ChildrenShrinkStep ==
  ASSUME PrimalTol <= IntTol
  PROVE  Typed /\ [Next]_vars => (pc # "entry" => \A n \in queue' \ queue :
           \E v \in Vars : \/ EffectiveLower(model, n)[v] > lower[v]
                           \/ EffectiveUpper(model, n)[v] < upper[v])
<1> SUFFICES ASSUME Typed, [Next]_vars, pc # "entry", NEW n \in queue' \ queue
             PROVE  \E v \in Vars : \/ EffectiveLower(model, n)[v] > lower[v]
                                    \/ EffectiveUpper(model, n)[v] < upper[v]
  OBVIOUS
<1>1. BranchNode
  BY DEF Next, vars, search, RejectModel, PushRoot, SearchExhausted, TimeLimitReached,
     NodeLimitReached, PopNode, SolveRelaxation, NodeInfeasible, RelaxationFailed,
     RelaxationInvalid, GenerateRootCuts, AcceptRelaxation, RecordBound, PruneNode,
     AcceptIntegral, NoBranch, TestGap, Report, Returned
<1>2. Fathomable BY <1>1 DEF BranchNode, Fathomable
<1>3. PICK v \in BranchChoices(relaxation.x) : queue' = queue \cup Children(v)
  BY <1>1 DEF BranchNode
<1>4. v \in Vars /\ n \in Children(v) BY <1>2, <1>3, BranchVariable
<1> QED BY <1>2, <1>3, <1>4, ChildSmaller

\* When primal_tolerance is at most integrality_tolerance every node that is
\* pushed is strictly smaller than its parent, whatever the oracle answers.
THEOREM SearchShrinks ==
  ASSUME PrimalTol <= IntTol
  PROVE  Spec => ChildrenShrink
<1>1. Typed /\ [Next]_vars => (pc # "entry" => \A n \in queue' \ queue :
        \E v \in Vars : \/ EffectiveLower(model, n)[v] > lower[v]
                        \/ EffectiveUpper(model, n)[v] < upper[v])
  BY ChildrenShrinkStep
<1>2. TypeOK /\ PlaceOK /\ QueueWellFormed <=> Typed BY DEF Typed
<1> QED BY <1>1, <1>2, TypeCorrect, PTL DEF Spec, ChildrenShrink

-----------------------------------------------------------------------------
(***************************************************************************)
(* With an oracle that answers exactly, the lowest open bound never falls. *)
(***************************************************************************)
\* Every solved relaxation is Optimal, to zero tolerance and without a dual
\* bound of its own.
ExactOracle == PrimalTol = 0 /\ DualValues = {} /\ InexactStatuses = {}

\* The rows and the box of a node, integrality left aside.
Relaxed(p, n) == InBox(p, n) /\ \A row \in rows : RowHolds(row, p, 0)
\* A node's bound holds for every point of its relaxation, integral or not: so
\* it holds for the minimiser a later solve of the node answers with.
BoundsBelowRelaxations ==
    \A n \in Open : \A p \in Points : Relaxed(p, n) => n.relaxation_bound <= Objective(p)

LEMMA ExactAnswers ==
  ASSUME ExactOracle, NEW m, NEW rws, NEW lo, NEW hi, NEW r \in Answers(m, rws, lo, hi)
  PROVE  /\ ~Finite(r.dual_bound)
         /\ r.status \in SolvedStatuses => r.status = "Optimal"
<1>1. ~Finite(-Inf) BY GridAssumption DEF Finite
<1>2. r.dual_bound = -Inf BY DEF Answers, ExactOracle
<1> QED BY <1>1, <1>2 DEF ExactOracle, SolvedStatuses, ExactStatuses

\* The bound recorded for the node in hand is the least value of its
\* relaxation, taken at a point of it.
LEMMA ExactBound ==
  ASSUME ExactOracle, Fathomable
  PROVE  /\ relaxation.x \in Points /\ Relaxed(relaxation.x, node)
         /\ NodeBound = Objective(relaxation.x)
         /\ \A p \in Points : Relaxed(p, node) => NodeBound <= Objective(p)
<1>1. /\ relaxation \in Answers(model, rows, lower, upper)
      /\ relaxation.status = "Optimal" /\ ~Finite(relaxation.dual_bound)
  BY FathomFacts, ExactAnswers
<1>2. IsFeasible(rows, relaxation.x, lower, upper, PrimalTol) BY FathomFacts DEF Usable
<1>3. \A p \in Points : IsFeasible(rows, p, lower, upper, 0) =>
         EvaluateObjective(model, relaxation.x) <= EvaluateObjective(model, p)
  BY <1>1, <1>2, AnswerFacts
<1>4. NodeBound = Objective(relaxation.x) BY <1>1 DEF NodeBound, Objective
<1>5. \A p \in Points : IsFeasible(rows, p, lower, upper, 0) <=> Relaxed(p, node)
  BY DEF IsFeasible, Relaxed, InBox, lower, upper
<1>6. IsFeasible(rows, relaxation.x, lower, upper, 0) BY <1>2 DEF ExactOracle
<1> QED BY <1>3, <1>4, <1>5, <1>6, FathomFacts DEF Objective

LEMMA RowsOnlyGrow == [Next]_vars => rows \subseteq rows'
<1> SUFFICES ASSUME [Next]_vars PROVE rows \subseteq rows' OBVIOUS
<1>1. CASE GenerateRootCuts BY <1>1 DEF GenerateRootCuts
<1>2. GenerateRootCuts \/ UNCHANGED rows
  BY DEF Next, vars, RejectModel, PushRoot, SearchExhausted, TimeLimitReached,
     NodeLimitReached, PopNode, SolveRelaxation, NodeInfeasible, RelaxationFailed,
     RelaxationInvalid, AcceptRelaxation, RecordBound, PruneNode, AcceptIntegral,
     BranchNode, NoBranch, TestGap, Report, Returned
<1> QED BY <1>1, <1>2

LEMMA RelaxationsShrink ==
  ASSUME [Next]_vars, NEW p, NEW n
  PROVE  Relaxed(p, n)' => Relaxed(p, n) /\ Objective(p)' = Objective(p)
BY ModelNeverChanges, RowsOnlyGrow DEF Relaxed, InBox, Objective

LEMMA BelowRelaxationsStep ==
  ASSUME ExactOracle
  PROVE  Typed /\ BoundsBelowRelaxations /\ [Next]_vars => BoundsBelowRelaxations'
<1> SUFFICES ASSUME Typed, BoundsBelowRelaxations, [Next]_vars,
                    NEW n \in Open', NEW p \in Points, Relaxed(p, n)'
             PROVE  n.relaxation_bound <= Objective(p)'
  BY DEF BoundsBelowRelaxations
<1>1. Relaxed(p, n) /\ Objective(p)' = Objective(p) BY RelaxationsShrink
<1> SUFFICES n.relaxation_bound <= Objective(p) BY <1>1
<1>2. CASE n = RootNode
  <2>1. model \in Models BY DEF Typed, TypeOK
  <2> QED BY <1>2, <2>1, ModelFacts, RootNodeTyped, GridAssumption DEF Objective
<1>3. CASE n \in Open BY <1>1, <1>3 DEF BoundsBelowRelaxations
<1>4. ASSUME Fathomable, NEW v \in BranchChoices(relaxation.x), n \in Children(v)
      PROVE  n.relaxation_bound <= Objective(p)
  <2>1. Relaxed(p, node) BY <1>1, <1>4, ChildInside DEF Relaxed
  <2> QED BY <1>4, <2>1, ExactBound, ChildrenFacts
<1> QED BY <1>2, <1>3, <1>4, OpenSteps DEF Drops

LEMMA BelowRelaxationsInit == Init => BoundsBelowRelaxations
BY DEF Init, BoundsBelowRelaxations, Open

\* Each node open after a step was open before it or carries a bound at least
\* that of the node it was branched from.
LEMMA BoundsOfNewNodes ==
  ASSUME ExactOracle, Typed, BoundsBelowRelaxations, [Next]_vars, pc # "entry",
         NEW n \in Open'
  PROVE  n \in Open \/ (node \in Open /\ node.relaxation_bound <= n.relaxation_bound)
<1>1. ~PushRoot BY DEF PushRoot
<1>2. ASSUME Fathomable, NEW v \in BranchChoices(relaxation.x), n \in Children(v)
      PROVE  node \in Open /\ node.relaxation_bound <= n.relaxation_bound
  <2>1. node \in Open /\ n.relaxation_bound = NodeBound BY <1>2, FathomFacts, ChildrenFacts
  <2>2. node.relaxation_bound <= Objective(relaxation.x)
    BY <1>2, <2>1, ExactBound DEF BoundsBelowRelaxations
  <2> QED BY <1>2, <2>1, <2>2, ExactBound
<1> QED BY <1>1, <1>2, OpenSteps DEF Drops

LEMMA LeastOfBounds ==
  ASSUME NEW T, \A n \in T : n.relaxation_bound \in Int /\ -Inf <= n.relaxation_bound,
         NEW b, b = Min({n.relaxation_bound : n \in T} \cup {Inf})
  PROVE  /\ b \in Int /\ b <= Inf /\ \A n \in T : b <= n.relaxation_bound
         /\ b = Inf \/ \E n \in T : b = n.relaxation_bound
<1> DEFINE S == {n.relaxation_bound : n \in T} \cup {Inf}
<1>1. Inf \in Int /\ -Inf \in Int /\ -Inf <= Inf BY GridAssumption
<1>2. S # {} /\ \A s \in S : s \in Int /\ -Inf <= s BY <1>1
<1>3. Inf \in S /\ \A n \in T : n.relaxation_bound \in S OBVIOUS
<1>4. \A s \in S : s = Inf \/ \E n \in T : s = n.relaxation_bound OBVIOUS
<1> HIDE DEF S
<1>5. Min(S) \in S /\ Min(S) \in Int /\ \A s \in S : Min(S) <= s
  BY <1>1, <1>2, MinIsLeast
<1>6. b = Min(S) BY DEF S
<1> QED BY <1>3, <1>4, <1>5, <1>6

Numbered == \A n \in Open : n.relaxation_bound \in Int /\ -Inf <= n.relaxation_bound
LEMMA BoundsAreNumbers == Typed => Numbered
<1>1. Typed => \A n \in Open : n \in NodeSet BY DEF Typed, TypeOK, Open
<1> QED BY <1>1 DEF Typed, QueueWellFormed, NodeSet, Numbered

LEMMA LowestBoundStep ==
  ASSUME ExactOracle
  PROVE  Typed /\ Typed' /\ BoundsBelowRelaxations /\ [Next]_vars
         => (pc # "entry" => LowestBound' >= LowestBound)
<1> SUFFICES ASSUME Typed, Typed', BoundsBelowRelaxations, [Next]_vars, pc # "entry"
             PROVE  LowestBound' >= LowestBound
  OBVIOUS
<1>0. Numbered /\ Numbered' BY BoundsAreNumbers, PTL
<1>1. \A n \in Open : n.relaxation_bound \in Int /\ -Inf <= n.relaxation_bound
  BY <1>0 DEF Numbered
<1>2. \A n \in Open' : n.relaxation_bound \in Int /\ -Inf <= n.relaxation_bound
  BY <1>0 DEF Numbered
<1>3. LowestBound \in Int /\ LowestBound <= Inf
      /\ \A n \in Open : LowestBound <= n.relaxation_bound
  BY <1>1, LeastOfBounds DEF LowestBound
<1>4. LowestBound' \in Int
      /\ (LowestBound' = Inf \/ \E n \in Open' : LowestBound' = n.relaxation_bound)
  BY <1>2, LeastOfBounds DEF LowestBound
<1>5. \A n \in Open' : LowestBound <= n.relaxation_bound
  <2> TAKE n \in Open'
  <2>1. n \in Open \/ (node \in Open /\ node.relaxation_bound <= n.relaxation_bound)
    BY BoundsOfNewNodes
  <2> QED BY <1>1, <1>2, <1>3, <2>1
<1> QED BY <1>3, <1>4, <1>5

\* With an oracle that answers exactly, the lowest bound of the open nodes
\* never falls once the root is pushed, whatever the model and the cuts.
THEOREM BestFirstSearchClimbs ==
  ASSUME ExactOracle
  PROVE  Spec => LowestBoundNeverFalls
<1> DEFINE Climbing == Typed /\ BoundsBelowRelaxations
<1>1. Init => Climbing BY InitTyped, BelowRelaxationsInit
<1>2. Climbing /\ [Next]_vars => Climbing'
  BY TypeStep, PlaceStep, QueueStep, BelowRelaxationsStep DEF Typed
<1>3. Climbing /\ Climbing' /\ [Next]_vars => (pc # "entry" => LowestBound' >= LowestBound)
  BY LowestBoundStep
<1> QED BY <1>1, <1>2, <1>3, PTL DEF Spec, LowestBoundNeverFalls

-----------------------------------------------------------------------------
(***************************************************************************)
(* The repository's own generator meets the contract of CutAssumption.     *)
(***************************************************************************)
\* The rows of a model, and that a finite bound is finite when it is rounded:
\* a double's floor and ceiling are.
CutRows ==
    [indices : Seq(Vars), coefficients : Seq(Int), lower : -Inf .. Inf, upper : -Inf .. Inf]
BoundsRound(row) ==
    /\ Finite(row.upper) => Finite(Floor(row.upper))
    /\ Finite(row.lower) => Finite(Ceil(row.lower))

\* How far coefficients that are integral within int_tol can take the activity
\* of an integral point from an integer.
Drift(row, p) == Sum([k \in DOMAIN row.indices |-> CutTol * Magnitude(p[row.indices[k]])])
\* The drift does not bridge the distance from a bound to the next integer.
DriftIsShort(row, p) ==
    /\ row.upper * Unit + Drift(row, p) < (Floor(row.upper) + Unit) * Unit
    /\ (Ceil(row.lower) - Unit) * Unit < row.lower * Unit - Drift(row, p)

\* A value that is off an integer, in steps of 1 / Unit^2, by at most d.
NearIntegral(a, d) ==
    \E i \in Int : i * (Unit * Unit) - d <= a /\ a <= i * (Unit * Unit) + d

LEMMA SumIsOver == \A f : Sum(f) = Numbers!Over(f, DOMAIN f)
BY DEF Sum, Numbers!Over, FoldFunction, FoldFunctionOnSet, MapThenFoldSet, Plus,
       Numbers!FoldFunctionOnSet, Numbers!MapThenFoldSet

\* A coefficient that is integral within int_tol times an integral value.
LEMMA ProductNearIntegral ==
  ASSUME NEW c \in Int, IntegralityViolation(c) <= CutTol,
         NEW b \in Int, IntegralityViolation(b) = 0
  PROVE  NearIntegral(c * b, CutTol * Magnitude(b))
<1>0. Unit \in Int /\ CutTol \in Int BY GridAssumption, CutTolAssumption
<1>1. PICK k \in Int : Round(c) = k * Unit BY RoundNear
<1>2. PICK j \in Int : b = j * Unit BY Multiple
<1> DEFINE e == c - k * Unit
<1>3. e \in Int /\ -CutTol <= e /\ e <= CutTol
  <2>1. k * Unit \in Int BY <1>0
  <2> QED BY <1>0, <1>1, <2>1 DEF IntegralityViolation, Magnitude
<1>4. c * b = (k * j) * (Unit * Unit) + e * b
  <2>1. c = k * Unit + e BY <1>0, <1>3
  <2>2. \A f \in Int : (k * Unit + f) * (j * Unit) = (k * j) * (Unit * Unit) + f * (j * Unit)
    BY <1>0
  <2> HIDE DEF e
  <2> QED BY <1>2, <1>3, <2>1, <2>2
<1> HIDE DEF e
<1>5. -(CutTol * Magnitude(b)) <= e * b /\ e * b <= CutTol * Magnitude(b)
  <2>1. \A t, m \in Int : -t <= e /\ e <= t /\ 0 <= m => -(t * m) <= e * m /\ e * m <= t * m
    BY <1>3
  <2>2. CASE b >= 0
    <3>1. Magnitude(b) = b BY <2>2 DEF Magnitude
    <3> QED BY <1>0, <1>3, <2>1, <2>2, <3>1
  <2>3. CASE b < 0
    <3>1. Magnitude(b) = -b /\ -b \in Int /\ 0 <= -b BY <2>3 DEF Magnitude
    <3>2. e * (-b) = -(e * b) /\ e * b \in Int BY <1>3
    <3>3. -(CutTol * (-b)) <= e * (-b) /\ e * (-b) <= CutTol * (-b) BY <1>0, <1>3, <2>1, <3>1
    <3>4. CutTol * (-b) \in Int BY <1>0, <3>1
    <3> HIDE DEF e
    <3> QED BY <3>1, <3>2, <3>3, <3>4
  <2> QED BY <2>2, <2>3
<1>6. k * j \in Int /\ Unit * Unit \in Int /\ (k * j) * (Unit * Unit) \in Int /\ e * b \in Int
      /\ CutTol * Magnitude(b) \in Int
  BY <1>0, <1>3 DEF Magnitude
<1>7. c * b \in Int OBVIOUS
<1> DEFINE i == k * j
           u == Unit * Unit
           d == CutTol * Magnitude(b)
<1>8. /\ i \in Int /\ i * u \in Int /\ d \in Int /\ c * b = i * u + e * b
      /\ -d <= e * b /\ e * b <= d
  BY <1>4, <1>5, <1>6
<1> SUFFICES \E z \in Int : z * u - d <= c * b /\ c * b <= z * u + d BY DEF NearIntegral
<1> HIDE DEF i, u, d
<1>9. i * u - d <= c * b /\ c * b <= i * u + d BY <1>6, <1>8
<1> QED BY <1>8, <1>9

\* The activity of a row the generator rounds, at a point that is wanted.
LEMMA ActivityNearIntegral ==
  ASSUME NEW m, NEW row \in CutRows, IntegralRow(m, row), ValidColumns(row),
         NEW p, IsIntegerFeasible(m, p, 0)
  PROVE  /\ Activity(row, p) \in Int /\ Drift(row, p) \in Int
         /\ NearIntegral(Activity(row, p), Drift(row, p))
<1> DEFINE D == DOMAIN row.indices
           f == [k \in D |-> row.coefficients[k] * p[row.indices[k]]]
           h == [k \in D |-> CutTol * Magnitude(p[row.indices[k]])]
           R == {e \in Int \X Int : NearIntegral(e[1], e[2])}
<1>0. Unit \in Int /\ CutTol \in Int BY GridAssumption, CutTolAssumption
<1>1. D = 1 .. Len(row.indices) /\ Len(row.indices) \in Nat /\ D = DOMAIN row.coefficients
  BY DEF CutRows, ValidColumns
<1>2. IsFiniteSet(D) BY <1>1, FS_Interval
<1>3. ASSUME NEW k \in D
      PROVE  /\ row.coefficients[k] \in Int /\ IntegralityViolation(row.coefficients[k]) <= CutTol
             /\ p[row.indices[k]] \in Int /\ IntegralityViolation(p[row.indices[k]]) = 0
  <2>1. row.coefficients[k] \in Int /\ row.indices[k] \in Vars BY <1>1, <1>3 DEF CutRows
  <2>2. p[row.indices[k]] \in Int BY <2>1, ValuesAssumption DEF IsIntegerFeasible, Points
  <2>3. IntegralityViolation(p[row.indices[k]]) <= 0 BY <1>3 DEF IsIntegerFeasible, IntegralRow
  <2>4. IntegralityViolation(p[row.indices[k]]) >= 0
    <3>1. PICK i \in Int : Round(p[row.indices[k]]) = i * Unit BY <2>2, RoundNear
    <3>2. i * Unit \in Int BY <1>0
    <3> QED BY <2>2, <3>1, <3>2 DEF IntegralityViolation, Magnitude
  <2>5. IntegralityViolation(p[row.indices[k]]) \in Int
    <3>1. PICK i \in Int : Round(p[row.indices[k]]) = i * Unit BY <2>2, RoundNear
    <3>2. i * Unit \in Int BY <1>0
    <3> QED BY <2>2, <3>1, <3>2 DEF IntegralityViolation, Magnitude
  <2> QED BY <1>3, <2>1, <2>2, <2>3, <2>4, <2>5 DEF IntegralRow
<1>4. \A k \in D : /\ f[k] \in Int /\ h[k] \in Int /\ NearIntegral(f[k], h[k])
  <2> TAKE k \in D
  <2>1. f[k] = row.coefficients[k] * p[row.indices[k]]
        /\ h[k] = CutTol * Magnitude(p[row.indices[k]])
    OBVIOUS
  <2>2. NearIntegral(row.coefficients[k] * p[row.indices[k]], CutTol * Magnitude(p[row.indices[k]]))
    BY <1>3, ProductNearIntegral
  <2>3. f[k] \in Int /\ h[k] \in Int BY <1>0, <1>3, <2>1 DEF Magnitude
  <2> QED BY <2>1, <2>2, <2>3
<1>5. <<0, 0>> \in R
  <2>1. 0 * (Unit * Unit) - 0 <= 0 /\ 0 <= 0 * (Unit * Unit) + 0 BY <1>0
  <2> QED BY <2>1 DEF NearIntegral
<1>6. ASSUME NEW a \in Int, NEW d \in Int, NEW b \in Int, NEW c \in Int,
             NearIntegral(a, d), NearIntegral(b, c)
      PROVE  a + b \in Int /\ d + c \in Int /\ NearIntegral(a + b, d + c)
  <2> DEFINE u == Unit * Unit
  <2>1. PICK i \in Int : i * u - d <= a /\ a <= i * u + d BY <1>6 DEF NearIntegral
  <2>2. PICK j \in Int : j * u - c <= b /\ b <= j * u + c BY <1>6 DEF NearIntegral
  <2>3. u \in Int BY <1>0
  <2> SUFFICES \E z \in Int : z * u - (d + c) <= a + b /\ a + b <= z * u + (d + c)
    BY DEF NearIntegral
  <2> HIDE DEF u
  <2>4. (i + j) * u = i * u + j * u /\ i + j \in Int /\ i * u \in Int /\ j * u \in Int BY <2>3
  <2>5. (i + j) * u - (d + c) <= a + b /\ a + b <= (i + j) * u + (d + c) BY <2>1, <2>2, <2>4
  <2> QED BY <2>4, <2>5
<1> HIDE DEF f, h, D
<1>7. \A k \in D : \A a, b : <<a, b>> \in R => <<Plus(f[k], a), Plus(h[k], b)>> \in R
  <2> TAKE k \in D
  <2> TAKE a, b
  <2> HAVE <<a, b>> \in R
  <2>1. a \in Int /\ b \in Int /\ NearIntegral(a, b) OBVIOUS
  <2>2. f[k] + a \in Int /\ h[k] + b \in Int /\ NearIntegral(f[k] + a, h[k] + b)
    BY <1>4, <1>6, <2>1
  <2> QED BY <2>2 DEF Plus
<1>8. <<Numbers!Over(f, D), Numbers!Over(h, D)>> \in R
  <2>1. Numbers!IsFiniteSet(D) BY <1>2 DEF IsFiniteSet, Numbers!IsFiniteSet
  <2> HIDE DEF R
  <2> QED BY <1>5, <1>7, <2>1, Numbers!OverRelated
<1>9. Activity(row, p) = Numbers!Over(f, D) /\ Drift(row, p) = Numbers!Over(h, D)
  BY SumIsOver DEF Activity, Drift, f, h, D
<1> QED BY <1>8, <1>9

-----------------------------------------------------------------------------
\* The two kinds of cuts.
UpperCut(row) == [row EXCEPT !.lower = -Inf, !.upper = Floor(@)]
LowerCut(row) == [row EXCEPT !.lower = Ceil(@), !.upper = Inf]

\* The activity of a wanted point is past a cut by at most the drift.
PastBy(cut, p, d) ==
    /\ cut.lower * Unit - d <= Activity(cut, p)
    /\ Activity(cut, p) <= cut.upper * Unit + d

LEMMA CutShape ==
  ASSUME NEW row \in CutRows
  PROVE  /\ UpperCut(row).indices = row.indices /\ LowerCut(row).indices = row.indices
         /\ UpperCut(row).coefficients = row.coefficients
         /\ LowerCut(row).coefficients = row.coefficients
         /\ UpperCut(row).lower = -Inf /\ UpperCut(row).upper = Floor(row.upper)
         /\ LowerCut(row).lower = Ceil(row.lower) /\ LowerCut(row).upper = Inf
         /\ row.lower \in Int /\ -Inf <= row.lower /\ row.lower <= Inf
         /\ row.upper \in Int /\ -Inf <= row.upper /\ row.upper <= Inf
BY GridAssumption DEF CutRows, UpperCut, LowerCut

LEMMA CutsAreOfRows ==
  ASSUME NEW m, m.rows \subseteq CutRows, NEW x, NEW cut \in RoundingCuts(m, x)
  PROVE  \E row \in m.rows :
            /\ row \in CutRows /\ IntegralRow(m, row)
            /\ \/ cut = UpperCut(row) /\ RoundsUpper(row, x)
               \/ cut = LowerCut(row) /\ RoundsLower(row, x)
BY DEF RoundingCuts, UpperCut, LowerCut

\* An integer times Unit^2 that is below the next one is not above this one.
LEMMA NoIntegerBetween ==
  ASSUME NEW i \in Int, NEW q \in Int, i * (Unit * Unit) < (q * Unit + Unit) * Unit
  PROVE  i * (Unit * Unit) <= (q * Unit) * Unit
<1>0. Unit \in Int /\ Unit > 0 BY GridAssumption
<1>1. i * (Unit * Unit) = (i * Unit) * Unit /\ i * Unit \in Int /\ q * Unit \in Int BY <1>0
<1>2. q * Unit + Unit = (q + 1) * Unit BY <1>0
<1>3. \A b, c \in Int : b * Unit < c * Unit => b < c
  <2>1. \A b, c, d \in Int : b >= c /\ d > 0 => b * d >= c * d OBVIOUS
  <2> TAKE b, c \in Int
  <2>2. b * Unit \in Int /\ c * Unit \in Int BY <1>0
  <2>3. b >= c => b * Unit >= c * Unit BY <1>0, <2>1
  <2> QED BY <2>2, <2>3
<1>4. i * Unit < (q + 1) * Unit
  <2>1. (i * Unit) * Unit < ((q + 1) * Unit) * Unit BY <1>1, <1>2
  <2>2. (q + 1) * Unit \in Int BY <1>0
  <2> QED BY <1>1, <1>3, <2>1, <2>2
<1>5. i * Unit <= q * Unit BY <1>4, Factors
<1>6. \A b, c, d \in Int : b <= c /\ d > 0 => b * d <= c * d OBVIOUS
<1> QED BY <1>0, <1>1, <1>5, <1>6

\* Rounding inward costs a wanted point at most the drift.
LEMMA RoundedBounds ==
  ASSUME NEW a \in Int, NEW d \in Int, 0 <= d, NearIntegral(a, d),
         NEW lo \in Int, NEW hi \in Int, lo * Unit <= a, a <= hi * Unit
  PROVE  /\ hi * Unit + d < (Floor(hi) + Unit) * Unit => a <= Floor(hi) * Unit + d
         /\ (Ceil(lo) - Unit) * Unit < lo * Unit - d => Ceil(lo) * Unit - d <= a
<1>0. Unit \in Int /\ Unit > 0 BY GridAssumption
<1> DEFINE U == Unit * Unit
<1>1. PICK i \in Int : i * U - d <= a /\ a <= i * U + d BY DEF NearIntegral
<1>2. U \in Int /\ i * U \in Int BY <1>0
<1>3. ASSUME hi * Unit + d < (Floor(hi) + Unit) * Unit PROVE a <= Floor(hi) * Unit + d
  <2>1. PICK q \in Int : Floor(hi) = q * Unit BY <1>0 DEF Floor
  <2>2. hi * Unit \in Int /\ (q * Unit + Unit) * Unit \in Int /\ (q * Unit) * Unit \in Int BY <1>0
  <2>3. i * U < (q * Unit + Unit) * Unit
    <3> HIDE DEF U
    <3> QED BY <1>1, <1>2, <1>3, <2>1, <2>2
  <2>4. i * U <= (q * Unit) * Unit BY <2>3, NoIntegerBetween
  <2> HIDE DEF U
  <2> QED BY <1>1, <1>2, <2>1, <2>2, <2>4
<1>4. ASSUME (Ceil(lo) - Unit) * Unit < lo * Unit - d PROVE Ceil(lo) * Unit - d <= a
  <2>1. PICK q \in Int : Floor(-lo) = q * Unit BY <1>0 DEF Floor
  <2>2. /\ lo * Unit \in Int /\ (q * Unit + Unit) * Unit \in Int /\ (q * Unit) * Unit \in Int
        /\ q * Unit \in Int
    BY <1>0
  <2>3. Ceil(lo) = -(q * Unit) BY <2>1 DEF Ceil
  <2>4. /\ (Ceil(lo) - Unit) * Unit = -((q * Unit + Unit) * Unit)
        /\ Ceil(lo) * Unit = -((q * Unit) * Unit)
    BY <1>0, <2>2, <2>3
  <2>5. (-i) * U = -(i * U) /\ -i \in Int BY <1>2
  <2>6. (-i) * U < (q * Unit + Unit) * Unit
    <3> HIDE DEF U
    <3> QED BY <1>1, <1>2, <1>4, <2>2, <2>4, <2>5
  <2>7. (-i) * U <= (q * Unit) * Unit BY <2>5, <2>6, NoIntegerBetween
  <2> HIDE DEF U
  <2> QED BY <1>1, <1>2, <2>2, <2>4, <2>5, <2>7
<1> QED BY <1>3, <1>4

LEMMA DriftIsPositive ==
  ASSUME NEW row \in CutRows, NEW p \in Points, ValidColumns(row)
  PROVE  /\ Drift(row, p) \in Int /\ 0 <= Drift(row, p)
         /\ CutTol = 0 => Drift(row, p) = 0
<1> DEFINE D == DOMAIN row.indices
           h == [k \in D |-> CutTol * Magnitude(p[row.indices[k]])]
           Good == {e \in Nat : CutTol = 0 => e = 0}
<1>0. CutTol \in Nat BY CutTolAssumption
<1>1. D = 1 .. Len(row.indices) /\ Len(row.indices) \in Nat BY DEF CutRows
<1>2. IsFiniteSet(D) BY <1>1, FS_Interval
<1>3. \A k \in D : h[k] \in Good
  <2> TAKE k \in D
  <2>1. p[row.indices[k]] \in Int BY ValuesAssumption DEF Points, ValidColumns
  <2>2. Magnitude(p[row.indices[k]]) \in Nat BY <2>1 DEF Magnitude
  <2>3. \A t, b \in Nat : t * b \in Nat /\ (t = 0 => t * b = 0) OBVIOUS
  <2> QED BY <1>0, <2>2, <2>3
<1> HIDE DEF h, D
<1>4. 0 \in Good /\ \A k \in D : \A a \in Good : Plus(h[k], a) \in Good
  BY <1>3 DEF Plus
<1>5. Numbers!Over(h, D) \in Good
  <2>1. Numbers!IsFiniteSet(D) BY <1>2 DEF IsFiniteSet, Numbers!IsFiniteSet
  <2> HIDE DEF Good
  <2> QED BY <1>4, <2>1, Numbers!OverStays
<1>6. Drift(row, p) = Numbers!Over(h, D) BY SumIsOver DEF Drift, h, D
<1> QED BY <1>5, <1>6

\* A rounding cut costs no wanted point more than the drift, as long as the
\* drift does not reach the next integer: the comment on RoundingCutGenerator
\* with the integrality tolerance taken into account.
THEOREM RoundingCutsLoseTheDrift ==
  ASSUME NEW m, m.rows \subseteq CutRows, ValidModel(m),
         NEW x, NEW cut \in RoundingCuts(m, x), NEW p \in Solutions(m)
  PROVE  (\A row \in m.rows : DriftIsShort(row, p)) => PastBy(cut, p, Drift(cut, p))
<1> SUFFICES ASSUME \A row \in m.rows : DriftIsShort(row, p)
             PROVE  PastBy(cut, p, Drift(cut, p))
  OBVIOUS
<1>0. Unit \in Int /\ Unit > 0 /\ Inf \in Int BY GridAssumption
<1>1. PICK row \in m.rows :
         /\ row \in CutRows /\ IntegralRow(m, row)
         /\ \/ cut = UpperCut(row) /\ RoundsUpper(row, x)
            \/ cut = LowerCut(row) /\ RoundsLower(row, x)
  BY CutsAreOfRows
<1>2. ValidColumns(row) /\ IsIntegerFeasible(m, p, 0) /\ p \in Points /\ RowHolds(row, p, 0)
  BY DEF ValidModel, Solutions, IsFeasible
<1> DEFINE a == Activity(row, p)
           d == Drift(row, p)
<1>3. a \in Int /\ d \in Int /\ 0 <= d /\ NearIntegral(a, d)
  BY <1>1, <1>2, ActivityNearIntegral, DriftIsPositive
<1>4. /\ row.lower \in Int /\ -Inf <= row.lower /\ row.upper \in Int /\ row.upper <= Inf
  BY <1>1, CutShape
<1>5. row.lower * Unit <= a /\ a <= row.upper * Unit
  <2>1. row.lower - 0 = row.lower /\ row.upper + 0 = row.upper BY <1>4
  <2> QED BY <1>2, <2>1 DEF RowHolds
<1>6. /\ row.upper * Unit + d < (Floor(row.upper) + Unit) * Unit
      /\ (Ceil(row.lower) - Unit) * Unit < row.lower * Unit - d
  BY DEF DriftIsShort
<1>7. cut.indices = row.indices /\ cut.coefficients = row.coefficients BY <1>1, CutShape
<1>8. Activity(cut, p) = a /\ Drift(cut, p) = d BY <1>7 DEF Activity, Drift
<1> HIDE DEF a, d
<1>9. a <= Floor(row.upper) * Unit + d /\ Ceil(row.lower) * Unit - d <= a
  BY <1>3, <1>4, <1>5, <1>6, RoundedBounds
<1>10. (-Inf) * Unit <= row.lower * Unit /\ row.upper * Unit <= Inf * Unit
  <2>1. \A b, c, e \in Int : b <= c /\ e > 0 => b * e <= c * e OBVIOUS
  <2>2. -Inf \in Int BY <1>0
  <2> QED BY <1>0, <1>4, <2>1, <2>2
<1>11. /\ (-Inf) * Unit \in Int /\ row.lower * Unit \in Int /\ row.upper * Unit \in Int
       /\ Inf * Unit \in Int
  BY <1>0, <1>4
<1>12. (-Inf) * Unit - d <= a /\ a <= Inf * Unit + d BY <1>3, <1>5, <1>10, <1>11
<1>13. \/ cut.lower = -Inf /\ cut.upper = Floor(row.upper)
       \/ cut.lower = Ceil(row.lower) /\ cut.upper = Inf
  BY <1>1, CutShape
<1> QED BY <1>8, <1>9, <1>12, <1>13 DEF PastBy

\* With int_tol = 0 the generator keeps the contract the engine relies on: its
\* cuts are well formed and remove no wanted point.
THEOREM RoundingCutsMeetTheContract ==
  ASSUME CutTol = 0, NEW m, m.rows \subseteq CutRows, ValidModel(m),
         \A row \in m.rows : BoundsRound(row),
         NEW x, NEW cut \in RoundingCuts(m, x)
  PROVE  ValidCut(cut) /\ \A p \in Solutions(m) : RowHolds(cut, p, 0)
<1>0. Unit \in Int /\ Unit > 0 /\ Inf \in Int /\ Inf > 0 BY GridAssumption
<1>1. PICK row \in m.rows :
         /\ row \in CutRows /\ IntegralRow(m, row)
         /\ \/ cut = UpperCut(row) /\ RoundsUpper(row, x)
            \/ cut = LowerCut(row) /\ RoundsLower(row, x)
  BY CutsAreOfRows
<1>2. /\ cut.indices = row.indices /\ cut.coefficients = row.coefficients
      /\ \/ cut.lower = -Inf /\ cut.upper = Floor(row.upper) /\ RoundsUpper(row, x)
         \/ cut.lower = Ceil(row.lower) /\ cut.upper = Inf /\ RoundsLower(row, x)
  BY <1>1, CutShape
<1>3. ValidCut(cut)
  <2>1. cut.indices # <<>> /\ ValidColumns(cut)
    BY <1>1, <1>2 DEF IntegralRow, ValidModel, ValidColumns
  <2>2. row.lower \in Int /\ row.upper \in Int BY <1>1, CutShape
  <2>3. Floor(row.upper) \in Int /\ Ceil(row.lower) \in Int BY <2>2, FloorCeil
  <2>4. /\ RoundsUpper(row, x) => Finite(Floor(row.upper))
        /\ RoundsLower(row, x) => Finite(Ceil(row.lower))
    BY DEF BoundsRound, RoundsUpper, RoundsLower
  <2>5. (Finite(cut.upper) /\ cut.lower = -Inf) \/ (Finite(cut.lower) /\ cut.upper = Inf)
    BY <1>2, <2>4
  <2>6. cut.lower <= cut.upper BY <1>0, <1>2, <2>3, <2>5 DEF Finite
  <2> QED BY <2>1, <2>5, <2>6 DEF ValidCut
<1>4. ASSUME NEW p \in Solutions(m) PROVE RowHolds(cut, p, 0)
  <2>1. p \in Points BY DEF Solutions
  <2>2. ASSUME NEW r \in m.rows PROVE DriftIsShort(r, p)
    <3>1. r \in CutRows /\ ValidColumns(r) BY DEF ValidModel
    <3>2. Drift(r, p) = 0 BY <2>1, <3>1, DriftIsPositive
    <3>3. r.upper \in Int /\ r.lower \in Int BY <3>1, CutShape
    <3>4. /\ Floor(r.upper) \in Int /\ r.upper < Floor(r.upper) + Unit
          /\ Ceil(r.lower) \in Int /\ Ceil(r.lower) - Unit < r.lower
      BY <1>0, <3>3, FloorCeil
    <3>5. \A b, c, e \in Int : b < c /\ e > 0 => b * e < c * e OBVIOUS
    <3>6. /\ r.upper * Unit < (Floor(r.upper) + Unit) * Unit
          /\ (Ceil(r.lower) - Unit) * Unit < r.lower * Unit
      <4>1. Floor(r.upper) + Unit \in Int /\ Ceil(r.lower) - Unit \in Int BY <1>0, <3>4
      <4> QED BY <1>0, <3>3, <3>4, <3>5, <4>1
    <3>7. r.upper * Unit \in Int /\ r.lower * Unit \in Int BY <1>0, <3>3
    <3> QED BY <3>2, <3>6, <3>7 DEF DriftIsShort
  <2>3. PastBy(cut, p, Drift(cut, p)) BY <1>4, <2>2, RoundingCutsLoseTheDrift
  <2>4. Drift(cut, p) = 0
    <3>1. ValidColumns(row) BY DEF ValidModel
    <3>2. Drift(row, p) = 0 BY <1>1, <2>1, <3>1, DriftIsPositive
    <3> QED BY <1>2, <3>2 DEF Drift
  <2>5. row.lower \in Int /\ row.upper \in Int BY <1>1, CutShape
  <2>6. cut.lower \in Int /\ cut.upper \in Int
    BY <1>0, <1>2, <2>5, FloorCeil
  <2>7. /\ cut.lower * Unit \in Int /\ cut.upper * Unit \in Int
        /\ cut.lower - 0 = cut.lower /\ cut.upper + 0 = cut.upper
    BY <1>0, <2>6
  <2>8. cut.lower * Unit <= Activity(cut, p) /\ Activity(cut, p) <= cut.upper * Unit
    BY <2>3, <2>4, <2>7 DEF PastBy
  <2> QED BY <2>7, <2>8 DEF RowHolds
<1> QED BY <1>3, <1>4

-----------------------------------------------------------------------------
(***************************************************************************)
(* The search is finite by itself: branching uses up the integer boxes.    *)
(***************************************************************************)
\* The steps across a node's box.
Room(m, n) == Sum(Spans(m, EffectiveLower(m, n), EffectiveUpper(m, n)))

\* What a node is deeper its box is smaller.
Shallow ==
    Accepted => \A n \in Open : n.depth * Unit + Room(model, n) <= Room(model, RootNode)

LEMMA FloorIsGreatest ==
  ASSUME NEW a \in Int, NEW k \in Int, k * Unit <= a
  PROVE  k * Unit <= Floor(a)
<1>0. Unit \in Int /\ Unit > 0 BY GridAssumption
<1>1. PICK q \in Int : Floor(a) = q * Unit BY <1>0 DEF Floor
<1>2. a < q * Unit + Unit BY <1>1, FloorCeil
<1>3. (q + 1) * Unit = q * Unit + Unit /\ k * Unit \in Int /\ q * Unit \in Int BY <1>0
<1> QED BY <1>0, <1>1, <1>2, <1>3, Factors

LEMMA CeilIsLeast ==
  ASSUME NEW a \in Int, NEW k \in Int, a <= k * Unit
  PROVE  Ceil(a) <= k * Unit
<1>0. Unit \in Int /\ Unit > 0 BY GridAssumption
<1>1. (-k) * Unit = -(k * Unit) /\ k * Unit \in Int BY <1>0
<1>2. (-k) * Unit <= -a BY <1>1
<1>3. (-k) * Unit <= Floor(-a) BY <1>2, FloorIsGreatest
<1>4. Floor(-a) \in Int BY FloorCeil
<1> QED BY <1>1, <1>3, <1>4 DEF Ceil

LEMMA RoundedAreMultiples ==
  ASSUME NEW a \in Int
  PROVE  (\E k \in Int : Floor(a) = k * Unit) /\ (\E k \in Int : Ceil(a) = k * Unit)
<1>0. Unit \in Int /\ Unit > 0 BY GridAssumption
<1>1. PICK k \in Int : Floor(-a) = k * Unit BY <1>0 DEF Floor
<1>2. Ceil(a) = (-k) * Unit BY <1>0, <1>1 DEF Ceil
<1>3. \E q \in Int : Floor(a) = q * Unit BY <1>0 DEF Floor
<1> QED BY <1>2, <1>3

LEMMA RoundingIsMonotone ==
  ASSUME NEW a \in Int, NEW b \in Int, a <= b
  PROVE  Floor(a) <= Floor(b) /\ Ceil(a) <= Ceil(b)
<1>1. PICK k \in Int : Floor(a) = k * Unit BY RoundedAreMultiples
<1>2. PICK j \in Int : Ceil(b) = j * Unit BY RoundedAreMultiples
<1>3. Floor(a) \in Int /\ Floor(a) <= b /\ Ceil(b) \in Int /\ a <= Ceil(b) BY FloorCeil
<1>4. k * Unit <= b /\ a <= j * Unit BY <1>1, <1>2, <1>3
<1> QED BY <1>1, <1>2, <1>4, FloorIsGreatest, CeilIsLeast

\* An integer strictly inside a bound is a step inside the bound rounded outward.
LEMMA StepInside ==
  ASSUME NEW k \in Int, NEW b \in Int
  PROVE  /\ k * Unit < b => k * Unit + Unit <= Ceil(b)
         /\ b < k * Unit => Floor(b) <= k * Unit - Unit
<1>0. Unit \in Int /\ Unit > 0 BY GridAssumption
<1>1. k * Unit \in Int BY <1>0
<1>2. ASSUME k * Unit < b PROVE k * Unit + Unit <= Ceil(b)
  <2>1. PICK j \in Int : Ceil(b) = j * Unit BY RoundedAreMultiples
  <2>2. j * Unit \in Int /\ j - 1 \in Int /\ (j - 1) + 1 = j /\ (j - 1) * Unit = j * Unit - Unit
    BY <1>0
  <2>3. k * Unit < ((j - 1) + 1) * Unit BY <1>1, <1>2, <2>1, <2>2, FloorCeil
  <2>4. k * Unit <= (j - 1) * Unit BY <2>2, <2>3, Factors
  <2> QED BY <1>0, <1>1, <2>1, <2>2, <2>4
<1>3. ASSUME b < k * Unit PROVE Floor(b) <= k * Unit - Unit
  <2>1. PICK j \in Int : Floor(b) = j * Unit BY RoundedAreMultiples
  <2>2. j * Unit \in Int /\ k - 1 \in Int /\ (k - 1) + 1 = k /\ (k - 1) * Unit = k * Unit - Unit
    BY <1>0
  <2>3. j * Unit < ((k - 1) + 1) * Unit BY <1>1, <1>3, <2>1, <2>2, FloorCeil
  <2>4. j * Unit <= (k - 1) * Unit BY <2>2, <2>3, Factors
  <2> QED BY <1>0, <1>1, <2>1, <2>2, <2>4
<1> QED BY <1>2, <1>3

NodeSpans(n) == Spans(model, EffectiveLower(model, n), EffectiveUpper(model, n))

LEMMA SpansTyped ==
  ASSUME NEW m \in Models, NEW n \in NodeSet, NEW v \in Vars
  PROVE  LET s == Spans(m, EffectiveLower(m, n), EffectiveUpper(m, n))
         IN  /\ s[v] \in Int
             /\ EffectiveLower(m, n)[v] <= EffectiveUpper(m, n)[v] => 0 <= s[v]
<1>1. EffectiveLower(m, n)[v] \in Int /\ EffectiveUpper(m, n)[v] \in Int BY BoxTyped
<1>2. /\ Ceil(EffectiveUpper(m, n)[v]) \in Int /\ Floor(EffectiveLower(m, n)[v]) \in Int
      /\ EffectiveUpper(m, n)[v] <= Ceil(EffectiveUpper(m, n)[v])
      /\ Floor(EffectiveLower(m, n)[v]) <= EffectiveLower(m, n)[v]
  BY <1>1, FloorCeil
<1> QED BY <1>1, <1>2 DEF Spans

\* A child's box has a step less in the variable branched on, and no step more
\* in any other.
LEMMA ChildSpans ==
  ASSUME PrimalTol <= IntTol, Fathomable, NEW v \in BranchChoices(relaxation.x),
         NEW c \in Children(v)
  PROVE  /\ NodeSpans(c)[v] <= NodeSpans(node)[v] - Unit
         /\ \A w \in Vars : NodeSpans(c)[w] <= NodeSpans(node)[w]
<1> DEFINE a == relaxation.x[v]
<1>0. Unit \in Int /\ Unit > 0 BY GridAssumption
<1>1. /\ v \in Vars /\ v \in IntegerVars(model) /\ a \in Int
      /\ Floor(a) < upper[v] /\ lower[v] < Ceil(a)
  BY BranchVariable, BranchBetween
<1>2. /\ model \in Models /\ node \in NodeSet /\ c \in NodeSet /\ nodes_created \in Nat
  BY FathomFacts, ChildrenFacts
<1>3. \A w \in Vars : /\ lower[w] \in Int /\ upper[w] \in Int
                      /\ EffectiveLower(model, c)[w] \in Int
                      /\ EffectiveUpper(model, c)[w] \in Int
  BY <1>2, BoxTyped DEF lower, upper
<1>4. /\ \A w \in Vars : /\ lower[w] <= EffectiveLower(model, c)[w]
                         /\ EffectiveUpper(model, c)[w] <= upper[w]
      /\ \/ EffectiveUpper(model, c)[v] <= Floor(a)
         \/ Ceil(a) <= EffectiveLower(model, c)[v]
  <2>1. CASE c = DownChild(node, nodes_created, NodeBound, relaxation.x, v)
    <3>1. \A w \in Vars : \A b \in Int :
             /\ EffectiveLower(model, c)[w] = lower[w]
             /\ b <= EffectiveUpper(model, c)[w] <=> b <= upper[w] /\ (w = v => b <= Floor(a))
      BY <1>2, <2>1, DownBox
    <3> HIDE DEF a
    <3> QED BY <1>1, <1>3, <3>1
  <2>2. CASE \E i \in Nat : c = UpChild(node, i, NodeBound, relaxation.x, v)
    <3>1. \A w \in Vars : \A b \in Int :
             /\ EffectiveUpper(model, c)[w] = upper[w]
             /\ EffectiveLower(model, c)[w] <= b <=> lower[w] <= b /\ (w = v => Ceil(a) <= b)
      BY <2>2, UpBox
    <3> HIDE DEF a
    <3> QED BY <1>1, <1>3, <3>1
  <2> QED BY <2>1, <2>2, ChildCases
<1> HIDE DEF a
<1>5. ASSUME NEW w \in Vars
      PROVE  /\ Ceil(EffectiveUpper(model, c)[w]) \in Int /\ Ceil(upper[w]) \in Int
             /\ Floor(EffectiveLower(model, c)[w]) \in Int /\ Floor(lower[w]) \in Int
             /\ Ceil(EffectiveUpper(model, c)[w]) <= Ceil(upper[w])
             /\ Floor(lower[w]) <= Floor(EffectiveLower(model, c)[w])
  <2>1. /\ lower[w] \in Int /\ upper[w] \in Int
        /\ EffectiveLower(model, c)[w] \in Int /\ EffectiveUpper(model, c)[w] \in Int
        /\ lower[w] <= EffectiveLower(model, c)[w] /\ EffectiveUpper(model, c)[w] <= upper[w]
    BY <1>3, <1>4
  <2> QED BY <2>1, FloorCeil, RoundingIsMonotone
<1>6. \A w \in Vars :
         /\ NodeSpans(c)[w] = IF w \in IntegerVars(model)
              THEN Ceil(EffectiveUpper(model, c)[w]) - Floor(EffectiveLower(model, c)[w]) ELSE 0
         /\ NodeSpans(node)[w] = IF w \in IntegerVars(model)
              THEN Ceil(upper[w]) - Floor(lower[w]) ELSE 0
  BY DEF NodeSpans, Spans, lower, upper
<1>7. \/ Ceil(EffectiveUpper(model, c)[v]) + Unit <= Ceil(upper[v])
      \/ Floor(lower[v]) <= Floor(EffectiveLower(model, c)[v]) - Unit
  <2>1. CASE EffectiveUpper(model, c)[v] <= Floor(a)
    <3>1. PICK k \in Int : Floor(a) = k * Unit BY <1>1, RoundedAreMultiples
    <3>2. Ceil(EffectiveUpper(model, c)[v]) <= k * Unit BY <1>1, <1>3, <2>1, <3>1, CeilIsLeast
    <3>3. k * Unit + Unit <= Ceil(upper[v]) BY <1>1, <1>3, <3>1, StepInside
    <3>4. k * Unit \in Int BY <1>0
    <3> QED BY <1>0, <1>1, <1>5, <3>2, <3>3, <3>4
  <2>2. CASE Ceil(a) <= EffectiveLower(model, c)[v]
    <3>1. PICK k \in Int : Ceil(a) = k * Unit BY <1>1, RoundedAreMultiples
    <3>2. k * Unit <= Floor(EffectiveLower(model, c)[v]) BY <1>1, <1>3, <2>2, <3>1, FloorIsGreatest
    <3>3. Floor(lower[v]) <= k * Unit - Unit BY <1>1, <1>3, <3>1, StepInside
    <3>4. k * Unit \in Int BY <1>0
    <3> QED BY <1>0, <1>1, <1>5, <3>2, <3>3, <3>4
  <2> QED BY <1>4, <2>1, <2>2
<1>8. NodeSpans(c)[v] <= NodeSpans(node)[v] - Unit BY <1>0, <1>1, <1>5, <1>6, <1>7
<1>9. \A w \in Vars : NodeSpans(c)[w] <= NodeSpans(node)[w]
  <2> TAKE w \in Vars
  <2>1. CASE w \in IntegerVars(model) BY <1>5, <1>6, <2>1
  <2>2. CASE w \notin IntegerVars(model) BY <1>6, <2>2
  <2> QED BY <2>1, <2>2
<1> QED BY <1>8, <1>9

LEMMA SumsAdd == Numbers!Adds
BY DEF Numbers!Adds, Plus

LEMMA VarsFinite == IsFiniteSet(Vars) /\ Numbers!IsFiniteSet(Vars)
<1>1. IsFiniteSet(Vars) BY ValuesAssumption, FS_Interval DEF Vars
<1> QED BY <1>1 DEF IsFiniteSet, Numbers!IsFiniteSet

LEMMA RoomIsOver ==
  ASSUME NEW m, NEW lo, NEW hi
  PROVE  Sum(Spans(m, lo, hi)) = Numbers!Over(Spans(m, lo, hi), Vars)
<1>1. DOMAIN Spans(m, lo, hi) = Vars BY DEF Spans
<1> QED BY <1>1, SumIsOver

LEMMA RoomTyped ==
  ASSUME NEW m \in Models, NEW n \in NodeSet
  PROVE  /\ Room(m, n) \in Int
         /\ (\A v \in Vars : EffectiveLower(m, n)[v] <= EffectiveUpper(m, n)[v])
              => 0 <= Room(m, n)
<1> DEFINE s == Spans(m, EffectiveLower(m, n), EffectiveUpper(m, n))
           none == [v \in Vars |-> 0]
<1>1. \A v \in Vars : /\ s[v] \in Int
                      /\ EffectiveLower(m, n)[v] <= EffectiveUpper(m, n)[v] => 0 <= s[v]
  BY SpansTyped
<1>2. \A v \in Vars : none[v] = 0 OBVIOUS
<1>3. Room(m, n) = Numbers!Over(s, Vars) BY RoomIsOver DEF Room
<1> HIDE DEF s, none
<1>4. Numbers!Over(s, Vars) \in Int BY <1>1, SumsAdd, VarsFinite, Numbers!SumType
<1>5. Numbers!Over(none, Vars) = 0
  <2>1. \A v \in Vars : \A b \in {0} : Plus(none[v], b) \in {0} BY <1>2 DEF Plus
  <2>2. Numbers!Over(none, Vars) \in {0} BY <2>1, VarsFinite, Numbers!OverStays
  <2> QED BY <2>2
<1>6. ASSUME \A v \in Vars : EffectiveLower(m, n)[v] <= EffectiveUpper(m, n)[v]
      PROVE  0 <= Room(m, n)
  <2>1. \A v \in Vars : none[v] \in Int /\ s[v] \in Int /\ none[v] <= s[v] BY <1>1, <1>2, <1>6
  <2>2. Numbers!Over(none, Vars) <= Numbers!Over(s, Vars)
    BY <2>1, SumsAdd, VarsFinite, Numbers!SumLess
  <2> QED BY <1>3, <1>5, <2>2
<1> QED BY <1>3, <1>4, <1>6

LEMMA ChildRoom ==
  ASSUME PrimalTol <= IntTol, Fathomable, NEW v \in BranchChoices(relaxation.x),
         NEW c \in Children(v)
  PROVE  Room(model, c) + Unit <= Room(model, node)
<1> DEFINE s == NodeSpans(c)
           t == NodeSpans(node)
           W == Vars \ {v}
<1>0. Unit \in Int BY GridAssumption
<1>1. /\ model \in Models /\ node \in NodeSet /\ c \in NodeSet /\ v \in Vars
  BY FathomFacts, ChildrenFacts, BranchVariable
<1>2. \A w \in Vars : s[w] \in Int /\ t[w] \in Int BY <1>1, SpansTyped DEF NodeSpans
<1>3. s[v] <= t[v] - Unit /\ \A w \in Vars : s[w] <= t[w] BY ChildSpans
<1>4. Room(model, c) = Numbers!Over(s, Vars) /\ Room(model, node) = Numbers!Over(t, Vars)
  BY RoomIsOver DEF Room, NodeSpans
<1> HIDE DEF s, t
<1>5. /\ Numbers!Over(s, Vars) = s[v] + Numbers!Over(s, W)
      /\ Numbers!Over(t, Vars) = t[v] + Numbers!Over(t, W)
  BY <1>1, <1>2, SumsAdd, VarsFinite, Numbers!SumAny
<1>6. Numbers!IsFiniteSet(W)
  <2>1. IsFiniteSet(W) BY VarsFinite, FS_Subset
  <2> QED BY <2>1 DEF IsFiniteSet, Numbers!IsFiniteSet
<1>7. /\ Numbers!Over(s, W) <= Numbers!Over(t, W)
      /\ Numbers!Over(s, W) \in Int /\ Numbers!Over(t, W) \in Int
  <2>1. \A w \in W : s[w] \in Int /\ t[w] \in Int /\ s[w] <= t[w] BY <1>2, <1>3
  <2> QED BY <1>6, <2>1, SumsAdd, Numbers!SumLess, Numbers!SumType
<1> QED BY <1>0, <1>1, <1>2, <1>3, <1>4, <1>5, <1>7

LEMMA ShallowStep ==
  ASSUME PrimalTol <= IntTol
  PROVE  Typed /\ Shallow /\ [Next]_vars => Shallow'
<1> SUFFICES ASSUME Typed, Shallow, [Next]_vars, Accepted', NEW n \in Open'
             PROVE  n.depth * Unit + Room(model, n) <= Room(model, RootNode)
  BY ModelNeverChanges DEF Shallow
<1>0. Unit \in Int /\ model \in Models BY GridAssumption DEF Typed, TypeOK
<1>1. CASE n = RootNode
  <2>1. n.depth = 0 /\ Room(model, RootNode) \in Int BY <1>0, <1>1, RootNodeTyped, RoomTyped
  <2>2. 0 * Unit = 0 BY <1>0
  <2> QED BY <1>1, <2>1, <2>2
<1>2. CASE Accepted /\ n \in Open BY <1>2 DEF Shallow
<1>3. ASSUME Accepted, Fathomable, NEW v \in BranchChoices(relaxation.x), n \in Children(v)
      PROVE  n.depth * Unit + Room(model, n) <= Room(model, RootNode)
  <2>1. /\ node \in Open /\ node \in NodeSet /\ n \in NodeSet /\ n.depth = node.depth + 1
    BY <1>3, FathomFacts, ChildrenFacts
  <2>2. node.depth * Unit + Room(model, node) <= Room(model, RootNode)
    BY <1>3, <2>1 DEF Shallow
  <2>3. Room(model, n) + Unit <= Room(model, node) BY <1>3, ChildRoom
  <2>4. Room(model, n) \in Int /\ Room(model, node) \in Int /\ Room(model, RootNode) \in Int
    BY <1>0, <2>1, RootNodeTyped, RoomTyped
  <2>5. node.depth \in Nat BY <2>1 DEF NodeSet
  <2>6. (node.depth + 1) * Unit = node.depth * Unit + Unit /\ node.depth * Unit \in Int
    BY <1>0, <2>5
  <2> QED BY <1>0, <2>1, <2>2, <2>3, <2>4, <2>6
<1>4. PushRoot => Open' = {RootNode} BY PushRootFacts
<1> QED BY <1>1, <1>2, <1>3, <1>4, OpenSteps, AcceptedSteps DEF Drops

-----------------------------------------------------------------------------
Powers == INSTANCE FoldTheory WITH Typ <- Int, Op <- Times, Base <- 1

\* The nodes that may still come below a node, if its depth is within the levels.
Below(m, n) == TreeSize(Levels(m) - n.depth) - 1
BelowOpen == [n \in NodeSet |-> Below(model, n)]
\* What was created and what may still come is within the tree.
Counted ==
    Accepted => /\ IsFiniteSet(Open)
                /\ nodes_created + Numbers!Over(BelowOpen, Open) <= TreeSize(Levels(model))

LEMMA TwoToIsOver == \A k : TwoTo(k) = Powers!Over([i \in 1 .. k |-> 2], 1 .. k)
BY DEF TwoTo, Powers!Over, FoldFunction, FoldFunctionOnSet, MapThenFoldSet, Times,
       Powers!FoldFunctionOnSet, Powers!MapThenFoldSet

LEMMA TwoToDoubles ==
  /\ TwoTo(0) = 1
  /\ \A k \in Nat : TwoTo(k) \in Int /\ TwoTo(k + 1) = 2 * TwoTo(k)
<1>1. Powers!Laws BY DEF Powers!Laws, Times
<1>2. ASSUME NEW k \in Nat PROVE Powers!IsFiniteSet(1 .. k)
  <2>1. IsFiniteSet(1 .. k) BY FS_Interval
  <2> QED BY <2>1 DEF IsFiniteSet, Powers!IsFiniteSet
<1>3. TwoTo(0) = 1
  <2>1. 1 .. 0 = {} OBVIOUS
  <2> QED BY <2>1, TwoToIsOver, Powers!OverEmpty
<1>4. ASSUME NEW k \in Nat PROVE TwoTo(k) \in Int
  <2>1. \A i \in 1 .. k : [j \in 1 .. k |-> 2][i] \in Int OBVIOUS
  <2> QED BY <1>1, <1>2, <2>1, TwoToIsOver, Powers!OverType
<1>5. ASSUME NEW k \in Nat PROVE TwoTo(k + 1) = 2 * TwoTo(k)
  <2> DEFINE S == 1 .. k + 1
             T == 1 .. k
             f == [i \in S |-> 2]
             g == [i \in T |-> 2]
  <2>1. k + 1 \in S /\ S \ {k + 1} = T /\ \A i \in S : f[i] \in Int /\ f[i] = 2 OBVIOUS
  <2>2. \A i \in T : f[i] = g[i] OBVIOUS
  <2>3. Powers!IsFiniteSet(S) /\ Powers!IsFiniteSet(T) BY <1>2
  <2>4. TwoTo(k + 1) = Powers!Over(f, S) /\ TwoTo(k) = Powers!Over(g, T) BY TwoToIsOver
  <2> HIDE DEF S, T, f, g
  <2>5. Powers!Over(f, S) = Times(f[k + 1], Powers!Over(f, S \ {k + 1}))
    BY <1>1, <2>1, <2>3, Powers!OverAny
  <2>6. Powers!Over(f, T) = Powers!Over(g, T) BY <2>2, <2>3, Powers!OverEqual
  <2> QED BY <2>1, <2>4, <2>5, <2>6 DEF Times
<1> QED BY <1>3, <1>4, <1>5

LEMMA TreeSizes ==
  \A k \in Nat : /\ TreeSize(k) \in Int /\ 1 <= TreeSize(k)
                 /\ TreeSize(k + 1) = 2 * TreeSize(k) + 1
<1>1. \A k \in Nat : TwoTo(k) >= 1
  <2> DEFINE Good == {k \in Nat : TwoTo(k) >= 1}
  <2>1. 0 \in Good /\ \A k \in Nat : k \in Good => k + 1 \in Good BY TwoToDoubles
  <2>2. \A k \in Nat : k \in Good
    <3> HIDE DEF Good
    <3> QED BY <2>1, Numbers!NumberInduction
  <2> QED BY <2>2
<1> QED BY <1>1, TwoToDoubles DEF TreeSize

\* A node that is in the search is no deeper than the tree.
LEMMA DepthWithinLevels ==
  ASSUME Typed, BoxesNonEmpty, Shallow, Accepted, NEW n \in Open
  PROVE  n.depth \in Nat /\ Levels(model) \in Nat /\ n.depth <= Levels(model)
<1>0. Unit \in Int /\ Unit > 0 /\ model \in Models /\ n \in NodeSet
  BY GridAssumption DEF Typed, TypeOK, Open
<1>1. n.depth \in Nat BY <1>0 DEF NodeSet
<1>2. Room(model, n) \in Int /\ 0 <= Room(model, n) BY <1>0, RoomTyped DEF BoxesNonEmpty
<1>3. n.depth * Unit + Room(model, n) <= Room(model, RootNode) BY DEF Shallow
<1>4. Room(model, RootNode) \in Int BY <1>0, RootNodeTyped, RoomTyped
<1>5. Levels(model) = Room(model, RootNode) \div Unit
  <2>1. Spans(model, EffectiveLower(model, RootNode), EffectiveUpper(model, RootNode))
          = Spans(model, model.lower, model.upper)
    BY <1>0, RootBox DEF Spans
  <2> QED BY <2>1 DEF Levels, Room
<1>6. n.depth * Unit \in Int /\ n.depth * Unit <= Room(model, RootNode)
  BY <1>0, <1>1, <1>2, <1>3, <1>4
<1> DEFINE r == Room(model, RootNode)
<1>7. PICK q \in Int : q = r \div Unit /\ r < q * Unit + Unit BY <1>0, <1>4
<1>8. (q + 1) * Unit = q * Unit + Unit /\ q * Unit \in Int BY <1>0
<1> HIDE DEF r
<1>9. n.depth * Unit < (q + 1) * Unit BY <1>0, <1>4, <1>6, <1>7, <1>8 DEF r
<1>10. n.depth < q + 1
  <2>1. \A b, c, d \in Int : b >= c /\ d > 0 => b * d >= c * d OBVIOUS
  <2>2. q + 1 \in Int /\ (q + 1) * Unit \in Int BY <1>0, <1>8
  <2>3. n.depth >= q + 1 => n.depth * Unit >= (q + 1) * Unit BY <1>0, <1>1, <2>1, <2>2
  <2> QED BY <1>1, <1>6, <1>9, <2>2, <2>3
<1> QED BY <1>1, <1>5, <1>7, <1>10 DEF r

LEMMA BelowTyped ==
  ASSUME Typed, BoxesNonEmpty, Shallow, Accepted, NEW n \in Open
  PROVE  BelowOpen[n] \in Int /\ 0 <= BelowOpen[n] /\ n \in NodeSet
<1>1. n \in NodeSet BY DEF Typed, TypeOK, Open
<1>2. Levels(model) - n.depth \in Nat BY DepthWithinLevels
<1> QED BY <1>1, <1>2, TreeSizes DEF BelowOpen, Below

\* At most two children.
LEMMA ChildrenCount ==
  ASSUME Fathomable, NEW v \in BranchChoices(relaxation.x)
  PROVE  IsFiniteSet(Children(v)) /\ Cardinality(Children(v)) \in 0 .. 2
<1> DEFINE d == DownChild(node, nodes_created, NodeBound, relaxation.x, v)
<1>1. \E u : Children(v) \in {{}, {d}, {u}, {d, u}} BY DEF Children
<1>2. PICK u : Children(v) \in {{}, {d}, {u}, {d, u}} BY <1>1
<1> HIDE DEF d
<1>3. /\ IsFiniteSet({}) /\ Cardinality({}) = 0
      /\ IsFiniteSet({d}) /\ Cardinality({d}) = 1
      /\ IsFiniteSet({u}) /\ Cardinality({u}) = 1
  BY FS_EmptySet, FS_Singleton
<1>4. IsFiniteSet({d, u}) /\ Cardinality({d, u}) \in {1, 2}
  <2>1. {d, u} = {u} \cup {d} OBVIOUS
  <2> DEFINE T == {u}
  <2>2. IsFiniteSet(T) /\ Cardinality(T) = 1 BY <1>3
  <2> HIDE DEF T
  <2>3. /\ IsFiniteSet(T \cup {d})
        /\ Cardinality(T \cup {d}) = IF d \in T THEN Cardinality(T) ELSE Cardinality(T) + 1
    BY <2>2, FS_AddElement
  <2>4. Cardinality(T \cup {d}) \in {1, 2} BY <2>2, <2>3
  <2> QED BY <2>1, <2>3, <2>4 DEF T
<1> QED BY <1>2, <1>3, <1>4

LEMMA FinitenessIsOne == \A S : Numbers!IsFiniteSet(S) <=> IsFiniteSet(S)
BY DEF IsFiniteSet, Numbers!IsFiniteSet
LEMMA CardinalityIsOne == \A S : Numbers!Cardinality(S) = Cardinality(S)
BY DEF Cardinality, Numbers!Cardinality

-----------------------------------------------------------------------------
\* A step that creates no node.
LEMMA QuietSteps ==
  ASSUME Typed, [Next]_vars, ~PushRoot, ~BranchNode
  PROVE  /\ nodes_created' = nodes_created
         /\ Open' = Open \/ \E n \in Open : Open' = Open \ {n}
<1>1. nodes_created' = nodes_created
  BY DEF Next, vars, search, RejectModel, SearchExhausted, TimeLimitReached,
     NodeLimitReached, PopNode, SolveRelaxation, NodeInfeasible, RelaxationFailed,
     RelaxationInvalid, GenerateRootCuts, AcceptRelaxation, RecordBound, PruneNode,
     AcceptIntegral, NoBranch, TestGap, Report, Returned
<1> QED BY <1>1, OpenSteps DEF Drops

LEMMA BranchSteps ==
  ASSUME Typed, [Next]_vars, BranchNode
  PROVE  /\ Fathomable /\ node \in Open
         /\ \E v \in BranchChoices(relaxation.x) :
               /\ Open' = (Open \ {node}) \cup Children(v)
               /\ nodes_created' = nodes_created + Cardinality(Children(v))
<1>1. Fathomable /\ node # NoNode /\ node \notin queue /\ node' = NoNode
  BY DEF BranchNode, Fathomable, PlaceOK, InBody, QueueWellFormed, Typed
<1>2. PICK v \in BranchChoices(relaxation.x) :
         /\ queue' = queue \cup Children(v)
         /\ nodes_created' = nodes_created + Cardinality(Children(v))
  BY DEF BranchNode
<1>3. NoNode \notin queue BY NoNodeIsNone DEF TypeOK, Typed
<1>4. NoNode \notin queue' BY <1>1, <1>2, <1>3, ChildrenFacts, NoNodeIsNone
<1>5. Open = queue \cup {node} /\ Open' = queue' BY <1>1, <1>4 DEF Open
<1> QED BY <1>1, <1>2, <1>5

\* Children bring at most as many nodes as their parent had below it.
LEMMA ChildrenFit ==
  ASSUME NEW k \in 0 .. 2, NEW t \in Nat, NEW b \in Int, 0 <= b,
         k # 0 => b = 2 * t + 2
  PROVE  k + t * k <= b
<1>1. k = 0 \/ k = 1 \/ k = 2 OBVIOUS
<1>2. CASE k = 0 BY <1>2
<1>3. CASE k = 1 BY <1>3
<1>4. CASE k = 2
  <2>1. t * 2 = 2 * t OBVIOUS
  <2> QED BY <1>4, <2>1
<1> QED BY <1>1, <1>2, <1>3, <1>4

LEMMA LevelsTyped ==
  ASSUME Typed, Accepted
  PROVE  Levels(model) \in Nat
<1>1. model \in Models /\ ValidModel(model) BY DEF Typed, TypeOK, Accepted, Acceptable
<1>2. \A v \in Vars : EffectiveLower(model, RootNode)[v] <= EffectiveUpper(model, RootNode)[v]
  BY <1>1, RootBox DEF ValidModel
<1>3. Room(model, RootNode) \in Int /\ 0 <= Room(model, RootNode)
  BY <1>1, <1>2, RootNodeTyped, RoomTyped
<1>4. Levels(model) = Room(model, RootNode) \div Unit
  <2>1. Spans(model, EffectiveLower(model, RootNode), EffectiveUpper(model, RootNode))
          = Spans(model, model.lower, model.upper)
    BY <1>1, RootBox DEF Spans
  <2> QED BY <2>1 DEF Levels, Room
<1> QED BY <1>3, <1>4, GridAssumption

\* What is known of the open nodes of a search that works on its model.
WithinLevels ==
    Accepted => \A n \in Open :
        /\ n \in NodeSet /\ n.depth \in Nat /\ Levels(model) \in Nat
        /\ n.depth <= Levels(model)
        /\ BelowOpen[n] \in Int /\ 0 <= BelowOpen[n]
        /\ BelowOpen[n] = TreeSize(Levels(model) - n.depth) - 1
LEMMA LevelsHold == Typed /\ BoxesNonEmpty /\ Shallow => WithinLevels
<1> SUFFICES ASSUME Typed, BoxesNonEmpty, Shallow, Accepted, NEW n \in Open
             PROVE  /\ n \in NodeSet /\ n.depth \in Nat /\ Levels(model) \in Nat
                    /\ n.depth <= Levels(model)
                    /\ BelowOpen[n] \in Int /\ 0 <= BelowOpen[n]
                    /\ BelowOpen[n] = TreeSize(Levels(model) - n.depth) - 1
  BY DEF WithinLevels
<1>1. BelowOpen[n] \in Int /\ 0 <= BelowOpen[n] /\ n \in NodeSet BY BelowTyped
<1> QED BY <1>1, DepthWithinLevels DEF BelowOpen, Below

LEMMA CountedStep ==
  /\ Typed /\ Accepted' /\ WithinLevels /\ WithinLevels' /\ Counted /\ [Next]_vars
  => Counted'
<1> SUFFICES ASSUME Typed, Accepted', WithinLevels, WithinLevels', Counted, [Next]_vars
             PROVE  /\ IsFiniteSet(Open')
                    /\ nodes_created' + Numbers!Over(BelowOpen, Open') <= TreeSize(Levels(model))
  BY ModelNeverChanges DEF Counted, BelowOpen
<1> DEFINE B == BelowOpen
           L == Levels(model)
<1>0. nodes_created \in Nat BY DEF Typed, TypeOK
<1>1. \A n \in Open' : /\ n \in NodeSet /\ n.depth \in Nat /\ n.depth <= L /\ L \in Nat
                       /\ B[n] \in Int /\ 0 <= B[n] /\ B[n] = TreeSize(L - n.depth) - 1
  BY ModelNeverChanges DEF WithinLevels, BelowOpen
<1>2. Accepted => \A n \in Open :
         /\ n.depth \in Nat /\ n.depth <= L /\ L \in Nat
         /\ B[n] \in Int /\ 0 <= B[n] /\ B[n] = TreeSize(L - n.depth) - 1
  BY DEF WithinLevels
<1>3. Accepted => /\ IsFiniteSet(Open) /\ nodes_created + Numbers!Over(B, Open) <= TreeSize(L)
  BY DEF Counted
<1> HIDE DEF B
<1>4. CASE PushRoot
  <2>1. Open' = {RootNode} /\ nodes_created' = 1 BY <1>4, PushRootFacts DEF PushRoot
  <2>2. RootNode.depth = 0 BY RootNodeTyped
  <2>3. RootNode \in Open' BY <2>1
  <2>4. L \in Nat /\ B[RootNode] \in Int /\ B[RootNode] = TreeSize(L - 0) - 1
    BY <1>1, <2>2, <2>3
  <2>5. L - 0 = L /\ TreeSize(L) \in Int BY <2>4, TreeSizes
  <2>6. Numbers!Over(B, {RootNode}) = B[RootNode] + 0
    <3>1. Numbers!Laws BY SumsAdd, Numbers!AddsLaws
    <3>2. Numbers!Over(B, {RootNode}) = Plus(B[RootNode], 0) BY <2>4, <3>1, Numbers!OverOne
    <3> QED BY <3>2 DEF Plus
  <2>7. IsFiniteSet({RootNode}) BY FS_Singleton
  <2> HIDE DEF L
  <2>8. nodes_created' + Numbers!Over(B, Open') <= TreeSize(L)
    BY <2>1, <2>4, <2>5, <2>6
  <2> QED BY <2>1, <2>7, <2>8 DEF B, L
<1>5. ~PushRoot => Accepted BY AcceptedSteps
<1>6. ASSUME Accepted, NEW n \in Open
      PROVE  /\ IsFiniteSet(Open \ {n})
             /\ Numbers!Over(B, Open) = B[n] + Numbers!Over(B, Open \ {n})
             /\ Numbers!Over(B, Open) \in Int /\ Numbers!Over(B, Open \ {n}) \in Int
  <2>1. IsFiniteSet(Open \ {n}) BY <1>3, <1>6, FS_Subset
  <2>2. Numbers!IsFiniteSet(Open) /\ Numbers!IsFiniteSet(Open \ {n})
    BY <1>3, <1>6, <2>1, FinitenessIsOne
  <2>3. \A k \in Open : B[k] \in Int BY <1>2, <1>6
  <2> QED BY <2>1, <2>2, <2>3, SumsAdd, Numbers!SumAny, Numbers!SumType
<1>7. CASE ~PushRoot /\ ~BranchNode
  <2>1. Accepted BY <1>5, <1>7
  <2>2. nodes_created' = nodes_created BY <1>7, QuietSteps
  <2>3. CASE Open' = Open BY <1>3, <2>1, <2>2, <2>3 DEF B, L
  <2>4. CASE \E n \in Open : Open' = Open \ {n}
    <3>1. PICK n \in Open : Open' = Open \ {n} BY <2>4
    <3>2. /\ IsFiniteSet(Open \ {n}) /\ B[n] \in Int /\ 0 <= B[n]
          /\ Numbers!Over(B, Open) = B[n] + Numbers!Over(B, Open \ {n})
          /\ Numbers!Over(B, Open \ {n}) \in Int
      BY <1>2, <1>6, <2>1
    <3>3. nodes_created + Numbers!Over(B, Open) <= TreeSize(L) BY <1>3, <2>1
    <3>4. Accepted /\ Open # {} BY <2>1
    <3>5. L \in Nat /\ TreeSize(L) \in Int BY <1>2, <2>1, <3>1, TreeSizes
    <3> HIDE DEF L
    <3>6. nodes_created' + Numbers!Over(B, Open') <= TreeSize(L)
      BY <1>0, <2>2, <3>1, <3>2, <3>3, <3>5
    <3> QED BY <3>1, <3>2, <3>6 DEF B, L
  <2> QED BY <1>7, <2>3, <2>4, QuietSteps
<1>8. CASE BranchNode
  <2>1. Accepted /\ Fathomable /\ node \in Open
    BY <1>5, <1>8, BranchSteps DEF BranchNode, PushRoot
  <2>2. PICK v \in BranchChoices(relaxation.x) :
           /\ Open' = (Open \ {node}) \cup Children(v)
           /\ nodes_created' = nodes_created + Cardinality(Children(v))
    BY <1>8, BranchSteps
  <2> DEFINE K == Children(v)
             R == Open \ {node}
             k == Cardinality(K)
  <2>3. IsFiniteSet(K) /\ k \in 0 .. 2 BY <2>1, ChildrenCount
  <2>4. \A c \in K : c.depth = node.depth + 1 /\ nodes_created <= c.id /\ c.id \in Nat
    BY <2>1, ChildrenFacts DEF NodeSet
  <2>5. R \cap K = {}
    <3>1. \A n \in Open : n.id < nodes_created /\ n.id \in Nat
      BY DEF Typed, QueueWellFormed, TypeOK, NodeSet, Open
    <3> QED BY <1>0, <2>4, <3>1
  <2>6. /\ IsFiniteSet(R) /\ B[node] \in Int /\ 0 <= B[node]
        /\ B[node] = TreeSize(L - node.depth) - 1
        /\ node.depth \in Nat /\ L \in Nat /\ node.depth <= L
        /\ Numbers!Over(B, Open) = B[node] + Numbers!Over(B, R)
        /\ Numbers!Over(B, R) \in Int
    BY <1>2, <1>6, <2>1
  <2>7. nodes_created + Numbers!Over(B, Open) <= TreeSize(L) /\ TreeSize(L) \in Int
    BY <1>3, <2>1, <2>6, TreeSizes
  <2> DEFINE t == TreeSize(L - node.depth - 1) - 1
  <2>8. K # {} => /\ L - node.depth - 1 \in Nat /\ t \in Nat /\ B[node] = 2 * t + 2
                  /\ \A c \in K : B[c] = t
    <3> SUFFICES ASSUME K # {}
                 PROVE  /\ L - node.depth - 1 \in Nat /\ t \in Nat /\ B[node] = 2 * t + 2
                        /\ \A c \in K : B[c] = t
      OBVIOUS
    <3>1. \A c \in K : c.depth = node.depth + 1 /\ c.depth <= L /\ B[c] = TreeSize(L - c.depth) - 1
      BY <1>1, <2>2, <2>4
    <3>2. node.depth + 1 <= L BY <3>1
    <3> DEFINE j == L - node.depth - 1
    <3> HIDE DEF L
    <3>3. j \in Nat /\ j + 1 = L - node.depth /\ L - (node.depth + 1) = j BY <2>6, <3>2
    <3>4. TreeSize(j) \in Int /\ 1 <= TreeSize(j) /\ TreeSize(j + 1) = 2 * TreeSize(j) + 1
      BY <3>3, TreeSizes
    <3>5. t = TreeSize(j) - 1 OBVIOUS
    <3>6. B[node] = TreeSize(j + 1) - 1 BY <2>6, <3>3
    <3>7. \A c \in K : B[c] = TreeSize(j) - 1 BY <3>1, <3>3
    <3> HIDE DEF j, t
    <3>8. t \in Nat /\ B[node] = 2 * t + 2 BY <3>4, <3>5, <3>6
    <3>9. L - node.depth - 1 \in Nat BY <3>3 DEF j
    <3> QED BY <3>5, <3>7, <3>8, <3>9
  <2> HIDE DEF L, t, K, R
  <2>9. CASE K = {}
    <3>1. Open' = R BY <2>2, <2>9 DEF K, R
    <3>2. nodes_created' = nodes_created
      <4>1. Cardinality({}) = 0 BY FS_EmptySet
      <4> QED BY <1>0, <2>2, <2>9, <4>1 DEF K
    <3>3. nodes_created' + Numbers!Over(B, Open') <= TreeSize(L)
      BY <1>0, <2>6, <2>7, <3>1, <3>2
    <3> QED BY <2>6, <3>1, <3>3 DEF B, L
  <2>10. CASE K # {}
    <3>1. t \in Nat /\ B[node] = 2 * t + 2 /\ \A c \in K : B[c] = t BY <2>8, <2>10
    <3>2. Open' = R \cup K /\ nodes_created' = nodes_created + k BY <2>2 DEF K, R
    <3>3. IsFiniteSet(R \cup K) BY <2>3, <2>6, FS_Union
    <3>4. \A n \in R \cup K : B[n] \in Int BY <1>1, <3>2
    <3>5. Numbers!IsFiniteSet(R) /\ Numbers!IsFiniteSet(K) BY <2>3, <2>6, FinitenessIsOne
    <3>6. Numbers!Over(B, R \cup K) = Numbers!Over(B, R) + Numbers!Over(B, K)
      <4>1. Numbers!Laws /\ Numbers!Idle BY SumsAdd, Numbers!AddsLaws
      <4>2. Numbers!Over(B, R \cup K) = Plus(Numbers!Over(B, R), Numbers!Over(B, K))
        BY <2>5, <3>4, <3>5, <4>1, Numbers!OverUnion
      <4> QED BY <4>2 DEF Plus
    <3>7. Numbers!Over(B, K) = t * k
      <4>1. t \in Int BY <3>1
      <4>2. Numbers!Over(B, K) = t * Numbers!Cardinality(K)
        BY <3>1, <3>5, <4>1, SumsAdd, Numbers!SumOfConstant
      <4> QED BY <4>2, CardinalityIsOne
    <3>8. k + t * k <= B[node]
      <4>1. k # 0 => B[node] = 2 * t + 2 BY <3>1
      <4>2. k \in 0 .. 2 /\ t \in Nat /\ B[node] \in Int /\ 0 <= B[node] BY <2>3, <2>6, <3>1
      <4> HIDE DEF k
      <4> QED BY <4>1, <4>2, ChildrenFit
    <3>9. t * k \in Int /\ k \in Int BY <2>3, <3>1
    <3> HIDE DEF k
    <3>10. nodes_created' + Numbers!Over(B, Open') <= TreeSize(L)
      BY <1>0, <2>6, <2>7, <3>2, <3>6, <3>7, <3>8, <3>9
    <3> QED BY <3>2, <3>3, <3>10 DEF B, L
  <2> QED BY <2>9, <2>10
<1> QED BY <1>4, <1>7, <1>8

\* Unless primal_tolerance exceeds integrality_tolerance the search is finite
\* by itself, whatever the oracle and the cuts and without a limit: it creates
\* at most the nodes of a binary tree with as many levels as there are unit
\* steps across the boxes of the integer variables.
THEOREM SearchIsFinite ==
  ASSUME PrimalTol <= IntTol
  PROVE  Spec => []NodesAreBounded
<1> DEFINE Inv == SearchSound /\ Shallow /\ Counted
<1>1. Init => Inv
  <2>1. Init => SearchSound BY SearchSoundInit
  <2>2. Init => ~Accepted BY DEF Init, Accepted
  <2> QED BY <2>1, <2>2 DEF Shallow, Counted
<1>2. SearchSound => Typed /\ BoxesNonEmpty BY DEF SearchSound
<1>3. SearchSound /\ Shallow /\ [Next]_vars => Shallow' BY <1>2, ShallowStep
<1>4. SearchSound /\ [Next]_vars => SearchSound' BY SearchSoundStep
<1>5. SearchSound /\ Shallow => WithinLevels BY <1>2, LevelsHold
<1>6. Typed /\ WithinLevels /\ WithinLevels' /\ Counted /\ [Next]_vars => Counted'
  <2>1. CASE Accepted' BY <2>1, CountedStep
  <2>2. CASE ~Accepted' BY <2>2 DEF Counted
  <2> QED BY <2>1, <2>2
<1>7. Inv => NodesAreBounded
  <2> SUFFICES ASSUME SearchSound, Shallow, Counted, Accepted
               PROVE  nodes_created <= TreeSize(Levels(model))
    BY DEF NodesAreBounded
  <2>1. WithinLevels /\ Typed BY <1>2, <1>5
  <2>2. nodes_created \in Nat BY <2>1 DEF Typed, TypeOK
  <2> DEFINE B == BelowOpen
  <2>3. IsFiniteSet(Open) /\ nodes_created + Numbers!Over(B, Open) <= TreeSize(Levels(model))
    BY DEF Counted
  <2>4. \A n \in Open : B[n] \in Nat BY <2>1 DEF WithinLevels
  <2> HIDE DEF B
  <2>5. Numbers!Over(B, Open) \in Nat
    <3>1. \A n \in Open : \A a \in Nat : Plus(B[n], a) \in Nat BY <2>4 DEF Plus
    <3>2. Numbers!IsFiniteSet(Open) BY <2>3, FinitenessIsOne
    <3> QED BY <3>1, <3>2, Numbers!OverStays
  <2>6. TreeSize(Levels(model)) \in Int BY <2>1, LevelsTyped, TreeSizes
  <2> QED BY <2>2, <2>3, <2>5, <2>6
<1> QED BY <1>1, <1>2, <1>3, <1>4, <1>5, <1>6, <1>7, PTL DEF Spec

=============================================================================
