----------------------------- MODULE IpmProofs -----------------------------
(***************************************************************************)
(* Theorems about the interior point method, for every oracle, every       *)
(* linear solver and every value of the tolerances.                        *)
(*                                                                         *)
(* StaysInterior and HonestReport assume nothing of a direction: an        *)
(* attempt is only accepted if its own evaluation is interior, and the     *)
(* multipliers are cut off at the floor, so both survive whatever the      *)
(* backend answers.  That the Hessian gets the multipliers of its rows is  *)
(* a matter of the lists alone, and assumes nothing either.  That a        *)
(* converged point is a KKT point is about numbers: there the oracle and   *)
(* the backend are assumed to answer numbers with numbers.  That of a      *)
(* convex model it is a solution is weak duality, and asks the oracle to   *)
(* lie above its tangents.                                                 *)
(***************************************************************************)
EXTENDS IpmProperties, FiniteSetTheorems, TLAPS

\* The strengthening: where the loop stands, what status may be set, and that
\* nothing is answered before the report.
IInv ==
    /\ pc \in {"call", "loop", "report", "returned"}
    /\ pc # "returned" => result = NoResult
    /\ pc \in {"call", "loop"} => status = "NotSolved"
    /\ Running /\ status = "LocallyOptimal" => Converged(evaluation, lambda, mu)
    /\ Answered /\ status = "LocallyOptimal" =>
          /\ result.primal_residual <= PrimalTol
          /\ result.stationarity_residual <= DualTol
          /\ result.complementarity_residual <= PrimalTol
    /\ Solved => result # NoResult
    /\ StaysInterior

\* A refusal is not an answer of the loop.
LEMMA RefusalIsNoAnswer == \A q : Refusal(q) # "LocallyOptimal"
  BY DEF Refusal

\* The start is accepted only if its evaluation is interior, and the
\* multipliers start at 1, which is no less than the floor.
LEMMA StartKeeps == IInv /\ Start => IInv'
  <1> SUFFICES ASSUME IInv, Start PROVE IInv'
    OBVIOUS
  <1> DEFINE e == Evaluate(request, StartingPoint(request))
  <1>1. /\ Interior(e) /\ evaluation' = e /\ x' = StartingPoint(request) /\ request' = request
        /\ mu' = [i \in DOMAIN e.inequalities |-> Unit]
        /\ pc' = "loop" /\ status' = "NotSolved" /\ result' = NoResult
    BY DEF Start, IInv
  <1>2. MuFloor = Unit \/ MuFloor < Unit
    BY InteriorAssumption, GridAssumption
  <1>3. StaysInterior'
    BY <1>1, <1>2 DEF StaysInterior, Running, Answered
  <1> QED
    BY <1>1, <1>3 DEF IInv, Running, Answered, Solved

\* Every multiplier a step leaves is at the floor or above it.
LEMMA MovedMuAboveFloor ==
    \A alpha, dx : \A i \in DOMAIN mu :
        MovedMu(alpha, dx)[i] = MuFloor \/ MuFloor < MovedMu(alpha, dx)[i]
  BY DEF MovedMu, Larger

\* A step is taken along an accepted attempt, whose evaluation becomes the
\* iterate's.
LEMMA StepKeeps == IInv /\ Step => IInv'
  <1> SUFFICES ASSUME IInv, Step PROVE IInv'
    OBVIOUS
  <1>1. PICK direction \in Directions : \E k \in 0 .. Attempts - 1 :
          LET dx == Primal(direction)
              alpha == Length(dx, k)
          IN  /\ Acceptable(alpha, dx)
              /\ x' = Moved(x, alpha, dx)
              /\ evaluation' = Evaluate(request, x')
              /\ mu' = MovedMu(alpha, dx)
    BY DEF Step
  <1> DEFINE dx == Primal(direction)
  <1>2. PICK k \in 0 .. Attempts - 1 :
          /\ Acceptable(Length(dx, k), dx)
          /\ x' = Moved(x, Length(dx, k), dx)
          /\ evaluation' = Evaluate(request, x')
          /\ mu' = MovedMu(Length(dx, k), dx)
    BY <1>1
  <1>3. /\ pc = "loop" /\ status = "NotSolved" /\ result = NoResult
        /\ request' = request /\ result' = result
        /\ \/ Converged(evaluation', lambda', mu') /\ status' = "LocallyOptimal" /\ pc' = "report"
           \/ status' = status /\ pc' = pc
    BY DEF Step, AtStep, IInv
  <1>4. Interior(evaluation')
    BY <1>2 DEF Acceptable
  <1>5. \A i \in DOMAIN mu' : mu'[i] = MuFloor \/ MuFloor < mu'[i]
    <2>1. DOMAIN mu' = DOMAIN mu
      BY <1>2 DEF MovedMu
    <2> QED
      BY <1>2, <2>1, MovedMuAboveFloor
  <1>6. StaysInterior'
    BY <1>2, <1>3, <1>4, <1>5 DEF StaysInterior, Running, Answered
  <1> QED
    BY <1>3, <1>6 DEF IInv, Running, Answered, Solved

\* The report is of the last iterate.
LEMMA ReportKeeps == IInv /\ Report => IInv'
  <1> SUFFICES ASSUME IInv, Report PROVE IInv'
    OBVIOUS
  <1>1. /\ pc = "report" /\ pc' = "returned" /\ result' = Answer
        /\ UNCHANGED <<request, x, evaluation, lambda, mu, iter>>
        /\ status' = "LocallyOptimal" => status = "LocallyOptimal"
    BY DEF Report, iterates
  <1>2. Interior(Evaluate(request, x)) /\ result'.primal_solution = x
    BY <1>1 DEF IInv, StaysInterior, Running, Answer
  <1>3. result' # NoResult
    BY <1>1 DEF Answer, NoResult
  <1>4. status' = "LocallyOptimal" =>
          /\ result'.primal_residual <= PrimalTol
          /\ result'.stationarity_residual <= DualTol
          /\ result'.complementarity_residual <= PrimalTol
    BY <1>1 DEF IInv, Running, Converged, Answer
  <1>5. StaysInterior'
    BY <1>1, <1>2 DEF StaysInterior, Running, Answered
  <1> QED
    BY <1>1, <1>3, <1>4, <1>5 DEF IInv, Running, Answered, Solved

\* The actions that end the loop or the call leave the iterate alone.
LEMMA EndKeeps ==
    ASSUME IInv,
           \/ Refuse \/ StartUndefined \/ StartOutside \/ OutOfIterations \/ TimedOut
           \/ ConvergedAtHead \/ HessianUndefined \/ LinearSolveFails \/ LineSearchFails
    PROVE  IInv'
  <1>1. /\ pc \in {"call", "loop"} /\ pc' \in {"report", "returned"} /\ result = NoResult
        /\ pc = "call" <=> pc' = "returned"
        /\ UNCHANGED <<request, x, evaluation, lambda, mu, iter, result>>
    BY DEF Refuse, StartUndefined, StartOutside, OutOfIterations, TimedOut, ConvergedAtHead,
           HessianUndefined, LinearSolveFails, LineSearchFails, AtStep, Fail, IInv, iterates
  <1>2. status' = "LocallyOptimal" => pc' = "report" /\ Converged(evaluation, lambda, mu)
    BY RefusalIsNoAnswer
       DEF Refuse, StartUndefined, StartOutside, OutOfIterations, TimedOut, ConvergedAtHead,
           HessianUndefined, LinearSolveFails, LineSearchFails, AtStep, Fail, IInv
  <1>3. StaysInterior'
    BY <1>1 DEF IInv, StaysInterior, Running, Answered
  <1> QED
    BY <1>1, <1>2, <1>3 DEF IInv, Running, Answered, Solved

LEMMA StepInvariant == IInv /\ [Next]_vars => IInv'
  <1> SUFFICES ASSUME IInv, [Next]_vars PROVE IInv'
    OBVIOUS
  <1>1. CASE Start
    BY <1>1, StartKeeps
  <1>2. CASE Step
    BY <1>2, StepKeeps
  <1>3. CASE Report
    BY <1>3, ReportKeeps
  <1>4. CASE \/ Refuse \/ StartUndefined \/ StartOutside \/ OutOfIterations \/ TimedOut
             \/ ConvergedAtHead \/ HessianUndefined \/ LinearSolveFails \/ LineSearchFails
    BY <1>4, EndKeeps
  <1>5. CASE UNCHANGED vars
    BY <1>5 DEF vars, IInv, StaysInterior, Running, Answered, Solved
  <1> QED
    BY <1>1, <1>2, <1>3, <1>4, <1>5 DEF Next, Returned

LEMMA InvariantHolds == Spec => []IInv
  <1>1. Init => IInv
    BY DEF Init, IInv, StaysInterior, Running, Answered, Solved
  <1> QED
    BY <1>1, StepInvariant, PTL DEF Spec

\* Whatever the oracle and the linear solver answer, the iterate and the answer
\* stay strictly inside, and the loop works with the iterate's own evaluation.
THEOREM InteriorAlways == Spec => []StaysInterior
  <1>1. IInv => StaysInterior
    BY DEF IInv
  <1> QED
    BY <1>1, InvariantHolds, PTL

\* LocallyOptimal is only answered with all three residuals of the answer
\* within their tolerances, at the head of the loop as after a step.
ResidualsWithin ==
    Solved =>
        /\ result.primal_residual <= PrimalTol
        /\ result.stationarity_residual <= DualTol
        /\ result.complementarity_residual <= PrimalTol
THEOREM LocallyOptimalWithinTolerances == Spec => []ResidualsWithin
  <1>1. IInv => ResidualsWithin
    BY DEF IInv, ResidualsWithin, Solved, Answered
  <1> QED
    BY <1>1, InvariantHolds, PTL

-----------------------------------------------------------------------------
(* Sums and largest elements.                                              *)
Add(a, b) == a + b
Numbers == INSTANCE FoldTheory WITH Typ <- Int, Op <- Add, Base <- 0
Top == INSTANCE FoldTheory WITH Typ <- Int, Op <- Larger, Base <- 0

LEMMA FinitenessIsOne ==
    \A S : /\ Numbers!IsFiniteSet(S) <=> IsFiniteSet(S)
           /\ Top!IsFiniteSet(S) <=> IsFiniteSet(S)
           /\ Numbers!Cardinality(S) = Cardinality(S)
BY DEF IsFiniteSet, Numbers!IsFiniteSet, Top!IsFiniteSet, Cardinality, Numbers!Cardinality

LEMMA SumAdds == Numbers!Adds
BY DEF Numbers!Adds, Add

LEMMA TopMaximises == Top!Maximises
BY DEF Top!Maximises, Larger

LEMMA TotalIsSum == \A f : Total(f) = Numbers!Over(f, DOMAIN f)
BY DEF Total, Numbers!Over, FoldFunction, FoldFunctionOnSet, MapThenFoldSet, Add,
       Numbers!FoldFunctionOnSet, Numbers!MapThenFoldSet

LEMMA LargestIsTop == \A f : Largest(f) = Top!Over(f, DOMAIN f)
BY DEF Largest, Top!Over, FoldFunction, FoldFunctionOnSet, MapThenFoldSet,
       Top!FoldFunctionOnSet, Top!MapThenFoldSet

LEMMA TotalType ==
    ASSUME NEW f, IsFiniteSet(DOMAIN f), \A i \in DOMAIN f : f[i] \in Int
    PROVE  Total(f) \in Int
<1> DEFINE S == DOMAIN f
<1>1. IsFiniteSet(S) /\ \A i \in S : f[i] \in Int OBVIOUS
<1> HIDE DEF S
<1>2. Numbers!Over(f, S) \in Int BY <1>1, FinitenessIsOne, SumAdds, Numbers!SumType
<1> QED BY <1>2, TotalIsSum DEF S

LEMMA LargestFacts ==
    ASSUME NEW f, IsFiniteSet(DOMAIN f), \A i \in DOMAIN f : f[i] \in Int
    PROVE  Largest(f) \in Nat /\ \A i \in DOMAIN f : f[i] <= Largest(f)
<1> DEFINE S == DOMAIN f
<1>1. IsFiniteSet(S) /\ \A i \in S : f[i] \in Int OBVIOUS
<1> HIDE DEF S
<1>2. Top!Over(f, S) \in Nat BY <1>1, FinitenessIsOne, TopMaximises, Top!MaximumType
<1>3. \A i \in S : f[i] <= Top!Over(f, S) BY <1>1, FinitenessIsOne, TopMaximises, Top!MaximumIsAbove
<1> QED BY <1>2, <1>3, LargestIsTop DEF S

LEMMA ProductType == \A a, b \in Int : Product(a, b) \in Int
BY GridAssumption DEF Product

LEMMA MagnitudeType == \A a \in Int : Magnitude(a) \in Nat
BY DEF Magnitude

LEMMA NormInfType ==
    ASSUME NEW S, IsFiniteSet(S), NEW f \in [S -> Int]
    PROVE  NormInf(f) \in Nat /\ \A i \in S : Magnitude(f[i]) <= NormInf(f)
<1> DEFINE g == [i \in DOMAIN f |-> Magnitude(f[i])]
<1>1. DOMAIN g = S /\ \A i \in S : g[i] = Magnitude(f[i]) /\ g[i] \in Int BY MagnitudeType
<1> HIDE DEF g
<1>2. Largest(g) \in Nat /\ \A i \in S : g[i] <= Largest(g) BY <1>1, LargestFacts
<1> QED BY <1>1, <1>2 DEF NormInf, g


LEMMA IntervalsAreFinite ==
    ASSUME NEW n \in Nat
    PROVE  IsFiniteSet(1 .. n)
<1>1. 1 \in Int /\ n \in Int OBVIOUS
<1> QED BY <1>1, FS_Interval, Zenon

-----------------------------------------------------------------------------
(* Where the entries of a list of lists come to stand when it is flattened. *)
Lengths(seqs) == [s \in DOMAIN seqs |-> Len(seqs[s])]
Off(seqs, r) == Numbers!Over(Lengths(seqs), 1 .. r - 1)
Piece(seqs, r) == Off(seqs, r) + 1 .. Off(seqs, r + 1)

LEMMA SumNext ==
    ASSUME NEW f, NEW k \in Nat \ {0}, \A s \in 1 .. k : f[s] \in Int
    PROVE  /\ Numbers!Over(f, 1 .. k) = f[k] + Numbers!Over(f, 1 .. k - 1)
           /\ Numbers!Over(f, 1 .. k - 1) \in Int
<1>1. IsFiniteSet(1 .. k) /\ IsFiniteSet(1 .. k - 1)
  <2>1. k \in Nat /\ k - 1 \in Nat OBVIOUS
  <2> QED BY <2>1, IntervalsAreFinite
<1>2. (1 .. k) \ {k} = 1 .. k - 1 /\ k \in 1 .. k OBVIOUS
<1>3. Numbers!Over(f, 1 .. k) = f[k] + Numbers!Over(f, (1 .. k) \ {k})
  BY <1>1, <1>2, FinitenessIsOne, SumAdds, Numbers!SumAny
<1>4. \A s \in 1 .. k - 1 : f[s] \in Int OBVIOUS
<1>5. Numbers!Over(f, 1 .. k - 1) \in Int
  BY <1>1, <1>4, FinitenessIsOne, SumAdds, Numbers!SumType
<1> QED BY <1>2, <1>3, <1>5

LEMMA OffFacts ==
    ASSUME NEW T, NEW seqs \in Seq(Seq(T))
    PROVE  /\ Off(seqs, 1) = 0
           /\ \A r \in 1 .. Len(seqs) :
                 Off(seqs, r) \in Nat /\ Off(seqs, r + 1) = Off(seqs, r) + Len(seqs[r])
           /\ \A r \in 1 .. Len(seqs) + 1 : Off(seqs, r) \in Nat
           /\ \A r, t \in 1 .. Len(seqs) + 1 : r <= t => Off(seqs, r) <= Off(seqs, t)
<1> DEFINE n == Len(seqs)
           f == Lengths(seqs)
<1>1. n \in Nat /\ \A s \in 1 .. n : seqs[s] \in Seq(T) /\ f[s] = Len(seqs[s]) /\ f[s] \in Nat
  BY DEF Lengths
<1>2. Off(seqs, 1) = 0
  <2>1. 1 .. 1 - 1 = {} OBVIOUS
  <2> QED BY <2>1, Numbers!OverEmpty DEF Off
<1>3. \A r \in 1 .. n : Off(seqs, r) \in Int /\ Off(seqs, r + 1) = Off(seqs, r) + Len(seqs[r])
  <2> TAKE r \in 1 .. n
  <2>1. r \in Nat \ {0} /\ \A s \in 1 .. r : f[s] \in Int BY <1>1
  <2> HIDE DEF f
  <2>2. Numbers!Over(f, 1 .. r) = f[r] + Numbers!Over(f, 1 .. r - 1) /\ Numbers!Over(f, 1 .. r - 1) \in Int
    BY <2>1, SumNext
  <2>3. (r + 1) - 1 = r BY <2>1
  <2> QED BY <1>1, <2>2, <2>3 DEF Off, f
<1> DEFINE Good == {k \in Nat : \A r \in 1 .. n + 1 :
                       r + k <= n + 1 => /\ Off(seqs, r + k) \in Int
                                         /\ Off(seqs, r) <= Off(seqs, r + k)}
<1>4. \A k \in Nat : k \in Good
  <2>1. 0 \in Good
    <3>1. \A r \in 1 .. n + 1 : Off(seqs, r) \in Int
      <4> TAKE r \in 1 .. n + 1
      <4>1. CASE r \in 1 .. n BY <1>3, <4>1
      <4>2. CASE r = n + 1 /\ n = 0 BY <1>2, <4>2
      <4>3. CASE r = n + 1 /\ n # 0
        <5>1. n \in 1 .. n BY <1>1, <4>3
        <5>2. Off(seqs, n + 1) = Off(seqs, n) + Len(seqs[n]) /\ Off(seqs, n) \in Int BY <1>3, <5>1
        <5> QED BY <1>1, <4>3, <5>1, <5>2
      <4> QED BY <1>1, <4>1, <4>2, <4>3
    <3>2. \A r \in 1 .. n + 1 : r + 0 = r BY <1>1
    <3> QED BY <3>1, <3>2
  <2>2. ASSUME NEW k \in Nat, k \in Good PROVE k + 1 \in Good
    <3> SUFFICES ASSUME NEW r \in 1 .. n + 1, r + (k + 1) <= n + 1
                 PROVE  /\ Off(seqs, r + (k + 1)) \in Int
                        /\ Off(seqs, r) <= Off(seqs, r + (k + 1))
      OBVIOUS
    <3>1. r + k \in 1 .. n /\ (r + k) + 1 = r + (k + 1) /\ r + k <= n + 1 /\ r \in Nat BY <1>1
    <3>2. Off(seqs, r + (k + 1)) = Off(seqs, r + k) + Len(seqs[r + k]) /\ Off(seqs, r + k) \in Int
      BY <1>3, <3>1
    <3>3. Len(seqs[r + k]) \in Nat BY <1>1, <3>1
    <3>4. Off(seqs, r) <= Off(seqs, r + k) BY <2>2, <3>1
    <3>5. Off(seqs, r) \in Int
      <4>1. r \in 1 .. n BY <3>1, <1>1
      <4> QED BY <1>3, <4>1
    <3> QED BY <3>2, <3>3, <3>4, <3>5
  <2> HIDE DEF Good
  <2> QED BY <2>1, <2>2, Numbers!NumberInduction
<1>5. \A r, t \in 1 .. n + 1 : r <= t => Off(seqs, t) \in Int /\ Off(seqs, r) <= Off(seqs, t)
  <2> TAKE r, t \in 1 .. n + 1
  <2> SUFFICES ASSUME r <= t PROVE Off(seqs, t) \in Int /\ Off(seqs, r) <= Off(seqs, t) OBVIOUS
  <2>1. t - r \in Nat /\ r + (t - r) = t BY <1>1
  <2>2. t - r \in Good BY <1>4, <2>1
  <2> QED BY <2>1, <2>2
<1>6. \A r \in 1 .. n + 1 : Off(seqs, r) \in Nat
  <2> TAKE r \in 1 .. n + 1
  <2>1. 1 \in 1 .. n + 1 /\ 1 <= r BY <1>1
  <2>2. Off(seqs, r) \in Int /\ Off(seqs, 1) <= Off(seqs, r) BY <1>5, <2>1
  <2> QED BY <1>2, <2>2
<1>7. \A r \in 1 .. n : r \in 1 .. n + 1 BY <1>1
<1> QED BY <1>2, <1>3, <1>5, <1>6, <1>7

\* Every place of the flattened list belongs to one piece.
LEMMA PiecesPart ==
    ASSUME NEW T, NEW seqs \in Seq(Seq(T))
    PROVE  /\ \A k \in 1 .. Off(seqs, Len(seqs) + 1) :
                 \E r \in 1 .. Len(seqs) : k \in Piece(seqs, r)
           /\ \A r, t \in 1 .. Len(seqs) : \A k \in Int :
                 k \in Piece(seqs, r) /\ k \in Piece(seqs, t) => r = t
           /\ \A r \in 1 .. Len(seqs) :
                 Piece(seqs, r) \subseteq 1 .. Off(seqs, Len(seqs) + 1)
<1> DEFINE n == Len(seqs)
           o == [r \in 1 .. n + 1 |-> Off(seqs, r)]
<1>1. n \in Nat OBVIOUS
<1>2. /\ \A r \in 1 .. n + 1 : o[r] = Off(seqs, r) /\ o[r] \in Nat
      /\ o[1] = 0
      /\ \A r, t \in 1 .. n + 1 : r <= t => o[r] <= o[t]
      /\ \A r \in 1 .. n : r + 1 \in 1 .. n + 1 /\ r \in 1 .. n + 1
      /\ n + 1 \in 1 .. n + 1
  BY <1>1, OffFacts
<1>3. \A r \in 1 .. n : Piece(seqs, r) = o[r] + 1 .. o[r + 1] BY <1>2 DEF Piece
<1> HIDE DEF o, n
<1>4. ASSUME NEW k \in 1 .. o[n + 1] PROVE \E r \in 1 .. n : k \in o[r] + 1 .. o[r + 1]
  <2> DEFINE S == {r \in 1 .. n : k <= o[r + 1]}
  <2>1. n # 0 BY <1>2, <1>4
  <2>2. n \in S BY <1>1, <1>2, <2>1
  <2>3. S # {} /\ 1 \in Int BY <2>2
  <2>6. \A r \in S : r \in Int /\ 1 <= r BY <1>1
  <2>7. S \in SUBSET Int BY <2>6
  <2>4. PICK r \in S : \A t \in S : r <= t
    <3> HIDE DEF S
    <3> QED BY <2>3, <2>6, <2>7, Numbers!LeastExists
  <2>5. o[r] < k
    <3>1. CASE r = 1 BY <1>2, <3>1
    <3>2. CASE r # 1
      <4>3. r \in 1 .. n OBVIOUS
      <4> HIDE DEF S
      <4>1. r - 1 \in 1 .. n /\ (r - 1) + 1 = r /\ ~(r <= r - 1) BY <1>1, <3>2, <4>3
      <4>2. r - 1 \notin S BY <2>4, <4>1
      <4>4. ~(k <= o[r]) BY <4>1, <4>2 DEF S
      <4> QED BY <1>2, <4>3, <4>4
    <3> QED BY <3>1, <3>2
  <2> QED BY <1>2, <2>4, <2>5
<1>5. ASSUME NEW r \in 1 .. n, NEW t \in 1 .. n, NEW k \in Int,
             k \in o[r] + 1 .. o[r + 1], k \in o[t] + 1 .. o[t + 1]
      PROVE  ~(r < t)
  <2> SUFFICES ASSUME r < t PROVE FALSE OBVIOUS
  <2>1. r \in Int /\ t \in Int /\ r + 1 <= t BY <1>1
  <2>2. o[r + 1] <= o[t] /\ o[t] \in Nat /\ o[r + 1] \in Nat BY <1>2, <2>1
  <2> QED BY <1>5, <2>2
<1>6. ASSUME NEW r \in 1 .. n, NEW k \in o[r] + 1 .. o[r + 1] PROVE k \in 1 .. o[n + 1]
  <2>1. r \in Int /\ r + 1 <= n + 1 BY <1>1
  <2>2. /\ o[r + 1] <= o[n + 1] /\ o[r] \in Nat
        /\ o[r + 1] \in Nat /\ o[n + 1] \in Nat
    BY <1>2, <2>1
  <2> QED BY <1>6, <2>2
<1>7. \A r, t \in 1 .. n : \A k \in Int :
         k \in o[r] + 1 .. o[r + 1] /\ k \in o[t] + 1 .. o[t + 1] => r = t
  BY <1>5
<1>8. Off(seqs, n + 1) = o[n + 1] BY <1>2
<1>9. \A k \in 1 .. Off(seqs, n + 1) : \E r \in 1 .. n : k \in Piece(seqs, r)
  BY <1>3, <1>4, <1>8
<1>10. \A r, t \in 1 .. n : \A k \in Int : k \in Piece(seqs, r) /\ k \in Piece(seqs, t) => r = t
  BY <1>3, <1>7
<1>11. \A r \in 1 .. n : Piece(seqs, r) \subseteq 1 .. Off(seqs, n + 1)
  BY <1>3, <1>6, <1>8
<1> QED BY <1>9, <1>10, <1>11 DEF n

LEMMA ListIsSequence ==
    ASSUME NEW T, NEW n \in Nat, NEW f \in [1 .. n -> T]
    PROVE  f \in Seq(T) /\ Len(f) = n
OBVIOUS

LEMMA ListIsItself == \A T : \A s \in Seq(T) : s = [k \in 1 .. Len(s) |-> s[k]]
OBVIOUS

LEMMA Concatenation ==
    ASSUME NEW T, NEW f \in Seq(T), NEW g \in Seq(T)
    PROVE  f \o g = [k \in 1 .. Len(f) + Len(g) |-> IF k <= Len(f) THEN f[k] ELSE g[k - Len(f)]]
<1>1. f \o g \in Seq(T) /\ Len(f \o g) = Len(f) + Len(g) OBVIOUS
<1>2. f \o g = [k \in 1 .. Len(f) + Len(g) |-> (f \o g)[k]]
  <2> DEFINE s == f \o g
  <2>1. s \in Seq(T) /\ Len(s) = Len(f) + Len(g) BY <1>1
  <2> HIDE DEF s
  <2>2. s = [k \in 1 .. Len(f) + Len(g) |-> s[k]] BY <2>1, ListIsItself
  <2> QED BY <2>2 DEF s
<1>3. \A k \in 1 .. Len(f) + Len(g) : (f \o g)[k] = IF k <= Len(f) THEN f[k] ELSE g[k - Len(f)]
  OBVIOUS
<1> QED BY <1>2, <1>3

\* The recursion by which FlattenSeq is defined, and its solution.
Flattens(g, seqs) ==
    g = [i \in 1 .. Len(seqs) |-> IF i = 1 THEN seqs[i] ELSE g[i - 1] \o seqs[i]]
At(seqs, k) == CHOOSE r \in 1 .. Len(seqs) : k \in Piece(seqs, r)
Flat(seqs, i) ==
    [k \in 1 .. Off(seqs, i + 1) |-> seqs[At(seqs, k)][k - Off(seqs, At(seqs, k))]]

LEMMA AtPiece ==
    ASSUME NEW T, NEW seqs \in Seq(Seq(T)), NEW r \in 1 .. Len(seqs),
           NEW j \in 1 .. Len(seqs[r])
    PROVE  /\ Off(seqs, r) + j \in Piece(seqs, r)
           /\ At(seqs, Off(seqs, r) + j) = r
           /\ (Off(seqs, r) + j) - Off(seqs, r) = j
<1> DEFINE k == Off(seqs, r) + j
<1>1. /\ Off(seqs, r) \in Nat /\ Off(seqs, r + 1) = Off(seqs, r) + Len(seqs[r])
      /\ Len(seqs[r]) \in Nat
  BY OffFacts
<1>2. k \in Piece(seqs, r) /\ k \in Int /\ k - Off(seqs, r) = j BY <1>1 DEF Piece
<1> HIDE DEF k
<1>3. \A t \in 1 .. Len(seqs) : k \in Piece(seqs, t) => r = t BY <1>2, PiecesPart
<1>4. At(seqs, k) = r BY <1>2, <1>3 DEF At
<1> QED BY <1>2, <1>4 DEF k

LEMMA FlatFlattens ==
    ASSUME NEW T, NEW seqs \in Seq(Seq(T))
    PROVE  /\ Flattens([i \in 1 .. Len(seqs) |-> Flat(seqs, i)], seqs)
           /\ \A i \in 1 .. Len(seqs) : Flat(seqs, i) \in Seq(T)
<1> DEFINE n == Len(seqs)
           o(r) == Off(seqs, r)
<1>0. n \in Nat /\ \A r \in 1 .. n : seqs[r] \in Seq(T) /\ Len(seqs[r]) \in Nat OBVIOUS
<1>1. /\ o(1) = 0 /\ \A r \in 1 .. n : o(r) \in Nat /\ o(r + 1) = o(r) + Len(seqs[r])
      /\ \A r \in 1 .. n + 1 : o(r) \in Nat
      /\ \A r, t \in 1 .. n + 1 : r <= t => o(r) <= o(t)
  BY OffFacts
<1>2. ASSUME NEW i \in 1 .. n, NEW k \in 1 .. o(i + 1)
      PROVE  /\ At(seqs, k) \in 1 .. i /\ k \in Piece(seqs, At(seqs, k))
             /\ k - o(At(seqs, k)) \in 1 .. Len(seqs[At(seqs, k)])
  <2> DEFINE r == At(seqs, k)
  <2>1. i + 1 \in 1 .. n + 1 /\ n + 1 \in 1 .. n + 1 /\ i + 1 <= n + 1 BY <1>0
  <2>2. o(i + 1) <= o(n + 1) /\ o(i + 1) \in Nat /\ o(n + 1) \in Nat BY <1>1, <2>1
  <2>3. k \in 1 .. o(n + 1) BY <2>2
  <2>4. r \in 1 .. n /\ k \in Piece(seqs, r)
    <3>1. \E t \in 1 .. n : k \in Piece(seqs, t) BY <2>3, PiecesPart
    <3> QED BY <3>1 DEF At
  <2> HIDE DEF r
  <2>5. o(r) \in Nat /\ o(r + 1) = o(r) + Len(seqs[r]) /\ Len(seqs[r]) \in Nat BY <1>0, <1>1, <2>4
  <2>6. k - o(r) \in 1 .. Len(seqs[r]) /\ o(r) < k
    <3>1. k \in o(r) + 1 .. o(r + 1) BY <2>4 DEF Piece
    <3> HIDE DEF o
    <3> QED BY <2>5, <3>1
  <2>7. ~(i < r)
    <3> SUFFICES ASSUME i < r PROVE FALSE OBVIOUS
    <3>1. i + 1 <= r /\ r \in 1 .. n + 1 BY <1>0, <2>4
    <3>2. o(i + 1) <= o(r) BY <1>1, <2>1, <3>1
    <3> QED BY <2>2, <2>5, <2>6, <3>2
  <2>8. r \in 1 .. i BY <1>0, <2>4, <2>7
  <2> QED BY <2>4, <2>6, <2>8 DEF r
<1>3. ASSUME NEW i \in 1 .. n
      PROVE  Flat(seqs, i) \in Seq(T) /\ Len(Flat(seqs, i)) = o(i + 1) /\ o(i + 1) \in Nat
  <2>1. o(i + 1) \in Nat
    <3>1. i + 1 \in 1 .. n + 1 BY <1>0
    <3> QED BY <1>1, <3>1
  <2>2. \A k \in 1 .. o(i + 1) : seqs[At(seqs, k)][k - o(At(seqs, k))] \in T
    <3> TAKE k \in 1 .. o(i + 1)
    <3>1. At(seqs, k) \in 1 .. n BY <1>0, <1>2
    <3>2. k - o(At(seqs, k)) \in 1 .. Len(seqs[At(seqs, k)]) BY <1>2
    <3>3. seqs[At(seqs, k)] \in Seq(T) BY <1>0, <3>1
    <3> QED BY <3>2, <3>3
  <2>3. Flat(seqs, i) \in [1 .. o(i + 1) -> T] BY <2>2 DEF Flat
  <2> HIDE DEF o
  <2> QED BY <2>1, <2>3, ListIsSequence
<1>4. Flat(seqs, 1) = seqs[1] \/ n = 0
  <2> SUFFICES ASSUME n # 0 PROVE Flat(seqs, 1) = seqs[1] OBVIOUS
  <2>1. 1 \in 1 .. n BY <1>0
  <2>2. o(2) = Len(seqs[1]) /\ seqs[1] \in Seq(T) /\ Len(seqs[1]) \in Nat
    <3>1. o(1 + 1) = o(1) + Len(seqs[1]) BY <1>1, <2>1
    <3>2. Len(seqs[1]) \in Nat /\ seqs[1] \in Seq(T) BY <1>0, <2>1
    <3>3. 1 + 1 = 2 OBVIOUS
    <3> QED BY <1>1, <3>1, <3>2, <3>3
  <2>3. \A k \in 1 .. o(2) : seqs[At(seqs, k)][k - o(At(seqs, k))] = seqs[1][k]
    <3> TAKE k \in 1 .. o(2)
    <3>1. 1 + 1 = 2 OBVIOUS
    <3>2. At(seqs, k) \in 1 .. 1 BY <1>2, <2>1, <3>1
    <3>3. At(seqs, k) = 1 BY <3>2
    <3>4. k - 0 = k BY <2>2
    <3> QED BY <1>1, <3>3, <3>4
  <2>4. Flat(seqs, 1) = [k \in 1 .. o(2) |-> seqs[1][k]]
    <3>1. 1 + 1 = 2 OBVIOUS
    <3> QED BY <2>3, <3>1 DEF Flat
  <2>5. seqs[1] = [k \in 1 .. Len(seqs[1]) |-> seqs[1][k]] BY <2>2
  <2> QED BY <2>2, <2>4, <2>5
<1>5. ASSUME NEW i \in 1 .. n, i # 1
      PROVE  Flat(seqs, i) = Flat(seqs, i - 1) \o seqs[i]
  <2>1. i - 1 \in 1 .. n /\ (i - 1) + 1 = i /\ i \in Nat BY <1>0, <1>5
  <2> DEFINE f == Flat(seqs, i - 1)
             g == seqs[i]
             a == o(i)
             b == Len(g)
  <2>2. f \in Seq(T) /\ g \in Seq(T) /\ Len(f) = a /\ a \in Nat /\ b \in Nat /\ o(i + 1) = a + b
    BY <1>0, <1>1, <1>3, <2>1
  <2>3. f \o g = [k \in 1 .. a + b |-> IF k <= a THEN f[k] ELSE g[k - a]]
    <3> HIDE DEF f, g
    <3>1. f \o g = [k \in 1 .. Len(f) + Len(g) |-> IF k <= Len(f) THEN f[k] ELSE g[k - Len(f)]]
      BY <2>2, Concatenation
    <3> QED BY <2>2, <3>1
  <2>4. ASSUME NEW k \in 1 .. a + b
        PROVE  seqs[At(seqs, k)][k - o(At(seqs, k))] = IF k <= a THEN f[k] ELSE g[k - a]
    <3>1. CASE k <= a
      <4>1. k \in 1 .. a BY <2>2, <3>1
      <4>2. f[k] = seqs[At(seqs, k)][k - o(At(seqs, k))] BY <2>1, <4>1 DEF Flat
      <4> QED BY <3>1, <4>2
    <3>2. CASE ~(k <= a)
      <4>1. At(seqs, k) \in 1 .. i /\ k \in Piece(seqs, At(seqs, k)) BY <1>2, <2>2
      <4>2. k \in Piece(seqs, i) /\ k \in Int BY <2>2, <3>2 DEF Piece
      <4>3. At(seqs, k) \in 1 .. n BY <1>0, <4>1
      <4>4. At(seqs, k) = i BY <4>1, <4>2, <4>3, PiecesPart
      <4> QED BY <3>2, <4>4
    <3> QED BY <3>1, <3>2
  <2>5. Flat(seqs, i) = [k \in 1 .. a + b |-> IF k <= a THEN f[k] ELSE g[k - a]]
    <3>1. Flat(seqs, i) = [k \in 1 .. a + b |-> seqs[At(seqs, k)][k - o(At(seqs, k))]]
      BY <2>2 DEF Flat
    <3> HIDE DEF f, g, a, b, o
    <3> QED BY <2>4, <3>1
  <2> QED BY <2>3, <2>5
<1>6. Flattens([i \in 1 .. n |-> Flat(seqs, i)], seqs)
  <2> DEFINE G == [i \in 1 .. n |-> Flat(seqs, i)]
  <2>1. ASSUME NEW i \in 1 .. n PROVE G[i] = IF i = 1 THEN seqs[i] ELSE G[i - 1] \o seqs[i]
    <3>1. CASE i = 1 BY <1>0, <1>4, <3>1
    <3>2. CASE i # 1
      <4>1. i - 1 \in 1 .. n BY <1>0, <3>2
      <4> QED BY <1>5, <3>2, <4>1
    <3> QED BY <3>1, <3>2
  <2>2. G = [i \in 1 .. n |-> G[i]] OBVIOUS
  <2> HIDE DEF G
  <2>3. G = [i \in 1 .. n |-> IF i = 1 THEN seqs[i] ELSE G[i - 1] \o seqs[i]] BY <2>1, <2>2
  <2> QED BY <2>3 DEF Flattens, G
<1> QED BY <1>3, <1>6

\* A flattened list: how long it is, and entry j of piece r.
LEMMA FlattenedFacts ==
    ASSUME NEW T, NEW seqs \in Seq(Seq(T))
    PROVE  /\ FlattenSeq(seqs) \in Seq(T)
           /\ Len(FlattenSeq(seqs)) = Off(seqs, Len(seqs) + 1)
           /\ \A r \in 1 .. Len(seqs) : \A j \in 1 .. Len(seqs[r]) :
                 FlattenSeq(seqs)[Off(seqs, r) + j] = seqs[r][j]
<1> DEFINE n == Len(seqs)
           G == [i \in 1 .. n |-> Flat(seqs, i)]
           h == CHOOSE g : Flattens(g, seqs)
<1>0. n \in Nat OBVIOUS
<1>1. CASE n = 0
  <2>1. FlattenSeq(seqs) = seqs /\ seqs = <<>> BY <1>1 DEF FlattenSeq
  <2>2. Off(seqs, n + 1) = 0
    <3>1. n + 1 = 1 BY <1>1
    <3> QED BY <3>1, OffFacts
  <2>3. <<>> \in Seq(T) /\ Len(<<>>) = 0 OBVIOUS
  <2>4. 1 .. n = {} BY <1>1
  <2> QED BY <2>1, <2>2, <2>3, <2>4
<1>2. CASE n # 0
  <2>1. FlattenSeq(seqs) = h[n] BY <1>0, <1>2 DEF FlattenSeq, Flattens
  <2>2. Flattens(G, seqs) BY FlatFlattens
  <2>3. Flattens(h, seqs)
    <3> HIDE DEF G
    <3> QED BY <2>2
  <2> HIDE DEF h, G, n
  <2> DEFINE Good == {k \in Nat : k + 1 \in 1 .. n => h[k + 1] = G[k + 1]}
  <2>4. 0 \in Good
    <3>1. 0 + 1 = 1 OBVIOUS
    <3>2. 1 \in 1 .. n => h[1] = seqs[1] /\ G[1] = seqs[1] BY <2>2, <2>3 DEF Flattens, n
    <3> QED BY <3>1, <3>2
  <2>5. ASSUME NEW k \in Nat, k \in Good PROVE k + 1 \in Good
    <3> SUFFICES ASSUME (k + 1) + 1 \in 1 .. n PROVE h[(k + 1) + 1] = G[(k + 1) + 1]
      OBVIOUS
    <3> DEFINE i == (k + 1) + 1
    <3>1. i \in 1 .. n /\ i # 1 /\ i - 1 = k + 1 /\ k + 1 \in 1 .. n BY <1>0
    <3>2. h[k + 1] = G[k + 1] BY <2>5, <3>1
    <3> HIDE DEF i
    <3>3. h[i] = h[i - 1] \o seqs[i] /\ G[i] = G[i - 1] \o seqs[i]
      BY <2>2, <2>3, <3>1 DEF Flattens, n
    <3> QED BY <3>1, <3>2, <3>3 DEF i
  <2>6. \A k \in Nat : k \in Good
    <3> HIDE DEF Good
    <3> QED BY <2>4, <2>5, Numbers!NumberInduction
  <2>7. h[n] = G[n]
    <3>1. n - 1 \in Nat /\ (n - 1) + 1 = n /\ n \in 1 .. n BY <1>0, <1>2
    <3>2. n - 1 \in Good BY <2>6, <3>1
    <3> QED BY <3>1, <3>2
  <2>8. n \in 1 .. n BY <1>0, <1>2
  <2>9. FlattenSeq(seqs) = Flat(seqs, n) BY <2>1, <2>7, <2>8 DEF G
  <2>10. Flat(seqs, n) \in Seq(T) BY <2>8, FlatFlattens DEF n
  <2>11. Off(seqs, n + 1) \in Nat BY <1>0, OffFacts DEF n
  <2>12. DOMAIN Flat(seqs, n) = 1 .. Off(seqs, n + 1) BY DEF Flat
  <2>13. Len(Flat(seqs, n)) = Off(seqs, n + 1) BY <2>10, <2>11, <2>12
  <2>14. ASSUME NEW r \in 1 .. Len(seqs), NEW j \in 1 .. Len(seqs[r])
         PROVE  Flat(seqs, n)[Off(seqs, r) + j] = seqs[r][j]
    <3>1. /\ Off(seqs, r) + j \in Piece(seqs, r) /\ At(seqs, Off(seqs, r) + j) = r
          /\ (Off(seqs, r) + j) - Off(seqs, r) = j
      BY AtPiece
    <3>2. Off(seqs, r) + j \in 1 .. Off(seqs, n + 1) BY <3>1, PiecesPart DEF n
    <3> QED BY <3>1, <3>2 DEF Flat
  <2> QED BY <2>9, <2>10, <2>13, <2>14 DEF n
<1> QED BY <1>1, <1>2

LEMMA SumByParts ==
    ASSUME NEW S, NEW N, Numbers!IsFiniteSet(S), Numbers!IsFiniteSet(N),
           NEW part \in [N -> S], NEW class \in [S -> SUBSET N],
           \A r \in S : \A k \in N : k \in class[r] <=> part[k] = r,
           NEW h, \A k \in N : h[k] \in Int,
           NEW f, \A r \in S : f[r] \in Int /\ Add(f[r], 0) = Numbers!Over(h, class[r])
    PROVE  Numbers!Over(f, S) = Numbers!Over(h, N)
BY SumAdds, Numbers!AddsLaws, Numbers!OverParts

\* A sum over a flattened list is the sum over the pieces of their sums.
LEMMA FlattenedSum ==
    ASSUME NEW T, NEW seqs \in Seq(Seq(T)), NEW h,
           \A k \in 1 .. Off(seqs, Len(seqs) + 1) : h[k] \in Int
    PROVE  Numbers!Over(h, 1 .. Off(seqs, Len(seqs) + 1))
             = Numbers!Over([r \in 1 .. Len(seqs) |-> Numbers!Over(h, Piece(seqs, r))],
                            1 .. Len(seqs))
<1> DEFINE n == Len(seqs)
           S == 1 .. n
           N == 1 .. Off(seqs, n + 1)
           part == [k \in N |-> At(seqs, k)]
           class == [r \in S |-> Piece(seqs, r)]
           f == [r \in S |-> Numbers!Over(h, Piece(seqs, r))]
<1>1. n \in Nat /\ n + 1 \in 1 .. n + 1 OBVIOUS
<1>2. Off(seqs, n + 1) \in Nat BY <1>1, OffFacts
<1>3. IsFiniteSet(S) /\ IsFiniteSet(N) BY <1>1, <1>2, IntervalsAreFinite
<1>4. /\ \A k \in N : \E r \in S : k \in Piece(seqs, r)
      /\ \A r, t \in S : \A k \in Int : k \in Piece(seqs, r) /\ k \in Piece(seqs, t) => r = t
      /\ \A r \in S : Piece(seqs, r) \in SUBSET N
  BY PiecesPart
<1>5. \A k \in N : At(seqs, k) \in S /\ k \in Piece(seqs, At(seqs, k)) /\ k \in Int
  BY <1>2, <1>4 DEF At
<1> HIDE DEF S, N
<1>6. part \in [N -> S] /\ class \in [S -> SUBSET N] BY <1>4, <1>5
<1>7. \A r \in S : \A k \in N : k \in class[r] <=> part[k] = r BY <1>4, <1>5
<1>8. ASSUME NEW r \in S PROVE f[r] \in Int /\ Add(f[r], 0) = Numbers!Over(h, class[r])
  <2>1. IsFiniteSet(Piece(seqs, r)) BY <1>3, <1>4, FS_Subset
  <2>2. \A k \in Piece(seqs, r) : h[k] \in Int BY <1>4 DEF N
  <2>3. Numbers!Over(h, Piece(seqs, r)) \in Int
    BY <2>1, <2>2, FinitenessIsOne, SumAdds, Numbers!SumType
  <2> QED BY <2>3 DEF Add
<1>9. Numbers!Laws /\ Numbers!Idle BY SumAdds, Numbers!AddsLaws
<1>10. \A k \in N : h[k] \in Int BY DEF N
<1> HIDE DEF part, class, f
<1>11. Numbers!IsFiniteSet(S) /\ Numbers!IsFiniteSet(N) BY <1>3, FinitenessIsOne
<1>12. \A r \in S : f[r] \in Int /\ Add(f[r], 0) = Numbers!Over(h, class[r]) BY <1>8
<1>13. Numbers!Over(f, S) = Numbers!Over(h, N)
  BY <1>6, <1>7, <1>9, <1>10, <1>11, <1>12, SumByParts
<1> QED BY <1>13 DEF f, S, N

-----------------------------------------------------------------------------
(* The lists of evaluate: how long they are, and where a row's entries are. *)
SideCount(lower, upper) == One(Finite(lower)) + One(Finite(upper))
RowCount(row) == IF IsEquality(row) THEN 0 ELSE SideCount(row.lower, row.upper)
EqualityLists(m, values, jacobian) ==
    [r \in RowsOf(m) |-> If(IsEquality(m.rows[r]), NlpRow(jacobian[r], values[r] - m.rows[r].lower))]
RowLists(m, values, jacobian) ==
    [r \in RowsOf(m) |->
        IF IsEquality(m.rows[r]) THEN <<>>
        ELSE Sides(m.rows[r].lower, m.rows[r].upper,
                   jacobian[r], Minus(jacobian[r]), values[r])]
BoundLists(m, lower, upper, p) ==
    [v \in ColumnsOf(m) |->
        Sides(lower[v], upper[v], Basis(m, v, Unit), Basis(m, v, -Unit), p[v])]

LEMMA IfFacts ==
    ASSUME NEW test \in BOOLEAN, NEW row, NEW T, row \in T
    PROVE  /\ If(test, row) \in Seq(T) /\ Len(If(test, row)) = One(test)
           /\ test => If(test, row)[1] = row
BY DEF If, One

LEMMA FiniteType == \A a : Finite(a) \in BOOLEAN
BY DEF Finite

LEMMA PairFacts ==
    ASSUME NEW T, NEW a \in T, NEW b \in T
    PROVE  /\ <<a>> \o <<b>> \in Seq(T) /\ Len(<<a>> \o <<b>>) = 2
           /\ (<<a>> \o <<b>>)[1] = a /\ (<<a>> \o <<b>>)[2] = b
<1>1. \A f, g \in Seq(T) : Len(f) = 1 /\ Len(g) = 1 =>
          f \o g \in Seq(T) /\ Len(f \o g) = 2 /\ (f \o g)[1] = f[1] /\ (f \o g)[2] = g[1]
  <2> TAKE f, g \in Seq(T)
  <2> SUFFICES ASSUME Len(f) = 1, Len(g) = 1
               PROVE  /\ f \o g \in Seq(T) /\ Len(f \o g) = 2
                      /\ (f \o g)[1] = f[1] /\ (f \o g)[2] = g[1]
    OBVIOUS
  <2>1. f \o g \in Seq(T) /\ Len(f \o g) = Len(f) + Len(g)
    <3>1. f \o g \in Seq(T) OBVIOUS
    <3>2. Len(f \o g) = Len(f) + Len(g) OBVIOUS
    <3> QED BY <3>1, <3>2
  <2>2. f \o g = [k \in 1 .. Len(f) + Len(g) |-> IF k <= Len(f) THEN f[k] ELSE g[k - Len(f)]]
    BY Concatenation
  <2>3. Len(f) + Len(g) = 2 /\ 1 \in 1 .. 2 /\ 2 \in 1 .. 2 /\ 1 <= 1 /\ ~(2 <= 1) /\ 2 - 1 = 1
    OBVIOUS
  <2>4. f \o g = [k \in 1 .. 2 |-> IF k <= 1 THEN f[k] ELSE g[k - 1]] BY <2>2, <2>3
  <2> HIDE <2>1, <2>2
  <2>5. (f \o g)[1] = f[1] /\ (f \o g)[2] = g[1] BY <2>3, <2>4, Zenon
  <2> QED BY <2>1, <2>3, <2>5
<1>2. /\ <<a>> \in Seq(T) /\ Len(<<a>>) = 1 /\ <<a>>[1] = a
      /\ <<b>> \in Seq(T) /\ Len(<<b>>) = 1 /\ <<b>>[1] = b
  OBVIOUS
<1> QED BY <1>1, <1>2

LEMMA SidesFacts ==
    ASSUME NEW lower, NEW upper, NEW gradient, NEW minus, NEW value, NEW T,
           NlpRow(minus, lower - value) \in T, NlpRow(gradient, value - upper) \in T
    PROVE  LET s == Sides(lower, upper, gradient, minus, value) IN
           /\ s \in Seq(T) /\ Len(s) = SideCount(lower, upper)
           /\ Finite(lower) => s[1] = NlpRow(minus, lower - value)
           /\ Finite(upper) => s[One(Finite(lower)) + 1] = NlpRow(gradient, value - upper)
<1> DEFINE a == NlpRow(minus, lower - value)
           b == NlpRow(gradient, value - upper)
<1>0. a \in T /\ b \in T OBVIOUS
<1>1. Sides(lower, upper, gradient, minus, value) = If(Finite(lower), a) \o If(Finite(upper), b)
  BY DEF Sides
<1> HIDE DEF a, b
<1>2. CASE Finite(lower) /\ Finite(upper)
  <2>1. Sides(lower, upper, gradient, minus, value) = <<a>> \o <<b>> BY <1>1, <1>2 DEF If
  <2> QED BY <1>0, <1>2, <2>1, PairFacts DEF SideCount, One, a, b
<1>3. CASE Finite(lower) /\ ~Finite(upper)
  <2>1. Sides(lower, upper, gradient, minus, value) = <<a>> \o <<>> BY <1>1, <1>3 DEF If
  <2>2. <<a>> \o <<>> = <<a>> BY <1>0
  <2>3. <<a>> \in Seq(T) /\ Len(<<a>>) = 1 /\ <<a>>[1] = a BY <1>0
  <2> QED BY <1>3, <2>1, <2>2, <2>3 DEF SideCount, One, a
<1>4. CASE ~Finite(lower) /\ Finite(upper)
  <2>1. Sides(lower, upper, gradient, minus, value) = <<>> \o <<b>> BY <1>1, <1>4 DEF If
  <2>2. <<>> \o <<b>> = <<b>> BY <1>0
  <2>3. <<b>> \in Seq(T) /\ Len(<<b>>) = 1 /\ <<b>>[1] = b BY <1>0
  <2> QED BY <1>4, <2>1, <2>2, <2>3 DEF SideCount, One, b
<1>5. CASE ~Finite(lower) /\ ~Finite(upper)
  <2>1. Sides(lower, upper, gradient, minus, value) = <<>> \o <<>> BY <1>1, <1>5 DEF If
  <2>2. <<>> \o <<>> = <<>> OBVIOUS
  <2>3. <<>> \in Seq(T) /\ Len(<<>>) = 0 OBVIOUS
  <2> QED BY <1>5, <2>1, <2>2, <2>3 DEF SideCount, One
<1> QED BY <1>2, <1>3, <1>4, <1>5

\* The entries that come before those of r.
Place(count, r) == Numbers!Over(count, 1 .. r - 1)

\* A flattened list whose pieces are as long as counted.
LEMMA FlattenedCounted ==
    ASSUME NEW T, NEW seqs \in Seq(Seq(T)), NEW count,
           \A r \in 1 .. Len(seqs) : Len(seqs[r]) = count[r]
    PROVE  /\ FlattenSeq(seqs) \in Seq(T)
           /\ Len(FlattenSeq(seqs)) = Numbers!Over(count, 1 .. Len(seqs))
           /\ \A r \in 1 .. Len(seqs) + 1 : Off(seqs, r) = Numbers!Over(count, 1 .. r - 1)
           /\ \A r \in 1 .. Len(seqs) : \A j \in 1 .. Len(seqs[r]) :
                 /\ FlattenSeq(seqs)[Off(seqs, r) + j] = seqs[r][j]
                 /\ Place(count, r) + j \in 1 .. Place(count, Len(seqs) + 1)
                 /\ FlattenSeq(seqs)[Place(count, r) + j] = seqs[r][j]
           /\ \A r \in 1 .. Len(seqs) + 1 : Off(seqs, r) = Place(count, r)
           /\ Len(FlattenSeq(seqs)) = Place(count, Len(seqs) + 1)
<1> DEFINE n == Len(seqs)
           f == Lengths(seqs)
<1>1. n \in Nat /\ \A s \in 1 .. n : f[s] = count[s] BY DEF Lengths
<1>2. ASSUME NEW r \in 1 .. n + 1 PROVE Off(seqs, r) = Numbers!Over(count, 1 .. r - 1)
  <2>1. r - 1 \in Nat /\ \A s \in 1 .. r - 1 : f[s] = count[s] BY <1>1
  <2> HIDE DEF f
  <2>2. Numbers!Over(f, 1 .. r - 1) = Numbers!Over(count, 1 .. r - 1)
    BY <2>1, IntervalsAreFinite, FinitenessIsOne, Numbers!OverEqual
  <2> QED BY <2>2 DEF Off, f
<1>3. n + 1 \in 1 .. n + 1 /\ (n + 1) - 1 = n BY <1>1
<1>4. Off(seqs, n + 1) = Numbers!Over(count, 1 .. n) BY <1>2, <1>3
<1>5. Off(seqs, n + 1) = Place(count, n + 1) BY <1>2, <1>3 DEF Place
<1>6. \A r \in 1 .. n + 1 : Off(seqs, r) = Place(count, r) BY <1>2 DEF Place
<1>7. ASSUME NEW r \in 1 .. n, NEW j \in 1 .. Len(seqs[r])
      PROVE  Place(count, r) + j \in 1 .. Place(count, n + 1)
  <2>1. Off(seqs, r) + j \in Piece(seqs, r) BY AtPiece
  <2>2. Piece(seqs, r) \subseteq 1 .. Off(seqs, n + 1) BY PiecesPart
  <2>3. r \in 1 .. n + 1 BY <1>1
  <2> QED BY <1>5, <1>6, <2>1, <2>2, <2>3
<1>8. /\ FlattenSeq(seqs) \in Seq(T)
      /\ Len(FlattenSeq(seqs)) = Off(seqs, n + 1)
      /\ \A r \in 1 .. n : \A j \in 1 .. Len(seqs[r]) :
            FlattenSeq(seqs)[Off(seqs, r) + j] = seqs[r][j]
  BY FlattenedFacts
<1>9. \A r \in 1 .. n : Off(seqs, r) = Place(count, r) BY <1>1, <1>6
<1> QED BY <1>2, <1>4, <1>5, <1>6, <1>7, <1>8, <1>9

LEMMA RowsAreAList ==
    ASSUME NEW m, IsModel(m)
    PROVE  /\ Len(m.rows) \in Nat /\ RowsOf(m) = 1 .. Len(m.rows)
           /\ Len(m.linear) \in Nat /\ ColumnsOf(m) = 1 .. Len(m.linear)
BY DEF IsModel, RowsOf, ColumnsOf

LEMMA EqualityListFacts ==
    ASSUME NEW m, IsModel(m), NEW values, NEW jacobian
    PROVE  LET seqs == EqualityLists(m, values, jacobian) IN
           /\ \E T : seqs \in Seq(Seq(T))
           /\ Len(seqs) = Len(m.rows)
           /\ \A r \in 1 .. Len(m.rows) : Len(seqs[r]) = One(IsEquality(m.rows[r]))
<1> DEFINE n == Len(m.rows)
           seqs == EqualityLists(m, values, jacobian)
           T == {NlpRow(jacobian[r], values[r] - m.rows[r].lower) : r \in 1 .. n}
<1>1. n \in Nat /\ RowsOf(m) = 1 .. n BY RowsAreAList
<1>2. ASSUME NEW r \in 1 .. n
      PROVE  seqs[r] \in Seq(T) /\ Len(seqs[r]) = One(IsEquality(m.rows[r]))
  <2>1. seqs[r] = If(IsEquality(m.rows[r]), NlpRow(jacobian[r], values[r] - m.rows[r].lower))
    BY <1>1 DEF EqualityLists
  <2>2. IsEquality(m.rows[r]) \in BOOLEAN BY DEF IsEquality
  <2>3. NlpRow(jacobian[r], values[r] - m.rows[r].lower) \in T OBVIOUS
  <2> HIDE DEF T
  <2> QED BY <2>1, <2>2, <2>3, IfFacts
<1>3. seqs = [r \in 1 .. n |-> seqs[r]] BY <1>1 DEF EqualityLists
<1> HIDE DEF n, seqs, T
<1>4. seqs \in [1 .. n -> Seq(T)] BY <1>2, <1>3
<1>5. seqs \in Seq(Seq(T)) /\ Len(seqs) = n BY <1>1, <1>4, ListIsSequence
<1> QED BY <1>2, <1>5 DEF n, seqs

\* The entries of a row's sides, and of a bound's.
LEMMA RowListFacts ==
    ASSUME NEW m, IsModel(m), NEW values, NEW jacobian
    PROVE  LET seqs == RowLists(m, values, jacobian) IN
           /\ \E T : seqs \in Seq(Seq(T))
           /\ Len(seqs) = Len(m.rows)
           /\ \A r \in 1 .. Len(m.rows) : Len(seqs[r]) = RowCount(m.rows[r])
<1> DEFINE n == Len(m.rows)
           seqs == RowLists(m, values, jacobian)
           low(r) == NlpRow(Minus(jacobian[r]), m.rows[r].lower - values[r])
           up(r) == NlpRow(jacobian[r], values[r] - m.rows[r].upper)
           T == {low(r) : r \in 1 .. n} \cup {up(r) : r \in 1 .. n}
<1>1. n \in Nat /\ RowsOf(m) = 1 .. n BY RowsAreAList
<1>2. ASSUME NEW r \in 1 .. n
      PROVE  seqs[r] \in Seq(T) /\ Len(seqs[r]) = RowCount(m.rows[r])
  <2>1. CASE IsEquality(m.rows[r])
    <3>1. seqs[r] = <<>> BY <1>1, <2>1 DEF RowLists
    <3>2. <<>> \in Seq(T) /\ Len(<<>>) = 0 OBVIOUS
    <3> QED BY <2>1, <3>1, <3>2 DEF RowCount
  <2>2. CASE ~IsEquality(m.rows[r])
    <3>1. seqs[r] = Sides(m.rows[r].lower, m.rows[r].upper, jacobian[r], Minus(jacobian[r]), values[r])
      BY <1>1, <2>2 DEF RowLists
    <3>2. low(r) \in T /\ up(r) \in T OBVIOUS
    <3> HIDE DEF T
    <3>3. /\ seqs[r] \in Seq(T)
          /\ Len(seqs[r]) = SideCount(m.rows[r].lower, m.rows[r].upper)
          /\ Finite(m.rows[r].lower) => seqs[r][1] = low(r)
          /\ Finite(m.rows[r].upper) => seqs[r][One(Finite(m.rows[r].lower)) + 1] = up(r)
      BY <3>1, <3>2, SidesFacts
    <3> QED BY <2>2, <3>3 DEF RowCount
  <2> QED BY <2>1, <2>2
<1>3. seqs = [r \in 1 .. n |-> seqs[r]] BY <1>1 DEF RowLists
<1> HIDE DEF n, seqs, T
<1>4. seqs \in [1 .. n -> Seq(T)] BY <1>2, <1>3
<1>5. seqs \in Seq(Seq(T)) /\ Len(seqs) = n BY <1>1, <1>4, ListIsSequence
<1> QED BY <1>2, <1>5 DEF n, seqs

LEMMA RowPieces ==
    ASSUME NEW m, IsModel(m), NEW values, NEW jacobian, NEW r \in 1 .. Len(m.rows)
    PROVE  /\ ~IsEquality(m.rows[r]) /\ Finite(m.rows[r].lower) =>
                 RowLists(m, values, jacobian)[r][1]
                   = NlpRow(Minus(jacobian[r]), m.rows[r].lower - values[r])
           /\ ~IsEquality(m.rows[r]) /\ Finite(m.rows[r].upper) =>
                 RowLists(m, values, jacobian)[r][One(Finite(m.rows[r].lower)) + 1]
                   = NlpRow(jacobian[r], values[r] - m.rows[r].upper)
<1> DEFINE low == NlpRow(Minus(jacobian[r]), m.rows[r].lower - values[r])
           up == NlpRow(jacobian[r], values[r] - m.rows[r].upper)
           s == RowLists(m, values, jacobian)[r]
<1> SUFFICES ASSUME ~IsEquality(m.rows[r])
             PROVE  /\ Finite(m.rows[r].lower) => s[1] = low
                    /\ Finite(m.rows[r].upper) => s[One(Finite(m.rows[r].lower)) + 1] = up
  OBVIOUS
<1>1. r \in RowsOf(m) BY RowsAreAList
<1>2. s = Sides(m.rows[r].lower, m.rows[r].upper, jacobian[r], Minus(jacobian[r]), values[r])
  BY <1>1 DEF RowLists
<1> DEFINE T == {low, up}
<1>3. low \in T /\ up \in T OBVIOUS
<1> HIDE DEF T
<1>4. /\ s \in Seq(T)
      /\ Len(s) = SideCount(m.rows[r].lower, m.rows[r].upper)
      /\ Finite(m.rows[r].lower) => s[1] = low
      /\ Finite(m.rows[r].upper) => s[One(Finite(m.rows[r].lower)) + 1] = up
  BY <1>2, <1>3, SidesFacts
<1> QED BY <1>4

LEMMA BoundListFacts ==
    ASSUME NEW m, IsModel(m), NEW lower, NEW upper, NEW p
    PROVE  LET seqs == BoundLists(m, lower, upper, p) IN
           /\ \E T : seqs \in Seq(Seq(T))
           /\ Len(seqs) = Len(m.linear)
           /\ \A v \in 1 .. Len(m.linear) :
                 /\ Len(seqs[v]) = SideCount(lower[v], upper[v])
                 /\ Finite(lower[v]) => seqs[v][1] = NlpRow(Basis(m, v, -Unit), lower[v] - p[v])
                 /\ Finite(upper[v]) => seqs[v][One(Finite(lower[v])) + 1]
                                          = NlpRow(Basis(m, v, Unit), p[v] - upper[v])
<1> DEFINE n == Len(m.linear)
           seqs == BoundLists(m, lower, upper, p)
           low(v) == NlpRow(Basis(m, v, -Unit), lower[v] - p[v])
           up(v) == NlpRow(Basis(m, v, Unit), p[v] - upper[v])
           T == {low(v) : v \in 1 .. n} \cup {up(v) : v \in 1 .. n}
<1>1. n \in Nat /\ ColumnsOf(m) = 1 .. n BY RowsAreAList
<1>2. ASSUME NEW v \in 1 .. n
      PROVE  /\ seqs[v] \in Seq(T) /\ Len(seqs[v]) = SideCount(lower[v], upper[v])
             /\ Finite(lower[v]) => seqs[v][1] = low(v)
             /\ Finite(upper[v]) => seqs[v][One(Finite(lower[v])) + 1] = up(v)
  <2>1. seqs[v] = Sides(lower[v], upper[v], Basis(m, v, Unit), Basis(m, v, -Unit), p[v])
    BY <1>1 DEF BoundLists
  <2>2. low(v) \in T /\ up(v) \in T OBVIOUS
  <2> HIDE DEF T
  <2> QED BY <2>1, <2>2, SidesFacts
<1>3. seqs = [v \in 1 .. n |-> seqs[v]] BY <1>1 DEF BoundLists
<1> HIDE DEF n, seqs, T
<1>4. seqs \in [1 .. n -> Seq(T)] BY <1>2, <1>3
<1>5. seqs \in Seq(Seq(T)) /\ Len(seqs) = n BY <1>1, <1>4, ListIsSequence
<1> QED BY <1>2, <1>5 DEF n, seqs

-----------------------------------------------------------------------------
(* The rank of a side among the sides is its place in the list.            *)
Has(S, a) == IF a \in S THEN 1 ELSE 0
LEMMA OneType == \A test : One(test) \in {0, 1}
BY DEF One
LEMMA HasType ==
    \A S, a : Has(S, a) \in {0, 1} /\ (a \in S => Has(S, a) = 1) /\ (a \notin S => Has(S, a) = 0)
BY DEF Has

LEMMA OneMore ==
    ASSUME NEW S, IsFiniteSet(S), NEW a, a \notin S
    PROVE  IsFiniteSet(S \cup {a}) /\ Cardinality(S \cup {a}) = Cardinality(S) + 1
<1>1. IsFiniteSet(S \cup {a}) BY FS_AddElement
<1>2. Cardinality(S \cup {a}) = IF a \in S THEN Cardinality(S) ELSE Cardinality(S) + 1
  BY FS_AddElement
<1> QED BY <1>1, <1>2

\* The elements of a set up to k, counted one place after the other.
LEMMA PlacesCounted ==
    ASSUME NEW n \in Nat, NEW places \in SUBSET (1 .. n),
           NEW count, \A s \in 1 .. n : count[s] = Has(places, s)
    PROVE  \A r \in 1 .. n + 1 :
              /\ IsFiniteSet(places \cap 1 .. r - 1)
              /\ Cardinality(places \cap 1 .. r - 1) = Numbers!Over(count, 1 .. r - 1)
<1> DEFINE C(k) == places \cap 1 .. k
           Good == {k \in Nat : k <= n => /\ IsFiniteSet(C(k))
                                          /\ Cardinality(C(k)) = Numbers!Over(count, 1 .. k)}
<1>1. 0 \in Good
  <2>1. C(0) = {} /\ 1 .. 0 = {} OBVIOUS
  <2>2. Numbers!Over(count, 1 .. 0) = 0 BY <2>1, Numbers!OverEmpty
  <2>3. IsFiniteSet(C(0)) /\ Cardinality(C(0)) = 0 BY <2>1, FS_EmptySet
  <2> HIDE DEF C
  <2> QED BY <2>2, <2>3
<1>2. ASSUME NEW k \in Nat, k \in Good PROVE k + 1 \in Good
  <2> SUFFICES ASSUME k + 1 <= n
               PROVE  /\ IsFiniteSet(C(k + 1))
                      /\ Cardinality(C(k + 1)) = Numbers!Over(count, 1 .. k + 1)
    OBVIOUS
  <2>1. k <= n /\ k + 1 \in 1 .. n /\ (k + 1) - 1 = k /\ k + 1 \in Nat \ {0} OBVIOUS
  <2>2. IsFiniteSet(C(k)) /\ Cardinality(C(k)) = Numbers!Over(count, 1 .. k) BY <1>2, <2>1
  <2>3. \A s \in 1 .. k + 1 : s \in 1 .. n /\ count[s] \in Int BY <2>1 DEF Has
  <2>4. /\ Numbers!Over(count, 1 .. k + 1) = count[k + 1] + Numbers!Over(count, 1 .. k)
        /\ Numbers!Over(count, 1 .. k) \in Int
    BY <2>1, <2>3, SumNext
  <2>5. CASE k + 1 \in places
    <3>1. C(k + 1) = C(k) \cup {k + 1} /\ k + 1 \notin C(k) BY <2>1, <2>5
    <3> HIDE DEF C
    <3>2. IsFiniteSet(C(k + 1)) /\ Cardinality(C(k + 1)) = Cardinality(C(k)) + 1
      BY <2>2, <3>1, OneMore
    <3>3. count[k + 1] = 1 BY <2>1, <2>5 DEF Has
    <3> QED BY <2>2, <2>4, <3>2, <3>3
  <2>6. CASE k + 1 \notin places
    <3>1. C(k + 1) = C(k) BY <2>1, <2>6
    <3> HIDE DEF C
    <3>3. count[k + 1] = 0 BY <2>1, <2>6 DEF Has
    <3> QED BY <2>2, <2>4, <3>1, <3>3
  <2> QED BY <2>5, <2>6
<1>3. \A k \in Nat : k \in Good
  <2> HIDE DEF Good
  <2> QED BY <1>1, <1>2, Numbers!NumberInduction
<1>4. \A r \in 1 .. n + 1 : r - 1 \in Nat /\ r - 1 <= n OBVIOUS
<1> QED BY <1>3, <1>4

\* The sides before a place, counted one place after the other.
UpTo(sides, k) == {t \in sides : t[1] < k}
LEMMA SidesCounted ==
    ASSUME NEW n \in Nat, NEW sides \in SUBSET ((1 .. n) \X {"lower", "upper"}),
           NEW count,
           \A s \in 1 .. n : count[s] = Has(sides, <<s, "lower">>) + Has(sides, <<s, "upper">>)
    PROVE  \A r \in 1 .. n + 1 :
              /\ IsFiniteSet(UpTo(sides, r))
              /\ Cardinality(UpTo(sides, r)) = Numbers!Over(count, 1 .. r - 1)
<1> DEFINE C(k) == UpTo(sides, k + 1)
           Good == {k \in Nat : k <= n => /\ IsFiniteSet(C(k))
                                          /\ Cardinality(C(k)) = Numbers!Over(count, 1 .. k)}
<1>1. 0 \in Good
  <2>1. C(0) = {} /\ 1 .. 0 = {} BY DEF UpTo
  <2>2. Numbers!Over(count, 1 .. 0) = 0 BY <2>1, Numbers!OverEmpty
  <2>3. IsFiniteSet(C(0)) /\ Cardinality(C(0)) = 0 BY <2>1, FS_EmptySet
  <2> HIDE DEF C
  <2> QED BY <2>2, <2>3
<1>2. ASSUME NEW k \in Nat, k \in Good PROVE k + 1 \in Good
  <2> SUFFICES ASSUME k + 1 <= n
               PROVE  /\ IsFiniteSet(C(k + 1))
                      /\ Cardinality(C(k + 1)) = Numbers!Over(count, 1 .. k + 1)
    OBVIOUS
  <2> DEFINE low == <<k + 1, "lower">>
             up == <<k + 1, "upper">>
             L == C(k) \cup (sides \cap {low})
  <2>1. k <= n /\ k + 1 \in 1 .. n /\ (k + 1) - 1 = k /\ k + 1 \in Nat \ {0} OBVIOUS
  <2>2. IsFiniteSet(C(k)) /\ Cardinality(C(k)) = Numbers!Over(count, 1 .. k) BY <1>2, <2>1
  <2>3. \A s \in 1 .. k + 1 : s \in 1 .. n /\ count[s] \in Int
    <3> TAKE s \in 1 .. k + 1
    <3>1. s \in 1 .. n BY <2>1
    <3>2. Has(sides, <<s, "lower">>) \in Int /\ Has(sides, <<s, "upper">>) \in Int
      BY HasType
    <3> QED BY <3>1, <3>2
  <2>4. /\ Numbers!Over(count, 1 .. k + 1) = count[k + 1] + Numbers!Over(count, 1 .. k)
        /\ Numbers!Over(count, 1 .. k) \in Int
    BY <2>1, <2>3, SumNext
  <2>5. /\ C(k + 1) = L \cup (sides \cap {up})
        /\ low \notin C(k) /\ up \notin L
    BY <2>1 DEF UpTo
  <2>6. count[k + 1] = Has(sides, low) + Has(sides, up) BY <2>1
  <2>7. IsFiniteSet(L) /\ Cardinality(L) = Cardinality(C(k)) + Has(sides, low)
    <3> HIDE DEF C, low
    <3>1. CASE low \in sides
      <4>1. L = C(k) \cup {low} BY <3>1
      <4> QED BY <2>2, <2>5, <3>1, <4>1, OneMore DEF Has
    <3>2. CASE low \notin sides
      <4>1. L = C(k) BY <3>2
      <4>2. Cardinality(C(k)) \in Int BY <2>2, <2>4
      <4>3. Has(sides, low) = 0 BY <3>2 DEF Has
      <4>4. Cardinality(C(k)) + 0 = Cardinality(C(k)) BY <4>2
      <4> QED BY <2>2, <4>1, <4>3, <4>4
    <3> QED BY <3>1, <3>2
  <2>8. IsFiniteSet(C(k + 1)) /\ Cardinality(C(k + 1)) = Cardinality(L) + Has(sides, up)
    <3> HIDE DEF C, up, L
    <3>1. CASE up \in sides
      <4>1. C(k + 1) = L \cup {up} BY <2>5, <3>1
      <4> QED BY <2>5, <2>7, <3>1, <4>1, OneMore DEF Has
    <3>2. CASE up \notin sides
      <4>1. C(k + 1) = L BY <2>5, <3>2
      <4>2. Cardinality(L) \in Int BY <2>2, <2>4, <2>7 DEF Has
      <4> QED BY <2>7, <3>2, <4>1, <4>2 DEF Has
    <3> QED BY <3>1, <3>2
  <2> HIDE DEF C, L, low, up
  <2> QED BY <2>2, <2>4, <2>6, <2>7, <2>8 DEF Has
<1>3. \A k \in Nat : k \in Good
  <2> HIDE DEF Good
  <2> QED BY <1>1, <1>2, Numbers!NumberInduction
<1>4. \A r \in 1 .. n + 1 : r - 1 \in Nat /\ r - 1 <= n /\ (r - 1) + 1 = r OBVIOUS
<1> HIDE DEF Good
<1>5. \A r \in 1 .. n + 1 : r - 1 \in Good BY <1>3, <1>4
<1> QED BY <1>4, <1>5 DEF Good

\* All sides are before the place after the last, and the rank of a side
\* follows from the sides before its place.
LEMMA RanksAreOffsets ==
    ASSUME NEW n \in Nat, NEW sides \in SUBSET ((1 .. n) \X {"lower", "upper"}),
           NEW count,
           \A s \in 1 .. n : count[s] = Has(sides, <<s, "lower">>) + Has(sides, <<s, "upper">>)
    PROVE  /\ Cardinality(sides) = Numbers!Over(count, 1 .. n)
           /\ \A r \in 1 .. n :
                 /\ Rank(<<r, "lower">>, sides) = Numbers!Over(count, 1 .. r - 1) + 1
                 /\ Rank(<<r, "upper">>, sides)
                      = Numbers!Over(count, 1 .. r - 1) + Has(sides, <<r, "lower">>) + 1
<1>1. UpTo(sides, n + 1) = sides BY DEF UpTo
<1>2. n + 1 \in 1 .. n + 1 /\ (n + 1) - 1 = n OBVIOUS
<1>5. \A r \in 1 .. n + 1 :
         /\ IsFiniteSet(UpTo(sides, r))
         /\ Cardinality(UpTo(sides, r)) = Numbers!Over(count, 1 .. r - 1)
  BY SidesCounted
<1>3. Cardinality(sides) = Numbers!Over(count, 1 .. n) BY <1>1, <1>2, <1>5
<1>4. ASSUME NEW r \in 1 .. n
      PROVE  /\ Rank(<<r, "lower">>, sides) = Numbers!Over(count, 1 .. r - 1) + 1
             /\ Rank(<<r, "upper">>, sides)
                  = Numbers!Over(count, 1 .. r - 1) + Has(sides, <<r, "lower">>) + 1
  <2> DEFINE low == <<r, "lower">>
             up == <<r, "upper">>
             U == UpTo(sides, r)
  <2>1. IsFiniteSet(U) /\ Cardinality(U) = Numbers!Over(count, 1 .. r - 1)
    <3>1. r \in 1 .. n + 1 OBVIOUS
    <3> QED BY <1>5, <3>1
  <2>2. Cardinality(U) \in Nat BY <2>1, FS_CardinalityType
  <2>3. {t \in sides : Before(t, low)} = U BY DEF Before, UpTo
  <2>4. {t \in sides : Before(t, up)} = U \cup (sides \cap {low}) BY DEF Before, UpTo
  <2>5. low \notin U BY DEF UpTo
  <2>6. Cardinality(U \cup (sides \cap {low})) = Cardinality(U) + Has(sides, low)
    <3> HIDE DEF U, low
    <3>1. CASE low \in sides
      <4>1. U \cup (sides \cap {low}) = U \cup {low} BY <3>1
      <4> QED BY <2>1, <2>5, <3>1, <4>1, OneMore DEF Has
    <3>2. CASE low \notin sides
      <4>1. U \cup (sides \cap {low}) = U BY <3>2
      <4>2. Has(sides, low) = 0 BY <3>2 DEF Has
      <4>3. Cardinality(U) + 0 = Cardinality(U) BY <2>2
      <4> QED BY <4>1, <4>2, <4>3
    <3> QED BY <3>1, <3>2
  <2>7. Rank(low, sides) = 1 + Cardinality(U) BY <2>3 DEF Rank
  <2>8. Rank(up, sides) = 1 + Cardinality(U \cup (sides \cap {low})) BY <2>4 DEF Rank
  <2>9. Has(sides, low) \in Int BY DEF Has
  <2> HIDE DEF low, up, U
  <2> QED BY <2>1, <2>2, <2>6, <2>7, <2>8, <2>9 DEF low, up
<1> QED BY <1>3, <1>4

-----------------------------------------------------------------------------
(* What evaluate's lists hold, entry by entry.                             *)
EqualityCounts(m) == [r \in RowsOf(m) |-> One(IsEquality(m.rows[r]))]
RowCounts(m) == [r \in RowsOf(m) |-> RowCount(m.rows[r])]
BoundCounts(q) ==
    [v \in ColumnsOf(q.model) |-> SideCount(LowerBounds(q)[v], UpperBounds(q)[v])]

LEMMA CountTypes ==
    ASSUME NEW n \in Nat, NEW count, \A r \in 1 .. n : count[r] \in Nat
    PROVE  \A r \in 1 .. n + 1 : Place(count, r) \in Nat
<1> DEFINE Good == {k \in Nat : k <= n => Numbers!Over(count, 1 .. k) \in Nat}
<1>1. 0 \in Good
  <2>1. 1 .. 0 = {} OBVIOUS
  <2> QED BY <2>1, Numbers!OverEmpty
<1>2. ASSUME NEW k \in Nat, k \in Good PROVE k + 1 \in Good
  <2> SUFFICES ASSUME k + 1 <= n PROVE Numbers!Over(count, 1 .. k + 1) \in Nat OBVIOUS
  <2>1. k <= n /\ k + 1 \in 1 .. n /\ (k + 1) - 1 = k /\ k + 1 \in Nat \ {0} OBVIOUS
  <2>2. \A s \in 1 .. k + 1 : count[s] \in Int OBVIOUS
  <2>3. Numbers!Over(count, 1 .. k + 1) = count[k + 1] + Numbers!Over(count, 1 .. k)
    BY <2>1, <2>2, SumNext
  <2> QED BY <1>2, <2>1, <2>3
<1>3. \A k \in Nat : k \in Good
  <2> HIDE DEF Good
  <2> QED BY <1>1, <1>2, Numbers!NumberInduction
<1>4. \A r \in 1 .. n + 1 : r - 1 \in Nat /\ r - 1 <= n OBVIOUS
<1> QED BY <1>3, <1>4 DEF Place

LEMMA CountsAreNaturals ==
    ASSUME NEW q, IsModel(q.model)
    PROVE  LET m == q.model IN
           /\ \A r \in 1 .. Len(m.rows) :
                 /\ EqualityCounts(m)[r] = One(IsEquality(m.rows[r])) /\ EqualityCounts(m)[r] \in Nat
                 /\ RowCounts(m)[r] = RowCount(m.rows[r]) /\ RowCounts(m)[r] \in Nat
           /\ \A v \in 1 .. Len(m.linear) :
                 /\ BoundCounts(q)[v] = SideCount(LowerBounds(q)[v], UpperBounds(q)[v])
                 /\ BoundCounts(q)[v] \in Nat
           /\ \A r \in 1 .. Len(m.rows) + 1 :
                 Place(EqualityCounts(m), r) \in Nat /\ Place(RowCounts(m), r) \in Nat
           /\ \A v \in 1 .. Len(m.linear) + 1 : Place(BoundCounts(q), v) \in Nat
<1> DEFINE m == q.model
<1>1. /\ Len(m.rows) \in Nat /\ RowsOf(m) = 1 .. Len(m.rows)
      /\ Len(m.linear) \in Nat /\ ColumnsOf(m) = 1 .. Len(m.linear)
  BY RowsAreAList
<1>2. \A r \in 1 .. Len(m.rows) :
         /\ EqualityCounts(m)[r] = One(IsEquality(m.rows[r])) /\ EqualityCounts(m)[r] \in Nat
  BY <1>1, OneType DEF EqualityCounts
<1>3. \A a, b : SideCount(a, b) \in Nat
  <2> TAKE a, b
  <2>1. One(Finite(a)) \in {0, 1} /\ One(Finite(b)) \in {0, 1} BY OneType
  <2> QED BY <2>1 DEF SideCount
<1>4. \A r \in 1 .. Len(m.rows) : RowCounts(m)[r] = RowCount(m.rows[r]) /\ RowCounts(m)[r] \in Nat
  <2> TAKE r \in 1 .. Len(m.rows)
  <2>1. RowCount(m.rows[r]) \in Nat BY <1>3 DEF RowCount
  <2> QED BY <1>1, <2>1 DEF RowCounts
<1>5. \A v \in 1 .. Len(m.linear) :
         /\ BoundCounts(q)[v] = SideCount(LowerBounds(q)[v], UpperBounds(q)[v])
         /\ BoundCounts(q)[v] \in Nat
  BY <1>1, <1>3 DEF BoundCounts
<1> HIDE DEF m
<1>6. \A r \in 1 .. Len(m.rows) + 1 :
         Place(EqualityCounts(m), r) \in Nat /\ Place(RowCounts(m), r) \in Nat
  BY <1>1, <1>2, <1>4, CountTypes
<1>7. \A v \in 1 .. Len(m.linear) + 1 : Place(BoundCounts(q), v) \in Nat
  BY <1>1, <1>5, CountTypes
<1> QED BY <1>2, <1>4, <1>5, <1>6, <1>7 DEF m

LEMMA JoinedFacts ==
    ASSUME NEW T, NEW U, NEW f \in Seq(T), NEW g \in Seq(U)
    PROVE  /\ \E V : f \o g \in Seq(V)
           /\ Len(f \o g) = Len(f) + Len(g)
           /\ \A k \in 1 .. Len(f) : (f \o g)[k] = f[k]
           /\ \A k \in 1 .. Len(g) : (f \o g)[Len(f) + k] = g[k]
<1> DEFINE V == T \cup U
<1>1. f \in Seq(V) /\ g \in Seq(V) /\ Len(f) \in Nat /\ Len(g) \in Nat OBVIOUS
<1> HIDE DEF V
<1>2. f \o g = [k \in 1 .. Len(f) + Len(g) |-> IF k <= Len(f) THEN f[k] ELSE g[k - Len(f)]]
  BY <1>1, Concatenation
<1>3. f \o g \in Seq(V) /\ Len(f \o g) = Len(f) + Len(g) BY <1>1
<1>4. \A k \in 1 .. Len(f) : k \in 1 .. Len(f) + Len(g) /\ k <= Len(f) BY <1>1
<1>5. \A k \in 1 .. Len(g) : /\ Len(f) + k \in 1 .. Len(f) + Len(g) /\ ~(Len(f) + k <= Len(f))
                             /\ (Len(f) + k) - Len(f) = k
  BY <1>1
<1>6. \A k \in 1 .. Len(f) : (f \o g)[k] = f[k]
  <2> TAKE k \in 1 .. Len(f)
  <2> QED BY <1>2, <1>4
<1>7. \A k \in 1 .. Len(g) : (f \o g)[Len(f) + k] = g[k]
  <2> TAKE k \in 1 .. Len(g)
  <2>1. (f \o g)[Len(f) + k] = g[(Len(f) + k) - Len(f)] BY <1>2, <1>5
  <2> QED BY <1>5, <2>1
<1> QED BY <1>3, <1>6, <1>7

\* The list of the equations: one entry for every equality row, at its place.
LEMMA EqualitiesHold ==
    ASSUME NEW q, IsModel(q.model), NEW p
    PROVE  LET m == q.model
               e == Evaluate(q, p)
               n == Len(m.rows)
           IN  /\ \E T : e.equalities \in Seq(T)
               /\ Len(e.equalities) = Place(EqualityCounts(m), n + 1)
               /\ \A r \in 1 .. n : IsEquality(m.rows[r]) =>
                     /\ Place(EqualityCounts(m), r) + 1 \in 1 .. Len(e.equalities)
                     /\ e.equalities[Place(EqualityCounts(m), r) + 1]
                          = NlpRow(Jacobian(m, Nonlinear(m, p))[r],
                                   Constraints(m, p, Nonlinear(m, p))[r] - m.rows[r].lower)
<1> DEFINE m == q.model
           e == Evaluate(q, p)
           n == Len(m.rows)
           J == Jacobian(m, Nonlinear(m, p))
           V == Constraints(m, p, Nonlinear(m, p))
           seqs == EqualityLists(m, V, J)
           count == EqualityCounts(m)
<1>1. n \in Nat /\ RowsOf(m) = 1 .. n BY RowsAreAList
<1>2. e.equalities = FlattenSeq(seqs) BY DEF Evaluate, Equalities, EqualityLists
<1>3. \A r \in 1 .. n : IsEquality(m.rows[r]) =>
         seqs[r] = <<NlpRow(J[r], V[r] - m.rows[r].lower)>>
  BY <1>1 DEF EqualityLists, If
<1>4. PICK T : seqs \in Seq(Seq(T)) BY EqualityListFacts
<1>5. /\ Len(seqs) = n
      /\ \A r \in 1 .. n : Len(seqs[r]) = One(IsEquality(m.rows[r]))
  BY EqualityListFacts
<1>10. \A r \in 1 .. n : count[r] = One(IsEquality(m.rows[r])) BY CountsAreNaturals
<1> HIDE DEF seqs, count, n, e, J, V
<1>11. \A r \in 1 .. Len(seqs) : Len(seqs[r]) = count[r] BY <1>5, <1>10
<1>6. /\ FlattenSeq(seqs) \in Seq(T)
      /\ Len(FlattenSeq(seqs)) = Numbers!Over(count, 1 .. n)
      /\ \A r \in 1 .. n + 1 : Off(seqs, r) = Numbers!Over(count, 1 .. r - 1)
      /\ \A r \in 1 .. n : \A j \in 1 .. Len(seqs[r]) : FlattenSeq(seqs)[Off(seqs, r) + j] = seqs[r][j]
  <2>1. /\ FlattenSeq(seqs) \in Seq(T)
        /\ Len(FlattenSeq(seqs)) = Numbers!Over(count, 1 .. Len(seqs))
        /\ \A r \in 1 .. Len(seqs) + 1 : Off(seqs, r) = Numbers!Over(count, 1 .. r - 1)
        /\ \A r \in 1 .. Len(seqs) : \A j \in 1 .. Len(seqs[r]) :
              FlattenSeq(seqs)[Off(seqs, r) + j] = seqs[r][j]
    BY <1>4, <1>11, FlattenedCounted
  <2> QED BY <1>5, <2>1
<1>7. (n + 1) - 1 = n BY <1>1
<1>8. ASSUME NEW r \in 1 .. n, IsEquality(m.rows[r])
      PROVE  /\ Off(seqs, r) = Place(count, r)
             /\ Off(seqs, r) + 1 \in 1 .. Len(FlattenSeq(seqs))
             /\ FlattenSeq(seqs)[Off(seqs, r) + 1] = NlpRow(J[r], V[r] - m.rows[r].lower)
  <2>1. r \in 1 .. n + 1 BY <1>1
  <2>2. Len(seqs[r]) = 1 /\ 1 \in 1 .. 1
    <3>1. One(IsEquality(m.rows[r])) = 1 BY <1>8 DEF One
    <3>2. Len(seqs[r]) = One(IsEquality(m.rows[r])) BY <1>5
    <3>3. 1 \in 1 .. 1 OBVIOUS
    <3> QED BY <3>1, <3>2, <3>3, Zenon
  <2>3. FlattenSeq(seqs)[Off(seqs, r) + 1] = seqs[r][1] BY <1>6, <2>2
  <2>4. Off(seqs, r) + 1 \in Piece(seqs, r) BY <1>4, <1>5, <2>2, AtPiece
  <2>5. Piece(seqs, r) \subseteq 1 .. Off(seqs, n + 1) BY <1>4, <1>5, PiecesPart
  <2>6. Off(seqs, n + 1) = Len(FlattenSeq(seqs))
    <3>1. n + 1 \in 1 .. n + 1 BY <1>1
    <3> QED BY <1>6, <1>7, <3>1
  <2>7. seqs[r][1] = NlpRow(J[r], V[r] - m.rows[r].lower) BY <1>3, <1>8
  <2> QED BY <1>6, <2>1, <2>3, <2>4, <2>5, <2>6, <2>7 DEF Place
<1>9. Len(FlattenSeq(seqs)) = Place(count, n + 1) BY <1>6, <1>7 DEF Place
<1> QED BY <1>2, <1>6, <1>8, <1>9 DEF m, n, e, J, V, count

\* The list of the inequalities: first the rows' sides, then the bounds',
\* each at the place that the sides before it leave.
Shift(m) == Place(RowCounts(m), Len(m.rows) + 1)
LEMMA InequalitiesHold ==
    ASSUME NEW q, IsModel(q.model), NEW p
    PROVE  LET m == q.model
               e == Evaluate(q, p)
               V == Constraints(m, p, Nonlinear(m, p))
               J == Jacobian(m, Nonlinear(m, p))
               R == RowLists(m, V, J)
               B == BoundLists(m, LowerBounds(q), UpperBounds(q), p)
           IN  /\ \E T : e.inequalities \in Seq(T)
               /\ Len(e.inequalities) = Shift(m) + Place(BoundCounts(q), Len(m.linear) + 1)
               /\ e.inequalities = FlattenSeq(R) \o FlattenSeq(B)
               /\ \A r \in 1 .. Len(m.rows) : \A j \in 1 .. RowCounts(m)[r] :
                     /\ Place(RowCounts(m), r) + j \in 1 .. Shift(m)
                     /\ e.inequalities[Place(RowCounts(m), r) + j] = R[r][j]
               /\ \A v \in 1 .. Len(m.linear) : \A j \in 1 .. BoundCounts(q)[v] :
                     /\ Place(BoundCounts(q), v) + j \in 1 .. Place(BoundCounts(q), Len(m.linear) + 1)
                     /\ e.inequalities[Shift(m) + (Place(BoundCounts(q), v) + j)] = B[v][j]
<1> DEFINE m == q.model
           e == Evaluate(q, p)
           V == Constraints(m, p, Nonlinear(m, p))
           J == Jacobian(m, Nonlinear(m, p))
           R == RowLists(m, V, J)
           B == BoundLists(m, LowerBounds(q), UpperBounds(q), p)
           rc == RowCounts(m)
           bc == BoundCounts(q)
           n == Len(m.rows)
           k == Len(m.linear)
           f == FlattenSeq(R)
           g == FlattenSeq(B)
<1>1. n \in Nat /\ k \in Nat BY RowsAreAList
<1>2. e.inequalities = f \o g
  BY DEF Evaluate, RowInequalities, BoundInequalities, RowLists, BoundLists
<1>3. /\ \E T : R \in Seq(Seq(T))
      /\ Len(R) = n
      /\ \A r \in 1 .. n : Len(R[r]) = RowCount(m.rows[r])
  <2>1. /\ \E T : R \in Seq(Seq(T))
        /\ Len(R) = Len(m.rows)
        /\ \A r \in 1 .. Len(m.rows) : Len(RowLists(m, V, J)[r]) = RowCount(m.rows[r])
    <3> HIDE DEF J, V
    <3> USE DEF R
    <3> QED BY RowListFacts
  <2> QED BY <2>1
<1>4. /\ \E T : B \in Seq(Seq(T))
      /\ Len(B) = k
      /\ \A v \in 1 .. k : Len(B[v]) = SideCount(LowerBounds(q)[v], UpperBounds(q)[v])
  BY BoundListFacts
<1>5. \A r \in 1 .. n : rc[r] = RowCount(m.rows[r]) BY CountsAreNaturals
<1>6. \A v \in 1 .. k : bc[v] = SideCount(LowerBounds(q)[v], UpperBounds(q)[v])
  BY CountsAreNaturals
<1>7. Shift(m) = Place(rc, n + 1) BY DEF Shift
<1> HIDE DEF e, V, J, R, B, rc, bc, n, k
<1>8. PICK T : R \in Seq(Seq(T)) BY <1>3
<1>9. PICK U : B \in Seq(Seq(U)) BY <1>4
<1>10. \A r \in 1 .. Len(R) : Len(R[r]) = rc[r] BY <1>3, <1>5
<1>11. \A v \in 1 .. Len(B) : Len(B[v]) = bc[v] BY <1>4, <1>6
<1>12. /\ f \in Seq(T) /\ Len(f) = Place(rc, n + 1)
       /\ \A r \in 1 .. n : \A j \in 1 .. Len(R[r]) :
             Place(rc, r) + j \in 1 .. Place(rc, n + 1) /\ f[Place(rc, r) + j] = R[r][j]
  <2>3. /\ FlattenSeq(R) \in Seq(T)
        /\ \A r \in 1 .. Len(R) : \A j \in 1 .. Len(R[r]) :
              /\ Place(rc, r) + j \in 1 .. Place(rc, Len(R) + 1)
              /\ FlattenSeq(R)[Place(rc, r) + j] = R[r][j]
        /\ Len(FlattenSeq(R)) = Place(rc, Len(R) + 1)
    BY <1>8, <1>10, FlattenedCounted
  <2>1. /\ f \in Seq(T) /\ Len(f) = Place(rc, Len(R) + 1)
        /\ \A r \in 1 .. Len(R) : \A j \in 1 .. Len(R[r]) :
              /\ Place(rc, r) + j \in 1 .. Place(rc, Len(R) + 1)
              /\ f[Place(rc, r) + j] = R[r][j]
    BY <2>3
  <2> HIDE DEF f
  <2>2. Len(R) = n BY <1>3
  <2> QED BY <2>1, <2>2
<1>13. /\ g \in Seq(U) /\ Len(g) = Place(bc, k + 1)
       /\ \A v \in 1 .. k : \A j \in 1 .. Len(B[v]) :
             Place(bc, v) + j \in 1 .. Place(bc, k + 1) /\ g[Place(bc, v) + j] = B[v][j]
  <2>3. /\ FlattenSeq(B) \in Seq(U)
        /\ \A r \in 1 .. Len(B) : \A j \in 1 .. Len(B[r]) :
              /\ Place(bc, r) + j \in 1 .. Place(bc, Len(B) + 1)
              /\ FlattenSeq(B)[Place(bc, r) + j] = B[r][j]
        /\ Len(FlattenSeq(B)) = Place(bc, Len(B) + 1)
    BY <1>9, <1>11, FlattenedCounted
  <2>1. /\ g \in Seq(U) /\ Len(g) = Place(bc, Len(B) + 1)
        /\ \A v \in 1 .. Len(B) : \A j \in 1 .. Len(B[v]) :
              /\ Place(bc, v) + j \in 1 .. Place(bc, Len(B) + 1)
              /\ g[Place(bc, v) + j] = B[v][j]
    BY <2>3
  <2> HIDE DEF g
  <2>2. Len(B) = k BY <1>4
  <2> QED BY <2>1, <2>2
<1> HIDE DEF f, g
<1>14. /\ \E W : f \o g \in Seq(W)
       /\ Len(f \o g) = Len(f) + Len(g)
       /\ \A i \in 1 .. Len(f) : (f \o g)[i] = f[i]
       /\ \A i \in 1 .. Len(g) : (f \o g)[Len(f) + i] = g[i]
  <2>1. f \in Seq(T) /\ g \in Seq(U) BY <1>12, <1>13
  <2> QED BY <2>1, JoinedFacts
<1>15. \A r \in 1 .. n : \A j \in 1 .. rc[r] :
          /\ Place(rc, r) + j \in 1 .. Shift(m)
          /\ (f \o g)[Place(rc, r) + j] = R[r][j]
  <2> TAKE r \in 1 .. n
  <2> TAKE j \in 1 .. rc[r]
  <2>1. j \in 1 .. Len(R[r]) BY <1>3, <1>5
  <2>2. Place(rc, r) + j \in 1 .. Place(rc, n + 1) /\ f[Place(rc, r) + j] = R[r][j] BY <1>12, <2>1
  <2> QED BY <1>7, <1>12, <1>14, <2>2
<1>16. \A v \in 1 .. k : \A j \in 1 .. bc[v] :
          /\ Place(bc, v) + j \in 1 .. Place(bc, k + 1)
          /\ (f \o g)[Shift(m) + (Place(bc, v) + j)] = B[v][j]
  <2> TAKE v \in 1 .. k
  <2> TAKE j \in 1 .. bc[v]
  <2>1. j \in 1 .. Len(B[v]) BY <1>4, <1>6
  <2>2. Place(bc, v) + j \in 1 .. Place(bc, k + 1) /\ g[Place(bc, v) + j] = B[v][j] BY <1>13, <2>1
  <2> QED BY <1>7, <1>12, <1>13, <1>14, <2>2
<1>17. Len(f \o g) = Shift(m) + Place(bc, k + 1) BY <1>7, <1>12, <1>13, <1>14
<1>18. e.inequalities = f \o g BY <1>2
<1> DEFINE all == f \o g
<1>19. (\E W : all \in Seq(W)) /\ Len(all) = Shift(m) + Place(bc, k + 1) /\ e.inequalities = all
  BY <1>14, <1>17, <1>18
<1>20. \A r \in 1 .. n : \A j \in 1 .. rc[r] :
          /\ Place(rc, r) + j \in 1 .. Shift(m)
          /\ all[Place(rc, r) + j] = R[r][j]
  BY <1>15
<1>21. \A v \in 1 .. k : \A j \in 1 .. bc[v] :
          /\ Place(bc, v) + j \in 1 .. Place(bc, k + 1)
          /\ all[Shift(m) + (Place(bc, v) + j)] = B[v][j]
  BY <1>16
<1>22. all = FlattenSeq(R) \o FlattenSeq(B) BY DEF f, g
<1> HIDE DEF all
<1> QED BY <1>19, <1>20, <1>21, <1>22 DEF m, e, V, J, R, B, rc, bc, n, k

-----------------------------------------------------------------------------
(* The multipliers handed to the Hessian.                                  *)
\* The lists are as long at every point.
Matched ==
    pc \in {"loop", "report"} =>
        /\ DOMAIN lambda = DOMAIN evaluation.equalities
        /\ DOMAIN mu = DOMAIN evaluation.inequalities

LEMMA SameLengths ==
    ASSUME NEW q, IsModel(q.model), NEW p, NEW s
    PROVE  /\ DOMAIN Evaluate(q, p).equalities = DOMAIN Evaluate(q, s).equalities
           /\ DOMAIN Evaluate(q, p).inequalities = DOMAIN Evaluate(q, s).inequalities
<1>1. /\ \E T : Evaluate(q, p).equalities \in Seq(T)
      /\ Len(Evaluate(q, p).equalities) = Place(EqualityCounts(q.model), Len(q.model.rows) + 1)
      /\ \E T : Evaluate(q, s).equalities \in Seq(T)
      /\ Len(Evaluate(q, s).equalities) = Place(EqualityCounts(q.model), Len(q.model.rows) + 1)
  BY EqualitiesHold
<1>2. /\ \E T : Evaluate(q, p).inequalities \in Seq(T)
      /\ Len(Evaluate(q, p).inequalities)
           = Shift(q.model) + Place(BoundCounts(q), Len(q.model.linear) + 1)
      /\ \E T : Evaluate(q, s).inequalities \in Seq(T)
      /\ Len(Evaluate(q, s).inequalities)
           = Shift(q.model) + Place(BoundCounts(q), Len(q.model.linear) + 1)
  BY InequalitiesHold
<1>3. \A T : \A f \in Seq(T) : DOMAIN f = 1 .. Len(f) OBVIOUS
<1> QED BY <1>1, <1>2, <1>3

MatchInv == IInv /\ request \in Requests /\ Matched

LEMMA MatchStep == MatchInv /\ [Next]_vars => MatchInv'
<1> SUFFICES ASSUME MatchInv, [Next]_vars PROVE MatchInv' OBVIOUS
<1>1. IInv' BY StepInvariant DEF MatchInv
<1>2. request' = request
  BY DEF Next, vars, Refuse, StartUndefined, StartOutside, Start, OutOfIterations, TimedOut,
         ConvergedAtHead, HessianUndefined, LinearSolveFails, LineSearchFails, Step, Report,
         Returned, Fail
<1>3. IsModel(request.model) BY RequestsAssumption DEF MatchInv, IsCall
<1>4. CASE Start
  <2>1. /\ evaluation' = Evaluate(request, StartingPoint(request))
        /\ DOMAIN lambda' = DOMAIN Evaluate(request, StartingPoint(request)).equalities
        /\ DOMAIN mu' = DOMAIN Evaluate(request, StartingPoint(request)).inequalities
    BY <1>4 DEF Start
  <2> QED BY <1>1, <1>2, <2>1 DEF MatchInv, Matched
<1>5. CASE Step
  <2>1. /\ pc = "loop" /\ evaluation' = Evaluate(request, x')
        /\ DOMAIN lambda' = DOMAIN lambda /\ DOMAIN mu' = DOMAIN mu
    BY <1>5 DEF Step, AtStep, Moved, MovedMu
  <2>2. evaluation = Evaluate(request, x) BY <2>1 DEF MatchInv, IInv, StaysInterior, Running
  <2>3. /\ DOMAIN evaluation'.equalities = DOMAIN evaluation.equalities
        /\ DOMAIN evaluation'.inequalities = DOMAIN evaluation.inequalities
    BY <1>3, <2>1, <2>2, SameLengths
  <2>4. Matched' BY <2>1, <2>3 DEF MatchInv, Matched
  <2> QED BY <1>1, <1>2, <2>4 DEF MatchInv
<1>6. CASE ~Start /\ ~Step
  <2>1. /\ UNCHANGED <<evaluation, lambda, mu>>
        /\ pc' \in {"loop", "report"} => pc \in {"loop", "report"}
    BY <1>6 DEF Next, vars, iterates, Refuse, StartUndefined, StartOutside, OutOfIterations,
           TimedOut, ConvergedAtHead, HessianUndefined, LinearSolveFails, LineSearchFails,
           AtStep, Report, Returned, Fail
  <2> QED BY <1>1, <1>2, <2>1 DEF MatchInv, Matched
<1> QED BY <1>4, <1>5, <1>6

LEMMA MatchHolds == Spec => []MatchInv
<1>1. Init => MatchInv
  BY DEF Init, MatchInv, Matched, IInv, StaysInterior, Running, Answered, Solved
<1> QED BY <1>1, MatchStep, PTL DEF Spec

\* The sides of the rows, and of the bounds, counted by rows and variables.
LEMMA RowSidesCounted ==
    ASSUME IsModel(model)
    PROVE  /\ Cardinality(RowSides) = Shift(model)
           /\ \A r \in 1 .. Len(model.rows) :
                 LET row == model.rows[r] IN
                 /\ <<r, "lower">> \in RowSides <=> ~IsEquality(row) /\ Finite(row.lower)
                 /\ <<r, "upper">> \in RowSides <=> ~IsEquality(row) /\ Finite(row.upper)
                 /\ Rank(<<r, "lower">>, RowSides) = Place(RowCounts(model), r) + 1
                 /\ Rank(<<r, "upper">>, RowSides)
                      = Place(RowCounts(model), r) + Has(RowSides, <<r, "lower">>) + 1
<1> DEFINE m == model
           n == Len(m.rows)
           count == RowCounts(m)
<1>1. n \in Nat /\ RowsOf(m) = 1 .. n BY RowsAreAList
<1>2. RowSides \in SUBSET ((1 .. n) \X {"lower", "upper"}) BY <1>1 DEF RowSides
<1>3. \A r \in 1 .. n :
         /\ <<r, "lower">> \in RowSides <=> ~IsEquality(m.rows[r]) /\ Finite(m.rows[r].lower)
         /\ <<r, "upper">> \in RowSides <=> ~IsEquality(m.rows[r]) /\ Finite(m.rows[r].upper)
  BY <1>1 DEF RowSides
<1>4. ASSUME NEW s \in 1 .. n
      PROVE  count[s] = Has(RowSides, <<s, "lower">>) + Has(RowSides, <<s, "upper">>)
  <2>1. count[s] = RowCount(m.rows[s]) BY <1>1 DEF RowCounts
  <2>2. CASE IsEquality(m.rows[s])
    <3>1. count[s] = 0 BY <2>1, <2>2 DEF RowCount
    <3>2. Has(RowSides, <<s, "lower">>) = 0 /\ Has(RowSides, <<s, "upper">>) = 0
      BY <1>3, <2>2, HasType
    <3> QED BY <3>1, <3>2
  <2>3. CASE ~IsEquality(m.rows[s])
    <3>1. count[s] = One(Finite(m.rows[s].lower)) + One(Finite(m.rows[s].upper))
      BY <2>1, <2>3 DEF RowCount, SideCount
    <3>2. Has(RowSides, <<s, "lower">>) = One(Finite(m.rows[s].lower)) BY <1>3, <2>3 DEF One, Has
    <3>3. Has(RowSides, <<s, "upper">>) = One(Finite(m.rows[s].upper)) BY <1>3, <2>3 DEF One, Has
    <3> QED BY <3>1, <3>2, <3>3
  <2> QED BY <2>2, <2>3
<1> HIDE DEF n, count
<1>5. /\ Cardinality(RowSides) = Numbers!Over(count, 1 .. n)
      /\ \A r \in 1 .. n :
            /\ Rank(<<r, "lower">>, RowSides) = Numbers!Over(count, 1 .. r - 1) + 1
            /\ Rank(<<r, "upper">>, RowSides)
                 = Numbers!Over(count, 1 .. r - 1) + Has(RowSides, <<r, "lower">>) + 1
  BY <1>1, <1>2, <1>4, RanksAreOffsets
<1>6. (n + 1) - 1 = n BY <1>1
<1> QED BY <1>3, <1>5, <1>6 DEF Shift, Place, n, count

LEMMA BoundSidesCounted ==
    ASSUME IsModel(model)
    PROVE  /\ Cardinality(BoundSides) = Place(BoundCounts(request), Len(model.linear) + 1)
           /\ \A v \in 1 .. Len(model.linear) :
                 /\ <<v, "lower">> \in BoundSides <=> Finite(LowerBounds(request)[v])
                 /\ <<v, "upper">> \in BoundSides <=> Finite(UpperBounds(request)[v])
                 /\ Rank(<<v, "lower">>, BoundSides) = Place(BoundCounts(request), v) + 1
                 /\ Rank(<<v, "upper">>, BoundSides)
                      = Place(BoundCounts(request), v) + Has(BoundSides, <<v, "lower">>) + 1
<1> DEFINE n == Len(model.linear)
           count == BoundCounts(request)
<1>1. n \in Nat /\ ColumnsOf(model) = 1 .. n BY RowsAreAList
<1>2. BoundSides \in SUBSET ((1 .. n) \X {"lower", "upper"}) BY <1>1 DEF BoundSides
<1>3. \A v \in 1 .. n :
         /\ <<v, "lower">> \in BoundSides <=> Finite(LowerBounds(request)[v])
         /\ <<v, "upper">> \in BoundSides <=> Finite(UpperBounds(request)[v])
  BY <1>1 DEF BoundSides
<1>4. ASSUME NEW s \in 1 .. n
      PROVE  count[s] = Has(BoundSides, <<s, "lower">>) + Has(BoundSides, <<s, "upper">>)
  <2>1. count[s] = One(Finite(LowerBounds(request)[s])) + One(Finite(UpperBounds(request)[s]))
    BY <1>1 DEF BoundCounts, SideCount, model
  <2>2. Has(BoundSides, <<s, "lower">>) = One(Finite(LowerBounds(request)[s])) BY <1>3 DEF One, Has
  <2>3. Has(BoundSides, <<s, "upper">>) = One(Finite(UpperBounds(request)[s])) BY <1>3 DEF One, Has
  <2> QED BY <2>1, <2>2, <2>3
<1> HIDE DEF n, count
<1>5. /\ Cardinality(BoundSides) = Numbers!Over(count, 1 .. n)
      /\ \A r \in 1 .. n :
            /\ Rank(<<r, "lower">>, BoundSides) = Numbers!Over(count, 1 .. r - 1) + 1
            /\ Rank(<<r, "upper">>, BoundSides)
                 = Numbers!Over(count, 1 .. r - 1) + Has(BoundSides, <<r, "lower">>) + 1
  BY <1>1, <1>2, <1>4, RanksAreOffsets
<1>6. (n + 1) - 1 = n BY <1>1
<1> QED BY <1>3, <1>5, <1>6 DEF Place, n, count

\* The walk of the Hessian's loop counts what evaluate's loop has appended.
LEMMA PassedIsPlace ==
    ASSUME NEW m, IsModel(m), NEW r \in 1 .. Len(m.rows)
    PROVE  /\ Passed(m, r).equalities = Place(EqualityCounts(m), r)
           /\ Passed(m, r).inequalities = Place(RowCounts(m), r)
           /\ Place(EqualityCounts(m), r)
                = Cardinality({s \in 1 .. r - 1 : IsEquality(m.rows[s])})
<1> DEFINE n == Len(m.rows)
           f == [s \in 1 .. r - 1 |-> One(IsEquality(m.rows[s]))]
           g == [s \in 1 .. r - 1 |->
                    IF IsEquality(m.rows[s]) THEN 0
                    ELSE One(Finite(m.rows[s].lower)) + One(Finite(m.rows[s].upper))]
           ec == EqualityCounts(m)
           rc == RowCounts(m)
           places == {s \in 1 .. n : IsEquality(m.rows[s])}
<1>1. n \in Nat /\ RowsOf(m) = 1 .. n /\ r - 1 \in Nat BY RowsAreAList
<1>2. Passed(m, r).equalities = Total(f) /\ Passed(m, r).inequalities = Total(g) BY DEF Passed
<1>3. DOMAIN f = 1 .. r - 1 /\ DOMAIN g = 1 .. r - 1 OBVIOUS
<1>4. \A s \in 1 .. r - 1 : f[s] = ec[s] /\ g[s] = rc[s]
  <2> TAKE s \in 1 .. r - 1
  <2>1. s \in 1 .. n BY <1>1
  <2> QED BY <1>1, <2>1 DEF EqualityCounts, RowCounts, RowCount, SideCount
<1> HIDE DEF f, g
<1>5. IsFiniteSet(1 .. r - 1) BY <1>1, IntervalsAreFinite
<1> HIDE DEF ec, rc
<1>6. /\ Numbers!Over(f, 1 .. r - 1) = Numbers!Over(ec, 1 .. r - 1)
      /\ Numbers!Over(g, 1 .. r - 1) = Numbers!Over(rc, 1 .. r - 1)
  BY <1>4, <1>5, FinitenessIsOne, Numbers!OverEqual
<1>7. Total(f) = Place(ec, r) /\ Total(g) = Place(rc, r)
  BY <1>3, <1>6, TotalIsSum DEF Place
<1>8. \A s \in 1 .. n : ec[s] = Has(places, s) BY <1>1 DEF ec, EqualityCounts, One, Has, places
<1>9. places \in SUBSET (1 .. n) /\ r \in 1 .. n + 1 BY <1>1
<1>10. {s \in 1 .. r - 1 : IsEquality(m.rows[s])} = places \cap 1 .. r - 1 BY <1>1
<1> HIDE DEF places, n
<1>11. Cardinality(places \cap 1 .. r - 1) = Numbers!Over(ec, 1 .. r - 1)
  <2>1. n \in Nat /\ places \in SUBSET (1 .. n) BY <1>1, <1>9
  <2>2. \A t \in 1 .. n + 1 : /\ IsFiniteSet(places \cap 1 .. t - 1)
                             /\ Cardinality(places \cap 1 .. t - 1) = Numbers!Over(ec, 1 .. t - 1)
    BY <1>8, <2>1, PlacesCounted
  <2> QED BY <1>9, <2>2
<1> QED BY <1>2, <1>7, <1>10, <1>11 DEF Place, ec, rc

\* The multiplier the walk finds for a row is the row's.
LEMMA MultiplierIsRows ==
    ASSUME IsModel(model)
    PROVE  \A r \in RowsOf(model) :
              MultiplierOf(model.rows[r], Passed(model, r), lambda, mu) = RowMultiplier(r)
<1> TAKE r \in RowsOf(model)
<1>1. r \in 1 .. Len(model.rows) BY RowsAreAList
<1> DEFINE row == model.rows[r]
           k == Passed(model, r)
           c == Cardinality({s \in 1 .. r - 1 : IsEquality(model.rows[s])})
<1>2. /\ k.equalities = c /\ k.inequalities = Place(RowCounts(model), r)
  BY <1>1, PassedIsPlace
<1>3. CASE IsEquality(row)
  <2>1. MultiplierOf(row, k, lambda, mu) = lambda[k.equalities + 1]
    BY <1>3 DEF MultiplierOf
  <2>2. RowMultiplier(r) = lambda[1 + c] BY <1>3 DEF RowMultiplier
  <2>3. c \in Nat
    <3>1. Place(EqualityCounts(model), r) = c BY <1>1, PassedIsPlace
    <3>2. r \in 1 .. Len(model.rows) + 1
      <4>1. Len(model.rows) \in Nat BY RowsAreAList
      <4> QED BY <1>1, <4>1
    <3> QED BY <3>1, <3>2, CountsAreNaturals DEF model
  <2>4. c + 1 = 1 + c BY <2>3
  <2> HIDE DEF c
  <2> QED BY <1>2, <2>1, <2>2, <2>4
<1>4. CASE ~IsEquality(row)
  <2>1. /\ <<r, "lower">> \in RowSides <=> Finite(row.lower)
        /\ <<r, "upper">> \in RowSides <=> Finite(row.upper)
        /\ Rank(<<r, "lower">>, RowSides) = k.inequalities + 1
        /\ Rank(<<r, "upper">>, RowSides)
             = k.inequalities + Has(RowSides, <<r, "lower">>) + 1
    BY <1>1, <1>2, <1>4, RowSidesCounted
  <2>2. Has(RowSides, <<r, "lower">>) = One(Finite(row.lower)) BY <2>1 DEF One, Has
  <2>3. RowDual(r, "lower") = IF Finite(row.lower) THEN mu[k.inequalities + 1] ELSE 0
    BY <2>1 DEF RowDual
  <2>4. RowDual(r, "upper")
          = IF Finite(row.upper) THEN mu[k.inequalities + One(Finite(row.lower)) + 1] ELSE 0
    BY <2>1, <2>2 DEF RowDual
  <2>5. RowMultiplier(r) = RowDual(r, "upper") - RowDual(r, "lower")
    BY <1>4 DEF RowMultiplier
  <2>6. MultiplierOf(row, k, lambda, mu)
          = (IF Finite(row.upper)
             THEN mu[k.inequalities + One(Finite(row.lower)) + 1] ELSE 0)
              - (IF Finite(row.lower) THEN mu[k.inequalities + 1] ELSE 0)
    BY <1>4 DEF MultiplierOf
  <2>7. MultiplierOf(row, k, lambda, mu) = RowDual(r, "upper") - RowDual(r, "lower")
    BY <2>3, <2>4, <2>6
  <2> QED BY <2>5, <2>7
<1> QED BY <1>3, <1>4

\* For every model, oracle and linear solver, the multipliers that the oracle's
\* Hessian is asked with are those of the rows they are handed for.
THEOREM HessianGetsTheRows == Spec => []HessianSeesMultipliers
<1>1. ASSUME MatchInv PROVE HessianSeesMultipliers
  <2> SUFFICES ASSUME pc = "loop"
               PROVE  /\ DOMAIN lambda = DOMAIN evaluation.equalities
                      /\ DOMAIN mu = DOMAIN evaluation.inequalities
                      /\ DOMAIN mu = 1 .. Cardinality(RowSides) + Cardinality(BoundSides)
                      /\ NonlinearMultipliers(model, lambda, mu)
                           = [r \in RowsOf(model) |-> RowMultiplier(r)]
    BY DEF HessianSeesMultipliers
  <2>1. IsModel(model) /\ IsModel(request.model)
    BY <1>1, RequestsAssumption DEF MatchInv, IsCall, model
  <2>2. /\ DOMAIN lambda = DOMAIN evaluation.equalities
        /\ DOMAIN mu = DOMAIN evaluation.inequalities
    BY <1>1 DEF MatchInv, Matched
  <2>3. DOMAIN mu = 1 .. Cardinality(RowSides) + Cardinality(BoundSides)
    <3>1. evaluation = Evaluate(request, x) BY <1>1 DEF MatchInv, IInv, StaysInterior, Running
    <3>2. /\ \E T : evaluation.inequalities \in Seq(T)
          /\ Len(evaluation.inequalities)
               = Shift(model) + Place(BoundCounts(request), Len(model.linear) + 1)
      BY <2>1, <3>1, InequalitiesHold DEF model
    <3>3. DOMAIN evaluation.inequalities = 1 .. Len(evaluation.inequalities) BY <3>2
    <3>4. /\ Cardinality(RowSides) = Shift(model)
          /\ Cardinality(BoundSides) = Place(BoundCounts(request), Len(model.linear) + 1)
      BY <2>1, RowSidesCounted, BoundSidesCounted
    <3> QED BY <2>2, <3>2, <3>3, <3>4
  <2>4. \A r \in RowsOf(model) :
           MultiplierOf(model.rows[r], Passed(model, r), lambda, mu) = RowMultiplier(r)
    BY <2>1, MultiplierIsRows
  <2>5. NonlinearMultipliers(model, lambda, mu) = [r \in RowsOf(model) |-> RowMultiplier(r)]
    BY <2>4 DEF NonlinearMultipliers
  <2> QED BY <2>2, <2>3, <2>5
<1> QED BY <1>1, MatchHolds, PTL

-----------------------------------------------------------------------------
(* Arithmetic of rounded products.                                         *)
LEMMA PowerType == \A k \in Nat : 2 ^ k \in Nat \ {0}
<1> TAKE k \in Nat
<1>1. IsFiniteSet(1 .. k) /\ Cardinality(1 .. k) = k
  <2>1. 1 \in Int /\ k \in Int OBVIOUS
  <2>2. Cardinality(1 .. k) = IF 1 > k THEN 0 ELSE k - 1 + 1 BY <2>1, FS_Interval, Zenon
  <2>3. IsFiniteSet(1 .. k) BY IntervalsAreFinite
  <2>4. Cardinality(1 .. k) = k BY <2>2
  <2> QED BY <2>3, <2>4
<1>2. IsFiniteSet(SUBSET (1 .. k)) /\ Cardinality(SUBSET (1 .. k)) = 2 ^ Cardinality(1 .. k)
  BY <1>1, FS_SUBSET, Zenon
<1>3. 2 ^ k = Cardinality(SUBSET (1 .. k)) BY <1>1, <1>2, Zenon
<1>4. Cardinality(SUBSET (1 .. k)) \in Nat BY <1>2, FS_CardinalityType
<1>5. Cardinality(SUBSET (1 .. k)) # 0
  <2>1. SUBSET (1 .. k) # {} OBVIOUS
  <2> QED BY <1>2, <2>1, FS_EmptySet
<1>6. \A c : c \in Nat /\ c # 0 => c \in Nat \ {0} OBVIOUS
<1> QED BY <1>3, <1>4, <1>5, <1>6, Zenon

LEMMA HalfAUnit ==
    /\ Unit \div 2 \in Nat /\ 2 * (Unit \div 2) <= Unit /\ Unit \div 2 < Unit
    /\ Unit < 2 * (Unit \div 2) + 2
BY GridAssumption

LEMMA DivFacts ==
    ASSUME NEW a \in Int, NEW u \in Nat \ {0}
    PROVE  a \div u \in Int /\ u * (a \div u) <= a /\ a < u * (a \div u) + u
OBVIOUS

LEMMA DivIs ==
    ASSUME NEW a \in Int, NEW u \in Nat \ {0}, NEW d \in Int, u * d <= a, a < u * d + u
    PROVE  a \div u = d
<1> DEFINE c == a \div u
<1>1. c \in Int /\ u * c <= a /\ a < u * c + u OBVIOUS
<1> HIDE DEF c
<1>2. u * c < u * d + u /\ u * d < u * c + u BY <1>1
<1>3. ~(c < d)
  <2> SUFFICES ASSUME c + 1 <= d PROVE FALSE BY <1>1
  <2>1. u * (c + 1) <= u * d BY <1>1
  <2>2. u * (c + 1) = u * c + u BY <1>1
  <2> QED BY <1>1, <1>2, <2>1, <2>2
<1>4. ~(d < c)
  <2> SUFFICES ASSUME d + 1 <= c PROVE FALSE BY <1>1
  <2>1. u * (d + 1) <= u * c BY <1>1
  <2>2. u * (d + 1) = u * d + u OBVIOUS
  <2> QED BY <1>1, <1>2, <2>1, <2>2
<1> QED BY <1>1, <1>3, <1>4 DEF c

\* A product with 0 or with 1 is not rounded.
LEMMA ProductUnits ==
    \A a \in Int : /\ Product(a, 0) = 0 /\ Product(0, a) = 0
                   /\ Product(a, Unit) = a /\ Product(a, -Unit) = -a
<1> TAKE a \in Int
<1>1. Unit \in Nat \ {0} /\ Unit \div 2 \in Nat /\ Unit \div 2 < Unit
  BY GridAssumption, HalfAUnit
<1> DEFINE h == Unit \div 2
<1> HIDE DEF h
<1>2. h \in Nat /\ h < Unit BY <1>1 DEF h
<1>3. \A b \in Int : Product(a, b) = (a * b + h) \div Unit BY DEF Product, h
<1>4. Product(0, a) = (0 * a + h) \div Unit BY DEF Product, h
<1>5. h \div Unit = 0
  <2>1. h \in Int /\ Unit * 0 <= h /\ h < Unit * 0 + Unit BY <1>1, <1>2
  <2> QED BY <1>1, <2>1, DivIs
<1>6. a * 0 + h = h /\ 0 * a + h = h BY <1>2
<1>7. (a * Unit + h) \div Unit = a
  <2>1. a * Unit + h \in Int /\ Unit * a = a * Unit /\ a * Unit \in Int BY <1>1, <1>2
  <2>2. Unit * a <= a * Unit + h /\ a * Unit + h < Unit * a + Unit BY <1>1, <1>2, <2>1
  <2> QED BY <1>1, <2>1, <2>2, DivIs
<1>8. (a * (-Unit) + h) \div Unit = -a
  <2>1. a * (-Unit) + h \in Int /\ Unit * (-a) = a * (-Unit) /\ a * (-Unit) \in Int /\ -a \in Int
    BY <1>1, <1>2
  <2>2. Unit * (-a) <= a * (-Unit) + h /\ a * (-Unit) + h < Unit * (-a) + Unit
    BY <1>1, <1>2, <2>1
  <2> QED BY <1>1, <2>1, <2>2, DivIs
<1>9. -Unit \in Int /\ Unit \in Int /\ 0 \in Int BY <1>1
<1> QED BY <1>3, <1>4, <1>5, <1>6, <1>7, <1>8, <1>9

\* The product of a difference is within a step of the products of its parts.
LEMMA ProductOfDifference ==
    ASSUME NEW b \in Int, NEW a \in Int, NEW c \in Int
    PROVE  /\ Product(a, c) + Product(b, -c) <= Product(a - b, c) + 1
           /\ Product(a - b, c) <= Product(a, c) + Product(b, -c) + 1
<1> DEFINE h == Unit \div 2
           p == a * c
           q == b * c
<1>1. Unit \in Nat \ {0} /\ h \in Nat /\ 2 * h <= Unit /\ Unit < 2 * h + 2
  BY GridAssumption, HalfAUnit
<1>2. p \in Int /\ q \in Int OBVIOUS
<1>3. b * (-c) = -q /\ (a - b) * c = p - q OBVIOUS
<1> HIDE DEF h, p, q
<1> DEFINE A == (p + h) \div Unit
           B == ((-q) + h) \div Unit
           D == ((p - q) + h) \div Unit
<1>4. Product(a, c) = A /\ Product(b, -c) = B /\ Product(a - b, c) = D
  BY <1>3 DEF Product, h, p
<1>5. A \in Int /\ Unit * A <= p + h /\ p + h < Unit * A + Unit
  <2>1. p + h \in Int BY <1>1, <1>2
  <2> QED BY <1>1, <2>1, DivFacts
<1>6. B \in Int /\ Unit * B <= (-q) + h /\ (-q) + h < Unit * B + Unit
  <2>1. (-q) + h \in Int BY <1>1, <1>2
  <2> QED BY <1>1, <2>1, DivFacts
<1>7. D \in Int /\ Unit * D <= (p - q) + h /\ (p - q) + h < Unit * D + Unit
  <2>1. (p - q) + h \in Int BY <1>1, <1>2
  <2> QED BY <1>1, <2>1, DivFacts
<1> HIDE DEF A, B, D
<1>8. Unit * A \in Int /\ Unit * B \in Int /\ Unit * D \in Int BY <1>1, <1>5, <1>6, <1>7
<1>9. Unit * A + Unit * B < Unit * D + Unit + Unit
  BY <1>1, <1>2, <1>5, <1>6, <1>7, <1>8
<1>10. Unit * D < Unit * A + Unit * B + Unit + Unit
  BY <1>1, <1>2, <1>5, <1>6, <1>7, <1>8
<1>11. ~(D + 2 <= A + B)
  <2> SUFFICES ASSUME D + 2 <= A + B PROVE FALSE OBVIOUS
  <2>1. D + 2 \in Int /\ A + B \in Int BY <1>5, <1>6, <1>7
  <2>2. Unit * (D + 2) <= Unit * (A + B) BY <1>1, <2>1
  <2>3. Unit * (D + 2) = Unit * D + Unit + Unit /\ Unit * (A + B) = Unit * A + Unit * B
    BY <1>1, <1>5, <1>6, <1>7
  <2> QED BY <1>1, <1>8, <1>9, <2>2, <2>3
<1>12. ~(A + B + 2 <= D)
  <2> SUFFICES ASSUME A + B + 2 <= D PROVE FALSE OBVIOUS
  <2>1. A + B + 2 \in Int BY <1>5, <1>6
  <2>2. Unit * (A + B + 2) <= Unit * D BY <1>1, <1>7, <2>1
  <2>3. Unit * (A + B + 2) = Unit * A + Unit * B + Unit + Unit BY <1>1, <1>5, <1>6
  <2> QED BY <1>1, <1>8, <1>10, <2>2, <2>3
<1> QED BY <1>4, <1>5, <1>6, <1>7, <1>11, <1>12

LEMMA QuotientType ==
    ASSUME NEW a \in Int, NEW b \in Nat \ {0}
    PROVE  Quotient(a, b) \in Int /\ (0 <= a => 0 <= Quotient(a, b))
<1>1. a * Unit \in Int /\ (0 <= a => 0 <= a * Unit) BY GridAssumption
<1> DEFINE c == a * Unit
<1> HIDE DEF c
<1>2. c \in Int BY <1>1 DEF c
<1>3. c \div b \in Int /\ b * (c \div b) <= c /\ c < b * (c \div b) + b BY <1>2, DivFacts
<1>4. 0 <= c => 0 <= c \div b
  <2> SUFFICES ASSUME 0 <= c, c \div b + 1 <= 0 PROVE FALSE BY <1>3
  <2>1. b * (c \div b + 1) <= b * 0 BY <1>3
  <2>2. b * (c \div b + 1) = b * (c \div b) + b BY <1>3
  <2> QED BY <1>2, <1>3, <2>1, <2>2
<1>5. Quotient(a, b) = c \div b BY DEF Quotient, c
<1> QED BY <1>1, <1>3, <1>4, <1>5 DEF c

-----------------------------------------------------------------------------
(* Numbers stay numbers.                                                   *)
Numbered(m) == [ColumnsOf(m) -> Int]
Entry(m) == [gradient : Numbered(m), value : Int]

\* What is asked of the oracle and of the backend: that they answer a point,
\* and a system, of numbers with numbers, and of the right length.
OracleAnswersNumbers ==
    \A q \in Requests : \A p \in Numbered(q.model) :
        LET m == q.model
            n == Nonlinear(m, p)
        IN  /\ n.finite => /\ n.objective \in Int /\ n.gradient \in Numbered(m)
                           /\ n.values \in [RowsOf(m) -> Int]
                           /\ n.jacobian \in [RowsOf(m) -> Numbered(m)]
            /\ \A w \in [RowsOf(m) -> Int] :
                  Hessian(m, p, w).finite =>
                      Hessian(m, p, w).values \in [ColumnsOf(m) \X ColumnsOf(m) -> Int]
BackendAnswersDirections ==
    \A q \in Requests : \A n \in Nat :
        \A a \in [(1 .. n) \X (1 .. n) -> Int], b \in [1 .. n -> Int] :
            \A answer \in LinearAnswers(q, a, b) :
                answer.converged => answer.direction \in [1 .. n -> Int]

LEMMA TotalOf ==
    ASSUME NEW S, IsFiniteSet(S), NEW f, DOMAIN f = S, \A i \in S : f[i] \in Int
    PROVE  Total(f) \in Int
BY TotalType

LEMMA RowTypes ==
    ASSUME NEW m, IsModel(m)
    PROVE  \A r \in RowsOf(m) : /\ m.rows[r].coefficients \in [ColumnsOf(m) -> Int]
                                /\ m.rows[r].lower \in Int /\ m.rows[r].upper \in Int
<1> DEFINE X == [coefficients : [ColumnsOf(m) -> Int], lower : Int, upper : Int]
<1>1. /\ RowsOf(m) = 1 .. Len(m.rows)
      /\ ColumnsOf(m) = 1 .. Len(m.linear)
  BY RowsAreAList
<1>2. m.rows \in Seq(X) BY <1>1 DEF IsModel
<1>3. \A a \in X : a.coefficients \in [ColumnsOf(m) -> Int] /\ a.lower \in Int /\ a.upper \in Int
  OBVIOUS
<1> HIDE DEF X
<1>4. \A r \in RowsOf(m) : m.rows[r] \in X BY <1>1, <1>2
<1> QED BY <1>3, <1>4

LEMMA ConstraintTypes ==
    ASSUME NEW m, IsModel(m), NEW p \in Numbered(m), NEW n,
           n.gradient \in Numbered(m), n.values \in [RowsOf(m) -> Int],
           n.jacobian \in [RowsOf(m) -> Numbered(m)]
    PROVE  /\ Constraints(m, p, n) \in [RowsOf(m) -> Int]
           /\ Jacobian(m, n) \in [RowsOf(m) -> Numbered(m)]
           /\ Curved(m, m.quadratic, p) \in Numbered(m)
           /\ m.linear \in Numbered(m)
<1> DEFINE k == Len(m.linear)
           C == ColumnsOf(m)
           R == RowsOf(m)
<1>1. k \in Nat /\ C = 1 .. k /\ IsFiniteSet(C) /\ R = 1 .. Len(m.rows)
  BY RowsAreAList, IntervalsAreFinite
<1>2. \A r \in R : /\ m.rows[r].coefficients \in [C -> Int]
                   /\ m.rows[r].lower \in Int /\ m.rows[r].upper \in Int
  BY RowTypes
<1>3. m.quadratic \in [C \X C -> Int] /\ m.linear \in [C -> Int] BY <1>1 DEF IsModel
<1> HIDE DEF k, C, R
<1>4. p \in [C -> Int] /\ n.values \in [R -> Int] /\ n.jacobian \in [R -> [C -> Int]]
  BY DEF Numbered, C, R
<1>5. ASSUME NEW r \in R PROVE Times(m.rows[r].coefficients, p) \in Int
  <2> DEFINE a == m.rows[r].coefficients
             f == [i \in DOMAIN a |-> Product(a[i], p[i])]
  <2>1. DOMAIN f = C /\ \A i \in C : f[i] = Product(a[i], p[i]) BY <1>2
  <2>2. \A i \in C : Product(a[i], p[i]) \in Int
    <3> TAKE i \in C
    <3>1. a[i] \in Int /\ p[i] \in Int BY <1>2, <1>4
    <3> HIDE DEF a
    <3> QED BY <3>1, ProductType
  <2>3. Times(a, p) = Total(f) BY DEF Times
  <2> HIDE DEF f
  <2> QED BY <1>1, <2>1, <2>2, <2>3, TotalOf
<1>6. Constraints(m, p, n) \in [R -> Int]
  <2>1. \A r \in R : RowValues(m, Coefficients(m), p)[r] = Times(m.rows[r].coefficients, p)
    BY DEF RowValues, Coefficients, R
  <2>2. \A r \in R : RowValues(m, Coefficients(m), p)[r] + n.values[r] \in Int
    BY <1>4, <1>5, <2>1
  <2> QED BY <2>2 DEF Constraints, R
<1>7. Jacobian(m, n) \in [R -> [C -> Int]]
  <2>1. \A r \in R : \A v \in C : m.rows[r].coefficients[v] + n.jacobian[r][v] \in Int
    <3> TAKE r \in R
    <3> TAKE v \in C
    <3>1. m.rows[r].coefficients[v] \in Int BY <1>2
    <3>2. n.jacobian[r][v] \in Int BY <1>4
    <3> QED BY <3>1, <3>2
  <2> QED BY <2>1 DEF Jacobian, R, C
<1>8. Curved(m, m.quadratic, p) \in [C -> Int]
  <2>1. ASSUME NEW v \in C
        PROVE  Total([w \in C |-> Product(m.quadratic[<<v, w>>], p[w])]) \in Int
    <3> DEFINE f == [w \in C |-> Product(m.quadratic[<<v, w>>], p[w])]
    <3>1. DOMAIN f = C /\ \A w \in C : f[w] = Product(m.quadratic[<<v, w>>], p[w]) OBVIOUS
    <3>2. \A w \in C : Product(m.quadratic[<<v, w>>], p[w]) \in Int
      <4> TAKE w \in C
      <4>1. m.quadratic[<<v, w>>] \in Int /\ p[w] \in Int BY <1>3, <1>4
      <4> QED BY <4>1, ProductType
    <3> HIDE DEF f
    <3>3. Total(f) \in Int BY <1>1, <3>1, <3>2, TotalOf
    <3> QED BY <3>3 DEF f
  <2> QED BY <2>1 DEF Curved, C
<1> QED BY <1>3, <1>6, <1>7, <1>8 DEF Numbered, C, R

\* The lists hold numbers at a point where the oracle answers numbers.
LEMMA EvaluationTypes ==
    ASSUME NEW q, IsModel(q.model), NEW p \in Numbered(q.model),
           LowerBounds(q) \in Numbered(q.model), UpperBounds(q) \in Numbered(q.model),
           NEW n, n = Nonlinear(q.model, p), n.gradient \in Numbered(q.model),
           n.values \in [RowsOf(q.model) -> Int],
           n.jacobian \in [RowsOf(q.model) -> Numbered(q.model)]
    PROVE  /\ Evaluate(q, p).gradient \in Numbered(q.model)
           /\ Evaluate(q, p).equalities \in Seq(Entry(q.model))
           /\ Evaluate(q, p).inequalities \in Seq(Entry(q.model))
<1> DEFINE m == q.model
           e == Evaluate(q, p)
           V == Constraints(m, p, n)
           J == Jacobian(m, n)
           T == Entry(m)
           E == EqualityLists(m, V, J)
           R == RowLists(m, V, J)
           B == BoundLists(m, LowerBounds(q), UpperBounds(q), p)
           curved == Curved(m, m.quadratic, p)
<1>1. /\ Len(m.rows) \in Nat /\ RowsOf(m) = 1 .. Len(m.rows)
      /\ Len(m.linear) \in Nat /\ ColumnsOf(m) = 1 .. Len(m.linear)
  BY RowsAreAList
<1>2. /\ V \in [RowsOf(m) -> Int] /\ J \in [RowsOf(m) -> Numbered(m)]
      /\ curved \in Numbered(m) /\ m.linear \in Numbered(m)
  BY ConstraintTypes
<1>3. /\ e.gradient = [v \in ColumnsOf(m) |-> m.linear[v] + curved[v] + n.gradient[v]]
      /\ e.equalities = FlattenSeq(E)
      /\ e.inequalities = FlattenSeq(R) \o FlattenSeq(B)
  BY DEF Evaluate, Equalities, EqualityLists, RowInequalities, RowLists, BoundInequalities,
         BoundLists
<1>4. \A r \in 1 .. Len(m.rows) : m.rows[r].lower \in Int /\ m.rows[r].upper \in Int
  BY <1>1, RowTypes
<1> HIDE DEF V, J, curved, e, m
<1>5. e.gradient \in Numbered(m)
  <2>1. n.gradient \in Numbered(m) BY DEF m
  <2>2. \A v \in ColumnsOf(m) : m.linear[v] + curved[v] + n.gradient[v] \in Int
    BY <1>2, <2>1 DEF Numbered
  <2> QED BY <1>3, <2>2 DEF Numbered
<1>6. \A g \in Numbered(m), a \in Int : NlpRow(g, a) \in T BY DEF NlpRow, Entry
<1>7. \A g \in Numbered(m) : Minus(g) \in Numbered(m) BY DEF Minus, Numbered
<1>8. \A v \in ColumnsOf(m), a \in Int : Basis(m, v, a) \in Numbered(m) BY DEF Basis, Numbered
<1>9. Unit \in Int /\ -Unit \in Int BY GridAssumption
<1> HIDE DEF T
<1>10. <<>> \in Seq(T) OBVIOUS
<1>11. E \in Seq(Seq(T))
  <2>1. ASSUME NEW r \in RowsOf(m)
        PROVE  If(IsEquality(m.rows[r]), NlpRow(J[r], V[r] - m.rows[r].lower)) \in Seq(T)
    <3>1. J[r] \in Numbered(m) /\ V[r] - m.rows[r].lower \in Int BY <1>1, <1>2, <1>4
    <3>2. NlpRow(J[r], V[r] - m.rows[r].lower) \in T BY <1>6, <3>1
    <3>3. IsEquality(m.rows[r]) \in BOOLEAN BY DEF IsEquality
    <3> QED BY <3>2, <3>3, IfFacts
  <2>2. E \in [1 .. Len(m.rows) -> Seq(T)] BY <1>1, <2>1 DEF EqualityLists
  <2> HIDE DEF E
  <2> QED BY <1>1, <2>2, ListIsSequence
<1>12. R \in Seq(Seq(T))
  <2>1. ASSUME NEW r \in RowsOf(m)
        PROVE  Sides(m.rows[r].lower, m.rows[r].upper, J[r], Minus(J[r]), V[r]) \in Seq(T)
    <3>1. /\ J[r] \in Numbered(m) /\ V[r] - m.rows[r].upper \in Int
          /\ m.rows[r].lower - V[r] \in Int
      BY <1>1, <1>2, <1>4
    <3>2. NlpRow(J[r], V[r] - m.rows[r].upper) \in T BY <1>6, <3>1
    <3>3. NlpRow(Minus(J[r]), m.rows[r].lower - V[r]) \in T BY <1>6, <1>7, <3>1
    <3> QED BY <3>2, <3>3, SidesFacts
  <2>2. R \in [1 .. Len(m.rows) -> Seq(T)] BY <1>1, <1>10, <2>1 DEF RowLists
  <2> HIDE DEF R
  <2> QED BY <1>1, <2>2, ListIsSequence
<1>13. B \in Seq(Seq(T))
  <2>1. ASSUME NEW v \in ColumnsOf(m)
        PROVE  Sides(LowerBounds(q)[v], UpperBounds(q)[v], Basis(m, v, Unit), Basis(m, v, -Unit), p[v])
                 \in Seq(T)
    <3>1. LowerBounds(q)[v] \in Int /\ UpperBounds(q)[v] \in Int /\ p[v] \in Int
      BY DEF Numbered, m
    <3>2. LowerBounds(q)[v] - p[v] \in Int /\ p[v] - UpperBounds(q)[v] \in Int BY <3>1
    <3>3. NlpRow(Basis(m, v, Unit), p[v] - UpperBounds(q)[v]) \in T BY <1>6, <1>8, <1>9, <3>2
    <3>4. NlpRow(Basis(m, v, -Unit), LowerBounds(q)[v] - p[v]) \in T BY <1>6, <1>8, <1>9, <3>2
    <3> QED BY <3>3, <3>4, SidesFacts
  <2>2. B \in [1 .. Len(m.linear) -> Seq(T)] BY <1>1, <2>1 DEF BoundLists
  <2> HIDE DEF B
  <2> QED BY <1>1, <2>2, ListIsSequence
<1> HIDE DEF E, R, B
<1>14. FlattenSeq(E) \in Seq(T) /\ FlattenSeq(R) \in Seq(T) /\ FlattenSeq(B) \in Seq(T)
  BY <1>11, <1>12, <1>13, FlattenedFacts
<1>15. \A f, g \in Seq(T) : f \o g \in Seq(T) OBVIOUS
<1> QED BY <1>3, <1>5, <1>14, <1>15 DEF e, T, m

-----------------------------------------------------------------------------
(* Every side has its entry, at the place its rank gives.                  *)
Values == Constraints(model, x, Nonlinear(model, x))
Slopes == Jacobian(model, Nonlinear(model, x))
EqualityRank(r) == 1 + Cardinality({s \in 1 .. r - 1 : IsEquality(model.rows[s])})
HasEntry(list, k, gradient, value) == k \in DOMAIN list /\ list[k] = NlpRow(gradient, value)

LEMMA RowEntries ==
    ASSUME IsModel(model), evaluation = Evaluate(request, x), NEW r \in RowsOf(model)
    PROVE  LET row == model.rows[r] IN
           /\ <<r, "lower">> \in RowSides =>
                 HasEntry(evaluation.inequalities, Rank(<<r, "lower">>, RowSides),
                          Minus(Slopes[r]), row.lower - Values[r])
           /\ <<r, "upper">> \in RowSides =>
                 HasEntry(evaluation.inequalities, Rank(<<r, "upper">>, RowSides),
                          Slopes[r], Values[r] - row.upper)
           /\ IsEquality(row) =>
                 HasEntry(evaluation.equalities, EqualityRank(r), Slopes[r], Values[r] - row.lower)
<1> DEFINE m == model
           n == Len(m.rows)
           row == m.rows[r]
           R == RowLists(m, Values, Slopes)
           rc == RowCounts(m)
           list == evaluation.inequalities
           low == <<r, "lower">>
           up == <<r, "upper">>
<1>1. n \in Nat /\ r \in 1 .. n BY RowsAreAList
<1>2. /\ low \in RowSides <=> ~IsEquality(row) /\ Finite(row.lower)
      /\ up \in RowSides <=> ~IsEquality(row) /\ Finite(row.upper)
      /\ Rank(low, RowSides) = Place(rc, r) + 1
      /\ Rank(up, RowSides) = Place(rc, r) + Has(RowSides, low) + 1
  BY <1>1, RowSidesCounted
<1>3. /\ \E T : list \in Seq(T)
      /\ Len(list) = Shift(m) + Place(BoundCounts(request), Len(m.linear) + 1)
      /\ \A j \in 1 .. rc[r] : /\ Place(rc, r) + j \in 1 .. Shift(m)
                               /\ list[Place(rc, r) + j] = R[r][j]
  BY <1>1, InequalitiesHold DEF model, Values, Slopes
<1>4. /\ ~IsEquality(row) /\ Finite(row.lower) =>
            R[r][1] = NlpRow(Minus(Slopes[r]), row.lower - Values[r])
      /\ ~IsEquality(row) /\ Finite(row.upper) =>
            R[r][One(Finite(row.lower)) + 1] = NlpRow(Slopes[r], Values[r] - row.upper)
  <2>1. /\ ~IsEquality(m.rows[r]) /\ Finite(m.rows[r].lower) =>
              RowLists(m, Values, Slopes)[r][1]
                = NlpRow(Minus(Slopes[r]), m.rows[r].lower - Values[r])
        /\ ~IsEquality(m.rows[r]) /\ Finite(m.rows[r].upper) =>
              RowLists(m, Values, Slopes)[r][One(Finite(m.rows[r].lower)) + 1]
                = NlpRow(Slopes[r], Values[r] - m.rows[r].upper)
    <3>1. IsModel(m) /\ r \in 1 .. Len(m.rows) BY <1>1
    <3> HIDE DEF rc, list, low, up, R, n, row, m
    <3> QED BY <3>1, RowPieces
  <2> QED BY <2>1
<1>5. rc[r] = RowCount(row) BY <1>1, CountsAreNaturals DEF model
<1>6. /\ Shift(m) \in Nat /\ Place(rc, r) \in Nat
      /\ Place(BoundCounts(request), Len(m.linear) + 1) \in Nat
  <2>1. r \in 1 .. n + 1 /\ n + 1 \in 1 .. n + 1 BY <1>1
  <2>2. Len(m.linear) + 1 \in 1 .. Len(m.linear) + 1
    <3>1. Len(m.linear) \in Nat BY RowsAreAList
    <3> QED BY <3>1
  <2> QED BY <2>1, <2>2, CountsAreNaturals DEF Shift, model
<1>7. DOMAIN list = 1 .. Len(list) BY <1>3
<1>8. \A k \in 1 .. Shift(m) : k \in DOMAIN list BY <1>3, <1>6, <1>7
<1>9. ~IsEquality(row) => rc[r] = One(Finite(row.lower)) + One(Finite(row.upper))
  BY <1>5 DEF RowCount, SideCount
<1> HIDE DEF R, rc, list, n, row, m
<1>10. ASSUME low \in RowSides
       PROVE  HasEntry(list, Rank(low, RowSides), Minus(Slopes[r]), row.lower - Values[r])
  <2>1. 1 \in 1 .. rc[r]
    <3>1. rc[r] = 1 + One(Finite(row.upper)) BY <1>2, <1>9, <1>10 DEF One
    <3>2. One(Finite(row.upper)) \in {0, 1} BY OneType
    <3> QED BY <3>1, <3>2
  <2>2. Place(rc, r) + 1 \in 1 .. Shift(m) /\ list[Place(rc, r) + 1] = R[r][1] BY <1>3, <2>1
  <2>3. R[r][1] = NlpRow(Minus(Slopes[r]), row.lower - Values[r]) BY <1>2, <1>4, <1>10
  <2> QED BY <1>2, <1>8, <2>2, <2>3 DEF HasEntry
<1>11. ASSUME up \in RowSides
       PROVE  HasEntry(list, Rank(up, RowSides), Slopes[r], Values[r] - row.upper)
  <2>1. Has(RowSides, low) = One(Finite(row.lower)) BY <1>2, <1>11 DEF Has, One
  <2>2. One(Finite(row.lower)) \in {0, 1} BY OneType
  <2>3. rc[r] = One(Finite(row.lower)) + 1 BY <1>2, <1>9, <1>11 DEF One
  <2>4. One(Finite(row.lower)) + 1 \in 1 .. rc[r] BY <2>2, <2>3
  <2>5. /\ Place(rc, r) + (One(Finite(row.lower)) + 1) \in 1 .. Shift(m)
        /\ list[Place(rc, r) + (One(Finite(row.lower)) + 1)] = R[r][One(Finite(row.lower)) + 1]
    BY <1>3, <2>4
  <2>6. Rank(up, RowSides) = Place(rc, r) + (One(Finite(row.lower)) + 1)
    BY <1>2, <1>6, <2>1, <2>2
  <2>7. R[r][One(Finite(row.lower)) + 1] = NlpRow(Slopes[r], Values[r] - row.upper)
    BY <1>2, <1>4, <1>11
  <2> QED BY <1>8, <2>5, <2>6, <2>7 DEF HasEntry
<1>12. ASSUME IsEquality(row)
       PROVE  HasEntry(evaluation.equalities, EqualityRank(r), Slopes[r], Values[r] - row.lower)
  <2> DEFINE c == Place(EqualityCounts(m), r)
  <2>1. /\ \E T : evaluation.equalities \in Seq(T)
        /\ c + 1 \in 1 .. Len(evaluation.equalities)
        /\ evaluation.equalities[c + 1] = NlpRow(Slopes[r], Values[r] - row.lower)
    BY <1>1, <1>12, EqualitiesHold DEF model, Values, Slopes, n, row, m
  <2>2. c = Cardinality({s \in 1 .. r - 1 : IsEquality(m.rows[s])})
    BY <1>1, PassedIsPlace DEF n, m
  <2>3. c \in Nat
    <3>1. r \in 1 .. n + 1 BY <1>1
    <3> QED BY <3>1, CountsAreNaturals DEF model, n, m
  <2>4. DOMAIN evaluation.equalities = 1 .. Len(evaluation.equalities) BY <2>1
  <2>5. EqualityRank(r) = 1 + c BY <2>2 DEF EqualityRank, m
  <2> HIDE DEF c
  <2>6. EqualityRank(r) = c + 1 BY <2>3, <2>5
  <2> QED BY <2>1, <2>4, <2>6 DEF HasEntry
<1> QED BY <1>10, <1>11, <1>12 DEF list, row, m

LEMMA BoundEntries ==
    ASSUME IsModel(model), evaluation = Evaluate(request, x), NEW v \in ColumnsOf(model)
    PROVE  /\ <<v, "lower">> \in BoundSides =>
                 HasEntry(evaluation.inequalities,
                          Cardinality(RowSides) + Rank(<<v, "lower">>, BoundSides),
                          Basis(model, v, -Unit), LowerBounds(request)[v] - x[v])
           /\ <<v, "upper">> \in BoundSides =>
                 HasEntry(evaluation.inequalities,
                          Cardinality(RowSides) + Rank(<<v, "upper">>, BoundSides),
                          Basis(model, v, Unit), x[v] - UpperBounds(request)[v])
<1> DEFINE m == model
           k == Len(m.linear)
           L == LowerBounds(request)
           U == UpperBounds(request)
           B == BoundLists(m, L, U, x)
           bc == BoundCounts(request)
           list == evaluation.inequalities
           low == <<v, "lower">>
           up == <<v, "upper">>
           s == Cardinality(RowSides)
<1>1. k \in Nat /\ v \in 1 .. k BY RowsAreAList
<1>2. /\ low \in BoundSides <=> Finite(L[v])
      /\ up \in BoundSides <=> Finite(U[v])
      /\ Rank(low, BoundSides) = Place(bc, v) + 1
      /\ Rank(up, BoundSides) = Place(bc, v) + Has(BoundSides, low) + 1
  BY <1>1, BoundSidesCounted
<1>3. s = Shift(m) BY RowSidesCounted
<1>4. /\ \E T : list \in Seq(T)
      /\ Len(list) = Shift(m) + Place(bc, k + 1)
      /\ \A j \in 1 .. bc[v] : /\ Place(bc, v) + j \in 1 .. Place(bc, k + 1)
                               /\ list[Shift(m) + (Place(bc, v) + j)] = B[v][j]
  BY <1>1, InequalitiesHold DEF model
<1>5. /\ Finite(L[v]) => B[v][1] = NlpRow(Basis(m, v, -Unit), L[v] - x[v])
      /\ Finite(U[v]) => B[v][One(Finite(L[v])) + 1] = NlpRow(Basis(m, v, Unit), x[v] - U[v])
  BY <1>1, BoundListFacts
<1>6. bc[v] = One(Finite(L[v])) + One(Finite(U[v]))
  BY <1>1, CountsAreNaturals DEF model, SideCount
<1>7. Shift(m) \in Nat /\ Place(bc, v) \in Nat /\ Place(bc, k + 1) \in Nat
  <2>1. v \in 1 .. k + 1 /\ k + 1 \in 1 .. k + 1 BY <1>1
  <2>2. Len(m.rows) + 1 \in 1 .. Len(m.rows) + 1
    <3>1. Len(m.rows) \in Nat BY RowsAreAList
    <3> QED BY <3>1
  <2> QED BY <2>1, <2>2, CountsAreNaturals DEF Shift, model
<1>8. DOMAIN list = 1 .. Len(list) BY <1>4
<1> HIDE DEF list, B, bc, k, L, U, s
<1>9. \A i \in 1 .. Place(bc, k + 1) : Shift(m) + i \in DOMAIN list BY <1>4, <1>7, <1>8
<1>10. ASSUME low \in BoundSides
       PROVE  HasEntry(list, s + Rank(low, BoundSides), Basis(m, v, -Unit), L[v] - x[v])
  <2>1. 1 \in 1 .. bc[v]
    <3>1. bc[v] = 1 + One(Finite(U[v])) BY <1>2, <1>6, <1>10 DEF One
    <3>2. One(Finite(U[v])) \in {0, 1} BY OneType
    <3> QED BY <3>1, <3>2
  <2>2. /\ Place(bc, v) + 1 \in 1 .. Place(bc, k + 1)
        /\ list[Shift(m) + (Place(bc, v) + 1)] = B[v][1]
    BY <1>4, <2>1
  <2> QED BY <1>2, <1>3, <1>5, <1>9, <1>10, <2>2 DEF HasEntry
<1>11. ASSUME up \in BoundSides
       PROVE  HasEntry(list, s + Rank(up, BoundSides), Basis(m, v, Unit), x[v] - U[v])
  <2>1. Has(BoundSides, low) = One(Finite(L[v])) BY <1>2 DEF Has, One
  <2>2. One(Finite(L[v])) \in {0, 1} BY OneType
  <2>3. bc[v] = One(Finite(L[v])) + 1 BY <1>2, <1>6, <1>11 DEF One
  <2>4. One(Finite(L[v])) + 1 \in 1 .. bc[v] BY <2>2, <2>3
  <2>5. /\ Place(bc, v) + (One(Finite(L[v])) + 1) \in 1 .. Place(bc, k + 1)
        /\ list[Shift(m) + (Place(bc, v) + (One(Finite(L[v])) + 1))] = B[v][One(Finite(L[v])) + 1]
    BY <1>4, <2>4
  <2>6. Rank(up, BoundSides) = Place(bc, v) + (One(Finite(L[v])) + 1) BY <1>2, <1>7, <2>1, <2>2
  <2> QED BY <1>2, <1>3, <1>5, <1>9, <1>11, <2>5, <2>6 DEF HasEntry
<1> QED BY <1>10, <1>11 DEF list, L, U, m, s

\* So the multipliers of rows and bounds are numbers of the lists.
LEMMA DualTypes ==
    ASSUME IsModel(model), evaluation = Evaluate(request, x),
           lambda \in [DOMAIN evaluation.equalities -> Int],
           mu \in [DOMAIN evaluation.inequalities -> Int]
    PROVE  /\ \A r \in RowsOf(model) :
                 /\ RowDual(r, "lower") \in Int /\ RowDual(r, "upper") \in Int
                 /\ RowMultiplier(r) \in Int
           /\ \A v \in ColumnsOf(model) :
                 BoundDual(v, "lower") \in Int /\ BoundDual(v, "upper") \in Int
<1>1. ASSUME NEW r \in RowsOf(model)
      PROVE  /\ RowDual(r, "lower") \in Int /\ RowDual(r, "upper") \in Int
             /\ RowMultiplier(r) \in Int
  <2>1. /\ <<r, "lower">> \in RowSides =>
              Rank(<<r, "lower">>, RowSides) \in DOMAIN evaluation.inequalities
        /\ <<r, "upper">> \in RowSides =>
              Rank(<<r, "upper">>, RowSides) \in DOMAIN evaluation.inequalities
        /\ IsEquality(model.rows[r]) => EqualityRank(r) \in DOMAIN evaluation.equalities
    BY RowEntries DEF HasEntry
  <2>2. RowDual(r, "lower") \in Int /\ RowDual(r, "upper") \in Int BY <2>1 DEF RowDual
  <2>3. CASE IsEquality(model.rows[r])
    BY <2>1, <2>2, <2>3 DEF RowMultiplier, EqualityRank
  <2>4. CASE ~IsEquality(model.rows[r])
    BY <2>2, <2>4 DEF RowMultiplier
  <2> QED BY <2>2, <2>3, <2>4
<1>2. ASSUME NEW v \in ColumnsOf(model)
      PROVE  BoundDual(v, "lower") \in Int /\ BoundDual(v, "upper") \in Int
  <2>1. /\ <<v, "lower">> \in BoundSides =>
              Cardinality(RowSides) + Rank(<<v, "lower">>, BoundSides)
                \in DOMAIN evaluation.inequalities
        /\ <<v, "upper">> \in BoundSides =>
              Cardinality(RowSides) + Rank(<<v, "upper">>, BoundSides)
                \in DOMAIN evaluation.inequalities
    BY BoundEntries DEF HasEntry
  <2> QED BY <2>1 DEF BoundDual
<1> QED BY <1>1, <1>2

-----------------------------------------------------------------------------
(* The iterate is made of numbers, and the answer is the last iterate.     *)
Working == pc \in {"loop", "report"} \/ Answered
Numeric ==
    /\ x \in Numbered(model) /\ Nonlinear(model, x).finite
    /\ LowerBounds(request) \in Numbered(model) /\ UpperBounds(request) \in Numbered(model)
    /\ lambda \in [DOMAIN evaluation.equalities -> Int]
    /\ mu \in [DOMAIN evaluation.inequalities -> Int]
    /\ \A i \in DOMAIN mu : mu[i] \in Nat \ {0}
KktInv ==
    /\ MatchInv
    /\ Working => evaluation = Evaluate(request, x) /\ Numeric
    /\ Answered => /\ result.primal_solution = x
                   /\ result.objective_value = evaluation.objective
    /\ Solved => Converged(evaluation, lambda, mu)

LEMMA ModelOfRequest == request \in Requests => IsModel(model) /\ IsCall(request)
BY RequestsAssumption DEF IsCall, model

\* The start: clamped between the bounds, which are lists of numbers once they
\* have been copied.
LEMMA BoundTypes ==
    ASSUME NEW q, IsCall(q), BoundsCopied(q)
    PROVE  LowerBounds(q) \in Numbered(q.model) /\ UpperBounds(q) \in Numbered(q.model)
<1> DEFINE n == Len(q.model.linear)
<1>1. n \in Nat /\ ColumnsOf(q.model) = 1 .. n BY RowsAreAList DEF IsCall
<1>2. /\ q.model.lower \in [1 .. n -> Int] /\ q.model.upper \in [1 .. n -> Int]
      /\ q.lower \in Seq(Int) /\ q.upper \in Seq(Int)
  BY DEF IsCall, IsModel
<1>3. \A f \in Seq(Int) : Len(f) = n => f \in [1 .. n -> Int] OBVIOUS
<1>4. /\ q.lower = <<>> \/ Len(q.lower) = n
      /\ q.upper = <<>> \/ Len(q.upper) = n
  BY DEF BoundsCopied, Sized
<1> HIDE DEF n
<1> QED BY <1>1, <1>2, <1>3, <1>4 DEF LowerBounds, UpperBounds, Numbered

LEMMA InsideType ==
    \A a, lower, upper \in Int : Middle(lower, upper) \in Int /\ MovedInside(a, lower, upper) \in Int
<1> TAKE a, lower, upper \in Int
<1>1. Middle(lower, upper) \in Int BY GridAssumption DEF Middle
<1>2. \A w \in Int : Margin(w) \in Int
  BY InteriorAssumption DEF Margin, Smaller, Larger
<1>3. \A b, lo, hi \in Int : Clamp(b, lo, hi) \in Int /\ Larger(b, lo) \in Int /\ Smaller(b, hi) \in Int
  BY DEF Clamp, Larger, Smaller
<1>4. lower + Margin(upper - lower) \in Int /\ upper - Margin(upper - lower) \in Int
  <2>1. upper - lower \in Int OBVIOUS
  <2>2. Margin(upper - lower) \in Int BY <1>2, <2>1
  <2> QED BY <2>2
<1>5. lower + SideMargin \in Int /\ upper - SideMargin \in Int BY InteriorAssumption
<1> QED BY <1>1, <1>3, <1>4, <1>5 DEF MovedInside

LEMMA StartType ==
    ASSUME NEW q, IsCall(q), BoundsCopied(q), Sized(q, q.warm_start)
    PROVE  StartingPoint(q) \in Numbered(q.model)
<1> DEFINE m == q.model
<1>1. LowerBounds(q) \in Numbered(m) /\ UpperBounds(q) \in Numbered(m) BY BoundTypes
<1>2. ColumnsOf(m) = 1 .. Len(m.linear) BY RowsAreAList DEF IsCall
<1>3. q.warm_start \in Seq(Int) /\ (q.warm_start = <<>> \/ Len(q.warm_start) = Len(m.linear))
  BY DEF IsCall, Sized
<1>4. ASSUME NEW v \in ColumnsOf(m)
      PROVE  MovedInside(IF q.warm_start = <<>> THEN Middle(LowerBounds(q)[v], UpperBounds(q)[v])
                                               ELSE q.warm_start[v],
                         LowerBounds(q)[v], UpperBounds(q)[v]) \in Int
  <2> DEFINE a == IF q.warm_start = <<>> THEN Middle(LowerBounds(q)[v], UpperBounds(q)[v])
                                        ELSE q.warm_start[v]
  <2>1. LowerBounds(q)[v] \in Int /\ UpperBounds(q)[v] \in Int BY <1>1 DEF Numbered
  <2>2. q.warm_start # <<>> => q.warm_start[v] \in Int BY <1>2, <1>3
  <2>3. Middle(LowerBounds(q)[v], UpperBounds(q)[v]) \in Int BY <2>1, InsideType
  <2>4. a \in Int BY <2>2, <2>3
  <2> HIDE DEF a
  <2>5. MovedInside(a, LowerBounds(q)[v], UpperBounds(q)[v]) \in Int BY <2>1, <2>4, InsideType
  <2> QED BY <2>5 DEF a
<1> HIDE DEF m
<1>5. StartingPoint(q)
        = [v \in ColumnsOf(m) |->
              MovedInside(IF q.warm_start = <<>> THEN Middle(LowerBounds(q)[v], UpperBounds(q)[v])
                                                ELSE q.warm_start[v],
                          LowerBounds(q)[v], UpperBounds(q)[v])]
  BY DEF StartingPoint, m
<1> QED BY <1>4, <1>5 DEF Numbered, m

LEMMA StartNumeric ==
    ASSUME KktInv, Start
    PROVE  Numeric' /\ evaluation' = Evaluate(request, x)'
<1> DEFINE q == request
           e == Evaluate(q, StartingPoint(q))
<1>1. /\ x' = StartingPoint(q) /\ evaluation' = e /\ request' = request
      /\ lambda' = [i \in DOMAIN e.equalities |-> 0]
      /\ mu' = [i \in DOMAIN e.inequalities |-> Unit]
      /\ Refusal(q) = "NotSolved" /\ Nonlinear(model, StartingPoint(q)).finite
  BY DEF Start
<1>2. BoundsCopied(q) /\ Sized(q, q.warm_start) BY <1>1 DEF Refusal
<1>3. IsCall(q) BY ModelOfRequest DEF KktInv, MatchInv
<1>4. /\ LowerBounds(q) \in Numbered(q.model) /\ UpperBounds(q) \in Numbered(q.model)
      /\ StartingPoint(q) \in Numbered(q.model)
  BY <1>2, <1>3, BoundTypes, StartType
<1>5. Unit \in Nat \ {0} /\ Unit \in Int BY GridAssumption
<1> HIDE DEF e
<1>6. Numeric' BY <1>1, <1>4, <1>5 DEF Numeric, model
<1> QED BY <1>1, <1>6 DEF e

-----------------------------------------------------------------------------
(* A step: the KKT system, the direction and the step length are numbers.  *)
AtNumbers ==
    /\ request \in Requests /\ evaluation = Evaluate(request, x) /\ Numeric
    /\ Interior(evaluation)

LEMMA ListTypes ==
    ASSUME OracleAnswersNumbers, AtNumbers
    PROVE  /\ IsModel(model)
           /\ evaluation.gradient \in Numbered(model)
           /\ evaluation.equalities \in Seq(Entry(model))
           /\ evaluation.inequalities \in Seq(Entry(model))
           /\ Values \in [RowsOf(model) -> Int] /\ Slopes \in [RowsOf(model) -> Numbered(model)]
           /\ Curved(model, model.quadratic, x) \in Numbered(model)
           /\ model.linear \in Numbered(model)
           /\ Nonlinear(model, x).gradient \in Numbered(model)
<1> DEFINE n == Nonlinear(model, x)
<1>1. IsModel(model) BY ModelOfRequest DEF AtNumbers
<1>2. /\ x \in Numbered(model) /\ n.finite
      /\ LowerBounds(request) \in Numbered(model) /\ UpperBounds(request) \in Numbered(model)
      /\ evaluation = Evaluate(request, x)
  BY DEF AtNumbers, Numeric
<1>3. /\ n.gradient \in Numbered(model) /\ n.values \in [RowsOf(model) -> Int]
      /\ n.jacobian \in [RowsOf(model) -> Numbered(model)]
  BY <1>2 DEF OracleAnswersNumbers, AtNumbers, model
<1>4. /\ evaluation.gradient \in Numbered(model)
      /\ evaluation.equalities \in Seq(Entry(model))
      /\ evaluation.inequalities \in Seq(Entry(model))
  <2>1. IsModel(request.model) /\ n = Nonlinear(request.model, x) BY <1>1 DEF model
  <2> HIDE DEF n
  <2> QED BY <1>2, <1>3, <2>1, EvaluationTypes DEF model
<1>5. /\ Values \in [RowsOf(model) -> Int] /\ Slopes \in [RowsOf(model) -> Numbered(model)]
      /\ Curved(model, model.quadratic, x) \in Numbered(model)
      /\ model.linear \in Numbered(model)
  <2> HIDE DEF n
  <2>1. /\ Constraints(model, x, n) \in [RowsOf(model) -> Int]
        /\ Jacobian(model, n) \in [RowsOf(model) -> Numbered(model)]
        /\ Curved(model, model.quadratic, x) \in Numbered(model)
        /\ model.linear \in Numbered(model)
    BY <1>1, <1>2, <1>3, ConstraintTypes
  <2> QED BY <2>1 DEF Values, Slopes, n
<1> QED BY <1>1, <1>3, <1>4, <1>5

LEMMA EntryTypes ==
    ASSUME OracleAnswersNumbers, AtNumbers
    PROVE  /\ DOMAIN mu = 1 .. Len(evaluation.inequalities)
           /\ DOMAIN lambda = 1 .. Len(evaluation.equalities)
           /\ Len(evaluation.inequalities) \in Nat /\ Len(evaluation.equalities) \in Nat
           /\ IsFiniteSet(DOMAIN mu) /\ IsFiniteSet(DOMAIN lambda)
           /\ Len(mu) = Len(evaluation.inequalities) /\ Len(lambda) = Len(evaluation.equalities)
           /\ \A i \in DOMAIN mu : /\ SideGradient(i) \in Numbered(model)
                                   /\ evaluation.inequalities[i].value \in Int
                                   /\ Slack(i) \in Nat \ {0} /\ mu[i] \in Nat \ {0}
           /\ \A i \in DOMAIN lambda : /\ evaluation.equalities[i].gradient \in Numbered(model)
                                       /\ evaluation.equalities[i].value \in Int
                                       /\ lambda[i] \in Int
<1> DEFINE f == evaluation.equalities
           g == evaluation.inequalities
           T == Entry(model)
<1>1. f \in Seq(T) /\ g \in Seq(T) BY ListTypes
<1>2. \A e \in T : e.gradient \in Numbered(model) /\ e.value \in Int BY DEF Entry
<1>3. /\ lambda \in [DOMAIN f -> Int] /\ mu \in [DOMAIN g -> Int]
      /\ \A i \in DOMAIN mu : mu[i] \in Nat \ {0}
      /\ \A i \in DOMAIN g : g[i].value < 0
  BY DEF AtNumbers, Numeric, Interior
<1> HIDE DEF f, g, T
<1>4. /\ DOMAIN f = 1 .. Len(f) /\ Len(f) \in Nat /\ DOMAIN g = 1 .. Len(g) /\ Len(g) \in Nat
      /\ \A i \in DOMAIN f : f[i] \in T
      /\ \A i \in DOMAIN g : g[i] \in T
  BY <1>1
<1>5. Len(mu) = Len(g) /\ Len(lambda) = Len(f) BY <1>3, <1>4, ListIsSequence
<1>6. IsFiniteSet(1 .. Len(f)) /\ IsFiniteSet(1 .. Len(g)) BY <1>4, IntervalsAreFinite
<1>7. \A i \in DOMAIN mu : g[i].gradient \in Numbered(model) /\ g[i].value \in Int /\ g[i].value < 0
  BY <1>2, <1>3, <1>4
<1>8. \A i \in DOMAIN mu : /\ SideGradient(i) \in Numbered(model)
                           /\ Slack(i) \in Nat \ {0}
  BY <1>7 DEF SideGradient, Slack, g
<1>9. \A i \in DOMAIN lambda : f[i].gradient \in Numbered(model) /\ f[i].value \in Int
  BY <1>2, <1>3, <1>4
<1> QED BY <1>3, <1>4, <1>5, <1>6, <1>7, <1>8, <1>9 DEF f, g

\* The weight of a multiplier list, as it enters the dual residual.
LEMMA ResidualType ==
    ASSUME OracleAnswersNumbers, AtNumbers
    PROVE  /\ \A v \in ColumnsOf(model) :
                 /\ Weighted(evaluation.equalities, lambda, v) \in Int
                 /\ Weighted(evaluation.inequalities, mu, v) \in Int
                 /\ DualResidual(evaluation, lambda, mu)[v]
                      = evaluation.gradient[v] + Weighted(evaluation.equalities, lambda, v)
                          + Weighted(evaluation.inequalities, mu, v)
           /\ DualResidual(evaluation, lambda, mu) \in Numbered(model)
<1>1. /\ DOMAIN mu = DOMAIN evaluation.inequalities
      /\ DOMAIN lambda = DOMAIN evaluation.equalities
  BY DEF AtNumbers, Numeric
<1>2. /\ IsFiniteSet(DOMAIN mu) /\ IsFiniteSet(DOMAIN lambda)
      /\ \A i \in DOMAIN mu : /\ evaluation.inequalities[i].gradient \in Numbered(model)
                              /\ mu[i] \in Int
      /\ \A i \in DOMAIN lambda : /\ evaluation.equalities[i].gradient \in Numbered(model)
                                  /\ lambda[i] \in Int
  BY EntryTypes DEF SideGradient
<1>3. ASSUME NEW list, NEW w, IsFiniteSet(DOMAIN list), NEW v \in ColumnsOf(model),
             \A i \in DOMAIN list : list[i].gradient \in Numbered(model) /\ w[i] \in Int
      PROVE  Weighted(list, w, v) \in Int
  <2> DEFINE f == [i \in DOMAIN list |-> Product(w[i], list[i].gradient[v])]
  <2>1. \A i \in DOMAIN list : Product(w[i], list[i].gradient[v]) \in Int
    <3> TAKE i \in DOMAIN list
    <3>1. list[i].gradient[v] \in Int /\ w[i] \in Int BY <1>3 DEF Numbered
    <3> QED BY <3>1, ProductType
  <2>2. DOMAIN f = DOMAIN list /\ \A i \in DOMAIN list : f[i] \in Int BY <2>1
  <2>3. Weighted(list, w, v) = Total(f) BY DEF Weighted
  <2> HIDE DEF f
  <2> QED BY <1>3, <2>2, <2>3, TotalOf
<1>4. \A v \in ColumnsOf(model) : /\ Weighted(evaluation.equalities, lambda, v) \in Int
                                  /\ Weighted(evaluation.inequalities, mu, v) \in Int
  BY <1>1, <1>2, <1>3
<1>5. evaluation.gradient \in [ColumnsOf(model) -> Int] BY ListTypes DEF Numbered
<1> QED BY <1>4, <1>5 DEF DualResidual, Numbered

LEMMA ExcessType ==
    ASSUME OracleAnswersNumbers, AtNumbers
    PROVE  \A i \in DOMAIN mu : Excess(i) \in Int
<1>1. /\ IsFiniteSet(DOMAIN mu)
      /\ \A i \in DOMAIN mu : Slack(i) \in Int /\ mu[i] \in Int
      /\ DOMAIN mu = 1 .. Len(mu) /\ Len(mu) \in Nat
  BY EntryTypes
<1>2. /\ DOMAIN Complementarities = DOMAIN mu
      /\ \A i \in DOMAIN mu : Complementarities[i] \in Int
  BY <1>1, ProductType DEF Complementarities
<1>3. Total(Complementarities) \in Int BY <1>1, <1>2, TotalOf
<1>4. ASSUME NEW i \in DOMAIN mu PROVE Target \in Int
  <2>1. Len(mu) \in Nat \ {0} BY <1>1
  <2>2. mu # <<>>
    <3>1. Len(<<>>) = 0 OBVIOUS
    <3> QED BY <2>1, <3>1
  <2>3. Total(Complementarities) \div Len(mu) \in Int BY <1>3, <2>1
  <2>4. (Total(Complementarities) \div Len(mu)) \div 10 \in Int BY <2>3
  <2> QED BY <2>2, <2>4 DEF Target
<1>5. \A i \in DOMAIN mu : Target \in Int BY <1>4
<1> HIDE DEF Complementarities, Target
<1> QED BY <1>2, <1>5 DEF Excess

LEMMA SystemTypes ==
    ASSUME OracleAnswersNumbers, AtNumbers, OracleHessian.finite
    PROVE  LET n == Len(x) + Len(lambda) IN
           /\ Len(x) = Len(model.linear) /\ Len(x) \in Nat /\ Len(lambda) \in Nat
           /\ KktMatrix \in [(1 .. n) \X (1 .. n) -> Int]
           /\ RightHandSide \in [1 .. n -> Int]
<1> DEFINE a == Len(x)
           l == Len(lambda)
           C == ColumnsOf(model)
<1>1. /\ IsModel(model) /\ Len(model.linear) \in Nat /\ C = 1 .. Len(model.linear)
  BY ListTypes, RowsAreAList
<1>2. x \in [C -> Int] BY DEF AtNumbers, Numeric, Numbered
<1>3. a = Len(model.linear) /\ C = 1 .. a /\ a \in Nat
  <2>1. Len(x) = Len(model.linear) BY <1>1, <1>2, ListIsSequence
  <2> QED BY <1>1, <2>1
<1>4. /\ l \in Nat /\ DOMAIN lambda = 1 .. l
      /\ IsFiniteSet(DOMAIN mu)
      /\ \A i \in DOMAIN mu : /\ SideGradient(i) \in [C -> Int]
                              /\ Slack(i) \in Nat \ {0} /\ mu[i] \in Int
      /\ \A i \in 1 .. l : /\ evaluation.equalities[i].gradient \in [C -> Int]
                           /\ evaluation.equalities[i].value \in Int
  BY EntryTypes DEF Numbered
<1>5. \A i \in DOMAIN mu : Excess(i) \in Int BY ExcessType
<1>6. DualResidual(evaluation, lambda, mu) \in [C -> Int] BY ResidualType DEF Numbered
<1>7. model.quadratic \in [C \X C -> Int] BY <1>1 DEF IsModel
<1>8. OracleHessian.values \in [C \X C -> Int]
  <2>1. /\ lambda \in [DOMAIN evaluation.equalities -> Int]
        /\ mu \in [DOMAIN evaluation.inequalities -> Int]
        /\ evaluation = Evaluate(request, x)
    BY DEF AtNumbers, Numeric
  <2>2. \A r \in RowsOf(model) : RowMultiplier(r) \in Int BY <1>1, <2>1, DualTypes
  <2>3. \A r \in RowsOf(model) :
           MultiplierOf(model.rows[r], Passed(model, r), lambda, mu) = RowMultiplier(r)
    BY <1>1, MultiplierIsRows
  <2>4. NonlinearMultipliers(model, lambda, mu) \in [RowsOf(model) -> Int]
    BY <2>2, <2>3 DEF NonlinearMultipliers
  <2>5. x \in Numbered(model) BY DEF AtNumbers, Numeric
  <2> QED BY <2>4, <2>5 DEF OracleAnswersNumbers, AtNumbers, OracleHessian, model
<1>9. ASSUME NEW v \in C, NEW w \in C PROVE BarrierHessian(v, w) \in Int
  <2> DEFINE f == [i \in DOMAIN mu |->
                      Product(Product(Quotient(mu[i], Slack(i)), SideGradient(i)[v]), SideGradient(i)[w])]
  <2>1. ASSUME NEW i \in DOMAIN mu PROVE f[i] \in Int
    <3>1. SideGradient(i)[v] \in Int /\ SideGradient(i)[w] \in Int BY <1>4
    <3>2. Quotient(mu[i], Slack(i)) \in Int BY <1>4, QuotientType
    <3>3. Product(Quotient(mu[i], Slack(i)), SideGradient(i)[v]) \in Int BY <3>1, <3>2, ProductType
    <3> QED BY <3>1, <3>3, ProductType
  <2>2. DOMAIN f = DOMAIN mu /\ BarrierHessian(v, w) = Total(f) BY DEF BarrierHessian
  <2> HIDE DEF f
  <2> QED BY <1>4, <2>1, <2>2, TotalOf
<1>10. ASSUME NEW v \in C
       PROVE  Total([i \in DOMAIN mu |-> Quotient(Product(SideGradient(i)[v], Excess(i)), Slack(i))])
                \in Int
  <2> DEFINE f == [i \in DOMAIN mu |-> Quotient(Product(SideGradient(i)[v], Excess(i)), Slack(i))]
  <2>1. ASSUME NEW i \in DOMAIN mu PROVE f[i] \in Int
    <3>1. SideGradient(i)[v] \in Int /\ Excess(i) \in Int BY <1>4, <1>5
    <3>2. Product(SideGradient(i)[v], Excess(i)) \in Int BY <3>1, ProductType
    <3> QED BY <1>4, <3>2, QuotientType
  <2>2. DOMAIN f = DOMAIN mu OBVIOUS
  <2> HIDE DEF f
  <2>3. Total(f) \in Int BY <1>4, <2>1, <2>2, TotalOf
  <2> QED BY <2>3 DEF f
<1> HIDE DEF a, l, C
<1>11. \A k \in 1 .. a + l : (k <= a => k \in C) /\ (~(k <= a) => k - a \in 1 .. l) /\ (k > a <=> ~(k <= a))
  BY <1>3, <1>4
<1>12. RightHandSide \in [1 .. a + l -> Int]
  <2> DEFINE b(k) == IF k > a THEN -evaluation.equalities[k - a].value
                     ELSE Total([i \in DOMAIN mu |->
                              Quotient(Product(SideGradient(i)[k], Excess(i)), Slack(i))])
                            - DualResidual(evaluation, lambda, mu)[k]
  <2>1. RightHandSide = [k \in 1 .. a + l |-> b(k)] BY DEF RightHandSide, a, l
  <2>2. ASSUME NEW k \in 1 .. a + l PROVE b(k) \in Int
    <3>1. CASE k > a
      <4>1. evaluation.equalities[k - a].value \in Int BY <1>4, <1>11, <3>1
      <4> QED BY <3>1, <4>1
    <3>2. CASE ~(k > a)
      <4>1. k \in C BY <1>11, <3>2
      <4>2. DualResidual(evaluation, lambda, mu)[k] \in Int BY <1>6, <4>1
      <4>3. Total([i \in DOMAIN mu |-> Quotient(Product(SideGradient(i)[k], Excess(i)), Slack(i))])
              \in Int
        BY <1>10, <4>1
      <4> QED BY <3>2, <4>2, <4>3
    <3> QED BY <3>1, <3>2
  <2> HIDE DEF b
  <2> QED BY <2>1, <2>2
<1>13. KktMatrix \in [(1 .. a + l) \X (1 .. a + l) -> Int]
  <2> DEFINE b(k) == IF k[1] <= a /\ k[2] <= a
                     THEN model.quadratic[k] + OracleHessian.values[k] + BarrierHessian(k[1], k[2])
                     ELSE IF k[1] <= a THEN evaluation.equalities[k[2] - a].gradient[k[1]]
                     ELSE IF k[2] <= a THEN evaluation.equalities[k[1] - a].gradient[k[2]]
                     ELSE 0
  <2>1. KktMatrix = [k \in (1 .. a + l) \X (1 .. a + l) |-> b(k)] BY DEF KktMatrix, a, l
  <2>2. ASSUME NEW k \in (1 .. a + l) \X (1 .. a + l) PROVE b(k) \in Int
    <3>1. k[1] \in 1 .. a + l /\ k[2] \in 1 .. a + l /\ k = <<k[1], k[2]>> OBVIOUS
    <3>2. CASE k[1] <= a /\ k[2] <= a
      <4>1. k[1] \in C /\ k[2] \in C /\ k \in C \X C BY <1>11, <3>1, <3>2
      <4>2. model.quadratic[k] \in Int /\ OracleHessian.values[k] \in Int BY <1>7, <1>8, <4>1
      <4>3. BarrierHessian(k[1], k[2]) \in Int BY <1>9, <4>1
      <4> QED BY <3>2, <4>2, <4>3
    <3>3. CASE k[1] <= a /\ ~(k[2] <= a)
      <4>1. k[1] \in C /\ k[2] - a \in 1 .. l BY <1>11, <3>1, <3>3
      <4>2. evaluation.equalities[k[2] - a].gradient[k[1]] \in Int BY <1>4, <4>1
      <4> QED BY <3>3, <4>2
    <3>4. CASE ~(k[1] <= a) /\ k[2] <= a
      <4>1. k[2] \in C /\ k[1] - a \in 1 .. l BY <1>11, <3>1, <3>4
      <4>2. evaluation.equalities[k[1] - a].gradient[k[2]] \in Int BY <1>4, <4>1
      <4> QED BY <3>4, <4>2
    <3>5. CASE ~(k[1] <= a) /\ ~(k[2] <= a) BY <3>5
    <3> QED BY <3>2, <3>3, <3>4, <3>5
  <2> HIDE DEF b
  <2> QED BY <2>1, <2>2
<1> QED BY <1>3, <1>4, <1>12, <1>13 DEF a, l

\* The step length and the multipliers' direction.
LEMMA TimesType ==
    ASSUME NEW S, IsFiniteSet(S), NEW a \in [S -> Int], NEW b \in [S -> Int]
    PROVE  Times(a, b) \in Int
<1> DEFINE f == [i \in DOMAIN a |-> Product(a[i], b[i])]
<1>1. DOMAIN f = S /\ \A i \in S : f[i] \in Int
  <2>1. \A i \in S : a[i] \in Int /\ b[i] \in Int OBVIOUS
  <2> QED BY <2>1, ProductType
<1>2. Times(a, b) = Total(f) BY DEF Times
<1> HIDE DEF f
<1> QED BY <1>1, <1>2, TotalOf

LEMMA BoundaryType ==
    ASSUME NEW a \in Nat, NEW change \in Int
    PROVE  ToBoundary(a, change) \in Nat
<1>1. CASE change < 0
  <2>1. -change \in Nat \ {0} BY <1>1
  <2>2. Quotient(a, -change) \in Nat BY <2>1, QuotientType
  <2> QED BY <1>1, <2>2 DEF ToBoundary
<1>2. CASE ~(change < 0) BY <1>2, GridAssumption DEF ToBoundary
<1> QED BY <1>1, <1>2

LEMMA StepTypes ==
    ASSUME OracleAnswersNumbers, AtNumbers, NEW dx \in [1 .. Len(x) -> Int], NEW k \in Nat
    PROVE  /\ \A i \in DOMAIN mu : MuDirection(dx)[i] \in Int
           /\ FullStep(dx) \in Nat /\ Length(dx, k) \in Int
<1>1. /\ IsFiniteSet(DOMAIN mu)
      /\ \A i \in DOMAIN mu : /\ SideGradient(i) \in Numbered(model)
                              /\ Slack(i) \in Nat \ {0} /\ mu[i] \in Nat \ {0}
  BY EntryTypes
<1>2. Numbered(model) = [1 .. Len(x) -> Int] /\ IsFiniteSet(1 .. Len(x))
  <2>1. /\ Len(model.linear) \in Nat /\ ColumnsOf(model) = 1 .. Len(model.linear)
    BY ListTypes, RowsAreAList
  <2>2. x \in [1 .. Len(model.linear) -> Int] BY <2>1 DEF AtNumbers, Numeric, Numbered
  <2>3. Len(x) = Len(model.linear) BY <2>1, <2>2, ListIsSequence
  <2> QED BY <2>1, <2>3, IntervalsAreFinite DEF Numbered
<1>3. \A i \in DOMAIN mu : Excess(i) \in Int BY ExcessType
<1>4. ASSUME NEW i \in DOMAIN mu
      PROVE  Along(i, dx) \in Int /\ -Along(i, dx) \in Int /\ MuDirection(dx)[i] \in Int
  <2>1. Along(i, dx) \in Int BY <1>1, <1>2, TimesType DEF Along
  <2>2. Product(mu[i], Along(i, dx)) \in Int BY <1>1, <2>1, ProductType
  <2>3. Product(mu[i], Along(i, dx)) - Excess(i) \in Int BY <1>3, <2>2
  <2>4. Quotient(Product(mu[i], Along(i, dx)) - Excess(i), Slack(i)) \in Int
    BY <1>1, <2>3, QuotientType
  <2> QED BY <2>1, <2>4 DEF MuDirection
<1> DEFINE limits == {ToBoundary(Slack(i), -Along(i, dx)) : i \in DOMAIN mu}
                       \cup {ToBoundary(mu[i], MuDirection(dx)[i]) : i \in DOMAIN mu}
           S == limits \cup {Unit}
<1>5. S \in SUBSET Int /\ S # {} /\ \A s \in S : 0 <= s
  <2>1. \A i \in DOMAIN mu : /\ ToBoundary(Slack(i), -Along(i, dx)) \in Nat
                             /\ ToBoundary(mu[i], MuDirection(dx)[i]) \in Nat
    BY <1>1, <1>4, BoundaryType
  <2>2. Unit \in Nat BY GridAssumption
  <2> QED BY <2>1, <2>2
<1>6. FullStep(dx) = CHOOSE a \in S : \A b \in S : a <= b BY DEF FullStep
<1> HIDE DEF S, limits
<1>7. \E a \in S : \A b \in S : a <= b
  <2>1. \A T \in SUBSET Int : \A c \in Int :
           T # {} /\ (\A s \in T : c <= s) => \E a \in T : \A b \in T : a <= b
    BY Numbers!LeastExists
  <2>2. 0 \in Int OBVIOUS
  <2> QED BY <1>5, <2>1, <2>2
<1>8. FullStep(dx) \in S BY <1>6, <1>7
<1>9. FullStep(dx) \in Nat
  <2>1. \A s \in S : s \in Int /\ 0 <= s BY <1>5
  <2>2. \A s \in Int : 0 <= s => s \in Nat OBVIOUS
  <2> QED BY <1>8, <2>1, <2>2
<1>10. Length(dx, k) \in Int
  <2>1. 2 ^ k \in Nat \ {0} BY PowerType
  <2> QED BY <1>9, <2>1 DEF Length
<1> QED BY <1>4, <1>9, <1>10

LEMMA PartsOfList ==
    ASSUME NEW a \in Nat, NEW l \in Nat, NEW s \in Seq(Int), Len(s) = a + l
    PROVE  /\ SubSeq(s, 1, a) \in [1 .. a -> Int]
           /\ \A i \in 1 .. l : SubSeq(s, a + 1, a + l)[i] \in Int
<1>1. DOMAIN s = 1 .. a + l /\ \A i \in 1 .. a + l : s[i] \in Int OBVIOUS
<1>2. \A i \in 1 .. a : i \in 1 .. a + l OBVIOUS
<1>3. SubSeq(s, 1, a) = [i \in 1 .. a |-> s[i]]
  <2>1. SubSeq(s, 1, a) \in Seq(Int) /\ Len(SubSeq(s, 1, a)) = a OBVIOUS
  <2>2. \A i \in 1 .. a : SubSeq(s, 1, a)[i] = s[i] OBVIOUS
  <2> QED BY <2>1, <2>2
<1>4. \A i \in 1 .. l : SubSeq(s, a + 1, a + l)[i] = s[a + i] OBVIOUS
<1>5. \A i \in 1 .. l : a + i \in 1 .. a + l OBVIOUS
<1> QED BY <1>1, <1>2, <1>3, <1>4, <1>5

\* A converged answer of the backend is a direction of numbers.
LEMMA DirectionTypes ==
    ASSUME OracleAnswersNumbers, BackendAnswersDirections, AtNumbers, OracleHessian.finite,
           NEW direction \in Directions
    PROVE  /\ Primal(direction) \in [1 .. Len(x) -> Int]
           /\ \A i \in 1 .. Len(lambda) :
                 SubSeq(direction, Len(x) + 1, Len(direction))[i] \in Int
<1> DEFINE a == Len(x)
           l == Len(lambda)
           n == a + l
<1>1. /\ a \in Nat /\ l \in Nat
      /\ KktMatrix \in [(1 .. n) \X (1 .. n) -> Int] /\ RightHandSide \in [1 .. n -> Int]
  BY SystemTypes
<1>2. PICK answer \in Answers : answer.converged /\ direction = answer.direction
  BY DEF Directions
<1> HIDE DEF a, l
<1>3. n \in Nat BY <1>1
<1>4. direction \in [1 .. n -> Int]
  <2> HIDE DEF n
  <2> QED BY <1>1, <1>2, <1>3 DEF BackendAnswersDirections, AtNumbers, Answers
<1>5. direction \in Seq(Int) /\ Len(direction) = n
  <2> HIDE DEF n
  <2> QED BY <1>3, <1>4, ListIsSequence
<1>6. /\ SubSeq(direction, 1, a) \in [1 .. a -> Int]
      /\ \A i \in 1 .. l : SubSeq(direction, a + 1, a + l)[i] \in Int
  BY <1>1, <1>5, PartsOfList
<1> QED BY <1>5, <1>6 DEF Primal, a, l

LEMMA StepNumeric ==
    ASSUME OracleAnswersNumbers, BackendAnswersDirections, AtNumbers, Step
    PROVE  Numeric' /\ evaluation' = Evaluate(request, x)'
<1>1. PICK direction \in Directions : \E k \in 0 .. Attempts - 1 :
          LET dx == Primal(direction)
              dlambda == SubSeq(direction, Len(x) + 1, Len(direction))
              alpha == Length(dx, k)
          IN  /\ Acceptable(alpha, dx)
              /\ x' = Moved(x, alpha, dx)
              /\ evaluation' = Evaluate(request, x')
              /\ lambda' = Moved(lambda, alpha, dlambda)
              /\ mu' = MovedMu(alpha, dx)
  BY DEF Step
<1> DEFINE dx == Primal(direction)
           dlambda == SubSeq(direction, Len(x) + 1, Len(direction))
<1>2. PICK k \in 0 .. Attempts - 1 :
          /\ Acceptable(Length(dx, k), dx)
          /\ x' = Moved(x, Length(dx, k), dx)
          /\ evaluation' = Evaluate(request, x')
          /\ lambda' = Moved(lambda, Length(dx, k), dlambda)
          /\ mu' = MovedMu(Length(dx, k), dx)
  BY <1>1
<1> DEFINE alpha == Length(dx, k)
<1>3. request' = request /\ OracleHessian.finite BY DEF Step
<1>4. dx \in [1 .. Len(x) -> Int] /\ \A i \in 1 .. Len(lambda) : dlambda[i] \in Int
  BY <1>3, DirectionTypes
<1>5. k \in Nat BY InteriorAssumption
<1>6. alpha \in Int /\ \A i \in DOMAIN mu : MuDirection(dx)[i] \in Int
  <2> HIDE DEF dx
  <2> QED BY <1>4, <1>5, StepTypes
<1> HIDE DEF dx, dlambda, alpha
<1>7. /\ ColumnsOf(model) = 1 .. Len(x) /\ x \in [1 .. Len(x) -> Int]
  <2>1. /\ Len(model.linear) \in Nat /\ ColumnsOf(model) = 1 .. Len(model.linear)
    BY ListTypes, RowsAreAList
  <2>2. x \in [1 .. Len(model.linear) -> Int] BY <2>1 DEF AtNumbers, Numeric, Numbered
  <2>3. Len(x) = Len(model.linear) BY <2>1, <2>2, ListIsSequence
  <2> QED BY <2>1, <2>2, <2>3
<1>8. x' \in [1 .. Len(x) -> Int]
  <2>1. \A i \in 1 .. Len(x) : x[i] + Product(alpha, dx[i]) \in Int
    <3> TAKE i \in 1 .. Len(x)
    <3>1. x[i] \in Int /\ dx[i] \in Int BY <1>4, <1>7
    <3>2. Product(alpha, dx[i]) \in Int BY <1>6, <3>1, ProductType
    <3> QED BY <3>1, <3>2
  <2>2. x' = [i \in 1 .. Len(x) |-> x[i] + Product(alpha, dx[i])]
    BY <1>2, <1>7 DEF Moved, alpha
  <2> QED BY <2>1, <2>2
<1>9. x' \in Numbered(model) BY <1>7, <1>8 DEF Numbered
<1>10. Nonlinear(model, x').finite BY <1>2 DEF Acceptable, alpha
<1>11. /\ DOMAIN evaluation'.equalities = DOMAIN lambda
       /\ DOMAIN evaluation'.inequalities = DOMAIN mu
  <2>1. IsModel(request.model) BY ListTypes DEF model
  <2>2. evaluation = Evaluate(request, x) BY DEF AtNumbers
  <2>3. DOMAIN lambda = DOMAIN evaluation.equalities /\ DOMAIN mu = DOMAIN evaluation.inequalities
    BY DEF AtNumbers, Numeric
  <2> QED BY <1>2, <2>1, <2>2, <2>3, SameLengths
<1>12. lambda' \in [DOMAIN evaluation'.equalities -> Int]
  <2>1. DOMAIN lambda = 1 .. Len(lambda) /\ \A i \in DOMAIN lambda : lambda[i] \in Int
    BY EntryTypes
  <2>2. \A i \in DOMAIN lambda : lambda[i] + Product(alpha, dlambda[i]) \in Int
    <3> TAKE i \in DOMAIN lambda
    <3>1. lambda[i] \in Int /\ dlambda[i] \in Int BY <1>4, <2>1
    <3>2. Product(alpha, dlambda[i]) \in Int BY <1>6, <3>1, ProductType
    <3> QED BY <3>1, <3>2
  <2>3. lambda' = [i \in DOMAIN lambda |-> lambda[i] + Product(alpha, dlambda[i])]
    BY <1>2 DEF Moved, alpha
  <2> QED BY <1>11, <2>2, <2>3
<1>13. /\ mu' \in [DOMAIN evaluation'.inequalities -> Int]
       /\ \A i \in DOMAIN mu' : mu'[i] \in Nat \ {0}
  <2>1. \A i \in DOMAIN mu : mu[i] \in Int BY EntryTypes
  <2>2. ASSUME NEW i \in DOMAIN mu
        PROVE  Larger(MuFloor, mu[i] + Product(alpha, MuDirection(dx)[i])) \in Nat \ {0}
    <3>1. Product(alpha, MuDirection(dx)[i]) \in Int BY <1>6, ProductType
    <3>2. mu[i] + Product(alpha, MuDirection(dx)[i]) \in Int BY <2>1, <3>1
    <3>3. MuFloor \in Nat \ {0} BY InteriorAssumption, GridAssumption
    <3> QED BY <3>2, <3>3 DEF Larger
  <2>3. mu' = [i \in DOMAIN mu |-> Larger(MuFloor, mu[i] + Product(alpha, MuDirection(dx)[i]))]
    BY <1>2 DEF MovedMu, alpha
  <2> QED BY <1>11, <2>2, <2>3
<1>14. LowerBounds(request) \in Numbered(model) /\ UpperBounds(request) \in Numbered(model)
  BY DEF AtNumbers, Numeric
<1>15. Numeric' BY <1>3, <1>9, <1>10, <1>12, <1>13, <1>14 DEF Numeric, model
<1> QED BY <1>2, <1>3, <1>15

\* The answer is the last iterate, and what is solved had converged there.
LEMMA KktStep ==
    ASSUME OracleAnswersNumbers, BackendAnswersDirections, KktInv, [Next]_vars
    PROVE  KktInv'
<1>1. MatchInv' BY MatchStep DEF KktInv
<1>2. CASE Start
  <2>1. Numeric' /\ evaluation' = Evaluate(request, x)' BY <1>2, StartNumeric
  <2>2. pc' = "loop" /\ result' = NoResult BY <1>2 DEF Start, KktInv, MatchInv, IInv
  <2> QED BY <1>1, <2>1, <2>2 DEF KktInv, Answered, Solved
<1>3. CASE Step
  <2>1. pc = "loop" /\ result' = result /\ pc' # "returned"
    BY <1>3 DEF Step, AtStep
  <2>2. AtNumbers
    BY <2>1 DEF AtNumbers, KktInv, MatchInv, IInv, StaysInterior, Working, Running
  <2>3. Numeric' /\ evaluation' = Evaluate(request, x)' BY <1>3, <2>2, StepNumeric
  <2> QED BY <1>1, <2>1, <2>3 DEF KktInv, Answered, Solved
<1>4. CASE Report
  <2>1. /\ pc = "report" /\ result' = Answer /\ UNCHANGED <<request, iterates>>
        /\ status' = "LocallyOptimal" => status = "LocallyOptimal"
    BY <1>4 DEF Report
  <2>2. UNCHANGED <<request, x, evaluation, lambda, mu>> BY <2>1 DEF iterates
  <2>3. evaluation = Evaluate(request, x) /\ Numeric BY <2>1 DEF KktInv, Working
  <2>4. evaluation' = Evaluate(request, x)' /\ Numeric' BY <2>2, <2>3 DEF Numeric, model
  <2>5. result'.primal_solution = x' /\ result'.objective_value = evaluation'.objective
    BY <2>1, <2>2 DEF Answer
  <2>6. status = "LocallyOptimal" => Converged(evaluation, lambda, mu)
    BY <2>1 DEF KktInv, MatchInv, IInv, Running
  <2> QED BY <1>1, <2>1, <2>2, <2>4, <2>5, <2>6 DEF KktInv, Solved
<1>5. CASE ~(Start \/ Step \/ Report)
  <2>1. /\ UNCHANGED <<request, x, evaluation, lambda, mu, result>>
        /\ pc' \in {"loop", "report"} => pc \in {"loop", "report"}
        /\ pc = "returned" => pc' = pc /\ status' = status
        /\ pc' = "returned" => pc \in {"call", "returned"}
    BY <1>5 DEF Next, vars, iterates, Refuse, StartUndefined, StartOutside, OutOfIterations,
           TimedOut, ConvergedAtHead, HessianUndefined, LinearSolveFails, LineSearchFails,
           AtStep, Report, Returned, Fail
  <2>2. pc # "returned" => result = NoResult BY DEF KktInv, MatchInv, IInv
  <2>3. Working' => Working BY <2>1, <2>2 DEF Working, Answered
  <2>4. Answered' => Answered BY <2>1, <2>2 DEF Answered
  <2>5. Solved' => result' # NoResult BY <1>1 DEF MatchInv, IInv
  <2>6. Solved' => Solved
    BY <2>1, <2>2, <2>5 DEF Solved
  <2>7. Numeric /\ evaluation = Evaluate(request, x)
          => Numeric' /\ evaluation' = Evaluate(request, x)'
    BY <2>1 DEF Numeric, model
  <2> QED BY <1>1, <2>1, <2>3, <2>4, <2>6, <2>7 DEF KktInv
<1> QED BY <1>2, <1>3, <1>4, <1>5

LEMMA KktHolds ==
    ASSUME OracleAnswersNumbers, BackendAnswersDirections
    PROVE  Spec => []KktInv
<1>1. Init => MatchInv
  BY DEF Init, MatchInv, Matched, IInv, StaysInterior, Running, Answered, Solved
<1>2. Init => KktInv
  BY <1>1 DEF Init, KktInv, Working, Answered, Solved
<1>3. KktInv /\ [Next]_vars => KktInv' BY KktStep
<1> QED BY <1>2, <1>3, PTL DEF Spec

-----------------------------------------------------------------------------
(* What convergence says of the entries, and so of rows and bounds.        *)
LEMMA ResidualsSmall ==
    ASSUME OracleAnswersNumbers, AtNumbers, Converged(evaluation, lambda, mu)
    PROVE  /\ \A i \in DOMAIN evaluation.equalities :
                 Magnitude(evaluation.equalities[i].value) <= PrimalTol
           /\ \A i \in DOMAIN evaluation.inequalities :
                 /\ evaluation.inequalities[i].value <= PrimalTol
                 /\ Magnitude(Product(evaluation.inequalities[i].value, mu[i])) <= PrimalTol
           /\ \A v \in ColumnsOf(model) :
                 Magnitude(DualResidual(evaluation, lambda, mu)[v]) <= DualTol
<1> DEFINE e == evaluation
           E == DOMAIN e.equalities
           I == DOMAIN e.inequalities
           f == [i \in E |-> e.equalities[i].value]
           g == [i \in I |-> e.inequalities[i].value]
           h == [i \in I |-> Product(e.inequalities[i].value, mu[i])]
           d == DualResidual(e, lambda, mu)
<1>1. DOMAIN lambda = E /\ DOMAIN mu = I BY DEF AtNumbers, Numeric
<1>2. /\ IsFiniteSet(I) /\ IsFiniteSet(E)
      /\ \A i \in I : e.inequalities[i].value \in Int /\ mu[i] \in Int
      /\ \A i \in E : e.equalities[i].value \in Int
  BY <1>1, EntryTypes
<1>3. f \in [E -> Int] /\ g \in [I -> Int] BY <1>2
<1>4. h \in [I -> Int] BY <1>2, ProductType
<1>5. d \in [ColumnsOf(model) -> Int] BY ResidualType DEF Numbered
<1>6. IsFiniteSet(ColumnsOf(model))
  BY ListTypes, RowsAreAList, IntervalsAreFinite
<1>7. /\ Larger(NormInf(f), Largest(g)) <= PrimalTol
      /\ NormInf(d) <= DualTol /\ NormInf(h) <= PrimalTol
  BY DEF Converged, Infeasibility, ComplementarityResidual
<1>8. /\ \A i \in E : f[i] = e.equalities[i].value
      /\ \A i \in I : g[i] = e.inequalities[i].value
                      /\ h[i] = Product(e.inequalities[i].value, mu[i])
  OBVIOUS
<1>9. DOMAIN g = I BY <1>3
<1> HIDE DEF e, E, I, f, g, h, d
<1>10. NormInf(f) \in Nat /\ \A i \in E : Magnitude(f[i]) \in Nat /\ Magnitude(f[i]) <= NormInf(f)
  BY <1>2, <1>3, NormInfType, MagnitudeType
<1>11. NormInf(h) \in Nat /\ \A i \in I : Magnitude(h[i]) \in Nat /\ Magnitude(h[i]) <= NormInf(h)
  BY <1>2, <1>4, NormInfType, MagnitudeType
<1>12. /\ NormInf(d) \in Nat
       /\ \A v \in ColumnsOf(model) : Magnitude(d[v]) \in Nat /\ Magnitude(d[v]) <= NormInf(d)
  BY <1>5, <1>6, NormInfType, MagnitudeType
<1>13. Largest(g) \in Nat /\ \A i \in I : g[i] \in Int /\ g[i] <= Largest(g)
  BY <1>2, <1>3, <1>9, LargestFacts
<1>14. NormInf(f) <= PrimalTol /\ Largest(g) <= PrimalTol
  BY <1>7, <1>10, <1>13, InteriorAssumption DEF Larger
<1>15. PrimalTol \in Nat /\ DualTol \in Nat BY InteriorAssumption
<1>16. \A i \in E : Magnitude(f[i]) <= PrimalTol BY <1>10, <1>14, <1>15
<1>17. \A i \in I : g[i] <= PrimalTol /\ Magnitude(h[i]) <= PrimalTol
  BY <1>7, <1>11, <1>13, <1>14, <1>15
<1>18. \A v \in ColumnsOf(model) : Magnitude(d[v]) <= DualTol BY <1>7, <1>12, <1>15
<1> QED BY <1>8, <1>16, <1>17, <1>18 DEF e, E, I, d

LEMMA ConvergedIsInside ==
    ASSUME OracleAnswersNumbers, AtNumbers, Converged(evaluation, lambda, mu)
    PROVE  AskedFor(x, PrimalTol)
<1> DEFINE L == LowerBounds(request)
           U == UpperBounds(request)
<1>1. IsModel(model) /\ evaluation = Evaluate(request, x) BY ListTypes DEF AtNumbers
<1>2. PrimalTol \in Nat BY InteriorAssumption
<1>3. ASSUME NEW v \in ColumnsOf(model) PROVE Within(x[v], L[v], U[v], PrimalTol)
  <2>1. L[v] \in Int /\ U[v] \in Int /\ x[v] \in Int BY DEF AtNumbers, Numeric, Numbered
  <2>2. /\ <<v, "lower">> \in BoundSides <=> Finite(L[v])
        /\ <<v, "upper">> \in BoundSides <=> Finite(U[v])
    <3>1. v \in 1 .. Len(model.linear) BY <1>1, RowsAreAList
    <3> QED BY <1>1, <3>1, BoundSidesCounted
  <2>3. Finite(L[v]) => L[v] - x[v] <= PrimalTol
    <3> SUFFICES ASSUME Finite(L[v]) PROVE L[v] - x[v] <= PrimalTol OBVIOUS
    <3>1. PICK k : HasEntry(evaluation.inequalities, k, Basis(model, v, -Unit), L[v] - x[v])
      BY <1>1, <2>2, BoundEntries
    <3>2. evaluation.inequalities[k].value <= PrimalTol BY <3>1, ResidualsSmall DEF HasEntry
    <3> QED BY <3>1, <3>2 DEF HasEntry, NlpRow
  <2>4. Finite(U[v]) => x[v] - U[v] <= PrimalTol
    <3> SUFFICES ASSUME Finite(U[v]) PROVE x[v] - U[v] <= PrimalTol OBVIOUS
    <3>1. PICK k : HasEntry(evaluation.inequalities, k, Basis(model, v, Unit), x[v] - U[v])
      BY <1>1, <2>2, BoundEntries
    <3>2. evaluation.inequalities[k].value <= PrimalTol BY <3>1, ResidualsSmall DEF HasEntry
    <3> QED BY <3>1, <3>2 DEF HasEntry, NlpRow
  <2> HIDE DEF L, U
  <2> QED BY <1>2, <2>1, <2>3, <2>4 DEF Within
<1>4. ASSUME NEW r \in RowsOf(model)
      PROVE  Within(Values[r], model.rows[r].lower, model.rows[r].upper, PrimalTol)
  <2> DEFINE lo == model.rows[r].lower
             hi == model.rows[r].upper
             a == Values[r]
  <2>1. lo \in Int /\ hi \in Int /\ a \in Int BY <1>1, RowTypes, ListTypes
  <2>2. CASE IsEquality(model.rows[r])
    <3>1. HasEntry(evaluation.equalities, EqualityRank(r), Slopes[r], a - lo)
      BY <1>1, <2>2, RowEntries
    <3>2. Magnitude(evaluation.equalities[EqualityRank(r)].value) <= PrimalTol
      BY <3>1, ResidualsSmall DEF HasEntry
    <3>3. Magnitude(a - lo) <= PrimalTol BY <3>1, <3>2 DEF HasEntry, NlpRow
    <3>4. lo = hi BY <2>2 DEF IsEquality
    <3>5. Within(a, lo, hi, PrimalTol)
      <4> HIDE DEF lo, hi, a
      <4> QED BY <1>2, <2>1, <3>3, <3>4 DEF Within, Magnitude
    <3> QED BY <3>5
  <2>3. CASE ~IsEquality(model.rows[r])
    <3>1. /\ <<r, "lower">> \in RowSides <=> Finite(lo)
          /\ <<r, "upper">> \in RowSides <=> Finite(hi)
      <4>1. r \in 1 .. Len(model.rows) BY <1>1, RowsAreAList
      <4> QED BY <1>1, <2>3, <4>1, RowSidesCounted
    <3>2. Finite(lo) => lo - a <= PrimalTol
      <4> SUFFICES ASSUME Finite(lo) PROVE lo - a <= PrimalTol OBVIOUS
      <4>1. PICK k : HasEntry(evaluation.inequalities, k, Minus(Slopes[r]), lo - a)
        BY <1>1, <3>1, RowEntries
      <4>2. evaluation.inequalities[k].value <= PrimalTol BY <4>1, ResidualsSmall DEF HasEntry
      <4> QED BY <4>1, <4>2 DEF HasEntry, NlpRow
    <3>3. Finite(hi) => a - hi <= PrimalTol
      <4> SUFFICES ASSUME Finite(hi) PROVE a - hi <= PrimalTol OBVIOUS
      <4>1. PICK k : HasEntry(evaluation.inequalities, k, Slopes[r], a - hi)
        BY <1>1, <3>1, RowEntries
      <4>2. evaluation.inequalities[k].value <= PrimalTol BY <4>1, ResidualsSmall DEF HasEntry
      <4> QED BY <4>1, <4>2 DEF HasEntry, NlpRow
    <3>4. Within(a, lo, hi, PrimalTol)
      <4> HIDE DEF lo, hi, a
      <4> QED BY <1>2, <2>1, <3>2, <3>3 DEF Within
    <3> QED BY <3>4
  <2> QED BY <2>2, <2>3
<1> QED BY <1>3, <1>4 DEF AskedFor, Inside, Values

LEMMA ConvergedIsComplementary ==
    ASSUME OracleAnswersNumbers, AtNumbers, Converged(evaluation, lambda, mu)
    PROVE  Complementary(x)
<1> DEFINE L == LowerBounds(request)
           U == UpperBounds(request)
<1>1. IsModel(model) /\ evaluation = Evaluate(request, x) BY ListTypes DEF AtNumbers
<1>2. \A a \in Int : Magnitude(Product(a, 0)) <= PrimalTol
  <2>1. Magnitude(0) = 0 /\ 0 <= PrimalTol BY InteriorAssumption DEF Magnitude
  <2> QED BY <2>1, ProductUnits
<1>3. \A k, g, a : HasEntry(evaluation.inequalities, k, g, a)
                     => Magnitude(Product(a, mu[k])) <= PrimalTol
  BY ResidualsSmall DEF HasEntry, NlpRow
<1>4. ASSUME NEW v \in ColumnsOf(model)
      PROVE  /\ Magnitude(Product(L[v] - x[v], BoundDual(v, "lower"))) <= PrimalTol
             /\ Magnitude(Product(x[v] - U[v], BoundDual(v, "upper"))) <= PrimalTol
  <2>1. L[v] - x[v] \in Int /\ x[v] - U[v] \in Int
    <3>1. L[v] \in Int /\ U[v] \in Int /\ x[v] \in Int BY DEF AtNumbers, Numeric, Numbered
    <3> QED BY <3>1
  <2>2. Magnitude(Product(L[v] - x[v], BoundDual(v, "lower"))) <= PrimalTol
    <3>1. CASE <<v, "lower">> \in BoundSides
      <4>1. Magnitude(Product(L[v] - x[v], mu[Cardinality(RowSides) + Rank(<<v, "lower">>, BoundSides)])) <= PrimalTol
        BY <1>1, <1>3, <3>1, BoundEntries
      <4> QED BY <3>1, <4>1 DEF BoundDual
    <3>2. CASE <<v, "lower">> \notin BoundSides
      <4>1. BoundDual(v, "lower") = 0 BY <3>2 DEF BoundDual
      <4> QED BY <1>2, <2>1, <4>1
    <3> QED BY <3>1, <3>2
  <2>3. Magnitude(Product(x[v] - U[v], BoundDual(v, "upper"))) <= PrimalTol
    <3>1. CASE <<v, "upper">> \in BoundSides
      <4>1. Magnitude(Product(x[v] - U[v], mu[Cardinality(RowSides) + Rank(<<v, "upper">>, BoundSides)])) <= PrimalTol
        BY <1>1, <1>3, <3>1, BoundEntries
      <4> QED BY <3>1, <4>1 DEF BoundDual
    <3>2. CASE <<v, "upper">> \notin BoundSides
      <4>1. BoundDual(v, "upper") = 0 BY <3>2 DEF BoundDual
      <4> QED BY <1>2, <2>1, <4>1
    <3> QED BY <3>1, <3>2
  <2> QED BY <2>2, <2>3
<1>5. ASSUME NEW r \in RowsOf(model)
      PROVE  /\ Magnitude(Product(model.rows[r].lower - Values[r], RowDual(r, "lower"))) <= PrimalTol
             /\ Magnitude(Product(Values[r] - model.rows[r].upper, RowDual(r, "upper"))) <= PrimalTol
  <2> DEFINE lo == model.rows[r].lower
             hi == model.rows[r].upper
  <2>1. lo - Values[r] \in Int /\ Values[r] - hi \in Int
    <3>1. lo \in Int /\ hi \in Int /\ Values[r] \in Int BY <1>1, RowTypes, ListTypes
    <3> QED BY <3>1
  <2>2. Magnitude(Product(lo - Values[r], RowDual(r, "lower"))) <= PrimalTol
    <3>1. CASE <<r, "lower">> \in RowSides
      <4>1. Magnitude(Product(lo - Values[r], mu[Rank(<<r, "lower">>, RowSides)])) <= PrimalTol
        BY <1>1, <1>3, <3>1, RowEntries
      <4> QED BY <3>1, <4>1 DEF RowDual
    <3>2. CASE <<r, "lower">> \notin RowSides
      <4>1. RowDual(r, "lower") = 0 BY <3>2 DEF RowDual
      <4> QED BY <1>2, <2>1, <4>1
    <3> QED BY <3>1, <3>2
  <2>3. Magnitude(Product(Values[r] - hi, RowDual(r, "upper"))) <= PrimalTol
    <3>1. CASE <<r, "upper">> \in RowSides
      <4>1. Magnitude(Product(Values[r] - hi, mu[Rank(<<r, "upper">>, RowSides)])) <= PrimalTol
        BY <1>1, <1>3, <3>1, RowEntries
      <4> QED BY <3>1, <4>1 DEF RowDual
    <3>2. CASE <<r, "upper">> \notin RowSides
      <4>1. RowDual(r, "upper") = 0 BY <3>2 DEF RowDual
      <4> QED BY <1>2, <2>1, <4>1
    <3> QED BY <3>1, <3>2
  <2> QED BY <2>2, <2>3
<1> QED BY <1>4, <1>5 DEF Complementary, Values

-----------------------------------------------------------------------------
(* The dual residual is the stationarity equation of rows and bounds.      *)
Bits == {0, 1}
LEMMA OneOrTwo ==
    ASSUME NEW a \in Nat, NEW c \in Bits, NEW d \in Bits, NEW h,
           \A i \in a + 1 .. a + c + d : h[i] \in Int
    PROVE  Numbers!Over(h, a + 1 .. a + c + d)
             = (IF c = 1 THEN h[a + 1] ELSE 0) + (IF d = 1 THEN h[a + c + 1] ELSE 0)
<1>1. ASSUME a + 1 .. a + c + d = {} PROVE Numbers!Over(h, a + 1 .. a + c + d) = 0
  BY <1>1, Numbers!OverEmpty
<1>2. ASSUME NEW k, h[k] \in Int PROVE Numbers!Over(h, {k}) = h[k]
  <2>1. IsFiniteSet({k}) BY FS_Singleton
  <2>2. Numbers!Over(h, {k}) = h[k] + Numbers!Over(h, {k} \ {k})
    <3>1. \A i \in {k} : h[i] \in Int BY <1>2
    <3> QED BY <2>1, <3>1, FinitenessIsOne, SumAdds, Numbers!SumAny
  <2>3. {k} \ {k} = {} OBVIOUS
  <2>4. Numbers!Over(h, {k} \ {k}) = 0 BY <2>3, Numbers!OverEmpty
  <2> QED BY <1>2, <2>2, <2>4
<1>3. CASE c = 0 /\ d = 0
  <2>1. a + 1 .. a + c + d = {} BY <1>3
  <2> QED BY <1>1, <1>3, <2>1
<1>4. CASE c = 1 /\ d = 0
  <2>1. a + 1 .. a + c + d = {a + 1} BY <1>4
  <2>2. h[a + 1] \in Int BY <2>1
  <2>3. Numbers!Over(h, a + 1 .. a + c + d) = h[a + 1] BY <1>2, <2>1, <2>2
  <2>4. (IF c = 1 THEN h[a + 1] ELSE 0) + (IF d = 1 THEN h[a + c + 1] ELSE 0) = h[a + 1] + 0
    BY <1>4, <2>1
  <2> QED BY <2>2, <2>3, <2>4
<1>5. CASE c = 0 /\ d = 1
  <2>1. a + 1 .. a + c + d = {a + 1} /\ a + c + 1 = a + 1 BY <1>5
  <2>2. h[a + 1] \in Int BY <2>1
  <2>3. Numbers!Over(h, a + 1 .. a + c + d) = h[a + 1] BY <1>2, <2>1, <2>2
  <2>4. (IF c = 1 THEN h[a + 1] ELSE 0) + (IF d = 1 THEN h[a + c + 1] ELSE 0) = 0 + h[a + 1]
    BY <1>5, <2>1
  <2> QED BY <2>2, <2>3, <2>4
<1>6. CASE c = 1 /\ d = 1
  <2> DEFINE S == {a + 1, a + 2}
  <2>1. a + 1 .. a + c + d = S /\ a + c + 1 = a + 2 BY <1>6
  <2>2. h[a + 1] \in Int /\ h[a + 2] \in Int BY <2>1
  <2>3. S \ {a + 1} = {a + 2} OBVIOUS
  <2>4. IsFiniteSet(S)
    <3>1. IsFiniteSet({a + 1}) BY FS_Singleton
    <3>2. IsFiniteSet({a + 1} \cup {a + 2}) BY <3>1, FS_AddElement
    <3>3. S = {a + 1} \cup {a + 2} OBVIOUS
    <3> HIDE DEF S
    <3> QED BY <3>2, <3>3
  <2>5. a + 1 \in S /\ \A i \in S : h[i] \in Int BY <2>2
  <2> HIDE DEF S
  <2>6. Numbers!Over(h, S) = h[a + 1] + Numbers!Over(h, S \ {a + 1})
    BY <2>4, <2>5, FinitenessIsOne, SumAdds, Numbers!SumAny
  <2>7. Numbers!Over(h, S \ {a + 1}) = h[a + 2] BY <1>2, <2>2, <2>3
  <2> QED BY <1>6, <2>1, <2>6, <2>7
<1> QED BY <1>3, <1>4, <1>5, <1>6 DEF Bits

\* A sum over a list of two parts.
LEMMA JoinedSum ==
    ASSUME NEW a \in Nat, NEW b \in Nat, NEW h, \A i \in 1 .. a + b : h[i] \in Int
    PROVE  Numbers!Over(h, 1 .. a + b)
             = Numbers!Over(h, 1 .. a) + Numbers!Over([i \in 1 .. b |-> h[a + i]], 1 .. b)
<1> DEFINE g == [i \in 1 .. b |-> h[a + i]]
           S(k) == Numbers!Over(h, 1 .. k)
           G(k) == Numbers!Over(g, 1 .. k)
           Good == {k \in Nat : k <= b => S(a + k) = S(a) + G(k)}
<1>1. \A i \in 1 .. b : g[i] = h[a + i] /\ g[i] \in Int
  <2>1. \A i \in 1 .. b : a + i \in 1 .. a + b OBVIOUS
  <2> QED BY <2>1
<1>2. S(a) \in Int
  <2>1. \A i \in 1 .. a : h[i] \in Int
    <3>1. \A i \in 1 .. a : i \in 1 .. a + b OBVIOUS
    <3> QED BY <3>1
  <2> QED BY <2>1, IntervalsAreFinite, FinitenessIsOne, SumAdds, Numbers!SumType
<1> HIDE DEF g
<1>3. 0 \in Good
  <2>1. 1 .. 0 = {} OBVIOUS
  <2>2. G(0) = 0 BY <2>1, Numbers!OverEmpty
  <2>3. S(a + 0) = S(a) OBVIOUS
  <2> HIDE DEF S, G
  <2>4. S(a + 0) = S(a) + G(0) BY <1>2, <2>2, <2>3
  <2> QED BY <2>4
<1>4. ASSUME NEW k \in Nat, k \in Good PROVE k + 1 \in Good
  <2> SUFFICES ASSUME k + 1 <= b PROVE S(a + (k + 1)) = S(a) + G(k + 1) OBVIOUS
  <2>1. S(a + k) = S(a) + G(k)
    <3>1. k <= b OBVIOUS
    <3> QED BY <1>4, <3>1
  <2>2. G(k + 1) = g[k + 1] + G(k) /\ G(k) \in Int /\ g[k + 1] \in Int
    <3>1. k + 1 \in Nat \ {0} /\ (k + 1) - 1 = k /\ k + 1 \in 1 .. b OBVIOUS
    <3>2. \A s \in 1 .. k + 1 : g[s] \in Int
      <4>1. \A s \in 1 .. k + 1 : s \in 1 .. b OBVIOUS
      <4> QED BY <1>1, <4>1
    <3>3. /\ Numbers!Over(g, 1 .. k + 1) = g[k + 1] + Numbers!Over(g, 1 .. (k + 1) - 1)
          /\ Numbers!Over(g, 1 .. (k + 1) - 1) \in Int
      BY <3>1, <3>2, SumNext
    <3> QED BY <1>1, <3>1, <3>3
  <2>3. S(a + (k + 1)) = h[a + (k + 1)] + S(a + k)
    <3> DEFINE n == a + (k + 1)
    <3>1. n \in Nat \ {0} /\ n - 1 = a + k /\ \A s \in 1 .. n : s \in 1 .. a + b OBVIOUS
    <3>2. \A s \in 1 .. n : h[s] \in Int BY <3>1
    <3> HIDE DEF n
    <3>3. Numbers!Over(h, 1 .. n) = h[n] + Numbers!Over(h, 1 .. n - 1) BY <3>1, <3>2, SumNext
    <3> QED BY <3>1, <3>3 DEF n
  <2>4. h[a + (k + 1)] = g[k + 1]
    <3>1. k + 1 \in 1 .. b OBVIOUS
    <3> QED BY <1>1, <3>1
  <2> HIDE DEF S, G
  <2> QED BY <1>2, <2>1, <2>2, <2>3, <2>4
<1>5. \A k \in Nat : k \in Good
  <2> HIDE DEF Good
  <2> QED BY <1>3, <1>4, Numbers!NumberInduction
<1>6. b \in Good BY <1>5
<1> QED BY <1>6 DEF g

\* A sum over a flattened list whose pieces hold at most two entries.
LEMMA PiecesSummed ==
    ASSUME NEW T, NEW seqs \in Seq(Seq(T)), NEW h,
           \A i \in 1 .. Off(seqs, Len(seqs) + 1) : h[i] \in Int,
           NEW part,
           \A r \in 1 .. Len(seqs) : \E c, d \in Bits :
              /\ Len(seqs[r]) = c + d
              /\ part[r] = (IF c = 1 THEN h[Off(seqs, r) + 1] ELSE 0)
                             + (IF d = 1 THEN h[Off(seqs, r) + c + 1] ELSE 0)
    PROVE  Numbers!Over(h, 1 .. Off(seqs, Len(seqs) + 1)) = Numbers!Over(part, 1 .. Len(seqs))
<1> DEFINE n == Len(seqs)
           f == [r \in 1 .. n |-> Numbers!Over(h, Piece(seqs, r))]
<1>1. Numbers!Over(h, 1 .. Off(seqs, n + 1)) = Numbers!Over(f, 1 .. n) BY FlattenedSum
<1>2. n \in Nat /\ IsFiniteSet(1 .. n) BY IntervalsAreFinite
<1>3. ASSUME NEW r \in 1 .. n PROVE f[r] = part[r]
  <2> DEFINE a == Off(seqs, r)
  <2>1. a \in Nat /\ Off(seqs, r + 1) = a + Len(seqs[r]) BY OffFacts
  <2>2. PICK c, d \in Bits :
           /\ Len(seqs[r]) = c + d
           /\ part[r] = (IF c = 1 THEN h[a + 1] ELSE 0) + (IF d = 1 THEN h[a + c + 1] ELSE 0)
    OBVIOUS
  <2>3. Piece(seqs, r) = a + 1 .. a + c + d
    <3> HIDE DEF a
    <3>1. a + (c + d) = a + c + d BY <2>1, <2>2 DEF Bits
    <3> QED BY <2>1, <2>2, <3>1 DEF Piece, a, Bits
  <2>4. \A i \in a + 1 .. a + c + d : h[i] \in Int
    <3>1. Piece(seqs, r) \subseteq 1 .. Off(seqs, n + 1) BY PiecesPart
    <3> QED BY <2>3, <3>1
  <2> HIDE DEF a
  <2>5. Numbers!Over(h, a + 1 .. a + c + d)
          = (IF c = 1 THEN h[a + 1] ELSE 0) + (IF d = 1 THEN h[a + c + 1] ELSE 0)
    BY <2>1, <2>2, <2>4, OneOrTwo
  <2>6. f[r] = Numbers!Over(h, a + 1 .. a + c + d) BY <2>3
  <2> QED BY <2>2, <2>5, <2>6
<1> HIDE DEF n, f
<1>4. Numbers!Over(f, 1 .. n) = Numbers!Over(part, 1 .. n)
  BY <1>2, <1>3, FinitenessIsOne, Numbers!OverEqual
<1> QED BY <1>1, <1>4 DEF n

\* What a row adds by its equation and by its sides, and a bound by its own.
EqualityPart(v) ==
    [r \in RowsOf(model) |->
        IF IsEquality(model.rows[r]) THEN Product(lambda[EqualityRank(r)], Slopes[r][v]) ELSE 0]
SidePart(v) ==
    [r \in RowsOf(model) |->
        Product(RowDual(r, "lower"), -Slopes[r][v]) + Product(RowDual(r, "upper"), Slopes[r][v])]
BoundPart(v) ==
    [w \in ColumnsOf(model) |->
        Product(BoundDual(w, "lower"), Basis(model, w, -Unit)[v])
          + Product(BoundDual(w, "upper"), Basis(model, w, Unit)[v])]

LEMMA WeightedTypes ==
    ASSUME OracleAnswersNumbers, AtNumbers, NEW v \in ColumnsOf(model)
    PROVE  /\ \A i \in DOMAIN lambda : Product(lambda[i], evaluation.equalities[i].gradient[v]) \in Int
           /\ \A i \in DOMAIN mu : Product(mu[i], evaluation.inequalities[i].gradient[v]) \in Int
<1>1. ASSUME NEW i \in DOMAIN lambda
      PROVE  Product(lambda[i], evaluation.equalities[i].gradient[v]) \in Int
  <2>1. evaluation.equalities[i].gradient[v] \in Int /\ lambda[i] \in Int
    BY EntryTypes DEF Numbered
  <2> QED BY <2>1, ProductType
<1>2. ASSUME NEW i \in DOMAIN mu
      PROVE  Product(mu[i], evaluation.inequalities[i].gradient[v]) \in Int
  <2>1. SideGradient(i)[v] \in Int /\ mu[i] \in Int BY EntryTypes DEF Numbered
  <2> QED BY <2>1, ProductType DEF SideGradient
<1> QED BY <1>1, <1>2

LEMMA EqualitiesSummed ==
    ASSUME OracleAnswersNumbers, AtNumbers, NEW v \in ColumnsOf(model)
    PROVE  Weighted(evaluation.equalities, lambda, v)
             = Numbers!Over(EqualityPart(v), RowsOf(model))
<1> DEFINE list == evaluation.equalities
           h == [i \in DOMAIN list |-> Product(lambda[i], list[i].gradient[v])]
           n == Len(model.rows)
           seqs == EqualityLists(model, Values, Slopes)
           count == EqualityCounts(model)
           part == EqualityPart(v)
<1>1. /\ IsModel(model) /\ evaluation = Evaluate(request, x)
      /\ n \in Nat /\ RowsOf(model) = 1 .. n
  BY ListTypes, RowsAreAList DEF AtNumbers
<1>2. list = FlattenSeq(seqs)
  BY <1>1 DEF Evaluate, Equalities, EqualityLists, Values, Slopes, model
<1>3. Weighted(list, lambda, v) = Numbers!Over(h, DOMAIN list)
  <2>1. Weighted(list, lambda, v) = Total(h) /\ DOMAIN h = DOMAIN list BY DEF Weighted
  <2> HIDE DEF h
  <2> QED BY <2>1, TotalIsSum
<1>4. \A i \in DOMAIN list : h[i] \in Int
  <2>1. DOMAIN lambda = DOMAIN list BY DEF AtNumbers, Numeric
  <2> QED BY <2>1, WeightedTypes
<1>5. /\ \E T : seqs \in Seq(Seq(T))
      /\ Len(seqs) = n
      /\ \A r \in 1 .. n : Len(seqs[r]) = One(IsEquality(model.rows[r]))
  BY <1>1, EqualityListFacts
<1>6. \A r \in 1 .. n : count[r] = One(IsEquality(model.rows[r])) BY <1>1 DEF EqualityCounts
<1>7. ASSUME NEW r \in 1 .. n
      PROVE  IsEquality(model.rows[r]) =>
                /\ EqualityRank(r) = Place(count, r) + 1
                /\ h[EqualityRank(r)] = Product(lambda[EqualityRank(r)], Slopes[r][v])
  <2> SUFFICES ASSUME IsEquality(model.rows[r])
               PROVE  /\ EqualityRank(r) = Place(count, r) + 1
                      /\ h[EqualityRank(r)] = Product(lambda[EqualityRank(r)], Slopes[r][v])
    OBVIOUS
  <2>1. EqualityRank(r) \in DOMAIN list /\ list[EqualityRank(r)].gradient = Slopes[r]
    <3>1. r \in RowsOf(model) BY <1>1
    <3>2. HasEntry(list, EqualityRank(r), Slopes[r], Values[r] - model.rows[r].lower)
      BY <1>1, <3>1, RowEntries
    <3> QED BY <3>2 DEF HasEntry, NlpRow
  <2>2. EqualityRank(r) = Place(count, r) + 1
    <3>1. Place(count, r) \in Nat
      <4>1. r \in 1 .. n + 1 BY <1>1
      <4>2. IsModel(request.model) BY <1>1 DEF model
      <4> QED BY <4>1, <4>2, CountsAreNaturals DEF model
    <3>2. Place(count, r) = Cardinality({s \in 1 .. r - 1 : IsEquality(model.rows[s])})
      BY <1>1, PassedIsPlace
    <3> QED BY <3>1, <3>2 DEF EqualityRank
  <2> QED BY <2>1, <2>2
<1>8. \A r \in 1 .. n : part[r] = IF IsEquality(model.rows[r])
                                  THEN Product(lambda[EqualityRank(r)], Slopes[r][v]) ELSE 0
  BY <1>1 DEF EqualityPart
<1> HIDE DEF list, h, n, seqs, count, part
<1>9. PICK T : seqs \in Seq(Seq(T)) BY <1>5
<1>10. \A r \in 1 .. Len(seqs) : Len(seqs[r]) = count[r] BY <1>5, <1>6
<1>11. /\ \A r \in 1 .. Len(seqs) + 1 : Off(seqs, r) = Place(count, r)
       /\ FlattenSeq(seqs) \in Seq(T) /\ Len(FlattenSeq(seqs)) = Place(count, Len(seqs) + 1)
  <2>1. /\ FlattenSeq(seqs) \in Seq(T)
        /\ Len(FlattenSeq(seqs)) = Numbers!Over(count, 1 .. Len(seqs))
        /\ \A r \in 1 .. Len(seqs) + 1 : Off(seqs, r) = Numbers!Over(count, 1 .. r - 1)
        /\ \A r \in 1 .. Len(seqs) : \A j \in 1 .. Len(seqs[r]) :
              /\ FlattenSeq(seqs)[Off(seqs, r) + j] = seqs[r][j]
              /\ Place(count, r) + j \in 1 .. Place(count, Len(seqs) + 1)
              /\ FlattenSeq(seqs)[Place(count, r) + j] = seqs[r][j]
        /\ \A r \in 1 .. Len(seqs) + 1 : Off(seqs, r) = Place(count, r)
        /\ Len(FlattenSeq(seqs)) = Place(count, Len(seqs) + 1)
    BY <1>9, <1>10, FlattenedCounted
  <2> QED BY <2>1
<1>12. Off(seqs, n + 1) = Place(count, n + 1)
  <2>1. n + 1 \in 1 .. n + 1 BY <1>1
  <2> QED BY <1>5, <1>11, <2>1
<1>13. DOMAIN list = 1 .. Off(seqs, n + 1) BY <1>2, <1>5, <1>11, <1>12
<1>14. ASSUME NEW r \in 1 .. Len(seqs)
       PROVE  \E c, d \in Bits :
                 /\ Len(seqs[r]) = c + d
                 /\ part[r] = (IF c = 1 THEN h[Off(seqs, r) + 1] ELSE 0)
                                + (IF d = 1 THEN h[Off(seqs, r) + c + 1] ELSE 0)
  <2>1. r \in 1 .. n /\ Off(seqs, r) = Place(count, r)
    <3>1. r \in 1 .. n + 1 BY <1>1, <1>5
    <3> QED BY <1>5, <1>11, <3>1
  <2>2. CASE IsEquality(model.rows[r])
    <3>1. Len(seqs[r]) = 1 + 0 BY <1>5, <2>1, <2>2 DEF One
    <3>2. part[r] = h[Off(seqs, r) + 1] BY <1>7, <1>8, <2>1, <2>2
    <3>3. h[Off(seqs, r) + 1] \in Int
      <4>1. EqualityRank(r) \in DOMAIN list BY <1>1, <2>1, <2>2, RowEntries DEF HasEntry, list
      <4> QED BY <1>4, <1>7, <2>1, <2>2, <4>1
    <3>4. part[r] = (IF 1 = 1 THEN h[Off(seqs, r) + 1] ELSE 0)
                      + (IF 0 = 1 THEN h[Off(seqs, r) + 1 + 1] ELSE 0)
      BY <3>2, <3>3
    <3> QED BY <3>1, <3>4 DEF Bits
  <2>3. CASE ~IsEquality(model.rows[r])
    <3>1. Len(seqs[r]) = 0 + 0 BY <1>5, <2>1, <2>3 DEF One
    <3>2. part[r] = 0 BY <1>8, <2>1, <2>3
    <3>3. part[r] = (IF 0 = 1 THEN h[Off(seqs, r) + 1] ELSE 0)
                      + (IF 0 = 1 THEN h[Off(seqs, r) + 0 + 1] ELSE 0)
      BY <3>2
    <3> QED BY <3>1, <3>3 DEF Bits
  <2> QED BY <2>2, <2>3
<1>15. \A i \in 1 .. Off(seqs, Len(seqs) + 1) : h[i] \in Int BY <1>4, <1>5, <1>13
<1>16. Numbers!Over(h, 1 .. Off(seqs, Len(seqs) + 1)) = Numbers!Over(part, 1 .. Len(seqs))
  BY <1>9, <1>14, <1>15, PiecesSummed
<1> QED BY <1>1, <1>3, <1>5, <1>13, <1>16 DEF list, part, n

\* What the multipliers of a row's sides add, by their places in the list.
WeightedEntry(i, v) == Product(mu[i], evaluation.inequalities[i].gradient[v])

LEMMA SideProducts ==
    ASSUME OracleAnswersNumbers, AtNumbers, NEW v \in ColumnsOf(model), NEW r \in RowsOf(model)
    PROVE  LET a == Place(RowCounts(model), r)
               c == Has(RowSides, <<r, "lower">>)
               d == Has(RowSides, <<r, "upper">>)
           IN  /\ RowCount(model.rows[r]) = c + d
               /\ Product(RowDual(r, "lower"), -Slopes[r][v])
                    = IF c = 1 THEN WeightedEntry(a + 1, v) ELSE 0
               /\ Product(RowDual(r, "upper"), Slopes[r][v])
                    = IF d = 1 THEN WeightedEntry(a + c + 1, v) ELSE 0
<1> DEFINE a == Place(RowCounts(model), r)
           low == <<r, "lower">>
           up == <<r, "upper">>
           c == Has(RowSides, low)
           d == Has(RowSides, up)
           row == model.rows[r]
<1>1. IsModel(model) /\ evaluation = Evaluate(request, x) BY ListTypes DEF AtNumbers
<1>2. r \in 1 .. Len(model.rows) BY <1>1, RowsAreAList
<1>3. /\ low \in RowSides <=> ~IsEquality(row) /\ Finite(row.lower)
      /\ up \in RowSides <=> ~IsEquality(row) /\ Finite(row.upper)
      /\ Rank(low, RowSides) = a + 1
      /\ Rank(up, RowSides) = a + c + 1
  BY <1>1, <1>2, RowSidesCounted
<1>4. Slopes[r] \in [ColumnsOf(model) -> Int] BY ListTypes DEF Numbered
<1>5. Slopes[r][v] \in Int /\ -Slopes[r][v] \in Int /\ Minus(Slopes[r])[v] = -Slopes[r][v]
  BY <1>4 DEF Minus
<1>6. /\ c \in {0, 1} /\ (low \in RowSides => c = 1) /\ (low \notin RowSides => c = 0)
      /\ d \in {0, 1} /\ (up \in RowSides => d = 1) /\ (up \notin RowSides => d = 0)
  BY HasType
<1> HIDE DEF a, c, d
<1>7. RowCount(row) = c + d
  <2>1. c = IF low \in RowSides THEN 1 ELSE 0 BY <1>6
  <2>2. d = IF up \in RowSides THEN 1 ELSE 0 BY <1>6
  <2>3. CASE IsEquality(row) BY <1>3, <2>1, <2>2, <2>3 DEF RowCount
  <2>4. CASE ~IsEquality(row)
    <3>1. c = One(Finite(row.lower)) /\ d = One(Finite(row.upper)) BY <1>3, <2>1, <2>2, <2>4 DEF One
    <3> QED BY <2>4, <3>1 DEF RowCount, SideCount
  <2> QED BY <2>3, <2>4
<1>8. Product(RowDual(r, "lower"), -Slopes[r][v]) = IF c = 1 THEN WeightedEntry(a + 1, v) ELSE 0
  <2>1. CASE low \in RowSides
    <3>1. HasEntry(evaluation.inequalities, Rank(low, RowSides), Minus(Slopes[r]),
                   row.lower - Values[r])
      BY <1>1, <2>1, RowEntries
    <3>2. evaluation.inequalities[a + 1].gradient = Minus(Slopes[r])
      BY <1>3, <3>1 DEF HasEntry, NlpRow
    <3>3. RowDual(r, "lower") = mu[a + 1] BY <1>3, <2>1 DEF RowDual
    <3>4. c = 1 BY <1>6, <2>1
    <3> QED BY <1>5, <3>2, <3>3, <3>4 DEF WeightedEntry
  <2>2. CASE low \notin RowSides
    <3>1. RowDual(r, "lower") = 0 BY <2>2 DEF RowDual
    <3>2. c # 1 BY <1>6, <2>2
    <3>3. Product(0, -Slopes[r][v]) = 0 BY <1>5, ProductUnits
    <3> QED BY <3>1, <3>2, <3>3
  <2> QED BY <2>1, <2>2
<1>9. Product(RowDual(r, "upper"), Slopes[r][v]) = IF d = 1 THEN WeightedEntry(a + c + 1, v) ELSE 0
  <2>1. CASE up \in RowSides
    <3>1. HasEntry(evaluation.inequalities, Rank(up, RowSides), Slopes[r], Values[r] - row.upper)
      BY <1>1, <2>1, RowEntries
    <3>2. evaluation.inequalities[a + c + 1].gradient = Slopes[r]
      BY <1>3, <3>1 DEF HasEntry, NlpRow
    <3>3. RowDual(r, "upper") = mu[a + c + 1] BY <1>3, <2>1 DEF RowDual
    <3>4. d = 1 BY <1>6, <2>1
    <3> QED BY <3>2, <3>3, <3>4 DEF WeightedEntry
  <2>2. CASE up \notin RowSides
    <3>1. RowDual(r, "upper") = 0 BY <2>2 DEF RowDual
    <3>2. d # 1 BY <1>6, <2>2
    <3>3. Product(0, Slopes[r][v]) = 0 BY <1>5, ProductUnits
    <3> QED BY <3>1, <3>2, <3>3
  <2> QED BY <2>1, <2>2
<1> QED BY <1>7, <1>8, <1>9 DEF a, c, d

\* The same of a variable's bounds.
LEMMA BoundProducts ==
    ASSUME OracleAnswersNumbers, AtNumbers, NEW v \in ColumnsOf(model), NEW w \in ColumnsOf(model)
    PROVE  LET a == Shift(model)
               b == Place(BoundCounts(request), w)
               c == Has(BoundSides, <<w, "lower">>)
               d == Has(BoundSides, <<w, "upper">>)
           IN  /\ SideCount(LowerBounds(request)[w], UpperBounds(request)[w]) = c + d
               /\ Product(BoundDual(w, "lower"), Basis(model, w, -Unit)[v])
                    = IF c = 1 THEN WeightedEntry(a + (b + 1), v) ELSE 0
               /\ Product(BoundDual(w, "upper"), Basis(model, w, Unit)[v])
                    = IF d = 1 THEN WeightedEntry(a + (b + c + 1), v) ELSE 0
<1> DEFINE a == Shift(model)
           b == Place(BoundCounts(request), w)
           low == <<w, "lower">>
           up == <<w, "upper">>
           c == Has(BoundSides, low)
           d == Has(BoundSides, up)
           L == LowerBounds(request)
           U == UpperBounds(request)
           minus == Basis(model, w, -Unit)
           plus == Basis(model, w, Unit)
<1>1. IsModel(model) /\ evaluation = Evaluate(request, x) BY ListTypes DEF AtNumbers
<1>2. w \in 1 .. Len(model.linear) BY <1>1, RowsAreAList
<1>3. /\ low \in BoundSides <=> Finite(L[w])
      /\ up \in BoundSides <=> Finite(U[w])
      /\ Rank(low, BoundSides) = b + 1
      /\ Rank(up, BoundSides) = b + c + 1
  BY <1>1, <1>2, BoundSidesCounted
<1>4. Cardinality(RowSides) = a BY <1>1, RowSidesCounted
<1>5. minus[v] \in Int /\ plus[v] \in Int BY GridAssumption DEF Basis
<1>6. /\ c \in {0, 1} /\ (low \in BoundSides => c = 1) /\ (low \notin BoundSides => c = 0)
      /\ d \in {0, 1} /\ (up \in BoundSides => d = 1) /\ (up \notin BoundSides => d = 0)
  BY HasType
<1> HIDE DEF a, b, c, d, minus, plus
<1>7. SideCount(L[w], U[w]) = c + d
  <2>1. c = One(Finite(L[w])) /\ d = One(Finite(U[w])) BY <1>3, <1>6 DEF One
  <2> QED BY <2>1 DEF SideCount
<1>8. Product(BoundDual(w, "lower"), minus[v])
        = IF c = 1 THEN WeightedEntry(a + (b + 1), v) ELSE 0
  <2>1. CASE low \in BoundSides
    <3>1. HasEntry(evaluation.inequalities, Cardinality(RowSides) + Rank(low, BoundSides), minus,
                   L[w] - x[w])
      BY <1>1, <2>1, BoundEntries DEF minus
    <3>2. evaluation.inequalities[a + (b + 1)].gradient = minus
      BY <1>3, <1>4, <3>1 DEF HasEntry, NlpRow
    <3>3. BoundDual(w, "lower") = mu[a + (b + 1)] BY <1>3, <1>4, <2>1 DEF BoundDual
    <3>4. c = 1 BY <1>6, <2>1
    <3> QED BY <3>2, <3>3, <3>4 DEF WeightedEntry
  <2>2. CASE low \notin BoundSides
    <3>1. BoundDual(w, "lower") = 0 BY <2>2 DEF BoundDual
    <3>2. c # 1 BY <1>6, <2>2
    <3>3. Product(0, minus[v]) = 0 BY <1>5, ProductUnits
    <3> QED BY <3>1, <3>2, <3>3
  <2> QED BY <2>1, <2>2
<1>9. Product(BoundDual(w, "upper"), plus[v])
        = IF d = 1 THEN WeightedEntry(a + (b + c + 1), v) ELSE 0
  <2>1. CASE up \in BoundSides
    <3>1. HasEntry(evaluation.inequalities, Cardinality(RowSides) + Rank(up, BoundSides), plus,
                   x[w] - U[w])
      BY <1>1, <2>1, BoundEntries DEF plus
    <3>2. evaluation.inequalities[a + (b + c + 1)].gradient = plus
      BY <1>3, <1>4, <3>1 DEF HasEntry, NlpRow
    <3>3. BoundDual(w, "upper") = mu[a + (b + c + 1)] BY <1>3, <1>4, <2>1 DEF BoundDual
    <3>4. d = 1 BY <1>6, <2>1
    <3> QED BY <3>2, <3>3, <3>4 DEF WeightedEntry
  <2>2. CASE up \notin BoundSides
    <3>1. BoundDual(w, "upper") = 0 BY <2>2 DEF BoundDual
    <3>2. d # 1 BY <1>6, <2>2
    <3>3. Product(0, plus[v]) = 0 BY <1>5, ProductUnits
    <3> QED BY <3>1, <3>2, <3>3
  <2> QED BY <2>1, <2>2
<1> QED BY <1>7, <1>8, <1>9 DEF a, b, c, d, minus, plus

\* The sum over the inequalities, by rows and by variables.
LEMMA CountedOffsets ==
    ASSUME NEW T, NEW seqs \in Seq(Seq(T)), NEW count,
           \A r \in 1 .. Len(seqs) : Len(seqs[r]) = count[r]
    PROVE  /\ \A r \in 1 .. Len(seqs) : Off(seqs, r) = Place(count, r)
           /\ Off(seqs, Len(seqs) + 1) = Place(count, Len(seqs) + 1)
           /\ \A r \in 1 .. Len(seqs) : \A j \in 1 .. Len(seqs[r]) :
                 Off(seqs, r) + j \in 1 .. Off(seqs, Len(seqs) + 1)
<1>1. /\ FlattenSeq(seqs) \in Seq(T)
      /\ Len(FlattenSeq(seqs)) = Numbers!Over(count, 1 .. Len(seqs))
      /\ \A r \in 1 .. Len(seqs) + 1 : Off(seqs, r) = Numbers!Over(count, 1 .. r - 1)
      /\ \A r \in 1 .. Len(seqs) : \A j \in 1 .. Len(seqs[r]) :
            /\ FlattenSeq(seqs)[Off(seqs, r) + j] = seqs[r][j]
            /\ Place(count, r) + j \in 1 .. Place(count, Len(seqs) + 1)
            /\ FlattenSeq(seqs)[Place(count, r) + j] = seqs[r][j]
      /\ \A r \in 1 .. Len(seqs) + 1 : Off(seqs, r) = Place(count, r)
      /\ Len(FlattenSeq(seqs)) = Place(count, Len(seqs) + 1)
  BY FlattenedCounted
<1> DEFINE n == Len(seqs)
<1>2. n \in Nat OBVIOUS
<1>3. n + 1 \in 1 .. n + 1 /\ \A r \in 1 .. n : r \in 1 .. n + 1
  <2> HIDE DEF n
  <2> QED BY <1>2
<1> QED BY <1>1, <1>3

LEMMA SidesSummed ==
    ASSUME OracleAnswersNumbers, AtNumbers, NEW v \in ColumnsOf(model), NEW h,
           \A i \in 1 .. Shift(model) : h[i] = WeightedEntry(i, v) /\ h[i] \in Int
    PROVE  Numbers!Over(h, 1 .. Shift(model)) = Numbers!Over(SidePart(v), RowsOf(model))
<1> DEFINE n == Len(model.rows)
           seqs == RowLists(model, Values, Slopes)
           count == RowCounts(model)
           part == SidePart(v)
<1>1. /\ IsModel(model) /\ n \in Nat /\ RowsOf(model) = 1 .. n BY ListTypes, RowsAreAList
<1>2. /\ \E T : seqs \in Seq(Seq(T))
      /\ Len(seqs) = n
      /\ \A r \in 1 .. n : Len(seqs[r]) = RowCount(model.rows[r])
  BY <1>1, RowListFacts
<1>3. \A r \in 1 .. n : count[r] = RowCount(model.rows[r]) BY <1>1 DEF RowCounts
<1>4. ASSUME NEW r \in 1 .. n
      PROVE  \E c, d \in Bits :
                /\ RowCount(model.rows[r]) = c + d
                /\ part[r] = (IF c = 1 THEN WeightedEntry(Place(count, r) + 1, v) ELSE 0)
                               + (IF d = 1 THEN WeightedEntry(Place(count, r) + c + 1, v) ELSE 0)
  <2> DEFINE c == Has(RowSides, <<r, "lower">>)
             d == Has(RowSides, <<r, "upper">>)
  <2>1. r \in RowsOf(model) BY <1>1
  <2>2. /\ RowCount(model.rows[r]) = c + d
        /\ Product(RowDual(r, "lower"), -Slopes[r][v])
             = IF c = 1 THEN WeightedEntry(Place(count, r) + 1, v) ELSE 0
        /\ Product(RowDual(r, "upper"), Slopes[r][v])
             = IF d = 1 THEN WeightedEntry(Place(count, r) + c + 1, v) ELSE 0
    BY <2>1, SideProducts
  <2>3. c \in Bits /\ d \in Bits BY HasType DEF Bits
  <2>4. part[r] = Product(RowDual(r, "lower"), -Slopes[r][v])
                    + Product(RowDual(r, "upper"), Slopes[r][v])
    BY <2>1 DEF SidePart
  <2> HIDE DEF c, d, part, count
  <2> QED BY <2>2, <2>3, <2>4
<1> HIDE DEF n, seqs, count, part
<1>5. PICK T : seqs \in Seq(Seq(T)) BY <1>2
<1>6. \A r \in 1 .. Len(seqs) : Len(seqs[r]) = count[r] BY <1>2, <1>3
<1>7. /\ \A r \in 1 .. Len(seqs) : Off(seqs, r) = Place(count, r)
      /\ Off(seqs, Len(seqs) + 1) = Place(count, Len(seqs) + 1)
      /\ \A r \in 1 .. Len(seqs) : \A j \in 1 .. Len(seqs[r]) :
            Off(seqs, r) + j \in 1 .. Off(seqs, Len(seqs) + 1)
  BY <1>5, <1>6, CountedOffsets
<1>8. Off(seqs, Len(seqs) + 1) = Shift(model) BY <1>2, <1>7 DEF Shift, n, count
<1>9. ASSUME NEW r \in 1 .. Len(seqs)
      PROVE  \E c, d \in Bits :
                /\ Len(seqs[r]) = c + d
                /\ part[r] = (IF c = 1 THEN h[Off(seqs, r) + 1] ELSE 0)
                               + (IF d = 1 THEN h[Off(seqs, r) + c + 1] ELSE 0)
  <2> DEFINE o == Off(seqs, r)
  <2>0. \E c, d \in Bits :
           /\ RowCount(model.rows[r]) = c + d
           /\ part[r] = (IF c = 1 THEN WeightedEntry(Place(count, r) + 1, v) ELSE 0)
                          + (IF d = 1 THEN WeightedEntry(Place(count, r) + c + 1, v) ELSE 0)
    BY <1>2, <1>4
  <2>1. PICK c, d \in Bits :
           /\ RowCount(model.rows[r]) = c + d
           /\ part[r] = (IF c = 1 THEN WeightedEntry(o + 1, v) ELSE 0)
                          + (IF d = 1 THEN WeightedEntry(o + c + 1, v) ELSE 0)
    <3>1. o = Place(count, r) BY <1>7
    <3> HIDE DEF o
    <3> QED BY <2>0, <3>1
  <2>2. Len(seqs[r]) = c + d BY <1>2, <2>1
  <2>3. \A j \in 1 .. c + d : o + j \in 1 .. Shift(model) BY <1>7, <1>8, <2>2
  <2>4. o \in Nat BY <1>5, OffFacts
  <2> HIDE DEF o
  <2>5. c = 1 => h[o + 1] = WeightedEntry(o + 1, v)
    <3> SUFFICES ASSUME c = 1 PROVE h[o + 1] = WeightedEntry(o + 1, v) OBVIOUS
    <3>1. 1 \in 1 .. c + d BY <2>1 DEF Bits
    <3>2. o + 1 \in 1 .. Shift(model) BY <2>3, <3>1
    <3> QED BY <3>2
  <2>6. d = 1 => h[o + c + 1] = WeightedEntry(o + c + 1, v)
    <3> SUFFICES ASSUME d = 1 PROVE h[o + c + 1] = WeightedEntry(o + c + 1, v) OBVIOUS
    <3>1. c + 1 \in 1 .. c + d /\ o + (c + 1) = o + c + 1 BY <2>1, <2>4 DEF Bits
    <3>2. o + c + 1 \in 1 .. Shift(model) BY <2>3, <3>1
    <3> QED BY <3>2
  <2>7. part[r] = (IF c = 1 THEN h[o + 1] ELSE 0) + (IF d = 1 THEN h[o + c + 1] ELSE 0)
    BY <2>1, <2>5, <2>6
  <2> QED BY <2>1, <2>2, <2>7 DEF o
<1>10. \A i \in 1 .. Off(seqs, Len(seqs) + 1) : h[i] \in Int BY <1>8
<1>11. Numbers!Over(h, 1 .. Off(seqs, Len(seqs) + 1)) = Numbers!Over(part, 1 .. Len(seqs))
  BY <1>5, <1>9, <1>10, PiecesSummed
<1> QED BY <1>1, <1>2, <1>8, <1>11 DEF part

LEMMA BoundsSummed ==
    ASSUME OracleAnswersNumbers, AtNumbers, NEW v \in ColumnsOf(model), NEW h,
           \A i \in 1 .. Place(BoundCounts(request), Len(model.linear) + 1) :
              h[i] = WeightedEntry(Shift(model) + i, v) /\ h[i] \in Int
    PROVE  Numbers!Over(h, 1 .. Place(BoundCounts(request), Len(model.linear) + 1))
             = Numbers!Over(BoundPart(v), ColumnsOf(model))
<1> DEFINE n == Len(model.linear)
           L == LowerBounds(request)
           U == UpperBounds(request)
           a == Shift(model)
           seqs == BoundLists(model, L, U, x)
           count == BoundCounts(request)
           part == BoundPart(v)
           last == Place(count, n + 1)
<1>1. /\ IsModel(model) /\ n \in Nat /\ ColumnsOf(model) = 1 .. n BY ListTypes, RowsAreAList
<1>2. /\ \E T : seqs \in Seq(Seq(T))
      /\ Len(seqs) = n
      /\ \A w \in 1 .. n : Len(seqs[w]) = SideCount(L[w], U[w])
  <2>1. /\ \E T : seqs \in Seq(Seq(T))
        /\ Len(seqs) = Len(model.linear)
        /\ \A w \in 1 .. Len(model.linear) :
              /\ Len(seqs[w]) = SideCount(L[w], U[w])
              /\ Finite(L[w]) => seqs[w][1] = NlpRow(Basis(model, w, -Unit), L[w] - x[w])
              /\ Finite(U[w]) => seqs[w][One(Finite(L[w])) + 1]
                                   = NlpRow(Basis(model, w, Unit), x[w] - U[w])
    BY <1>1, BoundListFacts
  <2> QED BY <2>1
<1>3. \A w \in 1 .. n : count[w] = SideCount(L[w], U[w]) BY <1>1 DEF BoundCounts, model
<1>4. ASSUME NEW w \in 1 .. n
      PROVE  \E c, d \in Bits :
                /\ SideCount(L[w], U[w]) = c + d
                /\ part[w] = (IF c = 1 THEN WeightedEntry(a + (Place(count, w) + 1), v) ELSE 0)
                               + (IF d = 1 THEN WeightedEntry(a + (Place(count, w) + c + 1), v)
                                           ELSE 0)
  <2> DEFINE c == Has(BoundSides, <<w, "lower">>)
             d == Has(BoundSides, <<w, "upper">>)
  <2>1. w \in ColumnsOf(model) BY <1>1
  <2>2. /\ SideCount(L[w], U[w]) = c + d
        /\ Product(BoundDual(w, "lower"), Basis(model, w, -Unit)[v])
             = IF c = 1 THEN WeightedEntry(a + (Place(count, w) + 1), v) ELSE 0
        /\ Product(BoundDual(w, "upper"), Basis(model, w, Unit)[v])
             = IF d = 1 THEN WeightedEntry(a + (Place(count, w) + c + 1), v) ELSE 0
    BY <2>1, BoundProducts
  <2>3. c \in Bits /\ d \in Bits BY HasType DEF Bits
  <2>4. part[w] = Product(BoundDual(w, "lower"), Basis(model, w, -Unit)[v])
                    + Product(BoundDual(w, "upper"), Basis(model, w, Unit)[v])
    BY <2>1 DEF BoundPart
  <2> HIDE DEF c, d, part, count, a
  <2> QED BY <2>2, <2>3, <2>4
<1> HIDE DEF n, seqs, count, part, a
<1>5. PICK T : seqs \in Seq(Seq(T)) BY <1>2
<1>6. \A r \in 1 .. Len(seqs) : Len(seqs[r]) = count[r] BY <1>2, <1>3
<1>7. /\ \A r \in 1 .. Len(seqs) : Off(seqs, r) = Place(count, r)
      /\ Off(seqs, Len(seqs) + 1) = Place(count, Len(seqs) + 1)
      /\ \A r \in 1 .. Len(seqs) : \A j \in 1 .. Len(seqs[r]) :
            Off(seqs, r) + j \in 1 .. Off(seqs, Len(seqs) + 1)
  BY <1>5, <1>6, CountedOffsets
<1>8. Off(seqs, Len(seqs) + 1) = last BY <1>2, <1>7
<1>9. \A i \in 1 .. last : h[i] = WeightedEntry(a + i, v) /\ h[i] \in Int BY DEF n, count, a
<1> HIDE DEF last
<1>10. ASSUME NEW r \in 1 .. Len(seqs)
       PROVE  \E c, d \in Bits :
                 /\ Len(seqs[r]) = c + d
                 /\ part[r] = (IF c = 1 THEN h[Off(seqs, r) + 1] ELSE 0)
                                + (IF d = 1 THEN h[Off(seqs, r) + c + 1] ELSE 0)
  <2> DEFINE o == Off(seqs, r)
  <2>0. \E c, d \in Bits :
           /\ SideCount(L[r], U[r]) = c + d
           /\ part[r] = (IF c = 1 THEN WeightedEntry(a + (Place(count, r) + 1), v) ELSE 0)
                          + (IF d = 1 THEN WeightedEntry(a + (Place(count, r) + c + 1), v) ELSE 0)
    BY <1>2, <1>4
  <2>1. PICK c, d \in Bits :
           /\ SideCount(L[r], U[r]) = c + d
           /\ part[r] = (IF c = 1 THEN WeightedEntry(a + (o + 1), v) ELSE 0)
                          + (IF d = 1 THEN WeightedEntry(a + (o + c + 1), v) ELSE 0)
    <3>1. o = Place(count, r) BY <1>7
    <3> HIDE DEF o
    <3> QED BY <2>0, <3>1
  <2>2. Len(seqs[r]) = c + d BY <1>2, <2>1
  <2>3. \A j \in 1 .. c + d : o + j \in 1 .. last BY <1>7, <1>8, <2>2
  <2>4. o \in Nat BY <1>5, OffFacts
  <2> HIDE DEF o
  <2>5. c = 1 => h[o + 1] = WeightedEntry(a + (o + 1), v)
    <3> SUFFICES ASSUME c = 1 PROVE h[o + 1] = WeightedEntry(a + (o + 1), v) OBVIOUS
    <3>1. 1 \in 1 .. c + d BY <2>1 DEF Bits
    <3>2. o + 1 \in 1 .. last BY <2>3, <3>1
    <3> QED BY <1>9, <3>2
  <2>6. d = 1 => h[o + c + 1] = WeightedEntry(a + (o + c + 1), v)
    <3> SUFFICES ASSUME d = 1 PROVE h[o + c + 1] = WeightedEntry(a + (o + c + 1), v) OBVIOUS
    <3>1. c + 1 \in 1 .. c + d /\ o + (c + 1) = o + c + 1 BY <2>1, <2>4 DEF Bits
    <3>2. o + c + 1 \in 1 .. last BY <2>3, <3>1
    <3> QED BY <1>9, <3>2
  <2>7. part[r] = (IF c = 1 THEN h[o + 1] ELSE 0) + (IF d = 1 THEN h[o + c + 1] ELSE 0)
    BY <2>1, <2>5, <2>6
  <2> QED BY <2>1, <2>2, <2>7 DEF o
<1>11. \A i \in 1 .. Off(seqs, Len(seqs) + 1) : h[i] \in Int BY <1>8, <1>9
<1>12. Numbers!Over(h, 1 .. Off(seqs, Len(seqs) + 1)) = Numbers!Over(part, 1 .. Len(seqs))
  BY <1>5, <1>10, <1>11, PiecesSummed
<1> QED BY <1>1, <1>2, <1>8, <1>12 DEF part, last, n, count

LEMMA InequalitiesSummed ==
    ASSUME OracleAnswersNumbers, AtNumbers, NEW v \in ColumnsOf(model)
    PROVE  Weighted(evaluation.inequalities, mu, v)
             = Numbers!Over(SidePart(v), RowsOf(model)) + Numbers!Over(BoundPart(v), ColumnsOf(model))
<1> DEFINE list == evaluation.inequalities
           h == [i \in DOMAIN list |-> WeightedEntry(i, v)]
           a == Shift(model)
           b == Place(BoundCounts(request), Len(model.linear) + 1)
           g == [i \in 1 .. b |-> h[a + i]]
<1>1. IsModel(model) /\ evaluation = Evaluate(request, x) BY ListTypes DEF AtNumbers
<1>2. a \in Nat /\ b \in Nat
  <2>1. Len(model.rows) \in Nat /\ Len(model.linear) \in Nat BY <1>1, RowsAreAList
  <2>2. Len(model.rows) + 1 \in 1 .. Len(model.rows) + 1 BY <2>1
  <2>3. Len(model.linear) + 1 \in 1 .. Len(model.linear) + 1 BY <2>1
  <2>4. IsModel(request.model) BY <1>1 DEF model
  <2> QED BY <2>2, <2>3, <2>4, CountsAreNaturals DEF Shift, model
<1>3. DOMAIN list = 1 .. a + b
  <2>1. /\ \E T : list \in Seq(T)
        /\ Len(list) = a + b
    BY <1>1, InequalitiesHold DEF model
  <2> QED BY <2>1
<1>4. Weighted(list, mu, v) = Numbers!Over(h, DOMAIN list)
  <2>1. Weighted(list, mu, v) = Total(h) /\ DOMAIN h = DOMAIN list
    BY DEF Weighted, WeightedEntry
  <2> HIDE DEF h
  <2> QED BY <2>1, TotalIsSum
<1>5. \A i \in DOMAIN list : h[i] = WeightedEntry(i, v) /\ h[i] \in Int
  <2>1. DOMAIN mu = DOMAIN list BY DEF AtNumbers, Numeric
  <2> QED BY <2>1, WeightedTypes DEF WeightedEntry
<1> HIDE DEF list, h, a, b
<1>6. \A i \in 1 .. a + b : h[i] \in Int BY <1>3, <1>5
<1>7. Numbers!Over(h, 1 .. a + b) = Numbers!Over(h, 1 .. a) + Numbers!Over(g, 1 .. b)
  BY <1>2, <1>6, JoinedSum
<1>8. \A i \in 1 .. a : h[i] = WeightedEntry(i, v) /\ h[i] \in Int
  <2>1. \A i \in 1 .. a : i \in 1 .. a + b BY <1>2
  <2> QED BY <1>3, <1>5, <2>1
<1>9. \A i \in 1 .. b : g[i] = WeightedEntry(a + i, v) /\ g[i] \in Int
  <2>1. \A i \in 1 .. b : a + i \in 1 .. a + b BY <1>2
  <2> QED BY <1>3, <1>5, <2>1
<1> HIDE DEF g
<1>10. Numbers!Over(h, 1 .. a) = Numbers!Over(SidePart(v), RowsOf(model))
  BY <1>8, SidesSummed DEF a
<1>11. Numbers!Over(g, 1 .. b) = Numbers!Over(BoundPart(v), ColumnsOf(model))
  BY <1>9, BoundsSummed DEF a, b
<1> QED BY <1>3, <1>4, <1>7, <1>10, <1>11 DEF list

\* Of the bounds only those of the variable itself have a slope in it.
LEMMA OwnBoundsOnly ==
    ASSUME OracleAnswersNumbers, AtNumbers, NEW v \in ColumnsOf(model)
    PROVE  Numbers!Over(BoundPart(v), ColumnsOf(model)) = BoundDual(v, "upper") - BoundDual(v, "lower")
<1> DEFINE C == ColumnsOf(model)
           f == BoundPart(v)
           dl(w) == BoundDual(w, "lower")
           du(w) == BoundDual(w, "upper")
<1>1. /\ IsModel(model) /\ evaluation = Evaluate(request, x)
      /\ lambda \in [DOMAIN evaluation.equalities -> Int]
      /\ mu \in [DOMAIN evaluation.inequalities -> Int]
  BY ListTypes DEF AtNumbers, Numeric
<1>2. \A w \in C : dl(w) \in Int /\ du(w) \in Int BY <1>1, DualTypes
<1>3. IsFiniteSet(C) /\ IsFiniteSet(C \ {v})
  <2>1. IsFiniteSet(C) BY <1>1, RowsAreAList, IntervalsAreFinite
  <2>2. C \ {v} \subseteq C OBVIOUS
  <2> HIDE DEF C
  <2> QED BY <2>1, <2>2, FS_Subset
<1>4. \A w \in C : f[w] = Product(dl(w), Basis(model, w, -Unit)[v])
                            + Product(du(w), Basis(model, w, Unit)[v])
  BY DEF BoundPart
<1>5. \A w \in C : /\ w # v => Basis(model, w, -Unit)[v] = 0 /\ Basis(model, w, Unit)[v] = 0
                   /\ w = v => Basis(model, w, -Unit)[v] = -Unit /\ Basis(model, w, Unit)[v] = Unit
  BY DEF Basis
<1> HIDE DEF C, f, dl, du
<1>6. f[v] = -dl(v) + du(v)
  <2>1. v \in C BY DEF C
  <2>2. f[v] = Product(dl(v), -Unit) + Product(du(v), Unit) BY <1>4, <1>5, <2>1
  <2>3. Product(dl(v), -Unit) = -dl(v) /\ Product(du(v), Unit) = du(v)
    BY <1>2, <2>1, ProductUnits
  <2> QED BY <2>2, <2>3
<1>7. ASSUME NEW w \in C \ {v} PROVE f[w] = 0
  <2>1. f[w] = Product(dl(w), 0) + Product(du(w), 0) BY <1>4, <1>5
  <2>2. Product(dl(w), 0) = 0 /\ Product(du(w), 0) = 0 BY <1>2, ProductUnits
  <2> QED BY <2>1, <2>2
<1>8. v \in C /\ -dl(v) + du(v) \in Int /\ -dl(v) + du(v) = du(v) - dl(v)
  <2>1. v \in C BY DEF C
  <2> QED BY <1>2, <2>1
<1>9. \A w \in C : f[w] \in Int BY <1>6, <1>7, <1>8
<1>10. Numbers!Over(f, C) = f[v] + Numbers!Over(f, C \ {v})
  BY <1>3, <1>8, <1>9, FinitenessIsOne, SumAdds, Numbers!SumAny
<1>11. Numbers!Over(f, C \ {v}) = 0
  <2> DEFINE D == C \ {v}
  <2>1. IsFiniteSet(D) /\ \A w \in D : f[w] = 0 BY <1>3, <1>7
  <2> HIDE DEF D
  <2>2. Numbers!Over(f, D) = 0 * Cardinality(D)
    BY <2>1, FinitenessIsOne, SumAdds, Numbers!SumOfConstant
  <2>3. Cardinality(D) \in Nat BY <2>1, FS_CardinalityType
  <2> QED BY <2>2, <2>3 DEF D
<1> QED BY <1>6, <1>8, <1>10, <1>11 DEF C, f, dl, du

\* A row's equation and sides together add its multiplier's part, but for one
\* step of rounding where both sides have a multiplier.
RowPart(v) == [r \in RowsOf(model) |-> Product(RowMultiplier(r), Slopes[r][v])]

LEMMA RowsApart ==
    ASSUME OracleAnswersNumbers, AtNumbers, NEW v \in ColumnsOf(model)
    PROVE  LET a == Numbers!Over(RowPart(v), RowsOf(model))
               b == Numbers!Over(EqualityPart(v), RowsOf(model))
               c == Numbers!Over(SidePart(v), RowsOf(model))
           IN  /\ a \in Int /\ b \in Int /\ c \in Int
               /\ a <= b + c + Len(model.rows) /\ b + c <= a + Len(model.rows)
<1> DEFINE R == RowsOf(model)
           f == RowPart(v)
           e == EqualityPart(v)
           s == SidePart(v)
           h == [r \in R |-> e[r] + s[r]]
           n == Len(model.rows)
<1>1. /\ IsModel(model) /\ evaluation = Evaluate(request, x)
      /\ lambda \in [DOMAIN evaluation.equalities -> Int]
      /\ mu \in [DOMAIN evaluation.inequalities -> Int]
  BY ListTypes DEF AtNumbers, Numeric
<1>2. n \in Nat /\ R = 1 .. n BY <1>1, RowsAreAList
<1>3. IsFiniteSet(R) /\ Cardinality(R) = n
  <2>1. 1 \in Int /\ n \in Int BY <1>2
  <2>2. Cardinality(1 .. n) = IF 1 > n THEN 0 ELSE n - 1 + 1 BY <2>1, FS_Interval, Zenon
  <2>3. Cardinality(1 .. n) = n BY <1>2, <2>2
  <2> HIDE DEF R, n
  <2> QED BY <1>2, <2>3, IntervalsAreFinite
<1>4. ASSUME NEW r \in R
      PROVE  /\ f[r] \in Int /\ e[r] \in Int /\ s[r] \in Int
             /\ f[r] <= e[r] + s[r] + 1 /\ e[r] + s[r] <= f[r] + 1
  <2> DEFINE low == RowDual(r, "lower")
             up == RowDual(r, "upper")
             d == Slopes[r][v]
  <2>1. low \in Int /\ up \in Int /\ RowMultiplier(r) \in Int BY <1>1, DualTypes
  <2>2. d \in Int /\ -d \in Int
    <3>1. Slopes \in [RowsOf(model) -> [ColumnsOf(model) -> Int]] BY ListTypes DEF Numbered
    <3>2. d \in Int BY <3>1
    <3> HIDE DEF d
    <3> QED BY <3>2
  <2>3. /\ f[r] = Product(RowMultiplier(r), d)
        /\ s[r] = Product(low, -d) + Product(up, d)
        /\ e[r] = IF IsEquality(model.rows[r]) THEN Product(lambda[EqualityRank(r)], d) ELSE 0
    BY DEF RowPart, SidePart, EqualityPart
  <2>4. IsEquality(model.rows[r]) =>
           RowMultiplier(r) = lambda[EqualityRank(r)] /\ low = 0 /\ up = 0
    <3>1. r \in 1 .. Len(model.rows) BY <1>2
    <3>2. IsEquality(model.rows[r]) => <<r, "lower">> \notin RowSides /\ <<r, "upper">> \notin RowSides
      BY <1>1, <3>1, RowSidesCounted
    <3> QED BY <3>2 DEF RowMultiplier, EqualityRank, RowDual
  <2>5. ~IsEquality(model.rows[r]) => RowMultiplier(r) = up - low BY DEF RowMultiplier
  <2> HIDE DEF f, e, s, low, up, d
  <2>6. CASE IsEquality(model.rows[r])
    <3>1. Product(low, -d) = 0 /\ Product(up, d) = 0 BY <2>2, <2>4, <2>6, ProductUnits
    <3>2. e[r] = f[r] /\ s[r] = 0 BY <2>3, <2>4, <2>6, <3>1
    <3>3. f[r] \in Int BY <2>1, <2>2, <2>3, ProductType
    <3> QED BY <3>2, <3>3
  <2>7. CASE ~IsEquality(model.rows[r])
    <3>1. f[r] = Product(up - low, d) /\ e[r] = 0 BY <2>3, <2>5, <2>7
    <3>2. /\ Product(up, d) + Product(low, -d) <= Product(up - low, d) + 1
          /\ Product(up - low, d) <= Product(up, d) + Product(low, -d) + 1
      BY <2>1, <2>2, ProductOfDifference
    <3>3. Product(up, d) \in Int /\ Product(low, -d) \in Int BY <2>1, <2>2, ProductType
    <3>4. f[r] \in Int BY <2>1, <2>2, <2>3, ProductType
    <3> QED BY <2>3, <3>1, <3>2, <3>3, <3>4
  <2> QED BY <2>6, <2>7
<1> HIDE DEF R, f, e, s, n
<1>5. \A r \in R : h[r] \in Int /\ h[r] = e[r] + s[r] BY <1>4
<1> HIDE DEF h
<1>6. Numbers!Over(h, R) = Numbers!Over(e, R) + Numbers!Over(s, R)
  BY <1>3, <1>4, <1>5, FinitenessIsOne, SumAdds, Numbers!SumOfSums
<1>7. /\ 1 * Numbers!Over(f, R) <= Numbers!Over(h, R) + 1 * Cardinality(R)
      /\ Numbers!Over(h, R) <= 1 * Numbers!Over(f, R) + 1 * Cardinality(R)
  <2>1. \A r \in R : /\ f[r] \in Int /\ h[r] \in Int
                     /\ 1 * f[r] <= h[r] + 1 /\ h[r] <= 1 * f[r] + 1
    BY <1>4, <1>5
  <2>2. /\ 1 * Numbers!Over(f, R) <= Numbers!Over(h, R) + 1 * Numbers!Cardinality(R)
        /\ Numbers!Over(h, R) <= 1 * Numbers!Over(f, R) + 1 * Numbers!Cardinality(R)
    <3>1. 1 \in Int OBVIOUS
    <3> QED BY <1>3, <2>1, <3>1, FinitenessIsOne, SumAdds, Numbers!SumsApart
  <2> QED BY <2>2, FinitenessIsOne
<1>8. /\ Numbers!Over(f, R) \in Int /\ Numbers!Over(e, R) \in Int /\ Numbers!Over(s, R) \in Int
  BY <1>3, <1>4, FinitenessIsOne, SumAdds, Numbers!SumType
<1>9. /\ Numbers!Over(f, R) <= Numbers!Over(e, R) + Numbers!Over(s, R) + n
      /\ Numbers!Over(e, R) + Numbers!Over(s, R) <= Numbers!Over(f, R) + n
  BY <1>2, <1>3, <1>6, <1>7, <1>8
<1> QED BY <1>8, <1>9 DEF R, f, e, s, n

\* There is a step of rounding for every row, which RoundOff allows for.
RowsWithinRoundOff ==
    RoundOff \in Nat /\ \A q \in Requests : Len(q.model.rows) <= RoundOff

LEMMA ConvergedIsStationary ==
    ASSUME OracleAnswersNumbers, RowsWithinRoundOff, AtNumbers, Converged(evaluation, lambda, mu)
    PROVE  Stationary(x)
<1> DEFINE n == Nonlinear(model, x)
           curved == Curved(model, model.quadratic, x)
<1>1. IsModel(model) /\ evaluation = Evaluate(request, x) BY ListTypes DEF AtNumbers
<1>2. Len(model.rows) \in Nat /\ Len(model.rows) <= RoundOff /\ RoundOff \in Nat
  BY <1>1, RowsAreAList DEF RowsWithinRoundOff, AtNumbers, model
<1>3. ASSUME NEW v \in ColumnsOf(model)
      PROVE  Magnitude(model.linear[v] + curved[v] + n.gradient[v]
                        + Total([r \in RowsOf(model) |->
                              Product(RowMultiplier(r), Jacobian(model, n)[r][v])])
                        - BoundDual(v, "lower") + BoundDual(v, "upper")) <= DualTol + RoundOff
  <2> DEFINE g == model.linear[v] + curved[v] + n.gradient[v]
             a == Numbers!Over(RowPart(v), RowsOf(model))
             b == Numbers!Over(EqualityPart(v), RowsOf(model))
             c == Numbers!Over(SidePart(v), RowsOf(model))
             low == BoundDual(v, "lower")
             up == BoundDual(v, "upper")
             residual == DualResidual(evaluation, lambda, mu)[v]
             k == Len(model.rows)
  <2>1. model.linear[v] \in Int /\ curved[v] \in Int /\ n.gradient[v] \in Int
    BY ListTypes DEF Numbered
  <2>2. g \in Int BY <2>1
  <2>3. evaluation.gradient[v] = g BY <1>1 DEF Evaluate, model
  <2>4. /\ a \in Int /\ b \in Int /\ c \in Int
        /\ a <= b + c + k /\ b + c <= a + k
    BY RowsApart
  <2>5. low \in Int /\ up \in Int
    <3>1. /\ lambda \in [DOMAIN evaluation.equalities -> Int]
          /\ mu \in [DOMAIN evaluation.inequalities -> Int]
      BY DEF AtNumbers, Numeric
    <3> QED BY <1>1, <3>1, DualTypes
  <2>6. residual = g + b + (c + (up - low))
    <3>1. Weighted(evaluation.equalities, lambda, v) = b BY EqualitiesSummed
    <3>2. Weighted(evaluation.inequalities, mu, v) = c + (up - low)
      BY InequalitiesSummed, OwnBoundsOnly
    <3> QED BY <2>3, <3>1, <3>2, ResidualType
  <2>7. Magnitude(residual) <= DualTol BY ResidualsSmall
  <2>8. Total([r \in RowsOf(model) |-> Product(RowMultiplier(r), Jacobian(model, n)[r][v])]) = a
    <3>1. [r \in RowsOf(model) |-> Product(RowMultiplier(r), Jacobian(model, n)[r][v])] = RowPart(v)
      BY DEF RowPart, Slopes
    <3>2. DOMAIN RowPart(v) = RowsOf(model) BY DEF RowPart
    <3> QED BY <3>1, <3>2, TotalIsSum
  <2>9. DualTol \in Nat BY InteriorAssumption
  <2>10. k \in Nat /\ k <= RoundOff BY <1>2
  <2>11. Magnitude(g + a - low + up) <= DualTol + RoundOff
    <3> DEFINE t == g + a - low + up
    <3> HIDE DEF g, a, b, c, low, up, residual, k
    <3>1. t \in Int /\ residual \in Int BY <2>2, <2>4, <2>5, <2>6
    <3>2. -DualTol <= residual /\ residual <= DualTol BY <2>7, <2>9, <3>1 DEF Magnitude
    <3>3. residual = g + b + c - low + up BY <2>2, <2>4, <2>5, <2>6
    <3>4. t <= residual + k /\ residual <= t + k
      BY <2>2, <2>4, <2>5, <2>10, <3>3
    <3> HIDE DEF t
    <3>5. Magnitude(t) <= DualTol + RoundOff
      BY <1>2, <2>9, <2>10, <3>1, <3>2, <3>4 DEF Magnitude
    <3> QED BY <3>5 DEF t
  <2> HIDE DEF a
  <2> QED BY <2>8, <2>11
<1> QED BY <1>3 DEF Stationary

\* For every model, oracle and backend that answer numbers with numbers, a
\* LocallyOptimal point is a KKT point of the model that was asked, with its
\* multipliers read off by rows and bounds.
THEOREM LocallyOptimalAlwaysKkt ==
    ASSUME OracleAnswersNumbers, BackendAnswersDirections, RowsWithinRoundOff
    PROVE  Spec => []LocallyOptimalIsKkt
<1>1. KktInv => LocallyOptimalIsKkt
  <2> SUFFICES ASSUME KktInv, Solved
               PROVE  LET p == result.primal_solution IN
                      AskedFor(p, PrimalTol) /\ Stationary(p) /\ Complementary(p)
    BY DEF LocallyOptimalIsKkt
  <2>1. Answered BY DEF KktInv, MatchInv, IInv, Solved, Answered
  <2>2. result.primal_solution = x /\ Converged(evaluation, lambda, mu)
    BY <2>1 DEF KktInv
  <2>3. AtNumbers
    BY <2>1, <2>2 DEF AtNumbers, KktInv, MatchInv, IInv, StaysInterior, Working
  <2>4. AskedFor(x, PrimalTol) /\ Stationary(x) /\ Complementary(x)
    BY <2>2, <2>3, ConvergedIsInside, ConvergedIsStationary, ConvergedIsComplementary
  <2> QED BY <2>2, <2>4
<1>2. Spec => []KktInv BY KktHolds
<1> QED BY <1>1, <1>2, PTL

-----------------------------------------------------------------------------
(* Every entry of evaluate's lists belongs to a row or to a bound, to the   *)
(* same one at every point.                                                 *)
LEMMA PlaceFound ==
    ASSUME NEW n \in Nat, NEW count, \A r \in 1 .. n : count[r] \in Nat
    PROVE  \A i \in 1 .. Place(count, n + 1) :
              \E r \in 1 .. n : \E j \in 1 .. count[r] : i = Place(count, r) + j
<1> DEFINE Good == {k \in Nat : k <= n =>
                       \A i \in 1 .. Place(count, k + 1) :
                          \E r \in 1 .. k : \E j \in 1 .. count[r] : i = Place(count, r) + j}
<1>1. 0 \in Good
  <2>1. 1 .. (0 + 1) - 1 = {} OBVIOUS
  <2>2. Place(count, 0 + 1) = 0 BY <2>1, Numbers!OverEmpty DEF Place
  <2> QED BY <2>2
<1>2. ASSUME NEW k \in Nat, k \in Good PROVE k + 1 \in Good
  <2> SUFFICES ASSUME k + 1 <= n, NEW i \in 1 .. Place(count, (k + 1) + 1)
               PROVE  \E r \in 1 .. k + 1 : \E j \in 1 .. count[r] : i = Place(count, r) + j
    OBVIOUS
  <2>1. /\ k <= n /\ k + 1 \in 1 .. n /\ (k + 1) - 1 = k /\ k + 1 \in Nat \ {0}
        /\ ((k + 1) + 1) - 1 = k + 1 /\ k + 1 \in 1 .. n + 1
    OBVIOUS
  <2>2. \A s \in 1 .. k + 1 : count[s] \in Int OBVIOUS
  <2>3. Numbers!Over(count, 1 .. k + 1) = count[k + 1] + Numbers!Over(count, 1 .. k)
    BY <2>1, <2>2, SumNext
  <2>4. Place(count, (k + 1) + 1) = count[k + 1] + Place(count, k + 1)
    BY <2>1, <2>3 DEF Place
  <2>5. Place(count, k + 1) \in Nat /\ count[k + 1] \in Nat BY <2>1, CountTypes
  <2>6. CASE i \in 1 .. Place(count, k + 1)
    <3>1. \E r \in 1 .. k : \E j \in 1 .. count[r] : i = Place(count, r) + j
      BY <1>2, <2>1, <2>6
    <3>2. 1 .. k \subseteq 1 .. k + 1 OBVIOUS
    <3> QED BY <3>1, <3>2
  <2>7. CASE i \notin 1 .. Place(count, k + 1)
    <3> DEFINE j == i - Place(count, k + 1)
    <3>1. j \in 1 .. count[k + 1] /\ i = Place(count, k + 1) + j BY <2>4, <2>5, <2>7
    <3>2. k + 1 \in 1 .. k + 1 OBVIOUS
    <3> HIDE DEF j
    <3> QED BY <3>1, <3>2
  <2> QED BY <2>6, <2>7
<1>3. \A k \in Nat : k \in Good
  <2> HIDE DEF Good
  <2> QED BY <1>1, <1>2, Numbers!NumberInduction
<1>4. n <= n OBVIOUS
<1> QED BY <1>3, <1>4

LEMMA EqualityFound ==
    ASSUME NEW q, IsModel(q.model), NEW p, NEW i \in DOMAIN Evaluate(q, p).equalities
    PROVE  \E r \in RowsOf(q.model) :
              /\ IsEquality(q.model.rows[r])
              /\ \A s : Evaluate(q, s).equalities[i]
                          = NlpRow(Jacobian(q.model, Nonlinear(q.model, s))[r],
                                   Constraints(q.model, s, Nonlinear(q.model, s))[r]
                                     - q.model.rows[r].lower)
<1> DEFINE m == q.model
           n == Len(m.rows)
           count == EqualityCounts(m)
           at(s, r) == NlpRow(Jacobian(m, Nonlinear(m, s))[r],
                              Constraints(m, s, Nonlinear(m, s))[r] - m.rows[r].lower)
<1>1. n \in Nat /\ RowsOf(m) = 1 .. n BY RowsAreAList
<1>2. \A r \in 1 .. n : count[r] \in Nat /\ count[r] = One(IsEquality(m.rows[r]))
  BY CountsAreNaturals
<1>3. i \in 1 .. Place(count, n + 1)
  <2>1. /\ \E T : Evaluate(q, p).equalities \in Seq(T)
        /\ Len(Evaluate(q, p).equalities) = Place(count, n + 1)
    BY EqualitiesHold
  <2>2. \A T : \A f \in Seq(T) : DOMAIN f = 1 .. Len(f) OBVIOUS
  <2> QED BY <2>1, <2>2
<1>4. PICK r \in 1 .. n : \E j \in 1 .. count[r] : i = Place(count, r) + j
  <2>1. \A k \in 1 .. n : count[k] \in Nat BY <1>2
  <2> HIDE DEF n, count
  <2> QED BY <1>1, <1>3, <2>1, PlaceFound
<1>5. PICK j \in 1 .. count[r] : i = Place(count, r) + j BY <1>4
<1>6. IsEquality(m.rows[r]) /\ j = 1
  <2>1. count[r] = One(IsEquality(m.rows[r])) BY <1>2
  <2>2. j \in 1 .. count[r] BY <1>5
  <2> HIDE DEF count
  <2> QED BY <2>1, <2>2 DEF One
<1>7. i = Place(count, r) + 1 BY <1>5, <1>6
<1>8. \A s : IsEquality(m.rows[r]) =>
         Evaluate(q, s).equalities[Place(count, r) + 1] = at(s, r)
  BY EqualitiesHold
<1>9. \A s : Evaluate(q, s).equalities[i] = at(s, r) BY <1>6, <1>7, <1>8
<1> QED BY <1>1, <1>6, <1>9

LEMMA SideFound ==
    ASSUME NEW lower, NEW upper, NEW j \in 1 .. SideCount(lower, upper)
    PROVE  \/ Finite(lower) /\ j = 1
           \/ Finite(upper) /\ j = One(Finite(lower)) + 1
<1>1. j \in 1 .. One(Finite(lower)) + One(Finite(upper)) BY DEF SideCount
<1>2. Finite(lower) \in BOOLEAN /\ Finite(upper) \in BOOLEAN BY FiniteType
<1> QED BY <1>1, <1>2 DEF One

LEMMA InequalityFound ==
    ASSUME NEW q, IsModel(q.model), NEW p, NEW i \in DOMAIN Evaluate(q, p).inequalities
    PROVE  LET m == q.model
               slope(s) == Jacobian(m, Nonlinear(m, s))
               value(s) == Constraints(m, s, Nonlinear(m, s))
               entry(s) == Evaluate(q, s).inequalities[i]
           IN  \/ \E r \in RowsOf(m) :
                     /\ Finite(m.rows[r].lower)
                     /\ \A s : entry(s) = NlpRow(Minus(slope(s)[r]), m.rows[r].lower - value(s)[r])
               \/ \E r \in RowsOf(m) :
                     /\ Finite(m.rows[r].upper)
                     /\ \A s : entry(s) = NlpRow(slope(s)[r], value(s)[r] - m.rows[r].upper)
               \/ \E v \in ColumnsOf(m) :
                     /\ Finite(LowerBounds(q)[v])
                     /\ \A s : entry(s) = NlpRow(Basis(m, v, -Unit), LowerBounds(q)[v] - s[v])
               \/ \E v \in ColumnsOf(m) :
                     /\ Finite(UpperBounds(q)[v])
                     /\ \A s : entry(s) = NlpRow(Basis(m, v, Unit), s[v] - UpperBounds(q)[v])
<1> DEFINE m == q.model
           n == Len(m.rows)
           k == Len(m.linear)
           L == LowerBounds(q)
           U == UpperBounds(q)
           slope(s) == Jacobian(m, Nonlinear(m, s))
           value(s) == Constraints(m, s, Nonlinear(m, s))
           entry(s) == Evaluate(q, s).inequalities[i]
           R(s) == RowLists(m, value(s), slope(s))
           B(s) == BoundLists(m, L, U, s)
           rc == RowCounts(m)
           bc == BoundCounts(q)
           all == Shift(m) + Place(bc, k + 1)
<1>1. n \in Nat /\ RowsOf(m) = 1 .. n /\ k \in Nat /\ ColumnsOf(m) = 1 .. k BY RowsAreAList
<1>2. /\ \A r \in 1 .. n : rc[r] \in Nat /\ rc[r] = RowCount(m.rows[r])
      /\ \A v \in 1 .. k : bc[v] \in Nat /\ bc[v] = SideCount(L[v], U[v])
      /\ Shift(m) \in Nat /\ Place(bc, k + 1) \in Nat
  <2>1. n + 1 \in 1 .. n + 1 /\ k + 1 \in 1 .. k + 1 BY <1>1
  <2> QED BY <2>1, CountsAreNaturals DEF Shift
<1>3. i \in 1 .. all
  <2>1. /\ \E T : Evaluate(q, p).inequalities \in Seq(T)
        /\ Len(Evaluate(q, p).inequalities) = all
    BY InequalitiesHold
  <2>2. \A T : \A f \in Seq(T) : DOMAIN f = 1 .. Len(f) OBVIOUS
  <2> QED BY <2>1, <2>2
<1>4. CASE i \in 1 .. Shift(m)
  <2>1. \E r \in 1 .. n : \E j \in 1 .. rc[r] : i = Place(rc, r) + j
    <3>1. \A r \in 1 .. n : rc[r] \in Nat BY <1>2
    <3>2. i \in 1 .. Place(rc, n + 1) BY <1>4 DEF Shift
    <3> HIDE DEF n, rc
    <3> QED BY <1>1, <3>1, <3>2, PlaceFound
  <2>2. PICK r \in 1 .. n : \E j \in 1 .. rc[r] : i = Place(rc, r) + j BY <2>1
  <2>3. PICK j \in 1 .. rc[r] : i = Place(rc, r) + j BY <2>2
  <2>4. ~IsEquality(m.rows[r]) /\ rc[r] = SideCount(m.rows[r].lower, m.rows[r].upper)
    <3>1. rc[r] = RowCount(m.rows[r]) /\ j \in 1 .. rc[r] BY <1>2, <2>3
    <3> HIDE DEF rc
    <3> QED BY <3>1 DEF RowCount
  <2>5. \/ Finite(m.rows[r].lower) /\ j = 1
        \/ Finite(m.rows[r].upper) /\ j = One(Finite(m.rows[r].lower)) + 1
    BY <2>3, <2>4, SideFound
  <2>6. \A s : entry(s) = R(s)[r][j]
    <3> TAKE s
    <3>1. \A a \in 1 .. n : \A b \in 1 .. rc[a] :
             Evaluate(q, s).inequalities[Place(rc, a) + b] = R(s)[a][b]
      BY InequalitiesHold
    <3>2. Evaluate(q, s).inequalities[Place(rc, r) + j] = R(s)[r][j]
      <4> HIDE DEF rc, R, n
      <4> QED BY <2>2, <2>3, <3>1
    <3> QED BY <2>3, <3>2
  <2>7. \A s : /\ Finite(m.rows[r].lower) =>
                    R(s)[r][1] = NlpRow(Minus(slope(s)[r]), m.rows[r].lower - value(s)[r])
               /\ Finite(m.rows[r].upper) =>
                    R(s)[r][One(Finite(m.rows[r].lower)) + 1]
                      = NlpRow(slope(s)[r], value(s)[r] - m.rows[r].upper)
    <3> TAKE s
    <3> QED BY <2>2, <2>4, RowPieces
  <2>8. CASE Finite(m.rows[r].lower) /\ j = 1
    <3>1. \A s : entry(s) = NlpRow(Minus(slope(s)[r]), m.rows[r].lower - value(s)[r])
      BY <2>6, <2>7, <2>8
    <3> QED BY <1>1, <2>8, <3>1
  <2>9. CASE Finite(m.rows[r].upper) /\ j = One(Finite(m.rows[r].lower)) + 1
    <3>1. \A s : entry(s) = NlpRow(slope(s)[r], value(s)[r] - m.rows[r].upper)
      BY <2>6, <2>7, <2>9
    <3> QED BY <1>1, <2>9, <3>1
  <2> QED BY <2>5, <2>8, <2>9
<1>5. CASE i \notin 1 .. Shift(m)
  <2>1. \E v \in 1 .. k : \E j \in 1 .. bc[v] : i - Shift(m) = Place(bc, v) + j
    <3>1. \A v \in 1 .. k : bc[v] \in Nat BY <1>2
    <3>2. i - Shift(m) \in 1 .. Place(bc, k + 1)
      <4>1. i \in 1 .. Shift(m) + Place(bc, k + 1) BY <1>3
      <4> HIDE DEF k, bc
      <4> QED BY <1>2, <1>5, <4>1
    <3> HIDE DEF k, bc
    <3> QED BY <1>1, <3>1, <3>2, PlaceFound
  <2>2. PICK v \in 1 .. k : \E j \in 1 .. bc[v] : i - Shift(m) = Place(bc, v) + j BY <2>1
  <2>3. PICK j \in 1 .. bc[v] : i - Shift(m) = Place(bc, v) + j BY <2>2
  <2>4. i = Shift(m) + (Place(bc, v) + j)
    <3>1. i \in Int BY <1>2, <1>3
    <3> HIDE DEF bc
    <3> QED BY <1>2, <2>3, <3>1
  <2>5. \/ Finite(L[v]) /\ j = 1
        \/ Finite(U[v]) /\ j = One(Finite(L[v])) + 1
    <3>1. j \in 1 .. SideCount(L[v], U[v]) BY <1>2, <2>3
    <3> QED BY <3>1, SideFound
  <2>6. \A s : entry(s) = B(s)[v][j]
    <3> TAKE s
    <3>1. \A a \in 1 .. k : \A b \in 1 .. bc[a] :
             Evaluate(q, s).inequalities[Shift(m) + (Place(bc, a) + b)] = B(s)[a][b]
      BY InequalitiesHold
    <3>2. Evaluate(q, s).inequalities[Shift(m) + (Place(bc, v) + j)] = B(s)[v][j]
      <4> HIDE DEF bc, B, k
      <4> QED BY <2>2, <2>3, <3>1
    <3> QED BY <2>4, <3>2
  <2>7. \A s : /\ Finite(L[v]) => B(s)[v][1] = NlpRow(Basis(m, v, -Unit), L[v] - s[v])
               /\ Finite(U[v]) => B(s)[v][One(Finite(L[v])) + 1]
                                    = NlpRow(Basis(m, v, Unit), s[v] - U[v])
    <3> TAKE s
    <3>1. \A a \in 1 .. k :
             /\ Finite(L[a]) => B(s)[a][1] = NlpRow(Basis(m, a, -Unit), L[a] - s[a])
             /\ Finite(U[a]) => B(s)[a][One(Finite(L[a])) + 1]
                                  = NlpRow(Basis(m, a, Unit), s[a] - U[a])
      BY BoundListFacts
    <3> QED BY <2>2, <3>1
  <2>8. CASE Finite(L[v]) /\ j = 1
    <3>1. \A s : entry(s) = NlpRow(Basis(m, v, -Unit), L[v] - s[v]) BY <2>6, <2>7, <2>8
    <3> QED BY <1>1, <2>8, <3>1
  <2>9. CASE Finite(U[v]) /\ j = One(Finite(L[v])) + 1
    <3>1. \A s : entry(s) = NlpRow(Basis(m, v, Unit), s[v] - U[v]) BY <2>6, <2>7, <2>9
    <3> QED BY <1>1, <2>9, <3>1
  <2> QED BY <2>5, <2>8, <2>9
<1> QED BY <1>4, <1>5

-----------------------------------------------------------------------------
(* Weak duality, in sums over the lists.                                    *)

\* A product is within half a step of what it rounds.
LEMMA ProductIsNearest ==
    ASSUME NEW a \in Int, NEW b \in Int
    PROVE  /\ Product(a, b) \in Int
           /\ 2 * (a * b) - Unit <= 2 * (Unit * Product(a, b))
           /\ 2 * (Unit * Product(a, b)) <= 2 * (a * b) + Unit
<1> DEFINE h == Unit \div 2
           t == a * b + h
<1>1. h \in Nat /\ 2 * h <= Unit /\ Unit < 2 * h + 2 /\ h < Unit BY HalfAUnit
<1>2. a * b \in Int /\ Unit \in Nat \ {0} BY GridAssumption
<1>3. t \in Int BY <1>1, <1>2
<1>4. Product(a, b) = t \div Unit BY DEF Product
<1>5. t \div Unit \in Int /\ Unit * (t \div Unit) <= t /\ t < Unit * (t \div Unit) + Unit
  <2> HIDE DEF t
  <2> QED BY <1>2, <1>3, DivFacts
<1> DEFINE ab == a * b
           w == Unit * (t \div Unit)
<1>6. w \in Int /\ ab \in Int /\ w <= ab + h /\ ab + h < w + Unit /\ Unit \in Int
  BY <1>1, <1>2, <1>5
<1>7. 2 * ab - Unit <= 2 * w /\ 2 * w <= 2 * ab + Unit
  <2> HIDE DEF w, ab, t, h
  <2> QED BY <1>1, <1>6
<1> QED BY <1>4, <1>5, <1>7

\* A rounded product along a step d.
LEMMA ProductAlong ==
    ASSUME NEW a \in Int, NEW b \in Int, NEW d \in Int
    PROVE  2 * (Unit * (Product(a, b) * d)) <= 2 * (a * (b * d)) + Unit * Magnitude(d)
<1> DEFINE p == Product(a, b)
           g == 2 * (Unit * p) - 2 * (a * b)
<1>1. p \in Int /\ g \in Int /\ -Unit <= g /\ g <= Unit /\ Unit \in Nat
  <2> DEFINE ab == a * b
             up == Unit * p
  <2>1. /\ p \in Int /\ Unit \in Nat /\ ab \in Int
        /\ 2 * ab - Unit <= 2 * up /\ 2 * up <= 2 * ab + Unit
    BY ProductIsNearest, GridAssumption
  <2>2. up \in Int BY <2>1
  <2> HIDE DEF p, ab, up
  <2>3. 2 * up - 2 * ab \in Int /\ -Unit <= 2 * up - 2 * ab /\ 2 * up - 2 * ab <= Unit
    BY <2>1, <2>2
  <2> QED BY <2>1, <2>3 DEF ab, up
<1>2. 2 * (Unit * (p * d)) - 2 * (a * (b * d)) = g * d
  <2> HIDE DEF p
  <2> QED BY <1>1
<1>3. g * d <= Unit * Magnitude(d)
  <2> HIDE DEF g
  <2>1. CASE d >= 0
    <3>1. g * d <= Unit * d BY <1>1, <2>1
    <3> QED BY <2>1, <3>1 DEF Magnitude
  <2>2. CASE d < 0
    <3>1. (-g) * (-d) <= Unit * (-d) BY <1>1, <2>2
    <3>2. (-g) * (-d) = g * d BY <1>1
    <3> QED BY <2>2, <3>1, <3>2 DEF Magnitude
  <2> QED BY <2>1, <2>2
<1>4. 2 * (Unit * (p * d)) \in Int /\ 2 * (a * (b * d)) \in Int /\ g * d \in Int
      /\ Unit * Magnitude(d) \in Int
  <2> HIDE DEF p, g
  <2> QED BY <1>1, MagnitudeType
<1> QED
  <2> HIDE DEF p, g
  <2>1. \A r, s, t, u \in Int : r - s = t /\ t <= u => r <= s + u OBVIOUS
  <2> QED BY <1>2, <1>3, <1>4, <2>1 DEF p

\* A list's weights w and slopes, rounded and summed for each variable, and
\* summed along a step d, unrounded, for each entry.
Summed(N, C, w, slope, d, p, W, a, A, mag, l, E) ==
    /\ IsFiniteSet(N) /\ IsFiniteSet(C)
    /\ \A i \in N : w[i] \in Int /\ \A v \in C : slope[i][v] \in Int
    /\ \A v \in C : d[v] \in Int
    /\ \A v \in C : \A i \in N : p[v][i] = Product(w[i], slope[i][v])
    /\ \A v \in C : W[v] = Numbers!Over(p[v], N) * d[v]
    /\ \A i \in N : \A v \in C : a[i][v] = slope[i][v] * d[v]
    /\ \A i \in N : A[i] = Numbers!Over(a[i], C)
    /\ \A v \in C : mag[v] = Magnitude(d[v])
    /\ l = Numbers!Over(mag, C)
    /\ \A i \in N : E[i] = 2 * (w[i] * A[i]) + Unit * l

\* The weighted gradients of a list along a step, by entries and not by
\* variables: a step of rounding for each pair is half a step of each length.
LEMMA WeightedAlong ==
    ASSUME NEW N, NEW C, NEW w, NEW slope, NEW d, NEW p, NEW W, NEW a, NEW A,
           NEW mag, NEW l, NEW E, Summed(N, C, w, slope, d, p, W, a, A, mag, l, E)
    PROVE  /\ \A v \in C : W[v] \in Int
           /\ \A i \in N : A[i] \in Int
           /\ 2 * (Unit * Numbers!Over(W, C)) <= Numbers!Over(E, N)
<1> DEFINE u == Unit
           t == [v \in C |-> [i \in N |-> 2 * (w[i] * (slope[i][v] * d[v])) + u * mag[v]]]
           W2 == [v \in C |-> (2 * u) * W[v]]
           H == [v \in C |-> Numbers!Over(t[v], N)]
           G == [i \in N |-> Numbers!Over([v \in C |-> t[v][i]], C)]
<1> USE DEF Summed
<1>0. Numbers!IsFiniteSet(N) /\ Numbers!IsFiniteSet(C) /\ Numbers!Adds BY FinitenessIsOne, SumAdds
<1>1. u \in Nat \ {0} BY GridAssumption
<1>2. \A v \in C : mag[v] \in Int /\ mag[v] = Magnitude(d[v]) BY MagnitudeType
<1>3. l \in Int BY <1>0, <1>2, Numbers!SumType
<1>4. ASSUME NEW v \in C
      PROVE  /\ \A i \in N : p[v][i] \in Int /\ p[v][i] = Product(w[i], slope[i][v])
             /\ Numbers!Over(p[v], N) \in Int
             /\ W[v] = Numbers!Over(p[v], N) * d[v] /\ W[v] \in Int /\ d[v] \in Int
  <2>1. \A i \in N : p[v][i] \in Int /\ p[v][i] = Product(w[i], slope[i][v]) BY ProductType
  <2>2. W[v] = Numbers!Over(p[v], N) * d[v] /\ d[v] \in Int OBVIOUS
  <2>3. Numbers!Over(p[v], N) \in Int BY <1>0, <2>1, Numbers!SumType
  <2> QED BY <2>1, <2>2, <2>3
<1>5. ASSUME NEW i \in N
      PROVE  /\ \A v \in C : a[i][v] \in Int /\ a[i][v] = slope[i][v] * d[v]
             /\ A[i] = Numbers!Over(a[i], C) /\ A[i] \in Int
  <2>1. \A v \in C : a[i][v] \in Int /\ a[i][v] = slope[i][v] * d[v] OBVIOUS
  <2>2. A[i] = Numbers!Over(a[i], C) OBVIOUS
  <2> QED BY <1>0, <2>1, <2>2, Numbers!SumType
<1>6. \A v \in C : \A i \in N :
         t[v][i] = 2 * (w[i] * (slope[i][v] * d[v])) + u * mag[v] /\ t[v][i] \in Int
  BY <1>1, <1>2
<1>7. ASSUME NEW v \in C PROVE W2[v] <= H[v] /\ W2[v] \in Int /\ H[v] \in Int
  <2> DEFINE k == (2 * u) * d[v]
             kp == [i \in N |-> k * p[v][i]]
  <2>1. k \in Int BY <1>1, <1>4
  <2>2. \A i \in N : kp[i] = k * p[v][i] /\ p[v][i] \in Int BY <1>4
  <2>3. \A i \in N : kp[i] \in Int /\ kp[i] <= t[v][i] /\ t[v][i] \in Int
    <3> TAKE i \in N
    <3>1. w[i] \in Int /\ slope[i][v] \in Int /\ d[v] \in Int OBVIOUS
    <3>2. 2 * (Unit * (Product(w[i], slope[i][v]) * d[v]))
            <= 2 * (w[i] * (slope[i][v] * d[v])) + Unit * Magnitude(d[v])
      BY <3>1, ProductAlong
    <3>3. kp[i] = k * Product(w[i], slope[i][v]) /\ Product(w[i], slope[i][v]) \in Int BY <1>4
    <3>4. kp[i] = 2 * (u * (Product(w[i], slope[i][v]) * d[v])) /\ kp[i] \in Int
      <4> DEFINE e == Product(w[i], slope[i][v])
      <4> HIDE DEF u, e, kp
      <4> QED BY <1>1, <3>1, <3>3 DEF e
    <3> HIDE DEF kp, t
    <3> QED BY <1>2, <1>6, <3>2, <3>4
  <2>4. Numbers!Over(kp, N) = k * Numbers!Over(p[v], N)
    <3> HIDE DEF kp, k
    <3> QED BY <1>0, <2>1, <2>2, Numbers!SumScaled
  <2>5. Numbers!Over(kp, N) <= Numbers!Over(t[v], N)
    <3> HIDE DEF kp, t
    <3> QED BY <1>0, <2>3, Numbers!SumLess
  <2>6. Numbers!Over(t[v], N) \in Int
    <3> HIDE DEF t
    <3> QED BY <1>0, <1>6, Numbers!SumType
  <2>7. W2[v] = (2 * u) * (Numbers!Over(p[v], N) * d[v]) BY <1>4
  <2>8. k * Numbers!Over(p[v], N) = W2[v] /\ W2[v] \in Int
    <3> DEFINE o == Numbers!Over(p[v], N)
    <3>1. o \in Int /\ d[v] \in Int BY <1>4
    <3>2. W2[v] = (2 * u) * (o * d[v]) BY <2>7
    <3> HIDE DEF o, W2, u
    <3> QED BY <1>1, <3>1, <3>2 DEF o
  <2>9. H[v] = Numbers!Over(t[v], N) OBVIOUS
  <2> HIDE DEF W2, H, kp, t
  <2> QED BY <2>4, <2>5, <2>6, <2>8, <2>9
<1>8. Numbers!Over(W2, C) <= Numbers!Over(H, C)
  <2> HIDE DEF W2, H
  <2> QED BY <1>0, <1>7, Numbers!SumLess
<1>9. Numbers!Over(W2, C) = (2 * u) * Numbers!Over(W, C) /\ Numbers!Over(W, C) \in Int
  <2>1. \A v \in C : W[v] \in Int /\ W2[v] = (2 * u) * W[v] BY <1>4
  <2>2. 2 * u \in Int BY <1>1
  <2> HIDE DEF W2
  <2> QED BY <1>0, <2>1, <2>2, Numbers!SumScaled, Numbers!SumType
<1>10. Numbers!Over(H, C) = Numbers!Over(G, N)
  <2> HIDE DEF t
  <2> QED BY <1>0, <1>6, Numbers!SumsExchanged
<1>11. \A i \in N : G[i] = E[i]
  <2> TAKE i \in N
  <2> DEFINE ti == [v \in C |-> t[v][i]]
             k == 2 * w[i]
             ka == [v \in C |-> k * a[i][v]]
             um == [v \in C |-> u * mag[v]]
  <2>1. k \in Int /\ w[i] \in Int OBVIOUS
  <2>2. \A v \in C : a[i][v] \in Int /\ ka[v] = k * a[i][v] /\ ka[v] \in Int
    BY <1>5, <2>1
  <2>3. \A v \in C : mag[v] \in Int /\ um[v] = u * mag[v] /\ um[v] \in Int BY <1>1, <1>2
  <2>4. \A v \in C : ti[v] = ka[v] + um[v]
    <3> TAKE v \in C
    <3>1. ti[v] = 2 * (w[i] * (slope[i][v] * d[v])) + u * mag[v] BY <1>6
    <3>2. ka[v] = (2 * w[i]) * (slope[i][v] * d[v]) /\ um[v] = u * mag[v] BY <1>5
    <3>3. (2 * w[i]) * (slope[i][v] * d[v]) = 2 * (w[i] * (slope[i][v] * d[v]))
      <4> DEFINE e == slope[i][v] * d[v]
      <4>1. e \in Int OBVIOUS
      <4> HIDE DEF e
      <4> QED BY <2>1, <4>1
    <3> HIDE DEF ti, ka, um
    <3> QED BY <3>1, <3>2, <3>3
  <2>5. Numbers!Over(ka, C) = k * Numbers!Over(a[i], C)
    <3> HIDE DEF ka, k
    <3> QED BY <1>0, <2>1, <2>2, Numbers!SumScaled
  <2>6. Numbers!Over(um, C) = u * l
    <3> HIDE DEF um
    <3> QED BY <1>0, <1>1, <2>3, Numbers!SumScaled
  <2>7. Numbers!Over(ti, C) = Numbers!Over(ka, C) + Numbers!Over(um, C)
    <3> HIDE DEF ti, ka, um
    <3> QED BY <1>0, <2>2, <2>3, <2>4, Numbers!SumOfSums
  <2>8. A[i] = Numbers!Over(a[i], C) /\ A[i] \in Int BY <1>5
  <2>9. k * A[i] = 2 * (w[i] * A[i]) BY <2>1, <2>8
  <2>10. G[i] = Numbers!Over(ti, C) /\ E[i] = 2 * (w[i] * A[i]) + u * l OBVIOUS
  <2> HIDE DEF G, ti, ka, um, k
  <2> QED BY <2>5, <2>6, <2>7, <2>8, <2>9, <2>10
<1>12. Numbers!Over(G, N) = Numbers!Over(E, N)
  <2> HIDE DEF G
  <2> QED BY <1>0, <1>11, Numbers!OverEqual
<1>13. 2 * (u * Numbers!Over(W, C)) <= Numbers!Over(E, N)
  <2>1. (2 * u) * Numbers!Over(W, C) = 2 * (u * Numbers!Over(W, C)) BY <1>1, <1>9
  <2> HIDE DEF G, H, W2
  <2> QED BY <1>8, <1>9, <1>10, <1>12, <2>1
<1> QED BY <1>4, <1>5, <1>13

\* How far a slope rises from p to s, Unit steps to a step.
Toward(m, slope, p, s) == Total([v \in ColumnsOf(m) |-> slope[v] * (s[v] - p[v])])
Below(m, slope, p, s, rise) == Toward(m, slope, p, s) <= Unit * (rise + RoundOff)
\* What is asked of the oracle of a convex model, up to RoundOff steps, at the
\* points compared: the objective, and a row with an upper side, lie above their
\* tangents at an interior point, and a row with a lower side lies below.
ConvexOracle ==
    /\ RoundOff \in Nat /\ RoundOff >= 2
    /\ \A q \in Requests : q.model.convex =>
          \A p \in Numbered(q.model), s \in GridPoints \cap Numbered(q.model) :
             Nonlinear(q.model, p).finite /\ Nonlinear(q.model, s).finite
               /\ Interior(Evaluate(q, p)) =>
                LET m == q.model
                    slope(r) == Jacobian(m, Nonlinear(m, p))[r]
                    rise(r) == Constraints(m, s, Nonlinear(m, s))[r]
                                 - Constraints(m, p, Nonlinear(m, p))[r]
                IN  /\ Below(m, Evaluate(q, p).gradient, p, s,
                             Evaluate(q, s).objective - Evaluate(q, p).objective)
                    /\ \A r \in RowsOf(m) :
                          /\ Finite(m.rows[r].upper) => Below(m, slope(r), p, s, rise(r))
                          /\ Finite(m.rows[r].lower) =>
                                Below(m, Minus(slope(r)), p, s, -rise(r))

LEMMA TowardType ==
    ASSUME NEW m, IsModel(m), NEW slope \in Numbered(m), NEW p \in Numbered(m), NEW s \in Numbered(m)
    PROVE  /\ Toward(m, slope, p, s) \in Int
           /\ Toward(m, Minus(slope), p, s) = -Toward(m, slope, p, s)
<1> DEFINE C == ColumnsOf(m)
           f == [v \in C |-> slope[v] * (s[v] - p[v])]
           g == [v \in C |-> Minus(slope)[v] * (s[v] - p[v])]
<1>1. IsFiniteSet(C) BY RowsAreAList, IntervalsAreFinite
<1>2. \A v \in C : f[v] \in Int /\ g[v] = (-1) * f[v]
  <2> TAKE v \in C
  <2>1. slope[v] \in Int /\ s[v] \in Int /\ p[v] \in Int BY DEF Numbered
  <2>2. Minus(slope)[v] = -slope[v] BY DEF Minus, Numbered
  <2>3. f[v] = slope[v] * (s[v] - p[v]) /\ g[v] = (-slope[v]) * (s[v] - p[v]) BY <2>2
  <2>4. \A a, b \in Int : a * b \in Int /\ (-a) * b = (-1) * (a * b) OBVIOUS
  <2> HIDE DEF f, g
  <2> QED BY <2>1, <2>3, <2>4
<1>3. DOMAIN f = C /\ DOMAIN g = C OBVIOUS
<1>4. Toward(m, slope, p, s) = Total(f) /\ Toward(m, Minus(slope), p, s) = Total(g)
  BY DEF Toward
<1> HIDE DEF f, g, C
<1>5. Numbers!Over(f, C) \in Int BY <1>1, <1>2, FinitenessIsOne, SumAdds, Numbers!SumType
<1>6. Numbers!Over(g, C) = (-1) * Numbers!Over(f, C)
  BY <1>1, <1>2, FinitenessIsOne, SumAdds, Numbers!SumScaled
<1> QED BY <1>3, <1>4, <1>5, <1>6, TotalIsSum

LEMMA TowardBasis ==
    ASSUME NEW m, IsModel(m), NEW a \in Int, NEW v \in ColumnsOf(m),
           NEW p \in Numbered(m), NEW s \in Numbered(m)
    PROVE  Toward(m, Basis(m, v, a), p, s) = a * (s[v] - p[v])
<1> DEFINE C == ColumnsOf(m)
           f == [w \in C |-> Basis(m, v, a)[w] * (s[w] - p[w])]
           c == a * (s[v] - p[v])
<1>1. IsFiniteSet(C) /\ v \in C BY RowsAreAList, IntervalsAreFinite
<1>2. \A w \in C : s[w] \in Int /\ p[w] \in Int BY DEF Numbered
<1>3. \A w \in C : f[w] = (IF w = v THEN a ELSE 0) * (s[w] - p[w]) BY DEF Basis
<1>4. c \in Int /\ \A w \in C : f[w] = (IF w = v THEN c ELSE 0) /\ f[w] \in Int
  <2> HIDE DEF f
  <2> QED BY <1>1, <1>2, <1>3
<1>5. DOMAIN f = C /\ Toward(m, Basis(m, v, a), p, s) = Total(f) BY DEF Toward
<1> HIDE DEF f, c, C
<1>6. Numbers!Over(f, C) = f[v] + Numbers!Over(f, C \ {v})
  BY <1>1, <1>4, FinitenessIsOne, SumAdds, Numbers!SumAny
<1>7. Numbers!Over(f, C \ {v}) = 0
  <2>1. IsFiniteSet(C \ {v}) BY <1>1, FS_Subset
  <2>2. \A w \in C \ {v} : f[w] = 0 BY <1>4
  <2>3. Numbers!Over(f, C \ {v}) = 0 * Cardinality(C \ {v})
    BY <2>1, <2>2, FinitenessIsOne, SumAdds, Numbers!SumOfConstant
  <2>4. Cardinality(C \ {v}) \in Nat BY <2>1, FS_CardinalityType
  <2> QED BY <2>3, <2>4
<1> QED BY <1>1, <1>4, <1>5, <1>6, <1>7, TotalIsSum DEF c

\* At a feasible point, every entry of the lists rises by no more than what is
\* left of it.
LEMMA TangentFacts ==
    ASSUME OracleAnswersNumbers, ConvexOracle, AtNumbers, model.convex,
           NEW p \in Numbered(model), p \in GridPoints, Nonlinear(model, p).finite, AskedFor(p, 0)
    PROVE  /\ evaluation.objective \in Int /\ Evaluate(request, p).objective \in Int
           /\ Below(model, evaluation.gradient, x, p,
                    Evaluate(request, p).objective - evaluation.objective)
           /\ \A i \in DOMAIN mu :
                 Below(model, evaluation.inequalities[i].gradient, x, p,
                       -evaluation.inequalities[i].value)
           /\ \A i \in DOMAIN lambda :
                 LET e == evaluation.equalities[i]
                     t == Toward(model, e.gradient, x, p)
                 IN  t <= Unit * (RoundOff - e.value) /\ -t <= Unit * (RoundOff + e.value)
<1> DEFINE m == request.model
           S(s) == Jacobian(m, Nonlinear(m, s))
           V(s) == Constraints(m, s, Nonlinear(m, s))
           L == LowerBounds(request)
           U == UpperBounds(request)
<1>1. /\ IsModel(m) /\ m = model /\ request \in Requests /\ m.convex
      /\ x \in Numbered(m) /\ Nonlinear(m, x).finite /\ p \in Numbered(m) /\ Nonlinear(m, p).finite
      /\ evaluation = Evaluate(request, x) /\ Interior(Evaluate(request, x)) /\ p \in GridPoints
      /\ RoundOff \in Nat /\ Unit \in Nat \ {0}
  BY ListTypes, GridAssumption DEF AtNumbers, Numeric, ConvexOracle, model
<1>2. /\ Below(m, Evaluate(request, x).gradient, x, p,
               Evaluate(request, p).objective - Evaluate(request, x).objective)
      /\ \A r \in RowsOf(m) :
            /\ Finite(m.rows[r].upper) => Below(m, S(x)[r], x, p, V(p)[r] - V(x)[r])
            /\ Finite(m.rows[r].lower) => Below(m, Minus(S(x)[r]), x, p, -(V(p)[r] - V(x)[r]))
  BY <1>1 DEF ConvexOracle
<1>3. ASSUME NEW s \in {x, p}
      PROVE  /\ V(s) \in [RowsOf(m) -> Int] /\ S(s) \in [RowsOf(m) -> Numbered(m)]
             /\ ObjectiveValue(m, s) \in Int => Evaluate(request, s).objective \in Int
             /\ Curved(m, m.quadratic, s) \in Numbered(m)
  <2> DEFINE n == Nonlinear(m, s)
  <2>1. s \in Numbered(m) /\ n.finite BY <1>1
  <2>2. /\ n.gradient \in Numbered(m) /\ n.values \in [RowsOf(m) -> Int]
        /\ n.jacobian \in [RowsOf(m) -> Numbered(m)] /\ n.objective \in Int
    BY <1>1, <2>1 DEF OracleAnswersNumbers
  <2>3. /\ Constraints(m, s, n) \in [RowsOf(m) -> Int]
        /\ Jacobian(m, n) \in [RowsOf(m) -> Numbered(m)]
        /\ Curved(m, m.quadratic, s) \in Numbered(m)
    <3> HIDE DEF n
    <3> QED BY <1>1, <2>1, <2>2, ConstraintTypes
  <2>4. Evaluate(request, s).objective = ObjectiveValue(m, s) + n.objective BY DEF Evaluate
  <2> QED BY <2>2, <2>3, <2>4
<1>4. ASSUME NEW s \in {x, p} PROVE ObjectiveValue(m, s) \in Int
  <2> DEFINE C == ColumnsOf(m)
             c == Curved(m, m.quadratic, s)
             f == [v \in DOMAIN m.linear |-> Product(m.linear[v], s[v])]
             g == [v \in DOMAIN s |-> Product(s[v], c[v])]
  <2>1. /\ m.linear \in [C -> Int] /\ s \in [C -> Int] /\ c \in [C -> Int] /\ m.offset \in Int
    BY <1>1, <1>3, ListTypes DEF Numbered, IsModel
  <2>2. IsFiniteSet(C) BY <1>1, RowsAreAList, IntervalsAreFinite
  <2>3. DOMAIN f = C /\ DOMAIN g = C /\ \A v \in C : f[v] \in Int /\ g[v] \in Int
    BY <2>1, ProductType
  <2>4. Times(m.linear, s) = Total(f) /\ Times(s, c) = Total(g) BY DEF Times
  <2> HIDE DEF f, g
  <2>5. Total(f) \in Int /\ Total(g) \in Int BY <2>2, <2>3, TotalType
  <2>6. Total(g) \div 2 \in Int BY <2>5
  <2> HIDE DEF C
  <2> QED BY <2>1, <2>4, <2>5, <2>6 DEF ObjectiveValue
<1>5. \A r \in RowsOf(m) : /\ V(x)[r] \in Int /\ V(p)[r] \in Int /\ S(x)[r] \in Numbered(m)
                           /\ m.rows[r].lower \in Int /\ m.rows[r].upper \in Int
  BY <1>1, <1>3, RowTypes
<1>6. \A v \in ColumnsOf(m) : x[v] \in Int /\ p[v] \in Int /\ L[v] \in Int /\ U[v] \in Int
  BY <1>1 DEF AtNumbers, Numeric, Numbered
<1>7. /\ \A v \in ColumnsOf(m) : /\ Finite(L[v]) => L[v] - 0 <= p[v]
                                 /\ Finite(U[v]) => p[v] <= U[v] + 0
      /\ \A r \in RowsOf(m) : /\ Finite(m.rows[r].lower) => m.rows[r].lower - 0 <= V(p)[r]
                              /\ Finite(m.rows[r].upper) => V(p)[r] <= m.rows[r].upper + 0
  BY <1>1 DEF AskedFor, Inside, Within
<1>8. ASSUME NEW slope \in Numbered(m), NEW a \in Int, NEW b \in Int, a <= b,
             Below(m, slope, x, p, a)
      PROVE  Below(m, slope, x, p, b)
  <2> DEFINE t == Toward(m, slope, x, p)
  <2>1. t \in Int /\ t <= Unit * (a + RoundOff) BY <1>1, <1>8, TowardType DEF Below
  <2>2. Unit * (a + RoundOff) <= Unit * (b + RoundOff)
    BY <1>1, <1>8
  <2>3. t <= Unit * (b + RoundOff)
    <3>1. Unit * (a + RoundOff) \in Int /\ Unit * (b + RoundOff) \in Int BY <1>1
    <3> HIDE DEF t
    <3> QED BY <2>1, <2>2, <3>1
  <2> QED BY <2>3 DEF Below
<1>9. ASSUME NEW i \in DOMAIN mu
      PROVE  Below(m, evaluation.inequalities[i].gradient, x, p, -evaluation.inequalities[i].value)
  <2> DEFINE e == evaluation.inequalities[i]
             ok == Below(m, e.gradient, x, p, -e.value)
  <2>0. i \in DOMAIN Evaluate(request, x).inequalities BY <1>1 DEF AtNumbers, Numeric
  <2>1. \/ \E r \in RowsOf(m) :
              /\ Finite(m.rows[r].lower)
              /\ \A s : Evaluate(request, s).inequalities[i]
                          = NlpRow(Minus(S(s)[r]), m.rows[r].lower - V(s)[r])
        \/ \E r \in RowsOf(m) :
              /\ Finite(m.rows[r].upper)
              /\ \A s : Evaluate(request, s).inequalities[i]
                          = NlpRow(S(s)[r], V(s)[r] - m.rows[r].upper)
        \/ \E v \in ColumnsOf(m) :
              /\ Finite(L[v])
              /\ \A s : Evaluate(request, s).inequalities[i] = NlpRow(Basis(m, v, -Unit), L[v] - s[v])
        \/ \E v \in ColumnsOf(m) :
              /\ Finite(U[v])
              /\ \A s : Evaluate(request, s).inequalities[i] = NlpRow(Basis(m, v, Unit), s[v] - U[v])
    BY <1>1, <2>0, InequalityFound
  <2>2. ASSUME NEW r \in RowsOf(m), Finite(m.rows[r].lower),
               e = NlpRow(Minus(S(x)[r]), m.rows[r].lower - V(x)[r])
        PROVE  ok
    <3>1. e.gradient = Minus(S(x)[r]) /\ e.value = m.rows[r].lower - V(x)[r] BY <2>2 DEF NlpRow
    <3>2. Below(m, Minus(S(x)[r]), x, p, -(V(p)[r] - V(x)[r])) BY <1>2, <2>2
    <3>3. Minus(S(x)[r]) \in Numbered(m)
      <4>1. \A f \in Numbered(m) : Minus(f) \in Numbered(m) BY DEF Minus, Numbered
      <4> QED BY <1>5, <4>1
    <3>4. /\ -(V(p)[r] - V(x)[r]) \in Int /\ -(m.rows[r].lower - V(x)[r]) \in Int
          /\ -(V(p)[r] - V(x)[r]) <= -(m.rows[r].lower - V(x)[r])
      BY <1>5, <1>7, <2>2
    <3>5. Below(m, Minus(S(x)[r]), x, p, -(m.rows[r].lower - V(x)[r])) BY <1>8, <3>2, <3>3, <3>4
    <3> QED BY <3>1, <3>5
  <2>3. ASSUME NEW r \in RowsOf(m), Finite(m.rows[r].upper),
               e = NlpRow(S(x)[r], V(x)[r] - m.rows[r].upper)
        PROVE  ok
    <3>1. e.gradient = S(x)[r] /\ e.value = V(x)[r] - m.rows[r].upper BY <2>3 DEF NlpRow
    <3>2. Below(m, S(x)[r], x, p, V(p)[r] - V(x)[r]) BY <1>2, <2>3
    <3>3. S(x)[r] \in Numbered(m) BY <1>5
    <3>4. /\ V(p)[r] - V(x)[r] \in Int /\ -(V(x)[r] - m.rows[r].upper) \in Int
          /\ V(p)[r] - V(x)[r] <= -(V(x)[r] - m.rows[r].upper)
      BY <1>5, <1>7, <2>3
    <3>5. Below(m, S(x)[r], x, p, -(V(x)[r] - m.rows[r].upper)) BY <1>8, <3>2, <3>3, <3>4
    <3> QED BY <3>1, <3>5
  <2>4. ASSUME NEW v \in ColumnsOf(m), Finite(L[v]), e = NlpRow(Basis(m, v, -Unit), L[v] - x[v])
        PROVE  ok
    <3>1. e.gradient = Basis(m, v, -Unit) /\ e.value = L[v] - x[v] BY <2>4 DEF NlpRow
    <3>2. Toward(m, Basis(m, v, -Unit), x, p) = (-Unit) * (p[v] - x[v])
      <4>1. -Unit \in Int BY <1>1
      <4> QED BY <1>1, <4>1, TowardBasis
    <3>3. (-Unit) * (p[v] - x[v]) <= Unit * (-(L[v] - x[v]) + RoundOff)
      <4>1. (-Unit) * (p[v] - x[v]) = Unit * (x[v] - p[v]) BY <1>1, <1>6
      <4>2. x[v] - p[v] <= -(L[v] - x[v]) + RoundOff BY <1>1, <1>6, <1>7, <2>4
      <4>3. Unit * (x[v] - p[v]) <= Unit * (-(L[v] - x[v]) + RoundOff)
        <5> DEFINE a == x[v] - p[v]
                   b == -(L[v] - x[v]) + RoundOff
        <5>1. a \in Int /\ b \in Int /\ a <= b BY <1>1, <1>6, <4>2
        <5> HIDE DEF a, b
        <5>2. Unit * a <= Unit * b BY <1>1, <5>1
        <5> QED BY <5>2 DEF a, b
      <4> QED BY <4>1, <4>3
    <3> QED BY <3>1, <3>2, <3>3 DEF Below
  <2>5. ASSUME NEW v \in ColumnsOf(m), Finite(U[v]), e = NlpRow(Basis(m, v, Unit), x[v] - U[v])
        PROVE  ok
    <3>1. e.gradient = Basis(m, v, Unit) /\ e.value = x[v] - U[v] BY <2>5 DEF NlpRow
    <3>2. Toward(m, Basis(m, v, Unit), x, p) = Unit * (p[v] - x[v])
      <4>1. Unit \in Int BY <1>1
      <4> QED BY <1>1, <4>1, TowardBasis
    <3>3. Unit * (p[v] - x[v]) <= Unit * (-(x[v] - U[v]) + RoundOff)
      <4> DEFINE a == p[v] - x[v]
                 b == -(x[v] - U[v]) + RoundOff
      <4>1. a \in Int /\ b \in Int /\ a <= b BY <1>1, <1>6, <1>7, <2>5
      <4> HIDE DEF a, b
      <4>2. Unit * a <= Unit * b BY <1>1, <4>1
      <4> QED BY <4>2 DEF a, b
    <3> QED BY <3>1, <3>2, <3>3 DEF Below
  <2>6. e = Evaluate(request, x).inequalities[i] BY <1>1
  <2>7. \/ \E r \in RowsOf(m) :
              /\ Finite(m.rows[r].lower) /\ e = NlpRow(Minus(S(x)[r]), m.rows[r].lower - V(x)[r])
        \/ \E r \in RowsOf(m) :
              /\ Finite(m.rows[r].upper) /\ e = NlpRow(S(x)[r], V(x)[r] - m.rows[r].upper)
        \/ \E v \in ColumnsOf(m) : Finite(L[v]) /\ e = NlpRow(Basis(m, v, -Unit), L[v] - x[v])
        \/ \E v \in ColumnsOf(m) : Finite(U[v]) /\ e = NlpRow(Basis(m, v, Unit), x[v] - U[v])
    <3> HIDE DEF e, S, V, L, U, m
    <3> QED BY <2>1, <2>6
  <2>8. ok
    <3> HIDE DEF ok, e, S, V, L, U, m
    <3> QED BY <2>2, <2>3, <2>4, <2>5, <2>7
  <2> QED BY <2>8
<1>10. ASSUME NEW i \in DOMAIN lambda
       PROVE  LET e == evaluation.equalities[i]
                  t == Toward(model, e.gradient, x, p)
              IN  t <= Unit * (RoundOff - e.value) /\ -t <= Unit * (RoundOff + e.value)
  <2> DEFINE e == evaluation.equalities[i]
             t == Toward(m, e.gradient, x, p)
  <2>0. i \in DOMAIN Evaluate(request, x).equalities BY <1>1 DEF AtNumbers, Numeric
  <2>1. PICK r \in RowsOf(m) :
           /\ IsEquality(m.rows[r])
           /\ \A s : Evaluate(request, s).equalities[i] = NlpRow(S(s)[r], V(s)[r] - m.rows[r].lower)
    BY <1>1, <2>0, EqualityFound
  <2>2. e = NlpRow(S(x)[r], V(x)[r] - m.rows[r].lower) BY <1>1, <2>1
  <2>3. e.gradient = S(x)[r] /\ e.value = V(x)[r] - m.rows[r].lower BY <2>2 DEF NlpRow
  <2>4. Finite(m.rows[r].lower) /\ Finite(m.rows[r].upper) /\ m.rows[r].lower = m.rows[r].upper
    BY <2>1 DEF IsEquality
  <2>5. V(p)[r] - V(x)[r] = -e.value /\ -(V(p)[r] - V(x)[r]) = e.value /\ e.value \in Int
    BY <1>5, <1>7, <2>3, <2>4
  <2>6. t <= Unit * (V(p)[r] - V(x)[r] + RoundOff) BY <1>2, <2>3, <2>4 DEF Below
  <2>7. Toward(m, Minus(S(x)[r]), x, p) <= Unit * (-(V(p)[r] - V(x)[r]) + RoundOff)
    BY <1>2, <2>4 DEF Below
  <2>8. Toward(m, Minus(S(x)[r]), x, p) = -t BY <1>1, <1>5, <2>3, TowardType
  <2>9. -e.value + RoundOff = RoundOff - e.value /\ e.value + RoundOff = RoundOff + e.value
    BY <1>1, <2>5
  <2> QED BY <1>1, <2>5, <2>6, <2>7, <2>8, <2>9
<1>11. evaluation.objective \in Int /\ Evaluate(request, p).objective \in Int
  BY <1>1, <1>3, <1>4
<1> QED BY <1>1, <1>2, <1>9, <1>10, <1>11

LEMMA Divided ==
    ASSUME NEW u \in Nat \ {0}, NEW a \in Int, NEW b \in Int, u * a <= u * b
    PROVE  a <= b
<1> SUFFICES ASSUME b + 1 <= a PROVE FALSE OBVIOUS
<1>1. u * (b + 1) <= u * a OBVIOUS
<1>2. u * (b + 1) = u * b + u OBVIOUS
<1>3. u * a \in Int /\ u * b \in Int OBVIOUS
<1> QED BY <1>1, <1>2, <1>3

\* The arithmetic of weak duality: what the tangents, the residual, the
\* complementarity and the rounding of the three products leave.
LEMMA GapArithmetic ==
    ASSUME NEW u \in Nat \ {0}, NEW D \in Int, NEW tg \in Int, NEW oe \in Int, NEW oi \in Int,
           NEW pt \in Nat, NEW dt \in Nat, NEW ro \in Nat, ro >= 2,
           NEW l \in Nat, NEW ne \in Nat, NEW ni \in Nat, NEW nl \in Nat, NEW tm \in Nat,
           NEW p1 \in Int, NEW p2 \in Int, NEW p3 \in Int,
           tg <= u * (ro - D),
           -(dt * l) <= tg + oe + oi,
           2 * (u * oe) <= ne * (2 * (u * (nl * (pt + ro))) + u * l),
           2 * (u * oi) <= 2 * (u * (ro * tm)) + ni * (u * (2 * (u * pt) + u) + u * l),
           ne + ni <= 2 * ro,
           2 * ((dt + ro) * l) <= 2 * (u * p1) + u,
           2 * ((pt + ro) * (nl * ne)) <= 2 * (u * p2) + u,
           2 * (ro * tm) <= 2 * (u * p3) + u
    PROVE  D <= ni * pt + p1 + p2 + p3 + ro * (2 + ni)
<1>1. 2 * oe <= 2 * ((pt + ro) * (nl * ne)) + ne * l
  <2>1. u * (2 * oe) = 2 * (u * oe) OBVIOUS
  <2>2. ne * (2 * (u * (nl * (pt + ro))) + u * l) = u * (2 * ((pt + ro) * (nl * ne)) + ne * l)
    <3> DEFINE a == pt + ro
    <3>1. a \in Nat OBVIOUS
    <3> HIDE DEF a
    <3>2. ne * (2 * (u * (nl * a)) + u * l) = u * (2 * (a * (nl * ne)) + ne * l) BY <3>1
    <3> QED BY <3>2 DEF a
  <2>3. 2 * oe \in Int /\ 2 * ((pt + ro) * (nl * ne)) + ne * l \in Int OBVIOUS
  <2>4. u * (2 * oe) <= u * (2 * ((pt + ro) * (nl * ne)) + ne * l)
    BY <2>1, <2>2
  <2> QED BY <2>3, <2>4, Divided
<1>2. 2 * oi <= 2 * (ro * tm) + 2 * (u * (ni * pt)) + u * ni + ni * l
  <2> DEFINE b == 2 * (ro * tm) + 2 * (u * (ni * pt)) + u * ni + ni * l
  <2>1. u * (2 * oi) = 2 * (u * oi) /\ 2 * oi \in Int OBVIOUS
  <2>2. 2 * (u * (ro * tm)) + ni * (u * (2 * (u * pt) + u) + u * l) = u * b
    <3>1. 2 * (u * (ro * tm)) = u * (2 * (ro * tm)) OBVIOUS
    <3>2. ni * (u * (2 * (u * pt) + u) + u * l)
            = u * (2 * (u * (ni * pt)) + u * ni + ni * l)
      OBVIOUS
    <3> DEFINE c == 2 * (ro * tm)
               e == 2 * (u * (ni * pt)) + u * ni + ni * l
    <3>3. c \in Int /\ e \in Int /\ b = c + e OBVIOUS
    <3> HIDE DEF b, c, e
    <3>4. u * b = u * c + u * e BY <3>3
    <3> QED BY <3>1, <3>2, <3>4 DEF c, e
  <2>3. b \in Int OBVIOUS
  <2>4. u * (2 * oi) <= u * b
    <3> HIDE DEF b
    <3> QED BY <2>1, <2>2
  <2>5. 2 * oi <= b
    <3> HIDE DEF b
    <3> QED BY <2>1, <2>3, <2>4, Divided
  <2> QED BY <2>5
<1>3. ne * l + ni * l <= 2 * (ro * l)
  <2>1. (ne + ni) * l <= (2 * ro) * l OBVIOUS
  <2>2. (ne + ni) * l = ne * l + ni * l /\ (2 * ro) * l = 2 * (ro * l) OBVIOUS
  <2> QED BY <2>1, <2>2
<1>4. (dt + ro) * l = dt * l + ro * l OBVIOUS
<1> DEFINE dl == dt * l
           rl == ro * l
           a2 == (pt + ro) * (nl * ne)
           a3 == ro * tm
           uip == u * (ni * pt)
           ui == u * ni
           nel == ne * l
           nil == ni * l
           ud == u * D
           ur == u * ro
           q1 == u * p1
           q2 == u * p2
           q3 == u * p3
<1>5. /\ dl \in Int /\ rl \in Int /\ a2 \in Int /\ a3 \in Int /\ uip \in Int /\ ui \in Int
      /\ nel \in Int /\ nil \in Int /\ ud \in Int /\ ur \in Int
      /\ q1 \in Int /\ q2 \in Int /\ q3 \in Int
  OBVIOUS
<1>6. u * (ro - D) = ur - ud OBVIOUS
<1>7. /\ tg <= ur - ud /\ -dl <= tg + oe + oi
      /\ 2 * oe <= 2 * a2 + nel /\ 2 * oi <= 2 * a3 + 2 * uip + ui + nil
      /\ nel + nil <= 2 * rl
      /\ 2 * (dl + rl) <= 2 * q1 + u /\ 2 * a2 <= 2 * q2 + u /\ 2 * a3 <= 2 * q3 + u
  BY <1>1, <1>2, <1>3, <1>4, <1>6
<1>8. 2 * ud <= 2 * ur + 2 * q1 + 2 * q2 + 2 * q3 + 3 * u + 2 * uip + ui
  <2> HIDE DEF dl, rl, a2, a3, uip, ui, nel, nil, ud, ur, q1, q2, q3
  <2> QED BY <1>5, <1>7
<1> DEFINE z == 2 * ro + 2 * p1 + 2 * p2 + 2 * p3 + 3 + 2 * (ni * pt) + ni
<1>9. /\ u * (2 * D) = 2 * ud
      /\ u * z = 2 * ur + 2 * q1 + 2 * q2 + 2 * q3 + 3 * u + 2 * uip + ui
  OBVIOUS
<1>10. 2 * D \in Int /\ z \in Int OBVIOUS
<1>11. 2 * D <= z
  <2>1. u * (2 * D) <= u * z BY <1>8, <1>9
  <2> HIDE DEF z
  <2> QED BY <1>10, <2>1, Divided
<1>12. ro * (2 + ni) = 2 * ro + ro * ni /\ 2 * ni <= ro * ni
  <2>1. (ro - 2) * ni >= 0 OBVIOUS
  <2>2. (ro - 2) * ni = ro * ni - 2 * ni OBVIOUS
  <2> QED BY <2>1, <2>2
<1> DEFINE rn == ro * ni
           np == ni * pt
<1>13. rn \in Int /\ np \in Int OBVIOUS
<1>14. 2 * D <= 2 * ro + 2 * p1 + 2 * p2 + 2 * p3 + 3 + 2 * np + ni BY <1>11
<1>15. D <= np + p1 + p2 + p3 + (2 * ro + rn)
  <2> HIDE DEF rn, np, z
  <2>1. 2 * ni <= rn BY <1>12 DEF rn
  <2> QED BY <1>13, <1>14, <2>1
<1> QED BY <1>12, <1>15

\* As many entries as rounding in the residual is allowed for.
SidesWithinRoundOff ==
    \A q \in Requests : \A p \in Numbered(q.model) :
        Len(Evaluate(q, p).equalities) + Len(Evaluate(q, p).inequalities) <= 2 * RoundOff

\* What the entries add along a step, list by list.
LEMMA ListsAlong ==
    ASSUME OracleAnswersNumbers, AtNumbers, NEW p \in Numbered(model)
    PROVE  LET d(v) == p[v] - x[v]
               l == Total([v \in ColumnsOf(model) |-> Magnitude(d(v))])
               oe == Numbers!Over([v \in ColumnsOf(model) |->
                                      Weighted(evaluation.equalities, lambda, v) * d(v)],
                                  ColumnsOf(model))
               oi == Numbers!Over([v \in ColumnsOf(model) |->
                                      Weighted(evaluation.inequalities, mu, v) * d(v)],
                                  ColumnsOf(model))
               te(i) == Toward(model, evaluation.equalities[i].gradient, x, p)
               ti(i) == Toward(model, evaluation.inequalities[i].gradient, x, p)
           IN  /\ l \in Nat /\ oe \in Int /\ oi \in Int
               /\ \A i \in DOMAIN lambda : te(i) \in Int
               /\ \A i \in DOMAIN mu : ti(i) \in Int
               /\ 2 * (Unit * oe)
                    <= Numbers!Over([i \in DOMAIN lambda |-> 2 * (lambda[i] * te(i)) + Unit * l],
                                    DOMAIN lambda)
               /\ 2 * (Unit * oi)
                    <= Numbers!Over([i \in DOMAIN mu |-> 2 * (mu[i] * ti(i)) + Unit * l], DOMAIN mu)
<1> DEFINE C == ColumnsOf(model)
           d == [v \in C |-> p[v] - x[v]]
           mag == [v \in C |-> Magnitude(d[v])]
           l == Numbers!Over(mag, C)
<1>1. IsFiniteSet(C) /\ IsModel(model) /\ x \in Numbered(model)
  BY ListTypes, RowsAreAList, IntervalsAreFinite DEF AtNumbers, Numeric
<1>2. \A v \in C : d[v] \in Int /\ d[v] = p[v] - x[v] BY <1>1 DEF Numbered
<1>3. \A v \in C : mag[v] \in Int /\ 0 <= mag[v] /\ mag[v] = Magnitude(d[v])
  BY <1>2, MagnitudeType
<1>4. l \in Nat /\ Total([v \in C |-> Magnitude(p[v] - x[v])]) = l
  <2>1. [v \in C |-> Magnitude(p[v] - x[v])] = mag BY <1>2
  <2>2. DOMAIN mag = C OBVIOUS
  <2> HIDE DEF mag
  <2>3. Total(mag) = Numbers!Over(mag, C) BY <2>2, TotalIsSum
  <2>4. Numbers!Over(mag, C) \in Nat
    <3> DEFINE zero == [v \in C |-> 0]
    <3>1. \A v \in C : zero[v] \in Int /\ zero[v] = 0 /\ zero[v] <= mag[v] /\ mag[v] \in Int
      BY <1>3
    <3> HIDE DEF zero
    <3>2. Numbers!Over(zero, C) <= Numbers!Over(mag, C)
      BY <1>1, <3>1, FinitenessIsOne, SumAdds, Numbers!SumLess
    <3>3. Numbers!Over(zero, C) = 0 * Cardinality(C)
      BY <1>1, <3>1, FinitenessIsOne, SumAdds, Numbers!SumOfConstant
    <3>4. Cardinality(C) \in Nat BY <1>1, FS_CardinalityType
    <3>5. Numbers!Over(mag, C) \in Int
      BY <1>1, <1>3, FinitenessIsOne, SumAdds, Numbers!SumType
    <3> QED BY <3>2, <3>3, <3>4, <3>5
  <2> QED BY <2>1, <2>3, <2>4
<1>5. ASSUME NEW list, NEW w, NEW N, IsFiniteSet(N), N = DOMAIN list,
             \A i \in N : list[i].gradient \in Numbered(model) /\ w[i] \in Int
      PROVE  LET t(i) == Toward(model, list[i].gradient, x, p)
                 o == Numbers!Over([v \in C |-> Weighted(list, w, v) * (p[v] - x[v])], C)
             IN  /\ o \in Int /\ \A i \in N : t(i) \in Int
                 /\ 2 * (Unit * o) <= Numbers!Over([i \in N |-> 2 * (w[i] * t(i)) + Unit * l], N)
  <2> DEFINE slope == [i \in N |-> list[i].gradient]
             W == [v \in C |-> Weighted(list, w, v) * (p[v] - x[v])]
             A == [i \in N |-> Toward(model, list[i].gradient, x, p)]
             E == [i \in N |-> 2 * (w[i] * A[i]) + Unit * l]
             P == [v \in C |-> [i \in N |-> Product(w[i], slope[i][v])]]
             a == [i \in N |-> [v \in C |-> slope[i][v] * d[v]]]
  <2>1. \A i \in N : w[i] \in Int /\ \A v \in C : slope[i][v] \in Int BY <1>5 DEF Numbered
  <2>2. \A v \in C : W[v] = Numbers!Over(P[v], N) * d[v]
    <3> TAKE v \in C
    <3>1. P[v] = [i \in DOMAIN list |-> Product(w[i], list[i].gradient[v])]
      BY <1>5
    <3>2. DOMAIN P[v] = N OBVIOUS
    <3>3. Weighted(list, w, v) = Numbers!Over(P[v], N)
      BY <3>1, <3>2, TotalIsSum DEF Weighted
    <3> QED BY <1>2, <3>3
  <2>3. \A i \in N : A[i] = Numbers!Over(a[i], C)
    <3> TAKE i \in N
    <3> DEFINE f == a[i]
    <3>1. f = [v \in C |-> list[i].gradient[v] * (p[v] - x[v])] BY <1>2
    <3>2. DOMAIN f = C OBVIOUS
    <3>3. A[i] = Total(f) BY <3>1 DEF Toward
    <3> HIDE DEF f
    <3>4. Total(f) = Numbers!Over(f, C) BY <3>2, TotalIsSum
    <3> QED BY <3>3, <3>4 DEF f
  <2>4. \A v \in C : d[v] \in Int BY <1>2
  <2>5. /\ \A v \in C : W[v] \in Int
        /\ \A i \in N : A[i] \in Int
        /\ 2 * (Unit * Numbers!Over(W, C))
             <= Numbers!Over(E, N)
    <3>1. l = Numbers!Over(mag, C) OBVIOUS
    <3>2. /\ \A v \in C : \A i \in N : P[v][i] = Product(w[i], slope[i][v])
          /\ \A i \in N : \A v \in C : a[i][v] = slope[i][v] * d[v]
          /\ \A i \in N : E[i] = 2 * (w[i] * A[i]) + Unit * l
      OBVIOUS
    <3>3. \A v \in C : mag[v] = Magnitude(d[v]) BY <1>3
    <3> HIDE DEF slope, W, A, d, C, l, mag, P, a, E
    <3>4. Summed(N, C, w, slope, d, P, W, a, A, mag, l, E)
      BY <1>1, <1>5, <2>1, <2>2, <2>3, <2>4, <3>1, <3>2, <3>3 DEF Summed
    <3> QED BY <3>4, WeightedAlong
  <2>6. Numbers!Over(W, C) \in Int
    <3> HIDE DEF W
    <3> QED BY <1>1, <2>5, FinitenessIsOne, SumAdds, Numbers!SumType
  <2>7. \A i \in N : A[i] = Toward(model, list[i].gradient, x, p) OBVIOUS
  <2>8. [i \in N |-> 2 * (w[i] * Toward(model, list[i].gradient, x, p)) + Unit * l] = E
    BY <2>7
  <2> HIDE DEF A, l
  <2> QED BY <2>5, <2>6, <2>7, <2>8
<1>6. /\ IsFiniteSet(DOMAIN mu) /\ IsFiniteSet(DOMAIN lambda)
      /\ DOMAIN mu = DOMAIN evaluation.inequalities
      /\ DOMAIN lambda = DOMAIN evaluation.equalities
      /\ \A i \in DOMAIN mu : evaluation.inequalities[i].gradient \in Numbered(model) /\ mu[i] \in Int
      /\ \A i \in DOMAIN lambda :
            evaluation.equalities[i].gradient \in Numbered(model) /\ lambda[i] \in Int
  BY EntryTypes DEF SideGradient, AtNumbers, Numeric
<1> HIDE DEF l, d, mag
<1>7. LET t(i) == Toward(model, evaluation.inequalities[i].gradient, x, p)
          o == Numbers!Over([v \in C |-> Weighted(evaluation.inequalities, mu, v) * (p[v] - x[v])], C)
      IN  /\ o \in Int /\ \A i \in DOMAIN mu : t(i) \in Int
          /\ 2 * (Unit * o)
               <= Numbers!Over([i \in DOMAIN mu |-> 2 * (mu[i] * t(i)) + Unit * l], DOMAIN mu)
  BY <1>5, <1>6
<1>8. LET t(i) == Toward(model, evaluation.equalities[i].gradient, x, p)
          o == Numbers!Over([v \in C |-> Weighted(evaluation.equalities, lambda, v) * (p[v] - x[v])], C)
      IN  /\ o \in Int /\ \A i \in DOMAIN lambda : t(i) \in Int
          /\ 2 * (Unit * o)
               <= Numbers!Over([i \in DOMAIN lambda |-> 2 * (lambda[i] * t(i)) + Unit * l], DOMAIN lambda)
  BY <1>5, <1>6
<1> QED BY <1>4, <1>7, <1>8

\* A sum of parts, each at most c * weight + constant.
LEMMA SumWithin ==
    ASSUME NEW S, IsFiniteSet(S), NEW f, NEW w, NEW c \in Int, NEW k \in Int,
           \A i \in S : f[i] \in Int /\ w[i] \in Int /\ f[i] <= c * w[i] + k
    PROVE  Numbers!Over(f, S) <= c * Numbers!Over(w, S) + k * Cardinality(S)
<1> DEFINE cw == [i \in S |-> c * w[i]]
           kk == [i \in S |-> k]
           g == [i \in S |-> cw[i] + kk[i]]
<1>0. Numbers!IsFiniteSet(S) /\ Numbers!Adds BY FinitenessIsOne, SumAdds
<1>1. \A i \in S : cw[i] = c * w[i] /\ cw[i] \in Int /\ kk[i] = k /\ kk[i] \in Int OBVIOUS
<1>2. \A i \in S : g[i] = cw[i] + kk[i] /\ g[i] \in Int /\ f[i] <= g[i] /\ f[i] \in Int BY <1>1
<1> HIDE DEF cw, kk, g
<1>3. Numbers!Over(f, S) <= Numbers!Over(g, S) BY <1>0, <1>2, Numbers!SumLess
<1>4. Numbers!Over(g, S) = Numbers!Over(cw, S) + Numbers!Over(kk, S)
  BY <1>0, <1>1, <1>2, Numbers!SumOfSums
<1>5. Numbers!Over(cw, S) = c * Numbers!Over(w, S) BY <1>0, <1>1, Numbers!SumScaled
<1>6. Numbers!Over(kk, S) = k * Cardinality(S)
  BY <1>0, <1>1, FinitenessIsOne, Numbers!SumOfConstant
<1> QED BY <1>3, <1>4, <1>5, <1>6

\* A multiplier's pull on one entry, along a step to a feasible point.
LEMMA EqualityPull ==
    ASSUME NEW u \in Nat, NEW a \in Int, NEW n \in Nat, Magnitude(a) <= n, NEW t \in Int,
           NEW ro \in Nat, NEW pt \in Nat, NEW b \in Int, Magnitude(b) <= pt,
           t <= u * (ro - b), -t <= u * (ro + b)
    PROVE  a * t <= u * (n * (pt + ro))
<1> DEFINE c == u * (pt + ro)
<1>1. -pt <= b /\ b <= pt BY DEF Magnitude
<1>2. u * (ro - b) <= c /\ u * (ro + b) <= c
  <2>1. ro - b \in Int /\ ro + b \in Int /\ pt + ro \in Int /\ ro - b <= pt + ro /\ ro + b <= pt + ro
    BY <1>1
  <2>2. \A r, s \in Int : r <= s => u * r <= u * s OBVIOUS
  <2> QED BY <2>1, <2>2
<1>3. c \in Nat OBVIOUS
<1>4. t <= c /\ -t <= c
  <2>1. u * (ro - b) \in Int /\ u * (ro + b) \in Int OBVIOUS
  <2> HIDE DEF c
  <2> QED BY <1>2, <1>3, <2>1
<1>5. a * t <= n * c
  <2> HIDE DEF c
  <2>1. CASE a >= 0
    <3>1. a * t <= a * c BY <1>3, <1>4, <2>1
    <3>2. a <= n BY <2>1 DEF Magnitude
    <3>3. a * c <= n * c BY <1>3, <3>2
    <3> QED BY <1>3, <3>1, <3>3
  <2>2. CASE a < 0
    <3>1. (-a) * (-t) <= (-a) * c BY <1>3, <1>4, <2>2
    <3>2. -a <= n BY <2>2 DEF Magnitude
    <3>3. (-a) * c <= n * c BY <1>3, <3>2
    <3>4. (-a) * (-t) = a * t OBVIOUS
    <3> QED BY <1>3, <3>1, <3>3, <3>4
  <2> QED BY <2>1, <2>2
<1>6. n * c = u * (n * (pt + ro)) OBVIOUS
<1> QED BY <1>5, <1>6

LEMMA InequalityPull ==
    ASSUME NEW a \in Nat, NEW t \in Int, NEW ro \in Nat, NEW pt \in Nat, NEW b \in Int,
           Magnitude(Product(b, a)) <= pt, t <= Unit * (-b + ro)
    PROVE  2 * (a * t) <= 2 * (Unit * (ro * a)) + Unit * (2 * (Unit * pt) + Unit)
<1> DEFINE p == Product(b, a)
           ba == b * a
           up == Unit * p
           upt == Unit * pt
<1>1. Unit \in Nat \ {0} /\ p \in Int /\ 2 * up <= 2 * ba + Unit /\ ba \in Int
  BY ProductIsNearest, GridAssumption
<1>2. -pt <= p BY <1>1 DEF Magnitude
<1>3. up \in Int /\ upt \in Int /\ -upt <= up
  <2>1. Unit * (-pt) <= Unit * p
    <3> HIDE DEF p
    <3> QED BY <1>1, <1>2
  <2>2. Unit * (-pt) = -upt BY <1>1
  <2>3. up \in Int /\ upt \in Int
    <3> HIDE DEF p
    <3> QED BY <1>1
  <2> QED BY <2>1, <2>2, <2>3
<1>4. -(2 * ba) <= 2 * upt + Unit
  <2> HIDE DEF p, ba, up, upt
  <2> QED BY <1>1, <1>3
<1>5. Unit * (-(2 * ba)) <= Unit * (2 * upt + Unit)
  <2> HIDE DEF ba, upt
  <2> QED BY <1>1, <1>3, <1>4
<1>6. a * t <= a * (Unit * (-b + ro))
  <2> DEFINE c == Unit * (-b + ro)
  <2>1. c \in Int /\ t <= c BY <1>1
  <2> HIDE DEF c
  <2>2. a * t <= a * c BY <2>1
  <2> QED BY <2>2 DEF c
<1>7. a * (Unit * (-b + ro)) = Unit * (ro * a) - Unit * ba BY <1>1
<1>8. Unit * (-(2 * ba)) = -(2 * (Unit * ba)) BY <1>1
<1> DEFINE at == a * t
           r == Unit * (ro * a)
           ub == Unit * ba
           k == Unit * (2 * upt + Unit)
<1>9. at \in Int /\ r \in Int /\ ub \in Int /\ k \in Int BY <1>1
<1>10. at <= r - ub /\ -(2 * ub) <= k BY <1>5, <1>6, <1>7, <1>8
<1>11. 2 * at <= 2 * r + k
  <2> HIDE DEF at, r, ub, k
  <2> QED BY <1>9, <1>10
<1> QED BY <1>11

\* Weak duality: no feasible point is better than a converged one by more than
\* the allowance.
LEMMA ConvexGap ==
    ASSUME OracleAnswersNumbers, ConvexOracle, SidesWithinRoundOff, AtNumbers,
           Converged(evaluation, lambda, mu), model.convex, result.primal_solution = x,
           NEW p \in Numbered(model), p \in GridPoints, Nonlinear(model, p).finite, AskedFor(p, 0)
    PROVE  evaluation.objective <= Evaluate(request, p).objective + Allowance(p)
<1> DEFINE C == ColumnsOf(model)
           d == [v \in C |-> p[v] - x[v]]
           mag == [v \in C |-> Magnitude(d[v])]
           l == Total([v \in C |-> Magnitude(p[v] - x[v])])
           We == [v \in C |-> Weighted(evaluation.equalities, lambda, v) * (p[v] - x[v])]
           Wi == [v \in C |-> Weighted(evaluation.inequalities, mu, v) * (p[v] - x[v])]
           Wg == [v \in C |-> evaluation.gradient[v] * (p[v] - x[v])]
           oe == Numbers!Over(We, C)
           oi == Numbers!Over(Wi, C)
           tg == Toward(model, evaluation.gradient, x, p)
           te == [i \in DOMAIN lambda |-> Toward(model, evaluation.equalities[i].gradient, x, p)]
           ti == [i \in DOMAIN mu |-> Toward(model, evaluation.inequalities[i].gradient, x, p)]
           Fe == [i \in DOMAIN lambda |-> 2 * (lambda[i] * te[i]) + Unit * l]
           Fi == [i \in DOMAIN mu |-> 2 * (mu[i] * ti[i]) + Unit * l]
           nl == NormInf(lambda)
           tm == Total(mu)
           ne == Len(lambda)
           ni == Len(mu)
           ro == RoundOff
           D == evaluation.objective - Evaluate(request, p).objective
           R == DualResidual(evaluation, lambda, mu)
<1>1. /\ Numbers!IsFiniteSet(C) /\ Numbers!Adds /\ IsModel(model) /\ x \in Numbered(model)
      /\ IsFiniteSet(C)
  BY ListTypes, RowsAreAList, IntervalsAreFinite, FinitenessIsOne, SumAdds DEF AtNumbers, Numeric
<1>2. /\ Unit \in Nat \ {0} /\ ro \in Nat /\ ro >= 2 /\ PrimalTol \in Nat /\ DualTol \in Nat
  BY GridAssumption, InteriorAssumption DEF ConvexOracle
<1>3. /\ l \in Nat /\ oe \in Int /\ oi \in Int
      /\ \A i \in DOMAIN lambda : te[i] \in Int
      /\ \A i \in DOMAIN mu : ti[i] \in Int
      /\ 2 * (Unit * oe) <= Numbers!Over(Fe, DOMAIN lambda)
      /\ 2 * (Unit * oi) <= Numbers!Over(Fi, DOMAIN mu)
  <2>1. /\ \A i \in DOMAIN lambda : te[i] = Toward(model, evaluation.equalities[i].gradient, x, p)
        /\ \A i \in DOMAIN mu : ti[i] = Toward(model, evaluation.inequalities[i].gradient, x, p)
    OBVIOUS
  <2>2. /\ [i \in DOMAIN lambda |->
              2 * (lambda[i] * Toward(model, evaluation.equalities[i].gradient, x, p)) + Unit * l] = Fe
        /\ [i \in DOMAIN mu |->
              2 * (mu[i] * Toward(model, evaluation.inequalities[i].gradient, x, p)) + Unit * l] = Fi
    BY <2>1
  <2>3. /\ l \in Nat /\ oe \in Int /\ oi \in Int
        /\ \A i \in DOMAIN lambda : Toward(model, evaluation.equalities[i].gradient, x, p) \in Int
        /\ \A i \in DOMAIN mu : Toward(model, evaluation.inequalities[i].gradient, x, p) \in Int
        /\ 2 * (Unit * oe)
             <= Numbers!Over([i \in DOMAIN lambda |->
                  2 * (lambda[i] * Toward(model, evaluation.equalities[i].gradient, x, p)) + Unit * l],
                             DOMAIN lambda)
        /\ 2 * (Unit * oi)
             <= Numbers!Over([i \in DOMAIN mu |->
                  2 * (mu[i] * Toward(model, evaluation.inequalities[i].gradient, x, p)) + Unit * l],
                             DOMAIN mu)
    BY ListsAlong, Zenon
  <2> HIDE DEF l, oe, oi, te, ti, Fe, Fi
  <2> QED BY <2>1, <2>2, <2>3
<1>4. /\ IsFiniteSet(DOMAIN lambda) /\ IsFiniteSet(DOMAIN mu)
      /\ Cardinality(DOMAIN lambda) = ne /\ Cardinality(DOMAIN mu) = ni
      /\ ne \in Nat /\ ni \in Nat
      /\ \A i \in DOMAIN lambda : lambda[i] \in Int /\ evaluation.equalities[i].value \in Int
      /\ \A i \in DOMAIN mu : mu[i] \in Nat \ {0} /\ evaluation.inequalities[i].value \in Int
      /\ DOMAIN lambda = DOMAIN evaluation.equalities
      /\ DOMAIN mu = DOMAIN evaluation.inequalities
  <2>1. /\ DOMAIN mu = 1 .. ni /\ DOMAIN lambda = 1 .. ne /\ ni \in Nat /\ ne \in Nat
    BY EntryTypes
  <2>2. \A n \in Nat : Cardinality(1 .. n) = n
    <3> TAKE n \in Nat
    <3>1. 1 \in Int /\ n \in Int OBVIOUS
    <3>2. Cardinality(1 .. n) = IF 1 > n THEN 0 ELSE n - 1 + 1 BY <3>1, FS_Interval, Zenon
    <3> QED BY <3>2
  <2>3. /\ IsFiniteSet(DOMAIN lambda) /\ IsFiniteSet(DOMAIN mu)
        /\ \A i \in DOMAIN lambda : lambda[i] \in Int /\ evaluation.equalities[i].value \in Int
        /\ \A i \in DOMAIN mu : mu[i] \in Nat \ {0} /\ evaluation.inequalities[i].value \in Int
    BY EntryTypes
  <2>4. DOMAIN lambda = DOMAIN evaluation.equalities /\ DOMAIN mu = DOMAIN evaluation.inequalities
    BY DEF AtNumbers, Numeric
  <2>5. Cardinality(DOMAIN lambda) = ne /\ Cardinality(DOMAIN mu) = ni
    <3>1. Cardinality(1 .. ne) = ne /\ Cardinality(1 .. ni) = ni
      <4> HIDE DEF ne, ni
      <4> QED BY <2>1, <2>2
    <3> QED BY <2>1, <3>1
  <2> QED BY <2>1, <2>3, <2>4, <2>5
<1>5. nl \in Nat /\ \A i \in DOMAIN lambda : Magnitude(lambda[i]) <= nl
  <2>1. lambda \in [DOMAIN lambda -> Int] BY <1>4 DEF AtNumbers, Numeric
  <2> QED BY <1>4, <2>1, NormInfType
<1>6. tm \in Nat /\ tm = Numbers!Over(mu, DOMAIN mu)
  <2>1. tm = Numbers!Over(mu, DOMAIN mu) BY TotalIsSum
  <2> DEFINE zero == [i \in DOMAIN mu |-> 0]
  <2>2. \A i \in DOMAIN mu : zero[i] \in Int /\ zero[i] = 0 /\ zero[i] <= mu[i] /\ mu[i] \in Int
    BY <1>4
  <2> HIDE DEF zero
  <2>3. Numbers!IsFiniteSet(DOMAIN mu) BY <1>4, FinitenessIsOne
  <2>4. Numbers!Over(zero, DOMAIN mu) <= Numbers!Over(mu, DOMAIN mu)
    BY <1>1, <2>2, <2>3, Numbers!SumLess
  <2>5. Numbers!Over(zero, DOMAIN mu) = 0 * Cardinality(DOMAIN mu)
    BY <1>1, <2>2, <2>3, FinitenessIsOne, Numbers!SumOfConstant
  <2>6. Numbers!Over(mu, DOMAIN mu) \in Int BY <1>1, <2>2, <2>3, Numbers!SumType
  <2> QED BY <1>4, <2>1, <2>4, <2>5, <2>6
<1>7. /\ D \in Int /\ tg <= Unit * (ro - D)
      /\ \A i \in DOMAIN mu : ti[i] <= Unit * (-evaluation.inequalities[i].value + ro)
      /\ \A i \in DOMAIN lambda : /\ te[i] <= Unit * (ro - evaluation.equalities[i].value)
                                  /\ -te[i] <= Unit * (ro + evaluation.equalities[i].value)
  <2>1. /\ evaluation.objective \in Int /\ Evaluate(request, p).objective \in Int
        /\ tg <= Unit * (Evaluate(request, p).objective - evaluation.objective + ro)
    BY TangentFacts DEF Below
  <2>2. Evaluate(request, p).objective - evaluation.objective + ro = ro - D /\ D \in Int
    BY <1>2, <2>1
  <2>3. \A i \in DOMAIN mu :
           Below(model, evaluation.inequalities[i].gradient, x, p, -evaluation.inequalities[i].value)
    BY TangentFacts
  <2>4. \A i \in DOMAIN lambda :
           LET e == evaluation.equalities[i]
               t == Toward(model, e.gradient, x, p)
           IN  t <= Unit * (RoundOff - e.value) /\ -t <= Unit * (RoundOff + e.value)
    BY TangentFacts
  <2>5. \A i \in DOMAIN mu : ti[i] <= Unit * (-evaluation.inequalities[i].value + ro)
    BY <2>3 DEF Below
  <2>6. \A i \in DOMAIN lambda : /\ te[i] <= Unit * (ro - evaluation.equalities[i].value)
                                 /\ -te[i] <= Unit * (ro + evaluation.equalities[i].value)
    BY <2>4
  <2>7. tg <= Unit * (ro - D) BY <2>1, <2>2
  <2> HIDE DEF tg, te, ti, D
  <2> QED BY <2>2, <2>5, <2>6, <2>7
<1>8. 2 * (Unit * oe) <= ne * (2 * (Unit * (nl * (PrimalTol + ro))) + Unit * l)
  <2> DEFINE k == 2 * (Unit * (nl * (PrimalTol + ro))) + Unit * l
  <2>1. k \in Int
    <3> HIDE DEF nl, l
    <3> QED BY <1>2, <1>3, <1>5
  <2>2. \A i \in DOMAIN lambda : Fe[i] \in Int /\ Fe[i] <= k
    <3> TAKE i \in DOMAIN lambda
    <3>1. Magnitude(evaluation.equalities[i].value) <= PrimalTol BY <1>4, ResidualsSmall
    <3>2. lambda[i] * te[i] <= Unit * (nl * (PrimalTol + ro))
      <4> HIDE DEF te, nl
      <4> QED BY <1>2, <1>3, <1>4, <1>5, <1>7, <3>1, EqualityPull
    <3>3. Fe[i] = 2 * (lambda[i] * te[i]) + Unit * l OBVIOUS
    <3> DEFINE a == lambda[i] * te[i]
               b == Unit * (nl * (PrimalTol + ro))
               c == Unit * l
    <3>4. a \in Int /\ b \in Int /\ c \in Int
      <4>1. /\ te[i] \in Int /\ lambda[i] \in Int /\ l \in Int /\ nl \in Int
            /\ Unit \in Int /\ PrimalTol + ro \in Int
        <5>1. te[i] \in Int /\ l \in Int BY <1>3
        <5>2. lambda[i] \in Int BY <1>4
        <5>3. nl \in Int BY <1>5
        <5> HIDE DEF te, l, nl
        <5> QED BY <1>2, <5>1, <5>2, <5>3
      <4> DEFINE f == PrimalTol + ro
      <4> HIDE DEF te, nl, l, f
      <4>2. a \in Int /\ c \in Int BY <4>1
      <4>3. Unit * (nl * f) \in Int BY <4>1 DEF f
      <4>4. b \in Int BY <4>3 DEF f
      <4> QED BY <4>2, <4>4
    <3>5. Fe[i] = 2 * a + c /\ k = 2 * b + c /\ a <= b BY <3>2, <3>3
    <3> HIDE DEF a, b, c, k, Fe
    <3> QED BY <3>4, <3>5
  <2> DEFINE kk == [i \in DOMAIN lambda |-> k]
  <2>3. \A i \in DOMAIN lambda : kk[i] = k /\ kk[i] \in Int /\ Fe[i] \in Int /\ Fe[i] <= kk[i]
    BY <2>1, <2>2
  <2>4. Numbers!Over(Fe, DOMAIN lambda) <= Numbers!Over(kk, DOMAIN lambda)
    <3> HIDE DEF Fe, kk, k
    <3> QED BY <1>1, <1>4, <2>3, FinitenessIsOne, Numbers!SumLess
  <2>5. Numbers!Over(kk, DOMAIN lambda) = k * Cardinality(DOMAIN lambda)
    <3>1. /\ Numbers!Adds /\ Numbers!IsFiniteSet(DOMAIN lambda)
          /\ Numbers!Cardinality(DOMAIN lambda) = Cardinality(DOMAIN lambda)
      BY <1>1, <1>4, FinitenessIsOne
    <3>2. \A i \in DOMAIN lambda : kk[i] = k BY <2>3
    <3> HIDE DEF kk, k
    <3>3. Numbers!Over(kk, DOMAIN lambda) = k * Numbers!Cardinality(DOMAIN lambda)
      BY <2>1, <3>1, <3>2, Numbers!SumOfConstant
    <3> QED BY <3>1, <3>3
  <2>6. Numbers!Over(Fe, DOMAIN lambda) \in Int
    <3> HIDE DEF Fe
    <3> QED BY <1>1, <1>4, <2>2, FinitenessIsOne, Numbers!SumType
  <2>8. 2 * (Unit * oe) \in Int BY <1>2, <1>3
  <2>9. k * Cardinality(DOMAIN lambda) = ne * k /\ ne * k \in Int
    <3>1. Cardinality(DOMAIN lambda) = ne /\ ne \in Nat BY <1>4
    <3> HIDE DEF k, ne
    <3> QED BY <2>1, <3>1
  <2>10. 2 * (Unit * oe) <= Numbers!Over(Fe, DOMAIN lambda) BY <1>3
  <2>11. 2 * (Unit * oe) <= ne * k
    <3> HIDE DEF k, ne, oe, Fe, kk
    <3> QED BY <2>4, <2>5, <2>6, <2>8, <2>9, <2>10
  <2> QED BY <2>11
<1>9. 2 * (Unit * oi)
        <= 2 * (Unit * (ro * tm)) + ni * (Unit * (2 * (Unit * PrimalTol) + Unit) + Unit * l)
  <2> DEFINE k == Unit * (2 * (Unit * PrimalTol) + Unit) + Unit * l
             c == 2 * (Unit * ro)
  <2>1. k \in Int /\ c \in Int
    <3> HIDE DEF l
    <3> QED BY <1>2, <1>3
  <2>2. \A i \in DOMAIN mu : Fi[i] \in Int /\ mu[i] \in Int /\ Fi[i] <= c * mu[i] + k
    <3> TAKE i \in DOMAIN mu
    <3> DEFINE b == evaluation.inequalities[i].value
    <3>1. Magnitude(Product(b, mu[i])) <= PrimalTol BY <1>4, ResidualsSmall
    <3>2. 2 * (mu[i] * ti[i]) <= 2 * (Unit * (ro * mu[i])) + Unit * (2 * (Unit * PrimalTol) + Unit)
      <4>1. ti[i] \in Int /\ mu[i] \in Nat /\ b \in Int /\ ti[i] <= Unit * (-b + ro)
        BY <1>3, <1>4, <1>7
      <4> HIDE DEF ti, b
      <4> QED BY <1>2, <3>1, <4>1, InequalityPull
    <3>3. Fi[i] = 2 * (mu[i] * ti[i]) + Unit * l /\ mu[i] \in Int BY <1>4
    <3>4. 2 * (Unit * (ro * mu[i])) = c * mu[i] BY <1>2, <1>4
    <3> DEFINE a == 2 * (mu[i] * ti[i])
               e == c * mu[i]
               f == Unit * (2 * (Unit * PrimalTol) + Unit)
               g == Unit * l
    <3>5. a \in Int /\ e \in Int /\ f \in Int /\ g \in Int
      <4>1. /\ ti[i] \in Int /\ mu[i] \in Int /\ l \in Int /\ c \in Int
            /\ Unit \in Int /\ PrimalTol \in Int
        <5>1. ti[i] \in Int /\ l \in Int BY <1>3
        <5>2. mu[i] \in Int BY <1>4
        <5> HIDE DEF ti, l, c
        <5> QED BY <1>2, <2>1, <5>1, <5>2
      <4> HIDE DEF ti, l, c
      <4>2. a \in Int /\ g \in Int BY <4>1
      <4>3. e \in Int BY <4>1
      <4>4. f \in Int BY <4>1
      <4> QED BY <4>2, <4>3, <4>4
    <3>6. Fi[i] = a + g /\ k = f + g /\ a <= e + f BY <3>2, <3>3, <3>4
    <3>7. Fi[i] \in Int /\ Fi[i] <= e + k
      <4> HIDE DEF a, e, f, g, k, Fi
      <4> QED BY <3>5, <3>6
    <3> QED BY <3>3, <3>7
  <2>3. Numbers!Over(Fi, DOMAIN mu) <= c * Numbers!Over(mu, DOMAIN mu) + k * Cardinality(DOMAIN mu)
    <3> HIDE DEF Fi, c, k
    <3> QED BY <1>4, <2>1, <2>2, SumWithin
  <2>4. Numbers!Over(Fi, DOMAIN mu) \in Int
    <3> HIDE DEF Fi
    <3> QED BY <1>1, <1>4, <2>2, FinitenessIsOne, Numbers!SumType
  <2>5. c * Numbers!Over(mu, DOMAIN mu) = 2 * (Unit * (ro * tm)) /\ 2 * (Unit * (ro * tm)) \in Int
    <3>1. tm \in Nat /\ tm = Numbers!Over(mu, DOMAIN mu) BY <1>6
    <3> HIDE DEF tm
    <3> QED BY <1>2, <3>1
  <2>6. k * Cardinality(DOMAIN mu) = ni * k /\ ni * k \in Int
    <3>1. Cardinality(DOMAIN mu) = ni /\ ni \in Nat BY <1>4
    <3> HIDE DEF k, ni
    <3> QED BY <2>1, <3>1
  <2>7. 2 * (Unit * oi) \in Int BY <1>2, <1>3
  <2>8. 2 * (Unit * oi) <= Numbers!Over(Fi, DOMAIN mu) BY <1>3
  <2>9. 2 * (Unit * oi) <= 2 * (Unit * (ro * tm)) + ni * k
    <3> HIDE DEF k, ni, oi, Fi, c, tm
    <3> QED BY <2>3, <2>4, <2>5, <2>6, <2>7, <2>8
  <2> QED BY <2>9
<1>10. tg \in Int /\ -(DualTol * l) <= tg + oe + oi
  <2> DEFINE Rd == [v \in C |-> R[v] * d[v]]
             lo == [v \in C |-> (-DualTol) * mag[v]]
             We2 == [v \in C |-> We[v] + Wi[v]]
  <2>1. \A v \in C : /\ d[v] \in Int /\ d[v] = p[v] - x[v]
                     /\ mag[v] = Magnitude(d[v]) /\ mag[v] \in Nat
    <3>1. \A v \in C : d[v] \in Int /\ d[v] = p[v] - x[v] BY <1>1 DEF Numbered
    <3> QED BY <3>1, MagnitudeType
  <2>2. \A v \in C : /\ R[v] \in Int /\ Magnitude(R[v]) <= DualTol
                     /\ evaluation.gradient[v] \in Int
                     /\ Weighted(evaluation.equalities, lambda, v) \in Int
                     /\ Weighted(evaluation.inequalities, mu, v) \in Int
                     /\ R[v] = evaluation.gradient[v] + Weighted(evaluation.equalities, lambda, v)
                                 + Weighted(evaluation.inequalities, mu, v)
    BY ResidualType, ResidualsSmall, ListTypes DEF Numbered
  <2>3. \A v \in C : /\ We[v] \in Int /\ Wi[v] \in Int /\ Wg[v] \in Int
                     /\ Rd[v] \in Int /\ We2[v] \in Int
                     /\ We2[v] = We[v] + Wi[v]
                     /\ Rd[v] = Wg[v] + We2[v]
    <3> TAKE v \in C
    <3> DEFINE a == evaluation.gradient[v]
               b == Weighted(evaluation.equalities, lambda, v)
               c == Weighted(evaluation.inequalities, mu, v)
               e == p[v] - x[v]
    <3>1. a \in Int /\ b \in Int /\ c \in Int /\ e \in Int /\ R[v] = a + b + c /\ d[v] = e
      BY <2>1, <2>2
    <3>2. We[v] = b * e /\ Wi[v] = c * e /\ Wg[v] = a * e /\ Rd[v] = R[v] * d[v] /\ We2[v] = We[v] + Wi[v]
      OBVIOUS
    <3> HIDE DEF a, b, c, e, We, Wi, Wg, Rd, We2, R, d
    <3>3. Rd[v] = (a + b + c) * e BY <3>1, <3>2
    <3>4. (a + b + c) * e = a * e + (b * e + c * e) BY <3>1
    <3> QED BY <3>1, <3>2, <3>3, <3>4
  <2>4. \A v \in C : lo[v] \in Int /\ lo[v] = (-DualTol) * mag[v] /\ lo[v] <= Rd[v]
    <3> TAKE v \in C
    <3>1. /\ R[v] \in Int /\ Magnitude(R[v]) <= DualTol /\ d[v] \in Int /\ mag[v] = Magnitude(d[v])
          /\ Rd[v] = R[v] * d[v] /\ lo[v] = (-DualTol) * mag[v] /\ mag[v] \in Nat
      BY <2>1, <2>2
    <3> HIDE DEF R, d, mag, Rd, lo
    <3>2. -DualTol <= R[v] /\ R[v] <= DualTol BY <1>2, <3>1 DEF Magnitude
    <3>3. CASE d[v] >= 0
      <4>1. (-DualTol) * d[v] <= R[v] * d[v] BY <1>2, <3>1, <3>2, <3>3
      <4>2. mag[v] = d[v] BY <3>1, <3>3 DEF Magnitude
      <4> QED BY <1>2, <3>1, <4>1, <4>2
    <3>4. CASE d[v] < 0
      <4>1. (-d[v]) * (-DualTol) <= (-d[v]) * (-R[v])
        <5>1. -d[v] \in Nat /\ -DualTol \in Int /\ -R[v] \in Int /\ -DualTol <= -R[v]
          BY <1>2, <3>1, <3>2, <3>4
        <5>2. \A n \in Nat : \A a, b \in Int : a <= b => n * a <= n * b OBVIOUS
        <5> QED BY <5>1, <5>2
      <4>2. mag[v] = -d[v] BY <3>1, <3>4 DEF Magnitude
      <4>3. (-d[v]) * (-R[v]) = R[v] * d[v] /\ (-d[v]) * (-DualTol) = (-DualTol) * (-d[v])
        BY <1>2, <3>1
      <4> QED BY <1>2, <3>1, <4>1, <4>2, <4>3
    <3> QED BY <3>1, <3>3, <3>4
  <2>5. tg = Numbers!Over(Wg, C)
    <3>1. DOMAIN Wg = C /\ tg = Total(Wg) BY DEF Toward
    <3> HIDE DEF Wg, tg
    <3> QED BY <3>1, TotalIsSum
  <2>6. l = Numbers!Over(mag, C)
    <3>1. [v \in C |-> Magnitude(p[v] - x[v])] = mag BY <2>1
    <3>2. DOMAIN mag = C OBVIOUS
    <3> HIDE DEF mag
    <3> QED BY <3>1, <3>2, TotalIsSum
  <2>7. Numbers!Over(lo, C) = (-DualTol) * Numbers!Over(mag, C)
    <3>1. -DualTol \in Int /\ \A v \in C : mag[v] \in Int BY <1>2, <2>1
    <3> HIDE DEF lo, mag
    <3> QED BY <1>1, <2>4, <3>1, Numbers!SumScaled
  <2>8. Numbers!Over(lo, C) <= Numbers!Over(Rd, C)
    <3> HIDE DEF lo, Rd
    <3> QED BY <1>1, <2>3, <2>4, Numbers!SumLess
  <2>9. Numbers!Over(Rd, C) = Numbers!Over(Wg, C) + Numbers!Over(We2, C)
    <3> HIDE DEF Rd, Wg, We2
    <3> QED BY <1>1, <2>3, Numbers!SumOfSums
  <2>10. Numbers!Over(We2, C) = oe + oi
    <3>1. \A v \in C : We[v] \in Int /\ Wi[v] \in Int /\ We2[v] = We[v] + Wi[v] BY <2>3
    <3> HIDE DEF We2, We, Wi, Wg, Rd, lo, C
    <3>2. Numbers!Over(We2, C) = Numbers!Over(We, C) + Numbers!Over(Wi, C)
      BY <1>1, <3>1, Numbers!SumOfSums
    <3> QED BY <3>2
  <2>11. Numbers!Over(Wg, C) \in Int
    <3> HIDE DEF Wg
    <3> QED BY <1>1, <2>3, Numbers!SumType
  <2>12. (-DualTol) * l = -(DualTol * l)
    <3> HIDE DEF l
    <3> QED BY <1>2, <1>3
  <2> HIDE DEF tg, l, oe, oi, Wg, We2, Rd, lo, mag
  <2> QED BY <1>3, <2>5, <2>6, <2>7, <2>8, <2>9, <2>10, <2>11, <2>12
<1>11. ne + ni <= 2 * ro
  <2>1. /\ Len(Evaluate(request, x).equalities) + Len(Evaluate(request, x).inequalities) <= 2 * RoundOff
    BY <1>1 DEF SidesWithinRoundOff, AtNumbers, model
  <2>2. evaluation = Evaluate(request, x) BY DEF AtNumbers
  <2>3. ne = Len(evaluation.equalities) /\ ni = Len(evaluation.inequalities) BY EntryTypes
  <2> QED BY <2>1, <2>2, <2>3
<1> DEFINE p1 == Product(DualTol + ro, l)
           p2 == Product(PrimalTol + ro, nl * ne)
           p3 == Product(ro, tm)
<1>12. \A a, b \in Int : Product(a, b) \in Int /\ 2 * (a * b) <= 2 * (Unit * Product(a, b)) + Unit
  <2> TAKE a \in Int, b \in Int
  <2> DEFINE y == 2 * (a * b)
             w == 2 * (Unit * Product(a, b))
  <2>0. Product(a, b) \in Int /\ 2 * (a * b) - Unit <= 2 * (Unit * Product(a, b))
    BY ProductIsNearest
  <2>1. Product(a, b) \in Int /\ y - Unit <= w /\ y \in Int
    <3>1. y \in Int OBVIOUS
    <3> QED BY <2>0, <3>1
  <2>2. w \in Int BY <1>2, <2>1
  <2> HIDE DEF y, w
  <2>3. y <= w + Unit BY <1>2, <2>1, <2>2
  <2> QED BY <2>1, <2>3 DEF y, w
<1>13. DualTol + ro \in Int /\ PrimalTol + ro \in Int /\ nl * ne \in Int
  <2> HIDE DEF nl, ne
  <2> QED BY <1>2, <1>4, <1>5
<1>14. /\ p1 \in Int /\ 2 * ((DualTol + ro) * l) <= 2 * (Unit * p1) + Unit
       /\ p2 \in Int /\ 2 * ((PrimalTol + ro) * (nl * ne)) <= 2 * (Unit * p2) + Unit
       /\ p3 \in Int /\ 2 * (ro * tm) <= 2 * (Unit * p3) + Unit
  <2>1. l \in Int /\ tm \in Int /\ ro \in Int BY <1>2, <1>3, <1>6
  <2> HIDE DEF l, tm, nl, ne
  <2> QED BY <1>12, <1>13, <2>1
<1>15. D <= ni * PrimalTol + p1 + p2 + p3 + ro * (2 + ni)
  <2> HIDE DEF D, tg, oe, oi, l, nl, tm, ne, ni, p1, p2, p3
  <2> QED BY <1>2, <1>3, <1>4, <1>5, <1>6, <1>7, <1>8, <1>9, <1>10, <1>11, <1>14, GapArithmetic
<1>16. Allowance(p) = ni * PrimalTol + p1 + p2 + p3 + ro * (2 + ni)
  BY DEF Allowance
<1>17. evaluation.objective \in Int /\ Evaluate(request, p).objective \in Int BY TangentFacts
<1>18. Allowance(p) \in Int
  <2>1. ni * PrimalTol \in Int /\ ro * (2 + ni) \in Int
    <3>1. ni \in Nat BY <1>4
    <3> HIDE DEF ni
    <3> QED BY <1>2, <3>1
  <2> HIDE DEF ni, p1, p2, p3
  <2> QED BY <1>14, <1>16, <2>1
<1> HIDE DEF ni, p1, p2, p3
<1> QED BY <1>15, <1>16, <1>17, <1>18

\* For every convex model whose oracle answers numbers and lies above its
\* tangents, no feasible point compared is better than a LocallyOptimal one by
\* more than the tolerances allow for.
THEOREM ConvexAlwaysSolved ==
    ASSUME OracleAnswersNumbers, BackendAnswersDirections, ConvexOracle, SidesWithinRoundOff,
           \A g \in GridPoints : g \in [DOMAIN g -> Int]
    PROVE  Spec => []ConvexIsSolved
<1>1. KktInv => ConvexIsSolved
  <2> SUFFICES ASSUME KktInv, Solved, model.convex,
                      NEW p \in GridPoints, DOMAIN p = ColumnsOf(model),
                      Nonlinear(model, p).finite, AskedFor(p, 0)
               PROVE  result.objective_value
                        <= ObjectiveValue(model, p) + Nonlinear(model, p).objective + Allowance(p)
    BY DEF ConvexIsSolved
  <2>1. Answered BY DEF KktInv, MatchInv, IInv, Solved, Answered
  <2>2. /\ result.primal_solution = x /\ result.objective_value = evaluation.objective
        /\ Converged(evaluation, lambda, mu)
    BY <2>1 DEF KktInv
  <2>3. AtNumbers
    BY <2>1, <2>2 DEF AtNumbers, KktInv, MatchInv, IInv, StaysInterior, Working
  <2>4. p \in Numbered(model) BY DEF Numbered
  <2>5. evaluation.objective <= Evaluate(request, p).objective + Allowance(p)
    BY <2>2, <2>3, <2>4, ConvexGap
  <2>6. Evaluate(request, p).objective = ObjectiveValue(model, p) + Nonlinear(model, p).objective
    BY DEF Evaluate, model
  <2> QED BY <2>2, <2>5, <2>6
<1>2. Spec => []KktInv BY KktHolds
<1> QED BY <1>1, <1>2, PTL

=============================================================================
