---------------------------- MODULE LinearProofs ----------------------------
(***************************************************************************)
(* Whatever the field, the matrices and the way a solve ends, BiCGSTAB     *)
(* reports the residual of the solution it leaves; a CSR matrix that       *)
(* create_matrix accepts is the table of its cells; and over a field a     *)
(* solve of order n is over in n iterations.                               *)
(***************************************************************************)
EXTENDS LinearProperties, FiniteSetTheorems, TLAPS

USE DEF Vectors

\* Adding to a vector and adding to a residual keep the order.
LEMMA SumsAreVectors ==
    ASSUME NEW n, NEW f \in Vectors(n), NEW g \in Vectors(n), NEW a \in Scalars
    PROVE  /\ More(f, a, g) \in Vectors(n)
           /\ Less(f, a, g) \in Vectors(n)
BY FieldAssumption DEF More, Less

LEMMA OriginIsVector == ASSUME NEW n PROVE Origin(n) \in Vectors(n)
BY FieldAssumption DEF Origin

\* c - (f + a g) = (c - f) - a g.
LEMMA LessMore ==
    ASSUME NEW n, NEW c \in Vectors(n), NEW f \in Vectors(n), NEW g \in Vectors(n),
           NEW a \in Scalars
    PROVE  Less(c, One, More(f, a, g)) = Less(Less(c, One, f), a, g)
<1> DEFINE h == More(f, a, g)
<1>1. \A i \in 1 .. n :
        Minus(c[i], Times(One, Plus(f[i], Times(a, g[i]))))
          = Minus(Minus(c[i], Times(One, f[i])), Times(a, g[i]))
  <2> TAKE i \in 1 .. n
  <2>1. c[i] \in Scalars /\ f[i] \in Scalars /\ Times(a, g[i]) \in Scalars
    BY FieldAssumption
  <2>2. Plus(f[i], Times(a, g[i])) \in Scalars
    BY <2>1, FieldAssumption
  <2>3. /\ Times(One, Plus(f[i], Times(a, g[i]))) = Plus(f[i], Times(a, g[i]))
        /\ Times(One, f[i]) = f[i]
    BY <2>1, <2>2, FieldAssumption
  <2>4. Minus(c[i], Plus(f[i], Times(a, g[i]))) = Minus(Minus(c[i], f[i]), Times(a, g[i]))
    BY <2>1, FieldAssumption
  <2> QED BY <2>3, <2>4
<1>2. Less(c, One, h) = [i \in 1 .. n |-> Minus(c[i], Times(One, h[i]))]
  BY DEF Less
<1>3. \A i \in 1 .. n : h[i] = Plus(f[i], Times(a, g[i]))
  BY DEF More
<1>4. Less(Less(c, One, f), a, g)
        = [i \in 1 .. n |-> Minus(Minus(c[i], Times(One, f[i])), Times(a, g[i]))]
  BY DEF Less
<1> QED BY <1>1, <1>2, <1>3, <1>4

\* Moving the solution by a y moves its residual by - a A y.
LEMMA ResidualMoves ==
    ASSUME NEW m \in Matrices, NEW n, n = m.rows,
           NEW c \in Vectors(n), NEW f \in Vectors(n), NEW g \in Vectors(n),
           NEW a \in Scalars
    PROVE  Less(c, One, Apply(m, More(f, a, g)))
             = Less(Less(c, One, Apply(m, f)), a, Apply(m, g))
<1>1. Apply(m, More(f, a, g)) = More(Apply(m, f), a, Apply(m, g))
  BY OperatorAssumption
<1>2. Apply(m, f) \in Vectors(n) /\ Apply(m, g) \in Vectors(n)
  BY OperatorAssumption
<1> QED BY <1>1, <1>2, LessMore

\* The residual of the origin is the right-hand side.
LEMMA ResidualOfOrigin ==
    ASSUME NEW m \in Matrices, NEW n, n = m.rows, NEW c \in Vectors(n)
    PROVE  Less(c, One, Apply(m, Origin(n))) = c
<1>1. Apply(m, Origin(n)) = Origin(n)
  BY OperatorAssumption
<1>2. \A i \in 1 .. n : Minus(c[i], Times(One, Zero)) = c[i]
  BY FieldAssumption
<1> QED BY <1>1, <1>2 DEF Less, Origin

-----------------------------------------------------------------------------
\* What the loop keeps besides the residual: vectors and scalars that are
\* some, and divisors that are not zero.
Working ==
    /\ iter \in Nat
    /\ x \in Vectors(size)
    /\ r_hat \in Vectors(size) /\ p \in Vectors(size) /\ v \in Vectors(size)
    /\ rho \in Scalars /\ rho_prev \in Scalars
    /\ alpha \in Scalars /\ omega \in Scalars
    /\ iter # 0 => rho_prev # Zero /\ omega # Zero

\* r is the residual of x, too large to stop; so is x's residual after a
\* breakdown; and an answer tells its own.
Accounted ==
    /\ request \in Requests
    /\ pc = "call" => iter = 0 /\ alpha = One /\ omega = One /\ rho_prev = One
    /\ pc \in {"loop", "measure", "returned"} => ~Refused(request)
    /\ pc \in {"loop", "measure"} => x \in Vectors(size) /\ ~Small(Residual(b, x))
    /\ pc = "loop" => Working /\ r \in Vectors(size) /\ r = Residual(b, x)
    /\ pc = "returned" =>
          /\ result.residual = Norm(Residual(b, x))
          /\ result.converged <=> result.residual <= request.tolerance

LEMMA Sized ==
    ASSUME request \in Requests, ~Refused(request)
    PROVE  /\ A \in Matrices /\ size = A.rows
           /\ request.rhs \in Vectors(size) /\ b \in Vectors(size)
BY RequestAssumption, OriginIsVector DEF A, size, b

LEMMA StartAccounted == Init => Accounted
BY DEF Init, Accounted

\* The quantities of an iteration that gets as far as s.
LEMMA HalfIteration ==
    ASSUME Accounted, HalfDone
    PROVE  /\ A \in Matrices /\ b \in Vectors(size)
           /\ Direction \in Vectors(size) /\ Image \in Vectors(size)
           /\ Alpha \in Scalars /\ s \in Vectors(size)
           /\ HalfStep \in Vectors(size)
           /\ s = Residual(b, HalfStep)
<1>1. Working /\ r \in Vectors(size) /\ r = Residual(b, x) /\ ~Refused(request)
      /\ request \in Requests /\ rho # Zero /\ Denominator # Zero
  BY DEF Accounted, HalfDone, Iterating
<1>2. A \in Matrices /\ size = A.rows /\ b \in Vectors(size)
  BY <1>1, Sized
<1>3. Direction \in Vectors(size)
  <2>1. CASE iter = 0
    BY <2>1, <1>1 DEF Direction
  <2>2. CASE iter # 0
    <3>1. Beta \in Scalars
      <4>1. Over(rho, rho_prev) \in Scalars /\ Over(alpha, omega) \in Scalars
        BY <1>1, <2>2, FieldAssumption DEF Working
      <4> QED BY <4>1, FieldAssumption DEF Beta
    <3>2. Less(p, omega, v) \in Vectors(size)
      BY <1>1, SumsAreVectors DEF Working
    <3>3. More(r, Beta, Less(p, omega, v)) \in Vectors(size)
      BY <1>1, <3>1, <3>2, SumsAreVectors
    <3> QED BY <3>3, <2>2 DEF Direction
  <2> QED BY <2>1, <2>2
<1>4. Image \in Vectors(size)
  BY <1>2, <1>3, OperatorAssumption DEF Image
<1>5. Denominator \in Scalars
  BY <1>1, <1>2, <1>4, OperatorAssumption DEF Denominator, Working
<1>6. Alpha \in Scalars
  BY <1>1, <1>5, FieldAssumption DEF Alpha, Working
<1>7. s \in Vectors(size) /\ HalfStep \in Vectors(size)
  BY <1>1, <1>3, <1>4, <1>6, SumsAreVectors DEF s, HalfStep, Working
<1>8. Residual(b, HalfStep) = Less(Residual(b, x), Alpha, Apply(A, Direction))
  BY <1>1, <1>2, <1>3, <1>6, ResidualMoves DEF Residual, HalfStep, Working
<1>9. s = Residual(b, HalfStep)
  BY <1>1, <1>8 DEF s, Image
<1> QED BY <1>2, <1>3, <1>4, <1>6, <1>7, <1>9

\* And of one that gets through.
LEMMA WholeIteration ==
    ASSUME Accounted, Whole
    PROVE  /\ Omega \in Scalars
           /\ FullStep \in Vectors(size) /\ Remaining \in Vectors(size)
           /\ Remaining = Residual(b, FullStep)
<1>1. /\ A \in Matrices /\ b \in Vectors(size)
      /\ s \in Vectors(size) /\ HalfStep \in Vectors(size)
      /\ s = Residual(b, HalfStep)
  BY HalfIteration DEF Whole
<1>2. size = A.rows
  BY DEF size
<1>3. t \in Vectors(size)
  BY <1>1, <1>2, OperatorAssumption DEF t
<1>4. Dot(t, s) \in Scalars /\ Dot(t, t) \in Scalars
  BY <1>1, <1>2, <1>3, OperatorAssumption
<1>5. Omega \in Scalars
  BY <1>4, FieldAssumption DEF Omega, Whole
<1>6. FullStep \in Vectors(size) /\ Remaining \in Vectors(size)
  BY <1>1, <1>3, <1>5, SumsAreVectors DEF FullStep, Remaining
<1>7. Residual(b, FullStep) = Less(Residual(b, HalfStep), Omega, Apply(A, s))
  BY <1>1, <1>2, <1>5, ResidualMoves DEF Residual, FullStep
<1> QED BY <1>1, <1>5, <1>6, <1>7 DEF Remaining, t

-----------------------------------------------------------------------------
LEMMA StepAccounted == Accounted /\ [Next]_vars => Accounted'
<1> SUFFICES ASSUME Accounted, [Next]_vars PROVE Accounted'
  OBVIOUS
<1> USE DEF A, size, Overwritten, b, Small, Residual
<1>1. CASE Refuse
  BY <1>1 DEF Refuse, work, Accounted
<1>2. CASE AlreadySolved
  <2>1. /\ A \in Matrices /\ b \in Vectors(size)
    BY <1>2, Sized DEF AlreadySolved, Accounted
  <2>2. Residual(b, Origin(size)) = b
    BY <2>1, ResidualOfOrigin
  <2> QED BY <1>2, <2>2 DEF AlreadySolved, Return, Accounted
<1>3. CASE Begin
  <2>1. /\ A \in Matrices /\ b \in Vectors(size)
    BY <1>3, Sized DEF Begin, Accounted
  <2>2. Residual(b, Origin(size)) = b /\ Origin(size) \in Vectors(size)
    BY <2>1, ResidualOfOrigin, OriginIsVector
  <2>3. Dot(b, b) \in Scalars
    BY <2>1, OperatorAssumption
  <2>4. One \in Scalars
    BY FieldAssumption
  <2> QED BY <1>3, <2>1, <2>2, <2>3, <2>4 DEF Begin, Accounted, Working
<1>4. CASE OutOfIterations
  BY <1>4 DEF OutOfIterations, work, Accounted, Working
<1>5. CASE RhoBreaks
  BY <1>5 DEF RhoBreaks, Iterating, Break, Accounted, Working
<1>6. CASE AlphaBreaks
  BY <1>6 DEF AlphaBreaks, Iterating, Break, Accounted, Working
<1>7. CASE EarlyExit
  BY <1>7, HalfIteration DEF EarlyExit, HalfDone, Iterating, Return, Accounted
<1>8. CASE TBreaks
  BY <1>8 DEF TBreaks, HalfDone, Iterating, Break, Accounted, Working
<1>9. CASE OmegaBreaks
  BY <1>9, HalfIteration DEF OmegaBreaks, HalfDone, Iterating, Break, Accounted
<1>10. CASE Converge
  BY <1>10, WholeIteration DEF Converge, Whole, HalfDone, Iterating, Return, Accounted
<1>11. CASE Continue
  <2>1. /\ A \in Matrices /\ Direction \in Vectors(size) /\ Image \in Vectors(size)
        /\ Alpha \in Scalars
    BY <1>11, HalfIteration DEF Continue, Whole
  <2>2. /\ Omega \in Scalars
        /\ FullStep \in Vectors(size) /\ Remaining \in Vectors(size)
        /\ Remaining = Residual(b, FullStep)
    BY <1>11, WholeIteration DEF Continue
  <2>3. Dot(r_hat, Remaining) \in Scalars
    <3>1. r_hat \in Vectors(size)
      BY <1>11 DEF Continue, Whole, HalfDone, Iterating, Accounted, Working
    <3> QED BY <2>1, <2>2, <3>1, OperatorAssumption
  <2>4. rho # Zero /\ Omega # Zero /\ ~Small(Remaining)
    BY <1>11 DEF Continue, Whole, HalfDone
  <2>5. Working'
    BY <1>11, <2>1, <2>2, <2>3, <2>4
       DEF Continue, Whole, HalfDone, Iterating, Accounted, Working
  <2> QED
    BY <1>11, <2>2, <2>4, <2>5 DEF Continue, Whole, HalfDone, Iterating, Accounted
<1>12. CASE Measure
  BY <1>12 DEF Measure, Return, work, Accounted
<1>13. CASE Finished \/ UNCHANGED vars
  BY <1>13 DEF Finished, vars, work, Accounted, Working
<1> QED BY <1>1, <1>2, <1>3, <1>4, <1>5, <1>6, <1>7, <1>8, <1>9, <1>10, <1>11,
           <1>12, <1>13 DEF Next, Step, Iterate

\* For every field, every matrix and every way a solve ends, the residual a
\* backend reports is the residual of its solution (ReportedResidualIsTrue).
THEOREM ResidualsAreTrue == Spec => []ReportedResidualIsTrue
<1>1. Accounted => ReportedResidualIsTrue
  BY DEF Accounted, ReportedResidualIsTrue, b
<1> QED BY <1>1, StartAccounted, StepAccounted, PTL DEF Spec

-----------------------------------------------------------------------------
(* Sparse matrices.                                                        *)

Sum == INSTANCE FoldTheory WITH Typ <- Scalars, Op <- Plus, Base <- Zero
LEMMA FiniteThere == \A S : Sum!IsFiniteSet(S) <=> IsFiniteSet(S)
BY DEF IsFiniteSet, Sum!IsFiniteSet

\* What create_matrix is given, of the types of its parameters, and as many
\* values as column indices (set_values refuses any other number).
Given(m) ==
    /\ m.rows \in Int /\ m.columns \in Int
    /\ m.row_offsets \in Seq(Int) /\ m.column_indices \in Seq(Int)
    /\ m.values \in [DOMAIN m.column_indices -> Scalars]

-----------------------------------------------------------------------------
(* A valid pattern is that of a set of positions.                          *)

LEMMA OffsetsRise ==
    ASSUME NEW m, Given(m), ValidPattern(m)
    PROVE  \A i, j \in 1 .. m.rows + 1 : i <= j => m.row_offsets[i] <= m.row_offsets[j]
<1> DEFINE off == m.row_offsets
           Good == {d \in Nat : \A i \in 1 .. m.rows + 1 :
                       i + d <= m.rows + 1 => off[i] <= off[i + d]}
<1>1. /\ m.rows \in Nat /\ DOMAIN off = 1 .. m.rows + 1
      /\ \A i \in 1 .. m.rows + 1 : off[i] \in Int
      /\ \A i \in 1 .. m.rows : off[i] <= off[i + 1]
  <2>1. m.rows \in Nat /\ off \in Seq(Int) /\ Len(off) = m.rows + 1
    BY DEF Given, ValidPattern, OffsetsDescribe
  <2>2. \A i \in 1 .. m.rows : off[i] <= off[i + 1] BY DEF ValidPattern, RowsAreRanges
  <2> HIDE DEF off
  <2> QED BY <2>1, <2>2
<1>2. 0 \in Good BY <1>1
<1>3. ASSUME NEW d \in Nat, d \in Good PROVE d + 1 \in Good
  <2> HIDE DEF off
  <2> SUFFICES ASSUME NEW i \in 1 .. m.rows + 1, i + (d + 1) <= m.rows + 1
               PROVE  off[i] <= off[i + (d + 1)]
    OBVIOUS
  <2>1. i + d \in 1 .. m.rows /\ (i + d) + 1 = i + (d + 1) BY <1>1
  <2>2. off[i] <= off[i + d] BY <1>3, <1>1
  <2>3. off[i + d] <= off[(i + d) + 1] BY <1>1, <2>1
  <2>4. off[i] \in Int /\ off[i + d] \in Int /\ off[(i + d) + 1] \in Int BY <1>1, <2>1
  <2> QED BY <2>1, <2>2, <2>3, <2>4
<1>4. \A d \in Nat : d \in Good
  <2> HIDE DEF Good
  <2> QED BY <1>2, <1>3, Sum!NumberInduction
<1> SUFFICES ASSUME NEW i \in 1 .. m.rows + 1, NEW j \in 1 .. m.rows + 1, i <= j
             PROVE  off[i] <= off[j]
  OBVIOUS
<1>5. j - i \in Nat /\ i + (j - i) = j /\ j <= m.rows + 1 BY <1>1
<1>6. j - i \in Good BY <1>4, <1>5
<1> HIDE DEF off
<1> QED BY <1>5, <1>6

\* The entries of the rows are the stretches of the list of entries.
LEMMA RowsOfEntries ==
    ASSUME NEW m, Given(m), ValidPattern(m)
    PROVE  LET n == Len(m.column_indices) IN
           /\ m.rows \in Nat /\ m.columns \in Nat /\ n \in Nat
           /\ \A i \in 1 .. m.rows : Row(m, i) \in SUBSET (1 .. n)
           /\ \A k \in 1 .. n : RowOf(m, k) \in 1 .. m.rows /\ k \in Row(m, RowOf(m, k))
           /\ \A k \in 1 .. n : \A i \in 1 .. m.rows : k \in Row(m, i) => i = RowOf(m, k)
           /\ \A k, l \in 1 .. n : k < l => RowOf(m, k) <= RowOf(m, l)
<1> DEFINE off == m.row_offsets
           n == Len(m.column_indices)
<1>1. /\ m.rows \in Nat /\ m.columns \in Nat /\ n \in Nat
      /\ \A i \in 1 .. m.rows + 1 : off[i] \in Int
      /\ off[1] = 0 /\ off[m.rows + 1] = n
      /\ \A i \in 1 .. m.rows : 0 <= off[i] /\ off[i + 1] <= n
  <2>1. /\ m.rows \in Nat /\ m.columns \in Nat /\ off \in Seq(Int) /\ Len(off) = m.rows + 1
        /\ off[1] = 0 /\ off[m.rows + 1] = n
    BY DEF Given, ValidPattern, OffsetsDescribe
  <2>2. \A i \in 1 .. m.rows : 0 <= off[i] /\ off[i + 1] <= n
    BY DEF ValidPattern, RowsAreRanges
  <2>3. n \in Nat BY DEF Given
  <2> HIDE DEF off, n
  <2> QED BY <2>1, <2>2, <2>3
<1>2. \A i, j \in 1 .. m.rows + 1 : i <= j => off[i] <= off[j] BY OffsetsRise
<1>3. \A i : Row(m, i) = off[i] + 1 .. off[i + 1] BY DEF Row
<1> HIDE DEF off, n
<1>4. ASSUME NEW i \in 1 .. m.rows PROVE Row(m, i) \in SUBSET (1 .. n)
  <2>1. off[i] \in Int /\ off[i + 1] \in Int /\ 0 <= off[i] /\ off[i + 1] <= n BY <1>1
  <2>2. off[i] + 1 .. off[i + 1] \subseteq 1 .. n BY <1>1, <2>1
  <2> QED BY <1>3, <2>2
<1>5. ASSUME NEW k \in 1 .. n PROVE \E i \in 1 .. m.rows : k \in Row(m, i)
  <2> DEFINE S == {i \in 1 .. m.rows + 1 : k <= off[i]}
  <2>1. m.rows + 1 \in S BY <1>1
  <2>2. S \in SUBSET Int /\ S # {} /\ \A i \in S : 0 <= i BY <2>1
  <2>3. \E i \in S : \A j \in S : i <= j
    <3> HIDE DEF S
    <3> QED BY <2>2, Sum!LeastExists
  <2>4. PICK i \in S : \A j \in S : i <= j BY <2>3
  <2>5. i # 1 BY <1>1
  <2>6. i - 1 \in 1 .. m.rows /\ i - 1 \in 1 .. m.rows + 1 /\ i \in 1 .. m.rows + 1
        /\ (i - 1) + 1 = i
    BY <1>1, <2>5
  <2>7. i - 1 \notin S BY <2>4, <2>6
  <2>8. off[i - 1] \in Int /\ off[i] \in Int BY <1>1, <2>6
  <2>9. off[i - 1] < k BY <2>6, <2>7, <2>8
  <2>10. k \in off[i - 1] + 1 .. off[(i - 1) + 1] BY <2>6, <2>8, <2>9
  <2> QED BY <1>3, <2>6, <2>10
<1>6. ASSUME NEW k \in 1 .. n PROVE RowOf(m, k) \in 1 .. m.rows /\ k \in Row(m, RowOf(m, k))
  BY <1>5 DEF RowOf
<1>7. ASSUME NEW i \in 1 .. m.rows, NEW j \in 1 .. m.rows, NEW k \in Row(m, i),
             NEW l \in Row(m, j), k <= l
      PROVE  i <= j
  <2> SUFFICES ASSUME j < i PROVE FALSE OBVIOUS
  <2>1. j + 1 \in 1 .. m.rows + 1 /\ i \in 1 .. m.rows + 1 /\ j + 1 <= i BY <1>1
  <2>2. off[j + 1] <= off[i] BY <1>2, <2>1
  <2>3. off[i] \in Int /\ off[i + 1] \in Int /\ off[j] \in Int /\ off[j + 1] \in Int BY <1>1
  <2>a. k \in off[i] + 1 .. off[i + 1] /\ l \in off[j] + 1 .. off[j + 1] BY <1>3
  <2>4. off[i] < k /\ l <= off[j + 1] /\ k \in Int /\ l \in Int BY <2>3, <2>a
  <2> QED BY <1>7, <2>2, <2>3, <2>4
<1>8. ASSUME NEW k \in 1 .. n, NEW i \in 1 .. m.rows, k \in Row(m, i) PROVE i = RowOf(m, k)
  <2>1. i <= RowOf(m, k) /\ RowOf(m, k) <= i BY <1>6, <1>7, <1>8
  <2> QED BY <1>6, <2>1
<1>9. ASSUME NEW k \in 1 .. n, NEW l \in 1 .. n, k < l PROVE RowOf(m, k) <= RowOf(m, l)
  BY <1>6, <1>7, <1>9
<1> QED BY <1>1, <1>4, <1>6, <1>8, <1>9 DEF n

LEMMA Images ==
    ASSUME NEW n \in Nat, NEW F, \A k, l \in 1 .. n : F[k] = F[l] => k = l,
           NEW T, \A y : y \in T <=> \E k \in 1 .. n : F[k] = y
    PROVE  IsFiniteSet(T) /\ Cardinality(T) = n
<1> DEFINE G == [k \in 1 .. n |-> F[k]]
<1>1. G \in Bijection(1 .. n, T)
  <2>1. G \in [1 .. n -> T] OBVIOUS
  <2>2. \A k, l \in 1 .. n : G[k] = G[l] => k = l OBVIOUS
  <2>3. \A y \in T : \E k \in 1 .. n : G[k] = y OBVIOUS
  <2> HIDE DEF G
  <2> QED BY <2>1, <2>2, <2>3 DEF Bijection, Injection, Surjection, IsInjective
<1>2. IsFiniteSet(1 .. n) /\ Cardinality(1 .. n) = n BY FS_Interval
<1>3. ExistsBijection(1 .. n, T)
  <2> HIDE DEF G
  <2> QED BY <1>1 DEF ExistsBijection
<1> HIDE DEF G
<1>4. IsFiniteSet(T) /\ Cardinality(T) = Cardinality(1 .. n) BY <1>2, <1>3, FS_Bijection
<1> QED BY <1>2, <1>4

\* Where the entries are.
Place(m, k) == <<RowOf(m, k), m.column_indices[k] + 1>>
Places(m, d) == {Place(m, k) : k \in 1 .. d}

LEMMA PlacesInOrder ==
    ASSUME NEW m, Given(m), ValidPattern(m)
    PROVE  /\ \A k \in 1 .. Len(m.column_indices) : Place(m, k) \in Positions(m)
           /\ \A k, l \in 1 .. Len(m.column_indices) :
                 Before(Place(m, k), Place(m, l)) <=> k < l
<1> DEFINE n == Len(m.column_indices)
           at(k) == m.column_indices[k]
<1>1. /\ m.rows \in Nat /\ m.columns \in Nat /\ n \in Nat
      /\ \A k \in 1 .. n : RowOf(m, k) \in 1 .. m.rows /\ k \in Row(m, RowOf(m, k))
      /\ \A k, l \in 1 .. n : k < l => RowOf(m, k) <= RowOf(m, l)
  BY RowsOfEntries
<1>2. \A k \in 1 .. n : at(k) \in 0 .. m.columns - 1
  BY DEF Given, ValidPattern, ColumnsInOrder, ColumnsInRange
<1>3. \A i \in 1 .. m.rows : \A k, l \in Row(m, i) : k < l => at(k) < at(l)
  BY DEF ValidPattern, ColumnsInOrder
<1> HIDE DEF n, at
<1>4. ASSUME NEW k \in 1 .. n
      PROVE  /\ Place(m, k) = <<RowOf(m, k), at(k) + 1>>
             /\ RowOf(m, k) \in 1 .. m.rows /\ at(k) + 1 \in 1 .. m.columns
             /\ RowOf(m, k) \in Int /\ at(k) \in Int
  BY <1>1, <1>2 DEF Place, at
<1>5. \A k \in 1 .. n : Place(m, k) \in Positions(m) BY <1>4 DEF Positions
<1>6. ASSUME NEW k \in 1 .. n, NEW l \in 1 .. n
      PROVE  Before(Place(m, k), Place(m, l)) <=>
                RowOf(m, k) < RowOf(m, l) \/ (RowOf(m, k) = RowOf(m, l) /\ at(k) < at(l))
  <2>1. at(k) + 1 < at(l) + 1 <=> at(k) < at(l) BY <1>4
  <2>2. /\ Place(m, k)[1] = RowOf(m, k) /\ Place(m, k)[2] = at(k) + 1
        /\ Place(m, l)[1] = RowOf(m, l) /\ Place(m, l)[2] = at(l) + 1
    BY <1>4
  <2> QED BY <2>1, <2>2 DEF Before
<1>7. ASSUME NEW k \in 1 .. n, NEW l \in 1 .. n, k < l
      PROVE  RowOf(m, k) < RowOf(m, l) \/ (RowOf(m, k) = RowOf(m, l) /\ at(k) < at(l))
  <2>1. RowOf(m, k) <= RowOf(m, l) /\ RowOf(m, k) \in Int /\ RowOf(m, l) \in Int
    BY <1>1, <1>4, <1>7
  <2>2. RowOf(m, k) = RowOf(m, l) => at(k) < at(l) BY <1>1, <1>3, <1>7
  <2> QED BY <2>1, <2>2
<1>8. ASSUME NEW k \in 1 .. n, NEW l \in 1 .. n
      PROVE  Before(Place(m, k), Place(m, l)) <=> k < l
  <2>1. k < l \/ k = l \/ l < k OBVIOUS
  <2>2. /\ RowOf(m, k) \in Int /\ RowOf(m, l) \in Int /\ at(k) \in Int /\ at(l) \in Int
        /\ k \in Int /\ l \in Int
    BY <1>4
  <2>3. CASE k < l BY <1>6, <1>7, <2>3
  <2>4. CASE k = l BY <1>6, <2>2, <2>4
  <2>5. CASE l < k
    <3>1. RowOf(m, l) < RowOf(m, k) \/ (RowOf(m, l) = RowOf(m, k) /\ at(l) < at(k))
      BY <1>7, <2>5
    <3> QED BY <1>6, <2>2, <2>5, <3>1
  <2> QED BY <2>1, <2>3, <2>4, <2>5
<1> QED BY <1>5, <1>8 DEF n

\* As many entries are before a place as come first in the list.
LEMMA PlacesCounted ==
    ASSUME NEW m, Given(m), ValidPattern(m), NEW d \in 0 .. Len(m.column_indices)
    PROVE  IsFiniteSet(Places(m, d)) /\ Cardinality(Places(m, d)) = d
<1> DEFINE n == Len(m.column_indices)
           F == [k \in 1 .. n |-> Place(m, k)]
<1>1. n \in Nat /\ d \in Nat /\ d <= n /\ 1 .. d \subseteq 1 .. n BY DEF Given
<1>2. \A k, l \in 1 .. n : Before(Place(m, k), Place(m, l)) <=> k < l BY PlacesInOrder
<1> HIDE DEF n
<1>3. ASSUME NEW k \in 1 .. d, NEW l \in 1 .. d, F[k] = F[l] PROVE k = l
  <2>1. k \in 1 .. n /\ l \in 1 .. n /\ Place(m, k) = Place(m, l) BY <1>1, <1>3
  <2>2. ~(k < k) /\ ~(l < l) OBVIOUS
  <2>3. ~(k < l) /\ ~(l < k) BY <1>2, <2>1, <2>2
  <2> QED BY <2>3
<1>4. \A y : y \in Places(m, d) <=> \E k \in 1 .. d : F[k] = y BY <1>1 DEF Places
<1> HIDE DEF F
<1>5. \A k, l \in 1 .. d : F[k] = F[l] => k = l BY <1>3
<1> QED BY <1>1, <1>4, <1>5, Images

LEMMA ValidCompresses ==
    ASSUME NEW m, Given(m), ValidPattern(m)
    PROVE  \E where \in SUBSET Positions(m) : Compresses(m, where)
<1> DEFINE n == Len(m.column_indices)
           off == m.row_offsets
           where == Places(m, n)
<1>1. n \in Nat /\ m.rows \in Nat BY RowsOfEntries
<1>2. /\ \A k \in 1 .. n : Place(m, k) \in Positions(m)
      /\ \A k, l \in 1 .. n : Before(Place(m, k), Place(m, l)) <=> k < l
  BY PlacesInOrder
<1>3. \A d \in 0 .. n : Cardinality(Places(m, d)) = d BY PlacesCounted
<1>4. where \in SUBSET Positions(m) BY <1>2 DEF Places
<1>5. Len(m.column_indices) = Cardinality(where) BY <1>1, <1>3
<1>6. ASSUME NEW q \in where
      PROVE  m.column_indices[Cardinality({o \in where : Before(o, q)}) + 1] = q[2] - 1
  <2>1. PICK k \in 1 .. n : q = Place(m, k) BY DEF Places
  <2> HIDE DEF n
  <2>2. k - 1 \in 0 .. n /\ k - 1 \in Nat /\ (k - 1) + 1 = k /\ 1 .. k - 1 \subseteq 1 .. n
        /\ \A l \in 1 .. n : l < k <=> l \in 1 .. k - 1
    BY <1>1
  <2>3. {o \in where : Before(o, q)} = Places(m, k - 1) BY <1>2, <2>1, <2>2 DEF Places
  <2>4. Cardinality({o \in where : Before(o, q)}) = k - 1 BY <1>3, <2>2, <2>3
  <2>5. m.column_indices[k] \in Int BY <2>1 DEF Given, n
  <2>6. q[2] = m.column_indices[k] + 1 BY <2>1 DEF Place
  <2> HIDE DEF where
  <2> QED BY <2>2, <2>4, <2>5, <2>6
<1>7. ASSUME NEW i \in 1 .. m.rows + 1 PROVE off[i] = Cardinality({o \in where : o[1] < i})
  <2>1. /\ \A j \in 1 .. m.rows + 1 : off[j] \in Int
        /\ off[1] = 0 /\ off[m.rows + 1] = n /\ off \in Seq(Int) /\ Len(off) = m.rows + 1
    <3>1. /\ off \in Seq(Int) /\ Len(off) = m.rows + 1 /\ off[1] = 0 /\ off[m.rows + 1] = n
      BY DEF Given, ValidPattern, OffsetsDescribe
    <3> HIDE DEF off, n
    <3> QED BY <3>1, <1>1
  <2>2. \A j, l \in 1 .. m.rows + 1 : j <= l => off[j] <= off[l] BY OffsetsRise
  <2>3. \A k \in 1 .. n : RowOf(m, k) \in 1 .. m.rows /\ k \in Row(m, RowOf(m, k))
    BY RowsOfEntries
  <2>4. \A j : Row(m, j) = off[j] + 1 .. off[j + 1] BY DEF Row
  <2> HIDE DEF off, n
  <2>5. 1 \in 1 .. m.rows + 1 /\ m.rows + 1 \in 1 .. m.rows + 1 /\ 1 <= i /\ i <= m.rows + 1
    BY <1>1
  <2>6. 0 <= off[i] /\ off[i] <= n /\ off[i] \in Int BY <2>1, <2>2, <2>5
  <2>7. off[i] \in 0 .. n /\ 1 .. off[i] \subseteq 1 .. n BY <1>1, <2>6
  <2>8. ASSUME NEW k \in 1 .. n PROVE RowOf(m, k) < i <=> k \in 1 .. off[i]
    <3> DEFINE j == RowOf(m, k)
    <3>1. j \in 1 .. m.rows /\ k \in off[j] + 1 .. off[j + 1] BY <2>3, <2>4
    <3> HIDE DEF j
    <3>2. j \in 1 .. m.rows + 1 /\ j + 1 \in 1 .. m.rows + 1 BY <1>1, <3>1
    <3>3. off[j] \in Int /\ off[j + 1] \in Int BY <2>1, <3>2
    <3>4. off[j] < k /\ k <= off[j + 1] BY <3>1, <3>3
    <3>5. CASE j < i
      <4>1. j + 1 <= i BY <3>1, <3>5
      <4>2. off[j + 1] <= off[i] BY <2>2, <3>2, <4>1
      <4> QED BY <2>6, <3>3, <3>4, <3>5, <4>2 DEF j
    <3>6. CASE ~(j < i)
      <4>1. i <= j BY <3>1, <3>6
      <4>2. off[i] <= off[j] BY <2>2, <3>2, <4>1
      <4> QED BY <2>6, <3>3, <3>4, <3>6, <4>2 DEF j
    <3> QED BY <3>5, <3>6
  <2>9. {o \in where : o[1] < i} = Places(m, off[i])
    <3>1. \A k : Place(m, k)[1] = RowOf(m, k) BY DEF Place
    <3> QED BY <2>7, <2>8, <3>1 DEF Places
  <2> QED BY <1>3, <2>7, <2>9
<1>8. off = [i \in 1 .. m.rows + 1 |-> Cardinality({o \in where : o[1] < i})]
  <2>1. off \in Seq(Int) /\ Len(off) = m.rows + 1
    BY DEF Given, ValidPattern, OffsetsDescribe
  <2>2. off = [i \in 1 .. m.rows + 1 |-> off[i]]
    <3> HIDE DEF off
    <3> QED BY <2>1
  <2> HIDE DEF off, where
  <2> QED BY <1>7, <2>2
<1>9. Compresses(m, where)
  <2> HIDE DEF where
  <2> QED BY <1>5, <1>6, <1>8 DEF Compresses
<1> HIDE DEF where
<1> QED BY <1>4, <1>9

\* The place of a position among those of its set, by row and column.
Rank(where, q) == Cardinality({o \in where : Before(o, q)})

LEMMA BeforeOrders ==
    ASSUME NEW m, m.rows \in Int, m.columns \in Int
    PROVE  /\ \A q \in Positions(m) : ~Before(q, q)
           /\ \A o, q \in Positions(m) : Before(o, q) \/ Before(q, o) \/ o = q
           /\ \A o, q, y \in Positions(m) : Before(o, q) /\ Before(q, y) => Before(o, y)
<1>1. \A q \in Positions(m) : q[1] \in Int /\ q[2] \in Int /\ q = <<q[1], q[2]>>
  BY DEF Positions
<1>2. \A q \in Positions(m) : ~Before(q, q) BY <1>1 DEF Before
<1>3. \A o, q \in Positions(m) : Before(o, q) \/ Before(q, o) \/ o = q
  <2> TAKE o, q \in Positions(m)
  <2>1. /\ o[1] < q[1] \/ o[1] = q[1] \/ q[1] < o[1]
        /\ o[2] < q[2] \/ o[2] = q[2] \/ q[2] < o[2]
    BY <1>1
  <2>2. o[1] = q[1] /\ o[2] = q[2] => o = q BY <1>1
  <2> QED BY <2>1, <2>2 DEF Before
<1>4. \A o, q, y \in Positions(m) : Before(o, q) /\ Before(q, y) => Before(o, y)
  <2> TAKE o, q, y \in Positions(m)
  <2>1. /\ o[1] \in Int /\ q[1] \in Int /\ y[1] \in Int
        /\ o[2] \in Int /\ q[2] \in Int /\ y[2] \in Int
    BY <1>1
  <2> QED BY <2>1 DEF Before
<1> QED BY <1>2, <1>3, <1>4

LEMMA PositionsFinite ==
    ASSUME NEW m, m.rows \in Int, m.columns \in Int, NEW where \in SUBSET Positions(m)
    PROVE  IsFiniteSet(where)
<1>1. IsFiniteSet(1 .. m.rows) /\ IsFiniteSet(1 .. m.columns) BY FS_Interval
<1>2. IsFiniteSet(Positions(m)) BY <1>1, FS_Product DEF Positions
<1> QED BY <1>2, FS_Subset

\* Ranks tell the positions apart and leave out no number.
LEMMA Ranks ==
    ASSUME NEW m, m.rows \in Int, m.columns \in Int, NEW where \in SUBSET Positions(m)
    PROVE  /\ Cardinality(where) \in Nat
           /\ \A q \in where : Rank(where, q) \in 0 .. Cardinality(where) - 1
           /\ \A o, q \in where : Before(o, q) => Rank(where, o) < Rank(where, q)
           /\ \A k \in 1 .. Cardinality(where) : \E q \in where : Rank(where, q) = k - 1
<1> DEFINE n == Cardinality(where)
           below(q) == {o \in where : Before(o, q)}
<1>1. IsFiniteSet(where) /\ n \in Nat BY PositionsFinite, FS_CardinalityType
<1>2. /\ \A q \in where : ~Before(q, q)
      /\ \A o, q \in where : Before(o, q) \/ Before(q, o) \/ o = q
      /\ \A o, q, y \in where : Before(o, q) /\ Before(q, y) => Before(o, y)
  <2>1. where \subseteq Positions(m) OBVIOUS
  <2> QED BY <2>1, BeforeOrders
<1>3. \A q : below(q) \in SUBSET where /\ Rank(where, q) = Cardinality(below(q)) BY DEF Rank
<1>4. \A q : \A o : o \in below(q) <=> o \in where /\ Before(o, q) OBVIOUS
<1> HIDE DEF below, n
<1>5. \A q : IsFiniteSet(below(q)) /\ Cardinality(below(q)) \in Nat
  BY <1>1, <1>3, FS_Subset, FS_CardinalityType
<1>6. ASSUME NEW q \in where PROVE Rank(where, q) \in 0 .. n - 1
  <2>1. below(q) \in SUBSET (where \ {q}) BY <1>2, <1>3, <1>4
  <2>2. IsFiniteSet(where \ {q}) /\ Cardinality(where \ {q}) = n - 1
    BY <1>1, FS_RemoveElement DEF n
  <2>3. Cardinality(below(q)) <= n - 1 BY <2>1, <2>2, FS_Subset
  <2> QED BY <1>1, <1>3, <1>5, <2>3
<1>7. ASSUME NEW o \in where, NEW q \in where, Before(o, q)
      PROVE  Rank(where, o) < Rank(where, q)
  <2>1. below(o) \cup {o} \in SUBSET below(q) BY <1>2, <1>3, <1>4, <1>7
  <2>2. o \notin below(o) BY <1>2, <1>4
  <2>3. Cardinality(below(o) \cup {o}) = Cardinality(below(o)) + 1
    BY <1>5, <2>2, FS_AddElement
  <2>4. Cardinality(below(o) \cup {o}) <= Cardinality(below(q)) BY <1>5, <2>1, FS_Subset
  <2>5. Cardinality(below(o)) \in Nat /\ Cardinality(below(q)) \in Nat BY <1>5
  <2> QED BY <1>3, <2>3, <2>4, <2>5
<1>8. \A k \in 1 .. n : \E q \in where : Rank(where, q) = k - 1
  <2> DEFINE F == [q \in where |-> Rank(where, q) + 1]
  <2>1. F \in [where -> 1 .. n]
    <3>1. \A q \in where : Rank(where, q) + 1 \in 1 .. n BY <1>1, <1>6
    <3> QED BY <3>1
  <2>2. ASSUME NEW o \in where, NEW q \in where, F[o] = F[q] PROVE o = q
    <3>1. Rank(where, o) = Rank(where, q) /\ Rank(where, o) \in Int /\ Rank(where, q) \in Int
      BY <1>1, <1>6, <2>2
    <3>2. ~(Rank(where, o) < Rank(where, q)) /\ ~(Rank(where, q) < Rank(where, o)) BY <3>1
    <3> QED BY <1>2, <1>7, <3>2
  <2>3. \A q \in where : F[q] = Rank(where, q) + 1 /\ Rank(where, q) \in Int BY <1>1, <1>6
  <2> HIDE DEF F
  <2>4. F \in Injection(where, 1 .. n) BY <2>1, <2>2 DEF Injection, IsInjective
  <2>5. IsFiniteSet(1 .. n) /\ Cardinality(1 .. n) = n BY <1>1, FS_Interval
  <2>6. F \in Surjection(where, 1 .. n) BY <2>4, <2>5, FS_Injection DEF n
  <2>7. \A k \in 1 .. n : \E q \in where : F[q] = k BY <2>6 DEF Surjection
  <2> TAKE k \in 1 .. n
  <2>8. PICK q \in where : F[q] = k BY <2>7
  <2> QED BY <2>3, <2>8
<1> QED BY <1>1, <1>6, <1>7, <1>8 DEF n

LEMMA CompressesValid ==
    ASSUME NEW m, Given(m), m.rows >= 0, m.columns >= 0,
           NEW where \in SUBSET Positions(m), Compresses(m, where)
    PROVE  ValidPattern(m)
<1> DEFINE n == Len(m.column_indices)
           off == m.row_offsets
           first(i) == {o \in where : o[1] < i}
<1>1. m.rows \in Nat /\ m.columns \in Nat /\ m.rows \in Int /\ m.columns \in Int BY DEF Given
<1>2. /\ n \in Nat /\ n = Cardinality(where)
      /\ \A q \in where : Rank(where, q) \in 0 .. n - 1
      /\ \A o, q \in where : Before(o, q) => Rank(where, o) < Rank(where, q)
      /\ \A k \in 1 .. n : \E q \in where : Rank(where, q) = k - 1
  BY <1>1, Ranks DEF Compresses
<1>3. \A q \in where : m.column_indices[Rank(where, q) + 1] = q[2] - 1
  BY DEF Compresses, Rank
<1>4. off = [i \in 1 .. m.rows + 1 |-> Cardinality(first(i))] BY DEF Compresses
<1>5. \A q \in where : q[1] \in 1 .. m.rows /\ q[2] \in 1 .. m.columns BY DEF Positions
<1>6. IsFiniteSet(where) BY <1>1, PositionsFinite
<1>7. \A i, o : o \in first(i) <=> o \in where /\ o[1] < i OBVIOUS
<1>8. off \in Seq(Int) BY DEF Given
<1>9. DOMAIN m.column_indices = 1 .. n /\ \A k \in 1 .. n : m.column_indices[k] \in Int
  BY DEF Given
<1> HIDE DEF first, off, n
<1>10. \A i : IsFiniteSet(first(i)) /\ Cardinality(first(i)) \in Nat
  BY <1>6, <1>7, FS_Subset, FS_CardinalityType
<1>11. \A i \in 1 .. m.rows + 1 : off[i] = Cardinality(first(i)) BY <1>4
<1>12. Len(off) = m.rows + 1
  <2>1. DOMAIN off = 1 .. m.rows + 1 BY <1>4
  <2> QED BY <1>1, <1>8, <2>1
<1>13. off[1] = 0
  <2>1. first(1) = {} BY <1>1, <1>5, <1>7
  <2>2. 1 \in 1 .. m.rows + 1 BY <1>1
  <2> QED BY <1>11, <2>1, <2>2, FS_EmptySet
<1>14. off[m.rows + 1] = n
  <2>1. first(m.rows + 1) = where
    <3>1. \A q \in where : q[1] < m.rows + 1 BY <1>1, <1>5
    <3> QED BY <1>7, <3>1
  <2>2. m.rows + 1 \in 1 .. m.rows + 1 BY <1>1
  <2> QED BY <1>2, <1>11, <2>1, <2>2
<1>15. ASSUME NEW i \in 1 .. m.rows
       PROVE  0 <= off[i] /\ off[i] <= off[i + 1] /\ off[i + 1] <= n
              /\ off[i] \in Nat /\ off[i + 1] \in Nat
  <2>1. i \in 1 .. m.rows + 1 /\ i + 1 \in 1 .. m.rows + 1 BY <1>1
  <2>2. \A q \in where : q[1] < i => q[1] < i + 1 BY <1>1, <1>5
  <2>3. first(i) \in SUBSET first(i + 1) /\ first(i + 1) \in SUBSET where BY <1>7, <2>2
  <2>4. /\ Cardinality(first(i)) <= Cardinality(first(i + 1))
        /\ Cardinality(first(i + 1)) <= Cardinality(where)
    BY <1>6, <1>10, <2>3, FS_Subset
  <2>5. off[i] = Cardinality(first(i)) /\ off[i + 1] = Cardinality(first(i + 1))
    BY <1>11, <2>1
  <2>6. off[i] \in Nat /\ off[i + 1] \in Nat BY <1>10, <2>5
  <2> QED BY <1>2, <2>4, <2>5, <2>6
<1>16. ASSUME NEW k \in 1 .. n
       PROVE  \E q \in where : Rank(where, q) = k - 1 /\ m.column_indices[k] = q[2] - 1
  <2>1. PICK q \in where : Rank(where, q) = k - 1 BY <1>2
  <2>2. Rank(where, q) + 1 = k BY <1>2, <2>1
  <2> QED BY <1>3, <2>1, <2>2
<1>17. ASSUME NEW i \in 1 .. m.rows, NEW k \in Row(m, i), NEW q \in where,
              Rank(where, q) = k - 1
       PROVE  q[1] = i
  <2>1. /\ k \in off[i] + 1 .. off[i + 1] /\ off[i] \in Nat /\ off[i + 1] \in Nat
    BY <1>15 DEF Row, off
  <2>2. off[i] < k /\ k <= off[i + 1] /\ k \in Int BY <2>1
  <2>3. i \in 1 .. m.rows + 1 /\ i + 1 \in 1 .. m.rows + 1 BY <1>1
  <2>4. /\ off[i] = Cardinality(first(i)) /\ off[i + 1] = Cardinality(first(i + 1))
    BY <1>11, <2>3
  <2> DEFINE below == {o \in where : Before(o, q)}
  <2>5. Rank(where, q) = Cardinality(below) BY DEF Rank
  <2>6. IsFiniteSet(below) BY <1>6, FS_Subset
  <2>7. q[1] \in Int /\ \A o \in where : o[1] \in Int BY <1>5
  <2>8. ~(q[1] < i)
    <3> SUFFICES ASSUME q[1] < i PROVE FALSE OBVIOUS
    <3>1. \A o \in below : o[1] < i BY <2>7 DEF Before
    <3>2. q \notin below
      <4>1. ~Before(q, q) BY <1>1, BeforeOrders
      <4> QED BY <4>1
    <3>3. below \cup {q} \in SUBSET first(i) BY <1>7, <3>1
    <3> HIDE DEF below
    <3>4. Cardinality(below \cup {q}) = Cardinality(below) + 1
      BY <2>6, <3>2, FS_AddElement
    <3>5. Cardinality(below \cup {q}) <= Cardinality(first(i))
      BY <1>10, <3>3, FS_Subset
    <3> QED BY <1>17, <2>1, <2>2, <2>4, <2>5, <3>4, <3>5
  <2>9. ~(i < q[1])
    <3> SUFFICES ASSUME i < q[1] PROVE FALSE OBVIOUS
    <3>1. \A o \in where : o[1] < i + 1 => Before(o, q) BY <2>7 DEF Before
    <3>2. first(i + 1) \in SUBSET below BY <1>7, <3>1
    <3> HIDE DEF below
    <3>3. Cardinality(first(i + 1)) <= Cardinality(below) BY <2>6, <3>2, FS_Subset
    <3> QED BY <1>17, <2>1, <2>2, <2>4, <2>5, <3>3
  <2> QED BY <2>7, <2>8, <2>9
<1>18. ColumnsInRange(m)
  <2> SUFFICES ASSUME NEW k \in 1 .. n PROVE m.column_indices[k] \in 0 .. m.columns - 1
    BY <1>9 DEF ColumnsInRange
  <2>1. PICK q \in where : m.column_indices[k] = q[2] - 1 BY <1>16
  <2>2. q[2] \in 1 .. m.columns BY <1>5
  <2> QED BY <1>1, <2>1, <2>2
<1>19. ASSUME NEW i \in 1 .. m.rows, NEW k \in Row(m, i), NEW l \in Row(m, i), k < l
       PROVE  m.column_indices[k] < m.column_indices[l]
  <2>1. /\ k \in off[i] + 1 .. off[i + 1] /\ l \in off[i] + 1 .. off[i + 1]
        /\ off[i] \in Nat /\ off[i + 1] \in Nat /\ off[i + 1] <= n
    BY <1>15 DEF Row, off
  <2>2. k \in 1 .. n /\ l \in 1 .. n BY <1>2, <2>1
  <2>3. PICK q \in where : Rank(where, q) = k - 1 /\ m.column_indices[k] = q[2] - 1
    BY <1>16, <2>2
  <2>4. PICK o \in where : Rank(where, o) = l - 1 /\ m.column_indices[l] = o[2] - 1
    BY <1>16, <2>2
  <2>5. q[1] = i /\ o[1] = i BY <1>17, <2>3, <2>4
  <2>6. ~Before(o, q) /\ o # q
    <3>1. ~(l - 1 < k - 1) /\ l - 1 # k - 1 BY <1>19, <2>2
    <3> QED BY <1>2, <2>3, <2>4, <3>1
  <2>7. Before(q, o) BY <1>1, <2>6, BeforeOrders
  <2>8. q[2] < o[2] /\ q[2] \in Int /\ o[2] \in Int BY <1>1, <1>5, <2>5, <2>7 DEF Before
  <2> QED BY <2>3, <2>4, <2>8
<1> QED BY <1>1, <1>12, <1>13, <1>14, <1>15, <1>18, <1>19
        DEF ValidPattern, OffsetsDescribe, RowsAreRanges, ColumnsInOrder, off, n

\* What of the laws of a ring the products rest on.
RingLaws ==
    /\ \A a, c \in Scalars : Plus(a, c) = Plus(c, a) /\ Times(a, c) = Times(c, a)
    /\ \A a, c, d \in Scalars :
          /\ Plus(a, Plus(c, d)) = Plus(Plus(a, c), d)
          /\ Times(a, Times(c, d)) = Times(Times(a, c), d)
          /\ Times(a, Plus(c, d)) = Plus(Times(a, c), Times(a, d))
    /\ \A a \in Scalars : Plus(Zero, a) = a /\ Times(Zero, a) = Zero

LEMMA SumLaws == ASSUME RingLaws PROVE Sum!Laws /\ Sum!Idle
<1>1. Zero \in Scalars /\ Plus(Zero, Zero) = Zero BY FieldAssumption DEF RingLaws
<1>2. \A a, c \in Scalars : Plus(a, c) \in Scalars /\ Plus(a, c) = Plus(c, a)
  BY FieldAssumption DEF RingLaws
<1>3. \A a, c, d \in Scalars : Plus(a, Plus(c, d)) = Plus(Plus(a, c), d) BY DEF RingLaws
<1> QED BY <1>1, <1>2, <1>3 DEF Sum!Laws, Sum!Idle

LEMMA TotalIsSum == \A f, S : FoldFunctionOnSet(Plus, Zero, f, S) = Sum!Over(f, S)
BY DEF Sum!Over, FoldFunctionOnSet, MapThenFoldSet,
       Sum!FoldFunctionOnSet, Sum!MapThenFoldSet

LEMMA StartIsFrom == \A c, f, S : FoldFunctionOnSet(Plus, c, f, S) = Sum!From(c, f, S)
BY DEF Sum!From, FoldFunctionOnSet, MapThenFoldSet,
       Sum!FoldFunctionOnSet, Sum!MapThenFoldSet

LEMMA SumOfOne ==
    ASSUME RingLaws, NEW k, NEW f, f[k] \in Scalars
    PROVE  Sum!Over(f, {k}) = f[k]
<1>1. Sum!Over(f, {k}) = Plus(f[k], Zero) BY SumLaws, Sum!OverOne
<1>2. Plus(f[k], Zero) = f[k] BY FieldAssumption DEF RingLaws
<1> QED BY <1>1, <1>2

\* A factor may be taken out of a sum.
LEMMA SumTimes ==
    ASSUME RingLaws, NEW S, IsFiniteSet(S), NEW a \in Scalars,
           NEW f, \A y \in S : f[y] \in Scalars,
           NEW g, \A y \in S : g[y] = Times(a, f[y])
    PROVE  Sum!Over(g, S) = Times(a, Sum!Over(f, S))
<1> DEFINE R == {o \in Scalars \X Scalars : o[1] = Times(a, o[2])}
<1>1. <<Zero, Zero>> \in R
  <2>1. Times(a, Zero) = Zero BY FieldAssumption DEF RingLaws
  <2> QED BY <2>1, FieldAssumption
<1>2. ASSUME NEW y \in S, NEW o, NEW q, <<o, q>> \in R
      PROVE  <<Plus(g[y], o), Plus(f[y], q)>> \in R
  <2>1. o \in Scalars /\ q \in Scalars /\ o = Times(a, q) BY <1>2
  <2>2. f[y] \in Scalars /\ g[y] = Times(a, f[y]) OBVIOUS
  <2>3. Times(a, f[y]) \in Scalars BY <2>2, FieldAssumption
  <2>4. Plus(g[y], o) \in Scalars /\ Plus(f[y], q) \in Scalars
    BY <2>1, <2>2, <2>3, FieldAssumption
  <2>5. Times(a, Plus(f[y], q)) = Plus(Times(a, f[y]), Times(a, q)) BY <2>1, <2>2 DEF RingLaws
  <2> QED BY <2>1, <2>2, <2>4, <2>5
<1>3. <<Sum!Over(g, S), Sum!Over(f, S)>> \in R
  <2> HIDE DEF R
  <2> QED BY <1>1, <1>2, FiniteThere, Sum!OverRelated
<1> QED BY <1>3

-----------------------------------------------------------------------------
\* The entries of a row in a column: at most one.
At(m, i, j) == {k \in Row(m, i) : m.column_indices[k] + 1 = j}

LEMMA CellFacts ==
    ASSUME NEW m, Given(m), ValidPattern(m), NEW i \in 1 .. m.rows, NEW j
    PROVE  /\ At(m, i, j) = {} => Cell(m, i, j) = Zero
           /\ \A k \in At(m, i, j) :
                 /\ At(m, i, j) = {k} /\ Cell(m, i, j) = m.values[k]
                 /\ k \in 1 .. Len(m.column_indices)
           /\ Cell(m, i, j) \in Scalars
<1>1. Row(m, i) \in SUBSET (1 .. Len(m.column_indices)) BY RowsOfEntries
<1>2. \A k, l \in Row(m, i) : k < l => m.column_indices[k] < m.column_indices[l]
  BY DEF ValidPattern, ColumnsInOrder
<1>3. \A k \in 1 .. Len(m.column_indices) : m.column_indices[k] \in Int /\ m.values[k] \in Scalars
  BY DEF Given
<1>4. ASSUME NEW k \in At(m, i, j), NEW l \in At(m, i, j) PROVE k = l
  <2>1. k \in Row(m, i) /\ l \in Row(m, i) /\ m.column_indices[k] + 1 = m.column_indices[l] + 1
    BY DEF At
  <2>2. k \in Int /\ l \in Int /\ m.column_indices[k] \in Int /\ m.column_indices[l] \in Int
    BY <1>1, <1>3, <2>1
  <2> QED BY <1>2, <2>1, <2>2
<1>5. Cell(m, i, j) = IF At(m, i, j) = {} THEN Zero
                      ELSE m.values[CHOOSE k \in At(m, i, j) : TRUE]
  BY DEF Cell, At
<1>6. At(m, i, j) \subseteq Row(m, i) BY DEF At
<1>7. ASSUME NEW k \in At(m, i, j)
      PROVE  /\ At(m, i, j) = {k} /\ Cell(m, i, j) = m.values[k]
             /\ k \in 1 .. Len(m.column_indices) /\ m.values[k] \in Scalars
  <2>1. At(m, i, j) = {k} BY <1>4
  <2>2. (CHOOSE l \in At(m, i, j) : TRUE) = k BY <2>1
  <2>3. k \in 1 .. Len(m.column_indices) BY <1>1, <1>6
  <2> QED BY <1>3, <1>5, <2>1, <2>2, <2>3
<1>8. At(m, i, j) = {} => Cell(m, i, j) = Zero BY <1>5
<1>9. Cell(m, i, j) \in Scalars
  <2>1. CASE At(m, i, j) = {} BY <1>8, <2>1, FieldAssumption
  <2>2. CASE At(m, i, j) # {} BY <1>7, <2>2
  <2> QED BY <2>1, <2>2
<1> QED BY <1>7, <1>8, <1>9

\* What the entries of a cell bring to a sum is the cell's value.
LEMMA CellSum ==
    ASSUME RingLaws, NEW m, Given(m), ValidPattern(m), NEW i \in 1 .. m.rows, NEW j,
           NEW z \in Scalars,
           NEW h, \A k \in At(m, i, j) : h[k] = Times(m.values[k], z)
    PROVE  /\ Times(Cell(m, i, j), z) \in Scalars
           /\ Plus(Times(Cell(m, i, j), z), Zero) = Sum!Over(h, At(m, i, j))
<1>1. Cell(m, i, j) \in Scalars BY CellFacts
<1>2. Times(Cell(m, i, j), z) \in Scalars BY <1>1, FieldAssumption
<1>3. Plus(Times(Cell(m, i, j), z), Zero) = Times(Cell(m, i, j), z)
  BY <1>2, FieldAssumption DEF RingLaws
<1>4. CASE At(m, i, j) = {}
  <2>1. Times(Cell(m, i, j), z) = Zero BY <1>4, CellFacts DEF RingLaws
  <2>2. Sum!Over(h, At(m, i, j)) = Zero BY <1>4, Sum!OverEmpty
  <2> QED BY <1>2, <1>3, <2>1, <2>2
<1>5. CASE At(m, i, j) # {}
  <2>1. PICK k \in At(m, i, j) : TRUE BY <1>5
  <2>2. At(m, i, j) = {k} /\ Cell(m, i, j) = m.values[k] BY CellFacts
  <2>3. h[k] = Times(Cell(m, i, j), z) BY <2>2
  <2>4. Sum!Over(h, {k}) = h[k] BY <1>2, <2>3, SumOfOne
  <2> QED BY <1>2, <1>3, <2>2, <2>3, <2>4
<1> QED BY <1>4, <1>5

\* Products by the table of cells, and what every entry is scattered with.
AlongRow(m, i, u) == AddUp([j \in 1 .. m.columns |-> Times(Cell(m, i, j), u[j])])
AlongColumn(m, j, w) == AddUp([i \in 1 .. m.rows |-> Times(Cell(m, i, j), w[i])])
Entries(m, u) == [k \in DOMAIN m.values |-> Entry(m, k, u)]
Scattered(m, a, w) ==
    [k \in DOMAIN m.values |-> Times(m.values[k], Times(a, w[RowOf(m, k)]))]

\* A row's product, along its entries and along all columns.
LEMMA RowProduct ==
    ASSUME RingLaws, NEW m, Given(m), ValidPattern(m), NEW i \in 1 .. m.rows,
           NEW u \in [1 .. m.columns -> Scalars]
    PROVE  FoldFunctionOnSet(Plus, Zero, Entries(m, u), Row(m, i)) = AlongRow(m, i, u)
<1> DEFINE n == Len(m.column_indices)
           S == 1 .. m.columns
           T == Row(m, i)
           h == Entries(m, u)
           f == [j \in S |-> Times(Cell(m, i, j), u[j])]
           part == [k \in T |-> m.column_indices[k] + 1]
           class == [j \in S |-> At(m, i, j)]
<1>1. /\ m.rows \in Nat /\ m.columns \in Nat /\ n \in Nat /\ T \in SUBSET (1 .. n)
  BY RowsOfEntries
<1>2. \A k \in 1 .. n : /\ m.column_indices[k] \in 0 .. m.columns - 1 /\ k \in DOMAIN m.values
                        /\ m.values[k] \in Scalars
  BY DEF Given, ValidPattern, ColumnsInOrder, ColumnsInRange
<1> HIDE DEF n
<1>3. \A k \in 1 .. n : m.column_indices[k] + 1 \in S BY <1>1, <1>2
<1>4. \A k \in T : h[k] = Times(m.values[k], u[m.column_indices[k] + 1])
  BY <1>1, <1>2 DEF Entries, Entry
<1>5. ASSUME NEW j \in S
      PROVE  f[j] \in Scalars /\ Plus(f[j], Zero) = Sum!Over(h, class[j])
  <2>1. \A k \in At(m, i, j) : h[k] = Times(m.values[k], u[j]) BY <1>4 DEF At
  <2>2. u[j] \in Scalars OBVIOUS
  <2> HIDE DEF h
  <2> QED BY <2>1, <2>2, CellSum
<1>6. IsFiniteSet(S) /\ IsFiniteSet(T)
  <2>1. IsFiniteSet(S) /\ IsFiniteSet(1 .. n) BY <1>1, FS_Interval
  <2> QED BY <1>1, <2>1, FS_Subset
<1>7. part \in [T -> S] BY <1>1, <1>3
<1>8. class \in [S -> SUBSET T] BY DEF At
<1>9. \A j \in S : \A k \in T : k \in class[j] <=> part[k] = j BY DEF At
<1>10. \A k \in T : h[k] \in Scalars
  <2> TAKE k \in T
  <2>1. m.values[k] \in Scalars /\ u[m.column_indices[k] + 1] \in Scalars BY <1>1, <1>2, <1>3
  <2>2. Times(m.values[k], u[m.column_indices[k] + 1]) \in Scalars BY <2>1, FieldAssumption
  <2> HIDE DEF h, T
  <2> QED BY <1>4, <2>2
<1>11. DOMAIN f = S OBVIOUS
<1> HIDE DEF S, T, h, f, part, class
<1>12. Sum!Over(f, S) = Sum!Over(h, T)
  BY <1>5, <1>6, <1>7, <1>8, <1>9, <1>10, SumLaws, FiniteThere, Sum!OverParts
<1>13. AddUp(f) = Sum!Over(f, S) BY <1>11, TotalIsSum DEF AddUp, FoldFunction
<1>14. FoldFunctionOnSet(Plus, Zero, h, T) = Sum!Over(h, T) BY TotalIsSum
<1> QED BY <1>12, <1>13, <1>14 DEF S, T, h, f, AlongRow

\* A column's product, scattered from the entries and along all rows.
LEMMA ColumnProduct ==
    ASSUME RingLaws, NEW m, Given(m), ValidPattern(m), NEW j \in 1 .. m.columns,
           NEW w \in [1 .. m.rows -> Scalars], NEW a \in Scalars, NEW d \in Scalars
    PROVE  FoldFunctionOnSet(Plus, d, Scattered(m, a, w), Scatter(m, j))
             = Plus(Times(a, AlongColumn(m, j, w)), d)
<1> DEFINE n == Len(m.column_indices)
           S == 1 .. m.rows
           T == Scatter(m, j)
           h == Scattered(m, a, w)
           f == [i \in S |-> Times(Cell(m, i, j), w[i])]
           g == [i \in S |-> Times(Cell(m, i, j), Times(a, w[i]))]
           part == [k \in T |-> RowOf(m, k)]
           class == [i \in S |-> At(m, i, j)]
<1>1. /\ m.rows \in Nat /\ n \in Nat
      /\ \A i \in S : Row(m, i) \in SUBSET (1 .. n)
      /\ \A k \in 1 .. n : RowOf(m, k) \in S /\ k \in Row(m, RowOf(m, k))
      /\ \A k \in 1 .. n : \A i \in S : k \in Row(m, i) => i = RowOf(m, k)
  BY RowsOfEntries
<1>2. DOMAIN m.values = 1 .. n /\ \A k \in 1 .. n : m.values[k] \in Scalars BY DEF Given
<1>3. \A k : k \in T <=> k \in 1 .. n /\ m.column_indices[k] + 1 = j BY <1>2 DEF Scatter
<1>4. \A k \in 1 .. n : h[k] = Times(m.values[k], Times(a, w[RowOf(m, k)]))
  BY <1>2 DEF Scattered
<1> HIDE DEF n, T, h
<1>5. \A i \in S : w[i] \in Scalars /\ Times(a, w[i]) \in Scalars BY FieldAssumption
<1>6. \A i \in S : \A k : k \in At(m, i, j) <=> k \in T /\ RowOf(m, k) = i
  BY <1>1, <1>3 DEF At
<1>7. ASSUME NEW i \in S
      PROVE  g[i] \in Scalars /\ Plus(g[i], Zero) = Sum!Over(h, class[i])
  <2>1. \A k \in At(m, i, j) : h[k] = Times(m.values[k], Times(a, w[i]))
    BY <1>3, <1>4, <1>6
  <2>2. Times(a, w[i]) \in Scalars BY <1>5
  <2> QED BY <2>1, <2>2, CellSum
<1>8. IsFiniteSet(S) /\ IsFiniteSet(T)
  <2>1. IsFiniteSet(S) /\ IsFiniteSet(1 .. n) BY <1>1, FS_Interval
  <2>2. T \in SUBSET (1 .. n) BY <1>3
  <2> QED BY <2>1, <2>2, FS_Subset
<1>9. part \in [T -> S] BY <1>1, <1>3
<1>10. class \in [S -> SUBSET T] BY <1>6
<1>11. \A i \in S : \A k \in T : k \in class[i] <=> part[k] = i BY <1>6
<1>12. \A k \in T : h[k] \in Scalars
  <2> TAKE k \in T
  <2>1. k \in 1 .. n /\ RowOf(m, k) \in S BY <1>1, <1>3
  <2>2. m.values[k] \in Scalars /\ Times(a, w[RowOf(m, k)]) \in Scalars BY <1>2, <1>5, <2>1
  <2>3. Times(m.values[k], Times(a, w[RowOf(m, k)])) \in Scalars BY <2>2, FieldAssumption
  <2> QED BY <1>4, <2>1, <2>3
<1>13. ASSUME NEW i \in S PROVE f[i] \in Scalars /\ g[i] = Times(a, f[i])
  <2> DEFINE e == Cell(m, i, j)
  <2>1. e \in Scalars /\ w[i] \in Scalars BY <1>5, CellFacts
  <2>2. f[i] = Times(e, w[i]) /\ g[i] = Times(e, Times(a, w[i])) OBVIOUS
  <2> HIDE DEF e, f, g
  <2>3. Times(e, w[i]) \in Scalars /\ Times(a, w[i]) \in Scalars BY <2>1, FieldAssumption
  <2>4. Times(e, Times(a, w[i])) = Times(Times(a, w[i]), e) BY <2>1, <2>3 DEF RingLaws
  <2>5. Times(Times(a, w[i]), e) = Times(a, Times(w[i], e)) BY <2>1 DEF RingLaws
  <2>6. Times(w[i], e) = Times(e, w[i]) BY <2>1 DEF RingLaws
  <2> QED BY <2>2, <2>3, <2>4, <2>5, <2>6
<1>14. DOMAIN f = S OBVIOUS
<1> HIDE DEF S, f, g, part, class
<1>15. Sum!Over(g, S) = Sum!Over(h, T)
  BY <1>7, <1>8, <1>9, <1>10, <1>11, <1>12, SumLaws, FiniteThere, Sum!OverParts
<1>16. Sum!Over(g, S) = Times(a, Sum!Over(f, S)) BY <1>8, <1>13, SumTimes
<1>17. Plus(Zero, d) = d BY DEF RingLaws
<1>18. Sum!From(d, h, T) = Plus(Sum!Over(h, T), d)
  BY <1>8, <1>12, <1>17, SumLaws, FiniteThere, Sum!OverFrom
<1>19. FoldFunctionOnSet(Plus, d, h, T) = Sum!From(d, h, T) BY StartIsFrom
<1>20. AddUp(f) = Sum!Over(f, S) BY <1>14, TotalIsSum DEF AddUp, FoldFunction
<1> QED BY <1>15, <1>16, <1>18, <1>19, <1>20 DEF S, T, h, f, AlongColumn

\* Calls with arguments of the types of the parameters.
PatternsGiven == \A q \in Requests : Given(q.matrix)

LEMMA MatricesMultiply ==
    ASSUME RingLaws, NEW m, Given(m), ValidPattern(m), NEW a \in Scalars, NEW c \in Scalars,
           NEW u \in [1 .. m.columns -> Scalars], NEW w \in [1 .. m.rows -> Scalars]
    PROVE  MultipliesRows(m, a, u, c, w) /\ MultipliesColumns(m, a, w, c, u)
<1>1. ASSUME NEW i \in 1 .. m.rows PROVE MatVec(m, u)[i] = AlongRow(m, i, u)
  <2>1. MatVec(m, u)[i] = FoldFunctionOnSet(Plus, Zero, Entries(m, u), Row(m, i))
    BY DEF MatVec, Entries
  <2> QED BY <2>1, RowProduct
<1>2. ASSUME NEW j \in 1 .. m.columns
      PROVE  FoldFunctionOnSet(Plus, Times(c, u[j]), Scattered(m, a, w), Scatter(m, j))
               = Plus(Times(a, AlongColumn(m, j, w)), Times(c, u[j]))
  <2>1. u[j] \in Scalars OBVIOUS
  <2>2. Times(c, u[j]) \in Scalars BY <2>1, FieldAssumption
  <2> QED BY <2>2, ColumnProduct
<1>3. Axpby(a, [i \in 1 .. m.rows |-> AlongRow(m, i, u)], c, w)
        = [i \in 1 .. m.rows |-> Plus(Times(a, AlongRow(m, i, u)), Times(c, w[i]))]
  BY DEF Axpby
<1>4. Axpby(a, [j \in 1 .. m.columns |-> AlongColumn(m, j, w)], c, u)
        = [j \in 1 .. m.columns |-> Plus(Times(a, AlongColumn(m, j, w)), Times(c, u[j]))]
  BY DEF Axpby
<1>5. MultiplyNo(a, m, u, c, w)
        = [i \in 1 .. m.rows |-> Plus(Times(a, AlongRow(m, i, u)), Times(c, w[i]))]
  BY <1>1 DEF MultiplyNo
<1>6. MultiplyYes(a, m, w, c, u)
        = [j \in 1 .. m.columns |-> Plus(Times(a, AlongColumn(m, j, w)), Times(c, u[j]))]
  <2>1. MultiplyYes(a, m, w, c, u)
          = [j \in 1 .. m.columns |->
                FoldFunctionOnSet(Plus, Times(c, u[j]), Scattered(m, a, w), Scatter(m, j))]
    BY DEF MultiplyYes, Scattered
  <2> QED BY <1>2, <2>1
<1>7. MultiplyNo(a, m, u, c, w) = Axpby(a, [i \in 1 .. m.rows |-> AlongRow(m, i, u)], c, w)
  BY <1>3, <1>5
<1>8. MultiplyYes(a, m, w, c, u)
        = Axpby(a, [j \in 1 .. m.columns |-> AlongColumn(m, j, w)], c, u)
  BY <1>4, <1>6
<1>9. MultipliesRows(m, a, u, c, w) BY <1>7 DEF MultipliesRows, AlongRow
<1>10. MultipliesColumns(m, a, w, c, u) BY <1>8 DEF MultipliesColumns, AlongColumn
<1> QED BY <1>9, <1>10

\* create_matrix accepts exactly the patterns of sets of positions, and every
\* matrix it accepts multiplies in both directions like the table of its
\* cells, over any commutative ring, whatever its size, wherever its entries
\* are and whatever vectors are taken for Probes, all of them included.
THEOREM CsrMatricesMultiply ==
    RingLaws /\ PatternsGiven => (Spec => []CsrIsTheMatrix)
<1> SUFFICES ASSUME RingLaws, PatternsGiven PROVE Spec => []CsrIsTheMatrix OBVIOUS
<1>1. Accounted => CsrIsTheMatrix
  <2> SUFFICES ASSUME Accounted PROVE CsrIsTheMatrix OBVIOUS
  <2> DEFINE m == request.matrix
  <2>1. request \in Requests /\ Given(m) BY DEF Accounted, PatternsGiven
  <2>2. ValidPattern(m) <=> /\ m.rows >= 0 /\ m.columns >= 0
                            /\ \E where \in SUBSET Positions(m) : Compresses(m, where)
    <3>1. ValidPattern(m) => m.rows >= 0 /\ m.columns >= 0
      BY DEF ValidPattern, OffsetsDescribe
    <3> HIDE DEF m
    <3> QED BY <2>1, <3>1, ValidCompresses, CompressesValid
  <2>3. ValidPattern(m) => /\ Probes(m.columns) \subseteq [1 .. m.columns -> Scalars]
                           /\ Probes(m.rows) \subseteq [1 .. m.rows -> Scalars]
    BY <2>1, ProbeAssumption DEF Vectors
  <2> HIDE DEF m
  <2>4. ASSUME ValidPattern(m), NEW a \in Scalars, NEW c \in Scalars,
               NEW u \in Probes(m.columns), NEW w \in Probes(m.rows)
        PROVE  MultipliesRows(m, a, u, c, w) /\ MultipliesColumns(m, a, w, c, u)
    BY <2>1, <2>3, <2>4, MatricesMultiply
  <2> QED BY <2>2, <2>4 DEF CsrIsTheMatrix, m
<1> QED BY <1>1, StartAccounted, StepAccounted, PTL DEF Spec

-----------------------------------------------------------------------------
HIDE DEF Vectors

(* A solve of order n is over in n iterations.                             *)

\* The laws of a field, as far as division and the two zeros go.
FieldLaws ==
    /\ RingLaws
    /\ One # Zero
    /\ \A a, c \in Scalars :
          /\ Plus(Minus(a, c), c) = a
          /\ c # Zero => Times(Over(a, c), c) = a
Neg(a) == Minus(Zero, a)

LEMMA NegFacts ==
    ASSUME FieldLaws, NEW a \in Scalars
    PROVE  Neg(a) \in Scalars /\ Plus(a, Neg(a)) = Zero /\ Plus(Neg(a), a) = Zero
BY FieldAssumption DEF FieldLaws, RingLaws, Neg

LEMMA NegOf ==
    ASSUME FieldLaws, NEW a \in Scalars, NEW c \in Scalars, Plus(a, c) = Zero
    PROVE  a = Neg(c)
<1>1. Neg(c) \in Scalars /\ Plus(c, Neg(c)) = Zero /\ Zero \in Scalars
  BY NegFacts, FieldAssumption
<1>2. Plus(Plus(a, c), Neg(c)) = Neg(c) BY <1>1 DEF FieldLaws, RingLaws
<1>3. Plus(Plus(a, c), Neg(c)) = Plus(a, Plus(c, Neg(c))) BY <1>1 DEF FieldLaws, RingLaws
<1>4. Plus(a, Zero) = a BY <1>1 DEF FieldLaws, RingLaws
<1> QED BY <1>1, <1>2, <1>3, <1>4

LEMMA NegTimes ==
    ASSUME FieldLaws, NEW a \in Scalars, NEW c \in Scalars
    PROVE  Times(Neg(a), c) = Neg(Times(a, c))
<1>1. Neg(a) \in Scalars /\ Plus(Neg(a), a) = Zero BY NegFacts
<1>2. Times(Neg(a), c) \in Scalars /\ Times(a, c) \in Scalars BY <1>1, FieldAssumption
<1>3. Times(c, Plus(Neg(a), a)) = Plus(Times(c, Neg(a)), Times(c, a))
  BY <1>1 DEF FieldLaws, RingLaws
<1>4. /\ Times(c, Neg(a)) = Times(Neg(a), c) /\ Times(c, a) = Times(a, c)
      /\ Times(c, Zero) = Zero
  BY <1>1, FieldAssumption DEF FieldLaws, RingLaws
<1> QED BY <1>1, <1>2, <1>3, <1>4, NegOf

LEMMA MinusIsPlus ==
    ASSUME FieldLaws, NEW a \in Scalars, NEW c \in Scalars
    PROVE  Minus(a, c) = Plus(a, Neg(c))
<1>1. /\ Minus(a, c) \in Scalars /\ Neg(c) \in Scalars /\ Plus(c, Neg(c)) = Zero
      /\ Zero \in Scalars
  BY NegFacts, FieldAssumption
<1>2. Plus(Plus(Minus(a, c), c), Neg(c)) = Plus(Minus(a, c), Plus(c, Neg(c)))
  BY <1>1 DEF FieldLaws, RingLaws
<1>3. Plus(Minus(a, c), c) = a BY DEF FieldLaws
<1>4. Plus(Minus(a, c), Zero) = Minus(a, c) BY <1>1 DEF FieldLaws, RingLaws
<1> QED BY <1>1, <1>2, <1>3, <1>4

\* A factor that is not zero cancels.
LEMMA Cancels ==
    ASSUME FieldLaws, NEW a \in Scalars, NEW c \in Scalars, NEW k \in Scalars, k # Zero,
           Times(k, a) = Times(k, c)
    PROVE  a = c
<1>1. Over(One, k) \in Scalars /\ Times(Over(One, k), k) = One
  BY FieldAssumption DEF FieldLaws
<1>2. ASSUME NEW e \in Scalars PROVE Times(Over(One, k), Times(k, e)) = e
  <2>1. Times(Over(One, k), Times(k, e)) = Times(Times(Over(One, k), k), e)
    BY <1>1 DEF FieldLaws, RingLaws
  <2> QED BY <1>1, <2>1, FieldAssumption
<1> QED BY <1>2

LEMMA NoZeroDivisors ==
    ASSUME FieldLaws, NEW a \in Scalars, NEW c \in Scalars, a # Zero, c # Zero
    PROVE  Times(a, c) # Zero
<1>1. Zero \in Scalars /\ Times(a, Zero) = Zero BY FieldAssumption DEF FieldLaws, RingLaws
<1> QED BY <1>1, Cancels

LEMMA NegNotZero ==
    ASSUME FieldLaws, NEW a \in Scalars, a # Zero
    PROVE  Neg(a) # Zero
<1>1. Zero \in Scalars /\ Plus(a, Neg(a)) = Zero BY NegFacts, FieldAssumption
<1> QED BY <1>1 DEF FieldLaws, RingLaws

\* The step length: what the scaled numbers say the plain ones say too.
LEMMA StepLength ==
    ASSUME FieldLaws, NEW c \in Scalars, c # Zero, NEW f \in Scalars, NEW e \in Scalars,
           NEW a \in Scalars, Times(a, Times(c, e)) = Times(c, f)
    PROVE  Times(a, e) = f
<1>1. Times(a, e) \in Scalars /\ Times(c, e) \in Scalars BY FieldAssumption
<1>2. Times(a, Times(c, e)) = Times(c, Times(a, e))
  <2>1. Times(a, Times(c, e)) = Times(Times(a, c), e) BY DEF FieldLaws, RingLaws
  <2>2. Times(c, Times(a, e)) = Times(Times(c, a), e) BY DEF FieldLaws, RingLaws
  <2>3. Times(a, c) = Times(c, a) BY DEF FieldLaws, RingLaws
  <2> QED BY <2>1, <2>2, <2>3
<1> QED BY <1>1, <1>2, Cancels

\* The factor of the old direction: with b = g h, where g rho' = rho, h w = alpha,
\* rho' = c a, rho = -w c f and alpha e = a, it makes f + b e vanish.
Factors(g, h, w, c, a, f, e, l) ==
    /\ {g, h, w, c, a, f, e, l} \subseteq Scalars /\ w # Zero /\ c # Zero
    /\ Times(g, Times(c, a)) = Times(Times(Neg(w), c), f)
    /\ Times(h, w) = l /\ Times(l, e) = a
LEMMA DirectionFactor ==
    ASSUME FieldLaws, NEW g, NEW h, NEW w, NEW c, NEW a, NEW f, NEW e, NEW l,
           Factors(g, h, w, c, a, f, e, l)
    PROVE  Plus(f, Times(Times(g, h), e)) = Zero
<1> SUFFICES ASSUME g \in Scalars, h \in Scalars, w \in Scalars, c \in Scalars,
                    a \in Scalars, f \in Scalars, e \in Scalars, l \in Scalars,
                    w # Zero, c # Zero,
                    Times(g, Times(c, a)) = Times(Times(Neg(w), c), f),
                    Times(h, w) = l, Times(l, e) = a
             PROVE  Plus(f, Times(Times(g, h), e)) = Zero
  BY DEF Factors
<1> DEFINE k == Times(w, c)
           u == Times(Times(g, h), e)
<1>0. /\ k \in Scalars /\ u \in Scalars /\ Times(g, h) \in Scalars /\ Times(k, f) \in Scalars
      /\ Times(w, u) \in Scalars /\ Times(c, a) \in Scalars /\ Times(h, e) \in Scalars
  BY FieldAssumption
<1>1. k # Zero BY NoZeroDivisors
<1>2. Times(w, u) = Times(g, a)
  <2>1. u = Times(g, Times(h, e)) BY DEF FieldLaws, RingLaws
  <2>2. Times(w, Times(g, Times(h, e))) = Times(g, Times(w, Times(h, e)))
    BY <1>0 DEF FieldLaws, RingLaws
  <2>3. Times(w, Times(h, e)) = Times(Times(h, w), e) BY DEF FieldLaws, RingLaws
  <2> QED BY <2>1, <2>2, <2>3
<1>3. Times(k, u) = Times(c, Times(w, u)) BY <1>0 DEF FieldLaws, RingLaws
<1>4. Times(c, Times(g, a)) = Times(g, Times(c, a)) BY DEF FieldLaws, RingLaws
<1>5. Times(Times(Neg(w), c), f) = Neg(Times(k, f))
  <2>1. Times(Neg(w), c) = Neg(k) BY NegTimes
  <2> HIDE DEF k
  <2>2. Times(Neg(k), f) = Neg(Times(k, f)) BY <1>0, NegTimes
  <2> QED BY <2>1, <2>2
<1> HIDE DEF k, u
<1>6. Times(k, u) = Neg(Times(k, f)) BY <1>2, <1>3, <1>4, <1>5
<1>7. Times(k, Plus(f, u)) = Plus(Times(k, f), Times(k, u)) BY <1>0 DEF FieldLaws, RingLaws
<1>8. Times(k, Plus(f, u)) = Zero BY <1>0, <1>6, <1>7, NegFacts
<1>9. Plus(f, u) \in Scalars /\ Zero \in Scalars /\ Times(k, Zero) = Zero
  BY <1>0, FieldAssumption DEF FieldLaws, RingLaws
<1>10. Plus(f, u) = Zero BY <1>0, <1>1, <1>8, <1>9, Cancels
<1> QED BY <1>10 DEF u

-----------------------------------------------------------------------------
\* Vectors.
LEMMA VectorsAre ==
    ASSUME NEW n, NEW f \in Vectors(n), NEW g \in Vectors(n), NEW a \in Scalars
    PROVE  /\ More(f, a, g) \in Vectors(n)
           /\ \A i \in 1 .. n : /\ f[i] \in Scalars
                                /\ More(f, a, g)[i] = Plus(f[i], Times(a, g[i]))
<1>1. More(f, a, g) \in Vectors(n) BY SumsAreVectors
<1> QED BY <1>1 DEF More, Vectors

LEMMA LessIsMore ==
    ASSUME FieldLaws, NEW n, NEW f \in Vectors(n), NEW g \in Vectors(n), NEW a \in Scalars
    PROVE  Less(f, a, g) = More(f, Neg(a), g)
<1>1. Neg(a) \in Scalars BY NegFacts
<1>2. ASSUME NEW i \in 1 .. n
      PROVE  Minus(f[i], Times(a, g[i])) = Plus(f[i], Times(Neg(a), g[i]))
  <2>1. f[i] \in Scalars /\ g[i] \in Scalars BY DEF Vectors
  <2>2. Times(a, g[i]) \in Scalars BY <2>1, FieldAssumption
  <2> QED BY <2>1, <2>2, MinusIsPlus, NegTimes
<1>3. Less(f, a, g) = [i \in 1 .. n |-> Minus(f[i], Times(a, g[i]))] BY DEF Less, Vectors
<1>4. More(f, Neg(a), g) = [i \in 1 .. n |-> Plus(f[i], Times(Neg(a), g[i]))]
  BY DEF More, Vectors
<1> QED BY <1>2, <1>3, <1>4

\* A linear functional, and that it is zero at the origin.
Functional(f, n) ==
    /\ f \in [Vectors(n) -> Scalars]
    /\ \A y, z \in Vectors(n), a \in Scalars :
          f[More(y, a, z)] = Plus(f[y], Times(a, f[z]))

LEMMA FunctionalAtOrigin ==
    ASSUME FieldLaws, NEW n, NEW f, Functional(f, n)
    PROVE  f[Origin(n)] = Zero
<1> DEFINE o == Origin(n)
<1>1. o \in Vectors(n) /\ One \in Scalars /\ Zero \in Scalars
  BY OriginIsVector, FieldAssumption
<1>2. More(o, One, o) = o
  <2>1. More(o, One, o) = [i \in 1 .. n |-> Plus(Zero, Times(One, Zero))]
    BY DEF More, Origin
  <2>2. Plus(Zero, Times(One, Zero)) = Zero BY <1>1, FieldAssumption DEF FieldLaws, RingLaws
  <2> QED BY <2>1, <2>2 DEF Origin
<1> HIDE DEF o
<1>3. f[o] \in Scalars BY <1>1 DEF Functional
<1>4. f[o] = Plus(f[o], f[o])
  <2>1. f[More(o, One, o)] = Plus(f[o], Times(One, f[o])) BY <1>1 DEF Functional
  <2>2. Times(One, f[o]) = f[o] BY <1>3, FieldAssumption
  <2> QED BY <1>2, <2>1, <2>2
<1>5. f[o] = Plus(Minus(f[o], f[o]), f[o]) BY <1>3 DEF FieldLaws
<1>6. Neg(f[o]) \in Scalars /\ Plus(f[o], Neg(f[o])) = Zero BY <1>3, NegFacts
<1>7. Plus(Plus(f[o], f[o]), Neg(f[o])) = Plus(f[o], Plus(f[o], Neg(f[o])))
  BY <1>3, <1>6 DEF FieldLaws, RingLaws
<1>8. Plus(f[o], Zero) = f[o] BY <1>1, <1>3 DEF FieldLaws, RingLaws
<1> QED BY <1>4, <1>6, <1>7, <1>8 DEF o

\* Vectors and functionals paired in a triangle: each functional is zero at the
\* vectors after its own, and not at its own.
Triangle(f, w, n, k) ==
    \A i \in 0 .. k - 1 :
        /\ w[i] \in Vectors(n) /\ f[i][w[i]] # Zero
        /\ \A j \in 0 .. i - 1 : f[j][w[i]] = Zero
Within(w, k, n, S) == \A i \in 0 .. k - 1 : \A l \in (1 .. n) \ S : w[i][l] = Zero

\* A vector that is not the origin has a coordinate that is not zero.
LEMMA SomeCoordinate ==
    ASSUME NEW n, NEW z \in Vectors(n), z # Origin(n)
    PROVE  \E l \in 1 .. n : z[l] # Zero
BY DEF Origin, Vectors

LEMMA ZeroFacts ==
    ASSUME FieldLaws, NEW a \in Scalars
    PROVE  Times(a, Zero) = Zero /\ Plus(a, Zero) = a
<1>1. Zero \in Scalars BY FieldAssumption
<1> QED BY <1>1 DEF FieldLaws, RingLaws

\* The last vector, taken from one before it so that coordinate l becomes zero.
Cleared(y, z, l) == More(y, Neg(Over(y[l], z[l])), z)
LEMMA ClearedFacts ==
    ASSUME FieldLaws, NEW n, NEW y \in Vectors(n), NEW z \in Vectors(n),
           NEW l \in 1 .. n, z[l] # Zero
    PROVE  /\ Cleared(y, z, l) \in Vectors(n)
           /\ Cleared(y, z, l)[l] = Zero
           /\ \A i \in 1 .. n : y[i] = Zero /\ z[i] = Zero => Cleared(y, z, l)[i] = Zero
           /\ \A f : Functional(f, n) /\ f[z] = Zero => f[Cleared(y, z, l)] = f[y]
<1> DEFINE q == Over(y[l], z[l])
<1>1. y[l] \in Scalars /\ z[l] \in Scalars BY DEF Vectors
<1>2. q \in Scalars /\ Times(q, z[l]) = y[l] BY <1>1, FieldAssumption DEF FieldLaws
<1> HIDE DEF q
<1>3. Neg(q) \in Scalars BY <1>2, NegFacts
<1>4. /\ Cleared(y, z, l) \in Vectors(n)
      /\ \A i \in 1 .. n : /\ y[i] \in Scalars /\ z[i] \in Scalars
                           /\ Cleared(y, z, l)[i] = Plus(y[i], Times(Neg(q), z[i]))
  BY <1>3, VectorsAre DEF Cleared, q
<1>5. Times(Neg(q), z[l]) = Neg(y[l]) BY <1>1, <1>2, NegTimes
<1>6. Plus(y[l], Neg(y[l])) = Zero BY <1>1, NegFacts
<1>7. \A a \in Scalars : Times(a, Zero) = Zero /\ Plus(a, Zero) = a BY ZeroFacts
<1>8. Zero \in Scalars BY FieldAssumption
<1>9. ASSUME NEW f, Functional(f, n), f[z] = Zero PROVE f[Cleared(y, z, l)] = f[y]
  <2>1. f[Cleared(y, z, l)] = Plus(f[y], Times(Neg(q), f[z]))
    BY <1>3, <1>9 DEF Functional, Cleared, q
  <2>2. f[y] \in Scalars BY <1>9 DEF Functional
  <2> QED BY <1>3, <1>7, <1>9, <2>1, <2>2
<1>10. ASSUME NEW i \in 1 .. n, y[i] = Zero, z[i] = Zero PROVE Cleared(y, z, l)[i] = Zero
  <2>1. Cleared(y, z, l)[i] = Plus(Zero, Times(Neg(q), Zero)) BY <1>4, <1>10
  <2> QED BY <1>3, <1>7, <1>8, <2>1
<1> QED BY <1>4, <1>5, <1>6, <1>9, <1>10

\* No triangle has more vectors than the space they are in has coordinates.
LEMMA TrianglesAreShort ==
    ASSUME FieldLaws, NEW n \in Nat, NEW f, \A j \in 0 .. n : Functional(f[j], n)
    PROVE  \A w : ~Triangle(f, w, n, n + 1)
<1> DEFINE Short(S, k) == \A w : ~(Triangle(f, w, n, k + 1) /\ Within(w, k + 1, n, S))
           Good == {k \in Nat : k <= n => \A S \in SUBSET (1 .. n) :
                       Cardinality(S) = k => Short(S, k)}
<1>1. IsFiniteSet(1 .. n) /\ Cardinality(1 .. n) = n BY FS_Interval
<1>2. \A S \in SUBSET (1 .. n) : IsFiniteSet(S) BY <1>1, FS_Subset
<1>3. 0 \in Good
  <2> SUFFICES ASSUME NEW S \in SUBSET (1 .. n), Cardinality(S) = 0, NEW w,
                      Triangle(f, w, n, 1), Within(w, 1, n, S)
               PROVE  FALSE
    OBVIOUS
  <2>1. S = {} BY <1>2, FS_EmptySet
  <2>2. w[0] \in Vectors(n) /\ f[0][w[0]] # Zero BY DEF Triangle
  <2>3. w[0] = Origin(n) BY <2>1, <2>2, SomeCoordinate DEF Within
  <2>4. f[0][Origin(n)] = Zero BY FunctionalAtOrigin
  <2> QED BY <2>2, <2>3, <2>4
<1>4. ASSUME NEW k \in Nat, k \in Good PROVE k + 1 \in Good
  <2> SUFFICES ASSUME k + 1 <= n, NEW S \in SUBSET (1 .. n), Cardinality(S) = k + 1, NEW w,
                      Triangle(f, w, n, k + 2), Within(w, k + 2, n, S)
               PROVE  FALSE
    OBVIOUS
  <2> DEFINE z == w[k + 1]
  <2>1. z \in Vectors(n) /\ f[k + 1][z] # Zero /\ \A j \in 0 .. k : f[j][z] = Zero
    BY DEF Triangle
  <2>2. z # Origin(n)
    <3>1. f[k + 1][Origin(n)] = Zero BY FunctionalAtOrigin
    <3> QED BY <2>1, <3>1
  <2> HIDE DEF z
  <2>3. PICK l \in 1 .. n : z[l] # Zero BY <2>1, <2>2, SomeCoordinate
  <2>4. l \in S BY <2>3 DEF Within, z
  <2> DEFINE T == S \ {l}
             u == [i \in 0 .. k |-> Cleared(w[i], z, l)]
  <2>5. T \in SUBSET (1 .. n) /\ Cardinality(T) = k BY <1>2, <2>4, FS_RemoveElement
  <2>6. ASSUME NEW i \in 0 .. k
        PROVE  /\ u[i] \in Vectors(n) /\ f[i][u[i]] # Zero
               /\ \A j \in 0 .. i - 1 : f[j][u[i]] = Zero
               /\ \A c \in (1 .. n) \ T : u[i][c] = Zero
    <3>1. /\ w[i] \in Vectors(n) /\ f[i][w[i]] # Zero
          /\ \A j \in 0 .. i - 1 : f[j][w[i]] = Zero
          /\ \A c \in (1 .. n) \ S : w[i][c] = Zero /\ z[c] = Zero
      BY DEF Triangle, Within, z
    <3>2. u[i] = Cleared(w[i], z, l) OBVIOUS
    <3> HIDE DEF u
    <3>3. /\ u[i] \in Vectors(n) /\ u[i][l] = Zero
          /\ \A c \in 1 .. n : w[i][c] = Zero /\ z[c] = Zero => u[i][c] = Zero
          /\ \A g : Functional(g, n) /\ g[z] = Zero => g[u[i]] = g[w[i]]
      BY <2>1, <2>3, <3>1, <3>2, ClearedFacts
    <3>4. \A j \in 0 .. k : f[j][u[i]] = f[j][w[i]]
      <4> TAKE j \in 0 .. k
      <4>1. Functional(f[j], n) /\ f[j][z] = Zero BY <2>1
      <4> QED BY <3>3, <4>1
    <3> QED BY <3>1, <3>3, <3>4
  <2>7. Triangle(f, u, n, k + 1) /\ Within(u, k + 1, n, T)
    <3>1. (k + 1) - 1 = k OBVIOUS
    <3> HIDE DEF u, T
    <3> QED BY <2>6, <3>1 DEF Triangle, Within
  <2> HIDE DEF T, u
  <2>8. Short(T, k) BY <1>4, <2>5
  <2> QED BY <2>7, <2>8
<1>5. \A k \in Nat : k \in Good
  <2> HIDE DEF Good
  <2> QED BY <1>3, <1>4, Sum!NumberInduction
<1>6. Short(1 .. n, n)
  <2>1. n \in Good BY <1>5
  <2> HIDE DEF Short
  <2> QED BY <1>1, <2>1
<1>7. \A w : Within(w, n + 1, n, 1 .. n) BY DEF Within
<1> QED BY <1>6, <1>7

\* The inner product with a vector is linear.
InnerProductIsLinear ==
    \A m \in Matrices : \A y, z, u \in Vectors(m.rows), a \in Scalars :
        Dot(y, More(z, a, u)) = Plus(Dot(y, z), Times(a, Dot(y, u)))
NormOfOrigin == \A m \in Matrices : Norm(Origin(m.rows)) = 0

\* What the shadow residual y spans: phi[j] is the product of y and A^j.
Shadows(phi, m, y) ==
    /\ phi[0] = [z \in Vectors(m.rows) |-> Dot(y, z)]
    /\ \A j \in 0 .. m.rows - 1 :
          phi[j + 1] = [z \in Vectors(m.rows) |-> phi[j][Apply(m, z)]]

LEMMA ShadowsAreFunctionals ==
    ASSUME InnerProductIsLinear, NEW m \in Matrices, NEW y \in Vectors(m.rows), NEW phi,
           Shadows(phi, m, y)
    PROVE  \A j \in 0 .. m.rows : Functional(phi[j], m.rows)
<1> DEFINE n == m.rows
           Good == {k \in Nat : k <= n => Functional(phi[k], n)}
<1>0. n \in Nat BY OperatorAssumption
<1>1. 0 \in Good
  <2>1. phi[0] = [z \in Vectors(n) |-> Dot(y, z)] BY DEF Shadows
  <2>2. \A z \in Vectors(n) : Dot(y, z) \in Scalars BY OperatorAssumption
  <2>3. phi[0] \in [Vectors(n) -> Scalars] BY <2>1, <2>2
  <2>4. ASSUME NEW z \in Vectors(n), NEW u \in Vectors(n), NEW a \in Scalars
        PROVE  phi[0][More(z, a, u)] = Plus(phi[0][z], Times(a, phi[0][u]))
    <3>1. More(z, a, u) \in Vectors(n) BY VectorsAre
    <3>2. Dot(y, More(z, a, u)) = Plus(Dot(y, z), Times(a, Dot(y, u)))
      BY DEF InnerProductIsLinear
    <3> QED BY <2>1, <3>1, <3>2
  <2>5. Functional(phi[0], n) BY <2>3, <2>4 DEF Functional
  <2> QED BY <2>5
<1>2. ASSUME NEW k \in Nat, k \in Good PROVE k + 1 \in Good
  <2> SUFFICES ASSUME k + 1 <= n PROVE Functional(phi[k + 1], n) OBVIOUS
  <2> DEFINE f == phi[k]
             g == phi[k + 1]
  <2>1. Functional(f, n) BY <1>0, <1>2
  <2>2. g = [z \in Vectors(n) |-> f[Apply(m, z)]]
    <3>1. k \in 0 .. n - 1 BY <1>0
    <3> QED BY <3>1 DEF Shadows
  <2> HIDE DEF f, g
  <2>3. \A z \in Vectors(n) : Apply(m, z) \in Vectors(n) BY OperatorAssumption
  <2>4. g \in [Vectors(n) -> Scalars] BY <2>1, <2>2, <2>3 DEF Functional
  <2>5. ASSUME NEW z \in Vectors(n), NEW u \in Vectors(n), NEW a \in Scalars
        PROVE  g[More(z, a, u)] = Plus(g[z], Times(a, g[u]))
    <3>1. More(z, a, u) \in Vectors(n) BY VectorsAre
    <3>2. Apply(m, More(z, a, u)) = More(Apply(m, z), a, Apply(m, u)) BY OperatorAssumption
    <3>3. f[More(Apply(m, z), a, Apply(m, u))]
            = Plus(f[Apply(m, z)], Times(a, f[Apply(m, u)]))
      BY <2>1, <2>3 DEF Functional
    <3> QED BY <2>2, <3>1, <3>2, <3>3
  <2> QED BY <2>4, <2>5 DEF Functional, g
<1>3. \A k \in Nat : k \in Good
  <2> HIDE DEF Good
  <2> QED BY <1>1, <1>2, Sum!NumberInduction
<1> QED BY <1>0, <1>3

\* There are such functionals.
LEMMA ShadowsExist ==
    ASSUME NEW m \in Matrices, NEW y
    PROVE  \E phi : Shadows(phi, m, y)
<1> DEFINE n == m.rows
           V == Vectors(n)
           Chain(phi, k) == /\ phi[0] = [z \in V |-> Dot(y, z)]
                            /\ \A j \in 0 .. k - 1 : phi[j + 1] = [z \in V |-> phi[j][Apply(m, z)]]
           Good == {k \in Nat : \E phi : Chain(phi, k)}
<1>0. n \in Nat BY OperatorAssumption
<1>1. 0 \in Good
  <2> DEFINE phi == [j \in {0} |-> [z \in V |-> Dot(y, z)]]
  <2>1. phi[0] = [z \in V |-> Dot(y, z)] OBVIOUS
  <2> HIDE DEF phi, V
  <2>2. Chain(phi, 0) BY <2>1
  <2> QED BY <2>2
<1>2. ASSUME NEW k \in Nat, k \in Good PROVE k + 1 \in Good
  <2>1. PICK phi : Chain(phi, k) BY <1>2
  <2> DEFINE new == [z \in V |-> phi[k][Apply(m, z)]]
             psi == [j \in 0 .. k + 1 |-> IF j = k + 1 THEN new ELSE phi[j]]
  <2>2. \A j \in 0 .. k : psi[j] = phi[j] OBVIOUS
  <2>3. psi[k + 1] = new OBVIOUS
  <2> HIDE DEF psi, V
  <2>4. psi[0] = [z \in V |-> Dot(y, z)] BY <2>1, <2>2
  <2>5. ASSUME NEW j \in 0 .. (k + 1) - 1
        PROVE  psi[j + 1] = [z \in V |-> psi[j][Apply(m, z)]]
    <3>1. psi[j] = phi[j] BY <2>2
    <3>2. CASE j = k BY <2>3, <3>1, <3>2
    <3>3. CASE j # k
      <4>1. j \in 0 .. k - 1 /\ j + 1 \in 0 .. k BY <3>3
      <4>2. phi[j + 1] = [z \in V |-> phi[j][Apply(m, z)]] BY <2>1, <4>1
      <4>3. psi[j + 1] = phi[j + 1] BY <2>2, <4>1
      <4> QED BY <3>1, <4>2, <4>3
    <3> QED BY <3>2, <3>3
  <2>6. Chain(psi, k + 1) BY <2>4, <2>5
  <2> HIDE DEF Chain
  <2> QED BY <2>6
<1>3. \A k \in Nat : k \in Good
  <2> HIDE DEF Good
  <2> QED BY <1>1, <1>2, Sum!NumberInduction
<1>4. n \in Good BY <1>0, <1>3
<1> QED BY <1>4 DEF Shadows

-----------------------------------------------------------------------------
\* A polynomial q in A of degree i with c for its leading coefficient, as far
\* as the shadows see: it is linear, commutes with A, and where the shadows
\* before i are zero it multiplies the one of i by c.
Unseen(phi, z, i) == \A j \in 0 .. i - 1 : phi[j][z] = Zero
Leads(phi, m, q, c, i) ==
    /\ q \in [Vectors(m.rows) -> Vectors(m.rows)]
    /\ c \in Scalars /\ c # Zero
    /\ \A y, z \in Vectors(m.rows), a \in Scalars : q[More(y, a, z)] = More(q[y], a, q[z])
    /\ \A z \in Vectors(m.rows) :
          /\ q[Apply(m, z)] = Apply(m, q[z])
          /\ Unseen(phi, z, i) => phi[0][q[z]] = Times(c, phi[i][z])

\* The next factor, 1 - w A.
Damped(q, m, w) == [z \in Vectors(m.rows) |-> Less(q[z], w, Apply(m, q[z]))]

LEMMA IdentityLeads ==
    ASSUME FieldLaws, InnerProductIsLinear, NEW m \in Matrices, NEW y \in Vectors(m.rows),
           NEW phi, Shadows(phi, m, y)
    PROVE  Leads(phi, m, [z \in Vectors(m.rows) |-> z], One, 0)
<1> DEFINE V == Vectors(m.rows)
           q == [z \in V |-> z]
<1>0. m.rows \in Nat BY OperatorAssumption
<1>1. \A z \in V : Apply(m, z) \in V BY OperatorAssumption
<1>2. \A z, u \in V, a \in Scalars : More(z, a, u) \in V BY VectorsAre
<1>3. \A z \in V : phi[0][z] \in Scalars
  <2>1. Functional(phi[0], m.rows) BY <1>0, ShadowsAreFunctionals
  <2> QED BY <2>1 DEF Functional
<1>4. One \in Scalars /\ One # Zero /\ \A a \in Scalars : Times(One, a) = a
  BY FieldAssumption DEF FieldLaws
<1> HIDE DEF V
<1>5. /\ q \in [V -> V] /\ \A z \in V : q[z] = z OBVIOUS
<1> HIDE DEF q
<1> QED BY <1>1, <1>2, <1>3, <1>4, <1>5 DEF Leads, V, q

\* (f + a g) + b (h + a k) = (f + b h) + a (g + b k).
LEMMA ScalarsMix ==
    ASSUME FieldLaws, NEW f \in Scalars, NEW g \in Scalars, NEW h \in Scalars, NEW k \in Scalars,
           NEW a \in Scalars, NEW e \in Scalars
    PROVE  Plus(Plus(f, Times(a, g)), Times(e, Plus(h, Times(a, k))))
             = Plus(Plus(f, Times(e, h)), Times(a, Plus(g, Times(e, k))))
<1> DEFINE ag == Times(a, g)
           eh == Times(e, h)
           ak == Times(a, k)
           ek == Times(e, k)
<1>1. /\ ag \in Scalars /\ eh \in Scalars /\ ak \in Scalars /\ ek \in Scalars
      /\ Times(e, ak) \in Scalars
  BY FieldAssumption
<1>2. Times(e, ak) = Times(a, ek)
  <2>1. Times(e, ak) = Times(Times(e, a), k) BY DEF FieldLaws, RingLaws
  <2>2. Times(a, ek) = Times(Times(a, e), k) BY DEF FieldLaws, RingLaws
  <2>3. Times(e, a) = Times(a, e) BY DEF FieldLaws, RingLaws
  <2> QED BY <2>1, <2>2, <2>3
<1>3. Times(e, Plus(h, ak)) = Plus(eh, Times(e, ak)) BY <1>1 DEF FieldLaws, RingLaws
<1>4. Times(a, Plus(g, ek)) = Plus(ag, Times(a, ek)) BY <1>1 DEF FieldLaws, RingLaws
<1> HIDE DEF ag, eh, ak, ek
<1>5. \A u, y, z \in Scalars :
        Plus(Plus(f, u), Plus(y, z)) = Plus(Plus(f, y), Plus(u, z))
  <2> TAKE u, y, z \in Scalars
  <2>1. Plus(u, z) \in Scalars /\ Plus(y, z) \in Scalars /\ Plus(u, y) \in Scalars
    BY FieldAssumption
  <2>2. Plus(Plus(f, u), Plus(y, z)) = Plus(f, Plus(u, Plus(y, z)))
    BY <2>1 DEF FieldLaws, RingLaws
  <2>3. Plus(Plus(f, y), Plus(u, z)) = Plus(f, Plus(y, Plus(u, z)))
    BY <2>1 DEF FieldLaws, RingLaws
  <2>4. Plus(u, Plus(y, z)) = Plus(Plus(u, y), z) BY DEF FieldLaws, RingLaws
  <2>5. Plus(y, Plus(u, z)) = Plus(Plus(y, u), z) BY DEF FieldLaws, RingLaws
  <2>6. Plus(u, y) = Plus(y, u) BY DEF FieldLaws, RingLaws
  <2> QED BY <2>2, <2>3, <2>4, <2>5, <2>6
<1>6. Plus(Plus(f, ag), Plus(eh, Times(e, ak))) = Plus(Plus(f, eh), Plus(ag, Times(e, ak)))
  BY <1>1, <1>5
<1>7. Plus(Plus(f, ag), Times(e, Plus(h, ak))) = Plus(Plus(f, eh), Times(a, Plus(g, ek)))
  BY <1>2, <1>3, <1>4, <1>6
<1> QED BY <1>7 DEF ag, eh, ak, ek

LEMMA VectorsMix ==
    ASSUME FieldLaws, NEW n, NEW f \in Vectors(n), NEW g \in Vectors(n), NEW h \in Vectors(n),
           NEW k \in Vectors(n), NEW a \in Scalars, NEW e \in Scalars
    PROVE  More(More(f, a, g), e, More(h, a, k)) = More(More(f, e, h), a, More(g, e, k))
<1>1. /\ More(f, a, g) = [i \in 1 .. n |-> Plus(f[i], Times(a, g[i]))]
      /\ More(h, a, k) = [i \in 1 .. n |-> Plus(h[i], Times(a, k[i]))]
      /\ More(f, e, h) = [i \in 1 .. n |-> Plus(f[i], Times(e, h[i]))]
      /\ More(g, e, k) = [i \in 1 .. n |-> Plus(g[i], Times(e, k[i]))]
  BY DEF More, Vectors
<1>2. More(More(f, a, g), e, More(h, a, k)) = [i \in 1 .. n |->
        Plus(Plus(f[i], Times(a, g[i])), Times(e, Plus(h[i], Times(a, k[i]))))]
  BY <1>1 DEF More
<1>3. More(More(f, e, h), a, More(g, e, k)) = [i \in 1 .. n |->
        Plus(Plus(f[i], Times(e, h[i])), Times(a, Plus(g[i], Times(e, k[i]))))]
  BY <1>1 DEF More
<1>4. \A i \in 1 .. n : f[i] \in Scalars /\ g[i] \in Scalars /\ h[i] \in Scalars /\ k[i] \in Scalars
  BY DEF Vectors
<1>5. \A i \in 1 .. n :
        Plus(Plus(f[i], Times(a, g[i])), Times(e, Plus(h[i], Times(a, k[i]))))
          = Plus(Plus(f[i], Times(e, h[i])), Times(a, Plus(g[i], Times(e, k[i]))))
  <2> TAKE i \in 1 .. n
  <2> DEFINE fi == f[i]
             gi == g[i]
             hi == h[i]
             ki == k[i]
  <2>1. fi \in Scalars /\ gi \in Scalars /\ hi \in Scalars /\ ki \in Scalars BY <1>4
  <2> HIDE DEF fi, gi, hi, ki
  <2>2. Plus(Plus(fi, Times(a, gi)), Times(e, Plus(hi, Times(a, ki))))
          = Plus(Plus(fi, Times(e, hi)), Times(a, Plus(gi, Times(e, ki))))
    BY <2>1, ScalarsMix
  <2> QED BY <2>2 DEF fi, gi, hi, ki
<1> QED BY <1>2, <1>3, <1>5

\* Linear maps take the origin to the origin.
LEMMA LeadsAtOrigin ==
    ASSUME FieldLaws, NEW m, NEW phi, NEW q, NEW c, NEW i, Leads(phi, m, q, c, i)
    PROVE  q[Origin(m.rows)] = Origin(m.rows)
<1> DEFINE n == m.rows
           V == Vectors(n)
<1>1. Origin(n) \in V BY OriginIsVector
<1>2. q[Origin(n)] \in V BY <1>1 DEF Leads
<1> HIDE DEF n, V
<1>3. ASSUME NEW l \in 1 .. n PROVE q[Origin(n)][l] = Zero
  <2> DEFINE f == [z \in V |-> q[z][l]]
  <2>1. \A z \in V : f[z] = q[z][l] /\ q[z] \in V BY DEF Leads, V, n
  <2>2. \A z \in V : f[z] \in Scalars BY <1>3, <2>1 DEF V, Vectors
  <2>3. f \in [V -> Scalars]
    <3>1. f = [z \in V |-> f[z]] OBVIOUS
    <3> HIDE DEF f
    <3> QED BY <2>2, <3>1
  <2> HIDE DEF f
  <2>4. ASSUME NEW y \in V, NEW z \in V, NEW a \in Scalars
        PROVE  f[More(y, a, z)] = Plus(f[y], Times(a, f[z]))
    <3>1. More(y, a, z) \in V BY VectorsAre DEF V
    <3>2. q[More(y, a, z)] = More(q[y], a, q[z]) BY DEF Leads, V, n
    <3>3. More(q[y], a, q[z])[l] = Plus(q[y][l], Times(a, q[z][l]))
      <4> DEFINE g == q[y]
                 h == q[z]
      <4>1. g \in Vectors(n) /\ h \in Vectors(n) BY <2>1 DEF V
      <4> HIDE DEF g, h
      <4>2. More(g, a, h)[l] = Plus(g[l], Times(a, h[l])) BY <1>3, <4>1, VectorsAre
      <4> QED BY <4>2 DEF g, h
    <3> QED BY <2>1, <3>1, <3>2, <3>3
  <2>5. Functional(f, n) BY <2>3, <2>4 DEF Functional, V
  <2>6. f[Origin(n)] = Zero BY <2>5, FunctionalAtOrigin
  <2> QED BY <1>1, <2>1, <2>6
<1>4. q[Origin(n)] = Origin(n) BY <1>2, <1>3, SomeCoordinate DEF V
<1> QED BY <1>4 DEF n

\* A shadow of A z is the next shadow of z.
LEMMA ShadowOfImage ==
    ASSUME NEW m \in Matrices, NEW y, NEW phi, Shadows(phi, m, y), NEW z \in Vectors(m.rows),
           NEW j \in 0 .. m.rows - 1
    PROVE  phi[j][Apply(m, z)] = phi[j + 1][z]
<1>1. phi[j + 1] = [u \in Vectors(m.rows) |-> phi[j][Apply(m, u)]] BY DEF Shadows
<1> QED BY <1>1

LEMMA DampedLeads ==
    ASSUME FieldLaws, InnerProductIsLinear, NEW m \in Matrices, NEW y \in Vectors(m.rows),
           NEW phi, Shadows(phi, m, y), NEW q, NEW c, NEW i \in 0 .. m.rows - 1,
           Leads(phi, m, q, c, i), NEW w \in Scalars, w # Zero
    PROVE  Leads(phi, m, Damped(q, m, w), Times(Neg(w), c), i + 1)
<1> DEFINE n == m.rows
           V == Vectors(n)
           q1 == Damped(q, m, w)
           c1 == Times(Neg(w), c)
<1>0. n \in Nat BY OperatorAssumption
<1>1. /\ c \in Scalars /\ c # Zero
      /\ Neg(w) \in Scalars /\ Neg(w) # Zero
  BY NegFacts, NegNotZero DEF Leads
<1>2. c1 \in Scalars /\ c1 # Zero BY <1>1, NoZeroDivisors, FieldAssumption
<1>3. \A z \in V : q[z] \in V /\ Apply(m, z) \in V /\ Apply(m, q[z]) \in V
  BY OperatorAssumption DEF Leads
<1>4. \A z \in V : q1[z] = More(q[z], Neg(w), Apply(m, q[z])) /\ q1[z] \in V
  <2> TAKE z \in V
  <2>1. q1[z] = Less(q[z], w, Apply(m, q[z])) BY DEF Damped
  <2>2. q1[z] = More(q[z], Neg(w), Apply(m, q[z])) BY <1>3, <2>1, LessIsMore
  <2> QED BY <1>1, <1>3, <2>2, VectorsAre
<1>5. q1 \in [V -> V]
  <2>1. q1 = [z \in V |-> q1[z]] BY DEF Damped
  <2> HIDE DEF q1
  <2> QED BY <1>4, <2>1
<1> HIDE DEF q1, c1, V
<1>6. ASSUME NEW u \in V, NEW z \in V, NEW a \in Scalars
      PROVE  q1[More(u, a, z)] = More(q1[u], a, q1[z])
  <2>1. More(u, a, z) \in V BY VectorsAre DEF V
  <2>2. q[More(u, a, z)] = More(q[u], a, q[z]) BY DEF Leads, V
  <2>3. Apply(m, More(q[u], a, q[z])) = More(Apply(m, q[u]), a, Apply(m, q[z]))
    BY <1>3, OperatorAssumption DEF V
  <2>4. q1[More(u, a, z)]
          = More(More(q[u], a, q[z]), Neg(w), More(Apply(m, q[u]), a, Apply(m, q[z])))
    BY <1>4, <2>1, <2>2, <2>3
  <2>5. More(More(q[u], a, q[z]), Neg(w), More(Apply(m, q[u]), a, Apply(m, q[z])))
          = More(More(q[u], Neg(w), Apply(m, q[u])), a, More(q[z], Neg(w), Apply(m, q[z])))
    <3>1. /\ q[u] \in Vectors(n) /\ Apply(m, q[u]) \in Vectors(n)
          /\ q[z] \in Vectors(n) /\ Apply(m, q[z]) \in Vectors(n)
      BY <1>3 DEF V
    <3> HIDE DEF n
    <3> QED BY <1>1, <3>1, VectorsMix
  <2> QED BY <1>4, <2>4, <2>5
<1>7. ASSUME NEW z \in V PROVE q1[Apply(m, z)] = Apply(m, q1[z])
  <2>1. q[Apply(m, z)] = Apply(m, q[z]) BY DEF Leads, V
  <2>2. q1[Apply(m, z)] = More(Apply(m, q[z]), Neg(w), Apply(m, Apply(m, q[z])))
    BY <1>3, <1>4, <2>1
  <2>3. Apply(m, More(q[z], Neg(w), Apply(m, q[z])))
          = More(Apply(m, q[z]), Neg(w), Apply(m, Apply(m, q[z])))
    BY <1>1, <1>3, OperatorAssumption DEF V
  <2> QED BY <1>4, <2>2, <2>3
<1>8. ASSUME NEW z \in V, Unseen(phi, z, i + 1)
      PROVE  phi[0][q1[z]] = Times(c1, phi[i + 1][z])
  <2>1. i \in Nat /\ (i + 1) - 1 = i BY <1>0
  <2>2. Unseen(phi, z, i) /\ phi[i][z] = Zero BY <1>8, <2>1 DEF Unseen
  <2>3. \A j \in 0 .. i : phi[j][Apply(m, z)] = phi[j + 1][z]
    BY <1>0, ShadowOfImage DEF V
  <2>4. Unseen(phi, Apply(m, z), i)
    <3>1. ASSUME NEW j \in 0 .. i - 1 PROVE phi[j][Apply(m, z)] = Zero
      <4>1. j \in 0 .. i /\ j + 1 \in 0 .. (i + 1) - 1 BY <2>1
      <4> QED BY <1>8, <2>3, <4>1 DEF Unseen
    <3> QED BY <3>1 DEF Unseen
  <2>5. phi[0][q[z]] = Times(c, Zero) BY <2>2 DEF Leads, V
  <2>6. phi[0][q[Apply(m, z)]] = Times(c, phi[i + 1][z])
    <3>1. phi[0][q[Apply(m, z)]] = Times(c, phi[i][Apply(m, z)])
      BY <1>3, <2>4 DEF Leads, V
    <3> QED BY <2>1, <2>3, <3>1
  <2>7. q[Apply(m, z)] = Apply(m, q[z]) BY DEF Leads, V
  <2>8. Functional(phi[0], n) /\ Functional(phi[i + 1], n)
    <3>1. \A j \in 0 .. n : Functional(phi[j], n) BY ShadowsAreFunctionals
    <3>2. 0 \in 0 .. n /\ i + 1 \in 0 .. n BY <1>0
    <3> HIDE DEF n
    <3> QED BY <3>1, <3>2
  <2>9. phi[0][More(q[z], Neg(w), Apply(m, q[z]))]
          = Plus(phi[0][q[z]], Times(Neg(w), phi[0][Apply(m, q[z])]))
    <3>1. q[z] \in Vectors(n) /\ Apply(m, q[z]) \in Vectors(n) BY <1>3 DEF V
    <3> HIDE DEF n
    <3> QED BY <1>1, <2>8, <3>1 DEF Functional
  <2>10. phi[i + 1][z] \in Scalars BY <2>8 DEF Functional, V
  <2> DEFINE e == phi[i + 1][z]
  <2>11. phi[0][q1[z]] = Plus(Times(c, Zero), Times(Neg(w), Times(c, e)))
    BY <1>4, <2>5, <2>6, <2>7, <2>9
  <2> HIDE DEF e
  <2>12. Times(c, Zero) = Zero BY <1>1, ZeroFacts
  <2>13. Times(Neg(w), Times(c, e)) = Times(c1, e)
    BY <1>1, <2>10 DEF FieldLaws, RingLaws, c1, e
  <2>14. Times(c1, e) \in Scalars /\ Plus(Zero, Times(c1, e)) = Times(c1, e)
    <3>1. Times(c1, e) \in Scalars BY <1>2, <2>10, FieldAssumption DEF e
    <3> QED BY <3>1 DEF FieldLaws, RingLaws
  <2> QED BY <2>11, <2>12, <2>13, <2>14 DEF e
<1> QED BY <1>2, <1>5, <1>6, <1>7, <1>8 DEF Leads, V, q1, c1

\* In iteration i of a solve with m of order n, the residual y is q of a vector z
\* that the shadows so far do not see, and the vectors z of the iterations so far
\* make a triangle with them.
FoundAt(phi, m, n, i, y, q, c, z, w) ==
    /\ Leads(phi, m, q, c, i)
    /\ z \in Vectors(n) /\ y = q[z] /\ Unseen(phi, z, i)
    /\ Triangle(phi, w, n, i)
\* The last direction y is q0 of a vector d that the shadows do not see through
\* m, and the last iteration's scalars al, om and rh are what that takes.
ConjugateAt(phi, m, n, i, y, al, om, rh, q, c, w, q0, c0, d) ==
    /\ Leads(phi, m, q0, c0, i - 1)
    /\ q = Damped(q0, m, om) /\ c = Times(Neg(om), c0)
    /\ d \in Vectors(n) /\ y = q0[d]
    /\ \A j \in 1 .. i - 1 : phi[j][d] = Zero
    /\ phi[i][d] # Zero
    /\ Times(al, phi[i][d]) = phi[i - 1][w[i - 1]]
    /\ rh = Times(c0, phi[i - 1][w[i - 1]])
TracedAt(phi, m, n, i, y, yp, al, om, rh) == \E q, c, z, w :
    /\ FoundAt(phi, m, n, i, y, q, c, z, w)
    /\ i # 0 => \E q0, c0, d : ConjugateAt(phi, m, n, i, yp, al, om, rh, q, c, w, q0, c0, d)
\* They are so of the solve's own state.
Found(phi, q, c, z, w) == FoundAt(phi, A, size, iter, r, q, c, z, w)
Conjugate(phi, q, c, w, q0, c0, d) ==
    ConjugateAt(phi, A, size, iter, p, alpha, omega, rho_prev, q, c, w, q0, c0, d)
KrylovInv ==
    /\ iter <= size /\ result.iterations = iter
    /\ rho = Dot(r_hat, r)
    /\ iter # 0 => v = Apply(A, p)
    /\ \A phi : Shadows(phi, A, r_hat) =>
         TracedAt(phi, A, size, iter, r, p, alpha, omega, rho_prev)

\* While a solve goes on, the order is not used up: with n vectors in a triangle
\* there is no room for another one that none of the shadows sees.
LEMMA OrderNotUsedUp ==
    ASSUME FieldLaws, InnerProductIsLinear, NormOfOrigin, Accounted, pc = "loop", KrylovInv
    PROVE  iter < size
<1>1. /\ A \in Matrices /\ size = A.rows /\ r_hat \in Vectors(size) /\ r \in Vectors(size)
      /\ iter \in Nat /\ request \in Requests /\ ~Refused(request) /\ ~Small(r)
  BY Sized DEF Accounted, Working
<1>2. size \in Nat BY <1>1, OperatorAssumption
<1>3. r # Origin(size)
  <2>1. 0 <= request.tolerance
    BY <1>1, RequestAssumption DEF Refused
  <2>2. Norm(Origin(size)) = 0 BY <1>1 DEF NormOfOrigin
  <2> QED BY <1>1, <2>1, <2>2 DEF Small
<1> SUFFICES ASSUME iter = size PROVE FALSE BY <1>1, <1>2 DEF KrylovInv
<1>4. PICK phi : Shadows(phi, A, r_hat) BY <1>1, ShadowsExist
<1>5. PICK q, c, z, w : Found(phi, q, c, z, w) BY <1>4 DEF KrylovInv, TracedAt, Found
<1>6. z \in Vectors(size) /\ Unseen(phi, z, size) /\ Triangle(phi, w, size, size)
  BY <1>5 DEF Found, FoundAt
<1>7. z # Origin(size)
  <2>1. q[Origin(size)] = Origin(size) BY <1>1, <1>5, LeadsAtOrigin DEF Found, FoundAt
  <2> QED BY <1>3, <1>5, <2>1 DEF Found, FoundAt
<1>8. PICK l \in 1 .. size : z[l] # Zero BY <1>6, <1>7, SomeCoordinate
<1> DEFINE n == size
           last == [y \in Vectors(n) |-> y[l]]
           f == [j \in 0 .. n |-> IF j = n THEN last ELSE phi[j]]
           u == [j \in 0 .. n |-> IF j = n THEN z ELSE w[j]]
<1>9. n \in Nat /\ n = A.rows BY <1>1, <1>2
<1>10. Functional(last, n)
  <2>1. \A y \in Vectors(n) : last[y] = y[l] /\ y[l] \in Scalars BY <1>8 DEF Vectors
  <2>2. last \in [Vectors(n) -> Scalars] BY <2>1
  <2> HIDE DEF last
  <2>3. ASSUME NEW y \in Vectors(n), NEW e \in Vectors(n), NEW a \in Scalars
        PROVE  last[More(y, a, e)] = Plus(last[y], Times(a, last[e]))
    <3>1. /\ More(y, a, e) \in Vectors(n)
          /\ \A i \in 1 .. n : More(y, a, e)[i] = Plus(y[i], Times(a, e[i]))
      BY VectorsAre
    <3> QED BY <1>8, <2>1, <3>1
  <2> QED BY <2>2, <2>3 DEF Functional
<1>11. f[n] = last /\ u[n] = z /\ \A j \in 0 .. n - 1 : f[j] = phi[j] /\ u[j] = w[j]
  BY <1>9
<1>12. \A j \in 0 .. n : Functional(phi[j], n) BY <1>1, <1>4, <1>9, ShadowsAreFunctionals
<1>13. last[z] # Zero BY <1>6, <1>8
<1> HIDE DEF f, u, last
<1>14. \A j \in 0 .. n : Functional(f[j], n)
  <2> TAKE j \in 0 .. n
  <2>1. CASE j = n BY <1>10, <1>11, <2>1
  <2>2. CASE j # n
    <3>1. j \in 0 .. n - 1 BY <1>9, <2>2
    <3> QED BY <1>11, <1>12, <3>1
  <2> QED BY <2>1, <2>2
<1>15. Triangle(f, u, n, n + 1)
  <2> SUFFICES ASSUME NEW i \in 0 .. n
               PROVE  /\ u[i] \in Vectors(n) /\ f[i][u[i]] # Zero
                      /\ \A j \in 0 .. i - 1 : f[j][u[i]] = Zero
    <3>1. (n + 1) - 1 = n BY <1>9
    <3> QED BY <3>1 DEF Triangle
  <2>1. \A j \in 0 .. i - 1 : j \in 0 .. n - 1 BY <1>9
  <2>2. CASE i = n
    <3>1. \A j \in 0 .. i - 1 : f[j][z] = Zero BY <1>6, <1>11, <2>1, <2>2 DEF Unseen
    <3> QED BY <1>6, <1>11, <1>13, <2>2, <3>1
  <2>3. CASE i # n
    <3>1. i \in 0 .. n - 1 BY <1>9, <2>3
    <3>2. /\ w[i] \in Vectors(n) /\ phi[i][w[i]] # Zero
          /\ \A j \in 0 .. i - 1 : phi[j][w[i]] = Zero
      BY <1>6, <3>1 DEF Triangle
    <3> QED BY <1>11, <2>1, <3>1, <3>2
  <2> QED BY <2>2, <2>3
<1>16. ~Triangle(f, u, n, n + 1)
  <2> HIDE DEF n
  <2> QED BY <1>9, <1>14, TrianglesAreShort
<1> QED BY <1>15, <1>16

\* The direction of an iteration is q of a vector that the shadows, up to this
\* iteration's, do not see through A.
LEMMA DirectionTraced ==
    ASSUME FieldLaws, InnerProductIsLinear, Accounted, pc = "loop", KrylovInv, iter < size,
           NEW phi, Shadows(phi, A, r_hat), NEW q, NEW c, NEW z, NEW w,
           Found(phi, q, c, z, w),
           iter # 0 => \E q0, c0, d : Conjugate(phi, q, c, w, q0, c0, d)
    PROVE  \E d \in Vectors(size) : /\ Direction = q[d]
                                    /\ \A j \in 1 .. iter : phi[j][d] = Zero
<1>1. /\ A \in Matrices /\ size = A.rows /\ r_hat \in Vectors(size) /\ iter \in Nat
      /\ rho \in Scalars /\ rho_prev \in Scalars /\ alpha \in Scalars /\ omega \in Scalars
  BY Sized DEF Accounted, Working
<1>2. size \in Nat BY <1>1, OperatorAssumption
<1>3. /\ Leads(phi, A, q, c, iter) /\ z \in Vectors(size) /\ r = q[z]
      /\ Unseen(phi, z, iter) /\ Triangle(phi, w, size, iter)
  BY DEF Found, FoundAt
<1>4. CASE iter = 0
  <2>1. Direction = q[z] BY <1>3, <1>4 DEF Direction
  <2>2. \A j \in 1 .. iter : phi[j][z] = Zero BY <1>4
  <2> QED BY <1>3, <2>1, <2>2
<1>5. CASE iter # 0
  <2>1. PICK q0, c0, d : Conjugate(phi, q, c, w, q0, c0, d) BY <1>5
  <2>2. /\ Leads(phi, A, q0, c0, iter - 1) /\ q = Damped(q0, A, omega)
        /\ c = Times(Neg(omega), c0) /\ d \in Vectors(size) /\ p = q0[d]
        /\ \A j \in 1 .. iter - 1 : phi[j][d] = Zero
        /\ Times(alpha, phi[iter][d]) = phi[iter - 1][w[iter - 1]]
        /\ rho_prev = Times(c0, phi[iter - 1][w[iter - 1]])
    BY <2>1 DEF Conjugate, ConjugateAt
  <2>3. rho_prev # Zero /\ omega # Zero BY <1>5 DEF Accounted, Working
  <2> DEFINE g == Over(rho, rho_prev)
             h == Over(alpha, omega)
             f == phi[iter][z]
             e == phi[iter][d]
             a == phi[iter - 1][w[iter - 1]]
             new == More(z, Beta, d)
  <2>4. /\ g \in Scalars /\ Times(g, rho_prev) = rho
        /\ h \in Scalars /\ Times(h, omega) = alpha
    BY <1>1, <2>3, FieldAssumption DEF FieldLaws
  <2>5. Beta = Times(g, h) /\ Beta \in Scalars BY <2>4, FieldAssumption DEF Beta
  <2>6. \A j \in 0 .. size : Functional(phi[j], size) BY <1>1, ShadowsAreFunctionals
  <2>7. iter \in 0 .. size /\ iter - 1 \in 0 .. size /\ iter - 1 \in 0 .. iter - 1
    BY <1>1, <1>2, <1>5
  <2>8. w[iter - 1] \in Vectors(size) BY <1>3, <2>7 DEF Triangle
  <2>9. f \in Scalars /\ e \in Scalars /\ a \in Scalars
    BY <1>3, <2>2, <2>6, <2>7, <2>8 DEF Functional
  <2>10. c0 \in Scalars /\ c0 # Zero BY <2>2 DEF Leads
  <2>11. rho = Times(c, f)
    <3>1. q[z] \in Vectors(size) BY <1>1, <1>3 DEF Leads
    <3>2. phi[0][q[z]] = Dot(r_hat, q[z]) BY <1>1, <3>1 DEF Shadows
    <3>3. phi[0][q[z]] = Times(c, phi[iter][z]) BY <1>1, <1>3 DEF Leads
    <3> QED BY <1>3, <3>2, <3>3 DEF KrylovInv
  <2> HIDE DEF g, h, f, e, a
  <2>12. Plus(f, Times(Beta, e)) = Zero
    <3>1. Times(g, Times(c0, a)) = Times(Times(Neg(omega), c0), f)
      BY <2>2, <2>4, <2>11 DEF a
    <3>2. Times(alpha, e) = a BY <2>2 DEF e, a
    <3>3. Plus(f, Times(Times(g, h), e)) = Zero
      <4>1. Factors(g, h, omega, c0, a, f, e, alpha)
        BY <1>1, <2>3, <2>4, <2>9, <2>10, <3>1, <3>2 DEF Factors
      <4> QED BY <4>1, DirectionFactor
    <3> QED BY <2>5, <3>3
  <2>13. new \in Vectors(size) BY <1>3, <2>2, <2>5, VectorsAre
  <2>14. ASSUME NEW j \in 1 .. iter PROVE phi[j][new] = Zero
    <3>1. j \in 0 .. size BY <1>1, <1>2, <2>7
    <3>2. phi[j][new] = Plus(phi[j][z], Times(Beta, phi[j][d]))
      BY <1>3, <2>2, <2>5, <2>6, <3>1 DEF Functional
    <3>3. CASE j = iter BY <2>12, <3>2, <3>3 DEF f, e
    <3>4. CASE j # iter
      <4>1. j \in 0 .. iter - 1 /\ j \in 1 .. iter - 1 BY <1>1, <3>4
      <4>2. phi[j][z] = Zero /\ phi[j][d] = Zero BY <1>3, <2>2, <4>1 DEF Unseen
      <4>3. Plus(Zero, Times(Beta, Zero)) = Zero BY <2>5, ZeroFacts, FieldAssumption
      <4> QED BY <3>2, <4>2, <4>3
    <3> QED BY <3>3, <3>4
  <2>15. Direction = q[new]
    <3>1. Direction = More(q[z], Beta, Less(p, omega, v)) BY <1>3, <1>5 DEF Direction
    <3>2. v = Apply(A, q0[d]) BY <1>5, <2>2 DEF KrylovInv
    <3>3. q[d] = Less(q0[d], omega, Apply(A, q0[d])) BY <1>1, <2>2 DEF Damped
    <3>4. q[d] = Less(p, omega, v) BY <2>2, <3>2, <3>3
    <3>5. q[new] = More(q[z], Beta, q[d]) BY <1>1, <1>3, <2>2, <2>5 DEF Leads
    <3> QED BY <3>1, <3>4, <3>5
  <2> HIDE DEF new
  <2> QED BY <2>13, <2>14, <2>15
<1> QED BY <1>4, <1>5

\* What an iteration that goes on finds.
Onward(phi, q, c, z, d, z2) ==
    /\ d \in Vectors(size) /\ Direction = q[d]
    /\ \A j \in 1 .. iter : phi[j][d] = Zero
    /\ phi[iter + 1][d] # Zero
    /\ phi[iter][z] # Zero
    /\ Times(Alpha, phi[iter + 1][d]) = phi[iter][z]
    /\ rho = Times(c, phi[iter][z])
    /\ z2 \in Vectors(size) /\ Unseen(phi, z2, iter + 1)
    /\ Remaining = Damped(q, A, Omega)[z2]

LEMMA IterationTraced ==
    ASSUME FieldLaws, InnerProductIsLinear, Accounted, pc = "loop", KrylovInv, iter < size,
           NEW phi, Shadows(phi, A, r_hat), NEW q, NEW c, NEW z, NEW w,
           Found(phi, q, c, z, w),
           iter # 0 => \E q0, c0, d : Conjugate(phi, q, c, w, q0, c0, d),
           rho # Zero, Denominator # Zero
    PROVE  \E d, z2 : Onward(phi, q, c, z, d, z2)
<1>1. /\ A \in Matrices /\ size = A.rows /\ r_hat \in Vectors(size) /\ iter \in Nat
      /\ rho \in Scalars
  BY Sized DEF Accounted, Working
<1>2. size \in Nat BY <1>1, OperatorAssumption
<1>3. /\ Leads(phi, A, q, c, iter) /\ z \in Vectors(size) /\ r = q[z]
      /\ Unseen(phi, z, iter)
  BY DEF Found, FoundAt
<1>4. PICK d \in Vectors(size) : /\ Direction = q[d]
                                 /\ \A j \in 1 .. iter : phi[j][d] = Zero
  BY DirectionTraced
<1> DEFINE f == phi[iter][z]
           e == phi[iter + 1][d]
           z2 == More(z, Neg(Alpha), Apply(A, d))
<1>5. \A j \in 0 .. size : Functional(phi[j], size) BY <1>1, ShadowsAreFunctionals
<1>6. iter \in 0 .. size /\ iter + 1 \in 0 .. size /\ \A j \in 0 .. iter : j \in 0 .. size
  BY <1>1, <1>2
<1>7. f \in Scalars /\ e \in Scalars BY <1>3, <1>4, <1>5, <1>6 DEF Functional
<1>8. c \in Scalars /\ c # Zero BY <1>3 DEF Leads
<1>9. /\ Apply(A, d) \in Vectors(size) /\ q[z] \in Vectors(size) /\ q[d] \in Vectors(size)
      /\ q[Apply(A, d)] = Apply(A, q[d]) /\ q[Apply(A, d)] \in Vectors(size)
  BY <1>1, <1>3, <1>4, OperatorAssumption DEF Leads
<1>10. \A y \in Vectors(size) : phi[0][y] = Dot(r_hat, y) BY <1>1 DEF Shadows
<1>11. rho = Times(c, f)
  <2>1. phi[0][q[z]] = Times(c, phi[iter][z]) BY <1>1, <1>3 DEF Leads
  <2> QED BY <1>3, <1>9, <1>10, <2>1 DEF KrylovInv
<1>12. \A j \in 0 .. iter : phi[j][Apply(A, d)] = phi[j + 1][d]
  <2> TAKE j \in 0 .. iter
  <2>1. j \in 0 .. A.rows - 1 BY <1>1, <1>2
  <2> QED BY <1>1, <1>4, <2>1, ShadowOfImage
<1>13. \A j \in 0 .. iter - 1 : phi[j][Apply(A, d)] = Zero
  <2> TAKE j \in 0 .. iter - 1
  <2>1. j \in 0 .. iter /\ j + 1 \in 1 .. iter BY <1>1
  <2> QED BY <1>4, <1>12, <2>1
<1>14. Denominator = Times(c, e)
  <2>1. Image = q[Apply(A, d)] BY <1>4, <1>9 DEF Image
  <2>2. phi[0][q[Apply(A, d)]] = Times(c, phi[iter][Apply(A, d)])
    BY <1>1, <1>3, <1>9, <1>13 DEF Leads, Unseen
  <2>3. phi[iter][Apply(A, d)] = e BY <1>1, <1>12
  <2> QED BY <1>9, <1>10, <2>1, <2>2, <2>3 DEF Denominator
<1> HIDE DEF f, e
<1>15. f # Zero /\ e # Zero BY <1>8, <1>11, <1>14, ZeroFacts
<1>16. Alpha \in Scalars /\ Times(Alpha, Denominator) = rho
  <2>1. Denominator \in Scalars BY <1>7, <1>8, <1>14, FieldAssumption
  <2> QED BY <1>1, <2>1, FieldAssumption DEF Alpha, FieldLaws
<1>17. Times(Alpha, e) = f
  <2>1. Times(Alpha, Times(c, e)) = Times(c, f) BY <1>11, <1>14, <1>16
  <2> QED BY <1>7, <1>8, <1>16, <2>1, StepLength
<1>18. Neg(Alpha) \in Scalars BY <1>16, NegFacts
<1>19. z2 \in Vectors(size) BY <1>3, <1>9, <1>18, VectorsAre
<1>20. s = q[z2]
  <2>1. s = Less(q[z], Alpha, q[Apply(A, d)]) BY <1>3, <1>4, <1>9 DEF s, Image
  <2>2. s = More(q[z], Neg(Alpha), q[Apply(A, d)]) BY <1>9, <1>16, <2>1, LessIsMore
  <2> QED BY <1>1, <1>3, <1>9, <1>18, <2>2 DEF Leads
<1>21. Remaining = Damped(q, A, Omega)[z2]
  BY <1>1, <1>19, <1>20 DEF Remaining, t, Damped
<1>22. ASSUME NEW j \in 0 .. iter PROVE phi[j][z2] = Zero
  <2>1. phi[j][z2] = Plus(phi[j][z], Times(Neg(Alpha), phi[j][Apply(A, d)]))
    BY <1>3, <1>5, <1>6, <1>9, <1>18 DEF Functional
  <2>2. CASE j = iter
    <3>1. phi[j][z2] = Plus(f, Times(Neg(Alpha), e)) BY <1>12, <2>1, <2>2 DEF f, e
    <3>2. Times(Neg(Alpha), e) = Neg(f) BY <1>7, <1>16, <1>17, NegTimes
    <3> QED BY <1>7, <3>1, <3>2, NegFacts
  <2>3. CASE j # iter
    <3>1. j \in 0 .. iter - 1 BY <1>1, <2>3
    <3>2. phi[j][z] = Zero /\ phi[j][Apply(A, d)] = Zero BY <1>3, <1>13, <3>1 DEF Unseen
    <3>3. Plus(Zero, Times(Neg(Alpha), Zero)) = Zero BY <1>18, ZeroFacts, FieldAssumption
    <3> QED BY <2>1, <3>2, <3>3
  <2> QED BY <2>2, <2>3
<1> HIDE DEF z2
<1>23. Unseen(phi, z2, iter + 1)
  <2>1. (iter + 1) - 1 = iter BY <1>1
  <2> QED BY <1>22, <2>1 DEF Unseen
<1>24. Onward(phi, q, c, z, d, z2)
  BY <1>4, <1>11, <1>15, <1>17, <1>19, <1>21, <1>23 DEF Onward, f, e
<1> QED BY <1>24

LEMMA StartTraced ==
    ASSUME FieldLaws, InnerProductIsLinear, Accounted, Begin, result.iterations = 0
    PROVE  KrylovInv'
<1>1. request \in Requests /\ ~Refused(request) /\ iter = 0
  BY DEF Accounted, Begin
<1>2. A \in Matrices /\ size = A.rows /\ b \in Vectors(size) BY <1>1, Sized
<1>3. size \in Nat BY <1>2, OperatorAssumption
<1>4. /\ r' = b /\ r_hat' = b /\ rho' = Dot(b, b) /\ iter' = 0 /\ request' = request
      /\ result' = result
  BY <1>1 DEF Begin
<1>5. A' = A /\ size' = size BY <1>4 DEF A, size
<1>6. ASSUME NEW phi, Shadows(phi, A, b)
      PROVE  TracedAt(phi, A, size, 0, b, p', alpha', omega', rho_prev')
  <2> DEFINE q == [z \in Vectors(size) |-> z]
  <2>1. Leads(phi, A, q, One, 0) BY <1>2, <1>6, IdentityLeads
  <2>2. q[b] = b BY <1>2
  <2> HIDE DEF q
  <2>3. Unseen(phi, b, 0) BY DEF Unseen
  <2>4. Triangle(phi, b, size, 0) BY DEF Triangle
  <2>5. FoundAt(phi, A, size, 0, b, q, One, b, b)
    BY <1>2, <2>1, <2>2, <2>3, <2>4 DEF FoundAt
  <2> QED BY <2>5 DEF TracedAt
<1> QED BY <1>3, <1>4, <1>5, <1>6, <1>1 DEF KrylovInv

LEMMA ContinueTraced ==
    ASSUME FieldLaws, InnerProductIsLinear, NormOfOrigin, Accounted, KrylovInv, Continue
    PROVE  KrylovInv'
<1>0. /\ pc = "loop" /\ rho # Zero /\ Denominator # Zero /\ Omega # Zero
  BY DEF Continue, Whole, HalfDone, Iterating
<1>1. iter < size BY <1>0, OrderNotUsedUp
<1>2. /\ A \in Matrices /\ size = A.rows /\ r_hat \in Vectors(size) /\ iter \in Nat
  BY <1>0, Sized DEF Accounted, Working
<1>3. size \in Nat BY <1>2, OperatorAssumption
<1>4. Omega \in Scalars BY WholeIteration DEF Continue
<1>5. /\ r' = Remaining /\ r_hat' = r_hat /\ p' = Direction /\ v' = Image
      /\ rho' = Dot(r_hat, Remaining) /\ rho_prev' = rho /\ alpha' = Alpha /\ omega' = Omega
      /\ iter' = iter + 1 /\ request' = request /\ result'.iterations = iter + 1
  <2>1. result' = [result EXCEPT !.iterations = iter + 1] BY DEF Continue
  <2>2. result.iterations = iter BY DEF KrylovInv
  <2> QED BY <2>1, <2>2 DEF Continue, Accounted
<1>6. A' = A /\ size' = size BY <1>5 DEF A, size
<1>7. ASSUME NEW phi, Shadows(phi, A, r_hat)
      PROVE  TracedAt(phi, A, size, iter + 1, Remaining, Direction, Alpha, Omega, rho)
  <2>1. PICK q, c, z, w : /\ Found(phi, q, c, z, w)
                          /\ iter # 0 => \E q0, c0, d : Conjugate(phi, q, c, w, q0, c0, d)
    BY <1>7 DEF KrylovInv, TracedAt, Found, Conjugate
  <2>2. PICK d, z2 : Onward(phi, q, c, z, d, z2)
    BY <1>0, <1>1, <1>7, <2>1, IterationTraced
  <2>3. /\ Leads(phi, A, q, c, iter) /\ z \in Vectors(size) /\ Unseen(phi, z, iter)
        /\ Triangle(phi, w, size, iter)
    BY <2>1 DEF Found, FoundAt
  <2>4. /\ d \in Vectors(size) /\ Direction = q[d]
        /\ \A j \in 1 .. iter : phi[j][d] = Zero
        /\ phi[iter + 1][d] # Zero /\ phi[iter][z] # Zero
        /\ Times(Alpha, phi[iter + 1][d]) = phi[iter][z]
        /\ rho = Times(c, phi[iter][z])
        /\ z2 \in Vectors(size) /\ Unseen(phi, z2, iter + 1)
        /\ Remaining = Damped(q, A, Omega)[z2]
    BY <2>2 DEF Onward
  <2> DEFINE q2 == Damped(q, A, Omega)
             c2 == Times(Neg(Omega), c)
             w2 == [j \in 0 .. iter |-> IF j = iter THEN z ELSE w[j]]
  <2>5. Leads(phi, A, q2, c2, iter + 1)
    <3>1. iter \in 0 .. A.rows - 1 BY <1>1, <1>2, <1>3
    <3> QED BY <1>0, <1>2, <1>4, <1>7, <2>3, <3>1, DampedLeads
  <2>6. w2[iter] = z /\ \A j \in 0 .. iter - 1 : w2[j] = w[j] BY <1>2
  <2> HIDE DEF w2
  <2>7. Triangle(phi, w2, size, iter + 1)
    <3> SUFFICES ASSUME NEW i \in 0 .. iter
                 PROVE  /\ w2[i] \in Vectors(size) /\ phi[i][w2[i]] # Zero
                        /\ \A j \in 0 .. i - 1 : phi[j][w2[i]] = Zero
      <4>1. (iter + 1) - 1 = iter BY <1>2
      <4> QED BY <4>1 DEF Triangle
    <3>1. CASE i = iter BY <2>3, <2>4, <2>6, <3>1 DEF Unseen
    <3>2. CASE i # iter
      <4>1. i \in 0 .. iter - 1 BY <1>2, <3>2
      <4> QED BY <2>3, <2>6, <4>1 DEF Triangle
    <3> QED BY <3>1, <3>2
  <2>8. (iter + 1) - 1 = iter BY <1>2
  <2> HIDE DEF q2, c2
  <2>9. FoundAt(phi, A, size, iter + 1, Remaining, q2, c2, z2, w2)
    <3>1. Remaining = q2[z2] BY <2>4 DEF q2
    <3> QED BY <2>4, <2>5, <2>7, <3>1 DEF FoundAt
  <2>10. ConjugateAt(phi, A, size, iter + 1, Direction, Alpha, Omega, rho, q2, c2, w2, q, c, d)
    <3>1. q2 = Damped(q, A, Omega) /\ c2 = Times(Neg(Omega), c) BY DEF q2, c2
    <3> QED BY <2>3, <2>4, <2>6, <2>8, <3>1 DEF ConjugateAt
  <2> QED BY <2>9, <2>10 DEF TracedAt
<1>8. v' = Apply(A, p)' BY <1>5, <1>6 DEF Image
<1>9. iter' <= size' BY <1>1, <1>2, <1>3, <1>5, <1>6
<1> QED BY <1>5, <1>6, <1>7, <1>8, <1>9 DEF KrylovInv

-----------------------------------------------------------------------------
\* The iterations counted, at every place.
EndsInv ==
    /\ Accounted
    /\ pc = "call" => result.iterations = 0
    /\ pc = "loop" => KrylovInv
    /\ pc \in {"measure", "returned"} => result.iterations <= size

LEMMA EndsStep ==
    ASSUME FieldLaws, InnerProductIsLinear, NormOfOrigin, EndsInv, [Next]_vars
    PROVE  EndsInv'
<1>0. Accounted /\ Accounted' BY StepAccounted DEF EndsInv
<1>1. pc = "loop" => /\ KrylovInv /\ iter < size /\ iter \in Nat /\ size \in Nat
                     /\ result.iterations = iter
  <2> SUFFICES ASSUME pc = "loop" PROVE KrylovInv /\ iter < size /\ iter \in Nat /\ size \in Nat
                                       /\ result.iterations = iter
    OBVIOUS
  <2>1. KrylovInv BY DEF EndsInv
  <2>2. iter < size BY <1>0, <2>1, OrderNotUsedUp
  <2>3. A \in Matrices /\ size = A.rows /\ iter \in Nat
    BY <1>0, Sized DEF Accounted, Working
  <2> QED BY <2>1, <2>2, <2>3, OperatorAssumption DEF KrylovInv
<1>2. request' = request /\ size' = size
  <2>1. request' = request
    BY DEF Next, Step, Iterate, Refuse, AlreadySolved, Begin, OutOfIterations, RhoBreaks,
       AlphaBreaks, EarlyExit, TBreaks, OmegaBreaks, Converge, Continue, Break, Measure,
       Finished, vars
  <2> QED BY <2>1 DEF size, A
<1>3. CASE Refuse BY <1>0, <1>3 DEF Refuse, EndsInv
<1>4. CASE AlreadySolved
  <2>1. 0 <= size
    <3>1. A \in Matrices /\ size = A.rows BY <1>0, <1>4, Sized DEF Accounted, AlreadySolved
    <3> QED BY <3>1, OperatorAssumption
  <2> QED BY <1>0, <1>2, <1>4, <2>1 DEF AlreadySolved, Return, EndsInv
<1>5. CASE Begin
  <2>1. KrylovInv' BY <1>0, <1>5, StartTraced DEF EndsInv, Begin
  <2> QED BY <1>0, <1>5, <2>1 DEF Begin, EndsInv
<1>6. CASE OutOfIterations
  BY <1>0, <1>1, <1>2, <1>6 DEF OutOfIterations, EndsInv
<1>7. ASSUME pc = "loop", Break PROVE EndsInv'
  <2>1. result'.iterations = iter + 1
    <3>1. result' = [result EXCEPT !.iterations = iter + 1] BY <1>7 DEF Break
    <3> QED BY <3>1, <1>0, <1>7, <1>1
  <2> QED BY <1>0, <1>1, <1>2, <1>7, <2>1 DEF Break, EndsInv
<1>8. CASE RhoBreaks \/ AlphaBreaks \/ TBreaks \/ OmegaBreaks
  BY <1>7, <1>8 DEF RhoBreaks, AlphaBreaks, TBreaks, OmegaBreaks, HalfDone, Whole, Iterating
<1>9. CASE EarlyExit \/ Converge
  <2>1. pc = "loop" /\ pc' = "returned" /\ result'.iterations = iter + 1
    BY <1>9 DEF EarlyExit, Converge, Whole, HalfDone, Iterating, Return
  <2> QED BY <1>0, <1>1, <1>2, <2>1 DEF EndsInv
<1>10. CASE Continue
  <2>1. pc = "loop" /\ pc' = "loop"
    BY <1>10 DEF Continue, Whole, HalfDone, Iterating
  <2>2. KrylovInv' BY <1>0, <1>1, <1>10, <2>1, ContinueTraced
  <2> QED BY <1>0, <2>1, <2>2 DEF EndsInv
<1>11. CASE Measure
  <2>1. pc = "measure" /\ pc' = "returned" /\ result'.iterations = result.iterations
    BY <1>11 DEF Measure, Return
  <2> QED BY <1>0, <1>2, <2>1 DEF EndsInv
<1>12. CASE Finished \/ UNCHANGED vars
  <2>1. UNCHANGED vars BY <1>12 DEF Finished
  <2>2. KrylovInv' <=> KrylovInv
    BY <2>1 DEF vars, work, KrylovInv, A, size
  <2> QED BY <1>0, <1>2, <2>1, <2>2 DEF vars, work, EndsInv
<1> QED BY <1>3, <1>4, <1>5, <1>6, <1>8, <1>9, <1>10, <1>11, <1>12 DEF Next, Step, Iterate

\* Without rounding a solve of order n is over in n iterations, by convergence
\* or by a breakdown, over every field, for every matrix and whatever breakdowns
\* are met: the recurrences keep the residual out of sight of what the shadow
\* residual spans, until nothing is left of it (EndsWithinDimension).
THEOREM SolvesEndWithinDimension ==
    ASSUME FieldLaws, InnerProductIsLinear, NormOfOrigin
    PROVE  Spec => []EndsWithinDimension
<1>1. Init => EndsInv
  <2> SUFFICES ASSUME Init PROVE EndsInv OBVIOUS
  <2>1. Accounted BY StartAccounted
  <2> QED BY <2>1 DEF Init, EndsInv
<1>2. EndsInv /\ [Next]_vars => EndsInv' BY EndsStep
<1>3. EndsInv => EndsWithinDimension
  BY DEF EndsInv, EndsWithinDimension, KrylovInv
<1> QED BY <1>1, <1>2, <1>3, PTL DEF Spec
=============================================================================
