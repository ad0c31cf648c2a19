------------------------------ MODULE PdProofs ------------------------------
(***************************************************************************)
(* Proofs about the first-order solvers: the types of their state, what an *)
(* Optimal answer satisfies whatever the model and however long the loop   *)
(* ran, the steps, which matrices a QP may have, and how far from the      *)
(* optimum an Optimal answer can be.                                       *)
(***************************************************************************)
EXTENDS PdProperties, FiniteSetTheorems, TLAPS

Add(a, b) == a + b
Sum == INSTANCE FoldTheory WITH Typ <- Int, Op <- Add, Base <- 0
Top == INSTANCE FoldTheory WITH Typ <- Int, Op <- Larger, Base <- 0

-----------------------------------------------------------------------------
(* Arithmetic.                                                             *)
LEMMA FinitenessIsOne ==
    \A S : /\ Sum!IsFiniteSet(S) <=> IsFiniteSet(S)
           /\ Top!IsFiniteSet(S) <=> IsFiniteSet(S)
           /\ Sum!Cardinality(S) = Cardinality(S)
BY DEF IsFiniteSet, Sum!IsFiniteSet, Top!IsFiniteSet, Cardinality, Sum!Cardinality

LEMMA SumAdds == Sum!Adds
BY DEF Sum!Adds, Add

LEMMA TopMaximises == Top!Maximises
BY DEF Top!Maximises, Larger

LEMMA TotalIsSum == \A f : Total(f) = Sum!Over(f, DOMAIN f)
BY DEF Total, Sum!Over, FoldFunction, FoldFunctionOnSet, MapThenFoldSet, Add,
       Sum!FoldFunctionOnSet, Sum!MapThenFoldSet

LEMMA LargestIsTop == \A f : Largest(f) = Top!Over(f, DOMAIN f)
BY DEF Largest, Top!Over, FoldFunction, FoldFunctionOnSet, MapThenFoldSet,
       Top!FoldFunctionOnSet, Top!MapThenFoldSet

LEMMA TotalType ==
    ASSUME NEW f, IsFiniteSet(DOMAIN f), \A i \in DOMAIN f : f[i] \in Int
    PROVE  Total(f) \in Int
<1> DEFINE S == DOMAIN f
<1>1. IsFiniteSet(S) /\ \A i \in S : f[i] \in Int OBVIOUS
<1> HIDE DEF S
<1>2. Sum!Over(f, S) \in Int BY <1>1, FinitenessIsOne, SumAdds, Sum!SumType
<1> QED BY <1>2, TotalIsSum DEF S

LEMMA LargestFacts ==
    ASSUME NEW f, IsFiniteSet(DOMAIN f), \A i \in DOMAIN f : f[i] \in Int
    PROVE  Largest(f) \in Nat /\ \A i \in DOMAIN f : f[i] <= Largest(f)
<1> DEFINE S == DOMAIN f
<1>1. IsFiniteSet(S) /\ \A i \in S : f[i] \in Int OBVIOUS
<1> HIDE DEF S
<1>2. Top!Over(f, S) \in Nat BY <1>1, FinitenessIsOne, TopMaximises, Top!MaximumType
<1>3. \A i \in S : f[i] <= Top!Over(f, S) BY <1>1, FinitenessIsOne, TopMaximises, Top!MaximumIsAbove
<1> QED BY <1>2, <1>3, LargestIsTop DEF S

LEMMA ProductType == \A a, b \in Int : Product(a, b) \in Int
BY GridAssumption DEF Product

\* A product is off by half a step at most.
LEMMA ProductIsNear ==
    \A a, b \in Int : /\ Unit * Product(a, b) <= a * b + Unit
                      /\ a * b <= Unit * Product(a, b) + Unit
<1> SUFFICES ASSUME NEW a \in Int, NEW b \in Int
             PROVE  /\ Unit * Product(a, b) <= a * b + Unit
                    /\ a * b <= Unit * Product(a, b) + Unit
  OBVIOUS
<1> DEFINE z == a * b
           h == Unit \div 2
<1>1. z \in Int /\ h \in Int /\ 0 <= h /\ 2 * h <= Unit BY GridAssumption
<1> HIDE DEF z, h
<1>2. \A n \in Int : Unit * (n \div Unit) <= n /\ n < Unit * (n \div Unit) + Unit
  BY GridAssumption
<1>3. z + h \in Int BY <1>1
<1>4. Unit * ((z + h) \div Unit) <= z + h /\ z + h < Unit * ((z + h) \div Unit) + Unit
  BY <1>2, <1>3
<1>5. (z + h) \div Unit \in Int /\ Unit \in Nat /\ Unit # 0 BY <1>3, GridAssumption
<1>6. Product(a, b) = (z + h) \div Unit BY DEF Product, z, h
<1> DEFINE u == Unit * Product(a, b)
<1>7. u \in Int BY <1>5, <1>6
<1>8. u <= z + h /\ z + h < u + Unit BY <1>4, <1>6
<1> HIDE DEF u
<1>9. u <= z + Unit /\ z <= u + Unit BY <1>1, <1>5, <1>7, <1>8
<1> QED BY <1>9 DEF u, z

LEMMA QuotientType == \A a \in Int : \A b \in Nat \ {0} : Quotient(a, b) \in Int
BY GridAssumption DEF Quotient

LEMMA ClampFacts ==
    \A a, lo, hi \in Int : /\ Clamp(a, lo, hi) \in Int
                           /\ lo <= hi => lo <= Clamp(a, lo, hi) /\ Clamp(a, lo, hi) <= hi
BY DEF Clamp

LEMMA MagnitudeType == \A a \in Int : Magnitude(a) \in Nat
BY DEF Magnitude

LEMMA ProjectType ==
    ASSUME NEW S, NEW f \in [S -> Int], NEW lower \in [S -> Int], NEW upper \in [S -> Int]
    PROVE  Project(f, lower, upper) \in [S -> Int]
BY ClampFacts DEF Project

LEMMA NormInfType ==
    ASSUME NEW S, IsFiniteSet(S), NEW f \in [S -> Int]
    PROVE  NormInf(f) \in Nat /\ \A i \in S : Magnitude(f[i]) <= NormInf(f)
<1> DEFINE g == [i \in DOMAIN f |-> Magnitude(f[i])]
<1>1. DOMAIN g = S /\ \A i \in S : g[i] = Magnitude(f[i]) /\ g[i] \in Int BY MagnitudeType
<1> HIDE DEF g
<1>2. Largest(g) \in Nat /\ \A i \in S : g[i] <= Largest(g) BY <1>1, LargestFacts
<1> QED BY <1>1, <1>2 DEF NormInf, g

-----------------------------------------------------------------------------
(* Models and what is computed from them.                                  *)
Lists(S) == [S -> Int]
Matrix(R, C) == [R -> [C -> Int]]

LEMMA IntervalsAreFinite ==
    ASSUME NEW n \in Nat
    PROVE  IsFiniteSet(1 .. n)
<1>1. 1 \in Int /\ n \in Int OBVIOUS
<1> QED BY <1>1, FS_Interval, Zenon

LEMMA ModelFacts ==
    ASSUME NEW m, IsModel(m)
    PROVE  /\ ColumnsOf(m) = 1 .. Len(m.linear) /\ IsFiniteSet(ColumnsOf(m))
           /\ Len(m.linear) \in Nat /\ IsFiniteSet(RowsOf(m))
           /\ m.linear \in Lists(ColumnsOf(m)) /\ m.offset \in Int
           /\ m.lower \in Lists(ColumnsOf(m)) /\ m.upper \in Lists(ColumnsOf(m))
           /\ m.quadratic \in [ColumnsOf(m) \X ColumnsOf(m) -> Int]
           /\ \A r \in RowsOf(m) : /\ m.rows[r].coefficients \in Lists(ColumnsOf(m))
                                   /\ m.rows[r].lower \in Int /\ m.rows[r].upper \in Int
           /\ Coefficients(m) \in Matrix(RowsOf(m), ColumnsOf(m))
           /\ \A r \in RowsOf(m) : \A v \in ColumnsOf(m) : m.rows[r].coefficients[v] \in Int
<1>1. Len(m.linear) \in Nat /\ ColumnsOf(m) = 1 .. Len(m.linear)
  BY DEF IsModel, ColumnsOf
<1>2. Len(m.rows) \in Nat /\ RowsOf(m) = 1 .. Len(m.rows) BY DEF IsModel, RowsOf
<1>3. IsFiniteSet(ColumnsOf(m)) /\ IsFiniteSet(RowsOf(m))
  <2> QED BY <1>1, <1>2, IntervalsAreFinite
<1>4. m.linear \in Lists(ColumnsOf(m)) BY DEF IsModel, ColumnsOf, Lists
<1>5. \A r \in RowsOf(m) :
          m.rows[r] \in [coefficients : [1 .. Len(m.linear) -> Int], lower : Int, upper : Int]
  <2> DEFINE T == [coefficients : [1 .. Len(m.linear) -> Int], lower : Int, upper : Int]
  <2>1. m.rows \in Seq(T) BY DEF IsModel
  <2> HIDE DEF T
  <2>2. \A r \in DOMAIN m.rows : m.rows[r] \in T BY <2>1
  <2> QED BY <2>2 DEF RowsOf, T
<1>6. \A r \in RowsOf(m) : /\ m.rows[r].coefficients \in Lists(ColumnsOf(m))
                           /\ m.rows[r].lower \in Int /\ m.rows[r].upper \in Int
  BY <1>1, <1>5 DEF Lists
<1>7. Coefficients(m) \in Matrix(RowsOf(m), ColumnsOf(m))
  BY <1>6 DEF Coefficients, Matrix, Lists
<1>8. ASSUME NEW r \in RowsOf(m), NEW v \in ColumnsOf(m)
      PROVE  m.rows[r].coefficients[v] \in Int
  <2>1. m.rows[r].coefficients \in [ColumnsOf(m) -> Int] BY <1>6 DEF Lists
  <2> QED BY <2>1
<1> QED BY <1>1, <1>3, <1>4, <1>6, <1>7, <1>8 DEF IsModel, Lists

LEMMA TimesType ==
    ASSUME NEW S, IsFiniteSet(S), NEW f \in Lists(S), NEW g \in Lists(S)
    PROVE  Times(f, g) \in Int
<1> DEFINE t == [i \in DOMAIN f |-> Product(f[i], g[i])]
<1>1. DOMAIN t = S /\ \A i \in S : t[i] \in Int BY ProductType DEF Lists
<1> HIDE DEF t
<1>2. Total(t) \in Int BY <1>1, TotalType
<1> QED BY <1>2 DEF Times, t

LEMMA RowValuesType ==
    ASSUME NEW m, IsModel(m), NEW matrix \in Matrix(RowsOf(m), ColumnsOf(m)),
           NEW point \in Lists(ColumnsOf(m))
    PROVE  RowValues(m, matrix, point) \in Lists(RowsOf(m))
<1>1. \A r \in RowsOf(m) : matrix[r] \in Lists(ColumnsOf(m)) BY DEF Matrix, Lists
<1>2. \A r \in RowsOf(m) : Times(matrix[r], point) \in Int BY <1>1, ModelFacts, TimesType
<1> QED BY <1>2 DEF RowValues, Lists

LEMMA CurvedType ==
    ASSUME NEW m, IsModel(m), NEW quadratic \in [ColumnsOf(m) \X ColumnsOf(m) -> Int],
           NEW point \in Lists(ColumnsOf(m))
    PROVE  Curved(m, quadratic, point) \in Lists(ColumnsOf(m))
<1>1. ASSUME NEW v \in ColumnsOf(m)
      PROVE  Total([w \in ColumnsOf(m) |-> Product(quadratic[<<v, w>>], point[w])]) \in Int
  <2> DEFINE t == [w \in ColumnsOf(m) |-> Product(quadratic[<<v, w>>], point[w])]
  <2>1. DOMAIN t = ColumnsOf(m) /\ \A w \in ColumnsOf(m) : t[w] \in Int
    BY ProductType DEF Lists
  <2> HIDE DEF t
  <2>2. Total(t) \in Int BY <2>1, ModelFacts, TotalType
  <2> QED BY <2>2 DEF t
<1> QED BY <1>1 DEF Curved, Lists

LEMMA TransposedType ==
    ASSUME NEW m, IsModel(m), NEW matrix \in Matrix(RowsOf(m), ColumnsOf(m)),
           NEW dual \in Lists(RowsOf(m))
    PROVE  Transposed(m, matrix, dual) \in Lists(ColumnsOf(m))
<1>1. ASSUME NEW v \in ColumnsOf(m)
      PROVE  Total([r \in RowsOf(m) |-> Product(matrix[r][v], dual[r])]) \in Int
  <2> DEFINE t == [r \in RowsOf(m) |-> Product(matrix[r][v], dual[r])]
  <2>1. DOMAIN t = RowsOf(m) /\ \A r \in RowsOf(m) : t[r] \in Int
    BY ProductType DEF Lists, Matrix
  <2> HIDE DEF t
  <2>2. Total(t) \in Int BY <2>1, ModelFacts, TotalType
  <2> QED BY <2>2 DEF t
<1> QED BY <1>1 DEF Transposed, Lists

LEMMA GradientType ==
    ASSUME NEW m, IsModel(m), NEW linear \in Lists(ColumnsOf(m)),
           NEW quadratic \in [ColumnsOf(m) \X ColumnsOf(m) -> Int],
           NEW matrix \in Matrix(RowsOf(m), ColumnsOf(m)),
           NEW point \in Lists(ColumnsOf(m)), NEW dual \in Lists(RowsOf(m))
    PROVE  Gradient(m, linear, quadratic, matrix, point, dual) \in Lists(ColumnsOf(m))
<1>1. Curved(m, quadratic, point) \in Lists(ColumnsOf(m)) BY CurvedType
<1>2. Transposed(m, matrix, dual) \in Lists(ColumnsOf(m)) BY TransposedType
<1> HIDE DEF Curved, Transposed
<1> QED BY <1>1, <1>2 DEF Gradient, Lists

\* The square root exists, and is what its name says.
LEMMA SquareRootFacts ==
    ASSUME NEW a \in Nat
    PROVE  /\ SquareRoot(a) \in Nat
           /\ SquareRoot(a) * SquareRoot(a) <= a
           /\ a < (SquareRoot(a) + 1) * (SquareRoot(a) + 1)
<1> DEFINE Root(b, r) == r * r <= b /\ b < (r + 1) * (r + 1)
           Good == {b \in Nat : \E r \in 0 .. b + 1 : Root(b, r)}
<1>1. 0 \in Good
  <2>1. 0 \in 0 .. 0 + 1 /\ Root(0, 0) OBVIOUS
  <2> QED BY <2>1
<1>2. ASSUME NEW b \in Nat, b \in Good PROVE b + 1 \in Good
  <2>1. PICK r \in 0 .. b + 1 : Root(b, r) BY <1>2
  <2>2. r \in Nat /\ r \in 0 .. (b + 1) + 1 OBVIOUS
  <2>3. CASE b + 1 < (r + 1) * (r + 1)
    <3>1. Root(b + 1, r) BY <2>1, <2>2, <2>3
    <3> QED BY <2>2, <3>1
  <2>4. CASE ~(b + 1 < (r + 1) * (r + 1))
    <3>1. b + 1 = (r + 1) * (r + 1) BY <2>1, <2>2, <2>4
    <3>2. (r + 1) * (r + 1) < (r + 2) * (r + 2) BY <2>2
    <3>3. Root(b + 1, r + 1) BY <2>2, <3>1, <3>2
    <3>4. r + 1 \in 0 .. (b + 1) + 1 BY <2>2
    <3>5. \E q \in 0 .. (b + 1) + 1 : Root(b + 1, q)
      <4> HIDE DEF Root
      <4> QED BY <3>3, <3>4
    <3> QED BY <3>5
  <2> QED BY <2>3, <2>4
<1>3. a \in Good
  <2> HIDE DEF Good
  <2> QED BY <1>1, <1>2, Sum!NumberInduction
<1>4. \E r \in 0 .. a + 1 : r * r <= a /\ a < (r + 1) * (r + 1) BY <1>3
<1>5. /\ SquareRoot(a) \in 0 .. a + 1
      /\ SquareRoot(a) * SquareRoot(a) <= a
      /\ a < (SquareRoot(a) + 1) * (SquareRoot(a) + 1)
  BY <1>4 DEF SquareRoot
<1> QED BY <1>5

-----------------------------------------------------------------------------
(* The scaled model.                                                       *)
LEMMA SequenceIsList ==
    ASSUME NEW s \in Seq(Int), NEW n \in Nat, Len(s) = n
    PROVE  s \in [1 .. n -> Int]
OBVIOUS

LEMMA BoundsType ==
    ASSUME NEW q, IsCall(q), BoundsCopied(q)
    PROVE  /\ LowerBounds(q) \in Lists(ColumnsOf(q.model))
           /\ UpperBounds(q) \in Lists(ColumnsOf(q.model))
           /\ \A v \in ColumnsOf(q.model) : LowerBounds(q)[v] <= UpperBounds(q)[v]
<1> DEFINE n == Len(q.model.linear)
<1>1. /\ ColumnsOf(q.model) = 1 .. n /\ n \in Nat
      /\ q.model.lower \in Lists(1 .. n) /\ q.model.upper \in Lists(1 .. n)
  BY ModelFacts DEF IsCall
<1>2. q.lower \in Seq(Int) /\ q.upper \in Seq(Int) BY DEF IsCall
<1>3. /\ q.lower # <<>> => Len(q.lower) = n
      /\ q.upper # <<>> => Len(q.upper) = n
  BY DEF BoundsCopied, Sized
<1> HIDE DEF n
<1>4. /\ q.lower # <<>> => q.lower \in Lists(1 .. n)
      /\ q.upper # <<>> => q.upper \in Lists(1 .. n)
  BY <1>1, <1>2, <1>3, SequenceIsList DEF Lists
<1> QED BY <1>1, <1>4 DEF LowerBounds, UpperBounds, BoundsCopied

LEMMA DivisionFacts ==
    \A a \in Nat : \A b \in Nat \ {0} : /\ a \div b \in Nat
                                        /\ (a \div b) * b <= a
                                        /\ b <= a => 1 <= a \div b
OBVIOUS

LEMMA ScaleType ==
    ASSUME NEW a \in Nat, a <= Unit * Unit
    PROVE  Scale(a) \in Nat \ {0}
<1>1. Unit \in Nat \ {0} /\ Unit * Unit \in Nat BY GridAssumption
<1>2. CASE a > Unit
  <2>1. a \in Nat \ {0} BY <1>1, <1>2
  <2>2. (Unit * Unit) \div a \in Nat /\ 1 <= (Unit * Unit) \div a
    BY <1>1, <2>1, DivisionFacts
  <2> QED BY <1>2, <2>2 DEF Scale, Quotient
<1>3. CASE ~(a > Unit) BY <1>1, <1>3 DEF Scale
<1> QED BY <1>2, <1>3

LEMMA NormInfIsLeast ==
    ASSUME NEW S, IsFiniteSet(S), NEW f \in Lists(S), NEW c \in Nat,
           \A i \in S : Magnitude(f[i]) <= c
    PROVE  NormInf(f) <= c
<1> DEFINE g == [i \in DOMAIN f |-> Magnitude(f[i])]
<1>1. DOMAIN g = S /\ \A i \in S : g[i] \in Int /\ g[i] <= c BY MagnitudeType DEF Lists
<1> HIDE DEF g
<1>2. Top!Over(g, S) <= c BY <1>1, FinitenessIsOne, TopMaximises, Top!MaximumIsLeast
<1> QED BY <1>1, <1>2, LargestIsTop DEF NormInf, g

LEMMA ScalesType ==
    ASSUME NEW m, IsModel(m), Scalable(m)
    PROVE  /\ RowScale(m) \in [RowsOf(m) -> Nat \ {0}]
           /\ ColumnScale(m) \in [ColumnsOf(m) -> Nat \ {0}]
<1>0. Unit * Unit \in Nat BY GridAssumption
<1>1. ASSUME NEW r \in RowsOf(m) PROVE Scale(NormInf(m.rows[r].coefficients)) \in Nat \ {0}
  <2>1. m.rows[r].coefficients \in Lists(ColumnsOf(m)) /\ IsFiniteSet(ColumnsOf(m))
    BY ModelFacts
  <2>2. NormInf(m.rows[r].coefficients) \in Nat BY <2>1, NormInfType DEF Lists
  <2>3. NormInf(m.rows[r].coefficients) <= Unit * Unit
    BY <1>0, <2>1, NormInfIsLeast DEF Scalable
  <2> QED BY <2>2, <2>3, ScaleType
<1>2. ASSUME NEW v \in ColumnsOf(m)
      PROVE  Scale(NormInf([r \in RowsOf(m) |-> m.rows[r].coefficients[v]])) \in Nat \ {0}
  <2> DEFINE f == [r \in RowsOf(m) |-> m.rows[r].coefficients[v]]
  <2>0. \A r \in RowsOf(m) : m.rows[r].coefficients[v] \in Int BY ModelFacts
  <2>1. f \in Lists(RowsOf(m)) /\ IsFiniteSet(RowsOf(m)) BY <2>0, ModelFacts DEF Lists
  <2>2. \A r \in RowsOf(m) : Magnitude(f[r]) <= Unit * Unit BY DEF Scalable
  <2> HIDE DEF f
  <2>3. NormInf(f) \in Nat BY <2>1, NormInfType DEF Lists
  <2>4. NormInf(f) <= Unit * Unit BY <1>0, <2>1, <2>2, NormInfIsLeast
  <2>5. Scale(NormInf(f)) \in Nat \ {0} BY <2>3, <2>4, ScaleType
  <2> QED BY <2>5 DEF f
<1> QED BY <1>1, <1>2 DEF RowScale, ColumnScale

RowSum(m, matrix, r) == Total([v \in ColumnsOf(m) |-> Magnitude(matrix[r][v])])
ColumnSum(m, matrix, v) == Total([r \in RowsOf(m) |-> Magnitude(matrix[r][v])])

\* The largest row sum times the largest column sum, and the root of it.
LEMMA OperatorBoundFacts ==
    ASSUME NEW m, IsModel(m), NEW matrix \in Matrix(RowsOf(m), ColumnsOf(m))
    PROVE  /\ OperatorBound(m, matrix) \in Nat
           /\ \E rho, gamma \in Nat :
                 /\ \A r \in RowsOf(m) : RowSum(m, matrix, r) <= rho
                 /\ \A v \in ColumnsOf(m) : ColumnSum(m, matrix, v) <= gamma
                 /\ rho * gamma < (OperatorBound(m, matrix) + 1) * (OperatorBound(m, matrix) + 1)
<1> DEFINE R == RowsOf(m)
           C == ColumnsOf(m)
           rows == [r \in R |-> RowSum(m, matrix, r)]
           columns == [v \in C |-> ColumnSum(m, matrix, v)]
<1>1. IsFiniteSet(R) /\ IsFiniteSet(C) BY ModelFacts
<1>2. ASSUME NEW r \in R PROVE RowSum(m, matrix, r) \in Int
  <2> DEFINE f == [v \in C |-> Magnitude(matrix[r][v])]
  <2>1. DOMAIN f = C /\ \A v \in C : f[v] \in Int BY MagnitudeType DEF Matrix
  <2> HIDE DEF f
  <2>2. Total(f) \in Int BY <1>1, <2>1, TotalType
  <2> QED BY <2>2 DEF f, RowSum
<1>3. ASSUME NEW v \in C PROVE ColumnSum(m, matrix, v) \in Int
  <2> DEFINE f == [r \in R |-> Magnitude(matrix[r][v])]
  <2>1. DOMAIN f = R /\ \A r \in R : f[r] \in Int BY MagnitudeType DEF Matrix
  <2> HIDE DEF f
  <2>2. Total(f) \in Int BY <1>1, <2>1, TotalType
  <2> QED BY <2>2 DEF f, ColumnSum
<1>4. /\ DOMAIN rows = R /\ \A r \in R : rows[r] \in Int /\ rows[r] = RowSum(m, matrix, r)
      /\ DOMAIN columns = C
      /\ \A v \in C : columns[v] \in Int /\ columns[v] = ColumnSum(m, matrix, v)
  BY <1>2, <1>3
<1>5. OperatorBound(m, matrix) = SquareRoot(Largest(rows) * Largest(columns))
  BY DEF OperatorBound, RowSum, ColumnSum
<1> HIDE DEF rows, columns
<1>6. /\ Largest(rows) \in Nat /\ \A r \in R : RowSum(m, matrix, r) <= Largest(rows)
      /\ Largest(columns) \in Nat /\ \A v \in C : ColumnSum(m, matrix, v) <= Largest(columns)
  BY <1>1, <1>4, LargestFacts
<1>7. Largest(rows) * Largest(columns) \in Nat BY <1>6
<1>8. /\ OperatorBound(m, matrix) \in Nat
      /\ Largest(rows) * Largest(columns)
            < (OperatorBound(m, matrix) + 1) * (OperatorBound(m, matrix) + 1)
  BY <1>5, <1>7, SquareRootFacts
<1> QED BY <1>6, <1>8

\* What Scaled makes of a model, given bounds in order.
ScaledType(m, s) ==
    /\ s.matrix \in Matrix(RowsOf(m), ColumnsOf(m))
    /\ s.quadratic \in [ColumnsOf(m) \X ColumnsOf(m) -> Int]
    /\ {s.linear, s.lower, s.upper} \subseteq Lists(ColumnsOf(m))
    /\ {s.row_lower, s.row_upper} \subseteq Lists(RowsOf(m))
    /\ s.row_scale \in [RowsOf(m) -> Nat \ {0}]
    /\ s.column_scale \in [ColumnsOf(m) -> Nat \ {0}]
    /\ s.norm \in Nat /\ s.max_step \in Nat

LEMMA ScaleUpDownType ==
    \A a \in Int : \A b \in Nat \ {0} : ScaleUp(a, b) \in Int /\ ScaleDown(a, b) \in Int
<1> SUFFICES ASSUME NEW a \in Int, NEW b \in Nat \ {0}
             PROVE  ScaleUp(a, b) \in Int /\ ScaleDown(a, b) \in Int
  OBVIOUS
<1>1. Product(a, b) \in Int BY ProductType
<1>2. Quotient(a, b) \in Int BY QuotientType
<1> QED BY <1>1, <1>2 DEF ScaleUp, ScaleDown

\* The longest step is at most Safe, and times the bound at most Safe.
LEMMA MaxStepFacts ==
    ASSUME NEW solver, NEW norm \in Nat, NEW q_norm \in Nat
    PROVE  /\ MaxStep(solver, norm, q_norm) \in Nat
           /\ MaxStep(solver, norm, q_norm) <= Safe
           /\ solver = "LP" => MaxStep(solver, norm, q_norm) * norm <= Safe * Unit
<1> DEFINE l == Larger(Unit, IF solver = "LP" THEN norm ELSE Product(norm, norm) + q_norm)
           s == MaxStep(solver, norm, q_norm)
<1>1. Unit \in Nat \ {0} /\ Safe \in Nat /\ Safe * Unit \in Nat
  BY GridAssumption DEF Safe
<1>2. Product(norm, norm) + q_norm \in Int BY ProductType
<1>3. l \in Nat \ {0} /\ Unit <= l BY <1>1, <1>2 DEF Larger
<1>4. solver = "LP" => norm <= l BY <1>1 DEF Larger
<1>5. s = (Safe * Unit) \div l BY DEF MaxStep, Quotient
<1> HIDE DEF l, s
<1>6. s \in Nat /\ s * l <= Safe * Unit BY <1>1, <1>3, <1>5, DivisionFacts
<1>7. s <= Safe
  <2> SUFFICES ASSUME s > Safe PROVE FALSE BY <1>1, <1>6
  <2>1. s * l >= (Safe + 1) * Unit
    <3>1. s >= Safe + 1 BY <1>1, <1>6
    <3>2. s * l >= s * Unit BY <1>1, <1>3, <1>6
    <3>3. s * Unit >= (Safe + 1) * Unit BY <1>1, <1>6, <3>1
    <3> HIDE DEF Safe
    <3> QED BY <1>1, <1>3, <1>6, <3>2, <3>3
  <2>2. (Safe + 1) * Unit = Safe * Unit + Unit BY <1>1
  <2> QED BY <1>1, <1>3, <1>6, <2>1, <2>2
<1>8. ASSUME solver = "LP" PROVE s * norm <= Safe * Unit
  <2>1. s * norm <= s * l BY <1>3, <1>4, <1>6, <1>8
  <2> QED BY <1>1, <1>3, <1>6, <2>1
<1> QED BY <1>6, <1>7, <1>8 DEF s

LEMMA QuadraticBoundType ==
    ASSUME NEW m, IsModel(m), NEW quadratic \in [ColumnsOf(m) \X ColumnsOf(m) -> Int]
    PROVE  QuadraticBound(m, quadratic) \in Nat
<1> DEFINE C == ColumnsOf(m)
           sums == [v \in C |-> Total([w \in C |-> Magnitude(quadratic[<<v, w>>])])]
<1>1. IsFiniteSet(C) BY ModelFacts
<1>2. ASSUME NEW v \in C PROVE Total([w \in C |-> Magnitude(quadratic[<<v, w>>])]) \in Int
  <2> DEFINE f == [w \in C |-> Magnitude(quadratic[<<v, w>>])]
  <2>1. DOMAIN f = C /\ \A w \in C : f[w] \in Int BY MagnitudeType
  <2> HIDE DEF f
  <2>2. Total(f) \in Int BY <1>1, <2>1, TotalType
  <2> QED BY <2>2 DEF f
<1>3. DOMAIN sums = C /\ \A v \in C : sums[v] \in Int BY <1>2
<1> HIDE DEF sums
<1>4. Largest(sums) \in Nat BY <1>1, <1>3, LargestFacts
<1> QED BY <1>4 DEF QuadraticBound, sums

LEMMA ScaledFacts ==
    ASSUME NEW m, IsModel(m), Scalable(m), NEW solver,
           NEW lower \in Lists(ColumnsOf(m)), NEW upper \in Lists(ColumnsOf(m))
    PROVE  /\ ScaledType(m, Scaled(m, solver, lower, upper))
           /\ LET s == Scaled(m, solver, lower, upper) IN
              /\ s.norm = OperatorBound(m, s.matrix)
              /\ s.max_step <= Safe
              /\ solver = "LP" => s.max_step * s.norm <= Safe * Unit
<1> DEFINE R == RowsOf(m)
           C == ColumnsOf(m)
           rs == RowScale(m)
           cs == ColumnScale(m)
           s == Scaled(m, solver, lower, upper)
<1>1. rs \in [R -> Nat \ {0}] /\ cs \in [C -> Nat \ {0}] BY ScalesType
<1>2. s.row_scale = rs /\ s.column_scale = cs BY DEF Scaled
<1> HIDE DEF rs, cs
<1>3. s.matrix \in Matrix(R, C)
  <2>1. s.matrix = [r \in R |-> [v \in C |->
                       Product(Product(m.rows[r].coefficients[v], rs[r]), cs[v])]]
    BY DEF Scaled, rs, cs
  <2>2. ASSUME NEW r \in R, NEW v \in C
        PROVE  Product(Product(m.rows[r].coefficients[v], rs[r]), cs[v]) \in Int
    <3>1. m.rows[r].coefficients[v] \in Int BY ModelFacts
    <3>2. rs[r] \in Int /\ cs[v] \in Int BY <1>1
    <3>3. Product(m.rows[r].coefficients[v], rs[r]) \in Int BY <3>1, <3>2, ProductType
    <3> QED BY <3>2, <3>3, ProductType
  <2> QED BY <2>1, <2>2 DEF Matrix
<1>4. s.quadratic \in [C \X C -> Int]
  <2>1. s.quadratic = [e \in C \X C |-> Product(Product(m.quadratic[e], cs[e[1]]), cs[e[2]])]
    BY ModelFacts DEF Scaled, cs
  <2>2. ASSUME NEW e \in C \X C
        PROVE  Product(Product(m.quadratic[e], cs[e[1]]), cs[e[2]]) \in Int
    <3>1. m.quadratic[e] \in Int BY ModelFacts
    <3>2. cs[e[1]] \in Int /\ cs[e[2]] \in Int BY <1>1
    <3>3. Product(m.quadratic[e], cs[e[1]]) \in Int BY <3>1, <3>2, ProductType
    <3> QED BY <3>2, <3>3, ProductType
  <2> QED BY <2>1, <2>2
<1>5. s.linear \in Lists(C) /\ s.lower \in Lists(C) /\ s.upper \in Lists(C)
  <2>1. /\ s.linear = [v \in C |-> Product(m.linear[v], cs[v])]
        /\ s.lower = [v \in C |-> ScaleDown(lower[v], cs[v])]
        /\ s.upper = [v \in C |-> ScaleDown(upper[v], cs[v])]
    BY DEF Scaled, cs
  <2>2. ASSUME NEW v \in C
        PROVE  /\ Product(m.linear[v], cs[v]) \in Int
               /\ ScaleDown(lower[v], cs[v]) \in Int
               /\ ScaleDown(upper[v], cs[v]) \in Int
    <3>1. m.linear \in [C -> Int] /\ cs[v] \in Nat \ {0} BY <1>1, ModelFacts DEF Lists
    <3>2. m.linear[v] \in Int /\ lower[v] \in Int /\ upper[v] \in Int BY <3>1 DEF Lists
    <3>3. cs[v] \in Int BY <3>1
    <3>4. Product(m.linear[v], cs[v]) \in Int BY <3>2, <3>3, ProductType
    <3> QED BY <3>1, <3>2, <3>4, ScaleUpDownType
  <2> QED BY <2>1, <2>2 DEF Lists
<1>6. s.row_lower \in Lists(R) /\ s.row_upper \in Lists(R)
  <2>1. /\ s.row_lower = [r \in R |-> ScaleUp(m.rows[r].lower, rs[r])]
        /\ s.row_upper = [r \in R |-> ScaleUp(m.rows[r].upper, rs[r])]
    BY DEF Scaled, rs
  <2>2. \A r \in R : /\ ScaleUp(m.rows[r].lower, rs[r]) \in Int
                     /\ ScaleUp(m.rows[r].upper, rs[r]) \in Int
    BY <1>1, ModelFacts, ScaleUpDownType
  <2> QED BY <2>1, <2>2 DEF Lists
<1>7. /\ s.norm = OperatorBound(m, s.matrix)
      /\ s.max_step = MaxStep(solver, s.norm, QuadraticBound(m, s.quadratic))
  BY DEF Scaled
<1> HIDE DEF s
<1>8. s.norm \in Nat /\ QuadraticBound(m, s.quadratic) \in Nat
  BY <1>3, <1>4, <1>7, OperatorBoundFacts, QuadraticBoundType
<1>9. /\ s.max_step \in Nat /\ s.max_step <= Safe
      /\ solver = "LP" => s.max_step * s.norm <= Safe * Unit
  BY <1>7, <1>8, MaxStepFacts
<1>10. ScaledType(m, s)
  BY <1>1, <1>2, <1>3, <1>4, <1>5, <1>6, <1>8, <1>9 DEF ScaledType
<1> QED BY <1>7, <1>9, <1>10 DEF s

-----------------------------------------------------------------------------
(* The invariant: what the state is in every phase of a call.              *)
ScaledOf(q) == Scaled(q.model, q.solver, LowerBounds(q), UpperBounds(q))
Working ==
    /\ Refusal(request) = "NotSolved"
    /\ scaled = ScaledOf(request)
    /\ x \in Lists(ColumnsOf(model)) /\ y \in Lists(RowsOf(model))
    /\ tau \in Nat /\ sigma = tau /\ tau <= scaled.max_step
    /\ status \in {"NotSolved", "TimeLimit", "Optimal"}
\* The answer is computed from a point and multipliers of the right size.
Answered ==
    \E p \in Lists(ColumnsOf(model)), d \in Lists(RowsOf(model)) :
        result = Answer(request, p, d)
Outcome ==
    \/ /\ Refusal(request) # "NotSolved" /\ status = Refusal(request)
    \/ /\ Refusal(request) = "NotSolved" /\ Answered
       /\ status \in {"IterationLimit", "TimeLimit", "Optimal", "NumericalFailure"}
       /\ status = "Optimal" => WithinTolerances(result)
PdInv ==
    /\ request \in Requests
    /\ pc \in {"call", "loop", "report", "returned"}
    /\ iter \in 0 .. IterationLimit
    /\ pc = "call" => status = "NotSolved"
    /\ pc = "loop" => status = "NotSolved"
    /\ pc \in {"loop", "report"} => Working
    /\ pc = "returned" => Outcome

LEMMA RequestFacts ==
    ASSUME NEW q \in Requests, Refusal(q) = "NotSolved"
    PROVE  /\ IsModel(q.model) /\ Scalable(q.model)
           /\ LowerBounds(q) \in Lists(ColumnsOf(q.model))
           /\ UpperBounds(q) \in Lists(ColumnsOf(q.model))
           /\ \A v \in ColumnsOf(q.model) : LowerBounds(q)[v] <= UpperBounds(q)[v]
           /\ ScaledType(q.model, ScaledOf(q))
           /\ Start(q, ScaledOf(q)) \in Lists(ColumnsOf(q.model))
<1>1. IsCall(q) /\ IsModel(q.model) /\ Scalable(q.model)
  BY RequestsAssumption DEF IsCall
<1>2. BoundsCopied(q) /\ Sized(q, q.warm_start) BY DEF Refusal
<1>3. /\ LowerBounds(q) \in Lists(ColumnsOf(q.model))
      /\ UpperBounds(q) \in Lists(ColumnsOf(q.model))
      /\ \A v \in ColumnsOf(q.model) : LowerBounds(q)[v] <= UpperBounds(q)[v]
  BY <1>1, <1>2, BoundsType
<1>4. ScaledType(q.model, ScaledOf(q)) BY <1>1, <1>3, ScaledFacts DEF ScaledOf
<1> DEFINE s == ScaledOf(q)
           C == ColumnsOf(q.model)
<1>5. Start(q, s) \in Lists(C)
  <2> HIDE DEF s
  <2>1. CASE q.warm_start = <<>> BY <2>1 DEF Start, Lists
  <2>2. CASE q.warm_start # <<>>
    <3>1. q.warm_start \in Seq(Int) /\ Len(q.warm_start) = Len(q.model.linear)
      BY <1>1, <1>2, <2>2 DEF IsCall, Sized
    <3>2. Len(q.model.linear) \in Nat /\ C = 1 .. Len(q.model.linear) BY <1>1, ModelFacts
    <3>3. q.warm_start \in [C -> Int] BY <3>1, <3>2, SequenceIsList
    <3>4. s.column_scale \in [C -> Nat \ {0}] BY <1>4 DEF ScaledType, s
    <3>5. \A v \in C : Quotient(q.warm_start[v], s.column_scale[v]) \in Int
      <4> TAKE v \in C
      <4>1. q.warm_start[v] \in Int /\ s.column_scale[v] \in Nat \ {0} BY <3>3, <3>4
      <4> QED BY <4>1, QuotientType
    <3> QED BY <2>2, <3>5 DEF Start, Lists
  <2> QED BY <2>1, <2>2
<1> QED BY <1>1, <1>3, <1>4, <1>5

LEMMA GradientOfScaled ==
    ASSUME PdInv, Working, NEW p \in Lists(ColumnsOf(model)), NEW d \in Lists(RowsOf(model))
    PROVE  ScaledGradient(p, d) \in Lists(ColumnsOf(model))
<1>1. IsModel(model) /\ ScaledType(model, scaled)
  BY RequestFacts DEF PdInv, Working, model
<1> QED BY <1>1, GradientType DEF ScaledGradient, ScaledType

LEMMA NextPointType ==
    ASSUME PdInv, Working
    PROVE  NextPoint \in Lists(ColumnsOf(model))
<1> DEFINE C == ColumnsOf(model)
           g == ScaledGradient(x, y)
           moved == [v \in DOMAIN x |-> x[v] - Product(tau, g[v])]
<1>1. ScaledType(model, scaled) BY RequestFacts DEF PdInv, Working, model
<1>2. g \in [C -> Int] BY GradientOfScaled DEF Working, Lists
<1>3. x \in [C -> Int] /\ tau \in Int BY DEF Working, Lists
<1>4. NextPoint = Project(moved, scaled.lower, scaled.upper) BY DEF NextPoint
<1> HIDE DEF g
<1>5. moved \in [C -> Int]
  <2>1. \A v \in C : x[v] \in Int /\ g[v] \in Int BY <1>2, <1>3
  <2>2. \A v \in C : Product(tau, g[v]) \in Int BY <1>3, <2>1, ProductType
  <2> QED BY <1>3, <2>1, <2>2
<1> HIDE DEF moved
<1>6. scaled.lower \in [C -> Int] /\ scaled.upper \in [C -> Int]
  BY <1>1 DEF ScaledType, Lists
<1> QED BY <1>4, <1>5, <1>6, ProjectType DEF Lists

LEMMA NextDualType ==
    ASSUME PdInv, Working, NEW p \in Lists(ColumnsOf(model))
    PROVE  /\ Extrapolated(p) \in Lists(ColumnsOf(model))
           /\ NextDual(Extrapolated(p)) \in Lists(RowsOf(model))
<1> DEFINE C == ColumnsOf(model)
           R == RowsOf(model)
           bar == Extrapolated(p)
           a == RowValues(model, scaled.matrix, bar)
<1>1. IsModel(model) /\ ScaledType(model, scaled)
  BY RequestFacts DEF PdInv, Working, model
<1>2. p \in [C -> Int] /\ x \in [C -> Int] /\ y \in [R -> Int] /\ sigma \in Nat
  BY DEF Working, Lists
<1>3. bar \in Lists(C) BY <1>2 DEF Extrapolated, Lists
<1> HIDE DEF bar
<1>4. a \in [R -> Int]
  BY <1>1, <1>3, RowValuesType DEF ScaledType, Lists
<1>5. scaled.row_lower \in [R -> Int] /\ scaled.row_upper \in [R -> Int]
  BY <1>1 DEF ScaledType, Lists
<1> HIDE DEF a
<1>6. \A r \in R : /\ y[r] + Product(sigma, a[r]) \in Int
                   /\ ScaleUp(scaled.row_lower[r], sigma) \in Int
                   /\ ScaleUp(scaled.row_upper[r], sigma) \in Int
  <2> TAKE r \in R
  <2>1. /\ y[r] \in Int /\ a[r] \in Int /\ sigma \in Int
        /\ scaled.row_lower[r] \in Int /\ scaled.row_upper[r] \in Int
    BY <1>2, <1>4, <1>5
  <2>2. /\ Product(sigma, a[r]) \in Int
        /\ Product(scaled.row_lower[r], sigma) \in Int
        /\ Product(scaled.row_upper[r], sigma) \in Int
    BY <2>1, ProductType
  <2> QED BY <2>1, <2>2 DEF ScaleUp
<1>7. \A r \in R :
          (y[r] + Product(sigma, a[r]))
            - Clamp(y[r] + Product(sigma, a[r]), ScaleUp(scaled.row_lower[r], sigma),
                                                 ScaleUp(scaled.row_upper[r], sigma)) \in Int
  BY <1>6 DEF Clamp
<1>8. NextDual(bar) \in Lists(R) BY <1>2, <1>7 DEF NextDual, Lists, a
<1> QED BY <1>3, <1>8 DEF bar

LEMMA AdaptKeepsSteps ==
    ASSUME NEW metric, Adapt(metric), tau \in Nat, sigma = tau, scaled.max_step \in Nat,
           tau <= scaled.max_step
    PROVE  tau' \in Nat /\ sigma' = tau' /\ tau' <= scaled.max_step
<1> DEFINE check == iter > 0 /\ iter % CheckInterval = 0
           rise == check /\ 4 * metric > 5 * previous_metric
           fall == check /\ ~rise /\ 10 * metric < previous_metric
<1>1. /\ tau' = IF rise THEN tau \div 2
                ELSE IF fall THEN Smaller((tau * 105) \div 100, scaled.max_step) ELSE tau
      /\ sigma' = IF rise THEN sigma \div 2 ELSE IF fall THEN tau' ELSE sigma
  BY DEF Adapt
<1> HIDE DEF rise, fall
<1>2. tau \div 2 \in Nat /\ tau \div 2 <= tau /\ (tau * 105) \div 100 \in Nat OBVIOUS
<1>3. CASE rise BY <1>1, <1>2, <1>3
<1>4. CASE ~rise /\ fall BY <1>1, <1>2, <1>4 DEF Smaller
<1>5. CASE ~rise /\ ~fall BY <1>1, <1>5
<1> QED BY <1>3, <1>4, <1>5

LEMMA UnscaledType ==
    ASSUME NEW S, NEW f \in Lists(S), NEW scale \in [S -> Nat \ {0}]
    PROVE  Unscaled(f, scale) \in Lists(S)
<1>1. \A i \in S : Product(f[i], scale[i]) \in Int
  <2> TAKE i \in S
  <2>1. f[i] \in Int /\ scale[i] \in Int BY DEF Lists
  <2> QED BY <2>1, ProductType
<1> QED BY <1>1 DEF Unscaled, Lists

LEMMA InitInv == Init => PdInv
BY LimitsAssumption DEF Init, PdInv

LEMMA NextInv == PdInv /\ [Next]_vars => PdInv'
<1> SUFFICES ASSUME PdInv, [Next]_vars PROVE PdInv' OBVIOUS
<1>0. IterationLimit \in Nat BY LimitsAssumption
<1>1. CASE Refuse
  <2>1. status' = Refusal(request) /\ pc' = "returned" /\ request' = request /\ iter' = iter
        /\ Refusal(request) # "NotSolved"
    BY <1>1 DEF Refuse, iterates
  <2>2. Outcome' BY <2>1 DEF Outcome
  <2> QED BY <2>1, <2>2 DEF PdInv
<1>2. CASE Prepare
  <2>1. /\ pc = "call" /\ Refusal(request) = "NotSolved" /\ pc' = "loop" /\ request' = request
        /\ scaled' = ScaledOf(request) /\ iter' = iter /\ status' = status
        /\ x' = Project(Start(request, scaled'), scaled'.lower, scaled'.upper)
        /\ y' = [r \in RowsOf(model) |-> 0]
        /\ tau' = scaled'.max_step /\ sigma' = scaled'.max_step
    BY <1>2 DEF Prepare, ScaledOf, model
  <2>2. /\ ScaledType(model, ScaledOf(request))
        /\ Start(request, ScaledOf(request)) \in Lists(ColumnsOf(model))
    BY <2>1, RequestFacts DEF PdInv, model
  <2>3. x' \in Lists(ColumnsOf(model))
    <3> DEFINE s == ScaledOf(request)
               start == Start(request, s)
    <3>1. start \in [ColumnsOf(model) -> Int] BY <2>2 DEF Lists
    <3>2. s.lower \in [ColumnsOf(model) -> Int] /\ s.upper \in [ColumnsOf(model) -> Int]
      BY <2>2 DEF ScaledType, Lists
    <3>3. x' = Project(start, s.lower, s.upper) BY <2>1
    <3> HIDE DEF s, start
    <3> QED BY <3>1, <3>2, <3>3, ProjectType DEF Lists
  <2>4. y' \in Lists(RowsOf(model)) BY <2>1 DEF Lists
  <2>5. tau' \in Nat BY <2>1, <2>2 DEF ScaledType
  <2>6. model' = model BY <2>1 DEF model
  <2>7. status = "NotSolved" BY <2>1 DEF PdInv
  <2>8. Working' BY <2>1, <2>3, <2>4, <2>5, <2>6, <2>7 DEF Working
  <2> QED BY <2>1, <2>7, <2>8 DEF PdInv
<1>3. CASE OutOfIterations
  <2>1. Working' BY <1>3 DEF OutOfIterations, iterates, PdInv, Working, model
  <2> QED BY <1>3, <2>1 DEF OutOfIterations, iterates, PdInv
<1>4. CASE TimedOut
  <2>1. Working' BY <1>4 DEF TimedOut, iterates, PdInv, Working, model
  <2> QED BY <1>4, <2>1 DEF TimedOut, iterates, PdInv
<1>5. CASE Iterate
  <2>1. /\ pc = "loop" /\ iter < IterationLimit /\ iter' = iter + 1
        /\ x' = NextPoint /\ y' = NextDual(Extrapolated(x'))
        /\ request' = request /\ scaled' = scaled
        /\ Adapt(Metric(x', y'))
        /\ \/ status' = "Optimal" /\ pc' = "report"
           \/ status' = status /\ pc' = pc
    BY <1>5 DEF Iterate
  <2>2. Working BY <2>1 DEF PdInv
  <2>3. x' \in Lists(ColumnsOf(model)) BY <2>1, <2>2, NextPointType
  <2>4. y' \in Lists(RowsOf(model)) BY <2>1, <2>2, <2>3, NextDualType
  <2>5. scaled.max_step \in Nat
    BY <2>2, RequestFacts DEF PdInv, Working, model, ScaledType
  <2>6. tau' \in Nat /\ sigma' = tau' /\ tau' <= scaled.max_step
    BY <2>1, <2>2, <2>5, AdaptKeepsSteps DEF Working
  <2>7. model' = model BY <2>1 DEF model
  <2>8. status = "NotSolved" BY <2>1 DEF PdInv
  <2>9. Working' BY <2>1, <2>2, <2>3, <2>4, <2>6, <2>7, <2>8 DEF Working
  <2>10. iter' \in 0 .. IterationLimit BY <1>0, <2>1 DEF PdInv
  <2> QED BY <2>1, <2>8, <2>9, <2>10 DEF PdInv
<1>6. CASE Report
  <2>1. /\ pc = "report" /\ pc' = "returned" /\ request' = request /\ iter' = iter
        /\ result' = Answer(request, Unscaled(x, scaled.column_scale),
                                     Unscaled(y, scaled.row_scale))
        /\ status' = FinalStatus(result')
    BY <1>6 DEF Report, iterates
  <2>2. Working BY <2>1 DEF PdInv
  <2>3. /\ scaled.column_scale \in [ColumnsOf(model) -> Nat \ {0}]
        /\ scaled.row_scale \in [RowsOf(model) -> Nat \ {0}]
    BY <2>2, RequestFacts DEF PdInv, Working, model, ScaledType
  <2>4. /\ Unscaled(x, scaled.column_scale) \in Lists(ColumnsOf(model))
        /\ Unscaled(y, scaled.row_scale) \in Lists(RowsOf(model))
    BY <2>2, <2>3, UnscaledType DEF Working
  <2>5. model' = model BY <2>1 DEF model
  <2>6. Answered' BY <2>1, <2>4, <2>5 DEF Answered
  <2>7. /\ status' \in {"IterationLimit", "TimeLimit", "Optimal", "NumericalFailure"}
        /\ status' = "Optimal" => WithinTolerances(result')
    BY <2>1, <2>2 DEF FinalStatus, Working
  <2>8. Outcome' BY <2>1, <2>2, <2>6, <2>7 DEF Outcome, Working, WithinTolerances
  <2> QED BY <2>1, <2>8 DEF PdInv
<1>7. CASE Returned \/ UNCHANGED vars
  <2>1. UNCHANGED vars BY <1>7 DEF Returned
  <2> QED BY <2>1 DEF vars, iterates, PdInv, Working, Outcome, Answered, model,
                      WithinTolerances
<1> QED BY <1>1, <1>2, <1>3, <1>4, <1>5, <1>6, <1>7 DEF Next

LEMMA PdInvariant == Spec => []PdInv
<1>1. Init => PdInv BY InitInv
<1>2. PdInv /\ [Next]_vars => PdInv' BY NextInv
<1> QED BY <1>1, <1>2, PTL DEF Spec

-----------------------------------------------------------------------------
(* An Optimal answer is inside the bounds and the rows.                    *)

\* What the rounding of its products does to a row: a step for each column.
LEMMA RowsAreNear ==
    ASSUME NEW m, IsModel(m), NEW p \in Lists(ColumnsOf(m)), NEW r \in RowsOf(m)
    PROVE  LET value == RowValues(m, Coefficients(m), p)[r]
               a == Total([v \in ColumnsOf(m) |-> m.rows[r].coefficients[v] * p[v]])
               n == Len(m.linear)
           IN  /\ value \in Int /\ a \in Int
               /\ Unit * value <= a + Unit * n /\ a <= Unit * value + Unit * n
<1> DEFINE C == ColumnsOf(m)
           c == m.rows[r].coefficients
           f == [v \in DOMAIN c |-> Product(c[v], p[v])]
           h == [v \in C |-> c[v] * p[v]]
           n == Len(m.linear)
<1>1. c \in [C -> Int] /\ p \in [C -> Int] /\ IsFiniteSet(C) /\ C = 1 .. n /\ n \in Nat
  BY ModelFacts DEF Lists
<1>2. RowValues(m, Coefficients(m), p)[r] = Total(f)
  BY DEF RowValues, Coefficients, Times
<1>3. Unit \in Int BY GridAssumption
<1>4. DOMAIN f = C /\ DOMAIN h = C BY <1>1
<1>5. \A v \in C : /\ f[v] \in Int /\ h[v] \in Int
                   /\ Unit * f[v] <= h[v] + Unit /\ h[v] <= Unit * f[v] + Unit
  <2> TAKE v \in C
  <2>1. c[v] \in Int /\ p[v] \in Int BY <1>1
  <2>2. f[v] = Product(c[v], p[v]) /\ h[v] = c[v] * p[v] BY <1>1
  <2> HIDE DEF f, h, c
  <2>3. Product(c[v], p[v]) \in Int BY <2>1, ProductType
  <2>4. /\ Unit * Product(c[v], p[v]) <= c[v] * p[v] + Unit
        /\ c[v] * p[v] <= Unit * Product(c[v], p[v]) + Unit
    BY <2>1, ProductIsNear
  <2>5. c[v] * p[v] \in Int BY <2>1
  <2> QED BY <2>2, <2>3, <2>4, <2>5
<1>6. Cardinality(C) = n BY <1>1, FS_Interval
<1> HIDE DEF f, h, C, n
<1>7. /\ Unit * Sum!Over(f, C) <= Sum!Over(h, C) + Unit * Cardinality(C)
      /\ Sum!Over(h, C) <= Unit * Sum!Over(f, C) + Unit * Cardinality(C)
  BY <1>1, <1>3, <1>5, FinitenessIsOne, SumAdds, Sum!SumsApart
<1>8. Total(f) = Sum!Over(f, C) /\ Total(h) = Sum!Over(h, C) BY <1>4, TotalIsSum
<1>9. Total(f) \in Int /\ Total(h) \in Int BY <1>1, <1>4, <1>5, TotalType
<1> QED BY <1>2, <1>6, <1>7, <1>8, <1>9 DEF h, C, n

LEMMA ViolationFacts ==
    ASSUME NEW a \in Int, NEW lower \in Int, NEW upper \in Int
    PROVE  /\ Violation(a, lower, upper) \in Int
           /\ Finite(lower) => lower - a <= Violation(a, lower, upper)
           /\ Finite(upper) => a - upper <= Violation(a, lower, upper)
BY DEF Violation, Larger

LEMMA AnswerIsFeasible ==
    ASSUME NEW q \in Requests, Refusal(q) = "NotSolved",
           NEW p \in Lists(ColumnsOf(q.model)), NEW d \in Lists(RowsOf(q.model)),
           WithinTolerances(Answer(q, p, d))
    PROVE  Feasible(q.model, LowerBounds(q), UpperBounds(q), p,
                    PrimalTol + Len(q.model.linear))
<1> DEFINE m == q.model
           C == ColumnsOf(m)
           R == RowsOf(m)
           n == Len(m.linear)
           values == RowValues(m, Coefficients(m), p)
           byRow == [r \in DOMAIN values |->
                        Violation(values[r], m.rows[r].lower, m.rows[r].upper)]
           byColumn == [v \in DOMAIN p |->
                           Violation(p[v], LowerBounds(q)[v], UpperBounds(q)[v])]
<1>1. IsModel(m) /\ LowerBounds(q) \in [C -> Int] /\ UpperBounds(q) \in [C -> Int]
  BY RequestFacts DEF Lists
<1>2. /\ IsFiniteSet(C) /\ IsFiniteSet(R) /\ n \in Nat
      /\ \A r \in R : m.rows[r].lower \in Int /\ m.rows[r].upper \in Int
      /\ Coefficients(m) \in Matrix(R, C)
  BY <1>1, ModelFacts
<1>3. values \in [R -> Int] /\ p \in [C -> Int]
  BY <1>1, <1>2, RowValuesType DEF Lists
<1>4. PrimalTol \in Nat /\ Unit \in Nat \ {0} BY LimitsAssumption, GridAssumption
<1>5. Larger(Largest(byRow), Largest(byColumn)) <= PrimalTol
  BY DEF WithinTolerances, Answer, PrimalResidual
<1>6. DOMAIN byRow = R /\ \A r \in R : byRow[r] \in Int
  <2>1. \A r \in R : values[r] \in Int BY <1>3
  <2> HIDE DEF values
  <2> QED BY <1>2, <1>3, <2>1, ViolationFacts
<1>7. DOMAIN byColumn = C /\ \A v \in C : byColumn[v] \in Int
  <2>1. \A v \in C : p[v] \in Int /\ LowerBounds(q)[v] \in Int /\ UpperBounds(q)[v] \in Int
    BY <1>1, <1>3
  <2> QED BY <1>3, <2>1, ViolationFacts
<1>8. /\ Largest(byRow) \in Nat /\ Largest(byColumn) \in Nat
      /\ \A r \in R : byRow[r] <= Largest(byRow)
      /\ \A v \in C : byColumn[v] <= Largest(byColumn)
  <2> HIDE DEF byRow, byColumn
  <2> QED BY <1>2, <1>6, <1>7, LargestFacts
<1>9. Largest(byRow) <= PrimalTol /\ Largest(byColumn) <= PrimalTol
  <2> HIDE DEF byRow, byColumn
  <2> QED BY <1>4, <1>5, <1>8 DEF Larger
<1>10. ASSUME NEW v \in C
       PROVE  /\ Finite(LowerBounds(q)[v]) => LowerBounds(q)[v] - (PrimalTol + n) <= p[v]
              /\ Finite(UpperBounds(q)[v]) => p[v] <= UpperBounds(q)[v] + (PrimalTol + n)
  <2>1. p[v] \in Int /\ LowerBounds(q)[v] \in Int /\ UpperBounds(q)[v] \in Int
    BY <1>1, <1>3
  <2>2. byColumn[v] = Violation(p[v], LowerBounds(q)[v], UpperBounds(q)[v]) BY <1>3
  <2>3. byColumn[v] \in Int /\ byColumn[v] <= PrimalTol
    <3> HIDE DEF byColumn
    <3> QED BY <1>4, <1>7, <1>8, <1>9
  <2> HIDE DEF byColumn, n
  <2>4. /\ Finite(LowerBounds(q)[v]) => LowerBounds(q)[v] - p[v] <= byColumn[v]
        /\ Finite(UpperBounds(q)[v]) => p[v] - UpperBounds(q)[v] <= byColumn[v]
    <3> DEFINE w == Violation(p[v], LowerBounds(q)[v], UpperBounds(q)[v])
    <3>1. /\ Finite(LowerBounds(q)[v]) => LowerBounds(q)[v] - p[v] <= w
          /\ Finite(UpperBounds(q)[v]) => p[v] - UpperBounds(q)[v] <= w
      BY <2>1, ViolationFacts
    <3> QED BY <2>2, <3>1
  <2> QED BY <1>2, <1>4, <2>1, <2>3, <2>4
<1>11. ASSUME NEW r \in R
       PROVE  LET a == Total([v \in C |-> m.rows[r].coefficients[v] * p[v]]) IN
              /\ Finite(m.rows[r].lower) => (m.rows[r].lower - (PrimalTol + n)) * Unit <= a
              /\ Finite(m.rows[r].upper) => a <= (m.rows[r].upper + (PrimalTol + n)) * Unit
  <2> DEFINE a == Total([v \in C |-> m.rows[r].coefficients[v] * p[v]])
             b == values[r]
             lo == m.rows[r].lower
             up == m.rows[r].upper
  <2>1. b \in Int /\ a \in Int /\ Unit * b <= a + Unit * n /\ a <= Unit * b + Unit * n
    BY <1>1, RowsAreNear
  <2>2. byRow[r] = Violation(b, lo, up) BY <1>3
  <2>3. byRow[r] \in Int /\ byRow[r] <= PrimalTol
    <3> HIDE DEF byRow
    <3> QED BY <1>4, <1>6, <1>8, <1>9
  <2>4. lo \in Int /\ up \in Int BY <1>2
  <2> HIDE DEF byRow, n, a, b, lo, up
  <2>5. /\ Finite(lo) => lo - b <= byRow[r]
        /\ Finite(up) => b - up <= byRow[r]
    <3>1. /\ Finite(lo) => lo - b <= Violation(b, lo, up)
          /\ Finite(up) => b - up <= Violation(b, lo, up)
      BY <2>1, <2>4, ViolationFacts
    <3> QED BY <2>2, <3>1
  <2>6. /\ Finite(lo) => lo - PrimalTol <= b
        /\ Finite(up) => b <= up + PrimalTol
    BY <1>4, <2>1, <2>3, <2>4, <2>5
  <2>7. ASSUME Finite(lo) PROVE (lo - (PrimalTol + n)) * Unit <= a
    <3>1. (lo - PrimalTol) * Unit <= b * Unit BY <1>4, <2>1, <2>4, <2>6, <2>7
    <3>2. (lo - (PrimalTol + n)) * Unit = (lo - PrimalTol) * Unit - Unit * n
      BY <1>2, <1>4, <2>4
    <3> QED BY <1>2, <1>4, <2>1, <2>4, <3>1, <3>2
  <2>8. ASSUME Finite(up) PROVE a <= (up + (PrimalTol + n)) * Unit
    <3>1. b * Unit <= (up + PrimalTol) * Unit BY <1>4, <2>1, <2>4, <2>6, <2>8
    <3>2. (up + (PrimalTol + n)) * Unit = (up + PrimalTol) * Unit + Unit * n
      BY <1>2, <1>4, <2>4
    <3> QED BY <1>2, <1>4, <2>1, <2>4, <3>1, <3>2
  <2> QED BY <2>7, <2>8 DEF a, lo, up
<1> QED BY <1>10, <1>11 DEF Feasible

\* Whatever the model, the scaling and the number of iterations, an Optimal
\* point is in the bounds and rows that were asked for, within the tolerance
\* and a step of rounding per column.
THEOREM OptimalPointsAreFeasible == Spec => []OptimalIsFeasible
<1>1. PdInv => OptimalIsFeasible
  <2> SUFFICES ASSUME PdInv, Solved
               PROVE  AskedFor(result.primal_solution, PrimalTol + Len(model.linear))
    BY DEF OptimalIsFeasible
  <2>1. Refusal(request) = "NotSolved" /\ Answered /\ WithinTolerances(result)
    BY DEF PdInv, Outcome, Solved, Refusal
  <2>2. PICK p \in Lists(ColumnsOf(model)), d \in Lists(RowsOf(model)) :
            result = Answer(request, p, d)
    BY <2>1 DEF Answered
  <2>3. result.primal_solution = p BY <2>2 DEF Answer
  <2>4. Feasible(model, LowerBounds(request), UpperBounds(request), p,
                 PrimalTol + Len(model.linear))
    BY <2>1, <2>2, AnswerIsFeasible DEF PdInv, model
  <2> QED BY <2>3, <2>4 DEF AskedFor
<1> QED BY <1>1, PdInvariant, PTL

-----------------------------------------------------------------------------
(* The dual vectors of an Optimal answer are stationary.                   *)

\* A coordinate at which a gradient step of length 1 leads nowhere else: the
\* multipliers of its bounds take up all of the gradient but DualTol.
LEMMA CoordinateIsStationary ==
    ASSUME NEW p \in Int, NEW g \in Int, NEW lower \in Int, NEW upper \in Int,
           lower <= upper, DualTol <= ActiveTol,
           Magnitude(p) + DualTol < Inf,
           Magnitude(p - Clamp(p - g, lower, upper)) <= DualTol
    PROVE  Magnitude(g - BoundDual(p - lower, lower, g) + BoundDual(upper - p, upper, -g))
              <= DualTol
<1> DEFINE c == Clamp(p - g, lower, upper)
           vl == BoundDual(p - lower, lower, g)
           vu == BoundDual(upper - p, upper, -g)
<1>1. DualTol \in Nat /\ ActiveTol \in Nat /\ Inf \in Nat
  BY LimitsAssumption, GridAssumption DEF ActiveTol, Larger
<1>2. c \in Int /\ p - c <= DualTol /\ c - p <= DualTol BY <1>1 DEF Magnitude, Clamp
<1>3. Finite(c)
  <2>1. -p + DualTol < Inf /\ p + DualTol < Inf BY <1>1 DEF Magnitude
  <2> HIDE DEF c
  <2> QED BY <1>1, <1>2, <2>1 DEF Finite
<1>4. vl = (IF Finite(lower) /\ p - lower <= ActiveTol THEN (IF 0 < g THEN g ELSE 0) ELSE 0)
  BY DEF BoundDual, Larger
<1>5. vu = (IF Finite(upper) /\ upper - p <= ActiveTol THEN (IF 0 < -g THEN -g ELSE 0) ELSE 0)
  BY DEF BoundDual, Larger
<1> HIDE DEF vl, vu
<1>6. ASSUME c = lower, p - g < lower PROVE Magnitude(g - vl + vu) <= DualTol
  <2>1. Finite(lower) /\ p - lower <= ActiveTol BY <1>1, <1>2, <1>3, <1>6
  <2>2. -DualTol < g BY <1>1, <1>2, <1>6
  <2>3. vl = IF 0 < g THEN g ELSE 0 BY <1>4, <2>1
  <2> QED BY <1>1, <1>5, <2>2, <2>3 DEF Magnitude
<1>7. ASSUME c = upper, p - g > upper PROVE Magnitude(g - vl + vu) <= DualTol
  <2>1. Finite(upper) /\ upper - p <= ActiveTol BY <1>1, <1>2, <1>3, <1>7
  <2>2. g < DualTol BY <1>1, <1>2, <1>7
  <2>3. vu = IF 0 < -g THEN -g ELSE 0 BY <1>5, <2>1
  <2> QED BY <1>1, <1>4, <2>2, <2>3 DEF Magnitude
<1>8. ASSUME c = p - g PROVE Magnitude(g - vl + vu) <= DualTol
  <2>1. -DualTol <= g /\ g <= DualTol BY <1>1, <1>2, <1>8
  <2> QED BY <1>1, <1>4, <1>5, <2>1 DEF Magnitude
<1>9. (c = lower /\ p - g < lower) \/ (c = upper /\ p - g > upper) \/ c = p - g
  BY DEF Clamp
<1>10. Magnitude(g - vl + vu) <= DualTol BY <1>6, <1>7, <1>8, <1>9
<1> QED BY <1>10 DEF vl, vu

LEMMA AnswerIsStationary ==
    ASSUME NEW q \in Requests, Refusal(q) = "NotSolved",
           NEW p \in Lists(ColumnsOf(q.model)), NEW d \in Lists(RowsOf(q.model)),
           WithinTolerances(Answer(q, p, d)), DualTol <= ActiveTol,
           \A v \in ColumnsOf(q.model) : Magnitude(p[v]) + DualTol < Inf
    PROVE  LET g == Gradient(q.model, q.model.linear, q.model.quadratic,
                             Coefficients(q.model), p, d)
               a == Answer(q, p, d)
           IN  \A v \in ColumnsOf(q.model) :
                   Magnitude(g[v] - a.variable_lower_dual[v] + a.variable_upper_dual[v])
                     <= DualTol
<1> DEFINE m == q.model
           C == ColumnsOf(m)
           g == Gradient(m, m.linear, m.quadratic, Coefficients(m), p, d)
           lower == LowerBounds(q)
           upper == UpperBounds(q)
           step == Difference(p, g)
           apart == Difference(p, Project(step, lower, upper))
<1>1. /\ IsModel(m) /\ lower \in [C -> Int] /\ upper \in [C -> Int]
      /\ \A v \in C : lower[v] <= upper[v]
  BY RequestFacts DEF Lists
<1>2. g \in [C -> Int] /\ p \in [C -> Int] /\ IsFiniteSet(C)
  BY <1>1, ModelFacts, GradientType DEF Lists
<1>3. NormInf(apart) <= DualTol
  BY DEF WithinTolerances, Answer, StationarityResidual
<1>4. \A v \in C : /\ Answer(q, p, d).variable_lower_dual[v]
                        = BoundDual(p[v] - lower[v], lower[v], g[v])
                   /\ Answer(q, p, d).variable_upper_dual[v]
                        = BoundDual(upper[v] - p[v], upper[v], -g[v])
  BY <1>2 DEF Answer
<1> HIDE DEF g, lower, upper
<1>5. step \in [C -> Int] /\ \A v \in C : step[v] = p[v] - g[v]
  <2>1. \A v \in C : p[v] \in Int /\ g[v] \in Int BY <1>2
  <2> QED BY <1>2, <2>1 DEF Difference
<1> HIDE DEF step
<1>6. /\ apart \in [C -> Int]
      /\ \A v \in C : apart[v] = p[v] - Clamp(p[v] - g[v], lower[v], upper[v])
  <2>1. Project(step, lower, upper) \in [C -> Int] BY <1>1, <1>5, ProjectType
  <2>2. \A v \in C : Project(step, lower, upper)[v] = Clamp(step[v], lower[v], upper[v])
    BY <1>5 DEF Project
  <2>3. \A v \in C : p[v] \in Int /\ Project(step, lower, upper)[v] \in Int BY <1>2, <2>1
  <2> QED BY <1>2, <1>5, <2>2, <2>3 DEF Difference
<1> HIDE DEF apart
<1>7. NormInf(apart) \in Nat /\ \A v \in C : Magnitude(apart[v]) <= NormInf(apart)
  BY <1>2, <1>6, NormInfType
<1>8. ASSUME NEW v \in C
      PROVE  Magnitude(g[v] - BoundDual(p[v] - lower[v], lower[v], g[v])
                            + BoundDual(upper[v] - p[v], upper[v], -g[v])) <= DualTol
  <2>1. /\ p[v] \in Int /\ g[v] \in Int /\ lower[v] \in Int /\ upper[v] \in Int
        /\ apart[v] \in Int /\ lower[v] <= upper[v] /\ Magnitude(p[v]) + DualTol < Inf
    BY <1>1, <1>2, <1>6
  <2>2. Magnitude(apart[v]) \in Nat /\ DualTol \in Nat
    BY <2>1, MagnitudeType, LimitsAssumption
  <2>3. Magnitude(apart[v]) <= DualTol BY <1>3, <1>7, <2>2
  <2>4. Magnitude(p[v] - Clamp(p[v] - g[v], lower[v], upper[v])) <= DualTol
    BY <1>6, <2>3
  <2> QED BY <2>1, <2>4, CoordinateIsStationary
<1> QED BY <1>4, <1>8 DEF g

\* No coordinate is within the dual tolerance of overflow.
InRange == Solved =>
    \A v \in ColumnsOf(model) : Magnitude(result.primal_solution[v]) + DualTol < Inf

\* The dual vectors of an Optimal answer satisfy the documented equation if
\* the tolerance of an active bound is no smaller than the dual tolerance, as
\* with the default options: a bound the point has not reached, but from
\* which a step of DualTol would, must count as active.
THEOREM OptimalDualsAreStationary ==
    ASSUME DualTol <= ActiveTol
    PROVE  Spec /\ []InRange => []DualsAreStationary
<1>1. PdInv /\ InRange => DualsAreStationary
  <2> SUFFICES ASSUME PdInv, InRange, Solved PROVE Stationary
    BY DEF DualsAreStationary
  <2>1. Refusal(request) = "NotSolved" /\ Answered /\ WithinTolerances(result)
    BY DEF PdInv, Outcome, Solved, Refusal
  <2>2. PICK p \in Lists(ColumnsOf(model)), d \in Lists(RowsOf(model)) :
            result = Answer(request, p, d)
    BY <2>1 DEF Answered
  <2>3. result.primal_solution = p BY <2>2 DEF Answer
  <2>4. \A v \in ColumnsOf(model) : Magnitude(p[v]) + DualTol < Inf BY <2>3 DEF InRange
  <2>5. RowDual = d
    <3>1. /\ result.constraint_lower_dual = [r \in DOMAIN d |-> Larger(0, -d[r])]
          /\ result.constraint_upper_dual = [r \in DOMAIN d |-> Larger(0, d[r])]
      BY <2>2 DEF Answer
    <3>2. d \in [RowsOf(model) -> Int] BY DEF Lists
    <3>3. ASSUME NEW r \in RowsOf(model)
          PROVE  result.constraint_upper_dual[r] - result.constraint_lower_dual[r] = d[r]
      <4>1. d[r] \in Int BY <3>2
      <4>2. Larger(0, d[r]) - Larger(0, -d[r]) = d[r] BY <4>1 DEF Larger
      <4> QED BY <3>1, <3>2, <4>2
    <3> QED BY <3>2, <3>3 DEF RowDual
  <2> QED BY <2>1, <2>2, <2>3, <2>4, <2>5, AnswerIsStationary DEF PdInv, model, Stationary
<1> QED BY <1>1, PdInvariant, PTL

-----------------------------------------------------------------------------
(* The steps.                                                              *)

\* The matrix applied to d, exactly.
Image(m, matrix, d) ==
    [r \in RowsOf(m) |-> Total([v \in ColumnsOf(m) |-> matrix[r][v] * d[v]])]

LEMMA SquaredFacts ==
    ASSUME NEW S, IsFiniteSet(S), NEW f \in Lists(S)
    PROVE  Squared(f) \in Nat /\ Squared(f) = Sum!Over([i \in S |-> f[i] * f[i]], S)
<1> DEFINE h == [i \in S |-> f[i] * f[i]]
           none == [i \in S |-> 0]
<1>1. DOMAIN f = S BY DEF Lists
<1>2. Squared(f) = Sum!Over(h, S) BY <1>1, TotalIsSum DEF Squared
<1>3. \A i \in S : h[i] \in Int /\ none[i] \in Int /\ none[i] <= h[i]
  <2> TAKE i \in S
  <2>1. f[i] \in Int BY DEF Lists
  <2>2. f[i] * f[i] \in Nat BY <2>1
  <2> QED BY <2>2
<1>4. \A i \in S : none[i] = 0 OBVIOUS
<1> HIDE DEF h, none
<1>5. Sum!Over(none, S) = 0 * Cardinality(S) /\ Cardinality(S) \in Nat
  BY <1>4, FinitenessIsOne, SumAdds, Sum!SumOfConstant, FS_CardinalityType
<1>6. Sum!Over(none, S) <= Sum!Over(h, S) /\ Sum!Over(h, S) \in Int
  BY <1>3, FinitenessIsOne, SumAdds, Sum!SumLess, Sum!SumType
<1> QED BY <1>2, <1>5, <1>6 DEF h

\* A row squared is at most its row sum times its weighted squares.
LEMMA RowIsBounded ==
    ASSUME NEW m, IsModel(m), NEW matrix \in Matrix(RowsOf(m), ColumnsOf(m)),
           NEW d \in Lists(ColumnsOf(m)), NEW r \in RowsOf(m)
    PROVE  LET weighted == Total([v \in ColumnsOf(m) |-> Magnitude(matrix[r][v]) * (d[v] * d[v])])
               row == Image(m, matrix, d)[r]
           IN  /\ row \in Int /\ RowSum(m, matrix, r) \in Nat /\ weighted \in Nat
               /\ row * row <= RowSum(m, matrix, r) * weighted
<1> DEFINE C == ColumnsOf(m)
           w == matrix[r]
           f == [v \in C |-> matrix[r][v] * d[v]]
           g == [v \in C |-> Magnitude(matrix[r][v])]
           h == [v \in C |-> Magnitude(matrix[r][v]) * (d[v] * d[v])]
<1>1. IsFiniteSet(C) BY ModelFacts
<1>2. \A v \in C : /\ w[v] \in Int /\ d[v] \in Int /\ f[v] = w[v] * d[v]
                   /\ g[v] \in Nat /\ g[v] * g[v] = w[v] * w[v]
                   /\ h[v] = g[v] * (d[v] * d[v])
  <2> TAKE v \in C
  <2>1. w[v] \in Int /\ d[v] \in Int BY DEF Matrix, Lists
  <2>2. f[v] = w[v] * d[v] /\ g[v] = Magnitude(w[v]) /\ h[v] = g[v] * (d[v] * d[v])
    OBVIOUS
  <2>3. Magnitude(w[v]) \in Nat /\ Magnitude(w[v]) * Magnitude(w[v]) = w[v] * w[v]
    <3> HIDE DEF w
    <3> QED BY <2>1 DEF Magnitude
  <2> QED BY <2>1, <2>2, <2>3
<1>3. DOMAIN f = C /\ DOMAIN g = C /\ DOMAIN h = C OBVIOUS
<1>4. RowSum(m, matrix, r) = Total(g) /\ Image(m, matrix, d)[r] = Total(f)
  BY DEF RowSum, Image
<1> HIDE DEF f, g, h, w, C
<1>5. /\ Sum!Over(f, C) \in Int /\ Sum!Over(g, C) \in Nat /\ Sum!Over(h, C) \in Nat
      /\ Sum!Over(f, C) * Sum!Over(f, C) <= Sum!Over(g, C) * Sum!Over(h, C)
  BY <1>1, <1>2, FinitenessIsOne, SumAdds, Sum!WeightedCauchy
<1>6. /\ Total(f) \in Int /\ Total(g) \in Nat /\ Total(h) \in Nat
      /\ Total(f) * Total(f) <= Total(g) * Total(h)
  BY <1>3, <1>5, TotalIsSum
<1> QED BY <1>4, <1>6 DEF h, C

\* The code's bound is a bound of the operator norm.
LEMMA OperatorIsBounded ==
    ASSUME NEW m, IsModel(m), NEW matrix \in Matrix(RowsOf(m), ColumnsOf(m)),
           NEW d \in Lists(ColumnsOf(m))
    PROVE  LET n == OperatorBound(m, matrix) + 1 IN
           Squared(Image(m, matrix, d)) <= (n * n) * Squared(d)
<1> DEFINE C == ColumnsOf(m)
           R == RowsOf(m)
           n == OperatorBound(m, matrix) + 1
           a == Image(m, matrix, d)
           f == [r \in R |-> [v \in C |-> Magnitude(matrix[r][v]) * (d[v] * d[v])]]
           weighted == [r \in R |-> Sum!Over(f[r], C)]
           columns == [v \in C |-> Sum!Over([r \in R |-> f[r][v]], R)]
           squares == [r \in R |-> a[r] * a[r]]
           lengths == [v \in C |-> d[v] * d[v]]
<1>1. IsFiniteSet(C) /\ IsFiniteSet(R) BY ModelFacts
<1>2. PICK rho \in Nat, gamma \in Nat :
          /\ \A r \in R : RowSum(m, matrix, r) <= rho
          /\ \A v \in C : ColumnSum(m, matrix, v) <= gamma
          /\ rho * gamma < n * n
  BY OperatorBoundFacts
<1>3. OperatorBound(m, matrix) \in Nat BY OperatorBoundFacts
<1>4. \A r \in R : \A v \in C : /\ f[r][v] \in Int /\ matrix[r][v] \in Int
                                /\ f[r][v] = Magnitude(matrix[r][v]) * (d[v] * d[v])
  <2> TAKE r \in R
  <2> TAKE v \in C
  <2>1. matrix[r][v] \in Int /\ d[v] \in Int BY DEF Matrix, Lists
  <2>2. Magnitude(matrix[r][v]) \in Int BY <2>1, MagnitudeType
  <2> QED BY <2>1, <2>2
<1>5. \A r \in R : /\ a[r] \in Int /\ squares[r] \in Int /\ weighted[r] \in Int
                   /\ squares[r] <= rho * weighted[r]
  <2> TAKE r \in R
  <2>1. f[r] = [v \in C |-> Magnitude(matrix[r][v]) * (d[v] * d[v])] /\ DOMAIN f[r] = C
    OBVIOUS
  <2>2. /\ a[r] \in Int /\ RowSum(m, matrix, r) \in Nat /\ Total(f[r]) \in Nat
        /\ a[r] * a[r] <= RowSum(m, matrix, r) * Total(f[r])
    BY <2>1, RowIsBounded
  <2>3. weighted[r] = Total(f[r]) BY <2>1, TotalIsSum
  <2>4. RowSum(m, matrix, r) <= rho BY <1>2
  <2>5. squares[r] = a[r] * a[r] OBVIOUS
  <2> HIDE DEF weighted, squares, f, a
  <2>6. RowSum(m, matrix, r) * Total(f[r]) <= rho * Total(f[r]) BY <2>2, <2>4
  <2> QED BY <2>2, <2>3, <2>5, <2>6
<1>6. \A v \in C : /\ lengths[v] \in Int /\ columns[v] \in Int
                   /\ columns[v] <= gamma * lengths[v]
  <2> TAKE v \in C
  <2> DEFINE column == [r \in R |-> f[r][v]]
             entries == [r \in R |-> Magnitude(matrix[r][v])]
             l == d[v] * d[v]
  <2>1. l \in Nat
    <3>1. d[v] \in Int BY DEF Lists
    <3> QED BY <3>1
  <2>2. \A r \in R : entries[r] \in Int /\ column[r] = l * entries[r] /\ column[r] \in Int
    <3> TAKE r \in R
    <3>1. Magnitude(matrix[r][v]) \in Int BY <1>4, MagnitudeType
    <3>2. column[r] = Magnitude(matrix[r][v]) * l BY <1>4
    <3> HIDE DEF column, l
    <3> QED BY <2>1, <3>1, <3>2
  <2>3. DOMAIN entries = R /\ lengths[v] = l /\ columns[v] = Sum!Over(column, R) OBVIOUS
  <2>4. ColumnSum(m, matrix, v) = Total(entries) BY DEF ColumnSum
  <2> HIDE DEF column, entries, columns, lengths, l
  <2>5. /\ Sum!Over(column, R) = l * Sum!Over(entries, R)
        /\ Sum!Over(entries, R) \in Int
    <3>1. l \in Int BY <2>1
    <3>2. Sum!Over(column, R) = l * Sum!Over(entries, R)
      BY <1>1, <2>2, <3>1, FinitenessIsOne, SumAdds, Sum!SumScaled
    <3>3. Sum!Over(entries, R) \in Int
      BY <1>1, <2>2, FinitenessIsOne, SumAdds, Sum!SumType
    <3> QED BY <3>2, <3>3
  <2>6. Sum!Over(entries, R) <= gamma BY <1>2, <2>3, <2>4, TotalIsSum
  <2>7. l * Sum!Over(entries, R) <= gamma * l BY <2>1, <2>5, <2>6
  <2> QED BY <2>1, <2>3, <2>5, <2>7
<1>7. /\ DOMAIN a = R /\ \A r \in R : a[r] \in Int
      /\ a \in Lists(R)
  BY <1>5 DEF Image, Lists
<1>8. /\ Squared(a) = Sum!Over(squares, R)
      /\ Squared(d) = Sum!Over(lengths, C) /\ Squared(d) \in Nat
  <2> HIDE DEF a
  <2> QED BY <1>1, <1>7, SquaredFacts
<1>9. Sum!Over(weighted, R) = Sum!Over(columns, C)
  <2> HIDE DEF f
  <2> QED BY <1>1, <1>4, FinitenessIsOne, SumAdds, Sum!SumsExchanged
<1> DEFINE scaledWeights == [r \in R |-> rho * weighted[r]]
           scaledLengths == [v \in C |-> gamma * lengths[v]]
<1>10. /\ \A r \in R : scaledWeights[r] = rho * weighted[r] /\ scaledWeights[r] \in Int
       /\ \A v \in C : scaledLengths[v] = gamma * lengths[v] /\ scaledLengths[v] \in Int
  <2> HIDE DEF weighted, lengths, columns, squares, f, a, scaledWeights, scaledLengths
  <2>1. \A r \in R : rho * weighted[r] \in Int BY <1>2, <1>5
  <2>2. \A v \in C : gamma * lengths[v] \in Int
    <3> TAKE v \in C
    <3>1. lengths[v] \in Int /\ gamma \in Int BY <1>6
    <3> QED BY <3>1
  <2> QED BY <2>1, <2>2 DEF scaledWeights, scaledLengths
<1> HIDE DEF squares, weighted, columns, lengths, scaledWeights, scaledLengths, a, f
<1>11. Sum!Over(squares, R) <= Sum!Over(scaledWeights, R)
  BY <1>1, <1>5, <1>10, FinitenessIsOne, SumAdds, Sum!SumLess
<1>12. Sum!Over(scaledWeights, R) = rho * Sum!Over(weighted, R)
  BY <1>1, <1>5, <1>10, FinitenessIsOne, SumAdds, Sum!SumScaled
<1>13. Sum!Over(columns, C) <= Sum!Over(scaledLengths, C)
  BY <1>1, <1>6, <1>10, FinitenessIsOne, SumAdds, Sum!SumLess
<1>14. Sum!Over(scaledLengths, C) = gamma * Sum!Over(lengths, C)
  BY <1>1, <1>6, <1>10, FinitenessIsOne, SumAdds, Sum!SumScaled
<1>15. /\ Sum!Over(squares, R) \in Int /\ Sum!Over(weighted, R) \in Int
       /\ Sum!Over(columns, C) \in Int
  BY <1>1, <1>5, <1>6, FinitenessIsOne, SumAdds, Sum!SumType
<1> DEFINE S == Squared(a)
           W == Sum!Over(weighted, R)
           D == Squared(d)
<1>16. S \in Int /\ W \in Int /\ D \in Nat /\ S <= rho * W /\ W <= gamma * D
  BY <1>8, <1>9, <1>11, <1>12, <1>13, <1>14, <1>15
<1> HIDE DEF S, W, D
<1>17. rho * W <= rho * (gamma * D) BY <1>2, <1>16
<1>18. rho * (gamma * D) = (rho * gamma) * D BY <1>2, <1>16
<1>19. (rho * gamma) * D <= (n * n) * D
  <2> DEFINE i == rho * gamma
             j == n * n
  <2>1. i \in Nat /\ j \in Nat /\ i < j BY <1>2, <1>3
  <2> HIDE DEF i, j
  <2>2. i * D <= j * D BY <1>16, <2>1
  <2> QED BY <2>2 DEF i, j
<1>20. S <= (n * n) * D
  <2> DEFINE i == rho * W
             j == (rho * gamma) * D
             k == (n * n) * D
  <2>1. i \in Int /\ j \in Int /\ k \in Int BY <1>2, <1>3, <1>16
  <2>2. S <= i /\ i <= j /\ j <= k BY <1>16, <1>17, <1>18, <1>19
  <2> HIDE DEF i, j, k
  <2>3. S <= k BY <1>16, <2>1, <2>2
  <2> QED BY <2>3 DEF k
<1> QED BY <1>20 DEF S, D, a

\* At every iteration of an LP's solve the two steps are one step tau, with
\* tau |A| <= 1 for the scaled matrix itself and every direction: the
\* condition under which PDHG converges, here without round-off.
LpStepsConverge ==
    pc \in {"loop", "report"} /\ request.solver = "LP" =>
        /\ sigma = tau /\ tau <= Safe
        /\ \A d \in Lists(ColumnsOf(model)) :
              (tau * tau) * Squared(Image(model, scaled.matrix, d))
                <= ((Unit * Unit) * (Unit * Unit)) * Squared(d)
THEOREM LpStepsMeetTheCondition ==
    ASSUME Unit >= 100
    PROVE  Spec => []LpStepsConverge
<1>1. ASSUME PdInv, pc \in {"loop", "report"}
      PROVE  sigma = tau /\ tau <= Safe
  <2>1. Working /\ request \in Requests BY <1>1 DEF PdInv
  <2>2. ScaledOf(request).max_step <= Safe /\ ScaledOf(request).max_step \in Nat
    BY <2>1, RequestFacts, ScaledFacts DEF Working, ScaledOf, ScaledType
  <2>3. Safe \in Nat BY GridAssumption DEF Safe
  <2> QED BY <2>1, <2>2, <2>3 DEF Working
<1>2. ASSUME PdInv, pc \in {"loop", "report"}, request.solver = "LP",
             NEW d \in Lists(ColumnsOf(model))
      PROVE  (tau * tau) * Squared(Image(model, scaled.matrix, d))
               <= ((Unit * Unit) * (Unit * Unit)) * Squared(d)
  <2> DEFINE N == scaled.norm + 1
             S == Squared(Image(model, scaled.matrix, d))
             D == Squared(d)
  <2>1. /\ IsModel(model) /\ Scalable(model) /\ ScaledType(model, scaled) /\ Working
        /\ LowerBounds(request) \in Lists(ColumnsOf(model))
        /\ UpperBounds(request) \in Lists(ColumnsOf(model))
    BY <1>2, RequestFacts DEF PdInv, Working, model
  <2>2. /\ scaled.norm = OperatorBound(model, scaled.matrix)
        /\ scaled.max_step <= Safe
        /\ scaled.max_step * scaled.norm <= Safe * Unit
    BY <1>2, <2>1, ScaledFacts DEF Working, ScaledOf, model
  <2>3. S <= (N * N) * D BY <2>1, <2>2, OperatorIsBounded DEF ScaledType
  <2>4. S \in Nat /\ D \in Nat
    <3>1. IsFiniteSet(ColumnsOf(model)) /\ IsFiniteSet(RowsOf(model)) BY <2>1, ModelFacts
    <3>2. Image(model, scaled.matrix, d) \in Lists(RowsOf(model))
      <4>1. scaled.matrix \in Matrix(RowsOf(model), ColumnsOf(model))
        BY <2>1 DEF ScaledType
      <4>2. \A r \in RowsOf(model) : Image(model, scaled.matrix, d)[r] \in Int
        BY <2>1, <4>1, RowIsBounded
      <4> QED BY <4>2 DEF Image, Lists
    <3> QED BY <3>1, <3>2, SquaredFacts
  <2>5. /\ tau \in Nat /\ sigma = tau /\ tau <= scaled.max_step /\ N \in Nat
        /\ scaled.norm \in Nat /\ scaled.max_step \in Nat
    BY <2>1 DEF Working, ScaledType
  <2>6. Unit \in Nat /\ Safe \in Nat /\ 100 * Safe <= 99 * Unit
    BY GridAssumption DEF Safe
  <2> HIDE DEF S, D, Safe
  <2>7. tau * N <= Unit * Unit
    <3>1. tau * scaled.norm <= scaled.max_step * scaled.norm BY <2>5
    <3>2. tau * N = tau * scaled.norm + tau BY <2>5
    <3>3. tau * N <= Safe * Unit + Safe
      <4> DEFINE i == tau * scaled.norm
                 j == scaled.max_step * scaled.norm
                 k == Safe * Unit
      <4>1. i \in Int /\ j \in Int /\ k \in Int BY <2>5, <2>6
      <4>2. i <= j /\ j <= k /\ tau <= Safe BY <2>2, <2>5, <2>6, <3>1
      <4>3. tau * N = i + tau BY <3>2
      <4> HIDE DEF i, j, k
      <4>4. i + tau <= k + Safe BY <2>5, <2>6, <4>1, <4>2
      <4> QED BY <4>3, <4>4 DEF k
    <3>4. 100 * (Safe * Unit + Safe) <= 99 * (Unit * Unit) + 99 * Unit
      <4>1. (100 * Safe) * Unit <= (99 * Unit) * Unit BY <2>6
      <4>2. 100 * (Safe * Unit + Safe) = (100 * Safe) * Unit + 100 * Safe BY <2>6
      <4> QED BY <2>6, <4>1, <4>2
    <3>5. 99 * Unit <= Unit * Unit BY <2>6
    <3>6. Safe * Unit + Safe \in Int /\ tau * N \in Int /\ Unit * Unit \in Int BY <2>5, <2>6
    <3> QED BY <2>6, <3>3, <3>4, <3>5, <3>6
  <2>8. (tau * N) * (tau * N) <= (Unit * Unit) * (Unit * Unit)
    <3> DEFINE i == tau * N
               j == Unit * Unit
    <3>1. i \in Nat /\ j \in Nat /\ i <= j BY <2>5, <2>6, <2>7
    <3> HIDE DEF i, j
    <3>2. i * i <= j * j BY <3>1
    <3> QED BY <3>2 DEF i, j
  <2> HIDE DEF N
  <2>9. (tau * tau) * S <= ((Unit * Unit) * (Unit * Unit)) * D
    <3> DEFINE t == tau * tau
               nn == N * N
               u == (Unit * Unit) * (Unit * Unit)
    <3>1. t \in Nat /\ nn \in Nat /\ u \in Nat BY <2>5, <2>6
    <3>2. t * nn <= u
      <4>1. (tau * N) * (tau * N) = t * nn BY <2>5
      <4> QED BY <2>8, <4>1
    <3> HIDE DEF t, nn, u
    <3>3. t * S <= t * (nn * D) BY <2>3, <2>4, <3>1 DEF nn
    <3>4. t * (nn * D) = (t * nn) * D BY <2>4, <3>1
    <3>5. (t * nn) * D <= u * D
      <4> DEFINE k == t * nn
      <4>1. k \in Nat /\ k <= u BY <3>1, <3>2
      <4> HIDE DEF k
      <4>2. k * D <= u * D BY <2>4, <3>1, <4>1
      <4> QED BY <4>2 DEF k
    <3>6. t * S \in Int /\ t * (nn * D) \in Int /\ u * D \in Int BY <2>4, <3>1
    <3>7. t * S <= u * D BY <3>3, <3>4, <3>5, <3>6
    <3> QED BY <3>7 DEF t, u
  <2> QED BY <2>9 DEF S, D
<1>3. PdInv => LpStepsConverge BY <1>1, <1>2 DEF LpStepsConverge
<1> QED BY <1>3, PdInvariant, PTL

-----------------------------------------------------------------------------
(* Which QPs are refused.                                                  *)

\* The factorization as a recursion: its state after column k.
FactorStep(q, n, g) ==
    [k \in 0 .. n |-> IF k = 0 THEN [schur |-> q, accepted |-> TRUE]
                      ELSE FactorColumn(q, n, g[k - 1], k)]
Factored(q, n) == CHOOSE g : g = FactorStep(q, n, g)

LEMMA FactoredFacts ==
    ASSUME NEW q, NEW n \in Nat
    PROVE  /\ Factored(q, n)[0] = [schur |-> q, accepted |-> TRUE]
           /\ \A k \in 1 .. n :
                 Factored(q, n)[k] = FactorColumn(q, n, Factored(q, n)[k - 1], k)
           /\ PositiveSemidefinite(q, n) = Factored(q, n)[n].accepted
<1> DEFINE Start0 == [schur |-> q, accepted |-> TRUE]
           Run(g, j) == g = [k \in 0 .. j |-> IF k = 0 THEN Start0
                                              ELSE FactorColumn(q, n, g[k - 1], k)]
           Good == {j \in Nat : \E g : Run(g, j)}
<1>1. 0 \in Good
  <2> DEFINE g == [k \in 0 .. 0 |-> Start0]
  <2>1. Run(g, 0) OBVIOUS
  <2> QED BY <2>1
<1>2. ASSUME NEW j \in Nat, j \in Good PROVE j + 1 \in Good
  <2>1. PICK g : Run(g, j) BY <1>2
  <2> DEFINE h == [k \in 0 .. j + 1 |-> IF k = j + 1 THEN FactorColumn(q, n, g[j], j + 1)
                                        ELSE g[k]]
  <2>2. ASSUME NEW k \in 0 .. j + 1
        PROVE  h[k] = IF k = 0 THEN Start0 ELSE FactorColumn(q, n, h[k - 1], k)
    <3>1. CASE k = j + 1
      <4>1. j \in 0 .. j + 1 /\ k # 0 /\ k - 1 = j /\ j # j + 1 BY <3>1
      <4>2. h[j] = g[j] BY <4>1
      <4>3. h[k] = FactorColumn(q, n, g[j], k) BY <3>1
      <4> HIDE DEF h
      <4> QED BY <4>1, <4>2, <4>3
    <3>2. CASE k # j + 1
      <4>1. k \in 0 .. j BY <3>2
      <4>2. h[k] = g[k] BY <3>2
      <4>3. k # 0 => k - 1 \in 0 .. j + 1 /\ k - 1 # j + 1 BY <4>1
      <4>4. k # 0 => h[k - 1] = g[k - 1] BY <4>3
      <4>5. g[k] = IF k = 0 THEN Start0 ELSE FactorColumn(q, n, g[k - 1], k) BY <2>1, <4>1
      <4> HIDE DEF h
      <4> QED BY <4>2, <4>4, <4>5
    <3> QED BY <3>1, <3>2
  <2>3. Run(h, j + 1)
    <3>1. h = [k \in 0 .. j + 1 |-> h[k]] OBVIOUS
    <3> HIDE DEF h, Start0
    <3> QED BY <2>2, <3>1
  <2>4. \E f : Run(f, j + 1)
    <3> HIDE DEF h, Run
    <3> QED BY <2>3
  <2> QED BY <2>4
<1>3. n \in Good
  <2> HIDE DEF Good
  <2> QED BY <1>1, <1>2, Sum!NumberInduction
<1>4. \E g : g = FactorStep(q, n, g) BY <1>3 DEF FactorStep
<1>5. Factored(q, n) = FactorStep(q, n, Factored(q, n)) BY <1>4 DEF Factored
<1>6. PositiveSemidefinite(q, n) = Factored(q, n)[n].accepted
  BY DEF PositiveSemidefinite, Factored, FactorStep
<1> DEFINE F == Factored(q, n)
<1>7. F = [k \in 0 .. n |-> IF k = 0 THEN [schur |-> q, accepted |-> TRUE]
                            ELSE FactorColumn(q, n, F[k - 1], k)]
  BY <1>5 DEF FactorStep
<1> HIDE DEF F
<1>8. F[0] = [schur |-> q, accepted |-> TRUE] BY <1>7
<1>9. \A k \in 1 .. n : F[k] = FactorColumn(q, n, F[k - 1], k)
  <2> TAKE k \in 1 .. n
  <2>1. k \in 0 .. n /\ k # 0 OBVIOUS
  <2> QED BY <1>7, <2>1
<1> QED BY <1>6, <1>8, <1>9 DEF F

\* One column, in its two parts.
LEMMA ColumnFacts ==
    ASSUME NEW q, NEW n \in Nat, NEW k \in 1 .. n
    PROVE  LET old == Factored(q, n)[k - 1]
               new == Factored(q, n)[k]
               pivot == old.schur[<<k, k>>]
           IN  /\ new.schur = IF pivot > 0 THEN Eliminated(old.schur, k) ELSE old.schur
               /\ new.accepted <=> /\ old.accepted /\ pivot >= 0
                                   /\ pivot = 0 => ColumnIsZero(q, k, n)
<1>1. Factored(q, n)[k] = FactorColumn(q, n, Factored(q, n)[k - 1], k) BY FactoredFacts
<1> QED BY <1>1 DEF FactorColumn

-----------------------------------------------------------------------------
(* The minors and the pivots of a symmetric matrix of order 3: a, b, c on  *)
(* the diagonal, d, e, f beside it.                                        *)
LEMMA ProductSigns ==
    \A u, v \in Int : /\ u > 0 => (u * v >= 0 <=> v >= 0)
                      /\ u > 0 => (u * v > 0 <=> v > 0)
                      /\ u * u >= 0 /\ (u * u = 0 <=> u = 0)
                      /\ u * u = u * u
<1> SUFFICES ASSUME NEW u \in Int, NEW v \in Int
             PROVE  /\ u > 0 => (u * v >= 0 <=> v >= 0)
                    /\ u > 0 => (u * v > 0 <=> v > 0)
                    /\ u * u >= 0 /\ (u * u = 0 <=> u = 0)
  OBVIOUS
<1>1. ASSUME u > 0 PROVE (u * v >= 0 <=> v >= 0) /\ (u * v > 0 <=> v > 0)
  <2>1. CASE v > 0 BY <1>1, <2>1
  <2>2. CASE v = 0 BY <1>1, <2>2
  <2>3. CASE v < 0
    <3>1. -v > 0 BY <2>3
    <3>2. u * (-v) > 0 BY <1>1, <3>1
    <3>3. u * (-v) = -(u * v) OBVIOUS
    <3> QED BY <2>3, <3>2, <3>3
  <2> QED BY <2>1, <2>2, <2>3
<1>2. u * u >= 0 /\ (u * u = 0 <=> u = 0) OBVIOUS
<1> QED BY <1>1, <1>2

\* The determinant in terms of the pivots, expanded along either end.
LEMMA MinorIdentities ==
    ASSUME NEW a \in Int, NEW b \in Int, NEW c \in Int,
           NEW d \in Int, NEW e \in Int, NEW f \in Int
    PROVE  LET m12 == a * b - d * d
               m13 == a * c - e * e
               m23 == b * c - f * f
               det == a * m23 - d * (d * c - f * e) + e * (d * f - b * e)
           IN  /\ m12 * m13 - (a * f - d * e) * (a * f - d * e) = a * det
               /\ m12 * m23 - (b * e - d * f) * (b * e - d * f) = b * det
OBVIOUS

\* The tests of the factorization against the minors, order 3.
MinorsHold(a, b, c, d, e, f) ==
    /\ a >= 0 /\ b >= 0 /\ c >= 0
    /\ a * b - d * d >= 0 /\ a * c - e * e >= 0 /\ b * c - f * f >= 0
    /\ a * (b * c - f * f) - d * (d * c - f * e) + e * (d * f - b * e) >= 0
PivotsHold(a, b, c, d, e, f) ==
    \/ /\ a > 0 /\ a * b - d * d > 0
       /\ (a * b - d * d) * (a * c - e * e) - (a * f - d * e) * (a * f - d * e) >= 0
    \/ /\ a = 0 /\ d = 0 /\ e = 0
       /\ \/ b > 0 /\ b * c - f * f >= 0
          \/ b = 0 /\ f = 0 /\ c >= 0
LEMMA PivotsAndMinors ==
    ASSUME NEW a \in Int, NEW b \in Int, NEW c \in Int,
           NEW d \in Int, NEW e \in Int, NEW f \in Int,
           ~(a > 0 /\ a * b - d * d = 0)
    PROVE  MinorsHold(a, b, c, d, e, f) <=> PivotsHold(a, b, c, d, e, f)
<1> DEFINE m12 == a * b - d * d
           m13 == a * c - e * e
           m23 == b * c - f * f
           det == a * m23 - d * (d * c - f * e) + e * (d * f - b * e)
           g == a * f - d * e
           h == b * e - d * f
           minors == /\ a >= 0 /\ b >= 0 /\ c >= 0
                     /\ m12 >= 0 /\ m13 >= 0 /\ m23 >= 0 /\ det >= 0
           pivots == \/ a > 0 /\ m12 > 0 /\ m12 * m13 - g * g >= 0
                     \/ /\ a = 0 /\ d = 0 /\ e = 0
                        /\ \/ b > 0 /\ m23 >= 0
                           \/ b = 0 /\ f = 0 /\ c >= 0
<1>0. /\ m12 \in Int /\ m13 \in Int /\ m23 \in Int /\ det \in Int /\ g \in Int /\ h \in Int
      /\ d * d \in Int /\ e * e \in Int /\ f * f \in Int
      /\ d * d >= 0 /\ e * e >= 0 /\ f * f >= 0 /\ g * g >= 0 /\ h * h >= 0
  OBVIOUS
<1>1. m12 * m13 - g * g = a * det /\ m12 * m23 - h * h = b * det BY MinorIdentities
<1>2. ASSUME a > 0 PROVE minors <=> pivots
  <2>1. m12 # 0 BY <1>2
  <2>2. minors => pivots
    <3> SUFFICES ASSUME minors PROVE m12 > 0 /\ m12 * m13 - g * g >= 0 BY <1>2
    <3>1. m12 > 0 BY <1>0, <2>1
    <3>2. a * det >= 0
      <4> HIDE DEF det
      <4> QED BY <1>0, <1>2, ProductSigns
    <3> QED BY <1>1, <3>1, <3>2
  <2>3. ASSUME m12 > 0, m12 * m13 - g * g >= 0 PROVE minors
    <3>1. det >= 0
      <4>1. a * det >= 0 BY <1>1, <2>3
      <4> HIDE DEF det
      <4> QED BY <1>0, <1>2, <4>1, ProductSigns
    <3>2. m13 >= 0
      <4>1. m12 * m13 >= 0
        <5> DEFINE k == m12 * m13
                   l == g * g
        <5>1. k \in Int /\ l \in Int /\ l >= 0 /\ k - l >= 0 BY <1>0, <2>3
        <5> HIDE DEF k, l
        <5>2. k >= 0 BY <5>1
        <5> QED BY <5>2 DEF k
      <4> HIDE DEF m12, m13
      <4> QED BY <1>0, <2>3, <4>1, ProductSigns
    <3>3. b > 0
      <4>1. a * b > 0
        <5> DEFINE k == a * b
                   l == d * d
        <5>1. k \in Int /\ l \in Int /\ l >= 0 /\ k - l > 0 BY <1>0, <2>3
        <5> HIDE DEF k, l
        <5>2. k > 0 BY <5>1
        <5> QED BY <5>2 DEF k
      <4> QED BY <1>2, <4>1, ProductSigns
    <3>4. c >= 0
      <4>1. a * c >= 0
        <5> DEFINE k == a * c
                   l == e * e
        <5>1. k \in Int /\ l \in Int /\ l >= 0 /\ k - l >= 0 BY <1>0, <3>2
        <5> HIDE DEF k, l
        <5>2. k >= 0 BY <5>1
        <5> QED BY <5>2 DEF k
      <4> QED BY <1>2, <4>1, ProductSigns
    <3>5. m23 >= 0
      <4>1. b * det >= 0
        <5> HIDE DEF det
        <5> QED BY <1>0, <3>1, <3>3, ProductSigns
      <4>2. m12 * m23 >= 0
        <5> DEFINE k == m12 * m23
                   l == h * h
                   j == b * det
        <5>1. k \in Int /\ l \in Int /\ l >= 0 /\ j >= 0 /\ j \in Int /\ k - l = j
          BY <1>0, <1>1, <4>1
        <5> HIDE DEF k, l, j
        <5>2. k >= 0 BY <5>1
        <5> QED BY <5>2 DEF k
      <4> HIDE DEF m12, m23
      <4> QED BY <1>0, <2>3, <4>2, ProductSigns
    <3> QED BY <1>2, <2>3, <3>1, <3>2, <3>3, <3>4, <3>5
  <2> QED BY <1>2, <2>2, <2>3
<1>3. ASSUME a = 0 PROVE minors <=> pivots
  <2>1. m12 = -(d * d) /\ m13 = -(e * e) BY <1>3
  <2>2. (d * d = 0 <=> d = 0) /\ (e * e = 0 <=> e = 0) /\ (f * f = 0 <=> f = 0)
    BY ProductSigns
  <2>3. m12 >= 0 /\ m13 >= 0 <=> d = 0 /\ e = 0 BY <1>0, <2>1, <2>2
  <2>4. ASSUME d = 0, e = 0
        PROVE  b >= 0 /\ c >= 0 /\ m23 >= 0 /\ det >= 0
                 <=> (b > 0 /\ m23 >= 0) \/ (b = 0 /\ f = 0 /\ c >= 0)
    <3>1. det = 0 BY <1>3, <2>4
    <3>2. CASE b > 0
      <4>1. m23 >= 0 => c >= 0
        <5>1. m23 >= 0 => b * c >= 0
          <6> DEFINE k == b * c
                     l == f * f
          <6>1. k \in Int /\ l \in Int /\ l >= 0 /\ (m23 >= 0 => k - l >= 0) BY <1>0
          <6> HIDE DEF k, l, m23
          <6>2. m23 >= 0 => k >= 0 BY <6>1
          <6> QED BY <6>2 DEF k
        <5> QED BY <3>2, <5>1, ProductSigns
      <4> QED BY <3>1, <3>2, <4>1
    <3>3. CASE b = 0
      <4>1. m23 = -(f * f) BY <3>3
      <4>2. m23 >= 0 <=> f = 0 BY <1>0, <2>2, <4>1
      <4> QED BY <3>1, <3>3, <4>2
    <3>4. CASE b < 0 BY <3>4
    <3> QED BY <3>2, <3>3, <3>4
  <2> QED BY <1>3, <2>3, <2>4
<1>4. ASSUME a < 0 PROVE minors <=> pivots BY <1>4
<1>5. minors <=> pivots BY <1>2, <1>3, <1>4
<1>6. /\ MinorsHold(a, b, c, d, e, f) <=> minors
      /\ PivotsHold(a, b, c, d, e, f) <=> pivots
  BY DEF MinorsHold, PivotsHold
<1> QED BY <1>5, <1>6

IsSymmetric(q, n) ==
    /\ q \in [(1 .. n) \X (1 .. n) -> Int]
    /\ \A i, j \in 1 .. n : q[<<i, j>>] = q[<<j, i>>]

LEMMA EliminatedEntries ==
    ASSUME NEW n \in Nat, NEW s, IsSymmetric(s, n), NEW k \in 1 .. n
    PROVE  /\ IsSymmetric(Eliminated(s, k), n)
           /\ \A i, j \in 1 .. n :
                 Eliminated(s, k)[<<i, j>>] =
                     IF i > k /\ j > k
                     THEN s[<<k, k>>] * s[<<i, j>>] - s[<<i, k>>] * s[<<j, k>>]
                     ELSE s[<<i, j>>]
<1> DEFINE D == (1 .. n) \X (1 .. n)
           value(e) == IF e[1] > k /\ e[2] > k
                       THEN s[<<k, k>>] * s[e] - s[<<e[1], k>>] * s[<<e[2], k>>]
                       ELSE s[e]
           el == Eliminated(s, k)
<1>1. el = [e \in D |-> value(e)] BY DEF Eliminated, IsSymmetric
<1>2. \A i, j \in 1 .. n : s[<<i, j>>] \in Int /\ s[<<i, j>>] = s[<<j, i>>]
  BY DEF IsSymmetric
<1>3. ASSUME NEW i \in 1 .. n, NEW j \in 1 .. n
      PROVE  el[<<i, j>>] = IF i > k /\ j > k
                            THEN s[<<k, k>>] * s[<<i, j>>] - s[<<i, k>>] * s[<<j, k>>]
                            ELSE s[<<i, j>>]
  <2>1. <<i, j>> \in D OBVIOUS
  <2> QED BY <1>1, <2>1
<1>4. ASSUME NEW i \in 1 .. n, NEW j \in 1 .. n
      PROVE  el[<<i, j>>] \in Int /\ el[<<i, j>>] = el[<<j, i>>]
  <2>1. /\ s[<<i, j>>] \in Int /\ s[<<k, k>>] \in Int /\ s[<<i, k>>] \in Int /\ s[<<j, k>>] \in Int
        /\ s[<<i, j>>] = s[<<j, i>>]
    BY <1>2
  <2>2. el[<<i, j>>] \in Int BY <1>3, <2>1
  <2>3. s[<<i, k>>] * s[<<j, k>>] = s[<<j, k>>] * s[<<i, k>>] BY <2>1
  <2>4. el[<<i, j>>] = el[<<j, i>>]
    <3> HIDE DEF el
    <3> QED BY <1>3, <2>1, <2>3
  <2> QED BY <2>2, <2>4
<1>5. el \in [D -> Int]
  <2>1. \A e \in D : el[e] \in Int
    <3> TAKE e \in D
    <3>1. PICK i \in 1 .. n, j \in 1 .. n : e = <<i, j>> OBVIOUS
    <3> HIDE DEF el
    <3> QED BY <1>4, <3>1
  <2>2. el = [e \in D |-> el[e]] BY <1>1
  <2> HIDE DEF el
  <2> QED BY <2>1, <2>2
<1> HIDE DEF el
<1> QED BY <1>3, <1>4, <1>5 DEF IsSymmetric, el

LEMMA EntryBehind ==
    ASSUME NEW n \in Nat, NEW s, IsSymmetric(s, n), NEW k \in 1 .. n,
           NEW i \in 1 .. n, i > k
    PROVE  Eliminated(s, k)[<<i, i>>] = s[<<k, k>>] * s[<<i, i>>] - s[<<i, k>>] * s[<<i, k>>]
BY EliminatedEntries

\* For the orders up to 3 the factorization decides what the minors decide.
LEMMA SmallMatricesAreJudged ==
    ASSUME NEW n \in 1 .. 3, NEW q, IsSymmetric(q, n), ~ZeroPivotInside(q, n)
    PROVE  PositiveSemidefinite(q, n) <=> IsSemidefinite(q, n)
<1> DEFINE F == Factored(q, n)
           entry(i, j) == q[<<i, j>>]
<1>0. n \in Nat /\ 1 \in 1 .. n /\ \A i, j \in 1 .. n : entry(i, j) \in Int /\ entry(i, j) = entry(j, i)
  BY DEF IsSymmetric
<1>1. F[0].schur = q /\ F[0].accepted = TRUE /\ PositiveSemidefinite(q, n) = F[n].accepted
  <2>1. /\ F[0] = [schur |-> q, accepted |-> TRUE]
        /\ PositiveSemidefinite(q, n) = F[n].accepted
    BY <1>0, FactoredFacts
  <2> HIDE DEF F
  <2> QED BY <2>1
<1>6. /\ IsSymmetric(Eliminated(q, 1), n)
      /\ \A i, j \in 1 .. n :
            i > 1 /\ j > 1 => Eliminated(q, 1)[<<i, j>>] =
                                entry(1, 1) * entry(i, j) - entry(i, 1) * entry(j, 1)
  BY <1>0, EliminatedEntries
<1>2. /\ F[1].schur = IF entry(1, 1) > 0 THEN Eliminated(q, 1) ELSE q
      /\ F[1].accepted <=> /\ entry(1, 1) >= 0
                           /\ entry(1, 1) = 0 => ColumnIsZero(q, 1, n)
  <2>1. 1 - 1 = 0 OBVIOUS
  <2> QED BY <1>0, <1>1, <2>1, ColumnFacts
<1> HIDE DEF F
<1>3. CASE n = 1
  <2>1. ColumnIsZero(q, 1, 1) BY DEF ColumnIsZero
  <2>2. PositiveSemidefinite(q, 1) <=> entry(1, 1) >= 0 BY <1>1, <1>2, <1>3, <2>1
  <2>3. IsSemidefinite(q, 1) <=> entry(1, 1) >= 0 BY DEF IsSemidefinite
  <2> QED BY <1>3, <2>2, <2>3
<1>4. CASE n = 2
  <2> DEFINE a == entry(1, 1)
             b == entry(2, 2)
             d == entry(1, 2)
  <2>1. a \in Int /\ b \in Int /\ d \in Int /\ entry(2, 1) = d BY <1>0, <1>4
  <2>2. F[1].schur[<<2, 2>>] = IF a > 0 THEN a * b - d * d ELSE b
    <3>1. Eliminated(q, 1)[<<2, 2>>] = a * b - d * d
      BY <1>4, <1>6, <2>1
    <3> QED BY <1>2, <3>1
  <2>3. ColumnIsZero(q, 1, 2) <=> d = 0
    <3>1. 1 + 1 .. 2 = {2} OBVIOUS
    <3> QED BY <2>1, <3>1 DEF ColumnIsZero
  <2>4. ColumnIsZero(q, 2, 2)
    <3>1. 2 + 1 .. 2 = {} OBVIOUS
    <3> QED BY <3>1 DEF ColumnIsZero
  <2>5. F[2].accepted <=> F[1].accepted /\ F[1].schur[<<2, 2>>] >= 0
    <3>1. 2 \in 1 .. n /\ 2 - 1 = 1 BY <1>4
    <3> QED BY <1>0, <1>4, <2>4, <3>1, ColumnFacts DEF F
  <2>6. PositiveSemidefinite(q, 2) <=>
            (a > 0 /\ a * b - d * d >= 0) \/ (a = 0 /\ d = 0 /\ b >= 0)
    BY <1>1, <1>2, <1>4, <2>1, <2>2, <2>3, <2>5
  <2>7. IsSemidefinite(q, 2) <=> a >= 0 /\ b >= 0 /\ a * b - d * d >= 0
    <3>1. 1 .. 2 = {1, 2} OBVIOUS
    <3>2. Minor2(q, 1, 2) = a * b - d * d BY <2>1 DEF Minor2
    <3>3. IsSemidefinite(q, 2) <=> a >= 0 /\ b >= 0 /\ Minor2(q, 1, 2) >= 0
      BY <3>1 DEF IsSemidefinite
    <3> QED BY <3>2, <3>3
  <2> HIDE DEF a, b, d
  <2>8. d * d >= 0 /\ (d * d = 0 <=> d = 0) /\ d * d \in Int /\ a * b \in Int
    BY <2>1, ProductSigns
  <2>9. CASE a > 0
    <3>1. a * b - d * d >= 0 => a * b >= 0 BY <2>8
    <3> QED BY <1>4, <2>1, <2>6, <2>7, <2>9, <3>1, ProductSigns
  <2>10. CASE a = 0
    <3>1. a * b - d * d = -(d * d) BY <2>1, <2>10
    <3>2. a * b - d * d >= 0 <=> d = 0
      <4> DEFINE k == d * d
      <4>1. k \in Int /\ k >= 0 /\ (k = 0 <=> d = 0) BY <2>8
      <4>2. a * b - d * d = -k BY <3>1
      <4> HIDE DEF k
      <4> QED BY <4>1, <4>2
    <3> QED BY <1>4, <2>6, <2>7, <2>10, <3>2
  <2>11. CASE a < 0 BY <1>4, <2>1, <2>6, <2>7, <2>11
  <2> QED BY <2>1, <2>9, <2>10, <2>11
<1>5. CASE n = 3
  <2> DEFINE a == entry(1, 1)
             b == entry(2, 2)
             c == entry(3, 3)
             d == entry(1, 2)
             e == entry(1, 3)
             f == entry(2, 3)
             m12 == a * b - d * d
             m13 == a * c - e * e
             m23 == b * c - f * f
             det == a * m23 - d * (d * c - f * e) + e * (d * f - b * e)
             g == a * f - d * e
             s == F[1].schur
             t == F[2].schur
  <2>1. /\ a \in Int /\ b \in Int /\ c \in Int /\ d \in Int /\ e \in Int /\ f \in Int
        /\ entry(2, 1) = d /\ entry(3, 1) = e /\ entry(3, 2) = f
    BY <1>0, <1>5
  <2>2. 1 \in 1 .. n /\ 2 \in 1 .. n /\ 3 \in 1 .. n BY <1>5
  <2>3. /\ IsSymmetric(s, n)
        /\ s[<<2, 2>>] = IF a > 0 THEN m12 ELSE b
        /\ s[<<3, 3>>] = IF a > 0 THEN m13 ELSE c
        /\ s[<<3, 2>>] = IF a > 0 THEN g ELSE f
    <3>1. /\ IsSymmetric(Eliminated(q, 1), n)
          /\ Eliminated(q, 1)[<<2, 2>>] = a * entry(2, 2) - entry(2, 1) * entry(2, 1)
          /\ Eliminated(q, 1)[<<3, 3>>] = a * entry(3, 3) - entry(3, 1) * entry(3, 1)
          /\ Eliminated(q, 1)[<<3, 2>>] = a * entry(3, 2) - entry(3, 1) * entry(2, 1)
      BY <1>6, <2>2
    <3>2. entry(3, 1) * entry(2, 1) = d * e BY <2>1
    <3> QED BY <1>2, <2>1, <3>1, <3>2
  <2>4. t[<<3, 3>>] = IF s[<<2, 2>>] > 0
                      THEN s[<<2, 2>>] * s[<<3, 3>>] - s[<<3, 2>>] * s[<<3, 2>>]
                      ELSE s[<<3, 3>>]
    <3>1. 2 - 1 = 1 OBVIOUS
    <3>2. t = IF s[<<2, 2>>] > 0 THEN Eliminated(s, 2) ELSE s
      BY <1>0, <2>2, <3>1, ColumnFacts DEF F
    <3>3. Eliminated(s, 2)[<<3, 3>>] = s[<<2, 2>>] * s[<<3, 3>>] - s[<<3, 2>>] * s[<<3, 2>>]
      <4>0. n \in Nat /\ IsSymmetric(s, n) /\ 2 \in 1 .. n BY <1>0, <2>2, <2>3
      <4> HIDE DEF s
      <4>1. 3 \in 1 .. n /\ 3 > 2 BY <2>2
      <4> QED BY <4>0, <4>1, EntryBehind
    <3> QED BY <3>2, <3>3
  <2>5. /\ ColumnIsZero(q, 1, 3) <=> d = 0 /\ e = 0
        /\ ColumnIsZero(q, 2, 3) <=> f = 0
        /\ ColumnIsZero(q, 3, 3)
    <3>1. 1 + 1 .. 3 = {2, 3} /\ 2 + 1 .. 3 = {3} /\ 3 + 1 .. 3 = {} OBVIOUS
    <3> QED BY <2>1, <3>1 DEF ColumnIsZero
  <2>6. F[2].accepted <=> /\ F[1].accepted /\ s[<<2, 2>>] >= 0
                          /\ s[<<2, 2>>] = 0 => ColumnIsZero(q, 2, 3)
    <3>1. 2 - 1 = 1 OBVIOUS
    <3> QED BY <1>0, <1>5, <2>2, <3>1, ColumnFacts DEF F
  <2>7. F[3].accepted <=> F[2].accepted /\ t[<<3, 3>>] >= 0
    <3>1. 3 - 1 = 2 OBVIOUS
    <3> QED BY <1>0, <1>5, <2>2, <2>5, <3>1, ColumnFacts DEF F
  <2>8. /\ ZeroPivotInside(q, 3) <=> a > 0 /\ m12 = 0
        /\ IsSemidefinite(q, 3) <=> /\ a >= 0 /\ b >= 0 /\ c >= 0
                                    /\ m12 >= 0 /\ m13 >= 0 /\ m23 >= 0 /\ det >= 0
    <3>1. 1 .. 3 = {1, 2, 3} OBVIOUS
    <3>2. Minor2(q, 1, 2) = m12 /\ Minor2(q, 1, 3) = m13 /\ Minor2(q, 2, 3) = m23
      BY <2>1 DEF Minor2
    <3>3. Determinant3(q) = det BY <3>2 DEF Determinant3
    <3>4. IsSemidefinite(q, 3) <=>
              /\ a >= 0 /\ b >= 0 /\ c >= 0
              /\ Minor2(q, 1, 2) >= 0 /\ Minor2(q, 1, 3) >= 0 /\ Minor2(q, 2, 3) >= 0
              /\ Determinant3(q) >= 0
      BY <3>1 DEF IsSemidefinite
    <3> QED BY <3>2, <3>3, <3>4 DEF ZeroPivotInside
  <2> HIDE DEF a, b, c, d, e, f, s, t
  <2>9. ~(a > 0 /\ m12 = 0) BY <1>5, <2>8
  <2> DEFINE pivots == \/ a > 0 /\ m12 > 0 /\ m12 * m13 - g * g >= 0
                       \/ /\ a = 0 /\ d = 0 /\ e = 0
                          /\ \/ b > 0 /\ m23 >= 0
                             \/ b = 0 /\ f = 0 /\ c >= 0
  <2>10. IsSemidefinite(q, 3) <=> pivots
    <3>1. MinorsHold(a, b, c, d, e, f) <=> PivotsHold(a, b, c, d, e, f)
      BY <2>1, <2>9, PivotsAndMinors
    <3>2. PivotsHold(a, b, c, d, e, f) <=> pivots BY DEF PivotsHold
    <3>3. MinorsHold(a, b, c, d, e, f) <=>
              /\ a >= 0 /\ b >= 0 /\ c >= 0
              /\ m12 >= 0 /\ m13 >= 0 /\ m23 >= 0 /\ det >= 0
      BY DEF MinorsHold
    <3> HIDE DEF pivots, m12, m13, m23, det
    <3> QED BY <2>8, <3>1, <3>2, <3>3
  <2>11. PositiveSemidefinite(q, 3) <=> pivots
    <3>1. PositiveSemidefinite(q, 3) <=>
              /\ a >= 0 /\ (a = 0 => d = 0 /\ e = 0)
              /\ s[<<2, 2>>] >= 0 /\ (s[<<2, 2>>] = 0 => f = 0)
              /\ t[<<3, 3>>] >= 0
      BY <1>1, <1>2, <1>5, <2>5, <2>6, <2>7 DEF a
    <3>2. CASE a > 0
      <4>1. s[<<2, 2>>] = m12 /\ s[<<3, 3>>] = m13 /\ s[<<3, 2>>] = g /\ m12 # 0
        BY <2>3, <2>9, <3>2
      <4>2. m12 \in Int BY <2>1
      <4>3. m12 > 0 => t[<<3, 3>>] = m12 * m13 - g * g BY <2>4, <4>1
      <4> HIDE DEF m12, m13, m23, g
      <4> QED BY <2>1, <3>1, <3>2, <4>1, <4>2, <4>3
    <3>3. CASE a = 0
      <4>1. s[<<2, 2>>] = b /\ s[<<3, 3>>] = c /\ s[<<3, 2>>] = f BY <2>1, <2>3, <3>3
      <4>2. t[<<3, 3>>] = IF b > 0 THEN b * c - f * f ELSE c BY <2>4, <4>1
      <4> QED BY <2>1, <3>1, <3>3, <4>1, <4>2
    <3>4. CASE a < 0 BY <2>1, <3>1, <3>4
    <3> QED BY <2>1, <3>2, <3>3, <3>4
  <2> QED BY <1>5, <2>10, <2>11
<1> QED BY <1>3, <1>4, <1>5

\* Of the QPs of up to three variables exactly those are refused whose matrix
\* is not semidefinite, unless a zero pivot follows a positive one.
THEOREM SmallQpsAreJudged ==
    ASSUME \A q \in Requests : Len(q.model.linear) <= 3
    PROVE  Spec => []RegularMatricesAreJudged
<1>1. PdInv => RegularMatricesAreJudged
  <2> SUFFICES ASSUME PdInv, Judged,
                      ~ZeroPivotInside(model.quadratic, Len(model.linear))
               PROVE  status = "UnsupportedModel"
                        <=> ~IsSemidefinite(model.quadratic, Len(model.linear))
    BY DEF RegularMatricesAreJudged, MatricesAreJudged
  <2> DEFINE n == Len(model.linear)
  <2>1. IsModel(model) /\ n <= 3 BY RequestsAssumption DEF PdInv, model, IsCall
  <2>2. Outcome /\ status # "InvalidModel" /\ request.solver = "QP" /\ model.class = "QP"
        /\ request.method = "Auto"
    BY DEF PdInv, Judged
  <2>3. n \in Nat /\ model.linear \in [1 .. n -> Int] BY <2>1, ModelFacts DEF Lists
  <2>4. n # 0
    <3> SUFFICES ASSUME n = 0 PROVE FALSE OBVIOUS
    <3>1. model.linear = <<>> BY <2>1 DEF IsModel
    <3> QED BY <2>2, <3>1 DEF Outcome, Refusal, model
  <2>5. IsSymmetric(model.quadratic, n) BY <2>1 DEF IsModel, IsSymmetric
  <2>6. PositiveSemidefinite(model.quadratic, n) <=> IsSemidefinite(model.quadratic, n)
    <3> HIDE DEF n
    <3>1. n \in 1 .. 3 BY <2>1, <2>3, <2>4
    <3> QED BY <2>5, <3>1, SmallMatricesAreJudged DEF n
  <2>7. status = "UnsupportedModel" <=> ~PositiveSemidefinite(model.quadratic, n)
    BY <2>2 DEF Outcome, Refusal, model
  <2> QED BY <2>6, <2>7
<1> QED BY <1>1, PdInvariant, PTL

-----------------------------------------------------------------------------
(* The same for models of any order, by directions instead of minors.      *)

\* Row i of a matrix times d, and d times the matrix times d, over the indices S.
FormRow(s, n, S, d, i) == Sum!Over([j \in 1 .. n |-> s[<<i, j>>] * d[j]], S)
FormOn(s, n, S, d) ==
    Sum!Over([i \in 1 .. n |-> d[i] * FormRow(s, n, S, d, i)], S)

\* What the lemmas below are about.
FormArguments(n, s, S, d) ==
    n \in Nat /\ IsSymmetric(s, n) /\ S \in SUBSET (1 .. n) /\ d \in Lists(1 .. n)

LEMMA SumCombines ==
    ASSUME NEW S, Sum!IsFiniteSet(S), NEW f, NEW g, NEW h, NEW a \in Int, NEW c \in Int,
           \A x0 \in S : f[x0] \in Int /\ g[x0] \in Int /\ h[x0] = a * f[x0] + c * g[x0]
    PROVE  Sum!Over(h, S) = a * Sum!Over(f, S) + c * Sum!Over(g, S)
<1> DEFINE p == [x0 \in S |-> a * f[x0]]
           q == [x0 \in S |-> c * g[x0]]
<1>1. \A x0 \in S : /\ p[x0] = a * f[x0] /\ q[x0] = c * g[x0]
                   /\ p[x0] \in Int /\ q[x0] \in Int /\ h[x0] = p[x0] + q[x0]
  <2> TAKE x0 \in S
  <2>1. p[x0] = a * f[x0] /\ q[x0] = c * g[x0] OBVIOUS
  <2> HIDE DEF p, q
  <2> QED BY <2>1
<1> HIDE DEF p, q
<1>2. Sum!Over(h, S) = Sum!Over(p, S) + Sum!Over(q, S) BY <1>1, SumAdds, Sum!SumOfSums
<1>3. Sum!Over(p, S) = a * Sum!Over(f, S) BY <1>1, SumAdds, Sum!SumScaled
<1>4. Sum!Over(q, S) = c * Sum!Over(g, S) BY <1>1, SumAdds, Sum!SumScaled
<1> QED BY <1>2, <1>3, <1>4

LEMMA IndicesAreFinite ==
    ASSUME NEW n \in Nat, NEW S \in SUBSET (1 .. n) PROVE Sum!IsFiniteSet(S)
<1>1. IsFiniteSet(1 .. n) BY FS_Interval
<1>2. IsFiniteSet(S) BY <1>1, FS_Subset
<1> QED BY <1>2, FinitenessIsOne

\* The sums are integers.
LEMMA FormRowsTyped ==
    ASSUME NEW n, NEW s, NEW S, NEW d, FormArguments(n, s, S, d)
    PROVE  \A i \in 1 .. n : FormRow(s, n, S, d, i) \in Int
<1>a. n \in Nat /\ IsSymmetric(s, n) /\ S \in SUBSET (1 .. n) /\ d \in Lists(1 .. n)
  BY DEF FormArguments
<1> TAKE i \in 1 .. n
<1> DEFINE f == [j \in 1 .. n |-> s[<<i, j>>] * d[j]]
<1>1. \A j \in S : f[j] \in Int
  <2> TAKE j \in S
  <2>1. s[<<i, j>>] \in Int /\ d[j] \in Int /\ j \in 1 .. n BY <1>a DEF IsSymmetric, Lists
  <2> QED BY <2>1
<1> HIDE DEF f
<1>2. Sum!Over(f, S) \in Int BY <1>1, SumAdds, <1>a, IndicesAreFinite, Sum!SumType
<1> QED BY <1>2 DEF FormRow, f

LEMMA FormsTyped ==
    ASSUME NEW n, NEW s, NEW S, NEW d, FormArguments(n, s, S, d)
    PROVE  FormOn(s, n, S, d) \in Int
<1>a. n \in Nat /\ IsSymmetric(s, n) /\ S \in SUBSET (1 .. n) /\ d \in Lists(1 .. n)
  BY DEF FormArguments
<1> DEFINE f == [i \in 1 .. n |-> d[i] * FormRow(s, n, S, d, i)]
<1>1. \A i \in S : f[i] \in Int
  <2> TAKE i \in S
  <2>1. i \in 1 .. n /\ d[i] \in Int BY <1>a DEF Lists
  <2>2. FormRow(s, n, S, d, i) \in Int BY <2>1, FormRowsTyped
  <2> QED BY <2>1, <2>2
<1> HIDE DEF f
<1>2. Sum!Over(f, S) \in Int BY <1>1, SumAdds, <1>a, IndicesAreFinite, Sum!SumType
<1> QED BY <1>2 DEF FormOn, f

\* Only the entries of d in S count, and a factor counts twice.
FormScaled(n, s, S, d, e, c) ==
    /\ \A i \in 1 .. n : FormRow(s, n, S, e, i) = c * FormRow(s, n, S, d, i)
    /\ FormOn(s, n, S, e) = (c * c) * FormOn(s, n, S, d)
LEMMA FormScales ==
    ASSUME NEW n, NEW s, NEW S, NEW d, FormArguments(n, s, S, d),
           NEW e, FormArguments(n, s, S, e), NEW c \in Int,
           \A j \in S : e[j] = c * d[j]
    PROVE  FormScaled(n, s, S, d, e, c)
<1>a. n \in Nat /\ IsSymmetric(s, n) /\ S \in SUBSET (1 .. n) /\ d \in Lists(1 .. n)
  BY DEF FormArguments
<1>0. Sum!IsFiniteSet(S) BY <1>a, IndicesAreFinite
<1>1. ASSUME NEW i \in 1 .. n
      PROVE  FormRow(s, n, S, e, i) = c * FormRow(s, n, S, d, i)
  <2> DEFINE f == [j \in 1 .. n |-> s[<<i, j>>] * d[j]]
             h == [j \in 1 .. n |-> s[<<i, j>>] * e[j]]
  <2>1. \A j \in S : f[j] \in Int /\ h[j] = c * f[j]
    <3> TAKE j \in S
    <3>1. f[j] = s[<<i, j>>] * d[j] /\ h[j] = s[<<i, j>>] * (c * d[j]) BY <1>a
    <3>2. s[<<i, j>>] \in Int /\ d[j] \in Int /\ j \in 1 .. n BY <1>a DEF IsSymmetric, Lists
    <3> HIDE DEF f, h
    <3> QED BY <3>1, <3>2
  <2> HIDE DEF f, h
  <2>2. Sum!Over(h, S) = c * Sum!Over(f, S) BY <1>0, <2>1, SumAdds, Sum!SumScaled
  <2> QED BY <2>2 DEF FormRow, f, h
<1>2. FormOn(s, n, S, e) = (c * c) * FormOn(s, n, S, d)
  <2> DEFINE f == [i \in 1 .. n |-> d[i] * FormRow(s, n, S, d, i)]
             h == [i \in 1 .. n |-> e[i] * FormRow(s, n, S, e, i)]
             cc == c * c
  <2>1. \A i \in S : f[i] \in Int /\ h[i] = cc * f[i]
    <3> TAKE i \in S
    <3> DEFINE r == FormRow(s, n, S, d, i)
    <3>1. i \in 1 .. n /\ d[i] \in Int BY <1>a DEF Lists
    <3>2. r \in Int BY <3>1, FormRowsTyped
    <3>3. f[i] = d[i] * r /\ h[i] = (c * d[i]) * (c * r) BY <1>1, <3>1
    <3> HIDE DEF f, h, r
    <3>4. (c * d[i]) * (c * r) = (c * c) * (d[i] * r) BY <3>1, <3>2
    <3> QED BY <3>1, <3>2, <3>3, <3>4
  <2>2. cc \in Int OBVIOUS
  <2> HIDE DEF f, h, cc
  <2>3. Sum!Over(h, S) = cc * Sum!Over(f, S) BY <1>0, <2>1, <2>2, SumAdds, Sum!SumScaled
  <2> QED BY <2>3 DEF FormOn, f, h, cc
<1> QED BY <1>1, <1>2 DEF FormScaled

LEMMA FormOfZeros ==
    ASSUME NEW n, NEW s, NEW S, NEW d, FormArguments(n, s, S, d), \A j \in S : d[j] = 0
    PROVE  /\ \A i \in 1 .. n : FormRow(s, n, S, d, i) = 0
           /\ FormOn(s, n, S, d) = 0
<1>a. n \in Nat /\ IsSymmetric(s, n) /\ S \in SUBSET (1 .. n) /\ d \in Lists(1 .. n)
  BY DEF FormArguments
<1> DEFINE none == 0
<1>1. \A j \in S : d[j] = none * d[j]
  <2> TAKE j \in S
  <2>1. d[j] = 0 OBVIOUS
  <2> QED BY <2>1
<1>2. none \in Int /\ \A j \in S : j \in 1 .. n BY <1>a
<1> HIDE DEF none
<1>3. /\ \A i \in 1 .. n : FormRow(s, n, S, d, i) = none * FormRow(s, n, S, d, i)
      /\ FormOn(s, n, S, d) = (none * none) * FormOn(s, n, S, d)
  <2>1. FormScaled(n, s, S, d, d, none) BY <1>1, <1>2, FormScales
  <2> QED BY <2>1 DEF FormScaled
<1>4. \A i \in 1 .. n : FormRow(s, n, S, d, i) \in Int BY FormRowsTyped
<1>5. FormOn(s, n, S, d) \in Int BY FormsTyped
<1> QED BY <1>3, <1>4, <1>5 DEF none

\* One index taken out.
Split(a, x0, l, rest) == a * (x0 * x0) + 2 * (x0 * l) + rest
FormIsSplit(n, s, S, d, k) ==
    /\ \A i \in 1 .. n : FormRow(s, n, S \cup {k}, d, i)
                           = s[<<i, k>>] * d[k] + FormRow(s, n, S, d, i)
    /\ FormOn(s, n, S \cup {k}, d)
         = Split(s[<<k, k>>], d[k], FormRow(s, n, S, d, k), FormOn(s, n, S, d))
LEMMA FormSplits ==
    ASSUME NEW n, NEW s, NEW S, NEW d, FormArguments(n, s, S, d), NEW k \in 1 .. n, k \notin S
    PROVE  FormIsSplit(n, s, S, d, k)
<1>a. n \in Nat /\ IsSymmetric(s, n) /\ S \in SUBSET (1 .. n) /\ d \in Lists(1 .. n)
  BY DEF FormArguments
<1> DEFINE T == S \cup {k}
<1>0. /\ T \in SUBSET (1 .. n) /\ T \ {k} = S /\ k \in T
      /\ Sum!IsFiniteSet(S) /\ Sum!IsFiniteSet(T)
  <2>1. T \in SUBSET (1 .. n) /\ T \ {k} = S /\ k \in T BY <1>a
  <2> HIDE DEF T
  <2> QED BY <1>a, <2>1, IndicesAreFinite
<1>1. \A i, j \in 1 .. n : s[<<i, j>>] \in Int /\ s[<<i, j>>] = s[<<j, i>>] BY <1>a DEF IsSymmetric
<1>2. \A i \in 1 .. n : d[i] \in Int BY <1>a DEF Lists
<1> HIDE DEF T
<1>3. ASSUME NEW i \in 1 .. n
      PROVE  FormRow(s, n, T, d, i) = s[<<i, k>>] * d[k] + FormRow(s, n, S, d, i)
  <2> DEFINE f == [j \in 1 .. n |-> s[<<i, j>>] * d[j]]
  <2>1. \A j \in T : f[j] \in Int
    <3> TAKE j \in T
    <3>1. j \in 1 .. n BY <1>0
    <3>2. s[<<i, j>>] \in Int /\ d[j] \in Int BY <1>1, <1>2, <3>1
    <3> QED BY <3>1, <3>2
  <2>2. f[k] = s[<<i, k>>] * d[k] OBVIOUS
  <2> HIDE DEF f
  <2>3. Sum!Over(f, T) = f[k] + Sum!Over(f, T \ {k}) BY <1>0, <2>1, SumAdds, Sum!SumAny
  <2> QED BY <1>0, <2>2, <2>3 DEF FormRow, f
<1> DEFINE x0 == d[k]
           l == FormRow(s, n, S, d, k)
           row == [j \in 1 .. n |-> s[<<k, j>>] * d[j]]
           one == 1
           inner == [i \in 1 .. n |-> d[i] * FormRow(s, n, S, d, i)]
           outer == [i \in 1 .. n |-> d[i] * FormRow(s, n, T, d, i)]
<1>4. ASSUME NEW i \in 1 .. n
      PROVE  /\ row[i] \in Int /\ inner[i] \in Int /\ outer[i] \in Int
             /\ outer[i] = x0 * row[i] + one * inner[i]
  <2> DEFINE r == FormRow(s, n, S, d, i)
             c == s[<<i, k>>]
             z == d[i]
  <2>1. c \in Int /\ c = s[<<k, i>>] /\ z \in Int /\ x0 \in Int BY <1>1, <1>2
  <2>2. r \in Int BY FormRowsTyped
  <2>3. row[i] = s[<<k, i>>] * z /\ inner[i] = z * r /\ outer[i] = z * (c * x0 + r) BY <1>3
  <2> HIDE DEF r, c, z, x0, row, inner, outer, one
  <2>4. row[i] = c * z BY <2>1, <2>3
  <2>5. z * (c * x0 + r) = x0 * (c * z) + z * r BY <2>1, <2>2
  <2>6. z * r \in Int /\ c * z \in Int BY <2>1, <2>2
  <2>7. inner[i] \in Int /\ one * inner[i] = inner[i] BY <2>3, <2>6 DEF one
  <2>8. outer[i] = x0 * row[i] + inner[i] BY <2>3, <2>4, <2>5
  <2> QED BY <2>1, <2>4, <2>6, <2>7, <2>8
<1>5. Sum!Over(row, S) = l BY DEF FormRow
<1>6. Sum!Over(inner, S) = FormOn(s, n, S, d) /\ Sum!Over(outer, T) = FormOn(s, n, T, d)
  BY DEF FormOn
<1>7. outer[k] = x0 * (s[<<k, k>>] * x0 + l)
  <2>1. FormRow(s, n, T, d, k) = s[<<k, k>>] * d[k] + FormRow(s, n, S, d, k) BY <1>3
  <2> QED BY <2>1
<1>8. x0 \in Int /\ l \in Int /\ s[<<k, k>>] \in Int
  <2>1. l \in Int BY FormRowsTyped
  <2> QED BY <1>1, <1>2, <2>1
<1> HIDE DEF row, inner, outer, x0, l, one
<1>9. Sum!Over(outer, T) = outer[k] + Sum!Over(outer, S)
  <2>1. \A i \in T : outer[i] \in Int BY <1>0, <1>4
  <2>2. Sum!Over(outer, T) = outer[k] + Sum!Over(outer, T \ {k})
    BY <1>0, <2>1, SumAdds, Sum!SumAny
  <2> QED BY <1>0, <2>2
<1>10. Sum!Over(outer, S) = x0 * Sum!Over(row, S) + one * Sum!Over(inner, S)
  <2>1. \A i \in S : row[i] \in Int /\ inner[i] \in Int /\ outer[i] = x0 * row[i] + one * inner[i]
    BY <1>a, <1>4
  <2>2. one \in Int BY DEF one
  <2> QED BY <1>0, <1>8, <2>1, <2>2, SumCombines
<1>11. FormOn(s, n, S, d) \in Int BY FormsTyped
<1>12. FormOn(s, n, T, d) = Split(s[<<k, k>>], x0, l, FormOn(s, n, S, d))
  <2> DEFINE a == s[<<k, k>>]
             rest == FormOn(s, n, S, d)
  <2>1. FormOn(s, n, T, d) = x0 * (a * x0 + l) + (x0 * l + one * rest)
    BY <1>5, <1>6, <1>7, <1>9, <1>10
  <2>2. a \in Int /\ rest \in Int BY <1>8, <1>11
  <2> HIDE DEF a, rest
  <2>3. x0 * (a * x0 + l) + (x0 * l + one * rest) = a * (x0 * x0) + 2 * (x0 * l) + rest
    BY <1>8, <2>2 DEF one
  <2> QED BY <2>1, <2>3 DEF Split, a, rest
<1> QED BY <1>3, <1>12 DEF FormIsSplit, T, x0, l

EliminatedAt(s, k, i, j) ==
    Eliminated(s, k)[<<i, j>>] = s[<<k, k>>] * s[<<i, j>>] - s[<<i, k>>] * s[<<j, k>>]
LEMMA EntriesBehind ==
    ASSUME NEW n \in Nat, NEW s, IsSymmetric(s, n), NEW k \in 1 .. n
    PROVE  \A i, j \in 1 .. n : i > k /\ j > k => EliminatedAt(s, k, i, j)
BY EliminatedEntries DEF EliminatedAt

\* What elimination leaves: the form times the pivot, less a square.
LEMMA FormEliminated ==
    ASSUME NEW n, NEW s, NEW S, NEW d, FormArguments(n, s, S, d),
           NEW k \in 1 .. n, \A i \in S : i > k
    PROVE  FormOn(Eliminated(s, k), n, S, d)
             = s[<<k, k>>] * FormOn(s, n, S, d) - FormRow(s, n, S, d, k) * FormRow(s, n, S, d, k)
<1>a. n \in Nat /\ IsSymmetric(s, n) /\ S \in SUBSET (1 .. n) /\ d \in Lists(1 .. n)
  BY DEF FormArguments
<1> DEFINE el == Eliminated(s, k)
           a == s[<<k, k>>]
           l == FormRow(s, n, S, d, k)
<1>0. Sum!IsFiniteSet(S) BY <1>a, IndicesAreFinite
<1>1. \A i, j \in 1 .. n : s[<<i, j>>] \in Int /\ s[<<i, j>>] = s[<<j, i>>]
  BY <1>a DEF IsSymmetric
<1>2. \A i \in 1 .. n : d[i] \in Int BY <1>a DEF Lists
<1>3. a \in Int /\ l \in Int BY <1>1, FormRowsTyped
<1>4. \A i, j \in S : el[<<i, j>>] = a * s[<<i, j>>] - s[<<i, k>>] * s[<<j, k>>]
  <2>1. \A i \in S : i \in 1 .. n /\ i > k BY <1>a
  <2>2. \A i, j \in 1 .. n : i > k /\ j > k => EliminatedAt(s, k, i, j)
    BY <1>a, EntriesBehind
  <2>3. \A i, j \in S : EliminatedAt(s, k, i, j) BY <2>1, <2>2
  <2> QED BY <2>3 DEF EliminatedAt
<1> HIDE DEF el
<1>5. ASSUME NEW i \in S
      PROVE  FormRow(el, n, S, d, i) = a * FormRow(s, n, S, d, i) + (-s[<<i, k>>]) * l
  <2> DEFINE f == [j \in 1 .. n |-> s[<<i, j>>] * d[j]]
             g == [j \in 1 .. n |-> s[<<k, j>>] * d[j]]
             h == [j \in 1 .. n |-> el[<<i, j>>] * d[j]]
             c == -s[<<i, k>>]
  <2>1. c \in Int
    <3>1. i \in 1 .. n BY <1>a
    <3>2. s[<<i, k>>] \in Int BY <1>1, <3>1
    <3> QED BY <3>2
  <2>2. \A j \in S : f[j] \in Int /\ g[j] \in Int /\ h[j] = a * f[j] + c * g[j]
    <3> TAKE j \in S
    <3> DEFINE sij == s[<<i, j>>]
               sjk == s[<<j, k>>]
               z == d[j]
    <3>1. i \in 1 .. n /\ j \in 1 .. n BY <1>a
    <3>2. sij \in Int /\ sjk \in Int /\ s[<<k, j>>] = sjk /\ z \in Int BY <1>1, <1>2, <3>1
    <3>3. f[j] = sij * z /\ g[j] = s[<<k, j>>] * z /\ h[j] = el[<<i, j>>] * z BY <3>1
    <3>4. el[<<i, j>>] = a * sij + c * sjk
      <4>1. el[<<i, j>>] = a * sij - s[<<i, k>>] * sjk BY <1>4
      <4>2. s[<<i, k>>] \in Int BY <1>1, <3>1
      <4> HIDE DEF a, sij, sjk
      <4> QED BY <1>3, <3>2, <4>1, <4>2
    <3> HIDE DEF a, c, sij, sjk, z, f, g, h
    <3>5. (a * sij + c * sjk) * z = a * (sij * z) + c * (sjk * z) BY <1>3, <2>1, <3>2
    <3>6. sij * z \in Int /\ sjk * z \in Int BY <3>2
    <3> QED BY <3>2, <3>3, <3>4, <3>5, <3>6
  <2> HIDE DEF a, c, f, g, h
  <2>3. Sum!Over(h, S) = a * Sum!Over(f, S) + c * Sum!Over(g, S)
    BY <1>0, <1>3, <2>1, <2>2, SumCombines
  <2> QED BY <2>3 DEF FormRow, f, g, h, l, c
<1> DEFINE f == [i \in 1 .. n |-> d[i] * FormRow(s, n, S, d, i)]
           g == [i \in 1 .. n |-> s[<<k, i>>] * d[i]]
           h == [i \in 1 .. n |-> d[i] * FormRow(el, n, S, d, i)]
           m == -l
<1>6. m \in Int BY <1>3
<1>7. \A i \in S : f[i] \in Int /\ g[i] \in Int /\ h[i] = a * f[i] + m * g[i]
  <2> TAKE i \in S
  <2> DEFINE r == FormRow(s, n, S, d, i)
             c == s[<<i, k>>]
             z == d[i]
  <2>1. i \in 1 .. n BY <1>a
  <2>2. r \in Int /\ c \in Int /\ s[<<k, i>>] = c /\ z \in Int
    BY <1>1, <1>2, <2>1, FormRowsTyped
  <2>3. f[i] = z * r /\ g[i] = s[<<k, i>>] * z /\ h[i] = z * FormRow(el, n, S, d, i) BY <2>1
  <2>4. FormRow(el, n, S, d, i) = a * r + (-c) * l BY <1>5
  <2> HIDE DEF a, l, r, c, z, f, g, h
  <2>5. z * (a * r + (-c) * l) = a * (z * r) + (-l) * (c * z) BY <1>3, <2>2
  <2>6. z * r \in Int /\ c * z \in Int BY <2>2
  <2> QED BY <2>2, <2>3, <2>4, <2>5, <2>6
<1>8. FormRow(s, n, S, d, k) = Sum!Over(g, S) BY DEF FormRow
<1>9. /\ FormOn(s, n, S, d) = Sum!Over(f, S)
      /\ FormOn(el, n, S, d) = Sum!Over(h, S)
  BY DEF FormOn
<1>10. Sum!Over(h, S) = a * Sum!Over(f, S) + m * Sum!Over(g, S)
  <2> HIDE DEF a, m, f, g, h
  <2> QED BY <1>0, <1>3, <1>6, <1>7, SumCombines
<1>11. FormOn(s, n, S, d) \in Int BY FormsTyped
<1>12. FormOn(el, n, S, d) = a * FormOn(s, n, S, d) + m * l BY <1>8, <1>9, <1>10
<1> DEFINE o == FormOn(s, n, S, d)
<1>13. a * o + m * l = a * o - l * l
  <2> HIDE DEF a, l, o
  <2> QED BY <1>3, <1>11 DEF o
<1> QED BY <1>12, <1>13 DEF el

\* A form that is nowhere negative.
FormHolds(s, n, S) == \A d \in Lists(1 .. n) : 0 <= FormOn(s, n, S, d)

\* A form takes one value at directions that agree where it looks.
LEMMA FormLocal ==
    ASSUME NEW n, NEW s, NEW S, NEW d, FormArguments(n, s, S, d),
           NEW e, FormArguments(n, s, S, e), \A j \in S : e[j] = d[j]
    PROVE  /\ \A i \in 1 .. n : FormRow(s, n, S, e, i) = FormRow(s, n, S, d, i)
           /\ FormOn(s, n, S, e) = FormOn(s, n, S, d)
<1>a. d \in Lists(1 .. n) /\ S \in SUBSET (1 .. n) BY DEF FormArguments
<1> DEFINE one == 1
<1>1. one \in Int /\ \A j \in S : e[j] = one * d[j]
  <2>1. \A j \in S : d[j] \in Int BY <1>a DEF Lists
  <2> QED BY <2>1
<1> HIDE DEF one
<1>2. /\ \A i \in 1 .. n : FormRow(s, n, S, e, i) = one * FormRow(s, n, S, d, i)
      /\ FormOn(s, n, S, e) = (one * one) * FormOn(s, n, S, d)
  <2>1. FormScaled(n, s, S, d, e, one) BY <1>1, FormScales
  <2> QED BY <2>1 DEF FormScaled
<1>3. \A i \in 1 .. n : FormRow(s, n, S, d, i) \in Int BY FormRowsTyped
<1>4. FormOn(s, n, S, d) \in Int BY FormsTyped
<1> QED BY <1>2, <1>3, <1>4 DEF one

\* A positive pivot: what it leaves decides.
LEMMA PositivePivot ==
    ASSUME NEW n \in Nat, NEW s, IsSymmetric(s, n), NEW k \in 1 .. n,
           NEW S \in SUBSET (1 .. n), \A i \in S : i > k, s[<<k, k>>] > 0
    PROVE  FormHolds(s, n, S \cup {k}) <=> FormHolds(Eliminated(s, k), n, S)
<1> DEFINE a == s[<<k, k>>]
           l(d) == FormRow(s, n, S, d, k)
           whole(d) == FormOn(s, n, S \cup {k}, d)
           part(d) == FormOn(s, n, S, d)
           left(d) == FormOn(Eliminated(s, k), n, S, d)
<1>0. k \notin S /\ a \in Int /\ a > 0 BY DEF IsSymmetric
<1>1. ASSUME NEW d \in Lists(1 .. n)
      PROVE  /\ FormArguments(n, s, S, d) /\ d[k] \in Int
             /\ l(d) \in Int /\ part(d) \in Int /\ left(d) \in Int /\ whole(d) \in Int
             /\ a * whole(d) = (a * d[k] + l(d)) * (a * d[k] + l(d)) + left(d)
  <2>1. FormArguments(n, s, S, d) /\ d[k] \in Int BY DEF FormArguments, Lists
  <2>2. l(d) \in Int BY <2>1, FormRowsTyped
  <2>3. part(d) \in Int BY <2>1, FormsTyped
  <2>4. left(d) = a * part(d) - l(d) * l(d) BY <2>1, FormEliminated
  <2>5. whole(d) = Split(a, d[k], l(d), part(d))
    <3>1. FormIsSplit(n, s, S, d, k) BY <1>0, <2>1, FormSplits
    <3> QED BY <3>1 DEF FormIsSplit
  <2> DEFINE x1 == d[k]
             l1 == l(d)
             p1 == part(d)
  <2>6. x1 \in Int /\ l1 \in Int /\ p1 \in Int BY <2>1, <2>2, <2>3
  <2>7. whole(d) = a * (x1 * x1) + 2 * (x1 * l1) + p1 BY <2>5 DEF Split
  <2>8. left(d) = a * p1 - l1 * l1 BY <2>4
  <2> DEFINE w1 == whole(d)
             f1 == left(d)
  <2>9. w1 = a * (x1 * x1) + 2 * (x1 * l1) + p1 /\ f1 = a * p1 - l1 * l1 BY <2>7, <2>8
  <2> HIDE DEF a, x1, l1, p1, w1, f1
  <2>10. /\ w1 \in Int /\ f1 \in Int
         /\ a * w1 = (a * x1 + l1) * (a * x1 + l1) + f1
    <3> DEFINE xx == x1 * x1
               xl == x1 * l1
               ll == l1 * l1
               ax == a * x1
    <3>1. xx \in Int /\ xl \in Int /\ ll \in Int /\ ax \in Int BY <1>0, <2>6
    <3>2. w1 \in Int /\ f1 \in Int
      <4>1. w1 = a * xx + 2 * xl + p1 /\ f1 = a * p1 - ll BY <2>9
      <4>2. a * xx \in Int /\ a * p1 \in Int BY <1>0, <2>6, <3>1
      <4> HIDE DEF xx, xl, ll, ax
      <4> QED BY <2>6, <3>1, <4>1, <4>2
    <3>3. (ax + l1) * (ax + l1) = ax * ax + 2 * (ax * l1) + ll
      <4> HIDE DEF ax
      <4> QED BY <2>6, <3>1
    <3>4. ax * ax = a * (a * xx) /\ ax * l1 = a * xl BY <1>0, <2>6
    <3>5. a * w1 = a * (a * xx) + 2 * (a * xl) + a * p1
      <4>1. w1 = a * xx + 2 * xl + p1 BY <2>9
      <4>2. a * xx \in Int BY <1>0, <3>1
      <4> HIDE DEF xx, xl
      <4>3. a * (a * xx + 2 * xl + p1) = a * (a * xx) + 2 * (a * xl) + a * p1
        BY <1>0, <2>6, <3>1, <4>2
      <4> QED BY <4>1, <4>3
    <3>6. f1 = a * p1 - ll BY <2>9
    <3>7. a * p1 \in Int /\ a * xl \in Int /\ a * (a * xx) \in Int BY <1>0, <2>6, <3>1
    <3>8. a * w1 = (ax + l1) * (ax + l1) + f1
      <4> DEFINE t1 == a * (a * xx)
                 t2 == a * xl
                 t3 == a * p1
                 t4 == (ax + l1) * (ax + l1)
                 t5 == a * w1
      <4>1. /\ t5 = t1 + 2 * t2 + t3 /\ t4 = t1 + 2 * t2 + ll /\ f1 = t3 - ll
            /\ t1 \in Int /\ t2 \in Int /\ t3 \in Int
        BY <3>3, <3>4, <3>5, <3>6, <3>7
      <4> HIDE DEF t1, t2, t3, t4, t5, ll
      <4>2. t5 = t4 + f1 BY <3>1, <4>1
      <4> QED BY <4>2 DEF t4, t5
    <3> QED BY <3>2, <3>8
  <2> QED BY <2>1, <2>6, <2>10 DEF w1, f1, l1, p1, x1
<1>2. ASSUME FormHolds(Eliminated(s, k), n, S), NEW d \in Lists(1 .. n)
      PROVE  0 <= whole(d)
  <2>1. 0 <= left(d) BY <1>2 DEF FormHolds
  <2> DEFINE root == a * d[k] + l(d)
  <2>2. root \in Int /\ a * whole(d) = root * root + left(d) /\ left(d) \in Int /\ whole(d) \in Int
    <3>1. a * whole(d) = root * root + left(d) /\ left(d) \in Int /\ whole(d) \in Int BY <1>1
    <3>2. d[k] \in Int /\ l(d) \in Int BY <1>1
    <3>3. root \in Int
      <4> HIDE DEF a, l
      <4> QED BY <1>0, <3>2
    <3> QED BY <3>1, <3>3
  <2> HIDE DEF a, root, whole, left
  <2>3. root * root >= 0 BY <2>2
  <2>4. 0 <= a * whole(d) BY <2>1, <2>2, <2>3
  <2> QED BY <1>0, <2>2, <2>4, ProductSigns
<1>3. ASSUME FormHolds(s, n, S \cup {k}), NEW d \in Lists(1 .. n)
      PROVE  0 <= left(d)
  <2> DEFINE e == [j \in 1 .. n |-> IF j = k THEN -l(d) ELSE a * d[j]]
  <2>1. e \in Lists(1 .. n)
    <3>1. \A j \in 1 .. n : d[j] \in Int BY DEF Lists
    <3>2. l(d) \in Int BY <1>1
    <3> HIDE DEF a, l
    <3>3. \A j \in 1 .. n : (IF j = k THEN -l(d) ELSE a * d[j]) \in Int BY <1>0, <3>1, <3>2
    <3> QED BY <3>3 DEF Lists
  <2>2. e[k] = -l(d) /\ \A j \in S : e[j] = a * d[j] BY <1>0
  <2> HIDE DEF e
  <2>3. l(e) = a * l(d) /\ part(e) = (a * a) * part(d)
    <3>1. FormArguments(n, s, S, d) /\ FormArguments(n, s, S, e) BY <1>1, <2>1
    <3>2. a \in Int /\ k \in 1 .. n /\ \A j \in S : e[j] = a * d[j] BY <1>0, <2>2
    <3> HIDE DEF a
    <3>3. /\ \A i \in 1 .. n : FormRow(s, n, S, e, i) = a * FormRow(s, n, S, d, i)
          /\ FormOn(s, n, S, e) = (a * a) * FormOn(s, n, S, d)
      <4>1. FormScaled(n, s, S, d, e, a) BY <3>1, <3>2, FormScales
      <4> QED BY <4>1 DEF FormScaled
    <3> QED BY <3>2, <3>3
  <2>4. /\ a * whole(e) = (a * e[k] + l(e)) * (a * e[k] + l(e)) + left(e)
        /\ l(d) \in Int /\ part(d) \in Int /\ left(e) \in Int /\ whole(e) \in Int
        /\ left(d) \in Int
    BY <1>1, <2>1
  <2>5. left(e) = (a * a) * left(d)
    <3>1. FormArguments(n, s, S, d) /\ FormArguments(n, s, S, e) BY <1>1, <2>1
    <3>2. left(e) = a * part(e) - l(e) * l(e) BY <3>1, FormEliminated
    <3>3. left(d) = a * part(d) - l(d) * l(d) BY <3>1, FormEliminated
    <3> DEFINE l1 == l(d)
               p1 == part(d)
    <3>4. /\ left(e) = a * ((a * a) * p1) - (a * l1) * (a * l1)
          /\ left(d) = a * p1 - l1 * l1 /\ l1 \in Int /\ p1 \in Int
      BY <2>3, <2>4, <3>2, <3>3
    <3> HIDE DEF a, l1, p1, left
    <3>5. a * ((a * a) * p1) = (a * a) * (a * p1) /\ (a * l1) * (a * l1) = (a * a) * (l1 * l1)
      BY <1>0, <3>4
    <3> DEFINE aa == a * a
               ap == a * p1
               ll == l1 * l1
    <3>6. aa \in Int /\ ap \in Int /\ ll \in Int BY <1>0, <3>4
    <3>7. left(e) = aa * ap - aa * ll /\ left(d) = ap - ll BY <3>4, <3>5
    <3> HIDE DEF aa, ap, ll
    <3>8. left(e) = aa * left(d) BY <3>6, <3>7
    <3> QED BY <3>8 DEF aa
  <2>6. a * whole(e) = left(e)
    <3>1. a * e[k] + l(e) = 0
      <4>1. a * e[k] + l(e) = a * (-l(d)) + a * l(d) BY <2>2, <2>3
      <4> HIDE DEF a, l
      <4> QED BY <1>0, <2>4, <4>1
    <3> DEFINE root == a * e[k] + l(e)
    <3>2. a * whole(e) = root * root + left(e) /\ root = 0 BY <2>4, <3>1
    <3> HIDE DEF root, a, whole, left
    <3> QED BY <2>4, <3>2
  <2>7. 0 <= whole(e) BY <1>3, <2>1 DEF FormHolds
  <2> HIDE DEF a, whole, left
  <2>8. 0 <= a * whole(e) BY <1>0, <2>4, <2>7
  <2>9. 0 <= (a * a) * left(d) /\ a * a \in Int /\ a * a > 0 BY <1>0, <2>5, <2>6, <2>8
  <2> DEFINE aa == a * a
  <2> HIDE DEF aa
  <2>10. aa \in Int /\ aa > 0 /\ 0 <= aa * left(d) BY <2>9 DEF aa
  <2> QED BY <2>4, <2>10, ProductSigns
<1> QED BY <1>2, <1>3 DEF FormHolds

\* The direction along one index.
Axis(n, k) == [j \in 1 .. n |-> IF j = k THEN 1 ELSE 0]

\* The form of an axis and of what lies beside it.
FormIsAxis(n, s, S, d, k) ==
    /\ FormOn(s, n, S \cup {k}, d) = s[<<k, k>>] * (d[k] * d[k])
    /\ \A i \in 1 .. n : FormRow(s, n, S \cup {k}, d, i) = s[<<i, k>>] * d[k]
LEMMA FormOfAxis ==
    ASSUME NEW n \in Nat, NEW s, IsSymmetric(s, n), NEW S \in SUBSET (1 .. n),
           NEW k \in 1 .. n, k \notin S, NEW d \in Lists(1 .. n), \A j \in S : d[j] = 0
    PROVE  FormIsAxis(n, s, S, d, k)
<1>1. FormArguments(n, s, S, d) BY DEF FormArguments
<1>2. /\ \A i \in 1 .. n : FormRow(s, n, S, d, i) = 0
      /\ FormOn(s, n, S, d) = 0
  BY <1>1, FormOfZeros
<1>3. /\ \A i \in 1 .. n : FormRow(s, n, S \cup {k}, d, i)
                                  = s[<<i, k>>] * d[k] + FormRow(s, n, S, d, i)
      /\ FormOn(s, n, S \cup {k}, d)
           = Split(s[<<k, k>>], d[k], FormRow(s, n, S, d, k), FormOn(s, n, S, d))
  <2>1. FormIsSplit(n, s, S, d, k) BY <1>1, FormSplits
  <2> QED BY <2>1 DEF FormIsSplit
<1>4. \A i \in 1 .. n : s[<<i, k>>] \in Int BY DEF IsSymmetric
<1> DEFINE x1 == d[k]
           a == s[<<k, k>>]
<1>5. x1 \in Int /\ a \in Int BY <1>4 DEF Lists
<1>6. ASSUME NEW i \in 1 .. n
      PROVE  FormRow(s, n, S \cup {k}, d, i) = s[<<i, k>>] * d[k]
  <2> DEFINE c == s[<<i, k>>]
  <2>1. FormRow(s, n, S \cup {k}, d, i) = c * x1 + 0 BY <1>2, <1>3
  <2>2. c \in Int BY <1>4
  <2> HIDE DEF x1, c
  <2>3. c * x1 + 0 = c * x1 BY <1>5, <2>2
  <2> QED BY <2>1, <2>3 DEF x1, c
<1>7. Split(a, x1, 0, 0) = a * (x1 * x1)
  <2> HIDE DEF a, x1
  <2> QED BY <1>5 DEF Split
<1>8. FormOn(s, n, S \cup {k}, d) = Split(a, x1, 0, 0) BY <1>2, <1>3
<1> QED BY <1>6, <1>7, <1>8 DEF FormIsAxis

\* A negative pivot: its own axis is a direction of descent.
LEMMA NegativePivot ==
    ASSUME NEW n \in Nat, NEW s, IsSymmetric(s, n), NEW k \in 1 .. n,
           NEW S \in SUBSET (1 .. n), k \notin S, s[<<k, k>>] < 0
    PROVE  ~FormHolds(s, n, S \cup {k})
<1> DEFINE d == Axis(n, k)
<1>1. /\ d \in Lists(1 .. n) /\ d[k] = 1 /\ \A j \in S : d[j] = 0
  BY DEF Axis, Lists
<1>2. s[<<k, k>>] \in Int BY DEF IsSymmetric
<1> HIDE DEF d
<1>3. FormOn(s, n, S \cup {k}, d) = s[<<k, k>>] * (d[k] * d[k])
  <2>1. FormIsAxis(n, s, S, d, k) BY <1>1, FormOfAxis
  <2> QED BY <2>1 DEF FormIsAxis
<1>4. FormOn(s, n, S \cup {k}, d) < 0 BY <1>1, <1>2, <1>3
<1> QED BY <1>1, <1>2, <1>3, <1>4 DEF FormHolds

\* A pivot of zero: its column must be zero, and the rest must hold.
LEMMA ZeroPivot ==
    ASSUME NEW n \in Nat, NEW s, IsSymmetric(s, n), NEW k \in 1 .. n,
           NEW S \in SUBSET (1 .. n), k \notin S, s[<<k, k>>] = 0
    PROVE  FormHolds(s, n, S \cup {k})
             <=> (\A i \in S : s[<<i, k>>] = 0) /\ FormHolds(s, n, S)
<1>0. \A i, j \in 1 .. n : s[<<i, j>>] \in Int /\ s[<<i, j>>] = s[<<j, i>>] BY DEF IsSymmetric
<1>1. ASSUME NEW d \in Lists(1 .. n)
      PROVE  /\ FormArguments(n, s, S, d) /\ d[k] \in Int
             /\ FormRow(s, n, S, d, k) \in Int /\ FormOn(s, n, S, d) \in Int
             /\ FormOn(s, n, S \cup {k}, d)
                  = 2 * (d[k] * FormRow(s, n, S, d, k)) + FormOn(s, n, S, d)
  <2>1. FormArguments(n, s, S, d) /\ d[k] \in Int BY DEF FormArguments, Lists
  <2> DEFINE x1 == d[k]
             l == FormRow(s, n, S, d, k)
             p == FormOn(s, n, S, d)
  <2>2. x1 \in Int /\ l \in Int BY <2>1, FormRowsTyped
  <2>3. p \in Int BY <2>1, FormsTyped
  <2>4. FormOn(s, n, S \cup {k}, d) = Split(s[<<k, k>>], x1, l, p)
    <3>1. FormIsSplit(n, s, S, d, k) BY <2>1, FormSplits
    <3> QED BY <3>1 DEF FormIsSplit
  <2>5. Split(0, x1, l, p) = 2 * (x1 * l) + p
    <3> HIDE DEF x1, l, p
    <3>1. x1 * x1 \in Int /\ x1 * l \in Int BY <2>2
    <3>2. Split(0, x1, l, p) = 0 * (x1 * x1) + 2 * (x1 * l) + p BY DEF Split
    <3> DEFINE xx == x1 * x1
               xl == x1 * l
    <3> HIDE DEF xx, xl
    <3>3. Split(0, x1, l, p) = 0 * xx + 2 * xl + p BY <3>2 DEF xx, xl
    <3>4. xx \in Int /\ xl \in Int BY <3>1 DEF xx, xl
    <3>5. Split(0, x1, l, p) = 2 * xl + p BY <2>3, <3>3, <3>4
    <3> QED BY <3>5 DEF xl
  <2> QED BY <2>1, <2>2, <2>3, <2>4, <2>5
<1>2. ASSUME \A i \in S : s[<<i, k>>] = 0, NEW d \in Lists(1 .. n)
      PROVE  FormRow(s, n, S, d, k) = 0
  <2> DEFINE f == [j \in 1 .. n |-> s[<<k, j>>] * d[j]]
             g == [j \in 1 .. n |-> 0]
  <2>1. \A j \in S : f[j] = 0
    <3> TAKE j \in S
    <3>0. j \in 1 .. n /\ s[<<j, k>>] = 0 BY <1>2
    <3>1. s[<<k, j>>] = 0 BY <1>0, <3>0
    <3>2. f[j] = s[<<k, j>>] * d[j] /\ d[j] \in Int BY DEF Lists
    <3> HIDE DEF f
    <3> QED BY <3>1, <3>2
  <2>2. Sum!IsFiniteSet(S) BY IndicesAreFinite
  <2> HIDE DEF f
  <2> DEFINE none == 0
  <2>3. \A j \in S : f[j] \in Int /\ f[j] = none * f[j] BY <2>1
  <2>4. none \in Int OBVIOUS
  <2> HIDE DEF none
  <2>5. Sum!Over(f, S) = none * Sum!Over(f, S) BY <2>2, <2>3, <2>4, SumAdds, Sum!SumScaled
  <2>6. Sum!Over(f, S) \in Int BY <2>2, <2>3, SumAdds, Sum!SumType
  <2>7. Sum!Over(f, S) = 0 BY <2>5, <2>6 DEF none
  <2> QED BY <2>7 DEF FormRow, f
<1>3. ASSUME \A i \in S : s[<<i, k>>] = 0, FormHolds(s, n, S), NEW d \in Lists(1 .. n)
      PROVE  0 <= FormOn(s, n, S \cup {k}, d)
  <2>1. FormRow(s, n, S, d, k) = 0 BY <1>2, <1>3
  <2>2. 0 <= FormOn(s, n, S, d) BY <1>3 DEF FormHolds
  <2>3. FormOn(s, n, S \cup {k}, d) = 2 * (d[k] * 0) + FormOn(s, n, S, d) BY <1>1, <2>1
  <2>4. d[k] \in Int /\ FormOn(s, n, S, d) \in Int BY <1>1
  <2> QED BY <2>2, <2>3, <2>4
<1>4. ASSUME FormHolds(s, n, S \cup {k}), NEW d \in Lists(1 .. n)
      PROVE  0 <= FormOn(s, n, S, d)
  <2> DEFINE e == [j \in 1 .. n |-> IF j = k THEN 0 ELSE d[j]]
  <2>1. e \in Lists(1 .. n) /\ e[k] = 0 /\ \A j \in S : e[j] = d[j]
    <3>1. \A j \in 1 .. n : d[j] \in Int BY DEF Lists
    <3> QED BY <3>1 DEF Lists
  <2> HIDE DEF e
  <2>2. FormArguments(n, s, S, d) /\ FormArguments(n, s, S, e) BY <1>1, <2>1
  <2>3. FormOn(s, n, S, e) = FormOn(s, n, S, d) BY <2>1, <2>2, FormLocal
  <2>4. /\ FormOn(s, n, S \cup {k}, e) = 2 * (e[k] * FormRow(s, n, S, e, k)) + FormOn(s, n, S, e)
        /\ FormRow(s, n, S, e, k) \in Int /\ FormOn(s, n, S, e) \in Int
    BY <1>1, <2>1
  <2>5. FormOn(s, n, S \cup {k}, e) = FormOn(s, n, S, e) BY <2>1, <2>4
  <2>6. 0 <= FormOn(s, n, S \cup {k}, e) BY <1>4, <2>1 DEF FormHolds
  <2> QED BY <2>3, <2>5, <2>6
<1>5. ASSUME FormHolds(s, n, S \cup {k}), NEW i \in S, s[<<i, k>>] # 0 PROVE FALSE
  <2> DEFINE c == s[<<i, k>>]
             b == s[<<i, i>>]
             x1 == -c * (Magnitude(b) + 1)
             e == [j \in 1 .. n |-> IF j = k THEN x1 ELSE IF j = i THEN 1 ELSE 0]
             U == S \ {i}
  <2>1. c \in Int /\ c # 0 /\ b \in Int /\ i \in 1 .. n /\ s[<<k, i>>] = c BY <1>0, <1>5
  <2>2. x1 \in Int
    <3> HIDE DEF c, b
    <3> QED BY <2>1 DEF Magnitude
  <2> HIDE DEF x1, c, b
  <2>3. e \in Lists(1 .. n) /\ e[k] = x1 /\ e[i] = 1 /\ \A j \in U : e[j] = 0
    <3>1. \A j \in 1 .. n : (IF j = k THEN x1 ELSE IF j = i THEN 1 ELSE 0) \in Int BY <2>2
    <3> QED BY <2>1, <3>1 DEF Lists
  <2> HIDE DEF e
  <2>4. U \in SUBSET (1 .. n) /\ i \notin U /\ U \cup {i} = S OBVIOUS
  <2> HIDE DEF U
  <2>5. /\ FormOn(s, n, S, e) = s[<<i, i>>] * (e[i] * e[i])
        /\ FormRow(s, n, S, e, k) = s[<<k, i>>] * e[i]
    <3>1. /\ FormOn(s, n, U \cup {i}, e) = s[<<i, i>>] * (e[i] * e[i])
          /\ \A j \in 1 .. n : FormRow(s, n, U \cup {i}, e, j) = s[<<j, i>>] * e[i]
      <4>1. FormIsAxis(n, s, U, e, i) BY <2>1, <2>3, <2>4, FormOfAxis
      <4> QED BY <4>1 DEF FormIsAxis
    <3> QED BY <2>4, <3>1
  <2>6. FormOn(s, n, S, e) = b /\ FormRow(s, n, S, e, k) = c
    <3>1. FormOn(s, n, S, e) = b * (1 * 1) BY <2>3, <2>5 DEF b
    <3>2. FormRow(s, n, S, e, k) = c * 1 BY <2>1, <2>3, <2>5
    <3> QED BY <2>1, <3>1, <3>2
  <2>7. FormOn(s, n, S \cup {k}, e) = 2 * (x1 * c) + b
    <3>1. FormOn(s, n, S \cup {k}, e)
            = 2 * (e[k] * FormRow(s, n, S, e, k)) + FormOn(s, n, S, e)
      BY <1>1, <2>3
    <3> QED BY <2>3, <2>6, <3>1
  <2>8. 0 <= 2 * (x1 * c) + b BY <1>5, <2>3, <2>7 DEF FormHolds
  <2> DEFINE m == Magnitude(b) + 1
             cc == c * c
  <2>9. m \in Int /\ m >= 1 /\ b < m BY <2>1 DEF Magnitude
  <2>10. cc \in Int /\ cc >= 1
    <3>1. cc >= 0 /\ cc # 0 /\ cc \in Int BY <2>1, ProductSigns
    <3> QED BY <3>1
  <2>11. x1 * c = -(cc * m)
    <3>1. x1 = -c * m BY DEF x1
    <3> HIDE DEF m
    <3>2. x1 * c = (-c * m) * c BY <3>1
    <3>3. (-c * m) * c = -((c * c) * m) BY <2>1, <2>9
    <3> QED BY <3>2, <3>3
  <2> HIDE DEF m, cc
  <2>12. cc * m >= m BY <2>9, <2>10
  <2>13. cc * m \in Int BY <2>9, <2>10
  <2> QED BY <2>1, <2>8, <2>9, <2>11, <2>12, <2>13
<1> QED BY <1>3, <1>4, <1>5 DEF FormHolds

Pivot(q, n, k) == Factored(q, n)[k - 1].schur[<<k, k>>]
\* A pivot of zero, the last one apart, comes after pivots of zero only.
ZeroPivotsFirst(q, n) ==
    \A k \in 1 .. n - 1, j \in 1 .. n : Pivot(q, n, k) = 0 /\ j < k => Pivot(q, n, j) <= 0

\* What the factorization has made of q: a symmetric matrix, and q itself while
\* no pivot was positive.
LEMMA FactorsSymmetric ==
    ASSUME NEW n \in Nat, NEW q, IsSymmetric(q, n)
    PROVE  \A k \in 0 .. n :
              /\ IsSymmetric(Factored(q, n)[k].schur, n)
              /\ (\A j \in 1 .. k : Pivot(q, n, j) <= 0) => Factored(q, n)[k].schur = q
<1> DEFINE F == Factored(q, n)
           Fine(k) == /\ IsSymmetric(F[k].schur, n)
                      /\ (\A j \in 1 .. k : Pivot(q, n, j) <= 0) => F[k].schur = q
           Good == {k \in Nat : k <= n => Fine(k)}
<1>1. 0 \in Good
  <2>1. F[0] = [schur |-> q, accepted |-> TRUE] BY FactoredFacts
  <2>2. F[0].schur = q BY <2>1
  <2> QED BY <2>2
<1>2. ASSUME NEW k \in Nat, k \in Good PROVE k + 1 \in Good
  <2> SUFFICES ASSUME k + 1 <= n PROVE Fine(k + 1) OBVIOUS
  <2>1. Fine(k) BY <1>2
  <2> DEFINE i == k + 1
             s == F[k].schur
  <2>2. i \in 1 .. n /\ i - 1 = k OBVIOUS
  <2>3. F[i].schur = IF s[<<i, i>>] > 0 THEN Eliminated(s, i) ELSE s BY <2>2, ColumnFacts
  <2>4. Pivot(q, n, i) = s[<<i, i>>] BY <2>2 DEF Pivot
  <2>5. IsSymmetric(Eliminated(s, i), n)
    <3> HIDE DEF s, i
    <3> QED BY <2>1, <2>2, EliminatedEntries DEF s
  <2>6. s[<<i, i>>] \in Int BY <2>1, <2>2 DEF IsSymmetric
  <2> HIDE DEF F
  <2>7. IsSymmetric(F[i].schur, n) BY <2>1, <2>3, <2>5
  <2>8. ASSUME \A j \in 1 .. i : Pivot(q, n, j) <= 0 PROVE F[i].schur = q
    <3>1. Pivot(q, n, i) <= 0 /\ \A j \in 1 .. k : Pivot(q, n, j) <= 0 BY <2>8
    <3>2. ~(s[<<i, i>>] > 0) BY <2>4, <2>6, <3>1
    <3> QED BY <2>1, <2>3, <3>1, <3>2
  <2> QED BY <2>7, <2>8
<1>3. \A k \in Nat : k \in Good
  <2> HIDE DEF Good
  <2> QED BY <1>1, <1>2, Sum!NumberInduction
<1> QED BY <1>3

\* From the last column back: what is left is accepted exactly if its form is
\* nowhere negative.
LEMMA PivotsDecide ==
    ASSUME NEW n \in Nat, NEW q, IsSymmetric(q, n), ZeroPivotsFirst(q, n)
    PROVE  PositiveSemidefinite(q, n) <=> FormHolds(q, n, 1 .. n)
<1> DEFINE F == Factored(q, n)
           Fine(k) == /\ F[n].accepted => F[k].accepted
                      /\ F[k].accepted =>
                            (F[n].accepted <=> FormHolds(F[k].schur, n, k + 1 .. n))
           Good == {j \in Nat : j <= n => Fine(n - j)}
<1>0. PositiveSemidefinite(q, n) = F[n].accepted
  BY FactoredFacts
<1>1. 0 \in Good
  <2> SUFFICES Fine(n) OBVIOUS
  <2>1. n + 1 .. n = {} OBVIOUS
  <2>2. FormHolds(F[n].schur, n, {})
    <3> SUFFICES ASSUME NEW d \in Lists(1 .. n) PROVE 0 <= FormOn(F[n].schur, n, {}, d)
      BY DEF FormHolds
    <3>1. FormOn(F[n].schur, n, {}, d) = 0
      <4> HIDE DEF F
      <4> QED BY Sum!OverEmpty DEF FormOn
    <3> QED BY <3>1
  <2> QED BY <2>1, <2>2
<1>2. ASSUME NEW j \in Nat, j \in Good PROVE j + 1 \in Good
  <2> SUFFICES ASSUME j + 1 <= n PROVE Fine(n - (j + 1)) OBVIOUS
  <2> DEFINE k == n - j
             S == k + 1 .. n
             s == F[k - 1].schur
             a == s[<<k, k>>]
  <2>1. /\ k \in 1 .. n /\ k - 1 = n - (j + 1) /\ S \in SUBSET (1 .. n) /\ k \notin S
        /\ S \cup {k} = (k - 1) + 1 .. n /\ k - 1 \in 0 .. n /\ \A i \in S : i > k
    OBVIOUS
  <2>2. Fine(k) BY <1>2
  <2>3. /\ F[k].schur = IF a > 0 THEN Eliminated(s, k) ELSE s
        /\ F[k].accepted <=> /\ F[k - 1].accepted /\ a >= 0
                             /\ a = 0 => ColumnIsZero(q, k, n)
    <3> HIDE DEF k
    <3> QED BY <2>1, ColumnFacts
  <2>4. IsSymmetric(s, n) /\ a \in Int
    <3> HIDE DEF k
    <3>1. IsSymmetric(s, n) BY <2>1, FactorsSymmetric
    <3> HIDE DEF s
    <3> QED BY <2>1, <3>1 DEF IsSymmetric
  <2>5. k # n /\ a = 0 => s = q
    <3> SUFFICES ASSUME k # n, a = 0 PROVE s = q OBVIOUS
    <3>1. a = Pivot(q, n, k) BY DEF Pivot
    <3>2. k \in 1 .. n - 1 BY <2>1
    <3> HIDE DEF k, a, s
    <3>3. \A i \in 1 .. k - 1 : i \in 1 .. n /\ i < k BY <2>1
    <3>4. \A i \in 1 .. k - 1 : Pivot(q, n, i) <= 0 BY <3>1, <3>2, <3>3 DEF ZeroPivotsFirst
    <3> QED BY <2>1, <3>4, FactorsSymmetric DEF s
  <2>6. F[k - 1].accepted =>
          (F[n].accepted <=> FormHolds(s, n, S \cup {k}))
    <3> HIDE DEF k, S, a, s, F
    <3> SUFFICES ASSUME F[k - 1].accepted
                 PROVE  F[n].accepted <=> FormHolds(s, n, S \cup {k})
      OBVIOUS
    <3>1. F[k].accepted => (F[n].accepted <=> FormHolds(F[k].schur, n, S)) BY <2>2 DEF S
    <3>2. F[n].accepted => F[k].accepted BY <2>2
    <3>3. CASE a > 0
      <4>1. FormHolds(s, n, S \cup {k}) <=> FormHolds(Eliminated(s, k), n, S)
        BY <2>1, <2>4, <3>3, PositivePivot DEF a
      <4>2. F[k].accepted /\ F[k].schur = Eliminated(s, k) BY <2>3, <2>4, <3>3
      <4> QED BY <3>1, <4>1, <4>2
    <3>4. CASE a = 0
      <4>1. FormHolds(s, n, S \cup {k}) <=> (\A i \in S : s[<<i, k>>] = 0) /\ FormHolds(s, n, S)
        BY <2>1, <2>4, <3>4, ZeroPivot DEF a
      <4>2. F[k].schur = s /\ (F[k].accepted <=> ColumnIsZero(q, k, n)) BY <2>3, <3>4
      <4>3. ColumnIsZero(q, k, n) <=> \A i \in S : s[<<i, k>>] = 0
        <5>1. CASE k = n
          <6>1. S = {} BY <2>1, <5>1 DEF S
          <6> QED BY <6>1 DEF ColumnIsZero, S
        <5>2. CASE k # n
          <6>1. s = q BY <2>5, <3>4, <5>2
          <6> QED BY <6>1 DEF ColumnIsZero, S
        <5> QED BY <5>1, <5>2
      <4> QED BY <3>1, <3>2, <4>1, <4>2, <4>3
    <3>5. CASE a < 0
      <4>1. ~FormHolds(s, n, S \cup {k}) BY <2>1, <2>4, <3>5, NegativePivot DEF a
      <4>2. ~F[k].accepted BY <2>3, <2>4, <3>5
      <4> QED BY <3>2, <4>1, <4>2
    <3> QED BY <2>4, <3>3, <3>4, <3>5
  <2>7. F[n].accepted => F[k - 1].accepted
    <3> HIDE DEF k, S, a, s, F
    <3> QED BY <2>2, <2>3
  <2> HIDE DEF F
  <2>8. Fine(k - 1) BY <2>1, <2>6, <2>7
  <2> HIDE DEF Fine
  <2> QED BY <2>1, <2>8
<1>3. n \in Good
  <2> HIDE DEF Good
  <2> QED BY <1>1, <1>2, Sum!NumberInduction
<1>4. Fine(0)
  <2> HIDE DEF Fine
  <2>1. n - n = 0 /\ n <= n OBVIOUS
  <2> QED BY <1>3, <2>1
<1>5. F[0].schur = q /\ F[0].accepted
  <2>1. F[0] = [schur |-> q, accepted |-> TRUE] BY FactoredFacts
  <2> QED BY <2>1
<1>6. 0 + 1 .. n = 1 .. n OBVIOUS
<1> HIDE DEF F
<1> QED BY <1>0, <1>4, <1>5, <1>6

\* The quadratic form of a direction.
QuadraticForm(q, n, d) ==
    Total([v \in 1 .. n |-> d[v] * Total([w \in 1 .. n |-> q[<<v, w>>] * d[w]])])
NowhereNegative(q, n) == \A d \in Lists(1 .. n) : 0 <= QuadraticForm(q, n, d)

LEMMA FormIsQuadratic ==
    \A q, n, d : QuadraticForm(q, n, d) = FormOn(q, n, 1 .. n, d)
<1> TAKE q, n, d
<1> DEFINE row(v) == [w \in 1 .. n |-> q[<<v, w>>] * d[w]]
<1>1. \A v \in 1 .. n : Total(row(v)) = FormRow(q, n, 1 .. n, d, v)
  BY TotalIsSum DEF FormRow
<1> DEFINE f == [v \in 1 .. n |-> d[v] * Total(row(v))]
           g == [v \in 1 .. n |-> d[v] * FormRow(q, n, 1 .. n, d, v)]
<1>2. f = g
  <2> HIDE DEF row
  <2> QED BY <1>1
<1>3. Total(g) = Sum!Over(g, 1 .. n) BY TotalIsSum
<1>4. QuadraticForm(q, n, d) = Total(f) BY DEF QuadraticForm
<1>5. FormOn(q, n, 1 .. n, d) = Sum!Over(g, 1 .. n) BY DEF FormOn
<1> HIDE DEF f, g
<1> QED BY <1>2, <1>3, <1>4, <1>5

\* Of the QPs of every order exactly those are refused whose quadratic form is
\* negative somewhere, unless a zero pivot follows a positive one
\* (continuous_common.hpp:227-275).
THEOREM QpsAreJudged ==
    Spec => [](Judged /\ ZeroPivotsFirst(model.quadratic, Len(model.linear)) =>
                  (status = "UnsupportedModel"
                     <=> ~NowhereNegative(model.quadratic, Len(model.linear))))
<1> DEFINE n == Len(model.linear)
<1>1. PdInv => (Judged /\ ZeroPivotsFirst(model.quadratic, n) =>
                  (status = "UnsupportedModel" <=> ~NowhereNegative(model.quadratic, n)))
  <2> SUFFICES ASSUME PdInv, Judged, ZeroPivotsFirst(model.quadratic, n)
               PROVE  status = "UnsupportedModel" <=> ~NowhereNegative(model.quadratic, n)
    OBVIOUS
  <2>1. IsModel(model) BY RequestsAssumption DEF PdInv, model, IsCall
  <2>2. Outcome /\ status # "InvalidModel" /\ request.solver = "QP" /\ model.class = "QP"
        /\ request.method = "Auto"
    BY DEF PdInv, Judged
  <2>3. n \in Nat /\ model.linear \in [1 .. n -> Int] BY <2>1, ModelFacts DEF Lists
  <2>4. IsSymmetric(model.quadratic, n) BY <2>1 DEF IsModel, IsSymmetric
  <2>5. PositiveSemidefinite(model.quadratic, n) <=> NowhereNegative(model.quadratic, n)
    <3> HIDE DEF n
    <3>1. PositiveSemidefinite(model.quadratic, n) <=> FormHolds(model.quadratic, n, 1 .. n)
      BY <2>3, <2>4, PivotsDecide
    <3>2. FormHolds(model.quadratic, n, 1 .. n) <=> NowhereNegative(model.quadratic, n)
      BY FormIsQuadratic DEF FormHolds, NowhereNegative
    <3> QED BY <3>1, <3>2
  <2>6. status = "UnsupportedModel" <=> ~PositiveSemidefinite(model.quadratic, n)
    BY <2>2 DEF Outcome, Refusal, model
  <2> QED BY <2>5, <2>6
<1> QED BY <1>1, PdInvariant, PTL

-----------------------------------------------------------------------------
(* An Optimal answer is as good as its complementarity says.               *)

\* No argument of a multiplier's step is beyond infinity, and no side of a row
\* is infinite the other way.
ArgumentsInRange == pc = "loop" =>
    \A r \in RowsOf(model) :
        Magnitude(y[r] + Product(sigma, RowValues(model, scaled.matrix,
                                                  Extrapolated(NextPoint))[r])) < Inf
RowsOpenOutwards == \A q \in Requests : \A r \in RowsOf(q.model) :
    q.model.rows[r].lower < Inf /\ -Inf < q.model.rows[r].upper

\* A multiplier belongs to a side that is there.
Sided(m, d) == \A r \in RowsOf(m) : /\ 0 < d[r] => Finite(m.rows[r].upper)
                                    /\ d[r] < 0 => Finite(m.rows[r].lower)
SidedInv ==
    /\ PdInv
    /\ pc \in {"loop", "report"} => Sided(model, y)
    /\ Solved => \E p \in Lists(ColumnsOf(model)), d \in Lists(RowsOf(model)) :
                     result = Answer(request, p, d) /\ Sided(model, d)

LEMMA NextDualSided ==
    ASSUME PdInv, pc = "loop", RowsOpenOutwards, ArgumentsInRange
    PROVE  Sided(model, NextDual(Extrapolated(NextPoint)))
<1> DEFINE a(r) == y[r] + Product(sigma, RowValues(model, scaled.matrix, Extrapolated(NextPoint))[r])
           lo(r) == ScaleUp(scaled.row_lower[r], sigma)
           hi(r) == ScaleUp(scaled.row_upper[r], sigma)
<1>1. /\ Working /\ request \in Requests /\ IsModel(model) /\ ScaledType(model, scaled)
      /\ y \in [RowsOf(model) -> Int]
  BY RequestFacts DEF PdInv, Working, model, Lists
<1>2. NextPoint \in Lists(ColumnsOf(model)) BY <1>1, NextPointType
<1>3. NextDual(Extrapolated(NextPoint)) \in [RowsOf(model) -> Int]
  BY <1>1, <1>2, NextDualType DEF Lists
<1> SUFFICES ASSUME NEW r \in RowsOf(model)
             PROVE  LET b == NextDual(Extrapolated(NextPoint))[r] IN
                    /\ 0 < b => Finite(model.rows[r].upper)
                    /\ b < 0 => Finite(model.rows[r].lower)
  BY DEF Sided
<1>4. NextDual(Extrapolated(NextPoint))[r] = a(r) - Clamp(a(r), lo(r), hi(r))
  BY <1>1 DEF NextDual
<1>5. /\ scaled.row_lower[r] = ScaleUp(model.rows[r].lower, RowScale(model)[r])
      /\ scaled.row_upper[r] = ScaleUp(model.rows[r].upper, RowScale(model)[r])
  BY <1>1 DEF Working, ScaledOf, Scaled, model
<1>6. Magnitude(a(r)) < Inf BY DEF ArgumentsInRange
<1>7. a(r) \in Int
  <2> DEFINE bar == Extrapolated(NextPoint)
             ax == RowValues(model, scaled.matrix, bar)
  <2>1. bar \in Lists(ColumnsOf(model)) BY <1>1, <1>2, NextDualType
  <2>2. ax \in [RowsOf(model) -> Int]
    <3> HIDE DEF bar
    <3> QED BY <1>1, <2>1, RowValuesType DEF ScaledType, Lists
  <2> HIDE DEF ax
  <2>3. y[r] \in Int /\ ax[r] \in Int /\ sigma \in Int BY <1>1, <2>2 DEF Working
  <2>4. Product(sigma, ax[r]) \in Int BY <2>3, ProductType
  <2>5. y[r] + Product(sigma, ax[r]) \in Int BY <2>3, <2>4
  <2> QED BY <2>5 DEF ax
<1>8. /\ model.rows[r].lower < Inf /\ -Inf < model.rows[r].upper /\ Inf \in Nat
      /\ model.rows[r].lower \in Int /\ model.rows[r].upper \in Int
  BY <1>1, GridAssumption, ModelFacts DEF RowsOpenOutwards, model
<1>9. /\ ~Finite(model.rows[r].upper) => hi(r) = model.rows[r].upper /\ Inf <= hi(r) /\ hi(r) \in Int
      /\ ~Finite(model.rows[r].lower) => lo(r) = model.rows[r].lower /\ lo(r) <= -Inf /\ lo(r) \in Int
  BY <1>5, <1>8 DEF ScaleUp, Finite
<1>10. /\ lo(r) \in Int /\ hi(r) \in Int
  <2>1. scaled.row_lower[r] \in Int /\ scaled.row_upper[r] \in Int /\ sigma \in Int
    BY <1>1 DEF ScaledType, Lists, Working
  <2> QED BY <2>1, ProductType DEF ScaleUp
<1>11. -Inf < a(r) /\ a(r) < Inf BY <1>6, <1>7, <1>8 DEF Magnitude
<1> HIDE DEF a, lo, hi
<1>12. ~Finite(model.rows[r].upper) => a(r) - Clamp(a(r), lo(r), hi(r)) <= 0
  BY <1>7, <1>8, <1>9, <1>10, <1>11 DEF Clamp
<1>13. ~Finite(model.rows[r].lower) => a(r) - Clamp(a(r), lo(r), hi(r)) >= 0
  BY <1>7, <1>8, <1>9, <1>10, <1>11 DEF Clamp
<1>14. Clamp(a(r), lo(r), hi(r)) \in Int BY <1>7, <1>10 DEF Clamp
<1> QED BY <1>4, <1>7, <1>12, <1>13, <1>14

LEMMA UnscaledSigns ==
    ASSUME NEW a \in Int, NEW s \in Nat \ {0}
    PROVE  /\ 0 < Product(a, s) => 0 < a
           /\ Product(a, s) < 0 => a < 0
<1> DEFINE z == a * s
           h == Unit \div 2
           p == Product(a, s)
<1>1. z \in Int /\ (a <= 0 => z <= 0) /\ (0 <= a => 0 <= z) OBVIOUS
<1>2. h \in Int /\ 0 <= h /\ h < Unit /\ Unit \in Nat \ {0} BY GridAssumption
<1>3. p = (z + h) \div Unit BY DEF Product
<1> HIDE DEF z, h, p
<1>4. \A n \in Int : n \div Unit \in Int /\ Unit * (n \div Unit) <= n /\ n < Unit * (n \div Unit) + Unit
  BY <1>2
<1>5. p \in Int /\ Unit * p <= z + h /\ z + h < Unit * p + Unit BY <1>1, <1>2, <1>3, <1>4
<1>6. 0 < p => 0 < a
  <2> SUFFICES ASSUME 0 < p, a <= 0 PROVE FALSE BY <1>5
  <2>1. Unit * 1 <= Unit * p BY <1>2, <1>5
  <2> QED BY <1>1, <1>2, <1>5, <2>1
<1>7. p < 0 => a < 0
  <2> SUFFICES ASSUME p < 0, 0 <= a PROVE FALSE BY <1>5
  <2>1. Unit * p <= Unit * (-1) BY <1>2, <1>5
  <2> QED BY <1>1, <1>2, <1>5, <2>1
<1> QED BY <1>6, <1>7 DEF p

LEMMA SidedStep ==
    ASSUME RowsOpenOutwards, SidedInv, ArgumentsInRange, [Next]_vars
    PROVE  SidedInv'
<1>0. PdInv /\ PdInv' BY NextInv DEF SidedInv
<1>1. CASE Refuse
  <2>1. pc' = "returned" /\ ~Solved' BY <1>1 DEF Refuse, Solved, Refusal
  <2> QED BY <1>0, <2>1 DEF SidedInv
<1>2. CASE Prepare
  <2>1. /\ pc' = "loop" /\ request' = request /\ y' = [r \in RowsOf(model) |-> 0]
    BY <1>2 DEF Prepare
  <2>2. ~Solved' /\ model' = model BY <2>1 DEF Solved, model
  <2>3. Sided(model, y') BY <2>1 DEF Sided
  <2> QED BY <1>0, <2>1, <2>2, <2>3 DEF SidedInv
<1>3. CASE OutOfIterations \/ TimedOut
  <2>1. /\ pc = "loop" /\ pc' = "report" /\ request' = request /\ y' = y
    BY <1>3 DEF OutOfIterations, TimedOut, iterates
  <2>2. ~Solved' /\ model' = model BY <2>1 DEF Solved, model
  <2> QED BY <1>0, <2>1, <2>2 DEF SidedInv
<1>4. CASE Iterate
  <2>1. /\ pc = "loop" /\ pc' # "returned" /\ request' = request
        /\ y' = NextDual(Extrapolated(NextPoint))
    BY <1>4 DEF Iterate
  <2>2. ~Solved' /\ model' = model BY <2>1 DEF Solved, model
  <2>3. Sided(model, y') BY <1>0, <2>1, NextDualSided
  <2> QED BY <1>0, <2>1, <2>2, <2>3 DEF SidedInv
<1>5. CASE Report
  <2> DEFINE p == Unscaled(x, scaled.column_scale)
             d == Unscaled(y, scaled.row_scale)
  <2>1. /\ pc = "report" /\ pc' = "returned" /\ request' = request /\ result' = Answer(request, p, d)
    BY <1>5 DEF Report
  <2>2. Working /\ Sided(model, y) BY <1>0, <2>1 DEF PdInv, SidedInv
  <2>3. /\ scaled.column_scale \in [ColumnsOf(model) -> Nat \ {0}]
        /\ scaled.row_scale \in [RowsOf(model) -> Nat \ {0}]
    BY <1>0, <2>2, RequestFacts DEF PdInv, Working, model, ScaledType
  <2>4. p \in Lists(ColumnsOf(model)) /\ d \in Lists(RowsOf(model))
    BY <2>2, <2>3, UnscaledType DEF Working
  <2>5. Sided(model, d)
    <3> SUFFICES ASSUME NEW r \in RowsOf(model)
                 PROVE  /\ 0 < d[r] => Finite(model.rows[r].upper)
                        /\ d[r] < 0 => Finite(model.rows[r].lower)
      BY DEF Sided
    <3>1. y \in [RowsOf(model) -> Int] BY <2>2 DEF Working, Lists
    <3>2. d[r] = Product(y[r], scaled.row_scale[r]) BY <3>1 DEF Unscaled
    <3>3. y[r] \in Int /\ scaled.row_scale[r] \in Nat \ {0} BY <2>3, <3>1
    <3>4. (0 < d[r] => 0 < y[r]) /\ (d[r] < 0 => y[r] < 0) BY <3>2, <3>3, UnscaledSigns
    <3> QED BY <2>2, <3>4 DEF Sided
  <2>6. model' = model BY <2>1 DEF model
  <2> HIDE DEF p, d
  <2> QED BY <1>0, <2>1, <2>4, <2>5, <2>6 DEF SidedInv
<1>6. CASE Returned \/ UNCHANGED vars
  <2>1. UNCHANGED <<pc, request, y, status, result>>
    BY <1>6 DEF Returned, vars, iterates
  <2>2. model' = model /\ (Solved' <=> Solved) BY <2>1 DEF model, Solved
  <2> QED BY <1>0, <2>1, <2>2 DEF SidedInv
<1> QED BY <1>1, <1>2, <1>3, <1>4, <1>5, <1>6 DEF Next

LEMMA SidedHolds == ASSUME RowsOpenOutwards PROVE Spec /\ []ArgumentsInRange => []SidedInv
<1>1. Init => SidedInv
  <2>1. Init => PdInv BY InitInv
  <2> QED BY <2>1 DEF Init, SidedInv, Solved
<1>2. SidedInv /\ ArgumentsInRange /\ [Next]_vars => SidedInv' BY SidedStep
<1> QED BY <1>1, <1>2, PTL DEF Spec

\* A rounded product along a step: off by a step of rounding for each step.
LEMMA ProductAlong ==
    ASSUME NEW a \in Int, NEW b \in Int, NEW d \in Int
    PROVE  Unit * (Product(a, b) * d) <= b * (a * d) + Unit * Magnitude(d)
<1> DEFINE p == Product(a, b)
           ab == a * b
           up == Unit * p
           g == up - ab
<1>1. p \in Int /\ ab \in Int /\ Unit \in Nat /\ up <= ab + Unit /\ ab <= up + Unit
  BY ProductIsNear, ProductType, GridAssumption
<1>2. up \in Int
  <2> HIDE DEF p
  <2> QED BY <1>1
<1>3. g \in Int /\ -Unit <= g /\ g <= Unit
  <2> HIDE DEF up, ab
  <2> QED BY <1>1, <1>2
<1>4. Unit * (p * d) = ab * d + g * d
  <2> HIDE DEF p, ab
  <2> QED BY <1>1
<1>5. g * d <= Unit * Magnitude(d)
  <2> HIDE DEF g
  <2>1. CASE d >= 0
    <3>1. g * d <= Unit * d BY <1>1, <1>3, <2>1
    <3> QED BY <2>1, <3>1 DEF Magnitude
  <2>2. CASE d < 0
    <3>1. (-g) * (-d) <= Unit * (-d) BY <1>1, <1>3, <2>2
    <3>2. (-g) * (-d) = g * d BY <1>3
    <3> QED BY <2>2, <3>1, <3>2 DEF Magnitude
  <2> QED BY <2>1, <2>2
<1>6. ab * d = b * (a * d) OBVIOUS
<1>7. /\ b * (a * d) \in Int /\ g * d \in Int /\ Unit * Magnitude(d) \in Int
  <2> HIDE DEF g
  <2> QED BY <1>1, <1>3, MagnitudeType
<1> QED
  <2> HIDE DEF g
  <2>1. \A q, r, s, t \in Int : q <= r => s + q <= s + r OBVIOUS
  <2>2. Unit * (p * d) = b * (a * d) + g * d BY <1>4, <1>6
  <2> HIDE DEF p
  <2> QED BY <1>5, <1>7, <2>1, <2>2 DEF p

\* The multipliers' part of the gradient along a step, by rows and not by
\* variables.
Along(R, C, a, y0, d, p, W, t, mag, l, E) ==
    /\ IsFiniteSet(R) /\ IsFiniteSet(C)
    /\ \A r \in R : y0[r] \in Int /\ \A v \in C : a[r][v] \in Int
    /\ \A v \in C : d[v] \in Int /\ mag[v] = Magnitude(d[v])
    /\ \A v \in C : \A r \in R : p[v][r] = Product(a[r][v], y0[r])
    /\ \A v \in C : W[v] = Sum!Over(p[v], R) * d[v]
    /\ \A r \in R : t[r] = Sum!Over([v \in C |-> a[r][v] * d[v]], C)
    /\ l = Sum!Over(mag, C)
    /\ \A r \in R : E[r] = y0[r] * t[r] + Unit * l

LEMMA RowsAlong ==
    ASSUME NEW R, NEW C, NEW a, NEW y0, NEW d, NEW p, NEW W, NEW t, NEW mag, NEW l, NEW E,
           Along(R, C, a, y0, d, p, W, t, mag, l, E)
    PROVE  /\ \A v \in C : W[v] \in Int
           /\ \A r \in R : t[r] \in Int
           /\ l \in Int
           /\ Unit * Sum!Over(W, C) <= Sum!Over(E, R)
<1> DEFINE u == Unit
           F == [v \in C |-> [r \in R |-> p[v][r] * d[v]]]
           S == [r \in R |-> Sum!Over([v \in C |-> F[v][r]], C)]
           uS == [r \in R |-> u * S[r]]
<1> USE DEF Along
<1>0. Sum!IsFiniteSet(R) /\ Sum!IsFiniteSet(C) /\ Sum!Adds BY FinitenessIsOne, SumAdds
<1>1. u \in Nat \ {0} BY GridAssumption
<1>2. \A v \in C : mag[v] \in Int /\ mag[v] = Magnitude(d[v]) /\ d[v] \in Int BY MagnitudeType
<1>3. l \in Int BY <1>0, <1>2, Sum!SumType
<1>4. \A v \in C : \A r \in R : p[v][r] \in Int /\ p[v][r] = Product(a[r][v], y0[r])
  <2> TAKE v \in C
  <2> TAKE r \in R
  <2>1. a[r][v] \in Int /\ y0[r] \in Int OBVIOUS
  <2>2. p[v][r] = Product(a[r][v], y0[r]) OBVIOUS
  <2> HIDE DEF F, S, uS
  <2> QED BY <2>1, <2>2, ProductType
<1>5. ASSUME NEW v \in C
      PROVE  /\ \A r \in R : F[v][r] = d[v] * p[v][r] /\ F[v][r] \in Int
             /\ W[v] = Sum!Over(F[v], R) /\ W[v] \in Int
  <2>1. d[v] \in Int /\ \A r \in R : p[v][r] \in Int BY <1>2, <1>4
  <2>2. \A r \in R : F[v][r] = p[v][r] * d[v] OBVIOUS
  <2>3. \A r \in R : F[v][r] = d[v] * p[v][r] /\ F[v][r] \in Int
    <3> HIDE DEF F
    <3> QED BY <2>1, <2>2
  <2>4. Sum!Over(F[v], R) = d[v] * Sum!Over(p[v], R)
    <3> HIDE DEF F
    <3> QED BY <1>0, <2>1, <2>3, Sum!SumScaled
  <2>5. Sum!Over(p[v], R) \in Int BY <1>0, <2>1, Sum!SumType
  <2>6. W[v] = Sum!Over(p[v], R) * d[v] OBVIOUS
  <2>7. d[v] * Sum!Over(p[v], R) = Sum!Over(p[v], R) * d[v] /\ Sum!Over(p[v], R) * d[v] \in Int
    <3> DEFINE o == Sum!Over(p[v], R)
    <3>1. o \in Int /\ d[v] \in Int BY <2>1, <2>5
    <3> HIDE DEF o
    <3>2. d[v] * o = o * d[v] /\ o * d[v] \in Int BY <3>1
    <3> QED BY <3>2 DEF o
  <2> HIDE DEF F
  <2> QED BY <2>3, <2>4, <2>6, <2>7
<1>6. Sum!Over(W, C) = Sum!Over(S, R)
  <2> DEFINE H == [v \in C |-> Sum!Over(F[v], R)]
  <2>1. \A v \in C : H[v] = Sum!Over(F[v], R) OBVIOUS
  <2>2. Sum!Over(H, C) = Sum!Over(S, R)
    <3>1. \A v \in C : \A r \in R : F[v][r] \in Int BY <1>5
    <3> HIDE DEF F
    <3> QED BY <1>0, <3>1, Sum!SumsExchanged
  <2>3. \A v \in C : W[v] \in Int /\ H[v] \in Int /\ W[v] <= H[v] /\ H[v] <= W[v]
    <3> TAKE v \in C
    <3>1. W[v] = H[v] /\ W[v] \in Int BY <1>5, <2>1
    <3> HIDE DEF H
    <3> QED BY <3>1
  <2> HIDE DEF H, F, S
  <2>4. Sum!Over(W, C) <= Sum!Over(H, C) /\ Sum!Over(H, C) <= Sum!Over(W, C)
    BY <1>0, <2>3, Sum!SumLess
  <2>5. Sum!Over(W, C) \in Int /\ Sum!Over(H, C) \in Int BY <1>0, <2>3, Sum!SumType
  <2> QED BY <2>2, <2>4, <2>5
<1>7. ASSUME NEW r \in R
      PROVE  t[r] \in Int /\ S[r] \in Int /\ u * S[r] <= E[r] /\ E[r] \in Int
  <2> DEFINE f == [v \in C |-> F[v][r]]
             g == [v \in C |-> u * f[v]]
             ad == [v \in C |-> a[r][v] * d[v]]
             b == [v \in C |-> y0[r] * ad[v]]
             k == [v \in C |-> u * mag[v]]
             h == [v \in C |-> b[v] + k[v]]
  <2>1. y0[r] \in Int /\ \A v \in C : a[r][v] \in Int /\ d[v] \in Int /\ mag[v] \in Int
    BY <1>2
  <2>2. \A v \in C : ad[v] = a[r][v] * d[v] /\ ad[v] \in Int BY <2>1
  <2>3. \A v \in C : b[v] = y0[r] * ad[v] /\ b[v] \in Int
    <3> HIDE DEF ad
    <3> QED BY <2>1, <2>2
  <2>4. \A v \in C : k[v] = u * mag[v] /\ k[v] \in Int BY <1>1, <2>1
  <2>5. \A v \in C : h[v] = b[v] + k[v] /\ h[v] \in Int
    <3> HIDE DEF b, k
    <3> QED BY <2>3, <2>4
  <2>6. \A v \in C : f[v] \in Int /\ f[v] = Product(a[r][v], y0[r]) * d[v]
    <3> TAKE v \in C
    <3>1. f[v] = p[v][r] * d[v] /\ p[v][r] = Product(a[r][v], y0[r]) /\ p[v][r] \in Int /\ d[v] \in Int
      BY <1>4, <2>1
    <3> HIDE DEF f
    <3> QED BY <3>1
  <2>7. \A v \in C : g[v] = u * f[v] /\ g[v] \in Int /\ g[v] <= h[v]
    <3> TAKE v \in C
    <3>1. g[v] = u * f[v] OBVIOUS
    <3>2. Unit * (Product(a[r][v], y0[r]) * d[v]) <= y0[r] * (a[r][v] * d[v]) + Unit * Magnitude(d[v])
      BY <2>1, ProductAlong
    <3>3. h[v] = y0[r] * (a[r][v] * d[v]) + u * mag[v] /\ mag[v] = Magnitude(d[v]) BY <1>2
    <3> HIDE DEF f, g, h
    <3>4. g[v] \in Int BY <1>1, <2>6, <3>1
    <3> QED BY <2>6, <3>1, <3>2, <3>3, <3>4
  <2> HIDE DEF f, g, ad, b, k, h
  <2>8. Sum!Over(g, C) = u * Sum!Over(f, C) /\ Sum!Over(f, C) \in Int
    <3>1. \A v \in C : f[v] \in Int /\ g[v] = u * f[v] BY <2>6, <2>7
    <3> HIDE DEF u
    <3> QED BY <1>0, <1>1, <3>1, Sum!SumScaled, Sum!SumType
  <2>9. Sum!Over(g, C) <= Sum!Over(h, C) BY <1>0, <2>5, <2>7, Sum!SumLess
  <2>10. Sum!Over(h, C) = Sum!Over(b, C) + Sum!Over(k, C)
    BY <1>0, <2>3, <2>4, <2>5, Sum!SumOfSums
  <2>11. Sum!Over(b, C) = y0[r] * Sum!Over(ad, C) /\ Sum!Over(ad, C) \in Int
    BY <1>0, <2>1, <2>2, <2>3, Sum!SumScaled, Sum!SumType
  <2>12. Sum!Over(k, C) = u * Sum!Over(mag, C)
    <3>1. \A v \in C : mag[v] \in Int /\ k[v] = u * mag[v] BY <2>1, <2>4
    <3> HIDE DEF u
    <3> QED BY <1>0, <1>1, <3>1, Sum!SumScaled
  <2>13. S[r] = Sum!Over(f, C) BY DEF f
  <2>14. t[r] = Sum!Over(ad, C) BY DEF ad
  <2>15. E[r] = y0[r] * t[r] + u * l /\ l = Sum!Over(mag, C) OBVIOUS
  <2>16. E[r] \in Int
    <3>1. t[r] \in Int BY <2>11, <2>14
    <3> QED BY <1>1, <1>3, <2>1, <2>15, <3>1
  <2> HIDE DEF u, S
  <2> QED BY <2>8, <2>9, <2>10, <2>11, <2>12, <2>13, <2>14, <2>15, <2>16
<1>8. u * Sum!Over(S, R) <= Sum!Over(E, R)
  <2>1. \A r \in R : S[r] \in Int /\ uS[r] = u * S[r] /\ uS[r] \in Int /\ uS[r] <= E[r] /\ E[r] \in Int
    <3> TAKE r \in R
    <3>1. uS[r] = u * S[r] OBVIOUS
    <3> HIDE DEF uS, S
    <3> QED BY <1>1, <1>7, <3>1
  <2> HIDE DEF uS, S, u
  <2>2. Sum!Over(uS, R) <= Sum!Over(E, R) BY <1>0, <2>1, Sum!SumLess
  <2>3. Sum!Over(uS, R) = u * Sum!Over(S, R) BY <1>0, <1>1, <2>1, Sum!SumScaled
  <2> QED BY <2>2, <2>3
<1> HIDE DEF S
<1> QED BY <1>3, <1>5, <1>6, <1>7, <1>8

\* A step inside the bounds cannot go against a gradient by more than the
\* complementarity of their multipliers, and the dual tolerance along it.
LEMMA PushAlong ==
    ASSUME NEW g \in Int, NEW x0 \in Int, NEW s \in Int, NEW lower \in Int, NEW upper \in Int,
           NEW K \in Nat, NEW tol \in Nat,
           Finite(lower) => lower <= s, Finite(upper) => s <= upper,
           Magnitude(g - BoundDual(x0 - lower, lower, g)
                       + BoundDual(upper - x0, upper, -g)) <= tol,
           Complementarity(x0 - lower, lower, BoundDual(x0 - lower, lower, g)) <= K,
           Complementarity(upper - x0, upper, BoundDual(upper - x0, upper, -g)) <= K
    PROVE  -(g * (s - x0)) <= (Unit * K + Unit) + tol * Magnitude(s - x0)
<1> DEFINE zl == BoundDual(x0 - lower, lower, g)
           zu == BoundDual(upper - x0, upper, -g)
           d == s - x0
           e == g - zl + zu
           pl == Product(x0 - lower, zl)
           pu == Product(upper - x0, zu)
           bar == Unit * K + Unit
<1>1. /\ zl \in Nat /\ zu \in Nat /\ (0 < zl => Finite(lower) /\ 0 < g)
      /\ (0 < zu => Finite(upper) /\ g < 0)
  BY DEF BoundDual, Larger
<1>2. d \in Int /\ e \in Int /\ x0 - lower \in Int /\ upper - x0 \in Int BY <1>1
<1>3. Unit \in Nat /\ bar \in Nat BY GridAssumption
<1>4. ASSUME Finite(lower) PROVE pl \in Int /\ pl <= K
  <2>1. Magnitude(pl) <= K BY <1>4 DEF Complementarity
  <2>2. pl \in Int BY <1>1, <1>2, ProductType
  <2> HIDE DEF pl
  <2> QED BY <2>1, <2>2 DEF Magnitude
<1>5. ASSUME Finite(upper) PROVE pu \in Int /\ pu <= K
  <2>1. Magnitude(pu) <= K BY <1>5 DEF Complementarity
  <2>2. pu \in Int BY <1>1, <1>2, ProductType
  <2> HIDE DEF pu
  <2> QED BY <2>1, <2>2 DEF Magnitude
<1>6. ASSUME 0 < zl PROVE -(zl * d) <= bar
  <2>1. Finite(lower) /\ lower <= s BY <1>1, <1>6
  <2>2. (x0 - lower) * zl <= Unit * pl + Unit BY <1>1, <1>2, ProductIsNear
  <2>3. pl \in Int /\ pl <= K BY <1>4, <2>1
  <2>4. Unit * pl <= Unit * K
    <3> HIDE DEF pl
    <3> QED BY <1>3, <2>3
  <2>5. -(zl * d) <= (x0 - lower) * zl
    <3>1. -d <= x0 - lower BY <2>1
    <3>2. \A i, j \in Int : i <= j => i * zl <= j * zl
      <4> HIDE DEF zl
      <4> QED BY <1>1
    <3>3. (-d) * zl <= (x0 - lower) * zl BY <1>2, <3>1, <3>2
    <3>4. (-d) * zl = -(zl * d)
      <4> HIDE DEF zl, d
      <4> QED BY <1>1, <1>2
    <3> QED BY <3>3, <3>4
  <2>6. zl * d \in Int /\ (x0 - lower) * zl \in Int /\ Unit * pl \in Int
    <3> HIDE DEF zl, d, pl
    <3> QED BY <1>1, <1>2, <1>3, <2>3
  <2> HIDE DEF pl, zl, d
  <2> QED BY <1>3, <2>2, <2>4, <2>5, <2>6
<1>7. ASSUME 0 < zu PROVE zu * d <= bar
  <2>1. Finite(upper) /\ s <= upper BY <1>1, <1>7
  <2>2. (upper - x0) * zu <= Unit * pu + Unit BY <1>1, <1>2, ProductIsNear
  <2>3. pu \in Int /\ pu <= K BY <1>5, <2>1
  <2>4. Unit * pu <= Unit * K
    <3> HIDE DEF pu
    <3> QED BY <1>3, <2>3
  <2>5. zu * d <= (upper - x0) * zu
    <3>1. d <= upper - x0 BY <2>1
    <3>2. \A i, j \in Int : i <= j => i * zu <= j * zu
      <4> HIDE DEF zu
      <4> QED BY <1>1
    <3>3. d * zu <= (upper - x0) * zu BY <1>2, <3>1, <3>2
    <3>4. d * zu = zu * d
      <4> HIDE DEF zu, d
      <4> QED BY <1>1, <1>2
    <3> QED BY <3>3, <3>4
  <2>6. zu * d \in Int /\ (upper - x0) * zu \in Int /\ Unit * pu \in Int
    <3> HIDE DEF zu, d, pu
    <3> QED BY <1>1, <1>2, <1>3, <2>3
  <2> HIDE DEF pu, zu, d
  <2> QED BY <1>3, <2>2, <2>4, <2>5, <2>6
<1>8. -(e * d) <= tol * Magnitude(d)
  <2>1. -tol <= e /\ e <= tol
    <3>1. Magnitude(e) <= tol OBVIOUS
    <3> HIDE DEF e
    <3> QED BY <1>2, <3>1 DEF Magnitude
  <2> HIDE DEF e, d
  <2>2. CASE d >= 0
    <3>1. (-e) * d <= tol * d BY <1>2, <2>1, <2>2
    <3>2. (-e) * d = -(e * d) BY <1>2
    <3> QED BY <1>2, <2>2, <3>1, <3>2 DEF Magnitude
  <2>3. CASE d < 0
    <3>1. e * (-d) <= tol * (-d) BY <1>2, <2>1, <2>3
    <3>2. e * (-d) = -(e * d) BY <1>2
    <3> QED BY <1>2, <2>3, <3>1, <3>2 DEF Magnitude
  <2> QED BY <1>2, <2>2, <2>3
<1>9. -(g * d) = -(zl * d) + zu * d - e * d
  <2>1. g = zl - zu + e BY <1>1
  <2>2. \A a, b, c, f \in Int : -((a - b + c) * f) = -(a * f) + b * f - c * f OBVIOUS
  <2> HIDE DEF zl, zu, e, d
  <2> QED BY <1>1, <1>2, <2>1, <2>2
<1>10. /\ zl * d \in Int /\ zu * d \in Int /\ e * d \in Int /\ tol * Magnitude(d) \in Int
  <2> HIDE DEF zl, zu, e, d
  <2> QED BY <1>1, <1>2, MagnitudeType
<1>11. -(zl * d) + zu * d <= bar
  <2>1. CASE 0 < zl /\ zu = 0
    <3>1. zu * d = 0
      <4> HIDE DEF zu, d
      <4> QED BY <1>2, <2>1
    <3> HIDE DEF zl, zu, d, bar
    <3> QED BY <1>3, <1>6, <1>10, <2>1, <3>1
  <2>2. CASE zl = 0 /\ 0 < zu
    <3>1. zl * d = 0
      <4> HIDE DEF zl, d
      <4> QED BY <1>2, <2>2
    <3> HIDE DEF zl, zu, d, bar
    <3> QED BY <1>3, <1>7, <1>10, <2>2, <3>1
  <2>3. CASE zl = 0 /\ zu = 0
    <3>1. zl * d = 0 /\ zu * d = 0
      <4> HIDE DEF zl, zu, d
      <4> QED BY <1>2, <2>3
    <3> HIDE DEF zl, zu, d, bar
    <3> QED BY <1>3, <3>1
  <2>4. ~(0 < zl /\ 0 < zu) BY <1>1
  <2> HIDE DEF zl, zu, d, bar
  <2> QED BY <1>1, <2>1, <2>2, <2>3, <2>4
<1>12. -(g * d) <= bar + tol * Magnitude(d)
  <2>1. \A a, b, c, f, i, j \in Int : a = -b + c - f /\ -b + c <= i /\ -f <= j => a <= i + j
    OBVIOUS
  <2>2. -(g * d) \in Int
    <3> HIDE DEF d
    <3> QED BY <1>2
  <2> HIDE DEF zl, zu, e, d, bar
  <2> QED BY <1>3, <1>8, <1>9, <1>10, <1>11, <2>1, <2>2
<1> QED BY <1>12

\* Differences of numbers that are near others.
LEMMA DifferencesAdd == \A i, j, k, l, a, b \in Int :
    /\ (b <= i /\ j <= a + k /\ l = i - j => b - a <= l + k)
    /\ (i <= b /\ a <= j + k /\ l = j - i => -(b - a) <= l + k)
OBVIOUS

\* Nor can it gain at a row more than the complementarity of its multiplier.
LEMMA PriceAlong ==
    ASSUME NEW b \in Int, NEW ax \in Int, NEW as \in Int, NEW value \in Int,
           NEW lower \in Int, NEW upper \in Int, NEW K \in Nat, NEW n \in Nat,
           0 < b => Finite(upper) /\ as <= upper * Unit,
           b < 0 => Finite(lower) /\ lower * Unit <= as,
           Unit * value <= ax + Unit * n, ax <= Unit * value + Unit * n,
           Complementarity(value - lower, lower, Larger(0, -b)) <= K,
           Complementarity(upper - value, upper, Larger(0, b)) <= K
    PROVE  b * (as - ax) <= Unit * (Unit * K + Unit) + (Unit * n) * Magnitude(b)
<1> DEFINE bar == Unit * K + Unit
           un == Unit * n
           t == as - ax
<1>1. Unit \in Nat /\ bar \in Nat /\ un \in Nat /\ t \in Int BY GridAssumption
<1>2. ASSUME NEW w \in Nat, NEW gap \in Int, NEW z \in Int, Magnitude(Product(gap, w)) <= K,
             z <= Unit * gap + un
      PROVE  w * z <= Unit * bar + un * w
  <2> DEFINE p == Product(gap, w)
             ug == Unit * gap
  <2>1. p \in Int /\ gap * w <= Unit * p + Unit
    <3>1. gap \in Int /\ w \in Int OBVIOUS
    <3> HIDE DEF ug, un, bar, t
    <3> QED BY <3>1, ProductType, ProductIsNear
  <2>2. p <= K
    <3>1. Magnitude(p) <= K BY <1>2
    <3> HIDE DEF p
    <3> QED BY <2>1, <3>1 DEF Magnitude
  <2>3. gap * w <= bar
    <3>1. Unit * p <= Unit * K
      <4> HIDE DEF p
      <4> QED BY <1>1, <2>1, <2>2
    <3>2. gap * w \in Int /\ Unit * p \in Int
      <4> HIDE DEF p
      <4> QED BY <1>1, <2>1
    <3> HIDE DEF p
    <3> QED BY <1>1, <2>1, <3>1, <3>2
  <2>4. w * z <= w * (ug + un)
    <3> HIDE DEF un
    <3>1. ug \in Int BY <1>1
    <3> HIDE DEF ug
    <3>2. \A i, j \in Int : i <= j => w * i <= w * j OBVIOUS
    <3>3. z <= ug + un BY <1>2 DEF ug
    <3> QED BY <1>1, <3>1, <3>2, <3>3
  <2>5. w * (ug + un) = Unit * (gap * w) + un * w
    <3> HIDE DEF un
    <3> QED BY <1>1
  <2>6. Unit * (gap * w) <= Unit * bar
    <3> DEFINE gw == gap * w
    <3>1. gw \in Int /\ gw <= bar BY <2>3
    <3> HIDE DEF gw, bar
    <3>2. Unit * gw <= Unit * bar BY <1>1, <3>1
    <3> QED BY <3>2 DEF gw
  <2>7. w * z \in Int /\ Unit * (gap * w) \in Int /\ un * w \in Int /\ Unit * bar \in Int
    <3> HIDE DEF un, bar
    <3> QED BY <1>1
  <2> HIDE DEF un, bar, ug
  <2> QED BY <2>4, <2>5, <2>6, <2>7
<1>3. CASE 0 < b
  <2> DEFINE gap == upper - value
  <2>1. Larger(0, b) = b /\ Magnitude(b) = b BY <1>3 DEF Larger, Magnitude
  <2>2. Magnitude(Product(gap, b)) <= K BY <1>3, <2>1 DEF Complementarity
  <2>3. t <= Unit * gap + un
    <3>1. Unit * gap = upper * Unit - Unit * value BY <1>1
    <3>2. gap \in Int /\ upper * Unit \in Int /\ Unit * value \in Int BY <1>1
    <3>3. as <= upper * Unit /\ Unit * value <= ax + un BY <1>3
    <3>5. Unit * gap \in Int /\ un \in Int BY <3>1, <3>2, <1>1
    <3> HIDE DEF un, gap
    <3> QED BY <3>1, <3>2, <3>3, <3>5, DifferencesAdd
  <2>4. b \in Nat /\ gap \in Int BY <1>3
  <2> HIDE DEF bar, un, t, gap
  <2>5. b * t <= Unit * bar + un * b BY <1>1, <1>2, <2>2, <2>3, <2>4
  <2> QED BY <2>1, <2>5 DEF bar, un, t
<1>4. CASE b < 0
  <2> DEFINE gap == value - lower
             w == -b
             z == -t
  <2>1. Larger(0, -b) = w /\ Magnitude(b) = w BY <1>4 DEF Larger, Magnitude
  <2>2. Magnitude(Product(gap, w)) <= K BY <1>4, <2>1 DEF Complementarity
  <2>3. z <= Unit * gap + un
    <3>1. Unit * gap = Unit * value - lower * Unit BY <1>1
    <3>2. gap \in Int /\ lower * Unit \in Int /\ Unit * value \in Int BY <1>1
    <3>3. lower * Unit <= as /\ ax <= Unit * value + un BY <1>4
    <3>5. Unit * gap \in Int /\ un \in Int BY <3>1, <3>2, <1>1
    <3> HIDE DEF un, gap
    <3> QED BY <3>1, <3>2, <3>3, <3>5, DifferencesAdd
  <2>4. w \in Nat /\ gap \in Int /\ z \in Int BY <1>4
  <2>5. b * t = w * z
    <3> HIDE DEF t
    <3> QED BY <1>1
  <2> HIDE DEF bar, un, t, gap, w, z
  <2>6. w * z <= Unit * bar + un * w BY <1>1, <1>2, <2>2, <2>3, <2>4
  <2>7. b * t <= Unit * bar + un * Magnitude(b) BY <2>1, <2>5, <2>6
  <2> QED BY <2>7 DEF bar, un, t
<1>5. CASE b = 0
  <2>1. Magnitude(b) = 0 /\ b * t = 0
    <3> HIDE DEF t
    <3> QED BY <1>1, <1>5 DEF Magnitude
  <2>2. un * 0 = 0 /\ Unit * bar \in Nat
    <3> HIDE DEF un, bar
    <3> QED BY <1>1
  <2>3. b * t <= Unit * bar + un * Magnitude(b)
    <3> HIDE DEF un, bar, t
    <3> QED BY <2>1, <2>2
  <2> QED BY <2>3
<1>6. 0 < b \/ b < 0 \/ b = 0 OBVIOUS
<1> HIDE DEF bar, un, t
<1> QED BY <1>3, <1>4, <1>5, <1>6

\* The terms of a step, summed: q the objective's gradient along it, W the
\* multipliers' part by variables and E by rows.
Paid(R, C, q, W, G, mag, l, e, E, ymag, weight, K, n, tol) ==
    /\ IsFiniteSet(R) /\ IsFiniteSet(C)
    /\ \A v \in C : /\ q[v] \in Int /\ W[v] \in Int /\ G[v] = q[v] + W[v] /\ mag[v] \in Int
                    /\ -G[v] <= (Unit * K + Unit) + tol * mag[v]
    /\ l = Sum!Over(mag, C)
    /\ \A r \in R : /\ e[r] \in Int /\ E[r] = e[r] + Unit * l /\ ymag[r] \in Int
                    /\ e[r] <= Unit * (Unit * K + Unit) + (Unit * n) * ymag[r]
    /\ weight = Sum!Over(ymag, R)
    /\ Unit * Sum!Over(W, C) <= Sum!Over(E, R)

LEMMA StepIsPaid ==
    ASSUME NEW R, NEW C, NEW q, NEW W, NEW G, NEW mag, NEW l, NEW e, NEW E, NEW ymag,
           NEW weight, NEW K \in Nat, NEW n \in Nat, NEW tol \in Nat,
           Paid(R, C, q, W, G, mag, l, e, E, ymag, weight, K, n, tol)
    PROVE  /\ Sum!Over(q, C) \in Int /\ l \in Int /\ weight \in Int
           /\ -Sum!Over(q, C) <= (Cardinality(C) + Cardinality(R)) * (Unit * K + Unit)
                                   + (tol + Cardinality(R)) * l + n * weight
<1> DEFINE u == Unit
           bar == u * K + u
           back == [v \in C |-> (-1) * q[v]]
           flat == [v \in C |-> bar]
           pull == [v \in C |-> tol * mag[v]]
           top == [v \in C |-> flat[v] + pull[v]]
           all == [v \in C |-> W[v] + top[v]]
           c == u * bar + u * l
           k == [r \in R |-> c]
           price == [r \in R |-> (u * n) * ymag[r]]
           sum == [r \in R |-> k[r] + price[r]]
<1> USE DEF Paid
<1>0. Sum!IsFiniteSet(R) /\ Sum!IsFiniteSet(C) /\ Sum!Adds BY FinitenessIsOne, SumAdds
<1>1. u \in Nat \ {0} /\ bar \in Nat /\ u * n \in Nat BY GridAssumption
<1>2. l \in Int /\ weight \in Int /\ Sum!Over(q, C) \in Int /\ Sum!Over(W, C) \in Int
  BY <1>0, Sum!SumType
<1>3. Cardinality(C) \in Nat /\ Cardinality(R) \in Nat
      /\ Sum!Cardinality(C) = Cardinality(C) /\ Sum!Cardinality(R) = Cardinality(R)
  BY FS_CardinalityType, FinitenessIsOne
<1>4. c \in Int
  <2> HIDE DEF bar, u
  <2> QED BY <1>1, <1>2
<1>5. \A v \in C : /\ q[v] \in Int /\ W[v] \in Int /\ mag[v] \in Int
                   /\ back[v] = (-1) * q[v] /\ back[v] \in Int
                   /\ flat[v] = bar /\ flat[v] \in Int
                   /\ pull[v] = tol * mag[v] /\ pull[v] \in Int
  <2>1. \A v \in C : q[v] \in Int /\ W[v] \in Int /\ mag[v] \in Int OBVIOUS
  <2>2. \A v \in C : back[v] = (-1) * q[v] /\ flat[v] = bar /\ pull[v] = tol * mag[v] OBVIOUS
  <2> HIDE DEF back, flat, pull, bar
  <2>3. \A v \in C : (-1) * q[v] \in Int /\ tol * mag[v] \in Int BY <2>1
  <2> QED BY <1>1, <2>1, <2>2, <2>3
<1>6. \A v \in C : top[v] = flat[v] + pull[v] /\ top[v] \in Int
  <2>1. \A v \in C : top[v] = flat[v] + pull[v] OBVIOUS
  <2> HIDE DEF top, flat, pull
  <2> QED BY <1>5, <2>1
<1>7. \A v \in C : all[v] = W[v] + top[v] /\ all[v] \in Int /\ back[v] <= all[v]
  <2> TAKE v \in C
  <2>1. all[v] = W[v] + top[v] OBVIOUS
  <2>2. -(q[v] + W[v]) <= (Unit * K + Unit) + tol * mag[v] OBVIOUS
  <2>3. top[v] = bar + tol * mag[v] /\ bar = Unit * K + Unit BY <1>5, <1>6
  <2>4. tol * mag[v] \in Int BY <1>5
  <2> HIDE DEF top, all, bar, back
  <2> QED BY <1>1, <1>5, <1>6, <2>1, <2>2, <2>3, <2>4
<1>8. (-1) * Sum!Over(q, C) <= Sum!Over(W, C) + (bar * Cardinality(C) + tol * l)
  <2> HIDE DEF back, flat, pull, top, all, bar
  <2>1. Sum!Over(back, C) <= Sum!Over(all, C) BY <1>0, <1>5, <1>7, Sum!SumLess
  <2>2. Sum!Over(back, C) = (-1) * Sum!Over(q, C) BY <1>0, <1>5, Sum!SumScaled
  <2>3. Sum!Over(all, C) = Sum!Over(W, C) + Sum!Over(top, C)
    BY <1>0, <1>5, <1>6, <1>7, Sum!SumOfSums
  <2>4. Sum!Over(top, C) = Sum!Over(flat, C) + Sum!Over(pull, C)
    BY <1>0, <1>5, <1>6, Sum!SumOfSums
  <2>5. Sum!Over(flat, C) = bar * Cardinality(C)
    <3>1. bar \in Int BY <1>1
    <3> QED BY <1>0, <1>3, <1>5, <3>1, Sum!SumOfConstant
  <2>6. Sum!Over(pull, C) = tol * l
    <3>1. tol \in Int /\ l = Sum!Over(mag, C) OBVIOUS
    <3> QED BY <1>0, <1>5, <3>1, Sum!SumScaled
  <2> QED BY <2>1, <2>2, <2>3, <2>4, <2>5, <2>6
<1>9. \A r \in R : /\ k[r] = c /\ k[r] \in Int /\ ymag[r] \in Int
                   /\ price[r] = (u * n) * ymag[r] /\ price[r] \in Int
                   /\ sum[r] = k[r] + price[r] /\ sum[r] \in Int
                   /\ E[r] \in Int /\ E[r] <= sum[r]
  <2> TAKE r \in R
  <2>1. k[r] = c /\ price[r] = (u * n) * ymag[r] /\ sum[r] = k[r] + price[r] OBVIOUS
  <2>2. /\ e[r] \in Int /\ ymag[r] \in Int /\ E[r] = e[r] + u * l
        /\ e[r] <= u * bar + (u * n) * ymag[r]
    OBVIOUS
  <2>3. u * l \in Int /\ u * bar \in Int
    <3> HIDE DEF bar, u
    <3> QED BY <1>1, <1>2
  <2>4. (u * n) * ymag[r] \in Int
    <3>1. u * n \in Int BY <1>1
    <3> DEFINE un == u * n
    <3> HIDE DEF un, u
    <3>2. un * ymag[r] \in Int BY <2>2, <3>1 DEF un
    <3> QED BY <3>2 DEF un
  <2>5. c = u * bar + u * l OBVIOUS
  <2> HIDE DEF k, price, sum, c, bar, u
  <2> QED BY <1>4, <2>1, <2>2, <2>3, <2>4, <2>5
<1>10. u * Sum!Over(W, C) <= c * Cardinality(R) + (u * n) * weight
  <2>0. u * Sum!Over(W, C) <= Sum!Over(E, R) OBVIOUS
  <2> HIDE DEF k, price, sum, c, u
  <2>1. Sum!Over(E, R) <= Sum!Over(sum, R) BY <1>0, <1>9, Sum!SumLess
  <2>2. Sum!Over(sum, R) = Sum!Over(k, R) + Sum!Over(price, R) BY <1>0, <1>9, Sum!SumOfSums
  <2>3. Sum!Over(k, R) = c * Cardinality(R) BY <1>0, <1>3, <1>4, <1>9, Sum!SumOfConstant
  <2>4. Sum!Over(price, R) = (u * n) * weight
    <3> DEFINE un == u * n
    <3>1. un \in Int /\ weight = Sum!Over(ymag, R) BY <1>1
    <3>2. \A r \in R : ymag[r] \in Int /\ price[r] = un * ymag[r] BY <1>9
    <3> HIDE DEF un
    <3>3. Sum!Over(price, R) = un * Sum!Over(ymag, R) BY <1>0, <3>1, <3>2, Sum!SumScaled
    <3> QED BY <3>1, <3>3 DEF un
  <2>5. Sum!Over(E, R) \in Int /\ Sum!Over(sum, R) \in Int BY <1>0, <1>9, Sum!SumType
  <2>6. u * Sum!Over(W, C) \in Int BY <1>1, <1>2
  <2>7. Sum!Over(k, R) \in Int /\ Sum!Over(price, R) \in Int BY <1>0, <1>9, Sum!SumType
  <2> QED BY <2>0, <2>1, <2>2, <2>3, <2>4, <2>5, <2>6, <2>7
<1>11. Sum!Over(W, C) <= (bar + l) * Cardinality(R) + n * weight
  <2> DEFINE a == Sum!Over(W, C)
             b == (bar + l) * Cardinality(R) + n * weight
             m == Cardinality(R)
  <2>1. a \in Int /\ m \in Nat /\ b \in Int
    <3> HIDE DEF bar
    <3> QED BY <1>1, <1>2, <1>3
  <2>2. (u * bar + u * l) * m + (u * n) * weight = u * ((bar + l) * m + n * weight)
    <3> HIDE DEF bar, u, m
    <3> QED BY <1>1, <1>2, <2>1
  <2>3. u * a <= u * b BY <1>10, <2>2
  <2> HIDE DEF a, b, u, bar
  <2>4. ~(b < a)
    <3> SUFFICES ASSUME b < a PROVE FALSE OBVIOUS
    <3>1. u * b + u <= u * a
      <4>1. \A i, j, h \in Int : 0 < h /\ i + 1 <= j => h * i + h <= h * j
        <5> TAKE i, j, h \in Int
        <5> HAVE 0 < h /\ i + 1 <= j
        <5>1. h * (i + 1) <= h * j OBVIOUS
        <5>2. h * (i + 1) = h * i + h OBVIOUS
        <5> QED BY <5>1, <5>2
      <4> QED BY <1>1, <2>1, <4>1
    <3>2. u * a \in Int /\ u * b \in Int BY <1>1, <2>1
    <3> QED BY <1>1, <2>3, <3>1, <3>2
  <2> QED BY <2>1, <2>4 DEF a, b
<1>12. -Sum!Over(q, C) <= (Cardinality(C) + Cardinality(R)) * bar
                           + (tol + Cardinality(R)) * l + n * weight
  <2> DEFINE a == Sum!Over(W, C)
             s == Sum!Over(q, C)
             m == Cardinality(R)
             h == Cardinality(C)
             nw == n * weight
  <2>1. /\ a \in Int /\ s \in Int /\ m \in Nat /\ h \in Nat /\ nw \in Int
        /\ bar \in Nat /\ l \in Int
    BY <1>1, <1>2, <1>3
  <2>2. (bar + l) * m = m * bar + m * l
    <3> HIDE DEF m, bar
    <3> QED BY <2>1
  <2>3. (h + m) * bar = h * bar + m * bar
    <3> HIDE DEF m, h, bar
    <3> QED BY <2>1
  <2>4. (tol + m) * l = tol * l + m * l
    <3> HIDE DEF m
    <3> QED BY <2>1
  <2>5. (-1) * s = -s /\ bar * h = h * bar
    <3> HIDE DEF s, h, bar
    <3> QED BY <2>1
  <2>6. m * bar \in Int /\ m * l \in Int /\ h * bar \in Int /\ tol * l \in Int
    <3> HIDE DEF m, h, bar
    <3> QED BY <2>1
  <2>7. (-1) * s <= a + (bar * h + tol * l) BY <1>8
  <2>8. a <= (bar + l) * m + nw BY <1>11
  <2> HIDE DEF a, s, m, h, nw, bar
  <2>9. -s <= (h + m) * bar + (tol + m) * l + nw BY <2>1, <2>2, <2>3, <2>4, <2>5, <2>6, <2>7, <2>8
  <2> QED BY <2>9 DEF a, s, m, h, nw
<1> QED BY <1>2, <1>12

\* The gradient of the objective at a point, along the step to another.
Slope(m, p, s) == Total([v \in ColumnsOf(m) |->
    (m.linear[v] + Curved(m, m.quadratic, p)[v]) * (s[v] - p[v])])
Curving(m) == \E e \in DOMAIN m.quadratic : m.quadratic[e] # 0

LEMMA TimesIsNear ==
    ASSUME NEW C, IsFiniteSet(C), NEW f \in [C -> Int], NEW g \in [C -> Int]
    PROVE  LET h == Total([v \in C |-> f[v] * g[v]]) IN
           /\ Times(f, g) \in Int /\ h \in Int
           /\ Unit * Times(f, g) <= h + Unit * Cardinality(C)
           /\ h <= Unit * Times(f, g) + Unit * Cardinality(C)
<1> DEFINE a == [v \in DOMAIN f |-> Product(f[v], g[v])]
           b == [v \in C |-> f[v] * g[v]]
<1>1. Unit \in Int BY GridAssumption
<1>2. DOMAIN a = C /\ DOMAIN b = C OBVIOUS
<1>3. \A v \in C : /\ a[v] \in Int /\ b[v] \in Int
                   /\ Unit * a[v] <= b[v] + Unit /\ b[v] <= Unit * a[v] + Unit
  <2> TAKE v \in C
  <2>1. f[v] \in Int /\ g[v] \in Int OBVIOUS
  <2>2. a[v] = Product(f[v], g[v]) /\ b[v] = f[v] * g[v] OBVIOUS
  <2> HIDE DEF a, b
  <2>3. /\ Product(f[v], g[v]) \in Int
        /\ Unit * Product(f[v], g[v]) <= f[v] * g[v] + Unit
        /\ f[v] * g[v] <= Unit * Product(f[v], g[v]) + Unit
    BY <2>1, ProductType, ProductIsNear
  <2>4. f[v] * g[v] \in Int BY <2>1
  <2> QED BY <2>2, <2>3, <2>4
<1> HIDE DEF a, b
<1>4. /\ Unit * Sum!Over(a, C) <= Sum!Over(b, C) + Unit * Cardinality(C)
      /\ Sum!Over(b, C) <= Unit * Sum!Over(a, C) + Unit * Cardinality(C)
  BY <1>1, <1>3, FinitenessIsOne, SumAdds, Sum!SumsApart
<1>5. Total(a) = Sum!Over(a, C) /\ Total(b) = Sum!Over(b, C) BY <1>2, TotalIsSum
<1>6. Total(a) \in Int /\ Total(b) \in Int BY <1>2, <1>3, TotalType
<1>7. Times(f, g) = Total(a) BY DEF Times, a
<1> QED BY <1>4, <1>5, <1>6, <1>7 DEF b

LEMMA TotalOfZeros ==
    ASSUME NEW f, IsFiniteSet(DOMAIN f), \A i \in DOMAIN f : f[i] = 0
    PROVE  Total(f) = 0
<1> DEFINE S == DOMAIN f
<1>1. Sum!Over(f, S) = 0 * Cardinality(S)
  <2>1. 0 \in Int /\ \A i \in S : f[i] = 0 OBVIOUS
  <2> HIDE DEF S
  <2> QED BY <2>1, FinitenessIsOne, SumAdds, Sum!SumOfConstant DEF S
<1>2. Cardinality(S) \in Nat BY FS_CardinalityType
<1> QED BY <1>1, <1>2, TotalIsSum

\* Without a quadratic term the objective is linear but for the rounding of
\* its products.
LEMMA LinearSlope ==
    ASSUME NEW m, IsModel(m), ~Curving(m),
           NEW p \in Lists(ColumnsOf(m)), NEW s \in Lists(ColumnsOf(m))
    PROVE  Slope(m, p, s) <= Unit * (ObjectiveValue(m, s) - ObjectiveValue(m, p)
                                       + 2 * Len(m.linear))
<1> DEFINE C == ColumnsOf(m)
           c == m.linear
           n == Len(m.linear)
           cs == [v \in C |-> c[v] * s[v]]
           cp == [v \in C |-> c[v] * p[v]]
           cd == [v \in C |-> c[v] * (s[v] - p[v])]
<1>1. c \in [C -> Int] /\ p \in [C -> Int] /\ s \in [C -> Int] /\ IsFiniteSet(C)
      /\ C = 1 .. n /\ n \in Nat /\ m.offset \in Int
      /\ (\A v, w \in C : m.quadratic[<<v, w>>] = 0)
  <2>1. /\ C = 1 .. n /\ IsFiniteSet(C) /\ n \in Nat /\ m.offset \in Int /\ c \in Lists(C)
        /\ m.quadratic \in [C \X C -> Int]
    BY ModelFacts
  <2>2. DOMAIN m.quadratic = C \X C BY <2>1
  <2>3. \A v, w \in C : m.quadratic[<<v, w>>] = 0 BY <2>2 DEF Curving
  <2> QED BY <2>1, <2>3 DEF Lists
<1>2. Cardinality(C) = n BY <1>1, FS_Interval
<1>3. Unit \in Nat \ {0} BY GridAssumption
<1>4. ASSUME NEW z \in Lists(C)
      PROVE  /\ DOMAIN Curved(m, m.quadratic, z) = C
             /\ \A v \in C : Curved(m, m.quadratic, z)[v] = 0
             /\ ObjectiveValue(m, z) = m.offset + Times(c, z)
  <2>1. z \in [C -> Int] BY DEF Lists
  <2>2. \A a \in Int : Product(0, a) = 0 /\ Product(a, 0) = 0
    <3>1. \A a \in Int : 0 * a = 0 /\ a * 0 = 0 OBVIOUS
    <3>2. (Unit \div 2) \div Unit = 0 BY <1>3
    <3>3. Unit \div 2 \in Int BY <1>3
    <3> QED BY <3>1, <3>2, <3>3 DEF Product
  <2>3. ASSUME NEW v \in C PROVE Curved(m, m.quadratic, z)[v] = 0
    <3> DEFINE f == [w \in C |-> Product(m.quadratic[<<v, w>>], z[w])]
    <3>1. Curved(m, m.quadratic, z)[v] = Total(f) BY DEF Curved
    <3>2. DOMAIN f = C /\ \A w \in C : f[w] = 0 BY <1>1, <2>1, <2>2
    <3> HIDE DEF f
    <3> QED BY <1>1, <3>1, <3>2, TotalOfZeros
  <2>4. DOMAIN Curved(m, m.quadratic, z) = C BY DEF Curved
  <2>5. Times(z, Curved(m, m.quadratic, z)) = 0
    <3> DEFINE f == [i \in DOMAIN z |-> Product(z[i], Curved(m, m.quadratic, z)[i])]
    <3>1. Times(z, Curved(m, m.quadratic, z)) = Total(f) BY DEF Times
    <3>2. DOMAIN f = C /\ \A w \in C : f[w] = 0
      <4>1. \A w \in C : z[w] \in Int BY <2>1
      <4> QED BY <2>1, <2>2, <2>3, <4>1
    <3> HIDE DEF f
    <3> QED BY <1>1, <3>1, <3>2, TotalOfZeros
  <2>6. Times(c, z) \in Int BY <1>1, <2>1, TimesIsNear
  <2> QED BY <1>1, <2>3, <2>4, <2>5, <2>6 DEF ObjectiveValue
<1>5. Slope(m, p, s) = Total(cd)
  <2>1. \A v \in C : m.linear[v] + Curved(m, m.quadratic, p)[v] = c[v]
    <3>1. \A v \in C : Curved(m, m.quadratic, p)[v] = 0 /\ c[v] \in Int BY <1>1, <1>4
    <3> QED BY <3>1
  <2> QED BY <2>1 DEF Slope
<1>6. \A v \in C : /\ cs[v] \in Int /\ cp[v] \in Int /\ cd[v] \in Int
                   /\ cs[v] = cd[v] + cp[v]
  <2> TAKE v \in C
  <2>1. c[v] \in Int /\ p[v] \in Int /\ s[v] \in Int BY <1>1
  <2>2. cs[v] = c[v] * s[v] /\ cp[v] = c[v] * p[v] /\ cd[v] = c[v] * (s[v] - p[v]) OBVIOUS
  <2> HIDE DEF c, cs, cp, cd
  <2> QED BY <2>1, <2>2
<1>7. DOMAIN cs = C /\ DOMAIN cp = C /\ DOMAIN cd = C OBVIOUS
<1>8. /\ Times(c, s) \in Int /\ Total(cs) \in Int
      /\ Total(cs) <= Unit * Times(c, s) + Unit * n
      /\ Times(c, p) \in Int /\ Total(cp) \in Int
      /\ Unit * Times(c, p) <= Total(cp) + Unit * n
  <2> HIDE DEF n
  <2> QED BY <1>1, <1>2, TimesIsNear
<1>9. Total(cs) = Total(cd) + Total(cp) /\ Total(cd) \in Int
  <2> HIDE DEF cs, cp, cd, C
  <2>0. Sum!IsFiniteSet(C) /\ Sum!Adds BY <1>1, FinitenessIsOne, SumAdds
  <2>1. Sum!Over(cs, C) = Sum!Over(cd, C) + Sum!Over(cp, C)
    BY <1>6, <2>0, Sum!SumOfSums
  <2>2. Total(cd) \in Int BY <1>1, <1>6, <1>7, TotalType
  <2> QED BY <1>7, <2>1, <2>2, TotalIsSum
<1>10. /\ ObjectiveValue(m, s) = m.offset + Times(c, s)
       /\ ObjectiveValue(m, p) = m.offset + Times(c, p)
  BY <1>4
<1>11. Total(cd) <= Unit * (Times(c, s) - Times(c, p) + 2 * n)
  <2> DEFINE a == Times(c, s)
             b == Times(c, p)
  <2> HIDE DEF cs, cp, cd, n, a, b
  <2>1. Unit * (a - b + 2 * n) = Unit * a + Unit * n - (Unit * b - Unit * n)
    BY <1>1, <1>3, <1>8 DEF a, b
  <2>2. Unit * a \in Int /\ Unit * b \in Int /\ Unit * n \in Int BY <1>1, <1>3, <1>8 DEF a, b
  <2>3. Total(cd) <= Unit * (a - b + 2 * n)
    <3>1. Total(cs) <= Unit * a + Unit * n /\ Unit * b <= Total(cp) + Unit * n BY <1>8 DEF a, b
    <3> DEFINE i == Unit * a
               j == Unit * b
               k == Unit * n
               e == Unit * (a - b + 2 * n)
    <3>2. e = i + k - (j - k) /\ i \in Int /\ j \in Int /\ k \in Int /\ Total(cs) <= i + k
          /\ j <= Total(cp) + k
      BY <2>1, <2>2, <3>1
    <3> HIDE DEF i, j, k, e
    <3>3. Total(cd) <= e BY <1>8, <1>9, <3>2
    <3> QED BY <3>3 DEF e
  <2> QED BY <2>3 DEF a, b
<1>12. ObjectiveValue(m, s) - ObjectiveValue(m, p) = Times(c, s) - Times(c, p)
  BY <1>1, <1>8, <1>10
<1> QED BY <1>5, <1>11, <1>12

LEMMA AnswerIsPaid ==
    ASSUME NEW q \in Requests, Refusal(q) = "NotSolved",
           NEW p \in Lists(ColumnsOf(q.model)), NEW d \in Lists(RowsOf(q.model)),
           WithinTolerances(Answer(q, p, d)), Sided(q.model, d), DualTol <= ActiveTol,
           \A v \in ColumnsOf(q.model) : Magnitude(p[v]) + DualTol < Inf,
           NEW s \in Lists(ColumnsOf(q.model)),
           Feasible(q.model, LowerBounds(q), UpperBounds(q), s, 0)
    PROVE  LET m == q.model
               a == Answer(q, p, d)
               K == a.complementarity_residual
               n == Len(m.linear)
               k == Len(m.rows)
               length == Total([v \in ColumnsOf(m) |-> Magnitude(s[v] - p[v])])
               weight == Total([r \in RowsOf(m) |-> Magnitude(d[r])])
           IN  /\ K \in Nat /\ n \in Nat /\ k \in Nat /\ length \in Int /\ weight \in Int
               /\ Slope(m, p, s) \in Int
               /\ -Slope(m, p, s) <= (n + k) * (Unit * K + Unit) + (DualTol + k) * length
                                       + n * weight
<1> DEFINE m == q.model
           C == ColumnsOf(m)
           R == RowsOf(m)
           lower == LowerBounds(q)
           upper == UpperBounds(q)
           values == RowValues(m, Coefficients(m), p)
           qx == Curved(m, m.quadratic, p)
           aty == Transposed(m, Coefficients(m), d)
           g == Gradient(m, m.linear, m.quadratic, Coefficients(m), p, d)
           A == Answer(q, p, d)
           K == A.complementarity_residual
           n == Len(m.linear)
           k == Len(m.rows)
           zl(v) == BoundDual(p[v] - lower[v], lower[v], g[v])
           zu(v) == BoundDual(upper[v] - p[v], upper[v], -g[v])
           rowGap(r) == Larger(
               Complementarity(values[r] - m.rows[r].lower, m.rows[r].lower, Larger(0, -d[r])),
               Complementarity(m.rows[r].upper - values[r], m.rows[r].upper, Larger(0, d[r])))
           varGap(v) == Larger(Complementarity(p[v] - lower[v], lower[v], zl(v)),
                               Complementarity(upper[v] - p[v], upper[v], zu(v)))
           rowGaps == [r \in DOMAIN d |-> rowGap(r)]
           varGaps == [v \in DOMAIN p |-> varGap(v)]
<1>1. /\ IsModel(m) /\ lower \in [C -> Int] /\ upper \in [C -> Int]
      /\ p \in [C -> Int] /\ d \in [R -> Int] /\ s \in [C -> Int]
  BY RequestFacts DEF Lists
<1>2. /\ IsFiniteSet(C) /\ IsFiniteSet(R) /\ C = 1 .. n /\ R = 1 .. k /\ n \in Nat /\ k \in Nat
      /\ (\A r \in R : m.rows[r].lower \in Int /\ m.rows[r].upper \in Int
                       /\ m.rows[r].coefficients \in [C -> Int])
      /\ Coefficients(m) \in Matrix(R, C) /\ m.linear \in [C -> Int]
      /\ m.quadratic \in [C \X C -> Int]
  <2>1. k \in Nat /\ R = 1 .. k BY <1>1 DEF IsModel, RowsOf
  <2>2. /\ C = 1 .. n /\ IsFiniteSet(C) /\ n \in Nat /\ IsFiniteSet(R)
        /\ m.linear \in Lists(C) /\ m.quadratic \in [C \X C -> Int]
        /\ (\A r \in R : m.rows[r].coefficients \in Lists(C)
                         /\ m.rows[r].lower \in Int /\ m.rows[r].upper \in Int)
        /\ Coefficients(m) \in Matrix(R, C)
    BY <1>1, ModelFacts
  <2> QED BY <2>1, <2>2 DEF Lists
<1>3. Cardinality(C) = n /\ Cardinality(R) = k
  <2>1. \A i \in Nat : Cardinality(1 .. i) = i BY FS_Interval
  <2> QED BY <1>2, <2>1
<1>4. values \in [R -> Int] /\ aty \in [C -> Int] /\ qx \in [C -> Int] /\ g \in [C -> Int]
  BY <1>1, <1>2, RowValuesType, TransposedType, CurvedType, GradientType DEF Lists
<1>5. \A v \in C : g[v] = (m.linear[v] + qx[v]) + aty[v]
  <2> TAKE v \in C
  <2>1. g[v] = m.linear[v] + qx[v] + aty[v] BY DEF Gradient
  <2> QED BY <2>1
<1> DEFINE one(r) == Complementarity(values[r] - m.rows[r].lower, m.rows[r].lower, Larger(0, -d[r]))
           two(r) == Complementarity(m.rows[r].upper - values[r], m.rows[r].upper, Larger(0, d[r]))
           three(v) == Complementarity(p[v] - lower[v], lower[v], zl(v))
           four(v) == Complementarity(upper[v] - p[v], upper[v], zu(v))
<1>6. \A a, b, c \in Int : Complementarity(a, b, c) \in Int
  <2>1. \A a, b \in Int : Magnitude(Product(a, b)) \in Int BY ProductType, MagnitudeType
  <2> QED BY <2>1 DEF Complementarity
<1>7. \A r \in R : one(r) \in Int /\ two(r) \in Int
  <2> TAKE r \in R
  <2>1. values[r] \in Int /\ d[r] \in Int /\ m.rows[r].lower \in Int /\ m.rows[r].upper \in Int
    BY <1>1, <1>2, <1>4
  <2>2. Larger(0, -d[r]) \in Int /\ Larger(0, d[r]) \in Int BY <2>1 DEF Larger
  <2> HIDE DEF values
  <2>3. values[r] - m.rows[r].lower \in Int /\ m.rows[r].upper - values[r] \in Int BY <2>1
  <2> QED BY <1>6, <2>1, <2>2, <2>3
<1>8. \A v \in C : /\ p[v] \in Int /\ lower[v] \in Int /\ upper[v] \in Int /\ g[v] \in Int
                   /\ s[v] \in Int /\ three(v) \in Int /\ four(v) \in Int
  <2> TAKE v \in C
  <2>1. p[v] \in Int /\ lower[v] \in Int /\ upper[v] \in Int /\ g[v] \in Int /\ s[v] \in Int
    BY <1>1, <1>4
  <2> HIDE DEF g, lower, upper
  <2>2. zl(v) \in Int /\ zu(v) \in Int BY <2>1 DEF BoundDual, Larger
  <2>3. p[v] - lower[v] \in Int /\ upper[v] - p[v] \in Int BY <2>1
  <2> HIDE DEF zl, zu
  <2> QED BY <1>6, <2>1, <2>2, <2>3
<1>9. /\ K \in Nat
      /\ \A r \in R : one(r) <= K /\ two(r) <= K
      /\ \A v \in C : three(v) <= K /\ four(v) <= K
  <2>1. K = Larger(Largest(rowGaps), Largest(varGaps)) BY DEF Answer
  <2>2. DOMAIN rowGaps = R /\ \A r \in R : rowGaps[r] = Larger(one(r), two(r)) BY <1>1
  <2>3. DOMAIN varGaps = C /\ \A v \in C : varGaps[v] = Larger(three(v), four(v)) BY <1>1
  <2> HIDE DEF rowGaps, varGaps, one, two, three, four, K
  <2>4. /\ \A r \in R : rowGaps[r] \in Int /\ one(r) <= rowGaps[r] /\ two(r) <= rowGaps[r]
        /\ \A v \in C : varGaps[v] \in Int /\ three(v) <= varGaps[v] /\ four(v) <= varGaps[v]
    BY <1>7, <1>8, <2>2, <2>3 DEF Larger
  <2>5. /\ Largest(rowGaps) \in Nat /\ \A r \in R : rowGaps[r] <= Largest(rowGaps)
        /\ Largest(varGaps) \in Nat /\ \A v \in C : varGaps[v] <= Largest(varGaps)
    BY <1>2, <2>2, <2>3, <2>4, LargestFacts
  <2>6. K \in Nat /\ Largest(rowGaps) <= K /\ Largest(varGaps) <= K BY <2>1, <2>5 DEF Larger
  <2> QED BY <1>7, <1>8, <2>4, <2>5, <2>6
<1>10. \A v \in C : Magnitude(g[v] - zl(v) + zu(v)) <= DualTol
  <2>1. LET a == Answer(q, p, d) IN
        \A v \in C : Magnitude(g[v] - a.variable_lower_dual[v] + a.variable_upper_dual[v])
                       <= DualTol
    BY AnswerIsStationary
  <2>2. \A v \in C : A.variable_lower_dual[v] = zl(v) /\ A.variable_upper_dual[v] = zu(v)
    BY <1>1 DEF Answer
  <2> HIDE DEF g, A
  <2> QED BY <2>1, <2>2 DEF A
<1> DEFINE dd == [v \in C |-> s[v] - p[v]]
           mag == [v \in C |-> Magnitude(dd[v])]
           cq == [v \in C |-> m.linear[v] + qx[v]]
           slope == [v \in C |-> cq[v] * dd[v]]
           W == [v \in C |-> aty[v] * dd[v]]
           G == [v \in C |-> slope[v] + W[v]]
           l == Sum!Over(mag, C)
           a == Coefficients(m)
           t == [r \in R |-> Sum!Over([v \in C |-> a[r][v] * dd[v]], C)]
           e == [r \in R |-> d[r] * t[r]]
           E == [r \in R |-> d[r] * t[r] + Unit * l]
           ymag == [r \in R |-> Magnitude(d[r])]
           weight == Sum!Over(ymag, R)
           pr == [v \in C |-> [r \in R |-> Product(a[r][v], d[r])]]
<1>11. \A v \in C : /\ dd[v] = s[v] - p[v] /\ dd[v] \in Int /\ mag[v] = Magnitude(dd[v]) /\ mag[v] \in Int
                    /\ cq[v] = m.linear[v] + qx[v] /\ cq[v] \in Int /\ aty[v] \in Int
                    /\ slope[v] = cq[v] * dd[v] /\ slope[v] \in Int
                    /\ W[v] = aty[v] * dd[v] /\ W[v] \in Int
                    /\ G[v] = slope[v] + W[v] /\ G[v] = g[v] * (s[v] - p[v])
  <2> TAKE v \in C
  <2>1. m.linear[v] \in Int /\ qx[v] \in Int /\ aty[v] \in Int BY <1>2, <1>4
  <2>2. dd[v] = s[v] - p[v] /\ dd[v] \in Int BY <1>8
  <2>3. mag[v] = Magnitude(dd[v]) /\ mag[v] \in Int
    <3>1. mag[v] = Magnitude(dd[v]) OBVIOUS
    <3> HIDE DEF mag, dd
    <3> QED BY <2>2, <3>1, MagnitudeType
  <2>4. cq[v] = m.linear[v] + qx[v] /\ slope[v] = cq[v] * dd[v] /\ W[v] = aty[v] * dd[v]
        /\ G[v] = slope[v] + W[v]
    OBVIOUS
  <2>5. g[v] = (m.linear[v] + qx[v]) + aty[v] BY <1>5
  <2> HIDE DEF dd, mag, cq, slope, W, G, qx, aty, g
  <2>6. cq[v] \in Int BY <2>1, <2>4
  <2>7. slope[v] \in Int /\ W[v] \in Int BY <2>1, <2>2, <2>4, <2>6
  <2>8. \A b, c, f \in Int : b * f + c * f = (b + c) * f OBVIOUS
  <2>9. G[v] = (cq[v] + aty[v]) * dd[v] BY <2>1, <2>2, <2>4, <2>6, <2>8
  <2> QED BY <2>1, <2>2, <2>3, <2>4, <2>5, <2>6, <2>7, <2>9
<1>12. \A r \in R : /\ d[r] \in Int /\ ymag[r] = Magnitude(d[r]) /\ ymag[r] \in Int
                    /\ \A v \in C : a[r][v] \in Int
  <2> TAKE r \in R
  <2>1. a \in [R -> [C -> Int]] BY <1>2 DEF Matrix
  <2>2. \A v \in C : a[r][v] \in Int
    <3> HIDE DEF a
    <3> QED BY <2>1
  <2>3. d[r] \in Int /\ ymag[r] = Magnitude(d[r]) BY <1>1
  <2> HIDE DEF ymag, a
  <2> QED BY <2>2, <2>3, MagnitudeType
<1>13. Along(R, C, a, d, dd, pr, W, t, mag, l, E)
  <2>1. \A v \in C : \A r \in R : pr[v][r] = Product(a[r][v], d[r]) OBVIOUS
  <2>2. \A v \in C : aty[v] = Sum!Over(pr[v], R)
    <3> TAKE v \in C
    <3>1. aty[v] = Total([r \in R |-> Product(a[r][v], d[r])]) BY DEF Transposed
    <3>2. pr[v] = [r \in R |-> Product(a[r][v], d[r])] OBVIOUS
    <3>3. DOMAIN pr[v] = R BY <3>2
    <3> HIDE DEF pr, a, aty
    <3> QED BY <3>1, <3>2, <3>3, TotalIsSum
  <2>3. \A r \in R : t[r] = Sum!Over([v \in C |-> a[r][v] * dd[v]], C) OBVIOUS
  <2>4. \A r \in R : E[r] = d[r] * t[r] + Unit * l OBVIOUS
  <2>5. l = Sum!Over(mag, C) OBVIOUS
  <2>6. \A v \in C : dd[v] \in Int /\ mag[v] = Magnitude(dd[v]) BY <1>11
  <2>7. \A v \in C : W[v] = Sum!Over(pr[v], R) * dd[v] BY <1>11, <2>2
  <2> HIDE DEF a, dd, pr, W, t, mag, l, E
  <2> QED BY <1>2, <1>12, <2>1, <2>3, <2>4, <2>5, <2>6, <2>7 DEF Along
<1>14. /\ \A r \in R : t[r] \in Int
       /\ l \in Int /\ Unit * Sum!Over(W, C) <= Sum!Over(E, R)
  <2> HIDE DEF a, dd, pr, W, t, mag, l, E
  <2> QED BY <1>13, RowsAlong
<1>15. ASSUME NEW v \in C
       PROVE  -G[v] <= (Unit * K + Unit) + DualTol * mag[v]
  <2>1. /\ Finite(lower[v]) => lower[v] <= s[v]
        /\ Finite(upper[v]) => s[v] <= upper[v]
    <3>1. /\ Finite(lower[v]) => lower[v] - 0 <= s[v]
          /\ Finite(upper[v]) => s[v] <= upper[v] + 0
      BY DEF Feasible
    <3>2. lower[v] \in Int /\ upper[v] \in Int BY <1>8
    <3> HIDE DEF lower, upper
    <3> QED BY <3>1, <3>2
  <2>2. DualTol \in Nat BY LimitsAssumption
  <2>3. /\ Magnitude(g[v] - zl(v) + zu(v)) <= DualTol /\ three(v) <= K /\ four(v) <= K /\ K \in Nat
    BY <1>9, <1>10
  <2>4. /\ p[v] \in Int /\ lower[v] \in Int /\ upper[v] \in Int /\ g[v] \in Int /\ s[v] \in Int
    BY <1>8
  <2>5. -(g[v] * (s[v] - p[v])) <= (Unit * K + Unit) + DualTol * Magnitude(s[v] - p[v])
    <3> HIDE DEF g, lower, upper, K
    <3> QED BY <2>1, <2>2, <2>3, <2>4, PushAlong
  <2>6. mag[v] = Magnitude(s[v] - p[v]) OBVIOUS
  <2>7. G[v] = g[v] * (s[v] - p[v]) BY <1>11
  <2> HIDE DEF mag, G, g, K
  <2> QED BY <2>5, <2>6, <2>7
<1>16. ASSUME NEW r \in R
       PROVE  e[r] \in Int /\ e[r] <= Unit * (Unit * K + Unit) + (Unit * n) * ymag[r]
  <2> DEFINE c == m.rows[r].coefficients
             ax == Total([v \in C |-> c[v] * p[v]])
             as == Total([v \in C |-> c[v] * s[v]])
             fx == [v \in C |-> c[v] * p[v]]
             fs == [v \in C |-> c[v] * s[v]]
             fd == [v \in C |-> a[r][v] * dd[v]]
  <2>1. /\ values[r] \in Int /\ ax \in Int
        /\ Unit * values[r] <= ax + Unit * n /\ ax <= Unit * values[r] + Unit * n
    BY <1>1, RowsAreNear
  <2>2. as \in Int BY <1>1, RowsAreNear
  <2>3. t[r] = as - ax
    <3>1. \A v \in C : fs[v] = c[v] * s[v] /\ fx[v] = c[v] * p[v] /\ fd[v] = c[v] * (s[v] - p[v])
      BY DEF Coefficients
    <3>2. \A v \in C : c[v] \in Int BY <1>2
    <3>3. t[r] = Sum!Over(fd, C) OBVIOUS
    <3>4. DOMAIN fs = C /\ DOMAIN fx = C OBVIOUS
    <3>5. as = Total(fs) /\ ax = Total(fx) OBVIOUS
    <3> HIDE DEF fs, fx, fd, c, t, as, ax
    <3>6. \A v \in C : fs[v] \in Int /\ fx[v] \in Int /\ fd[v] \in Int /\ fs[v] = fd[v] + fx[v]
      <4> TAKE v \in C
      <4>1. c[v] \in Int /\ s[v] \in Int /\ p[v] \in Int BY <1>8, <3>2
      <4>2. \A i, j, h \in Int : i * j = i * (j - h) + i * h OBVIOUS
      <4> QED BY <3>1, <4>1, <4>2
    <3>7. Sum!IsFiniteSet(C) /\ Sum!Adds BY <1>2, FinitenessIsOne, SumAdds
    <3>8. Sum!Over(fs, C) = Sum!Over(fd, C) + Sum!Over(fx, C) BY <3>6, <3>7, Sum!SumOfSums
    <3>9. Sum!Over(fd, C) \in Int BY <3>6, <3>7, Sum!SumType
    <3> QED BY <2>1, <3>3, <3>4, <3>5, <3>8, <3>9, TotalIsSum
  <2>4. /\ 0 < d[r] => Finite(m.rows[r].upper) /\ as <= m.rows[r].upper * Unit
        /\ d[r] < 0 => Finite(m.rows[r].lower) /\ m.rows[r].lower * Unit <= as
    <3>1. /\ Finite(m.rows[r].lower) => (m.rows[r].lower - 0) * Unit <= as
          /\ Finite(m.rows[r].upper) => as <= (m.rows[r].upper + 0) * Unit
      BY DEF Feasible
    <3>2. m.rows[r].lower - 0 = m.rows[r].lower /\ m.rows[r].upper + 0 = m.rows[r].upper
      BY <1>2
    <3> HIDE DEF as
    <3> QED BY <3>1, <3>2 DEF Sided
  <2>5. one(r) <= K /\ two(r) <= K /\ K \in Nat BY <1>9
  <2>6. d[r] \in Int /\ m.rows[r].lower \in Int /\ m.rows[r].upper \in Int BY <1>2, <1>12
  <2>7. d[r] * (as - ax) <= Unit * (Unit * K + Unit) + (Unit * n) * Magnitude(d[r])
    <3> HIDE DEF as, ax, n, K, values
    <3> QED BY <1>2, <2>1, <2>2, <2>4, <2>5, <2>6, PriceAlong
  <2>8. e[r] = d[r] * t[r] /\ ymag[r] = Magnitude(d[r]) OBVIOUS
  <2> HIDE DEF e, t, ymag, as, ax, n, K
  <2>9. e[r] \in Int BY <1>14, <2>6, <2>8
  <2> QED BY <2>3, <2>7, <2>8, <2>9
<1>17. Paid(R, C, slope, W, G, mag, l, e, E, ymag, weight, K, n, DualTol)
  <2>1. \A r \in R : E[r] = e[r] + Unit * l OBVIOUS
  <2>2. l = Sum!Over(mag, C) /\ weight = Sum!Over(ymag, R) OBVIOUS
  <2> HIDE DEF slope, W, G, mag, l, e, E, ymag, weight, K, n
  <2> QED BY <1>2, <1>11, <1>12, <1>14, <1>15, <1>16, <2>1, <2>2 DEF Paid
<1>18. /\ Sum!Over(slope, C) \in Int /\ l \in Int /\ weight \in Int
       /\ -Sum!Over(slope, C) <= (Cardinality(C) + Cardinality(R)) * (Unit * K + Unit)
                                   + (DualTol + Cardinality(R)) * l + n * weight
  <2>1. K \in Nat /\ n \in Nat /\ DualTol \in Nat BY <1>2, <1>9, LimitsAssumption
  <2> HIDE DEF slope, W, G, mag, l, e, E, ymag, weight, K, n
  <2> QED BY <1>17, <2>1, StepIsPaid
<1>19. Slope(m, p, s) = Sum!Over(slope, C)
  <2>1. Slope(m, p, s) = Total(slope) BY DEF Slope
  <2>2. DOMAIN slope = C OBVIOUS
  <2> HIDE DEF slope
  <2> QED BY <2>1, <2>2, TotalIsSum
<1>20. l = Total([v \in C |-> Magnitude(s[v] - p[v])])
  <2>1. mag = [v \in C |-> Magnitude(s[v] - p[v])] OBVIOUS
  <2>2. DOMAIN mag = C OBVIOUS
  <2>3. l = Sum!Over(mag, C) OBVIOUS
  <2> HIDE DEF mag, l
  <2> QED BY <2>1, <2>2, <2>3, TotalIsSum
<1>21. weight = Total([r \in R |-> Magnitude(d[r])])
  <2>1. DOMAIN ymag = R OBVIOUS
  <2> HIDE DEF ymag
  <2>2. weight = Total(ymag) BY <2>1, TotalIsSum
  <2> QED BY <2>2 DEF ymag
<1> HIDE DEF l, weight, slope, K, n, k
<1>22. -Slope(m, p, s) <= (n + k) * (Unit * K + Unit) + (DualTol + k) * l + n * weight
  BY <1>3, <1>18, <1>19
<1> QED BY <1>2, <1>9, <1>18, <1>19, <1>20, <1>21, <1>22 DEF K, n, k

LEMMA TotalOfNats ==
    ASSUME NEW f, IsFiniteSet(DOMAIN f), \A i \in DOMAIN f : f[i] \in Nat
    PROVE  Total(f) \in Nat
<1> DEFINE S == DOMAIN f
           z == [i \in S |-> 0]
<1>1. \A i \in S : z[i] = 0 /\ z[i] \in Int /\ f[i] \in Int /\ z[i] <= f[i] OBVIOUS
<1>2. DOMAIN z = S /\ IsFiniteSet(S) OBVIOUS
<1> HIDE DEF z, S
<1>3. Total(z) = 0 BY <1>1, <1>2, TotalOfZeros
<1>4. Sum!Over(z, S) <= Sum!Over(f, S)
  BY <1>1, <1>2, FinitenessIsOne, SumAdds, Sum!SumLess
<1>5. Total(f) \in Int BY <1>1, <1>2, TotalType DEF S
<1>6. Total(z) = Sum!Over(z, S) /\ Total(f) = Sum!Over(f, S) BY <1>2, TotalIsSum DEF S
<1> QED BY <1>3, <1>4, <1>5, <1>6

\* What a step costs, in steps: each rounding is paid by RoundOff.
LEMMA SlackIsEnough ==
    ASSUME NEW D \in Int, NEW S \in Int, NEW K \in Nat, NEW n \in Nat, NEW k \in Nat,
           NEW l \in Nat, NEW w \in Nat, RoundOff \in Nat, 3 <= RoundOff,
           1 <= n, k <= RoundOff, n <= PrimalTol,
           S <= Unit * (RoundOff - D),
           -S <= (n + k) * (Unit * K + Unit) + (DualTol + k) * l + n * w
    PROVE  D <= (n + k) * K + Product(DualTol + RoundOff, l) + Product(PrimalTol, w)
                  + RoundOff * (1 + (n + k))
<1> DEFINE u == Unit
           T == n + k
           one == DualTol + RoundOff
           p1 == Product(one, l)
           p2 == Product(PrimalTol, w)
           TK == T * K
           b == RoundOff + TK + T + p1 + p2 + 2
<1>1. u \in Nat \ {0} /\ DualTol \in Nat /\ PrimalTol \in Nat /\ one \in Nat /\ T \in Nat
  BY GridAssumption, LimitsAssumption
<1>2. /\ p1 \in Int /\ one * l <= u * p1 + u
      /\ p2 \in Int /\ PrimalTol * w <= u * p2 + u
  <2>1. one \in Int /\ l \in Int /\ PrimalTol \in Int /\ w \in Int BY <1>1
  <2> HIDE DEF one, T, TK, b
  <2> QED BY <2>1, ProductType, ProductIsNear
<1>3. TK \in Nat BY <1>1
<1>4. u * D <= u * b
  <2>1. \A i, j, h \in Nat : i <= j => i * h <= j * h OBVIOUS
  <2>2. DualTol + k <= one /\ DualTol + k \in Nat BY <1>1
  <2>3. (DualTol + k) * l <= one * l /\ n * w <= PrimalTol * w
    <3> HIDE DEF one
    <3> QED BY <1>1, <2>1, <2>2
  <2>4. /\ (DualTol + k) * l \in Int /\ one * l \in Int /\ n * w \in Int /\ PrimalTol * w \in Int
    <3> HIDE DEF one
    <3> QED BY <1>1, <2>2
  <2>5. T * (u * K + u) = u * TK + u * T
    <3> HIDE DEF T
    <3> QED BY <1>1
  <2>6. u * (RoundOff - D) = u * RoundOff - u * D
    <3> HIDE DEF u
    <3> QED BY <1>1
  <2>7. u * b = u * RoundOff + u * TK + u * T + u * p1 + u * p2 + (u + u)
    <3> HIDE DEF u, TK, T, p1, p2
    <3> QED BY <1>1, <1>2, <1>3
  <2>8. /\ u * RoundOff \in Int /\ u * TK \in Int /\ u * T \in Int /\ u * p1 \in Int
        /\ u * p2 \in Int /\ u * D \in Int
    <3> HIDE DEF u, TK, T, p1, p2
    <3> QED BY <1>1, <1>2, <1>3
  <2>9. /\ S <= u * RoundOff - u * D
        /\ -S <= u * TK + u * T + (DualTol + k) * l + n * w
    <3> HIDE DEF u, TK, T
    <3> QED BY <2>5, <2>6 DEF u, T
  <2> HIDE DEF u, TK, T, p1, p2, one, b
  <2> DEFINE a1 == (DualTol + k) * l
             a2 == one * l
             a3 == n * w
             a4 == PrimalTol * w
             c1 == u * RoundOff
             c2 == u * TK
             c3 == u * T
             c4 == u * p1
             c5 == u * p2
             c6 == u * D
  <2>10. /\ a1 \in Int /\ a2 \in Int /\ a3 \in Int /\ a4 \in Int /\ c1 \in Int /\ c2 \in Int
         /\ c3 \in Int /\ c4 \in Int /\ c5 \in Int /\ c6 \in Int
         /\ S <= c1 - c6 /\ -S <= c2 + c3 + a1 + a3 /\ a1 <= a2 /\ a3 <= a4
         /\ a2 <= c4 + u /\ a4 <= c5 + u /\ u * b = c1 + c2 + c3 + c4 + c5 + (u + u)
    BY <1>2, <2>3, <2>4, <2>7, <2>8, <2>9
  <2> HIDE DEF a1, a2, a3, a4, c1, c2, c3, c4, c5, c6
  <2>11. c6 <= u * b BY <1>1, <2>10
  <2> QED BY <2>11 DEF c6
<1>5. D <= b
  <2>1. b \in Int BY <1>1, <1>2, <1>3
  <2> HIDE DEF b, u
  <2>2. ~(b < D)
    <3> SUFFICES ASSUME b < D PROVE FALSE OBVIOUS
    <3>1. \A i, j, h \in Int : 0 < h /\ i + 1 <= j => h * i + h <= h * j
      <4> TAKE i, j, h \in Int
      <4> HAVE 0 < h /\ i + 1 <= j
      <4>1. h * (i + 1) <= h * j OBVIOUS
      <4>2. h * (i + 1) = h * i + h OBVIOUS
      <4> QED BY <4>1, <4>2
    <3>2. u * b + u <= u * D BY <1>1, <2>1, <3>1
    <3>3. u * b \in Int /\ u * D \in Int BY <1>1, <2>1
    <3> QED BY <1>1, <1>4, <3>2, <3>3
  <2> QED BY <2>1, <2>2
<1>6. T + T + T <= RoundOff * T
  <2>1. \A i, j \in Nat : 3 <= i => j + j + j <= i * j
    <3> TAKE i, j \in Nat
    <3> HAVE 3 <= i
    <3>1. 3 * j <= i * j OBVIOUS
    <3> QED BY <3>1
  <2> HIDE DEF T
  <2> QED BY <1>1, <2>1
<1>7. RoundOff * (1 + T) = RoundOff + RoundOff * T /\ RoundOff * T \in Int
  <2> HIDE DEF T
  <2> QED BY <1>1
<1>8. 1 <= T BY <1>1
<1>9. D <= TK + p1 + p2 + RoundOff * (1 + T)
  <2> DEFINE h == RoundOff * T
             e == RoundOff * (1 + T)
  <2>1. e = RoundOff + h /\ h \in Int /\ T + T + T <= h BY <1>6, <1>7
  <2>2. D <= RoundOff + TK + T + p1 + p2 + 2 BY <1>5
  <2> HIDE DEF TK, p1, p2, T, h, e
  <2>3. D <= TK + p1 + p2 + e BY <1>1, <1>2, <1>3, <1>8, <2>1, <2>2
  <2> QED BY <2>3 DEF e
<1> QED BY <1>9

\* The objectives with a quadratic term are convex and computed within RoundOff
\* steps, at what is answered, towards the points a gap is measured from.
ObjectiveIsConvex ==
    Solved /\ Curving(model) =>
        \A s \in {g \in GridPoints : DOMAIN g = ColumnsOf(model) /\ AskedFor(g, 0)} :
            Slope(model, result.primal_solution, s)
              <= Unit * (ObjectiveValue(model, s) - result.objective_value + RoundOff)

\* The tolerances are no finer than the rounding of a row or a gradient of the models.
RoundOffIsCovered ==
    /\ RoundOff \in Nat /\ 3 <= RoundOff
    /\ \A q \in Requests : LET n == Len(q.model.linear) IN
          Len(q.model.rows) <= RoundOff /\ 2 * n <= RoundOff /\ n <= PrimalTol

\* Whatever the model, its scaling and the length of the solve, an Optimal answer is
\* worse than a point of the model by its complementarity, summed, and the tolerances
\* at most.  It rests on convexity, which a QP that is solved has been tested for up
\* to RegularMatricesAreJudged.
THEOREM GapsAreWithinComplementarity ==
    ASSUME DualTol <= ActiveTol, RowsOpenOutwards, RoundOffIsCovered,
           \A g \in GridPoints : g \in [DOMAIN g -> Int]
    PROVE  Spec /\ []InRange /\ []ArgumentsInRange /\ []ObjectiveIsConvex
             => []GapWithinComplementarity
<1>1. SidedInv /\ InRange /\ ObjectiveIsConvex => GapWithinComplementarity
  <2> SUFFICES ASSUME SidedInv, InRange, ObjectiveIsConvex, Solved, NEW s \in GridPoints,
                      DOMAIN s = ColumnsOf(model), AskedFor(s, 0)
               PROVE  result.objective_value <= ObjectiveValue(model, s) + Slack(s)
    BY DEF GapWithinComplementarity
  <2>1. /\ request \in Requests /\ Refusal(request) = "NotSolved" /\ WithinTolerances(result)
        /\ IsModel(model)
    <3>1. PdInv BY DEF SidedInv
    <3>2. request \in Requests /\ Refusal(request) = "NotSolved" /\ WithinTolerances(result)
      BY <3>1 DEF PdInv, Outcome, Solved, Refusal
    <3> QED BY <3>2, RequestFacts DEF model
  <2>2. PICK p \in Lists(ColumnsOf(model)), d \in Lists(RowsOf(model)) :
            result = Answer(request, p, d) /\ Sided(model, d)
    BY DEF SidedInv
  <2> DEFINE m == model
             C == ColumnsOf(m)
             R == RowsOf(m)
             K == result.complementarity_residual
             n == Len(m.linear)
             k == Len(m.rows)
             length == Total([v \in C |-> Magnitude(s[v] - p[v])])
             weight == Total([r \in R |-> Magnitude(d[r])])
             D == ObjectiveValue(m, p) - ObjectiveValue(m, s)
  <2>3. /\ result.primal_solution = p /\ result.objective_value = ObjectiveValue(m, p)
        /\ result.constraint_lower_dual = [r \in DOMAIN d |-> Larger(0, -d[r])]
        /\ result.constraint_upper_dual = [r \in DOMAIN d |-> Larger(0, d[r])]
    BY <2>2 DEF Answer, model
  <2>4. s \in Lists(C) BY DEF Lists
  <2>5. \A v \in C : Magnitude(p[v]) + DualTol < Inf BY <2>3 DEF InRange
  <2>6. /\ K \in Nat /\ n \in Nat /\ k \in Nat /\ length \in Int /\ weight \in Int
        /\ Slope(m, p, s) \in Int
        /\ -Slope(m, p, s) <= (n + k) * (Unit * K + Unit) + (DualTol + k) * length + n * weight
    <3>1. /\ p \in Lists(ColumnsOf(request.model)) /\ d \in Lists(RowsOf(request.model))
          /\ s \in Lists(ColumnsOf(request.model))
          /\ \A v \in ColumnsOf(request.model) : Magnitude(p[v]) + DualTol < Inf
          /\ Feasible(request.model, LowerBounds(request), UpperBounds(request), s, 0)
          /\ Sided(request.model, d) /\ WithinTolerances(Answer(request, p, d))
      BY <2>1, <2>2, <2>4, <2>5 DEF model, AskedFor
    <3> HIDE DEF length, weight
    <3> QED BY <2>1, <2>2, <3>1, AnswerIsPaid DEF model, length, weight
  <2>7. ObjectiveValue(m, p) \in Int /\ ObjectiveValue(m, s) \in Int
    <3> SUFFICES ASSUME NEW z \in Lists(C) PROVE ObjectiveValue(m, z) \in Int BY <2>4
    <3>1. /\ m.linear \in Lists(C) /\ m.offset \in Int /\ IsFiniteSet(C)
          /\ m.quadratic \in [C \X C -> Int]
      BY <2>1, ModelFacts
    <3>2. Curved(m, m.quadratic, z) \in Lists(C) BY <2>1, <3>1, CurvedType
    <3>3. Times(m.linear, z) \in Int /\ Times(z, Curved(m, m.quadratic, z)) \in Int
      BY <3>1, <3>2, TimesType
    <3> QED BY <3>1, <3>3 DEF ObjectiveValue
  <2>8. RoundOff \in Nat /\ 3 <= RoundOff /\ k <= RoundOff /\ 2 * n <= RoundOff /\ n <= PrimalTol
    BY <2>1 DEF RoundOffIsCovered, model
  <2>9. Slope(m, p, s) <= Unit * (RoundOff - D)
    <3>1. CASE Curving(m)
      <4>1. Slope(m, p, s) <= Unit * (ObjectiveValue(m, s) - ObjectiveValue(m, p) + RoundOff)
        BY <2>3, <3>1 DEF ObjectiveIsConvex
      <4>2. ObjectiveValue(m, s) - ObjectiveValue(m, p) + RoundOff = RoundOff - D BY <2>7, <2>8
      <4> QED BY <4>1, <4>2
    <3>2. CASE ~Curving(m)
      <4> DEFINE i == ObjectiveValue(m, s) - ObjectiveValue(m, p) + 2 * n
                 j == RoundOff - D
      <4>1. Slope(m, p, s) <= Unit * i BY <2>1, <2>4, <3>2, LinearSlope
      <4>2. i <= j /\ i \in Int /\ j \in Int
        <5> DEFINE op == ObjectiveValue(m, p)
                   os == ObjectiveValue(m, s)
        <5>1. op \in Int /\ os \in Int /\ n \in Nat /\ RoundOff \in Nat /\ 2 * n <= RoundOff
              /\ i = os - op + 2 * n /\ j = RoundOff - (op - os)
          BY <2>6, <2>7, <2>8
        <5> HIDE DEF op, os, n, i, j
        <5> QED BY <5>1
      <4>3. Unit \in Nat BY GridAssumption
      <4> HIDE DEF i, j
      <4>4. Unit * i <= Unit * j /\ Unit * i \in Int /\ Unit * j \in Int BY <4>2, <4>3
      <4>5. Slope(m, p, s) <= Unit * j BY <2>6, <4>1, <4>4
      <4> QED BY <4>5 DEF j
    <3> QED BY <3>1, <3>2
  <2>10. 1 <= n
    <3>1. m.linear # <<>> BY <2>1 DEF Refusal, model
    <3>2. m.linear \in Seq(Int) BY <2>1 DEF IsModel
    <3> QED BY <3>1, <3>2
  <2>11. IsFiniteSet(C) /\ IsFiniteSet(R) BY <2>1, ModelFacts
  <2>12. length \in Nat /\ weight \in Nat
    <3> DEFINE f == [v \in C |-> Magnitude(s[v] - p[v])]
               h == [r \in R |-> Magnitude(d[r])]
    <3>1. DOMAIN f = C /\ DOMAIN h = R OBVIOUS
    <3>2. \A v \in C : s[v] - p[v] \in Int
      <4>1. \A v \in C : s[v] \in Int /\ p[v] \in Int BY <2>4 DEF Lists
      <4> QED BY <4>1
    <3>3. \A r \in R : d[r] \in Int BY DEF Lists
    <3>4. (\A v \in C : f[v] \in Nat) /\ (\A r \in R : h[r] \in Nat)
      BY <3>2, <3>3, MagnitudeType
    <3> HIDE DEF f, h
    <3>5. Total(f) \in Nat /\ Total(h) \in Nat BY <2>11, <3>1, <3>4, TotalOfNats
    <3> QED BY <3>5 DEF f, h
  <2>13. Total(result.constraint_lower_dual) + Total(result.constraint_upper_dual) = weight
    <3> DEFINE f == result.constraint_lower_dual
               g == result.constraint_upper_dual
               h == [r \in R |-> Magnitude(d[r])]
    <3>1. /\ DOMAIN f = R /\ DOMAIN g = R /\ DOMAIN h = R
          /\ \A r \in R : d[r] \in Int /\ f[r] = Larger(0, -d[r]) /\ g[r] = Larger(0, d[r])
                          /\ h[r] = Magnitude(d[r])
      BY <2>3 DEF Lists
    <3>2. weight = Total(h) OBVIOUS
    <3> HIDE DEF f, g, h, weight
    <3>3. \A r \in R : f[r] \in Int /\ g[r] \in Int /\ h[r] = f[r] + g[r]
      BY <3>1 DEF Larger, Magnitude
    <3>4. Sum!IsFiniteSet(R) /\ Sum!Adds BY <2>11, FinitenessIsOne, SumAdds
    <3>5. Sum!Over(h, R) = Sum!Over(f, R) + Sum!Over(g, R) BY <3>3, <3>4, Sum!SumOfSums
    <3> QED BY <3>1, <3>2, <3>5, TotalIsSum DEF f, g
  <2>14. D <= (n + k) * K + Product(DualTol + RoundOff, length) + Product(PrimalTol, weight)
                + RoundOff * (1 + (n + k))
    <3>1. D \in Int BY <2>7
    <3> HIDE DEF D, n, k, K, length, weight
    <3> QED BY <2>6, <2>8, <2>9, <2>10, <2>12, <3>1, SlackIsEnough
  <2>15. Slack(s) = (n + k) * K + Product(DualTol + RoundOff, length) + Product(PrimalTol, weight)
                      + RoundOff * (1 + (n + k))
    BY <2>3, <2>13 DEF Slack
  <2>16. Slack(s) \in Int
    <3>1. DualTol + RoundOff \in Int /\ PrimalTol \in Int BY <2>8, LimitsAssumption
    <3>2. Product(DualTol + RoundOff, length) \in Int /\ Product(PrimalTol, weight) \in Int
      BY <2>12, <3>1, ProductType
    <3> HIDE DEF length, weight, n, k, K
    <3>3. (n + k) * K \in Int /\ RoundOff * (1 + (n + k)) \in Int BY <2>6, <2>8
    <3> QED BY <2>15, <3>2, <3>3
  <2>17. D <= Slack(s) BY <2>14, <2>15
  <2>18. ObjectiveValue(m, p) <= ObjectiveValue(m, s) + Slack(s)
    <3> HIDE DEF n, k, K, length, weight
    <3> QED BY <2>7, <2>16, <2>17
  <2> QED BY <2>3, <2>18
<1>2. Spec /\ []ArgumentsInRange => []SidedInv BY SidedHolds
<1> QED BY <1>1, <1>2, PTL

-----------------------------------------------------------------------------
(* The steps of both solvers, products rounded as the loop rounds them.     *)

\* A product is rounded to the nearest step.
LEMMA ProductIsNearest ==
    \A a, b \in Int : /\ 2 * (Unit * Product(a, b)) <= 2 * (a * b) + Unit
                      /\ 2 * (a * b) <= 2 * (Unit * Product(a, b)) + Unit
<1> SUFFICES ASSUME NEW a \in Int, NEW b \in Int
             PROVE  /\ 2 * (Unit * Product(a, b)) <= 2 * (a * b) + Unit
                    /\ 2 * (a * b) <= 2 * (Unit * Product(a, b)) + Unit
  OBVIOUS
<1> DEFINE c == a * b
           h == Unit \div 2
           p == (c + h) \div Unit
<1>1. c \in Int /\ Unit \in Nat \ {0} BY GridAssumption
<1>2. h \in Nat /\ 2 * h <= Unit /\ Unit <= 2 * h + 1 BY <1>1
<1>3. Product(a, b) = p BY DEF Product
<1> HIDE DEF c, h
<1>4. p \in Int /\ Unit * p <= c + h /\ c + h < Unit * p + Unit
  <2> DEFINE s == c + h
  <2>1. s \in Int BY <1>1, <1>2
  <2>2. \A k \in Int : \A u \in Nat \ {0} : k \div u \in Int /\ u * (k \div u) <= k /\ k < u * (k \div u) + u
    OBVIOUS
  <2>3. p = s \div Unit OBVIOUS
  <2> HIDE DEF s, p
  <2> QED BY <1>1, <2>1, <2>2, <2>3 DEF s
<1> HIDE DEF p
<1>5. Unit * p \in Int BY <1>1, <1>4
<1>6. 2 * (Unit * p) <= 2 * c + Unit /\ 2 * c <= 2 * (Unit * p) + Unit
  BY <1>1, <1>2, <1>4, <1>5
<1> QED BY <1>3, <1>6 DEF c

\* The sum of the lengths squared, against the squares' sum.
LEMMA LengthIsBounded ==
    ASSUME NEW C, IsFiniteSet(C), NEW d \in Lists(C)
    PROVE  LET l == Total([v \in C |-> Magnitude(d[v])]) IN
           l \in Nat /\ l * l <= Cardinality(C) * Squared(d)
<1> DEFINE mag == [v \in C |-> Magnitude(d[v])]
           one == [v \in C |-> 1]
           sq == [v \in C |-> d[v] * d[v]]
<1>0. Sum!IsFiniteSet(C) /\ Sum!Adds BY FinitenessIsOne, SumAdds
<1>1. \A v \in C : d[v] \in Int BY DEF Lists
<1>2. \A v \in C : /\ one[v] = 1 /\ mag[v] = Magnitude(d[v]) /\ mag[v] \in Nat
                   /\ sq[v] = d[v] * d[v] /\ sq[v] = mag[v] * mag[v]
  <2> TAKE v \in C
  <2>1. one[v] = 1 /\ mag[v] = Magnitude(d[v]) /\ sq[v] = d[v] * d[v] OBVIOUS
  <2> HIDE DEF one, mag, sq
  <2>2. Magnitude(d[v]) \in Nat /\ Magnitude(d[v]) * Magnitude(d[v]) = d[v] * d[v]
    BY <1>1 DEF Magnitude
  <2> QED BY <2>1, <2>2
<1>3. DOMAIN mag = C OBVIOUS
<1>4. Squared(d) = Sum!Over(sq, C) BY SquaredFacts
<1> HIDE DEF mag, one, sq
<1>5. \A v \in C : /\ one[v] \in Int /\ mag[v] \in Int /\ mag[v] = one[v] * mag[v]
                   /\ one[v] \in Nat /\ one[v] * one[v] = one[v] * one[v]
                   /\ sq[v] = one[v] * (mag[v] * mag[v])
  <2> TAKE v \in C
  <2>1. mag[v] \in Int /\ mag[v] * mag[v] \in Int BY <1>2
  <2> QED BY <1>2, <2>1
<1>6. /\ Sum!Over(mag, C) \in Int /\ Sum!Over(one, C) \in Nat /\ Sum!Over(sq, C) \in Nat
      /\ Sum!Over(mag, C) * Sum!Over(mag, C) <= Sum!Over(one, C) * Sum!Over(sq, C)
  BY <1>0, <1>5, Sum!WeightedCauchy
<1>7. Sum!Over(one, C) = 1 * Sum!Cardinality(C)
  <2>1. 1 \in Int /\ \A v \in C : one[v] = 1 BY <1>2
  <2> QED BY <1>0, <2>1, Sum!SumOfConstant
<1>8. Sum!Cardinality(C) = Cardinality(C) /\ Cardinality(C) \in Nat
  BY FinitenessIsOne, FS_CardinalityType
<1>9. Total(mag) = Sum!Over(mag, C) BY <1>3, TotalIsSum
<1>10. Total(mag) \in Nat BY <1>2, <1>3, TotalOfNats
<1>11. Sum!Over(one, C) = Cardinality(C) BY <1>7, <1>8
<1>12. Total(mag) \in Nat /\ Total(mag) * Total(mag) <= Cardinality(C) * Squared(d)
  BY <1>4, <1>6, <1>9, <1>10, <1>11
<1> QED BY <1>12 DEF mag

\* A sum of two squared, by the squares.
LEMMA SquareOfSum ==
    \A a, e \in Int : 100 * ((a + e) * (a + e)) <= 101 * (a * a) + 10100 * (e * e)
<1> SUFFICES ASSUME NEW a \in Int, NEW e \in Int
             PROVE  100 * ((a + e) * (a + e)) <= 101 * (a * a) + 10100 * (e * e)
  OBVIOUS
<1> DEFINE f == a - 100 * e
<1>1. f \in Int /\ f * f >= 0 OBVIOUS
<1>2. f * f = a * a - 200 * (a * e) + 10000 * (e * e) OBVIOUS
<1>3. (a + e) * (a + e) = a * a + 2 * (a * e) + e * e OBVIOUS
<1>4. a * a \in Int /\ a * e \in Int /\ e * e \in Int OBVIOUS
<1> HIDE DEF f
<1> QED BY <1>1, <1>2, <1>3, <1>4

\* A step times a matrix, entry by entry and rounded, as the property applies it.
Stepped(m, t, matrix, d) ==
    [r \in RowsOf(m) |-> Total([v \in ColumnsOf(m) |-> Product(t, matrix[r][v]) * d[v]])]

\* A sum of rounded products along d, against the exact one.
LEMMA RoundedRow ==
    ASSUME NEW C, IsFiniteSet(C), NEW t \in Int, NEW w, NEW d \in Lists(C),
           \A v \in C : w[v] \in Int
    PROVE  LET b == Total([v \in C |-> Product(t, w[v]) * d[v]])
               a == Total([v \in C |-> w[v] * d[v]])
               l == Total([v \in C |-> Magnitude(d[v])])
           IN  /\ b \in Int /\ a \in Int /\ l \in Nat
               /\ 2 * (Unit * b - t * a) <= Unit * l
               /\ 2 * (t * a - Unit * b) <= Unit * l
<1> DEFINE u == Unit
           fb == [v \in C |-> Product(t, w[v]) * d[v]]
           fa == [v \in C |-> w[v] * d[v]]
           mag == [v \in C |-> Magnitude(d[v])]
           fe == [v \in C |-> u * fb[v] - t * fa[v]]
           ub == [v \in C |-> u * fb[v]]
           ta == [v \in C |-> t * fa[v]]
           above == [v \in C |-> 2 * fe[v]]
           below == [v \in C |-> (-2) * fe[v]]
           um == [v \in C |-> u * mag[v]]
<1>0. Sum!IsFiniteSet(C) /\ Sum!Adds BY FinitenessIsOne, SumAdds
<1>1. u \in Nat \ {0} BY GridAssumption
<1>2. \A v \in C : d[v] \in Int /\ w[v] \in Int BY DEF Lists
<1>3. \A v \in C : /\ fb[v] = Product(t, w[v]) * d[v] /\ fb[v] \in Int
                   /\ fa[v] = w[v] * d[v] /\ fa[v] \in Int
                   /\ mag[v] = Magnitude(d[v]) /\ mag[v] \in Nat
  <2> TAKE v \in C
  <2>1. fb[v] = Product(t, w[v]) * d[v] /\ fa[v] = w[v] * d[v] /\ mag[v] = Magnitude(d[v])
    OBVIOUS
  <2> HIDE DEF fb, fa, mag
  <2>2. Product(t, w[v]) \in Int /\ d[v] \in Int /\ w[v] \in Int BY <1>2, ProductType
  <2>3. Product(t, w[v]) * d[v] \in Int /\ w[v] * d[v] \in Int BY <2>2
  <2> QED BY <2>1, <2>2, <2>3, MagnitudeType
<1>4. \A v \in C : /\ ub[v] = u * fb[v] /\ ub[v] \in Int /\ ta[v] = t * fa[v] /\ ta[v] \in Int
                   /\ fe[v] = ub[v] - ta[v] /\ fe[v] \in Int
                   /\ above[v] = 2 * fe[v] /\ above[v] \in Int
                   /\ below[v] = (-2) * fe[v] /\ below[v] \in Int
                   /\ um[v] = u * mag[v] /\ um[v] \in Int
  <2> TAKE v \in C
  <2>1. /\ ub[v] = u * fb[v] /\ ta[v] = t * fa[v] /\ fe[v] = ub[v] - ta[v]
        /\ above[v] = 2 * fe[v] /\ below[v] = (-2) * fe[v] /\ um[v] = u * mag[v]
    OBVIOUS
  <2> HIDE DEF ub, ta, fe, above, below, um, fb, fa, mag, u
  <2>2. u * fb[v] \in Int /\ t * fa[v] \in Int /\ u * mag[v] \in Int BY <1>1, <1>3
  <2> QED BY <2>1, <2>2
<1>5. \A v \in C : above[v] <= um[v] /\ below[v] <= um[v]
  <2> TAKE v \in C
  <2> DEFINE p == Product(t, w[v])
             tw == t * w[v]
             up == u * p
             g == up - tw
             dv == d[v]
  <2>1. p \in Int /\ dv \in Int /\ tw \in Int /\ up \in Int
    <3>1. p \in Int /\ dv \in Int /\ w[v] \in Int BY <1>2, ProductType
    <3> HIDE DEF p
    <3> QED BY <1>1, <3>1
  <2>2. 2 * g <= u /\ (-2) * g <= u
    <3>1. 2 * up <= 2 * tw + u /\ 2 * tw <= 2 * up + u BY <1>2, ProductIsNearest
    <3> HIDE DEF up, tw
    <3> QED BY <1>1, <2>1, <3>1
  <2>3. fe[v] = g * dv
    <3>1. u * (p * dv) - t * (w[v] * dv) = (u * p - t * w[v]) * dv
      <4>1. w[v] \in Int BY <1>2
      <4> HIDE DEF p, dv
      <4> QED BY <1>1, <2>1, <4>1
    <3> QED BY <3>1
  <2>4. g \in Int
    <3> HIDE DEF up, tw
    <3> QED BY <2>1
  <2> HIDE DEF g
  <2>5. 2 * (g * dv) <= u * Magnitude(dv) /\ (-2) * (g * dv) <= u * Magnitude(dv)
    <3> HIDE DEF dv, u
    <3>1. CASE dv >= 0
      <4>1. (2 * g) * dv <= u * dv /\ ((-2) * g) * dv <= u * dv BY <1>1, <2>1, <2>2, <2>4, <3>1
      <4>2. (2 * g) * dv = 2 * (g * dv) /\ ((-2) * g) * dv = (-2) * (g * dv) BY <2>1, <2>4
      <4>3. Magnitude(dv) = dv BY <2>1, <3>1 DEF Magnitude
      <4> QED BY <4>1, <4>2, <4>3
    <3>2. CASE dv < 0
      <4>1. (2 * g) * (-dv) <= u * (-dv) /\ ((-2) * g) * (-dv) <= u * (-dv)
        BY <1>1, <2>1, <2>2, <2>4, <3>2
      <4>2. (2 * g) * (-dv) = (-2) * (g * dv) /\ ((-2) * g) * (-dv) = 2 * (g * dv)
        BY <2>1, <2>4
      <4>3. Magnitude(dv) = -dv BY <3>2 DEF Magnitude
      <4> QED BY <4>1, <4>2, <4>3
    <3> QED BY <2>1, <3>1, <3>2
  <2>6. um[v] = u * Magnitude(dv) BY <1>3, <1>4
  <2>7. above[v] = 2 * (g * dv) /\ below[v] = (-2) * (g * dv) BY <1>4, <2>3
  <2> QED BY <2>5, <2>6, <2>7
<1>6. DOMAIN fb = C /\ DOMAIN fa = C /\ DOMAIN mag = C OBVIOUS
<1> HIDE DEF fb, fa, mag, fe, ub, ta, above, below, um
<1>7. Sum!Over(above, C) <= Sum!Over(um, C) /\ Sum!Over(below, C) <= Sum!Over(um, C)
  BY <1>0, <1>4, <1>5, Sum!SumLess
<1>8. Sum!Over(above, C) = 2 * Sum!Over(fe, C)
  <2>1. 2 \in Int /\ \A v \in C : fe[v] \in Int /\ above[v] = 2 * fe[v] BY <1>4
  <2> QED BY <1>0, <2>1, Sum!SumScaled
<1>9. Sum!Over(below, C) = (-2) * Sum!Over(fe, C)
  <2>1. -2 \in Int /\ \A v \in C : fe[v] \in Int /\ below[v] = (-2) * fe[v] BY <1>4
  <2> QED BY <1>0, <2>1, Sum!SumScaled
<1>10. Sum!Over(um, C) = u * Sum!Over(mag, C)
  <2>1. u \in Int /\ \A v \in C : mag[v] \in Int /\ um[v] = u * mag[v] BY <1>1, <1>3, <1>4
  <2> HIDE DEF u
  <2> QED BY <1>0, <2>1, Sum!SumScaled
<1>11. Sum!Over(ub, C) = u * Sum!Over(fb, C) /\ Sum!Over(ta, C) = t * Sum!Over(fa, C)
  <2>1. u \in Int /\ t \in Int BY <1>1
  <2> HIDE DEF u
  <2> QED BY <1>0, <1>3, <1>4, <2>1, Sum!SumScaled
<1>12. Sum!Over(ub, C) = Sum!Over(fe, C) + Sum!Over(ta, C)
  <2>1. \A v \in C : fe[v] \in Int /\ ta[v] \in Int /\ ub[v] = fe[v] + ta[v] BY <1>4
  <2> QED BY <1>0, <2>1, Sum!SumOfSums
<1>13. /\ Sum!Over(fe, C) \in Int /\ Sum!Over(ta, C) \in Int /\ Sum!Over(um, C) \in Int
  BY <1>0, <1>4, Sum!SumType
<1>14. Total(fb) \in Int /\ Total(fa) \in Int /\ Total(mag) \in Nat
  BY <1>3, <1>6, TotalType, TotalOfNats
<1>15. Total(fb) = Sum!Over(fb, C) /\ Total(fa) = Sum!Over(fa, C) /\ Total(mag) = Sum!Over(mag, C)
  BY <1>6, TotalIsSum
<1>16. Sum!Over(fe, C) = u * Total(fb) - t * Total(fa)
  <2>1. u * Total(fb) = Sum!Over(fe, C) + t * Total(fa) BY <1>11, <1>12, <1>15
  <2>2. t * Total(fa) \in Int BY <1>14
  <2> HIDE DEF u
  <2> QED BY <1>13, <2>1, <2>2
<1>17. /\ 2 * (u * Total(fb) - t * Total(fa)) <= u * Total(mag)
       /\ 2 * (t * Total(fa) - u * Total(fb)) <= u * Total(mag)
  <2> DEFINE e == Sum!Over(fe, C)
             ubb == u * Total(fb)
             taa == t * Total(fa)
             k == u * Total(mag)
  <2>1. e = ubb - taa /\ 2 * e <= k /\ (-2) * e <= k
    BY <1>7, <1>8, <1>9, <1>10, <1>15, <1>16
  <2>2. ubb \in Int /\ taa \in Int /\ k \in Int BY <1>1, <1>14
  <2> HIDE DEF e, ubb, taa, k
  <2>3. 2 * (ubb - taa) <= k /\ 2 * (taa - ubb) <= k BY <2>1, <2>2
  <2> QED BY <2>3 DEF ubb, taa, k
<1> QED BY <1>14, <1>17 DEF fb, fa, mag

\* Squared: the exact row's square a little enlarged, and the rounding's.
LEMMA RoundedRowSquared ==
    ASSUME NEW a \in Int, NEW b \in Int, NEW t \in Int, NEW l \in Nat, NEW z \in Nat,
           l * l <= z,
           2 * (Unit * b - t * a) <= Unit * l, 2 * (t * a - Unit * b) <= Unit * l
    PROVE  400 * ((Unit * Unit) * (b * b))
             <= 404 * ((t * t) * (a * a)) + 10100 * ((Unit * Unit) * z)
<1> DEFINE u == Unit
           e == u * b - t * a
           ta == t * a
           ul == u * l
           uu == u * u
<1>1. u \in Nat \ {0} BY GridAssumption
<1>2. e \in Int /\ ta \in Int /\ ul \in Nat /\ uu \in Nat /\ ta + e = u * b BY <1>1
<1>3. 4 * (e * e) <= ul * ul
  <2>1. -ul <= 2 * e /\ 2 * e <= ul
    <3>1. 2 * e <= ul /\ 2 * (t * a - u * b) <= ul OBVIOUS
    <3>2. 2 * (t * a - u * b) = -(2 * e) BY <1>1
    <3> HIDE DEF e, ul
    <3> QED BY <1>2, <3>1, <3>2
  <2> HIDE DEF e, ul
  <2>2. (ul - 2 * e) * (ul + 2 * e) >= 0 BY <1>2, <2>1
  <2>3. (ul - 2 * e) * (ul + 2 * e) = ul * ul - 4 * (e * e) BY <1>2
  <2>4. ul * ul \in Int /\ e * e \in Int BY <1>2
  <2> QED BY <2>2, <2>3, <2>4
<1>4. ul * ul <= uu * z
  <2>1. ul * ul = uu * (l * l) BY <1>1
  <2>2. l * l \in Nat OBVIOUS
  <2>3. \A i, j, h \in Nat : i <= j => h * i <= h * j OBVIOUS
  <2> HIDE DEF uu
  <2> QED BY <1>2, <2>1, <2>2, <2>3
<1>5. (ta + e) * (ta + e) = uu * (b * b)
  <2>1. (u * b) * (u * b) = uu * (b * b) BY <1>1
  <2> QED BY <1>2, <2>1
<1>6. 100 * ((ta + e) * (ta + e)) <= 101 * (ta * ta) + 10100 * (e * e)
  <2> HIDE DEF ta, e
  <2> QED BY <1>2, SquareOfSum
<1>7. ta * ta = (t * t) * (a * a) OBVIOUS
<1>8. 400 * (uu * (b * b)) <= 404 * ((t * t) * (a * a)) + 10100 * (uu * z)
  <2> DEFINE i == uu * (b * b)
             j == (t * t) * (a * a)
             k == e * e
             h == uu * z
             g == ul * ul
  <2>1. 100 * i <= 101 * j + 10100 * k /\ 4 * k <= g /\ g <= h BY <1>3, <1>4, <1>5, <1>6, <1>7
  <2>2. i \in Int /\ j \in Int /\ k \in Int /\ h \in Int /\ g \in Int
    <3> HIDE DEF uu, e, ul
    <3> QED BY <1>2
  <2> HIDE DEF i, j, k, h, g
  <2>3. 400 * i <= 404 * j + 10100 * h BY <2>1, <2>2
  <2> QED BY <2>3 DEF i, j, h
<1> QED BY <1>8

\* A rounded product against the exact one, with room for its rounding.
StepRoom(t, S, A, D, n, k) ==
    400 * ((Unit * Unit) * S) <= 404 * ((t * t) * A) + 10100 * ((Unit * Unit) * (n * k * D))
\* What the rounded operator does to d, against what the exact one does.
LEMMA SteppedIsBounded ==
    ASSUME NEW m, IsModel(m), NEW matrix \in Matrix(RowsOf(m), ColumnsOf(m)),
           NEW d \in Lists(ColumnsOf(m)), NEW t \in Int
    PROVE  LET D == Squared(d)
               S == Squared(Stepped(m, t, matrix, d))
               A == Squared(Image(m, matrix, d))
               n == Len(m.linear)
               k == Len(m.rows)
           IN  /\ D \in Nat /\ S \in Nat /\ A \in Nat /\ n \in Nat /\ k \in Nat
               /\ StepRoom(t, S, A, D, n, k)
<1> DEFINE R == RowsOf(m)
           C == ColumnsOf(m)
           n == Len(m.linear)
           k == Len(m.rows)
           D == Squared(d)
           uu == Unit * Unit
           tt == t * t
           b == Stepped(m, t, matrix, d)
           a == Image(m, matrix, d)
           z == n * D
           bb == [r \in R |-> b[r] * b[r]]
           aa == [r \in R |-> a[r] * a[r]]
           left == [r \in R |-> (400 * uu) * bb[r]]
           middle == [r \in R |-> (404 * tt) * aa[r]]
           flat == [r \in R |-> 10100 * (uu * z)]
           right == [r \in R |-> middle[r] + flat[r]]
<1>1. /\ IsFiniteSet(C) /\ IsFiniteSet(R) /\ n \in Nat /\ C = 1 .. n /\ k \in Nat /\ R = 1 .. k
  <2>1. Len(m.rows) \in Nat /\ R = 1 .. k BY DEF IsModel, RowsOf
  <2> QED BY <2>1, ModelFacts
<1>2. Cardinality(C) = n /\ Cardinality(R) = k
  <2>1. \A i \in Nat : Cardinality(1 .. i) = i BY FS_Interval
  <2> QED BY <1>1, <2>1
<1>3. D \in Nat BY <1>1, SquaredFacts
<1>4. Unit \in Nat /\ uu \in Nat /\ tt \in Int BY GridAssumption
<1>5. z \in Nat
  <2> HIDE DEF n, D
  <2> QED BY <1>1, <1>3
<1>6. 10100 * (uu * z) \in Int
  <2> HIDE DEF uu, z
  <2> QED BY <1>4, <1>5
<1>7. ASSUME NEW r \in R
      PROVE  /\ b[r] \in Int /\ a[r] \in Int
             /\ 400 * (uu * (b[r] * b[r])) <= 404 * (tt * (a[r] * a[r])) + 10100 * (uu * z)
  <2> DEFINE w == matrix[r]
             l == Total([v \in C |-> Magnitude(d[v])])
             br == Total([v \in C |-> Product(t, w[v]) * d[v]])
             ar == Total([v \in C |-> w[v] * d[v]])
  <2>1. \A v \in C : w[v] \in Int BY DEF Matrix
  <2>2. b[r] = br /\ a[r] = ar BY DEF Stepped, Image
  <2>3. /\ br \in Int /\ ar \in Int /\ l \in Nat
        /\ 2 * (Unit * br - t * ar) <= Unit * l /\ 2 * (t * ar - Unit * br) <= Unit * l
    <3> HIDE DEF w
    <3> QED BY <1>1, <2>1, RoundedRow
  <2>4. l * l <= z
    <3> HIDE DEF n
    <3> QED BY <1>1, <1>2, LengthIsBounded
  <2> HIDE DEF l, br, ar, z, b, a
  <2>5. 400 * (uu * (br * br)) <= 404 * (tt * (ar * ar)) + 10100 * (uu * z)
    BY <1>5, <2>3, <2>4, RoundedRowSquared
  <2> QED BY <2>2, <2>3, <2>5
<1>8. \A r \in R : /\ bb[r] = b[r] * b[r] /\ bb[r] \in Int /\ aa[r] = a[r] * a[r] /\ aa[r] \in Int
                   /\ left[r] = (400 * uu) * bb[r] /\ left[r] \in Int
                   /\ middle[r] = (404 * tt) * aa[r] /\ middle[r] \in Int
                   /\ flat[r] = 10100 * (uu * z) /\ flat[r] \in Int
                   /\ right[r] = middle[r] + flat[r] /\ right[r] \in Int
                   /\ left[r] <= right[r]
  <2> TAKE r \in R
  <2>1. /\ bb[r] = b[r] * b[r] /\ aa[r] = a[r] * a[r] /\ left[r] = (400 * uu) * bb[r]
        /\ middle[r] = (404 * tt) * aa[r] /\ flat[r] = 10100 * (uu * z)
        /\ right[r] = middle[r] + flat[r]
    OBVIOUS
  <2>2. /\ b[r] \in Int /\ a[r] \in Int
        /\ 400 * (uu * (b[r] * b[r])) <= 404 * (tt * (a[r] * a[r])) + 10100 * (uu * z)
    BY <1>7
  <2> HIDE DEF bb, aa, left, middle, flat, right, uu, tt, z, b, a
  <2>3. bb[r] \in Int /\ aa[r] \in Int BY <2>1, <2>2
  <2>4. /\ (400 * uu) * bb[r] = 400 * (uu * bb[r]) /\ (404 * tt) * aa[r] = 404 * (tt * aa[r])
        /\ uu * bb[r] \in Int /\ tt * aa[r] \in Int
    BY <1>4, <2>3
  <2>5. left[r] = 400 * (uu * bb[r]) /\ middle[r] = 404 * (tt * aa[r]) BY <2>1, <2>4
  <2>6. left[r] \in Int /\ middle[r] \in Int BY <2>4, <2>5
  <2>7. right[r] \in Int BY <1>6, <2>1, <2>6
  <2>8. left[r] <= right[r] BY <2>1, <2>2, <2>5
  <2> QED BY <1>6, <2>1, <2>3, <2>6, <2>7, <2>8
<1>9. b \in Lists(R) /\ a \in Lists(R)
  <2>1. b = [r \in R |-> b[r]] /\ a = [r \in R |-> a[r]] BY Zenon DEF Stepped, Image
  <2> HIDE DEF b, a
  <2> QED BY <1>7, <2>1 DEF Lists
<1>10. /\ Squared(b) = Sum!Over(bb, R) /\ Squared(b) \in Nat
       /\ Squared(a) = Sum!Over(aa, R) /\ Squared(a) \in Nat
  <2> HIDE DEF b, a
  <2> QED BY <1>1, <1>9, SquaredFacts
<1> HIDE DEF b, a, bb, aa, left, middle, flat, right, D, n
<1>11. Sum!IsFiniteSet(R) /\ Sum!Adds /\ Sum!Cardinality(R) = k
  BY <1>1, <1>2, FinitenessIsOne, SumAdds
<1>12. Sum!Over(left, R) <= Sum!Over(right, R) BY <1>8, <1>11, Sum!SumLess
<1>13. Sum!Over(left, R) = (400 * uu) * Sum!Over(bb, R)
  <2> DEFINE c == 400 * uu
  <2>1. c \in Int /\ \A r \in R : bb[r] \in Int /\ left[r] = c * bb[r] BY <1>4, <1>8
  <2> HIDE DEF c
  <2>2. Sum!Over(left, R) = c * Sum!Over(bb, R) BY <1>11, <2>1, Sum!SumScaled
  <2> QED BY <2>2 DEF c
<1>14. Sum!Over(middle, R) = (404 * tt) * Sum!Over(aa, R)
  <2> DEFINE c == 404 * tt
  <2>1. c \in Int /\ \A r \in R : aa[r] \in Int /\ middle[r] = c * aa[r] BY <1>4, <1>8
  <2> HIDE DEF c
  <2>2. Sum!Over(middle, R) = c * Sum!Over(aa, R) BY <1>11, <2>1, Sum!SumScaled
  <2> QED BY <2>2 DEF c
<1>15. Sum!Over(flat, R) = (10100 * (uu * z)) * k
  <2> DEFINE c == 10100 * (uu * z)
  <2>1. c \in Int /\ \A r \in R : flat[r] = c BY <1>6, <1>8
  <2> HIDE DEF c
  <2>2. Sum!Over(flat, R) = c * Sum!Cardinality(R) BY <1>11, <2>1, Sum!SumOfConstant
  <2> QED BY <1>11, <2>2 DEF c
<1>16. Sum!Over(right, R) = Sum!Over(middle, R) + Sum!Over(flat, R)
  <2>1. \A r \in R : middle[r] \in Int /\ flat[r] \in Int /\ right[r] = middle[r] + flat[r]
    BY <1>8
  <2> QED BY <1>11, <2>1, Sum!SumOfSums
<1>17. (10100 * (uu * z)) * k = 10100 * (uu * (n * k * D))
  <2>1. z = n * D OBVIOUS
  <2> HIDE DEF z, uu, k
  <2> QED BY <1>1, <1>3, <1>4, <2>1
<1>18. /\ (400 * uu) * Squared(b) = 400 * (uu * Squared(b))
       /\ (404 * tt) * Squared(a) = 404 * (tt * Squared(a))
  <2> HIDE DEF uu, tt
  <2> QED BY <1>4, <1>10
<1>19. 400 * (uu * Squared(b)) <= 404 * (tt * Squared(a)) + 10100 * (uu * (n * k * D))
  BY <1>10, <1>12, <1>13, <1>14, <1>15, <1>16, <1>17, <1>18
<1> DEFINE sb == Squared(b)
           sa == Squared(a)
<1>a. StepRoom(t, sb, sa, D, n, k)
  <2>1. 400 * (uu * sb) <= 404 * (tt * sa) + 10100 * (uu * (n * k * D)) BY <1>19
  <2>2. sb \in Nat /\ sa \in Nat BY <1>10
  <2> HIDE DEF sb, sa, n, k, D
  <2> QED BY <1>1, <1>3, <1>4, <2>1, <2>2, SMT DEF StepRoom
<1>20. /\ D \in Nat /\ Squared(b) \in Nat /\ Squared(a) \in Nat /\ n \in Nat /\ k \in Nat
       /\ StepRoom(t, Squared(b), Squared(a), D, n, k)
  <2>1. StepRoom(t, Squared(b), Squared(a), D, n, k) BY <1>a
  <2> QED BY <1>1, <1>3, <1>10, <2>1
<1> QED BY <1>20, Zenon DEF b, a, D, n

\* A quadratic form against its matrix's sums over rows and over columns, s
\* times as fine.
FormOf(C, T, d, mag, sq, row, col, qd, X, s, B) ==
    /\ IsFiniteSet(C) /\ s \in Nat /\ B \in Int
    /\ \A v \in C : d[v] \in Int /\ sq[v] = d[v] * d[v] /\ \A w \in C : T[v][w] \in Int
    /\ \A v, w \in C : mag[v][w] = Magnitude(T[v][w])
    /\ \A v \in C : /\ row[v] = Sum!Over(mag[v], C)
                    /\ col[v] = Sum!Over([w \in C |-> mag[w][v]], C)
                    /\ s * row[v] + s * col[v] <= B
                    /\ qd[v] = Sum!Over([w \in C |-> T[v][w] * d[w]], C)
                    /\ X[v] = d[v] * qd[v]

\* A square of numbers has one total by columns and by rows.
Exchanged(M, C) ==
  Sum!Over([v \in C |-> Sum!Over(M[v], C)], C)
    = Sum!Over([w \in C |-> Sum!Over([v \in C |-> M[v][w]], C)], C)
LEMMA SquareExchanged ==
  ASSUME NEW C, Sum!IsFiniteSet(C), NEW M, \A v \in C : \A w \in C : M[v][w] \in Int
  PROVE  Exchanged(M, C)
<1> QED BY SumAdds, Sum!SumsExchanged DEF Exchanged

LEMMA FormIsBounded ==
    ASSUME NEW C, NEW T, NEW d, NEW mag, NEW sq, NEW row, NEW col, NEW qd, NEW X, NEW s, NEW B,
           FormOf(C, T, d, mag, sq, row, col, qd, X, s, B)
    PROVE  /\ \A v \in C : qd[v] \in Int /\ X[v] \in Int
           /\ Sum!Over(X, C) \in Int /\ Sum!Over(sq, C) \in Int
           /\ 2 * (s * Sum!Over(X, C)) <= B * Sum!Over(sq, C)
<1> DEFINE byRow == [v \in C |-> sq[v] * row[v]]
           M == [v \in C |-> [w \in C |-> mag[v][w] * sq[w]]]
           byColumn == [v \in C |-> Sum!Over(M[v], C)]
           exchanged == [w \in C |-> Sum!Over([v \in C |-> M[v][w]], C)]
           twice == [v \in C |-> 2 * X[v]]
           both == [v \in C |-> byRow[v] + byColumn[v]]
           sums == [v \in C |-> byRow[v] + exchanged[v]]
           ssums == [v \in C |-> s * sums[v]]
           bsq == [v \in C |-> B * sq[v]]
<1> USE DEF FormOf
<1>0. Sum!IsFiniteSet(C) /\ Sum!Adds BY FinitenessIsOne, SumAdds
<1>1. \A v, w \in C : T[v][w] \in Int /\ mag[v][w] \in Nat /\ mag[v][w] = Magnitude(T[v][w])
  BY MagnitudeType
<1>2. \A v \in C : d[v] \in Int /\ sq[v] = d[v] * d[v] /\ sq[v] \in Nat
  <2> TAKE v \in C
  <2>1. d[v] \in Int /\ sq[v] = d[v] * d[v] OBVIOUS
  <2>2. d[v] * d[v] \in Nat BY <2>1
  <2> QED BY <2>1, <2>2
<1>3. \A v \in C : /\ row[v] \in Int /\ col[v] \in Int
                   /\ row[v] = Sum!Over(mag[v], C)
                   /\ col[v] = Sum!Over([w \in C |-> mag[w][v]], C)
                   /\ s * row[v] + s * col[v] <= B
  <2> TAKE v \in C
  <2>1. Sum!Over(mag[v], C) \in Int
    <3>1. \A w \in C : mag[v][w] \in Int BY <1>1
    <3> QED BY <1>0, <3>1, Sum!SumType
  <2>2. Sum!Over([w \in C |-> mag[w][v]], C) \in Int
    <3> DEFINE f == [w \in C |-> mag[w][v]]
    <3>1. \A w \in C : f[w] \in Int BY <1>1
    <3> HIDE DEF f
    <3>2. Sum!Over(f, C) \in Int BY <1>0, <3>1, Sum!SumType
    <3> QED BY <3>2 DEF f
  <2> QED BY <2>1, <2>2
<1>4. \A v, w \in C : M[v][w] = mag[v][w] * sq[w] /\ M[v][w] \in Int
  <2> TAKE v, w \in C
  <2>1. mag[v][w] \in Int /\ sq[w] \in Int BY <1>1, <1>2
  <2>2. M[v][w] = mag[v][w] * sq[w] OBVIOUS
  <2> HIDE DEF M
  <2> QED BY <2>1, <2>2
<1>5. ASSUME NEW v \in C
      PROVE  /\ qd[v] \in Int /\ X[v] \in Int /\ byColumn[v] \in Int /\ byRow[v] \in Int
             /\ 2 * X[v] <= byRow[v] + byColumn[v]
  <2> DEFINE g == [w \in C |-> T[v][w] * d[w]]
             e == [w \in C |-> d[v] * g[w]]
             te == [w \in C |-> 2 * e[w]]
             p == [w \in C |-> sq[v] * mag[v][w]]
             pq == [w \in C |-> p[w] + M[v][w]]
  <2>1. \A w \in C : /\ g[w] = T[v][w] * d[w] /\ g[w] \in Int
                     /\ e[w] = d[v] * g[w] /\ e[w] \in Int
                     /\ te[w] = 2 * e[w] /\ te[w] \in Int
                     /\ p[w] = sq[v] * mag[v][w] /\ p[w] \in Int
                     /\ pq[w] = p[w] + M[v][w] /\ pq[w] \in Int
                     /\ te[w] <= pq[w]
    <3> TAKE w \in C
    <3>1. /\ g[w] = T[v][w] * d[w] /\ e[w] = d[v] * g[w] /\ te[w] = 2 * e[w]
          /\ p[w] = sq[v] * mag[v][w] /\ pq[w] = p[w] + M[v][w]
      OBVIOUS
    <3> HIDE DEF g, e, te, p, pq, M
    <3> DEFINE a == T[v][w]
               x1 == d[v]
               x2 == d[w]
               h == mag[v][w]
    <3>2. a \in Int /\ x1 \in Int /\ x2 \in Int /\ h \in Nat /\ h = Magnitude(a)
          /\ sq[v] = x1 * x1 /\ sq[w] = x2 * x2
      BY <1>1, <1>2
    <3>3. M[v][w] = h * (x2 * x2) /\ p[w] = (x1 * x1) * h BY <1>4, <3>1, <3>2
    <3>4. g[w] = a * x2 /\ e[w] = x1 * g[w] BY <3>1
    <3> HIDE DEF a, x1, x2, h
    <3>5. g[w] \in Int /\ e[w] \in Int /\ p[w] \in Int /\ M[v][w] \in Int BY <3>2, <3>3, <3>4
    <3>6. 2 * (x1 * (a * x2)) <= (x1 * x1) * h + h * (x2 * x2)
      <4> DEFINE i == x1 * x1
                 j == x2 * x2
                 k == x1 * x2
      <4>1. i \in Nat /\ j \in Nat /\ k \in Int /\ 2 * k <= i + j /\ (-2) * k <= i + j
        <5>1. (x1 - x2) * (x1 - x2) >= 0 /\ (x1 + x2) * (x1 + x2) >= 0 BY <3>2
        <5>2. /\ (x1 - x2) * (x1 - x2) = i - 2 * k + j
              /\ (x1 + x2) * (x1 + x2) = i + 2 * k + j
          BY <3>2
        <5>3. i \in Nat /\ j \in Nat /\ k \in Int BY <3>2
        <5> HIDE DEF i, j, k
        <5> QED BY <5>1, <5>2, <5>3
      <4>2. x1 * (a * x2) = a * k BY <3>2
      <4> HIDE DEF i, j, k
      <4>3. 2 * (a * k) <= h * (i + j)
        <5>1. CASE a >= 0
          <6>1. h = a BY <3>2, <5>1 DEF Magnitude
          <6>2. h * (2 * k) <= h * (i + j) BY <3>2, <4>1
          <6>3. h * (2 * k) = 2 * (h * k) BY <3>2, <4>1
          <6> QED BY <6>1, <6>2, <6>3
        <5>2. CASE a < 0
          <6>1. h = -a BY <3>2, <5>2 DEF Magnitude
          <6>2. h * ((-2) * k) <= h * (i + j) BY <3>2, <4>1
          <6>3. h * ((-2) * k) = 2 * (a * k) BY <3>2, <4>1, <6>1
          <6> QED BY <6>2, <6>3
        <5> QED BY <3>2, <5>1, <5>2
      <4>4. h * (i + j) = i * h + h * j BY <3>2, <4>1
      <4> QED BY <4>2, <4>3, <4>4 DEF i, j
    <3>7. te[w] <= pq[w] BY <3>1, <3>3, <3>4, <3>6
    <3> QED BY <3>1, <3>5, <3>7
  <2> HIDE DEF g, e, te, p, pq, M
  <2>2. Sum!Over(te, C) <= Sum!Over(pq, C) BY <1>0, <2>1, Sum!SumLess
  <2>3. Sum!Over(te, C) = 2 * Sum!Over(e, C)
    <3>1. 2 \in Int /\ \A w \in C : e[w] \in Int /\ te[w] = 2 * e[w] BY <2>1
    <3> QED BY <1>0, <3>1, Sum!SumScaled
  <2>4. Sum!Over(e, C) = d[v] * Sum!Over(g, C)
    <3>1. d[v] \in Int /\ \A w \in C : g[w] \in Int /\ e[w] = d[v] * g[w] BY <1>2, <2>1
    <3> QED BY <1>0, <3>1, Sum!SumScaled
  <2>5. Sum!Over(pq, C) = Sum!Over(p, C) + Sum!Over(M[v], C)
    <3>1. \A w \in C : p[w] \in Int /\ M[v][w] \in Int /\ pq[w] = p[w] + M[v][w] BY <1>4, <2>1
    <3> QED BY <1>0, <3>1, Sum!SumOfSums
  <2>6. Sum!Over(p, C) = sq[v] * Sum!Over(mag[v], C)
    <3>1. sq[v] \in Int BY <1>2
    <3>2. \A w \in C : mag[v][w] \in Int /\ p[w] = sq[v] * mag[v][w] BY <1>1, <2>1
    <3> QED BY <1>0, <3>1, <3>2, Sum!SumScaled
  <2>7. Sum!Over(g, C) \in Int /\ Sum!Over(M[v], C) \in Int
    BY <1>0, <1>4, <2>1, Sum!SumType
  <2>8. qd[v] = Sum!Over(g, C) /\ X[v] = d[v] * qd[v] BY DEF g
  <2>9. byColumn[v] = Sum!Over(M[v], C) /\ byRow[v] = sq[v] * row[v] OBVIOUS
  <2>10. row[v] = Sum!Over(mag[v], C) /\ row[v] \in Int BY <1>3
  <2> HIDE DEF byColumn, byRow
  <2>11. X[v] \in Int /\ byRow[v] \in Int
    <3>1. d[v] \in Int /\ sq[v] \in Int BY <1>2
    <3> QED BY <2>7, <2>8, <2>9, <2>10, <3>1
  <2>12. 2 * X[v] <= byRow[v] + byColumn[v]
    BY <2>2, <2>3, <2>4, <2>5, <2>6, <2>8, <2>9, <2>10
  <2> QED BY <2>7, <2>8, <2>9, <2>11, <2>12
<1>6. Sum!Over(byColumn, C) = Sum!Over(exchanged, C)
  <2>1. \A v \in C : \A w \in C : M[v][w] \in Int BY <1>4
  <2> HIDE DEF M
  <2>2. Exchanged(M, C) BY <1>0, <2>1, SquareExchanged
  <2> QED BY <2>2 DEF Exchanged
<1>7. ASSUME NEW w \in C PROVE exchanged[w] = sq[w] * col[w]
  <2> DEFINE f == [v \in C |-> M[v][w]]
             g == [v \in C |-> mag[v][w]]
  <2>1. \A v \in C : f[v] = sq[w] * g[v] /\ g[v] \in Int
    <3> TAKE v \in C
    <3>1. f[v] = mag[v][w] * sq[w] BY <1>4
    <3>2. g[v] = mag[v][w] /\ mag[v][w] \in Int /\ sq[w] \in Int BY <1>1, <1>2
    <3> HIDE DEF f, g
    <3> QED BY <3>1, <3>2
  <2>2. sq[w] \in Int BY <1>2
  <2>3. exchanged[w] = Sum!Over(f, C) OBVIOUS
  <2>4. col[w] = Sum!Over(g, C) OBVIOUS
  <2> HIDE DEF f, g, exchanged
  <2>5. Sum!Over(f, C) = sq[w] * Sum!Over(g, C) BY <1>0, <2>1, <2>2, Sum!SumScaled
  <2> QED BY <2>3, <2>4, <2>5
<1>8. s \in Nat /\ B \in Int OBVIOUS
<1>9. \A v \in C : /\ byRow[v] \in Int /\ byColumn[v] \in Int /\ exchanged[v] \in Int
                   /\ X[v] \in Int /\ twice[v] = 2 * X[v] /\ twice[v] \in Int
                   /\ both[v] = byRow[v] + byColumn[v] /\ both[v] \in Int
                   /\ twice[v] <= both[v]
                   /\ sums[v] = byRow[v] + exchanged[v] /\ sums[v] \in Int
                   /\ ssums[v] = s * sums[v] /\ ssums[v] \in Int
                   /\ bsq[v] = B * sq[v] /\ bsq[v] \in Int /\ ssums[v] <= bsq[v]
  <2> TAKE v \in C
  <2>1. /\ twice[v] = 2 * X[v] /\ both[v] = byRow[v] + byColumn[v]
        /\ sums[v] = byRow[v] + exchanged[v] /\ ssums[v] = s * sums[v] /\ bsq[v] = B * sq[v]
        /\ byRow[v] = sq[v] * row[v]
    OBVIOUS
  <2>2. X[v] \in Int /\ byColumn[v] \in Int /\ 2 * X[v] <= byRow[v] + byColumn[v] BY <1>5
  <2>3. sq[v] \in Nat /\ row[v] \in Int /\ col[v] \in Int /\ s * row[v] + s * col[v] <= B
    BY <1>2, <1>3
  <2>4. exchanged[v] = sq[v] * col[v] BY <1>7
  <2> HIDE DEF twice, both, sums, ssums, bsq, byRow, byColumn, exchanged
  <2>5. byRow[v] \in Int /\ exchanged[v] \in Int BY <2>1, <2>3, <2>4
  <2>6. sums[v] \in Int /\ both[v] \in Int /\ twice[v] \in Int /\ twice[v] <= both[v]
    BY <2>1, <2>2, <2>5
  <2>7. ssums[v] \in Int /\ bsq[v] \in Int BY <1>8, <2>1, <2>3, <2>6
  <2>8. ssums[v] <= bsq[v]
    <3> DEFINE k == s * row[v] + s * col[v]
    <3>1. k \in Int BY <1>8, <2>3
    <3>2. s * (sq[v] * row[v] + sq[v] * col[v]) = sq[v] * k BY <1>8, <2>3
    <3>3. ssums[v] = sq[v] * k BY <2>1, <2>4, <3>2
    <3>4. k <= B BY <2>3
    <3> HIDE DEF k
    <3>5. sq[v] * k <= sq[v] * B BY <1>8, <2>3, <3>1, <3>4
    <3>6. sq[v] * B = B * sq[v] BY <1>8, <2>3
    <3> QED BY <2>1, <3>3, <3>5, <3>6
  <2> QED BY <2>1, <2>2, <2>5, <2>6, <2>7, <2>8
<1> HIDE DEF byRow, M, byColumn, exchanged, twice, both, sums, ssums, bsq
<1>10. Sum!Over(twice, C) <= Sum!Over(both, C) BY <1>0, <1>9, Sum!SumLess
<1>11. Sum!Over(twice, C) = 2 * Sum!Over(X, C)
  <2>1. 2 \in Int /\ \A v \in C : X[v] \in Int /\ twice[v] = 2 * X[v] BY <1>9
  <2> QED BY <1>0, <2>1, Sum!SumScaled
<1>12. Sum!Over(both, C) = Sum!Over(byRow, C) + Sum!Over(byColumn, C)
  <2>1. \A v \in C : byRow[v] \in Int /\ byColumn[v] \in Int /\ both[v] = byRow[v] + byColumn[v]
    BY <1>9
  <2> QED BY <1>0, <2>1, Sum!SumOfSums
<1>13. Sum!Over(sums, C) = Sum!Over(byRow, C) + Sum!Over(exchanged, C)
  <2>1. \A v \in C : byRow[v] \in Int /\ exchanged[v] \in Int /\ sums[v] = byRow[v] + exchanged[v]
    BY <1>9
  <2> QED BY <1>0, <2>1, Sum!SumOfSums
<1>14. Sum!Over(ssums, C) = s * Sum!Over(sums, C)
  <2>1. s \in Int /\ \A v \in C : sums[v] \in Int /\ ssums[v] = s * sums[v] BY <1>8, <1>9
  <2> QED BY <1>0, <2>1, Sum!SumScaled
<1>15. Sum!Over(bsq, C) = B * Sum!Over(sq, C)
  <2>1. \A v \in C : sq[v] \in Int /\ bsq[v] = B * sq[v] BY <1>2, <1>9
  <2> QED BY <1>0, <1>8, <2>1, Sum!SumScaled
<1>16. Sum!Over(ssums, C) <= Sum!Over(bsq, C) BY <1>0, <1>9, Sum!SumLess
<1>17. Sum!Over(X, C) \in Int /\ Sum!Over(sums, C) \in Int
  BY <1>0, <1>9, Sum!SumType
<1>18. Sum!Over(sq, C) \in Int
  <2>1. \A v \in C : sq[v] \in Int BY <1>2
  <2> QED BY <1>0, <2>1, Sum!SumType
<1>19. 2 * (s * Sum!Over(X, C)) <= B * Sum!Over(sq, C)
  <2> DEFINE x0 == Sum!Over(X, C)
             y0 == Sum!Over(sums, C)
  <2>1. x0 \in Int /\ y0 \in Int /\ 2 * x0 <= y0 BY <1>6, <1>10, <1>11, <1>12, <1>13, <1>17
  <2>2. s * y0 <= B * Sum!Over(sq, C) BY <1>14, <1>15, <1>16
  <2>3. B * Sum!Over(sq, C) \in Int BY <1>8, <1>18
  <2> HIDE DEF x0, y0
  <2>4. s * (2 * x0) <= s * y0 /\ s * (2 * x0) = 2 * (s * x0) /\ s * y0 \in Int /\ 2 * (s * x0) \in Int
    BY <1>8, <2>1
  <2> QED BY <2>2, <2>3, <2>4 DEF x0
<1> QED BY <1>5, <1>17, <1>18, <1>19

\* Scaled by rows first or by columns first, an entry is the same but for two steps.
LEMMA ScaledNearlySymmetric ==
    ASSUME NEW q \in Int, NEW c \in Nat, NEW e \in Nat, c <= Unit, e <= Unit
    PROVE  Magnitude(Product(Product(q, c), e)) <= Magnitude(Product(Product(q, e), c)) + 2
<1> DEFINE u == Unit
           uu == u * u
           exact == (q * c) * e
<1>1. u \in Nat \ {0} /\ uu \in Nat \ {0} BY GridAssumption
<1>2. exact \in Int OBVIOUS
<1>3. ASSUME NEW a \in Nat, NEW b \in Nat, a <= u, b <= u
      PROVE  LET p == Product(Product(q, a), b) IN
             /\ p \in Int
             /\ uu * p <= (q * a) * b + uu /\ (q * a) * b <= uu * p + uu
  <2> DEFINE h == Product(q, a)
             p == Product(h, b)
             qa == q * a
             uh == u * h
             hb == h * b
             up == u * p
             x0 == qa * b
  <2>1. h \in Int /\ p \in Int
    <3>1. q \in Int /\ a \in Int /\ b \in Int OBVIOUS
    <3>2. h \in Int BY <3>1, ProductType
    <3> HIDE DEF h
    <3> QED BY <3>1, <3>2, ProductType
  <2>2. 2 * uh <= 2 * qa + u /\ 2 * qa <= 2 * uh + u
    <3>1. q \in Int /\ a \in Int OBVIOUS
    <3> QED BY <3>1, ProductIsNearest
  <2>3. 2 * up <= 2 * hb + u /\ 2 * hb <= 2 * up + u
    <3>1. b \in Int OBVIOUS
    <3> HIDE DEF h
    <3> QED BY <2>1, <3>1, ProductIsNearest
  <2>4. qa \in Int /\ uh \in Int /\ hb \in Int /\ up \in Int /\ x0 \in Int
    <3>1. qa \in Int OBVIOUS
    <3> HIDE DEF h, p, qa
    <3> QED BY <1>1, <2>1, <3>1
  <2>5. uu * p = u * up /\ u * hb = uh * b
    <3> HIDE DEF h, p
    <3> QED BY <1>1, <2>1
  <2> HIDE DEF h, p, qa, uh, hb, up, x0, uu, u
  <2>6. 2 * (u * up) <= 2 * (u * hb) + u * u /\ 2 * (u * hb) <= 2 * (u * up) + u * u
    <3>1. u * (2 * up) <= u * (2 * hb + u) /\ u * (2 * hb) <= u * (2 * up + u)
      BY <1>1, <2>3, <2>4
    <3>2. /\ u * (2 * up) = 2 * (u * up) /\ u * (2 * hb) = 2 * (u * hb)
          /\ u * (2 * hb + u) = 2 * (u * hb) + u * u /\ u * (2 * up + u) = 2 * (u * up) + u * u
      BY <1>1, <2>4
    <3> QED BY <3>1, <3>2
  <2>7. 2 * (uh * b) <= 2 * x0 + u * u /\ 2 * x0 <= 2 * (uh * b) + u * u
    <3>1. (2 * uh) * b <= (2 * qa + u) * b /\ (2 * qa) * b <= (2 * uh + u) * b
      BY <1>1, <2>2, <2>4
    <3>2. /\ (2 * uh) * b = 2 * (uh * b) /\ (2 * qa + u) * b = 2 * (qa * b) + u * b
          /\ (2 * qa) * b = 2 * (qa * b) /\ (2 * uh + u) * b = 2 * (uh * b) + u * b
      BY <1>1, <2>4
    <3>3. u * b <= u * u BY <1>1, <1>3 DEF u
    <3>4. qa * b \in Int /\ uh * b \in Int /\ u * b \in Int /\ u * u \in Int BY <1>1, <2>4
    <3> HIDE DEF u
    <3> QED BY <3>1, <3>2, <3>3, <3>4 DEF x0
  <2>8. u * up \in Int /\ uh * b \in Int /\ u * u \in Int BY <1>1, <2>4
  <2>9. uu * p <= x0 + uu /\ x0 <= uu * p + uu
    <3>1. uu = u * u BY DEF uu
    <3> QED BY <2>4, <2>5, <2>6, <2>7, <2>8, <3>1
  <2> QED BY <2>1, <2>9 DEF h, p, qa, x0
<1> DEFINE one == Product(Product(q, c), e)
           two == Product(Product(q, e), c)
<1>4. one \in Int /\ uu * one <= exact + uu /\ exact <= uu * one + uu BY <1>3
<1>5. two \in Int /\ uu * two <= exact + uu /\ exact <= uu * two + uu
  <2>1. (q * e) * c = exact OBVIOUS
  <2> HIDE DEF exact, uu
  <2> QED BY <1>3, <2>1
<1> HIDE DEF one, two, exact, uu
<1>6. uu * one <= uu * two + 2 * uu /\ uu * two <= uu * one + 2 * uu
  <2>1. uu * one \in Int /\ uu * two \in Int BY <1>1, <1>4, <1>5
  <2> QED BY <1>1, <1>2, <1>4, <1>5, <2>1
<1>7. one <= two + 2 /\ two <= one + 2
  <2>1. \A i, j \in Int : uu * i <= uu * j + 2 * uu => i <= j + 2
    <3> TAKE i, j \in Int
    <3> HAVE uu * i <= uu * j + 2 * uu
    <3> SUFFICES ASSUME j + 3 <= i PROVE FALSE OBVIOUS
    <3>1. uu * (j + 3) <= uu * i BY <1>1
    <3>2. uu * (j + 3) = uu * j + 3 * uu BY <1>1
    <3>3. uu * i \in Int /\ uu * j \in Int BY <1>1
    <3> QED BY <1>1, <3>1, <3>2, <3>3
  <2> QED BY <1>4, <1>5, <1>6, <2>1
<1>8. Magnitude(one) <= Magnitude(two) + 2 BY <1>4, <1>5, <1>7 DEF Magnitude
<1> QED BY <1>8 DEF one, two

\* What the rounded quadratic term gains along d.
LEMMA CurvatureIsBounded ==
    ASSUME NEW m, IsModel(m), NEW Q \in [ColumnsOf(m) \X ColumnsOf(m) -> Int],
           \A v, w \in ColumnsOf(m) : Magnitude(Q[<<w, v>>]) <= Magnitude(Q[<<v, w>>]) + 2,
           NEW d \in Lists(ColumnsOf(m)), NEW t \in Nat
    PROVE  LET n == Len(m.linear)
               qn == QuadraticBound(m, Q)
               qd == [v \in ColumnsOf(m) |-> Total(
                         [w \in ColumnsOf(m) |-> Product(t, Q[<<v, w>>]) * d[w]])]
               X == Total([v \in ColumnsOf(m) |-> d[v] * qd[v]])
           IN  /\ X \in Int /\ qn \in Nat /\ n \in Nat
               /\ \A v \in ColumnsOf(m) : d[v] * qd[v] \in Int
               /\ 4 * (Unit * X) <= (4 * (t * qn) + 4 * (t * n) + 2 * (Unit * n)) * Squared(d)
<1> DEFINE C == ColumnsOf(m)
           u == Unit
           n == Len(m.linear)
           qn == QuadraticBound(m, Q)
           T == [v \in C |-> [w \in C |-> Product(t, Q[<<v, w>>])]]
           mag == [v \in C |-> [w \in C |-> Magnitude(T[v][w])]]
           magQ == [v \in C |-> [w \in C |-> Magnitude(Q[<<v, w>>])]]
           row == [v \in C |-> Sum!Over(mag[v], C)]
           col == [v \in C |-> Sum!Over([w \in C |-> mag[w][v]], C)]
           qd == [v \in C |-> Sum!Over([w \in C |-> T[v][w] * d[w]], C)]
           X == [v \in C |-> d[v] * qd[v]]
           sq == [v \in C |-> d[v] * d[v]]
           s == 2 * u
           B == 4 * (t * qn) + 4 * (t * n) + 2 * (u * n)
<1>0. Sum!IsFiniteSet(C) /\ Sum!Adds /\ IsFiniteSet(C) BY ModelFacts, FinitenessIsOne, SumAdds
<1>1. u \in Nat \ {0} BY GridAssumption
<1>2. n \in Nat /\ C = 1 .. n BY ModelFacts
<1>3. Sum!Cardinality(C) = n
  <2>1. \A i \in Nat : Cardinality(1 .. i) = i BY FS_Interval
  <2> QED BY <1>2, <2>1, FinitenessIsOne
<1>4. qn \in Nat BY QuadraticBoundType
<1>5. B \in Int /\ s \in Nat
  <2> HIDE DEF n, qn, u
  <2>1. t * qn \in Int /\ t * n \in Int /\ u * n \in Int BY <1>1, <1>2, <1>4
  <2> QED BY <1>1, <2>1
<1>6. \A v, w \in C : /\ T[v][w] = Product(t, Q[<<v, w>>]) /\ T[v][w] \in Int
                      /\ mag[v][w] = Magnitude(T[v][w]) /\ mag[v][w] \in Nat
                      /\ magQ[v][w] = Magnitude(Q[<<v, w>>]) /\ magQ[v][w] \in Nat
                      /\ magQ[w][v] <= magQ[v][w] + 2
                      /\ s * mag[v][w] <= (2 * t) * magQ[v][w] + u
  <2> TAKE v, w \in C
  <2>1. Q[<<v, w>>] \in Int /\ t \in Int OBVIOUS
  <2>2. /\ T[v][w] = Product(t, Q[<<v, w>>]) /\ mag[v][w] = Magnitude(T[v][w])
        /\ magQ[v][w] = Magnitude(Q[<<v, w>>]) /\ magQ[w][v] = Magnitude(Q[<<w, v>>])
    OBVIOUS
  <2>3. magQ[w][v] <= magQ[v][w] + 2 BY <2>2
  <2> HIDE DEF T, mag, magQ, B, s
  <2>4. T[v][w] \in Int /\ mag[v][w] \in Nat /\ magQ[v][w] \in Nat
    BY <2>1, <2>2, ProductType, MagnitudeType
  <2>5. s * mag[v][w] <= (2 * t) * magQ[v][w] + u
    <3> DEFINE a == Q[<<v, w>>]
               p == Product(t, a)
               up == u * p
               ta == t * a
    <3>1. p \in Int /\ a \in Int /\ T[v][w] = p BY <2>1, <2>2, <2>4
    <3>2. 2 * up <= 2 * ta + u /\ 2 * ta <= 2 * up + u BY <2>1, ProductIsNearest
    <3>3. up \in Int /\ ta \in Int
      <4> HIDE DEF p, a
      <4> QED BY <1>1, <3>1
    <3>4. t * Magnitude(a) = Magnitude(ta)
      <4> HIDE DEF a
      <4>1. CASE a >= 0
        <5>1. t * a >= 0 BY <3>1, <4>1
        <5> QED BY <3>1, <4>1, <5>1 DEF Magnitude
      <4>2. CASE a < 0
        <5>1. t * a <= 0 BY <3>1, <4>2
        <5>2. t * (-a) = -(t * a) BY <3>1
        <5> HIDE DEF ta
        <5>3. Magnitude(ta) = -ta BY <3>3, <5>1 DEF Magnitude, ta
        <5> QED BY <3>1, <4>2, <5>2, <5>3 DEF Magnitude, ta
      <4> QED BY <3>1, <4>1, <4>2
    <3>5. u * Magnitude(p) = Magnitude(up)
      <4> HIDE DEF p
      <4>1. CASE p >= 0
        <5>1. u * p >= 0 BY <1>1, <3>1, <4>1
        <5>2. Magnitude(p) = p BY <3>1, <4>1 DEF Magnitude
        <5>3. Magnitude(u * p) = u * p
          <6>1. u * p \in Int BY <1>1, <3>1
          <6> DEFINE z == u * p
          <6> HIDE DEF z
          <6>2. z \in Int /\ z >= 0 BY <5>1, <6>1 DEF z
          <6>3. Magnitude(z) = z BY <6>2 DEF Magnitude
          <6> QED BY <6>3 DEF z
        <5> QED BY <5>2, <5>3
      <4>2. CASE p < 0
        <5>1. u * p <= 0 BY <1>1, <3>1, <4>2
        <5>2. u * (-p) = -(u * p) BY <1>1, <3>1
        <5> HIDE DEF up
        <5>3. Magnitude(up) = -up BY <3>3, <5>1 DEF Magnitude, up
        <5> QED BY <3>1, <4>2, <5>2, <5>3 DEF Magnitude, up
      <4> QED BY <3>1, <4>1, <4>2
    <3> HIDE DEF up, ta
    <3>6. 2 * Magnitude(up) <= 2 * Magnitude(ta) + u BY <1>1, <3>2, <3>3 DEF Magnitude
    <3>7. s * mag[v][w] = 2 * (u * Magnitude(p)) /\ (2 * t) * magQ[v][w] = 2 * (t * Magnitude(a))
      <4>1. mag[v][w] = Magnitude(p) /\ magQ[v][w] = Magnitude(a) BY <2>2, <3>1
      <4>2. Magnitude(p) \in Int /\ Magnitude(a) \in Int BY <3>1, MagnitudeType
      <4> HIDE DEF p, a, u
      <4>3. s = 2 * u BY DEF s
      <4> QED BY <1>1, <4>1, <4>2, <4>3
    <3> QED BY <3>4, <3>5, <3>6, <3>7
  <2> QED BY <2>2, <2>3, <2>4, <2>5
<1>7. ASSUME NEW v \in C
      PROVE  LET sum == Sum!Over(magQ[v], C) IN sum \in Int /\ sum <= qn
  <2> DEFINE sums == [k \in C |-> Total([w \in C |-> Magnitude(Q[<<k, w>>])])]
  <2>1. \A k \in C : sums[k] = Sum!Over(magQ[k], C)
    <3> TAKE k \in C
    <3>1. magQ[k] = [w \in C |-> Magnitude(Q[<<k, w>>])] /\ DOMAIN magQ[k] = C OBVIOUS
    <3>2. sums[k] = Total([w \in C |-> Magnitude(Q[<<k, w>>])]) OBVIOUS
    <3> HIDE DEF sums, magQ
    <3> QED BY <3>1, <3>2, TotalIsSum
  <2>2. \A k \in C : Sum!Over(magQ[k], C) \in Int
    <3> TAKE k \in C
    <3>1. \A w \in C : magQ[k][w] \in Int
      <4> TAKE w \in C
      <4> HIDE DEF T, mag, magQ, s
      <4>1. magQ[k][w] \in Nat BY <1>6
      <4> QED BY <4>1
    <3> HIDE DEF magQ
    <3> QED BY <1>0, <3>1, Sum!SumType
  <2>3. DOMAIN sums = C /\ \A k \in C : sums[k] \in Int
    <3>1. DOMAIN sums = C OBVIOUS
    <3> HIDE DEF sums
    <3> QED BY <2>1, <2>2, <3>1
  <2>4. qn = Largest(sums) BY DEF QuadraticBound
  <2> HIDE DEF sums, qn
  <2>5. \A k \in C : sums[k] <= Largest(sums) BY <1>0, <2>3, LargestFacts
  <2> QED BY <2>1, <2>2, <2>4, <2>5
<1>8. ASSUME NEW v \in C PROVE s * row[v] + s * col[v] <= B
  <2> DEFINE f == [w \in C |-> s * mag[v][w]]
             fq == [w \in C |-> (2 * t) * magQ[v][w]]
             uu == [w \in C |-> u]
             g == [w \in C |-> fq[w] + uu[w]]
             c == [w \in C |-> mag[w][v]]
             sc == [w \in C |-> s * c[w]]
             four == [w \in C |-> 4 * t]
             h == [w \in C |-> g[w] + four[w]]
  <2>1. \A w \in C : /\ mag[v][w] \in Int /\ f[w] = s * mag[v][w] /\ f[w] \in Int
                     /\ magQ[v][w] \in Int /\ fq[w] = (2 * t) * magQ[v][w] /\ fq[w] \in Int
                     /\ uu[w] = u /\ uu[w] \in Int /\ g[w] = fq[w] + uu[w] /\ g[w] \in Int
                     /\ c[w] = mag[w][v] /\ c[w] \in Int /\ sc[w] = s * c[w] /\ sc[w] \in Int
                     /\ four[w] = 4 * t /\ four[w] \in Int
                     /\ h[w] = g[w] + four[w] /\ h[w] \in Int
                     /\ f[w] <= g[w] /\ sc[w] <= h[w]
    <3> TAKE w \in C
    <3>1. /\ mag[v][w] \in Nat /\ mag[w][v] \in Nat /\ magQ[v][w] \in Nat /\ magQ[w][v] \in Nat
          /\ magQ[w][v] <= magQ[v][w] + 2
          /\ s * mag[v][w] <= (2 * t) * magQ[v][w] + u
          /\ s * mag[w][v] <= (2 * t) * magQ[w][v] + u
      BY <1>6
    <3>2. /\ f[w] = s * mag[v][w] /\ fq[w] = (2 * t) * magQ[v][w] /\ uu[w] = u
          /\ g[w] = fq[w] + uu[w] /\ c[w] = mag[w][v] /\ sc[w] = s * c[w]
          /\ four[w] = 4 * t /\ h[w] = g[w] + four[w]
      OBVIOUS
    <3> HIDE DEF f, fq, uu, g, c, sc, four, h, s, mag, magQ, u
    <3> DEFINE i == magQ[v][w]
               j == magQ[w][v]
               tt == 2 * t
    <3>3. tt \in Nat /\ 4 * t = 2 * tt OBVIOUS
    <3>4. tt * j <= tt * i + 2 * tt
      <4>1. i \in Nat /\ j \in Nat /\ j <= i + 2 BY <3>1
      <4> HIDE DEF i, j, tt
      <4>2. tt * j <= tt * (i + 2) BY <3>3, <4>1
      <4>3. tt * (i + 2) = tt * i + 2 * tt BY <3>3, <4>1
      <4> QED BY <4>2, <4>3
    <3>5. f[w] \in Int /\ sc[w] \in Int /\ fq[w] \in Int
      <4>1. s * mag[v][w] \in Int /\ s * mag[w][v] \in Int
        <5> DEFINE x0 == mag[v][w]
                   y0 == mag[w][v]
        <5>1. x0 \in Nat /\ y0 \in Nat /\ s \in Nat BY <1>5, <3>1
        <5> HIDE DEF x0, y0
        <5>2. s * x0 \in Int /\ s * y0 \in Int BY <5>1
        <5> QED BY <5>2 DEF x0, y0
      <4>2. tt * magQ[v][w] \in Int
        <5> HIDE DEF tt
        <5> QED BY <3>1, <3>3
      <4> QED BY <3>2, <4>1, <4>2
    <3>6. g[w] \in Int /\ h[w] \in Int /\ four[w] \in Int BY <1>1, <3>2, <3>5
    <3>7. f[w] <= g[w] BY <3>1, <3>2
    <3>8. sc[w] <= h[w]
      <4>1. sc[w] <= tt * j + u BY <3>1, <3>2
      <4>2. h[w] = tt * i + u + 2 * tt BY <3>2, <3>3
      <4>3. tt * j \in Int /\ tt * i \in Int
        <5>1. i \in Nat /\ j \in Nat BY <3>1
        <5> HIDE DEF tt, i, j
        <5> QED BY <3>3, <5>1
      <4> HIDE DEF tt, i, j
      <4>4. sc[w] \in Int BY <3>5
      <4> QED BY <1>1, <3>3, <3>4, <4>1, <4>2, <4>3, <4>4
    <3> QED BY <1>1, <3>1, <3>2, <3>5, <3>6, <3>7, <3>8
  <2>2. row[v] = Sum!Over(mag[v], C) /\ col[v] = Sum!Over(c, C) OBVIOUS
  <2>3. Sum!Over(magQ[v], C) \in Int /\ Sum!Over(magQ[v], C) <= qn BY <1>7
  <2> HIDE DEF f, fq, uu, g, c, sc, four, h, s, mag, magQ, row, col, u, n, qn
  <2>4. Sum!Over(f, C) <= Sum!Over(g, C) /\ Sum!Over(sc, C) <= Sum!Over(h, C)
    BY <1>0, <2>1, Sum!SumLess
  <2>5. Sum!Over(f, C) = s * Sum!Over(mag[v], C)
    <3>1. s \in Int /\ \A w \in C : mag[v][w] \in Int /\ f[w] = s * mag[v][w] BY <1>5, <2>1
    <3> QED BY <1>0, <3>1, Sum!SumScaled
  <2>6. Sum!Over(sc, C) = s * Sum!Over(c, C)
    <3>1. s \in Int /\ \A w \in C : c[w] \in Int /\ sc[w] = s * c[w] BY <1>5, <2>1
    <3> QED BY <1>0, <3>1, Sum!SumScaled
  <2>7. Sum!Over(g, C) = Sum!Over(fq, C) + Sum!Over(uu, C)
    <3>1. \A w \in C : fq[w] \in Int /\ uu[w] \in Int /\ g[w] = fq[w] + uu[w] BY <2>1
    <3> QED BY <1>0, <3>1, Sum!SumOfSums
  <2>8. Sum!Over(h, C) = Sum!Over(g, C) + Sum!Over(four, C)
    <3>1. \A w \in C : g[w] \in Int /\ four[w] \in Int /\ h[w] = g[w] + four[w] BY <2>1
    <3> QED BY <1>0, <3>1, Sum!SumOfSums
  <2>9. Sum!Over(fq, C) = (2 * t) * Sum!Over(magQ[v], C)
    <3> DEFINE k == 2 * t
    <3>1. k \in Int /\ \A w \in C : magQ[v][w] \in Int /\ fq[w] = k * magQ[v][w] BY <2>1
    <3> HIDE DEF k
    <3>2. Sum!Over(fq, C) = k * Sum!Over(magQ[v], C) BY <1>0, <3>1, Sum!SumScaled
    <3> QED BY <3>2 DEF k
  <2>10. Sum!Over(uu, C) = u * n
    <3>1. u \in Int /\ \A w \in C : uu[w] = u BY <1>1, <2>1
    <3>2. Sum!Over(uu, C) = u * Sum!Cardinality(C) BY <1>0, <3>1, Sum!SumOfConstant
    <3> QED BY <1>3, <3>2
  <2>11. Sum!Over(four, C) = (4 * t) * n
    <3> DEFINE k == 4 * t
    <3>1. k \in Int /\ \A w \in C : four[w] = k BY <2>1
    <3> HIDE DEF k
    <3>2. Sum!Over(four, C) = k * Sum!Cardinality(C) BY <1>0, <3>1, Sum!SumOfConstant
    <3> QED BY <1>3, <3>2 DEF k
  <2>12. (2 * t) * Sum!Over(magQ[v], C) <= 2 * (t * qn)
    <3> DEFINE k == Sum!Over(magQ[v], C)
    <3>1. k \in Int /\ k <= qn BY <2>3
    <3> HIDE DEF k
    <3>2. t * k <= t * qn /\ (2 * t) * k = 2 * (t * k) /\ t * k \in Int /\ t * qn \in Int
      BY <1>4, <3>1
    <3>3. (2 * t) * k <= 2 * (t * qn) BY <3>2
    <3> QED BY <3>3 DEF k
  <2>13. (4 * t) * n = 4 * (t * n) /\ t * n \in Int /\ u * n \in Int /\ t * qn \in Int
    BY <1>1, <1>2, <1>4
  <2>14. /\ s * row[v] \in Int /\ s * col[v] \in Int
    <3>1. Sum!Over(mag[v], C) \in Int /\ Sum!Over(c, C) \in Int BY <1>0, <2>1, Sum!SumType
    <3> QED BY <1>5, <2>2, <3>1
  <2>15. (2 * t) * Sum!Over(magQ[v], C) \in Int
    <3> DEFINE k == Sum!Over(magQ[v], C)
    <3>1. k \in Int BY <2>3
    <3> HIDE DEF k
    <3>2. (2 * t) * k \in Int BY <3>1
    <3> QED BY <3>2 DEF k
  <2>16. B = 4 * (t * qn) + 4 * (t * n) + 2 * (u * n) OBVIOUS
  <2> HIDE DEF B
  <2> DEFINE z1 == (2 * t) * Sum!Over(magQ[v], C)
             z2 == t * qn
             z3 == t * n
             z4 == u * n
             z5 == s * row[v]
             z6 == s * col[v]
  <2>17. /\ z1 \in Int /\ z2 \in Int /\ z3 \in Int /\ z4 \in Int /\ z5 \in Int /\ z6 \in Int
         /\ z1 <= 2 * z2 /\ z5 <= z1 + z4 /\ z6 <= z1 + z4 + 4 * z3
         /\ B = 4 * z2 + 4 * z3 + 2 * z4
    BY <2>2, <2>4, <2>5, <2>6, <2>7, <2>8, <2>9, <2>10, <2>11, <2>12, <2>13, <2>14, <2>15, <2>16
  <2> HIDE DEF z1, z2, z3, z4, z5, z6
  <2>18. z5 + z6 <= B BY <2>17
  <2> QED BY <2>18 DEF z5, z6
<1>9. FormOf(C, T, d, mag, sq, row, col, qd, X, s, B)
  <2>1. \A v \in C : d[v] \in Int /\ sq[v] = d[v] * d[v] BY DEF Lists
  <2>2. /\ \A v \in C : /\ row[v] = Sum!Over(mag[v], C)
                        /\ col[v] = Sum!Over([w \in C |-> mag[w][v]], C)
                        /\ qd[v] = Sum!Over([w \in C |-> T[v][w] * d[w]], C)
                        /\ X[v] = d[v] * qd[v]
    OBVIOUS
  <2>3. \A v \in C : \A w \in C : T[v][w] \in Int BY <1>6
  <2> HIDE DEF T, mag, sq, row, col, qd, X, s, B
  <2> QED BY <1>0, <1>5, <1>6, <1>8, <2>1, <2>2, <2>3 DEF FormOf
<1>10. /\ \A v \in C : X[v] \in Int
       /\ Sum!Over(X, C) \in Int /\ 2 * (s * Sum!Over(X, C)) <= B * Sum!Over(sq, C)
  <2> HIDE DEF T, mag, sq, row, col, qd, X, s, B
  <2> QED BY <1>9, FormIsBounded
<1>11. Sum!Over(sq, C) = Squared(d) BY <1>0, SquaredFacts
<1> DEFINE qt == [v \in C |-> Total([w \in C |-> Product(t, Q[<<v, w>>]) * d[w]])]
           XT == [v \in C |-> d[v] * qt[v]]
<1>12. \A v \in C : qt[v] = qd[v] /\ XT[v] = X[v]
  <2> TAKE v \in C
  <2> DEFINE f == [w \in C |-> Product(t, Q[<<v, w>>]) * d[w]]
  <2>1. f = [w \in C |-> T[v][w] * d[w]] OBVIOUS
  <2>2. DOMAIN f = C OBVIOUS
  <2>3. qt[v] = Total(f) OBVIOUS
  <2>4. qd[v] = Sum!Over(f, C) BY <2>1
  <2> HIDE DEF f, qt, qd
  <2>5. qt[v] = qd[v] BY <2>2, <2>3, <2>4, TotalIsSum
  <2> QED BY <2>5
<1>13. Total(XT) = Sum!Over(X, C)
  <2>1. DOMAIN XT = C /\ DOMAIN X = C OBVIOUS
  <2>2. XT = X
    <3>1. XT = [v \in C |-> XT[v]] /\ X = [v \in C |-> X[v]] OBVIOUS
    <3> HIDE DEF XT, X
    <3> QED BY <1>12, <3>1
  <2> HIDE DEF XT, X
  <2> QED BY <2>1, <2>2, TotalIsSum
<1>14. \A v \in C : XT[v] \in Int
  <2> HIDE DEF XT, X
  <2> QED BY <1>10, <1>12
<1>15. 4 * (u * Total(XT)) <= B * Squared(d)
  <2> DEFINE z == Total(XT)
  <2>1. z \in Int /\ 2 * (s * z) <= B * Squared(d)
    <3> HIDE DEF XT, X, B, s
    <3> QED BY <1>10, <1>11, <1>13
  <2> HIDE DEF z, XT, X, B
  <2>2. 2 * (s * z) = 4 * (u * z)
    <3>1. 2 * ((2 * u) * z) = 4 * (u * z)
      <4> HIDE DEF u
      <4> QED BY <1>1, <2>1
    <3> QED BY <3>1
  <2> HIDE DEF s, u
  <2> QED BY <2>1, <2>2 DEF z
<1>16. Total(XT) \in Int
  <2> HIDE DEF XT, X
  <2> QED BY <1>10, <1>13
<1> HIDE DEF T, mag, magQ, row, col, qd, X, sq, s
<1> QED BY <1>2, <1>4, <1>14, <1>15, <1>16

\* Products respect an order, and may be regrouped.
LEMMA Grows == \A a \in Nat : \A i, j \in Int : i <= j => a * i <= a * j
OBVIOUS
LEMMA Regrouped == \A a, b, c \in Int : a * (b * c) = (a * b) * c /\ a * b \in Int
OBVIOUS

\* A step that leaves room for the rounding of n columns and k rows.
StepIsShort(u, t, n, k) ==
    /\ u \in Nat /\ t \in Nat /\ n \in Nat /\ k \in Nat
    /\ 1000 <= u /\ 200 * n <= u /\ 200 * k <= u /\ 100 * t <= 99 * u
Budgeted(u, t, norm, n, k, B) ==
    404 * ((t * t) * ((norm + 1) * (norm + 1))) + 10100 * ((u * u) * (n * k)) + 50 * ((u * u) * B)
      <= 400 * ((u * u) * (u * u))
LEMMA WhatBudgetedMeans ==
    ASSUME NEW u \in Nat, NEW t \in Nat, NEW norm \in Nat, NEW n \in Nat, NEW k \in Nat, NEW B \in Nat
    PROVE  Budgeted(u, t, norm, n, k, B)
             <=> 404 * ((t * t) * ((norm + 1) * (norm + 1))) + 10100 * ((u * u) * (n * k))
                   + 50 * ((u * u) * B) <= 400 * ((u * u) * (u * u))
BY DEF Budgeted

\* The step of a QP, with p the norm squared and qn the bound of the quadratic term.
QuadraticStepIsShort(u, t, norm, p, qn, n, k) ==
    /\ StepIsShort(u, t, n, k) /\ norm \in Nat /\ p \in Int /\ 0 <= p /\ qn \in Nat
    /\ 100 * (t * (p + qn)) <= 99 * (u * u) /\ 2 * (norm * norm) <= 2 * (u * p) + u

\* What a step of at most Safe / (|A|^2 + |Q|), rounded, leaves for round-off.
LEMMA QuadraticBudget ==
    ASSUME NEW u, NEW t, NEW norm, NEW p, NEW qn, NEW n, NEW k,
           QuadraticStepIsShort(u, t, norm, p, qn, n, k)
    PROVE  Budgeted(u, t, norm, n, k, 4 * (t * qn) + 4 * (t * n) + 2 * (u * n))
<1>a. /\ u \in Nat /\ t \in Nat /\ norm \in Nat /\ p \in Int /\ 0 <= p /\ qn \in Nat
      /\ n \in Nat /\ k \in Nat
      /\ 1000 <= u /\ 200 * n <= u /\ 200 * k <= u /\ 100 * t <= 99 * u
      /\ 100 * (t * (p + qn)) <= 99 * (u * u) /\ 2 * (norm * norm) <= 2 * (u * p) + u
  BY Zenon DEF QuadraticStepIsShort, StepIsShort
<1> SUFFICES ASSUME u \in Nat, t \in Nat, norm \in Nat, p \in Int, qn \in Nat, n \in Nat, k \in Nat,
                    1000 <= u, 200 * n <= u, 200 * k <= u, 100 * t <= 99 * u,
                    100 * (t * (p + qn)) <= 99 * (u * u),
                    2 * (norm * norm) <= 2 * (u * p) + u, 0 <= p
             PROVE  Budgeted(u, t, norm, n, k, 4 * (t * qn) + 4 * (t * n) + 2 * (u * n))
  BY <1>a, Zenon
<1> DEFINE w == u * u
           v == w * w
           uw == u * w
           z == t * norm
           q == t * (norm * norm)
           tp == t * p
           tq == t * qn
           tn == t * n
           un == u * n
           nk == n * k
           e == w * tp
           f == w * tq
<1>0. p \in Nat OBVIOUS
<1>1. /\ w \in Nat /\ v \in Nat /\ uw \in Nat /\ z \in Nat /\ q \in Nat /\ tp \in Nat
      /\ tq \in Nat /\ tn \in Nat /\ un \in Nat /\ nk \in Nat
  <2>1. w \in Nat /\ z \in Nat /\ tp \in Nat /\ tq \in Nat /\ tn \in Nat /\ un \in Nat /\ nk \in Nat
    BY <1>0
  <2>2. norm * norm \in Nat OBVIOUS
  <2>3. q \in Nat BY <2>2
  <2> HIDE DEF w
  <2>4. v \in Nat /\ uw \in Nat BY <2>1
  <2> QED BY <2>1, <2>3, <2>4
<1>2. e \in Nat /\ f \in Nat
  <2> HIDE DEF w, tp, tq
  <2> QED BY <1>1
<1>3. 1000 * u <= w /\ 1000 * uw <= v /\ 1000 * w <= uw
  <2>1. 1000 * u <= w OBVIOUS
  <2>2. v = u * uw
    <3> DEFINE a == u * u
    <3>1. a \in Nat OBVIOUS
    <3> HIDE DEF a
    <3>2. (u * u) * a = u * (u * a) BY <3>1
    <3>3. w = a /\ uw = u * a /\ v = (u * u) * a BY DEF a
    <3> QED BY <3>2, <3>3
  <2> HIDE DEF w, v, uw
  <2>3. u * uw >= 1000 * uw BY <1>1
  <2>4. uw = u * w BY DEF uw
  <2>5. u * w >= 1000 * w BY <1>1
  <2> QED BY <2>1, <2>2, <2>3, <2>4, <2>5
<1>4. 100 * (tp + tq) <= 99 * w
  <2>1. t * (p + qn) = t * p + t * qn OBVIOUS
  <2> QED BY <2>1
<1>5. 2 * q <= 2 * (u * tp) + u * t
  <2> DEFINE a == norm * norm
             b == u * p
  <2>1. a \in Nat /\ b \in Nat BY <1>0
  <2>2. 2 * a <= 2 * b + u OBVIOUS
  <2> HIDE DEF a, b
  <2>3. t * (2 * a) <= t * (2 * b + u) BY <2>1, <2>2, Grows
  <2>4. t * (2 * a) = 2 * (t * a) /\ t * (2 * b + u) = 2 * (t * b) + u * t BY <2>1
  <2>5. t * b = u * tp BY DEF b
  <2>6. q = t * a BY DEF a
  <2> QED BY <2>3, <2>4, <2>5, <2>6
<1>6. u * tp \in Nat /\ u * t \in Nat BY <1>1
<1>7. 100 * (u * t) <= 99 * w
  <2>1. u * (100 * t) <= u * (99 * u) BY Grows
  <2> QED BY <2>1
<1>8. q <= uw
  <2>1. 100 * (u * tp) <= 99 * uw
    <3>1. 100 * tp <= 99 * w BY <1>1, <1>4
    <3> HIDE DEF w, tp
    <3>2. u * (100 * tp) <= u * (99 * w) BY <1>1, <3>1, Grows
    <3>3. u * (100 * tp) = 100 * (u * tp) /\ u * (99 * w) = 99 * (u * w) BY <1>1
    <3> QED BY <3>2, <3>3
  <2> HIDE DEF q, uw, w, tp
  <2> DEFINE x0 == u * tp
             y0 == u * t
  <2>2. x0 \in Nat /\ y0 \in Nat /\ 2 * q <= 2 * x0 + y0 /\ 100 * x0 <= 99 * uw /\ 100 * y0 <= 99 * w
    BY <1>5, <1>6, <1>7, <2>1
  <2> HIDE DEF x0, y0
  <2> QED BY <1>1, <1>3, <2>2
<1>9. z <= w
  <2>1. z * z = t * q
    <3> DEFINE a == norm
    <3>1. (t * a) * (t * a) = t * (t * (a * a)) OBVIOUS
    <3> QED BY <3>1
  <2>2. t * q <= u * uw
    <3> HIDE DEF q, uw
    <3>1. t <= u OBVIOUS
    <3>2. t * q <= t * uw BY <1>1, <1>8, Grows
    <3>3. uw * t <= uw * u BY <1>1, <3>1, Grows
    <3>4. uw * t = t * uw /\ uw * u = u * uw BY <1>1
    <3>5. t * q \in Int /\ t * uw \in Int /\ u * uw \in Int BY <1>1
    <3> QED BY <3>2, <3>3, <3>4, <3>5
  <2>3. u * uw = w * w
    <3> DEFINE a == u * u
    <3>1. a \in Nat OBVIOUS
    <3> HIDE DEF a
    <3>2. (u * u) * a = u * (u * a) BY <3>1
    <3>3. w = a /\ uw = u * a /\ w * w = (u * u) * a BY DEF a
    <3> QED BY <3>2, <3>3
  <2>4. z * z <= w * w BY <2>1, <2>2, <2>3
  <2> HIDE DEF z, w
  <2> SUFFICES ASSUME w + 1 <= z PROVE FALSE BY <1>1
  <2>5. z * (w + 1) <= z * z BY <1>1, Grows
  <2>6. (w + 1) * (w + 1) <= (w + 1) * z BY <1>1, Grows
  <2>7. (w + 1) * (w + 1) = w * w + 2 * w + 1 /\ z * (w + 1) = (w + 1) * z BY <1>1
  <2>8. w * w \in Nat /\ z * z \in Nat BY <1>1
  <2> QED BY <1>1, <2>4, <2>5, <2>6, <2>7, <2>8
<1>10. 404 * (t * q) <= 400 * e + 200 * uw
  <2> HIDE DEF q, tp, w, uw, e
  <2>1. q * (404 * t) <= q * (400 * u) BY <1>1, Grows
  <2>2. u * (2 * q) <= u * (2 * (u * tp) + u * t) BY <1>1, <1>5, <1>6, Grows
  <2>3. u * (2 * (u * tp) + u * t) = 2 * (u * (u * tp)) + u * (u * t)
    <3> DEFINE x0 == u * tp
               y0 == u * t
    <3>1. x0 \in Nat /\ y0 \in Nat BY <1>6
    <3> HIDE DEF x0, y0
    <3>2. u * (2 * x0 + y0) = 2 * (u * x0) + u * y0 BY <3>1
    <3> QED BY <3>2 DEF x0, y0
  <2>4. u * (u * tp) = e
    <3>1. u * (u * tp) = (u * u) * tp BY <1>1
    <3> QED BY <3>1 DEF e, w
  <2>5. u * (u * t) <= uw
    <3>1. u * t <= w BY <1>1, <1>6, <1>7
    <3> QED BY <1>1, <1>6, <3>1, Grows DEF uw
  <2>6. q * (404 * t) = 404 * (t * q) /\ q * (400 * u) = 400 * (u * q) /\ u * (2 * q) = 2 * (u * q)
    BY <1>1
  <2>7. t * q \in Int /\ u * q \in Int /\ u * (u * t) \in Int BY <1>1
  <2> QED BY <1>1, <1>2, <2>1, <2>2, <2>3, <2>4, <2>5, <2>6, <2>7
<1>11. 808 * (t * z) <= 800 * uw
  <2> HIDE DEF z, w, uw
  <2>1. z * (808 * t) <= z * (800 * u) BY <1>1, Grows
  <2>2. u * z <= u * w BY <1>1, <1>9, Grows
  <2>3. z * (808 * t) = 808 * (t * z) /\ z * (800 * u) = 800 * (u * z) BY <1>1
  <2>4. t * z \in Int /\ u * z \in Int /\ uw = u * w BY <1>1 DEF uw
  <2> QED BY <1>1, <2>1, <2>2, <2>3, <2>4
<1>12. 404 * (t * t) <= 400 * w
  <2>1. t * (404 * t) <= t * (400 * u) BY Grows
  <2>2. u * t <= w BY <1>1, <1>6, <1>7
  <2>3. t * (404 * t) = 404 * (t * t) /\ t * (400 * u) = 400 * (u * t) OBVIOUS
  <2> QED BY <1>1, <1>6, <2>1, <2>2, <2>3
<1>13. (t * t) * ((norm + 1) * (norm + 1)) = t * q + 2 * (t * z) + t * t OBVIOUS
<1>14. 10100 * (w * nk) <= v
  <2>1. 40000 * nk <= w
    <3>1. k * (200 * n) <= k * u /\ u * (200 * k) <= u * u BY Grows
    <3>2. k * (200 * n) = 200 * nk /\ u * (200 * k) = 200 * (k * u) OBVIOUS
    <3>3. k * u \in Int OBVIOUS
    <3> QED BY <1>1, <3>1, <3>2, <3>3
  <2> HIDE DEF w, nk
  <2>2. w * (40000 * nk) <= w * w BY <1>1, <2>1, Grows
  <2>3. w * (40000 * nk) = 40000 * (w * nk) /\ w * nk \in Nat BY <1>1
  <2> QED BY <1>1, <2>2, <2>3
<1>15. 600 * (w * un) <= 3 * v
  <2>1. u * (200 * n) <= u * u BY Grows
  <2>2. 200 * un <= w BY <2>1
  <2> HIDE DEF w, un
  <2>3. w * (200 * un) <= w * w BY <1>1, <2>2, Grows
  <2>4. w * (200 * un) = 200 * (w * un) /\ w * un \in Nat BY <1>1
  <2> QED BY <1>1, <2>3, <2>4
<1>16. w * tn <= w * un
  <2>1. tn <= un
    <3>1. n * t <= n * u
      <4>1. t <= u OBVIOUS
      <4> QED BY <4>1, Grows
    <3> QED BY <3>1
  <2> HIDE DEF w, tn, un
  <2> QED BY <1>1, <2>1, Grows
<1>17. 100 * (e + f) <= 99 * v
  <2> HIDE DEF w, tp, tq
  <2>1. w * (100 * (tp + tq)) <= w * (99 * w) BY <1>1, <1>4, Grows
  <2>2. w * (100 * (tp + tq)) = 100 * (e + f) /\ w * (99 * w) = 99 * v BY <1>1
  <2> QED BY <2>1, <2>2
<1>18. w * (4 * tq + 4 * tn + 2 * un) = 4 * f + 4 * (w * tn) + 2 * (w * un)
  <2> HIDE DEF w, tq, tn, un
  <2> QED BY <1>1
<1> DEFINE y1 == t * q
           y2 == t * z
           y3 == t * t
           y4 == w * nk
           y5 == w * un
           y6 == w * tn
<1>19. y1 \in Int /\ y2 \in Int /\ y3 \in Int /\ y4 \in Int /\ y5 \in Int /\ y6 \in Int
  <2> HIDE DEF q, z, w, nk, un, tn
  <2> QED BY <1>1
<1> DEFINE total == 404 * ((t * t) * ((norm + 1) * (norm + 1))) + 10100 * (w * nk)
                      + 50 * (w * (4 * tq + 4 * tn + 2 * un))
<1>20. total = 404 * (y1 + 2 * y2 + y3) + 10100 * y4 + 50 * (4 * f + 4 * y6 + 2 * y5)
  BY <1>13, <1>18
<1>21. /\ 404 * y1 <= 400 * e + 200 * uw /\ 808 * y2 <= 800 * uw /\ 404 * y3 <= 400 * w
       /\ 10100 * y4 <= v /\ 600 * y5 <= 3 * v /\ y6 <= y5 /\ 100 * (e + f) <= 99 * v
       /\ 1000 * uw <= v /\ 1000 * w <= uw
  BY <1>3, <1>10, <1>11, <1>12, <1>14, <1>15, <1>16, <1>17
<1>22. total <= 400 * v
  <2> HIDE DEF total, y1, y2, y3, y4, y5, y6, e, f, v, uw, w
  <2>1. 404 * (y1 + 2 * y2 + y3) = 404 * y1 + 808 * y2 + 404 * y3 BY <1>19
  <2> QED BY <1>1, <1>2, <1>19, <1>20, <1>21, <2>1
<1> DEFINE B == 4 * (t * qn) + 4 * (t * n) + 2 * (u * n)
<1>23. B \in Nat
  <2> HIDE DEF tq, tn, un
  <2>1. B = 4 * tq + 4 * tn + 2 * un BY DEF tq, tn, un
  <2> HIDE DEF B
  <2> QED BY <1>1, <2>1
<1>24. 404 * ((t * t) * ((norm + 1) * (norm + 1))) + 10100 * ((u * u) * (n * k))
         + 50 * ((u * u) * B) <= 400 * ((u * u) * (u * u))
  BY <1>22
<1>25. Budgeted(u, t, norm, n, k, B)
  <2> HIDE DEF B
  <2> QED BY <1>23, <1>24, SMT DEF Budgeted
<1> QED BY <1>25

\* The same for a step of at most Safe / |A|.
LEMMA LinearBudget ==
    ASSUME NEW u \in Nat, NEW t \in Nat, NEW norm \in Nat, NEW n \in Nat, NEW k \in Nat,
           1000 <= u, 200 * n <= u, 200 * k <= u, 100 * t <= 99 * u,
           100 * (t * norm) <= 99 * (u * u)
    PROVE  404 * ((t * t) * ((norm + 1) * (norm + 1))) + 10100 * ((u * u) * (n * k))
             <= 400 * ((u * u) * (u * u))
<1> DEFINE w == u * u
           v == w * w
           a == t * (norm + 1)
           nk == n * k
<1>1. w \in Nat /\ a \in Nat /\ nk \in Nat
  <2>1. norm + 1 \in Nat OBVIOUS
  <2> HIDE DEF w, nk
  <2>2. a \in Nat BY <2>1
  <2>3. w \in Nat /\ nk \in Nat BY DEF w, nk
  <2> QED BY <2>2, <2>3
<1>2. v \in Nat
  <2> HIDE DEF w
  <2> QED BY <1>1
<1>3. 1000 * u <= w OBVIOUS
<1>4. 1000 * a <= 991 * w
  <2>1. a = t * norm + t OBVIOUS
  <2> DEFINE x0 == t * norm
  <2>2. x0 \in Int /\ a = x0 + t /\ 100 * x0 <= 99 * w BY <2>1
  <2> HIDE DEF a, x0, w
  <2> QED BY <1>1, <1>3, <2>2
<1>5. 1000000 * (a * a) <= 982081 * v
  <2> HIDE DEF a, w
  <2> DEFINE x0 == 1000 * a
             y0 == 991 * w
  <2>1. x0 \in Nat /\ y0 \in Nat /\ x0 <= y0 BY <1>1, <1>4
  <2>2. x0 * x0 = 1000000 * (a * a) /\ y0 * y0 = 982081 * v BY <1>1
  <2> HIDE DEF x0, y0
  <2>3. x0 * x0 <= x0 * y0 /\ y0 * x0 <= y0 * y0 BY <2>1, Grows
  <2>4. x0 * y0 = y0 * x0 /\ x0 * x0 \in Int /\ y0 * y0 \in Int /\ x0 * y0 \in Int BY <2>1
  <2>5. x0 * x0 <= y0 * y0 BY <2>3, <2>4
  <2> QED BY <2>2, <2>5
<1>6. (t * t) * ((norm + 1) * (norm + 1)) = a * a
  <2> DEFINE b == norm + 1
  <2>1. b \in Nat OBVIOUS
  <2> HIDE DEF b
  <2>2. (t * t) * (b * b) = (t * b) * (t * b) BY <2>1
  <2> QED BY <2>2 DEF b
<1>7. 40000 * (w * nk) <= v
  <2>1. 40000 * nk <= w
    <3>1. k * (200 * n) <= k * u /\ u * (200 * k) <= u * u BY Grows
    <3>2. k * (200 * n) = 200 * nk /\ u * (200 * k) = 200 * (k * u) OBVIOUS
    <3>3. k * u \in Int OBVIOUS
    <3> QED BY <1>1, <3>1, <3>2, <3>3
  <2> HIDE DEF w, nk
  <2>2. w * (40000 * nk) <= w * w BY <1>1, <2>1, Grows
  <2>3. w * (40000 * nk) = 40000 * (w * nk) BY <1>1
  <2> QED BY <2>2, <2>3
<1> DEFINE aa == a * a
           m == w * nk
<1>8. aa \in Int /\ m \in Int
  <2> HIDE DEF a, w, nk
  <2> QED BY <1>1
<1>9. 404 * aa + 10100 * m <= 400 * v
  <2> HIDE DEF v, w, a, nk
  <2>1. 1000000 * aa <= 982081 * v /\ 40000 * m <= v BY <1>5, <1>7
  <2> HIDE DEF aa, m
  <2> QED BY <1>2, <1>8, <2>1
<1> QED BY <1>6, <1>9

\* The two halves of the condition, once each is within its share of the budget.
LEMMA SharesAdd ==
    ASSUME NEW w \in Nat \ {0}, NEW S \in Nat, NEW A \in Nat, NEW D \in Nat, NEW tt \in Nat,
           NEW nn \in Nat, NEW nk \in Nat, NEW Y \in Int, NEW B \in Nat,
           400 * (w * S) <= 404 * (tt * A) + 10100 * (w * (nk * D)),
           A <= nn * D, 400 * (w * Y) <= 50 * (w * (B * D)),
           404 * (tt * nn) + 10100 * (w * nk) + 50 * (w * B) <= 400 * (w * w)
    PROVE  S + Y <= w * D
<1> DEFINE a == tt * nn
           b == w * nk
           c == w * B
           v == w * w
<1>1. a \in Nat /\ b \in Nat /\ c \in Nat /\ v \in Nat OBVIOUS
<1>2. tt * A <= a * D
  <2>1. nn * D \in Int OBVIOUS
  <2>2. tt * A <= tt * (nn * D) BY <2>1, Grows
  <2>3. tt * (nn * D) = a * D OBVIOUS
  <2> QED BY <2>2, <2>3
<1>3. w * (nk * D) = b * D /\ w * (B * D) = c * D OBVIOUS
<1>4. 404 * (a * D) + 10100 * (b * D) + 50 * (c * D) <= 400 * (v * D)
  <2> DEFINE i == 404 * a + 10100 * b + 50 * c
             j == 400 * v
  <2>1. i \in Nat /\ j \in Nat /\ i <= j BY <1>1
  <2> HIDE DEF i, j
  <2>2. D * i <= D * j BY <2>1, Grows
  <2> HIDE DEF a, b, c, v
  <2>3. D * i = 404 * (a * D) + 10100 * (b * D) + 50 * (c * D) BY <1>1 DEF i
  <2>4. D * j = 400 * (v * D) BY <1>1 DEF j
  <2> QED BY <2>2, <2>3, <2>4
<1>5. v * D = w * (w * D) OBVIOUS
<1> DEFINE k == w * S
           l == w * Y
           m == a * D
           o == b * D
           p == c * D
           r == v * D
           x0 == tt * A
<1>6. /\ k \in Int /\ l \in Int /\ x0 \in Int /\ m \in Int /\ o \in Int /\ p \in Int /\ r \in Int
  <2>1. k \in Int /\ l \in Int /\ x0 \in Int OBVIOUS
  <2> HIDE DEF a, b, c, v
  <2> QED BY <1>1, <2>1
<1>7. /\ 400 * k <= 404 * x0 + 10100 * o /\ x0 <= m /\ 400 * l <= 50 * p
      /\ 404 * m + 10100 * o + 50 * p <= 400 * r
  BY <1>2, <1>3, <1>4
<1>8. k + l <= r
  <2> HIDE DEF k, l, m, o, p, r, x0
  <2> QED BY <1>6, <1>7
<1>9. w * (S + Y) <= w * (w * D)
  <2>1. w * (S + Y) = k + l OBVIOUS
  <2> QED BY <1>5, <1>8, <2>1
<1> DEFINE g == w * D
<1>10. g \in Nat OBVIOUS
<1> HIDE DEF g
<1> SUFFICES ASSUME g + 1 <= S + Y PROVE FALSE BY <1>10 DEF g
<1>11. w * (g + 1) <= w * (S + Y) BY <1>10, Grows
<1>12. w * (g + 1) = w * g + w /\ w * g \in Int BY <1>10
<1>13. w * (S + Y) \in Int OBVIOUS
<1> QED BY <1>9, <1>11, <1>12, <1>13 DEF g

LEMMA ScaleAtMostUnit == \A a \in Nat : Scale(a) <= Unit
<1> SUFFICES ASSUME NEW a \in Nat PROVE Scale(a) <= Unit OBVIOUS
<1>1. Unit \in Nat \ {0} BY GridAssumption
<1>2. CASE a > Unit
  <2> DEFINE q == (Unit * Unit) \div a
  <2>1. a \in Nat \ {0} /\ Unit * Unit \in Nat BY <1>1, <1>2
  <2>2. q \in Nat /\ q * a <= Unit * Unit BY <2>1, DivisionFacts
  <2>3. Scale(a) = q BY <1>2 DEF Scale, Quotient
  <2> HIDE DEF q
  <2> SUFFICES ASSUME Unit + 1 <= q PROVE FALSE BY <1>1, <2>2, <2>3
  <2>4. a * (Unit + 1) <= a * q BY <1>1, <2>2, Grows
  <2>5. Unit * (Unit + 1) <= Unit * a BY <1>1, <1>2, Grows
  <2>6. a * (Unit + 1) = a * Unit + a /\ Unit * (Unit + 1) = Unit * Unit + Unit
        /\ Unit * a = a * Unit /\ a * q = q * a
    BY <1>1, <2>2
  <2>7. a * Unit \in Int /\ Unit * Unit \in Int /\ q * a \in Int BY <1>1, <2>2
  <2> QED BY <1>1, <2>2, <2>4, <2>5, <2>6, <2>7
<1>3. CASE ~(a > Unit) BY <1>1, <1>3 DEF Scale
<1> QED BY <1>2, <1>3

LEMMA ColumnScaleAtMostUnit ==
    ASSUME NEW m, IsModel(m), NEW v \in ColumnsOf(m)
    PROVE  ColumnScale(m)[v] <= Unit
<1> DEFINE f == [r \in RowsOf(m) |-> m.rows[r].coefficients[v]]
<1>1. \A r \in RowsOf(m) : m.rows[r].coefficients[v] \in Int BY ModelFacts
<1>2. f \in Lists(RowsOf(m)) /\ IsFiniteSet(RowsOf(m)) BY <1>1, ModelFacts DEF Lists
<1>3. ColumnScale(m)[v] = Scale(NormInf(f)) BY DEF ColumnScale
<1> HIDE DEF f
<1>4. NormInf(f) \in Nat BY <1>2, NormInfType DEF Lists
<1> QED BY <1>3, <1>4, ScaleAtMostUnit

\* The step of a QP, against the bounds of its two norms.
LEMMA QuadraticStep ==
    ASSUME NEW solver, solver # "LP", NEW norm \in Nat, NEW qn \in Nat, NEW t \in Nat,
           t <= MaxStep(solver, norm, qn)
    PROVE  LET p == Product(norm, norm) IN
           /\ p \in Int /\ 0 <= p
           /\ 2 * (norm * norm) <= 2 * (Unit * p) + Unit
           /\ 100 * (t * (p + qn)) <= 99 * (Unit * Unit)
<1> DEFINE p == Product(norm, norm)
           l == Larger(Unit, p + qn)
           s == MaxStep(solver, norm, qn)
           su == Safe * Unit
<1>1. Unit \in Nat \ {0} /\ Safe \in Nat /\ 100 * Safe <= 99 * Unit BY GridAssumption DEF Safe
<1>2. p \in Int BY ProductType
<1>3. 2 * (norm * norm) <= 2 * (Unit * p) + Unit
  <2>1. norm \in Int OBVIOUS
  <2> QED BY <2>1, ProductIsNearest
<1>4. 0 <= p
  <2> DEFINE z == norm * norm
             h == Unit \div 2
  <2>1. z \in Nat /\ h \in Nat BY <1>1
  <2>2. p = (z + h) \div Unit BY DEF Product
  <2> HIDE DEF z, h, p
  <2>3. z + h \in Nat BY <2>1
  <2>4. (z + h) \div Unit \in Nat BY <1>1, <2>3, DivisionFacts
  <2> QED BY <2>2, <2>4
<1>5. s = su \div l BY DEF MaxStep, Quotient
<1> HIDE DEF p
<1>6. l \in Nat \ {0} /\ p + qn <= l BY <1>1, <1>2, <1>4 DEF Larger
<1>7. su \in Nat /\ 100 * su <= 99 * (Unit * Unit)
  <2> HIDE DEF Safe
  <2>1. Unit * (100 * Safe) <= Unit * (99 * Unit) BY <1>1, Grows
  <2> QED BY <1>1, <2>1
<1> HIDE DEF l, s, su
<1>8. s \in Nat /\ s * l <= su BY <1>5, <1>6, <1>7, DivisionFacts
<1>9. t * (p + qn) <= su
  <2> DEFINE i == p + qn
  <2>1. i \in Nat /\ i <= l BY <1>2, <1>4, <1>6
  <2> HIDE DEF i
  <2>2. t * i <= t * l BY <1>6, <2>1, Grows
  <2>3. l * t <= l * s BY <1>6, <1>8, Grows DEF s
  <2>4. l * t = t * l /\ l * s = s * l /\ t * i \in Int /\ t * l \in Int /\ s * l \in Int
    BY <1>6, <1>8, <2>1
  <2>5. t * i <= su BY <1>7, <1>8, <2>2, <2>3, <2>4
  <2> QED BY <2>5 DEF i
<1>10. t * (p + qn) \in Int /\ Unit * Unit \in Int BY <1>1, <1>2
<1>11. 100 * (t * (p + qn)) <= 99 * (Unit * Unit) BY <1>7, <1>9, <1>10
<1> QED BY <1>2, <1>3, <1>4, <1>11 DEF p

\* A look at the metric that halves the step is one of those the limit allows.
LEMMA HalvingFits ==
    ASSUME NEW i \in Nat, NEW limit \in Nat, NEW c \in Nat \ {0}, NEW k \in Nat,
           i <= limit, i > 0, i % c = 0, k = 0 \/ k * c < i
    PROVE  k + 1 <= limit \div c /\ (k + 1) * c <= i
<1> DEFINE j == i \div c
           l == limit \div c
<1>1. j \in Nat /\ l \in Nat BY DivisionFacts
<1>2. i = j * c
  <2>1. i = c * (i \div c) + (i % c) OBVIOUS
  <2> HIDE DEF j
  <2>2. i = c * j BY <1>1, <2>1 DEF j
  <2> QED BY <1>1, <2>2
<1>3. limit < l * c + c
  <2>1. limit < c * (limit \div c) + c OBVIOUS
  <2> DEFINE x0 == limit \div c
  <2>2. x0 = l /\ limit < c * x0 + c BY <2>1
  <2> HIDE DEF l, x0
  <2> QED BY <1>1, <2>2
<1> HIDE DEF j, l
<1>4. k + 1 <= j
  <2>1. 1 <= j BY <1>1, <1>2
  <2>2. CASE k = 0 BY <2>1, <2>2
  <2>3. CASE k * c < i
    <3> SUFFICES ASSUME j <= k PROVE FALSE BY <1>1
    <3>1. c * j <= c * k BY <1>1, Grows
    <3>2. c * j = j * c /\ c * k = k * c /\ k * c \in Int BY <1>1
    <3> QED BY <1>2, <2>3, <3>1, <3>2
  <2> QED BY <2>2, <2>3
<1>5. (k + 1) * c <= i
  <2>1. c * (k + 1) <= c * j BY <1>1, <1>4, Grows
  <2>2. c * (k + 1) = (k + 1) * c /\ c * j = j * c BY <1>1
  <2> QED BY <1>2, <2>1, <2>2
<1>6. j <= l
  <2> SUFFICES ASSUME l + 1 <= j PROVE FALSE BY <1>1
  <2>1. c * (l + 1) <= c * j BY <1>1, Grows
  <2>2. c * (l + 1) = l * c + c /\ c * j = j * c /\ l * c \in Int BY <1>1
  <2> QED BY <1>2, <1>3, <2>1, <2>2
<1> QED BY <1>1, <1>4, <1>5, <1>6 DEF l

\* floor[k] is a lower bound of the step after k halvings.
Looks == IterationLimit \div CheckInterval
Halving(q, floor) ==
    /\ floor[0] <= ScaledOf(q).max_step
    /\ \A k \in 0 .. Looks : k < Looks => 2 * floor[k + 1] <= floor[k]
StepOutlasts ==
    pc \in {"loop", "report"} =>
        \A floor \in [0 .. Looks -> Nat \ {0}] :
            Halving(request, floor) =>
                \E k \in 0 .. Looks : /\ k = 0 \/ k * CheckInterval < iter
                                      /\ floor[k] <= tau

LEMMA StepOutlastsStep == PdInv /\ StepOutlasts /\ [Next]_vars => StepOutlasts'
<1> SUFFICES ASSUME PdInv, StepOutlasts, [Next]_vars, pc' \in {"loop", "report"},
                    NEW floor \in [0 .. Looks -> Nat \ {0}], Halving(request, floor)'
             PROVE  (\E k \in 0 .. Looks : /\ k = 0 \/ k * CheckInterval < iter
                                           /\ floor[k] <= tau)'
  BY DEF StepOutlasts, Looks
<1>0. IterationLimit \in Nat /\ CheckInterval \in Nat \ {0} /\ Looks \in Nat
  BY LimitsAssumption, DivisionFacts DEF Looks
<1>1. CASE Refuse BY <1>1 DEF Refuse
<1>2. CASE Prepare
  <2>1. /\ scaled' = ScaledOf(request) /\ tau' = scaled'.max_step /\ request' = request
    BY <1>2 DEF Prepare, ScaledOf, model
  <2>2. floor[0] <= ScaledOf(request).max_step BY <2>1 DEF Halving, ScaledOf
  <2>3. 0 \in 0 .. Looks BY <1>0
  <2> QED BY <2>1, <2>2, <2>3
<1>3. CASE OutOfIterations \/ TimedOut \/ UNCHANGED vars
  <2>1. UNCHANGED <<request, tau, iter>> /\ pc \in {"loop", "report"}
    BY <1>3 DEF OutOfIterations, TimedOut, vars, iterates
  <2>2. Halving(request, floor) BY <2>1 DEF Halving, ScaledOf
  <2> QED BY <2>1, <2>2 DEF StepOutlasts
<1>4. CASE Iterate
  <2>1. /\ pc = "loop" /\ iter < IterationLimit /\ iter' = iter + 1 /\ request' = request
        /\ scaled' = scaled /\ Adapt(Metric(x', y'))
    BY <1>4 DEF Iterate
  <2> DEFINE metric == Metric(x', y')
             check == iter > 0 /\ iter % CheckInterval = 0
             rise == check /\ 4 * metric > 5 * previous_metric
             fall == check /\ ~rise /\ 10 * metric < previous_metric
  <2>2. tau' = IF rise THEN tau \div 2
               ELSE IF fall THEN Smaller((tau * 105) \div 100, scaled.max_step) ELSE tau
    BY <2>1 DEF Adapt
  <2>3. Working /\ iter \in Nat BY <1>0, <2>1 DEF PdInv
  <2>4. tau \in Nat /\ tau <= scaled.max_step /\ scaled.max_step \in Nat
    BY <2>3, RequestFacts DEF PdInv, Working, model, ScaledType
  <2>5. Halving(request, floor) BY <2>1 DEF Halving, ScaledOf
  <2>6. PICK k \in 0 .. Looks : /\ k = 0 \/ k * CheckInterval < iter
                                /\ floor[k] <= tau
    BY <2>1, <2>5 DEF StepOutlasts
  <2>7. k \in Nat /\ k * CheckInterval \in Int /\ floor[k] \in Nat BY <1>0, <2>6
  <2>8. CASE rise
    <3>1. check BY <2>8
    <3> HIDE DEF rise, fall
    <3>2. k + 1 <= Looks /\ (k + 1) * CheckInterval <= iter
      <4>1. iter > 0 /\ iter % CheckInterval = 0 /\ iter <= IterationLimit
        BY <1>0, <2>1, <2>3, <3>1
      <4>2. k \in Nat /\ (k = 0 \/ k * CheckInterval < iter) BY <2>6, <2>7
      <4> HIDE DEF check
      <4>3. /\ k + 1 <= IterationLimit \div CheckInterval
            /\ (k + 1) * CheckInterval <= iter
        BY <1>0, <2>3, <4>1, <4>2, HalvingFits
      <4> QED BY <4>3 DEF Looks
    <3>3. k + 1 \in 0 .. Looks /\ k < Looks BY <1>0, <2>7, <3>2
    <3>4. 2 * floor[k + 1] <= floor[k] /\ floor[k + 1] \in Nat BY <2>5, <2>6, <3>3 DEF Halving
    <3>5. tau' = tau \div 2 BY <2>2, <2>8
    <3>6. floor[k + 1] <= tau' BY <2>4, <2>6, <2>7, <3>4, <3>5
    <3>7. (k + 1) * CheckInterval \in Int BY <1>0, <2>7
    <3>8. (k + 1) * CheckInterval < iter' BY <2>1, <2>3, <3>2, <3>7
    <3> QED BY <3>3, <3>6, <3>8
  <2>9. CASE ~rise
    <3> HIDE DEF rise, fall
    <3>1. tau <= (tau * 105) \div 100 /\ (tau * 105) \div 100 \in Nat BY <2>4
    <3>2. tau <= tau' BY <2>2, <2>4, <2>9, <3>1 DEF Smaller
    <3>3. tau' \in Nat BY <2>2, <2>4, <2>9, <3>1 DEF Smaller
    <3>4. floor[k] <= tau' BY <2>4, <2>6, <2>7, <3>2, <3>3
    <3>5. k = 0 \/ k * CheckInterval < iter' BY <2>1, <2>3, <2>6, <2>7
    <3> QED BY <3>4, <3>5
  <2> QED BY <2>8, <2>9
<1>5. CASE Report BY <1>5 DEF Report
<1>6. CASE Returned
  <2> QED BY <1>6, <1>3 DEF Returned
<1> QED BY <1>1, <1>2, <1>3, <1>4, <1>5, <1>6 DEF Next

LEMMA StepOutlastsHolds == Spec => []StepOutlasts
<1>1. Init => StepOutlasts BY DEF Init, StepOutlasts
<1>2. PdInv /\ StepOutlasts /\ [Next]_vars => StepOutlasts' BY StepOutlastsStep
<1> QED BY <1>1, <1>2, PdInvariant, PTL DEF Spec

\* The grid is fine against the number of rows and columns, whose rounding it bears.
GridIsFine ==
    /\ 1000 <= Unit
    /\ \A q \in Requests :
          200 * Len(q.model.linear) <= Unit /\ 200 * Len(q.model.rows) <= Unit
\* Model::problem_class calls a model an LP only if it has no quadratic term
\* (Model.cpp:108-116).
LpsAreLinear == \A q \in Requests : q.model.class = "LP" => ~Curving(q.model)
\* The largest step can be halved at every look the limit allows, as a double
\* can be a thousand times.
HalvingsAreCovered ==
    \A q \in Requests : Refusal(q) = "NotSolved" =>
        \E floor \in [0 .. Looks -> Nat \ {0}] : Halving(q, floor)

\* What the rounded quadratic term gains along d, column by column, and its bound.
Bent(m, t, Q, d) ==
    [v \in ColumnsOf(m) |->
        d[v] * Total([w \in ColumnsOf(m) |-> Product(t, Q[<<v, w>>]) * d[w]])]
Weight(m, t, Q) ==
    4 * (t * QuadraticBound(m, Q)) + 4 * (t * Len(m.linear)) + 2 * (Unit * Len(m.linear))
ScaledBy(m, cs) ==
    [e \in DOMAIN m.quadratic |-> Product(Product(m.quadratic[e], cs[e[1]]), cs[e[2]])]
WithinWeight(C, X, b) ==
    /\ IsFiniteSet(C) /\ DOMAIN X = C /\ \A v \in C : X[v] \in Int
    /\ b \in Nat /\ 4 * (Unit * Total(X)) <= b

HalfPaid(w, Y, b) == 400 * (w * Y) <= 50 * (w * b)

\* The quadratic part of the condition, with its factor of half a unit.
LEMMA HalfCurvature ==
    ASSUME NEW C, NEW X, NEW b, WithinWeight(C, X, b), NEW w \in Nat
    PROVE  LET Y == Total([v \in C |-> X[v] * (Unit \div 2)]) IN
           Y \in Int /\ HalfPaid(w, Y, b)
<1> DEFINE h == Unit \div 2
           f == [v \in C |-> X[v] * h]
           x0 == Total(X)
           y0 == Total(f)
<1>0. Sum!IsFiniteSet(C) /\ Sum!Adds /\ DOMAIN X = C /\ (\A v \in C : X[v] \in Int)
  BY FinitenessIsOne, SumAdds DEF WithinWeight
<1>1. Unit \in Nat \ {0} /\ h \in Nat /\ 2 * h <= Unit BY GridAssumption
<1>2. x0 = Sum!Over(X, C) /\ y0 = Sum!Over(f, C)
  <2>1. DOMAIN f = C OBVIOUS
  <2> HIDE DEF f
  <2> QED BY <1>0, <2>1, TotalIsSum
<1>3. x0 \in Int BY <1>0, <1>2, Sum!SumType
<1>4. y0 = h * x0
  <2> HIDE DEF h
  <2>1. \A v \in C : f[v] = h * X[v]
    <3> TAKE v \in C
    <3>1. X[v] \in Int /\ h \in Int BY <1>0, <1>1
    <3>2. f[v] = X[v] * h OBVIOUS
    <3> HIDE DEF f
    <3> QED BY <3>1, <3>2
  <2>2. h \in Int BY <1>1
  <2> HIDE DEF f, x0, y0
  <2>3. Sum!Over(f, C) = h * Sum!Over(X, C) BY <1>0, <2>1, <2>2, Sum!SumScaled
  <2> QED BY <1>2, <2>3
<1>5. b \in Nat BY DEF WithinWeight
<1>6. 4 * (Unit * x0) <= b BY DEF WithinWeight
<1> HIDE DEF h, x0, y0, f
<1>7. y0 \in Int BY <1>1, <1>3, <1>4
<1>8. 8 * y0 <= b
  <2>1. CASE x0 <= 0
    <3>1. h * x0 <= h * 0 BY <1>1, <1>3, <2>1, Grows
    <3> QED BY <1>1, <1>4, <1>5, <1>7, <3>1
  <2>2. CASE x0 > 0
    <3>1. x0 \in Nat BY <1>3, <2>2
    <3>2. x0 * (2 * h) <= x0 * Unit BY <1>1, <3>1, Grows
    <3>3. x0 * (2 * h) = 2 * (h * x0) /\ x0 * Unit = Unit * x0 /\ h * x0 \in Int /\ Unit * x0 \in Int
      BY <1>1, <3>1
    <3> QED BY <1>4, <1>5, <1>6, <1>7, <3>2, <3>3
  <2> QED BY <1>3, <2>1, <2>2
<1>9. 400 * (w * y0) <= 50 * (w * b)
  <2>1. w * (8 * y0) <= w * b BY <1>5, <1>7, <1>8, Grows
  <2>2. w * (8 * y0) = 8 * (w * y0) /\ w * y0 \in Int /\ w * b \in Int BY <1>5, <1>7
  <2> QED BY <2>1, <2>2
<1>10. [v \in C |-> X[v] * (Unit \div 2)] = f BY DEF f, h
<1>11. HalfPaid(w, y0, b) BY <1>9 DEF HalfPaid
<1> QED BY <1>7, <1>10, <1>11 DEF y0

\* Without a quadratic term there is no quadratic part.
LEMMA NoCurvature ==
    ASSUME NEW m, IsModel(m), ~Curving(m), NEW cs \in [ColumnsOf(m) -> Nat], NEW t \in Nat,
           NEW d \in Lists(ColumnsOf(m))
    PROVE  WithinWeight(ColumnsOf(m), Bent(m, t, ScaledBy(m, cs), d), 0)
<1> DEFINE C == ColumnsOf(m)
           Q == ScaledBy(m, cs)
           qd == [v \in C |-> Total([w \in C |-> Product(t, Q[<<v, w>>]) * d[w]])]
           X == [v \in C |-> d[v] * qd[v]]
<1>1. IsFiniteSet(C) /\ m.quadratic \in [C \X C -> Int] BY ModelFacts
<1>2. \A i \in Int : Product(0, i) = 0 /\ Product(i, 0) = 0
  <2> TAKE i \in Int
  <2>1. (Unit \div 2) \div Unit = 0
    <3>1. Unit \in Nat \ {0} BY GridAssumption
    <3>2. Unit \div 2 \in Nat /\ Unit \div 2 < Unit BY <3>1
    <3> DEFINE h == Unit \div 2
    <3>3. h \in Nat /\ h < Unit BY <3>2
    <3> HIDE DEF h
    <3>4. h \div Unit = 0 BY <3>1, <3>3
    <3> QED BY <3>4 DEF h
  <2>2. 0 * i + Unit \div 2 = Unit \div 2 /\ i * 0 + Unit \div 2 = Unit \div 2
    BY GridAssumption
  <2> QED BY <2>1, <2>2 DEF Product
<1>3. ASSUME NEW v \in C, NEW w \in C PROVE Q[<<v, w>>] = 0
  <2>1. <<v, w>> \in DOMAIN m.quadratic BY <1>1
  <2>2. m.quadratic[<<v, w>>] = 0 BY <2>1 DEF Curving
  <2>3. Q[<<v, w>>] = Product(Product(0, cs[v]), cs[w]) BY <2>1, <2>2 DEF ScaledBy
  <2>4. cs[v] \in Int /\ cs[w] \in Int OBVIOUS
  <2>5. Product(0, cs[v]) = 0 BY <1>2, <2>4
  <2>6. Product(0, cs[w]) = 0 BY <1>2, <2>4
  <2> QED BY <2>3, <2>5, <2>6
<1>4. ASSUME NEW v \in C PROVE qd[v] = 0
  <2> DEFINE g == [w \in C |-> Product(t, Q[<<v, w>>]) * d[w]]
  <2>1. DOMAIN g = C /\ \A w \in C : g[w] = 0
    <3>1. t \in Int /\ \A w \in C : d[w] \in Int BY DEF Lists
    <3>2. Product(t, 0) = 0 BY <1>2, <3>1
    <3>3. \A w \in C : Product(t, Q[<<v, w>>]) * d[w] = 0 * d[w] BY <1>3, <3>2
    <3>4. \A w \in C : 0 * d[w] = 0 BY <3>1
    <3> QED BY <3>3, <3>4
  <2>2. qd[v] = Total(g) OBVIOUS
  <2> HIDE DEF g, qd
  <2> QED BY <1>1, <2>1, <2>2, TotalOfZeros
<1>5. DOMAIN X = C /\ \A v \in C : X[v] = 0 /\ d[v] * qd[v] \in Int
  <2>1. DOMAIN X = C /\ \A v \in C : X[v] = d[v] * qd[v] OBVIOUS
  <2> HIDE DEF X, qd
  <2>2. \A v \in C : d[v] \in Int BY DEF Lists
  <2>3. \A v \in C : d[v] * qd[v] = 0 BY <1>4, <2>2
  <2> QED BY <2>1, <2>3
<1>6. Total(X) = 0
  <2> HIDE DEF X
  <2> QED BY <1>1, <1>5, TotalOfZeros
<1>7. Bent(m, t, Q, d) = X BY DEF Bent
<1> HIDE DEF X, Q, qd
<1>8. 4 * (Unit * Total(X)) <= 0 BY <1>6, GridAssumption
<1>9. \A v \in C : X[v] \in Int BY <1>5
<1>10. WithinWeight(C, X, 0) BY <1>1, <1>5, <1>8, <1>9 DEF WithinWeight
<1> QED BY <1>7, <1>10 DEF Q

NearlySymmetric(m, Q) == \A v, w \in ColumnsOf(m) :
    Magnitude(Q[<<w, v>>]) <= Magnitude(Q[<<v, w>>]) + 2
LEMMA SomeCurvature ==
    ASSUME NEW m, IsModel(m), NEW Q \in [ColumnsOf(m) \X ColumnsOf(m) -> Int],
           NearlySymmetric(m, Q), NEW d \in Lists(ColumnsOf(m)), NEW t \in Nat
    PROVE  /\ Weight(m, t, Q) \in Nat
           /\ WithinWeight(ColumnsOf(m), Bent(m, t, Q, d), Weight(m, t, Q) * Squared(d))
<1> DEFINE C == ColumnsOf(m)
           n == Len(m.linear)
           qn == QuadraticBound(m, Q)
           qd == [v \in C |-> Total([w \in C |-> Product(t, Q[<<v, w>>]) * d[w]])]
           X == [v \in C |-> d[v] * qd[v]]
<1>1. \A v, w \in C : Magnitude(Q[<<w, v>>]) <= Magnitude(Q[<<v, w>>]) + 2
  BY DEF NearlySymmetric
<1>2. /\ Total(X) \in Int /\ qn \in Nat /\ n \in Nat
      /\ \A v \in C : d[v] * qd[v] \in Int
      /\ 4 * (Unit * Total(X))
           <= (4 * (t * qn) + 4 * (t * n) + 2 * (Unit * n)) * Squared(d)
  BY <1>1, CurvatureIsBounded
<1>3. Weight(m, t, Q) \in Nat
  <2> HIDE DEF n, qn
  <2> DEFINE a == t * qn
             b == t * n
             c == Unit * n
  <2>1. a \in Nat /\ b \in Nat /\ c \in Nat BY <1>2, GridAssumption
  <2>2. Weight(m, t, Q) = 4 * a + 4 * b + 2 * c BY DEF Weight, n, qn
  <2> HIDE DEF a, b, c
  <2> QED BY <2>1, <2>2
<1>4. Bent(m, t, Q, d) = X BY DEF Bent
<1>5. DOMAIN X = C /\ \A v \in C : X[v] \in Int BY <1>2
<1>6. IsFiniteSet(C) /\ Squared(d) \in Nat BY ModelFacts, SquaredFacts
<1>7. 4 * (Unit * Total(X)) <= Weight(m, t, Q) * Squared(d) BY <1>2 DEF Weight
<1> DEFINE b == Weight(m, t, Q) * Squared(d)
<1>8. b \in Nat BY <1>3, <1>6
<1> HIDE DEF X, b
<1>9. WithinWeight(C, X, b) BY <1>5, <1>6, <1>7, <1>8 DEF WithinWeight, b
<1> QED BY <1>3, <1>4, <1>9 DEF b

LEMMA LinearStepBudgeted ==
    ASSUME NEW t, NEW norm \in Nat, NEW n, NEW k, NEW s \in Nat, StepIsShort(Unit, t, n, k),
           t <= s, s * norm <= Safe * Unit
    PROVE  Budgeted(Unit, t, norm, n, k, 0)
<1>1. t \in Nat /\ n \in Nat /\ k \in Nat /\ Unit \in Nat BY DEF StepIsShort
<1>2. /\ 1000 <= Unit /\ 200 * n <= Unit /\ 200 * k <= Unit /\ 100 * t <= 99 * Unit
  BY DEF StepIsShort
<1>3. Safe \in Nat /\ 100 * Safe <= 99 * Unit BY GridAssumption DEF Safe
<1>4. 100 * (t * norm) <= 99 * (Unit * Unit)
  <2>1. norm * t <= norm * s BY <1>1, Grows
  <2>2. Unit * (100 * Safe) <= Unit * (99 * Unit) BY <1>1, <1>3, Grows
  <2>3. /\ norm * t = t * norm /\ norm * s = s * norm
        /\ Unit * (100 * Safe) = 100 * (Safe * Unit) /\ Unit * (99 * Unit) = 99 * (Unit * Unit)
        /\ t * norm \in Int /\ s * norm \in Int /\ Safe * Unit \in Int /\ Unit * Unit \in Int
    BY <1>1, <1>3
  <2> QED BY <2>1, <2>2, <2>3
<1> DEFINE a == 404 * ((t * t) * ((norm + 1) * (norm + 1))) + 10100 * ((Unit * Unit) * (n * k))
           c == (Unit * Unit) * 0
<1>5. a <= 400 * ((Unit * Unit) * (Unit * Unit)) BY <1>1, <1>2, <1>4, LinearBudget
<1>6. c = 0 BY <1>1
<1>7. a \in Int
  <2> DEFINE i == (t * t) * ((norm + 1) * (norm + 1))
             j == (Unit * Unit) * (n * k)
  <2>1. i \in Int /\ j \in Int BY <1>1
  <2>2. a = 404 * i + 10100 * j OBVIOUS
  <2> HIDE DEF i, j, a
  <2> QED BY <2>1, <2>2
<1>8. a + 50 * c = a
  <2> HIDE DEF a, c
  <2> QED BY <1>6, <1>7
<1>9. a + 50 * c <= 400 * ((Unit * Unit) * (Unit * Unit)) BY <1>5, <1>8
<1> QED BY <1>9 DEF Budgeted
LEMMA QuadraticStepBudgeted ==
    ASSUME NEW t, NEW norm \in Nat, NEW qn \in Nat, NEW n, NEW k, StepIsShort(Unit, t, n, k),
           NEW solver, solver # "LP", t <= MaxStep(solver, norm, qn)
    PROVE  Budgeted(Unit, t, norm, n, k, 4 * (t * qn) + 4 * (t * n) + 2 * (Unit * n))
<1>1. t \in Nat /\ n \in Nat /\ k \in Nat /\ Unit \in Nat BY DEF StepIsShort
<1>2. /\ 1000 <= Unit /\ 200 * n <= Unit /\ 200 * k <= Unit /\ 100 * t <= 99 * Unit
  BY DEF StepIsShort
<1> DEFINE p == Product(norm, norm)
<1>3. /\ p \in Int /\ 0 <= p /\ 2 * (norm * norm) <= 2 * (Unit * p) + Unit
      /\ 100 * (t * (p + qn)) <= 99 * (Unit * Unit)
  BY <1>1, QuadraticStep
<1> HIDE DEF p
<1>4. QuadraticStepIsShort(Unit, t, norm, p, qn, n, k)
  <2> DEFINE a == norm * norm
             b == Unit * p
             c == t * (p + qn)
             w == Unit * Unit
  <2>1. 2 * a <= 2 * b + Unit /\ 100 * c <= 99 * w BY <1>3
  <2> HIDE DEF a, b, c, w
  <2> QED BY <1>3, <2>1 DEF QuadraticStepIsShort, a, b, c, w
<1> QED BY <1>4, QuadraticBudget

LEMMA ScaledShape ==
    ASSUME NEW q
    PROVE  LET s == ScaledOf(q) IN
           /\ s.norm = OperatorBound(q.model, s.matrix)
           /\ s.max_step = MaxStep(q.solver, s.norm, QuadraticBound(q.model, s.quadratic))
           /\ s.quadratic = ScaledBy(q.model, ColumnScale(q.model))
BY DEF ScaledOf, Scaled, ScaledBy

LEMMA ScaledIsNearlySymmetric ==
    ASSUME NEW m, IsModel(m), Scalable(m)
    PROVE  NearlySymmetric(m, ScaledBy(m, ColumnScale(m)))
<1> DEFINE C == ColumnsOf(m)
           cs == ColumnScale(m)
           Q == ScaledBy(m, cs)
<1>1. cs \in [C -> Nat \ {0}] /\ \A v \in C : cs[v] <= Unit
  BY ScalesType, ColumnScaleAtMostUnit
<1>2. m.quadratic \in [C \X C -> Int] BY ModelFacts
<1>3. \A v, w \in C : m.quadratic[<<v, w>>] = m.quadratic[<<w, v>>]
  BY ModelFacts DEF IsModel
<1> HIDE DEF cs
<1>4. \A v, w \in C : Q[<<v, w>>] = Product(Product(m.quadratic[<<v, w>>], cs[v]), cs[w])
  <2> TAKE v, w \in C
  <2>1. <<v, w>> \in DOMAIN m.quadratic BY <1>2
  <2> QED BY <2>1 DEF ScaledBy
<1> HIDE DEF Q, C
<1>5. ASSUME NEW v \in C, NEW w \in C
      PROVE  Magnitude(Q[<<w, v>>]) <= Magnitude(Q[<<v, w>>]) + 2
  <2> DEFINE a == m.quadratic[<<v, w>>]
  <2>1. a \in Int BY <1>2
  <2>2. /\ Q[<<v, w>>] = Product(Product(a, cs[v]), cs[w])
        /\ Q[<<w, v>>] = Product(Product(a, cs[w]), cs[v])
    BY <1>3, <1>4
  <2>3. cs[v] \in Nat /\ cs[w] \in Nat /\ cs[v] <= Unit /\ cs[w] <= Unit BY <1>1
  <2> HIDE DEF a
  <2> DEFINE e == cs[v]
             c == cs[w]
  <2>4. e \in Nat /\ c \in Nat /\ e <= Unit /\ c <= Unit BY <2>3
  <2> HIDE DEF e, c
  <2>5. Magnitude(Product(Product(a, c), e)) <= Magnitude(Product(Product(a, e), c)) + 2
    BY <2>1, <2>4, ScaledNearlySymmetric
  <2> QED BY <2>2, <2>5 DEF e, c
<1> QED BY <1>5 DEF NearlySymmetric, Q, C, cs

\* The step of a request that is solved, and what it is chosen from.
LEMMA StepFacts ==
    ASSUME PdInv, pc \in {"loop", "report"}, GridIsFine
    PROVE  LET n == Len(model.linear)
               k == Len(model.rows)
               norm == scaled.norm
               qn == QuadraticBound(model, scaled.quadratic)
           IN  /\ IsModel(model) /\ ScaledType(model, scaled) /\ Scalable(model)
               /\ scaled.norm = OperatorBound(model, scaled.matrix)
               /\ scaled.quadratic = ScaledBy(model, ColumnScale(model))
               /\ StepIsShort(Unit, tau, n, k)
               /\ tau <= scaled.max_step /\ scaled.max_step \in Nat /\ norm \in Nat /\ qn \in Nat
               /\ scaled.max_step = MaxStep(request.solver, norm, qn)
               /\ request.solver = "LP" => scaled.max_step * norm <= Safe * Unit
<1>1. Working /\ request \in Requests /\ Refusal(request) = "NotSolved" BY DEF PdInv, Working
<1>2. /\ IsModel(model) /\ Scalable(model) /\ ScaledType(model, scaled)
      /\ LowerBounds(request) \in Lists(ColumnsOf(model))
      /\ UpperBounds(request) \in Lists(ColumnsOf(model))
  BY <1>1, RequestFacts DEF Working, model
<1>3. /\ scaled.norm = OperatorBound(model, scaled.matrix)
      /\ scaled.max_step = MaxStep(request.solver, scaled.norm,
                                   QuadraticBound(model, scaled.quadratic))
      /\ scaled.quadratic = ScaledBy(model, ColumnScale(model))
  BY <1>1, ScaledShape DEF Working, model
<1>4. /\ scaled.max_step <= Safe
      /\ request.solver = "LP" => scaled.max_step * scaled.norm <= Safe * Unit
  BY <1>1, <1>2, ScaledFacts DEF Working, ScaledOf, model
<1>5. tau \in Nat /\ tau <= scaled.max_step BY <1>1 DEF Working
<1>6. scaled.norm \in Nat /\ scaled.max_step \in Nat BY <1>2 DEF ScaledType
<1>7. QuadraticBound(model, scaled.quadratic) \in Nat
  BY <1>2, QuadraticBoundType DEF ScaledType
<1>8. StepIsShort(Unit, tau, Len(model.linear), Len(model.rows))
  <2>1. /\ 1000 <= Unit /\ 200 * Len(model.linear) <= Unit /\ 200 * Len(model.rows) <= Unit
    BY <1>1 DEF GridIsFine, model
  <2>2. Unit \in Nat /\ Safe \in Nat /\ 100 * Safe <= 99 * Unit BY GridAssumption DEF Safe
  <2>3. 100 * tau <= 99 * Unit BY <1>4, <1>5, <1>6, <2>2
  <2>4. Len(model.linear) \in Nat /\ Len(model.rows) \in Nat
    BY <1>2, ModelFacts DEF IsModel
  <2> QED BY <1>5, <2>1, <2>2, <2>3, <2>4 DEF StepIsShort
<1> QED BY <1>2, <1>3, <1>4, <1>5, <1>6, <1>7, <1>8

\* One half of the budget, whichever solver runs.
LEMMA StepIsBudgeted ==
    ASSUME PdInv, pc \in {"loop", "report"}, GridIsFine, LpsAreLinear,
           NEW d \in Lists(ColumnsOf(model))
    PROVE  \E B \in Nat :
               /\ Budgeted(Unit, tau, scaled.norm, Len(model.linear), Len(model.rows), B)
               /\ WithinWeight(ColumnsOf(model), Bent(model, tau, scaled.quadratic, d),
                               B * Squared(d))
<1> DEFINE n == Len(model.linear)
           k == Len(model.rows)
           norm == scaled.norm
           Q == scaled.quadratic
           qn == QuadraticBound(model, Q)
           s == scaled.max_step
<1>1. /\ IsModel(model) /\ ScaledType(model, scaled) /\ Scalable(model)
      /\ Q = ScaledBy(model, ColumnScale(model))
      /\ StepIsShort(Unit, tau, n, k)
      /\ tau <= s /\ s \in Nat /\ norm \in Nat /\ qn \in Nat
      /\ s = MaxStep(request.solver, norm, qn)
      /\ request.solver = "LP" => s * norm <= Safe * Unit
  BY StepFacts
<1>2. Squared(d) \in Nat
  BY <1>1, ModelFacts, SquaredFacts
<1>3. tau \in Nat BY <1>1 DEF StepIsShort
<1> HIDE DEF n, k, norm, Q, qn, s
<1>4. ASSUME request.solver = "LP"
      PROVE  /\ Budgeted(Unit, tau, norm, n, k, 0)
             /\ WithinWeight(ColumnsOf(model), Bent(model, tau, Q, d), 0 * Squared(d))
  <2>1. ~Curving(model)
    <3>1. request \in Requests /\ Refusal(request) = "NotSolved" BY DEF PdInv, Working
    <3>2. request.model.class = "LP" BY <1>4, <3>1 DEF Refusal
    <3> QED BY <3>1, <3>2 DEF LpsAreLinear, model
  <2>2. ColumnScale(model) \in [ColumnsOf(model) -> Nat] BY <1>1, ScalesType
  <2>3. WithinWeight(ColumnsOf(model), Bent(model, tau, Q, d), 0)
    BY <1>1, <1>3, <2>1, <2>2, NoCurvature
  <2>4. 0 * Squared(d) = 0 BY <1>2
  <2>5. Budgeted(Unit, tau, norm, n, k, 0) BY <1>1, <1>4, LinearStepBudgeted
  <2> QED BY <2>3, <2>4, <2>5
<1>5. ASSUME request.solver # "LP"
      PROVE  /\ Weight(model, tau, Q) \in Nat
             /\ Budgeted(Unit, tau, norm, n, k, Weight(model, tau, Q))
             /\ WithinWeight(ColumnsOf(model), Bent(model, tau, Q, d),
                             Weight(model, tau, Q) * Squared(d))
  <2>1. NearlySymmetric(model, Q) BY <1>1, ScaledIsNearlySymmetric
  <2>2. Q \in [ColumnsOf(model) \X ColumnsOf(model) -> Int] BY <1>1 DEF ScaledType, Q
  <2>3. /\ Weight(model, tau, Q) \in Nat
        /\ WithinWeight(ColumnsOf(model), Bent(model, tau, Q, d),
                        Weight(model, tau, Q) * Squared(d))
    BY <1>1, <1>3, <2>1, <2>2, SomeCurvature
  <2>4. tau <= MaxStep(request.solver, norm, qn) BY <1>1
  <2>5. Budgeted(Unit, tau, norm, n, k, 4 * (tau * qn) + 4 * (tau * n) + 2 * (Unit * n))
    BY <1>1, <1>5, <2>4, QuadraticStepBudgeted
  <2>6. Weight(model, tau, Q) = 4 * (tau * qn) + 4 * (tau * n) + 2 * (Unit * n)
    BY DEF Weight, qn, n
  <2> QED BY <2>3, <2>5, <2>6
<1>6. \E B \in Nat : /\ Budgeted(Unit, tau, norm, n, k, B)
                     /\ WithinWeight(ColumnsOf(model), Bent(model, tau, Q, d), B * Squared(d))
  <2>1. CASE request.solver = "LP"
    <3>1. 0 \in Nat OBVIOUS
    <3> QED BY <1>4, <2>1, <3>1
  <2>2. CASE request.solver # "LP" BY <1>5, <2>2
  <2> QED BY <2>1, <2>2
<1> QED BY <1>6 DEF norm, n, k, Q

LEMMA StepFits ==
    ASSUME PdInv, pc \in {"loop", "report"}, GridIsFine, LpsAreLinear,
           NEW d \in Lists(ColumnsOf(model))
    PROVE  Squared(Stepped(model, tau, scaled.matrix, d))
             + Total([v \in ColumnsOf(model) |->
                         Bent(model, tau, scaled.quadratic, d)[v] * (Unit \div 2)])
             <= Unit * Unit * Squared(d)
<1> DEFINE C == ColumnsOf(model)
           n == Len(model.linear)
           k == Len(model.rows)
           norm == scaled.norm
           D == Squared(d)
           S == Squared(Stepped(model, tau, scaled.matrix, d))
           A == Squared(Image(model, scaled.matrix, d))
           X == Bent(model, tau, scaled.quadratic, d)
           Y == Total([v \in C |-> X[v] * (Unit \div 2)])
           w == Unit * Unit
           tt == tau * tau
           nn == (norm + 1) * (norm + 1)
           nk == n * k
<1>1. /\ IsModel(model) /\ ScaledType(model, scaled)
      /\ norm = OperatorBound(model, scaled.matrix)
      /\ StepIsShort(Unit, tau, n, k) /\ norm \in Nat
  BY StepFacts
<1>2. tau \in Nat /\ n \in Nat /\ k \in Nat BY <1>1 DEF StepIsShort
<1>3. scaled.matrix \in Matrix(RowsOf(model), C) BY <1>1 DEF ScaledType
<1>4. /\ D \in Nat /\ S \in Nat /\ A \in Nat
      /\ 400 * (w * S) <= 404 * (tt * A) + 10100 * (w * (nk * D))
  <2>1. tau \in Int BY <1>2
  <2>2. D \in Nat /\ S \in Nat /\ A \in Nat /\ StepRoom(tau, S, A, D, n, k)
    BY <1>1, <1>3, <2>1, SteppedIsBounded
  <2> HIDE DEF D, S, A, n, k
  <2>3. 400 * (w * S) <= 404 * (tt * A) + 10100 * (w * (nk * D))
    BY <2>2, SMT DEF StepRoom
  <2> QED BY <2>2, <2>3
<1>5. A <= nn * D BY <1>1, <1>3, OperatorIsBounded
<1>6. PICK B \in Nat : /\ Budgeted(Unit, tau, norm, n, k, B)
                       /\ WithinWeight(C, X, B * D)
  BY StepIsBudgeted
<1>7. 404 * (tt * nn) + 10100 * (w * nk) + 50 * (w * B) <= 400 * (w * w)
  <2>1. norm \in Nat /\ n \in Nat /\ k \in Nat /\ Unit \in Nat BY <1>1, <1>2, GridAssumption
  <2>2. Budgeted(Unit, tau, norm, n, k, B) BY <1>6
  <2> HIDE DEF norm, n, k, C, X, D
  <2> QED BY <1>2, <2>1, <2>2, SMT DEF Budgeted
<1> HIDE DEF C, D, S, A, X, n, k, norm
<1>8. w \in Nat \ {0} /\ tt \in Nat /\ nn \in Nat /\ nk \in Nat
  BY <1>1, <1>2, GridAssumption
<1>9. Y \in Int /\ 400 * (w * Y) <= 50 * (w * (B * D))
  <2>1. w \in Nat BY <1>8
  <2> HIDE DEF w
  <2> DEFINE b == B * D
  <2>2. WithinWeight(C, X, b) BY <1>6
  <2> HIDE DEF b
  <2>3. Y \in Int /\ HalfPaid(w, Y, b) BY <2>1, <2>2, HalfCurvature
  <2>4. 400 * (w * Y) <= 50 * (w * b) BY <2>3 DEF HalfPaid
  <2> QED BY <2>3, <2>4 DEF b
<1> HIDE DEF w, tt, nn, nk, Y
<1>10. S + Y <= w * D
  BY <1>4, <1>5, <1>6, <1>7, <1>8, <1>9, SharesAdd
<1> QED BY <1>10 DEF S, Y, w, D, X, C

\* Whatever the model, the scaling and the number of adaptations, the steps are
\* positive and meet the condition under which the method converges, for the scaled
\* matrices themselves and every direction asked for, the rounding of the products
\* included.
THEOREM StepsMeetTheCondition ==
    ASSUME GridIsFine, LpsAreLinear, HalvingsAreCovered,
           \A e \in Directions : e \in [DOMAIN e -> Int]
    PROVE  Spec => []StepsConverge
<1>1. PdInv /\ StepOutlasts => StepsConverge
  <2> SUFFICES ASSUME PdInv, StepOutlasts, pc \in {"loop", "report"},
                      NEW d \in Directions, DOMAIN d = ColumnsOf(model)
               PROVE  LET ad == [r \in RowsOf(model) |-> Total(
                                    [v \in ColumnsOf(model) |->
                                        Product(tau, scaled.matrix[r][v]) * d[v]])]
                          qd == [v \in ColumnsOf(model) |-> Total(
                                    [w \in ColumnsOf(model) |->
                                        Product(tau, scaled.quadratic[<<v, w>>]) * d[w]])]
                      IN  /\ sigma = tau /\ tau > 0
                          /\ Squared(ad) + Total([v \in DOMAIN d |-> d[v] * qd[v] * (Unit \div 2)])
                               <= Unit * Unit * Squared(d)
    BY DEF StepsConverge
  <2>1. Working /\ request \in Requests /\ Refusal(request) = "NotSolved"
    BY DEF PdInv, Working
  <2>2. sigma = tau /\ tau \in Nat BY <2>1 DEF Working
  <2>3. tau > 0
    <3>1. PICK floor \in [0 .. Looks -> Nat \ {0}] : Halving(request, floor)
      BY <2>1 DEF HalvingsAreCovered
    <3>2. PICK k \in 0 .. Looks : floor[k] <= tau BY <3>1 DEF StepOutlasts
    <3>3. floor[k] \in Nat \ {0} BY <3>1, <3>2
    <3> QED BY <2>2, <3>2, <3>3
  <2>4. d \in Lists(ColumnsOf(model)) BY DEF Lists
  <2> DEFINE C == ColumnsOf(model)
             qd == [v \in C |-> Total(
                       [w \in C |-> Product(tau, scaled.quadratic[<<v, w>>]) * d[w]])]
             X == Bent(model, tau, scaled.quadratic, d)
             S == Squared(Stepped(model, tau, scaled.matrix, d))
             Y == Total([v \in C |-> X[v] * (Unit \div 2)])
  <2>5. S + Y <= Unit * Unit * Squared(d) BY <2>4, StepFits
  <2>6. Stepped(model, tau, scaled.matrix, d)
          = [r \in RowsOf(model) |-> Total([v \in C |-> Product(tau, scaled.matrix[r][v]) * d[v]])]
    BY DEF Stepped
  <2>7. Total([v \in DOMAIN d |-> d[v] * qd[v] * (Unit \div 2)]) = Y
    <3>1. \A v \in C : X[v] = d[v] * qd[v] BY DEF Bent
    <3> QED BY <3>1
  <2> QED BY <2>2, <2>3, <2>5, <2>6, <2>7
<1> QED BY <1>1, PdInvariant, StepOutlastsHolds, PTL
=============================================================================
