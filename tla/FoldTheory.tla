----------------------------- MODULE FoldTheory -----------------------------
(***************************************************************************)
(* Induction over finite sets, and what a fold computes, for every         *)
(* operation Op: the theory behind every sum, maximum and reduction of     *)
(* the models.  It is used by INSTANCE with Op the operation in question.  *)
(*                                                                         *)
(* A property of sets is given as the set of the sets that have it, so     *)
(* that no lemma takes an operator for a parameter.                        *)
(***************************************************************************)
EXTENDS Functions, FiniteSetTheorems, WellFoundedInduction, TLAPS

CONSTANTS Typ, Op(_, _), Base

\* What the order of a fold rests on.
Laws ==
    /\ Base \in Typ
    /\ \A a, b \in Typ : Op(a, b) \in Typ /\ Op(a, b) = Op(b, a)
    /\ \A a, b, c \in Typ : Op(a, Op(b, c)) = Op(Op(a, b), c)
Idle == Op(Base, Base) = Base

\* The fold of f over a set, as FoldFunctionOnSet has it.
Over(f, S) == FoldFunctionOnSet(Op, Base, f, S)
Chosen(s) == CHOOSE x \in s : TRUE
Rest(s) == s \ {Chosen(s)}
Folds(g, f, S) ==
    g = [s \in SUBSET S |-> IF s = {} THEN Base ELSE Op(f[Chosen(s)], g[Rest(s)])]

-----------------------------------------------------------------------------
(* Induction.                                                              *)

\* A set is good if every set is whose proper subsets are.
LEMMA SetInduction ==
    ASSUME NEW S, IsFiniteSet(S), NEW Good,
           \A U \in SUBSET S : (\A V \in SUBSET U : V # U => V \in Good) => U \in Good
    PROVE  \A U \in SUBSET S : U \in Good
<1> DEFINE Bad == {U \in SUBSET S : U \notin Good}
<1> SUFFICES ASSUME Bad # {} PROVE FALSE OBVIOUS
<1>1. Bad \subseteq FiniteSubsetsOf(S) BY FS_Subset DEF FiniteSubsetsOf
<1>2. PICK U \in Bad : \A V \in Bad : ~(<<V, U>> \in StrictSubsetOrdering(S))
  <2> HIDE DEF Bad
  <2> QED BY <1>1, WFMin, FS_StrictSubsetOrderingWellFounded
<1>3. \A V \in SUBSET U : V # U => V \in Good BY <1>2 DEF StrictSubsetOrdering
<1> QED BY <1>2, <1>3

\* Every number is good if 0 is and the next one is with each.
LEMMA NumberInduction ==
    ASSUME NEW Good, 0 \in Good, \A n \in Nat : n \in Good => n + 1 \in Good
    PROVE  \A n \in Nat : n \in Good
<1> DEFINE Bad == {n \in Nat : n \notin Good}
<1> SUFFICES ASSUME Bad # {} PROVE FALSE OBVIOUS
<1>1. PICK n \in Bad : \A k \in Bad : ~(<<k, n>> \in OpToRel(<, Nat))
  <2> HIDE DEF Bad
  <2>1. Bad \subseteq Nat BY DEF Bad
  <2> QED BY <2>1, WFMin, NatLessThanWellFounded
<1>2. n \in Nat /\ n \notin Good OBVIOUS
<1>3. n # 0 BY <1>2
<1>4. n - 1 \in Nat /\ (n - 1) + 1 = n BY <1>2, <1>3
<1>5. n - 1 \in Bad BY <1>2, <1>4
<1>6. ~(<<n - 1, n>> \in OpToRel(<, Nat)) BY <1>1, <1>5
<1> QED BY <1>2, <1>4, <1>6 DEF OpToRel

\* A bounded set of integers has a least and a greatest element.
LEMMA LeastExists ==
  ASSUME NEW S \in SUBSET Int, S # {}, NEW b \in Int, \A s \in S : b <= s
  PROVE  \E x \in S : \A s \in S : x <= s
<1> DEFINE T == {s - b : s \in S}
<1>1. T \subseteq Nat /\ T # {}
  <2>1. \A s \in S : s - b \in Nat OBVIOUS
  <2>2. PICK s \in S : TRUE OBVIOUS
  <2>3. s - b \in T OBVIOUS
  <2> QED BY <2>1, <2>3
<1>2. IsWellFoundedOn(OpToRel(<, Nat), Nat) BY NatLessThanWellFounded
<1>3. PICK t \in T : \A y \in T : ~(<<y, t>> \in OpToRel(<, Nat))
  <2> HIDE DEF T
  <2> QED BY <1>1, <1>2, WFMin, Zenon
<1>4. PICK x \in S : t = x - b OBVIOUS
<1>5. \A s \in S : x <= s
  <2> TAKE s \in S
  <2>1. ~(<<s - b, t>> \in OpToRel(<, Nat)) BY <1>3
  <2>2. s - b \in Nat /\ t \in Nat BY <1>1, <1>3
  <2>3. ~(s - b < t) BY <2>1, <2>2 DEF OpToRel
  <2> QED BY <1>4, <2>3
<1> QED BY <1>5

LEMMA GreatestExists ==
  ASSUME NEW S \in SUBSET Int, S # {}, NEW b \in Int, \A s \in S : s <= b
  PROVE  \E x \in S : \A s \in S : s <= x
<1> DEFINE T == {-s : s \in S}
<1>1. T \in SUBSET Int /\ T # {} /\ -b \in Int
  <2>1. PICK s \in S : TRUE OBVIOUS
  <2>2. -s \in T OBVIOUS
  <2>3. T \in SUBSET Int
    <3>1. \A u \in S : u \in Int /\ -u \in Int OBVIOUS
    <3> QED BY <3>1
  <2>4. T # {} BY <2>2
  <2>5. -b \in Int OBVIOUS
  <2> HIDE DEF T
  <2> QED BY <2>3, <2>4, <2>5
<1>2. \A t \in T : -b <= t OBVIOUS
<1>3. PICK t \in T : \A u \in T : t <= u
  <2> HIDE DEF T
  <2> QED BY <1>1, <1>2, LeastExists
<1>4. PICK x \in S : t = -x OBVIOUS
<1>5. \A s \in S : -s \in T OBVIOUS
<1>6. \A s \in S : s <= x
  <2> TAKE s \in S
  <2>1. t <= -s BY <1>3, <1>5
  <2> QED BY <1>4, <2>1
<1> QED BY <1>6

-----------------------------------------------------------------------------
(* The recursion that defines a fold has one solution.                     *)
LEMMA ChosenFacts == \A s : s # {} => Chosen(s) \in s /\ Rest(s) \in SUBSET s /\ Rest(s) # s
BY DEF Chosen, Rest

LEMMA FoldUnique ==
    ASSUME NEW S, IsFiniteSet(S), NEW f, NEW g, NEW h, Folds(g, f, S), Folds(h, f, S)
    PROVE  g = h
<1> DEFINE Good == {U \in SUBSET S : g[U] = h[U]}
<1>1. ASSUME NEW U \in SUBSET S, \A V \in SUBSET U : V # U => V \in Good
      PROVE  U \in Good
  <2>1. CASE U = {} BY <2>1 DEF Folds
  <2>2. CASE U # {}
    <3>1. Rest(U) \in Good BY <1>1, <2>2, ChosenFacts
    <3>2. g[Rest(U)] = h[Rest(U)] BY <3>1
    <3>3. g[U] = Op(f[Chosen(U)], g[Rest(U)]) BY <2>2 DEF Folds
    <3>4. h[U] = Op(f[Chosen(U)], h[Rest(U)]) BY <2>2 DEF Folds
    <3> QED BY <3>2, <3>3, <3>4
  <2> QED BY <2>1, <2>2
<1>2. \A U \in SUBSET S : U \in Good
  <2> HIDE DEF Good
  <2> QED BY <1>1, SetInduction
<1>3. g = [U \in SUBSET S |-> g[U]] /\ h = [U \in SUBSET S |-> h[U]] BY DEF Folds
<1> QED BY <1>2, <1>3

LEMMA FoldRestricted ==
    ASSUME NEW S, NEW T \in SUBSET S, NEW f, NEW g, Folds(g, f, S)
    PROVE  Folds([s \in SUBSET T |-> g[s]], f, T)
<1> DEFINE r == [s \in SUBSET T |-> g[s]]
<1>1. ASSUME NEW s \in SUBSET T
      PROVE  r[s] = IF s = {} THEN Base ELSE Op(f[Chosen(s)], r[Rest(s)])
  <2>1. s \in SUBSET S OBVIOUS
  <2>2. g[s] = IF s = {} THEN Base ELSE Op(f[Chosen(s)], g[Rest(s)]) BY <2>1 DEF Folds
  <2>3. s # {} => Rest(s) \in SUBSET T BY ChosenFacts
  <2> QED BY <2>2, <2>3
<1> QED BY <1>1 DEF Folds

The(f, S) == CHOOSE g : Folds(g, f, S)

LEMMA FoldExists ==
    ASSUME NEW S, IsFiniteSet(S), NEW f
    PROVE  Folds(The(f, S), f, S)
<1> DEFINE Good == {U \in SUBSET S : \E g : Folds(g, f, U)}
<1>1. ASSUME NEW U \in SUBSET S, \A V \in SUBSET U : V # U => V \in Good
      PROVE  U \in Good
  <2> DEFINE H(V) == The(f, V)[V]
             G == [s \in SUBSET U |-> IF s = {} THEN Base ELSE Op(f[Chosen(s)], H(Rest(s)))]
  <2>1. ASSUME NEW V \in SUBSET U, V # U PROVE G[V] = H(V)
    <3>1. Folds(The(f, V), f, V) BY <1>1, <2>1 DEF The
    <3>2. CASE V = {}
      <4>1. The(f, V)[V] = Base BY <3>1, <3>2 DEF Folds
      <4> QED BY <3>2, <4>1
    <3>3. CASE V # {}
      <4> DEFINE W == Rest(V)
                 r == [s \in SUBSET W |-> The(f, V)[s]]
      <4>1. W \in SUBSET V /\ W \in SUBSET U /\ W # U BY <2>1, <3>3, ChosenFacts
      <4>2. Folds(r, f, W)
        <5>1. W \in SUBSET V BY <4>1
        <5> HIDE DEF W
        <5> QED BY <3>1, <5>1, FoldRestricted
      <4>3. Folds(The(f, W), f, W) BY <4>2 DEF The
      <4>4. IsFiniteSet(W) BY <4>1, FS_Subset
      <4>5. r = The(f, W)
        <5> HIDE DEF W, r
        <5> QED BY <4>2, <4>3, <4>4, FoldUnique
      <4>6. The(f, V)[W] = H(W) BY <4>1, <4>5
      <4>7. The(f, V)[V] = Op(f[Chosen(V)], The(f, V)[W]) BY <3>1, <3>3 DEF Folds
      <4>8. G[V] = Op(f[Chosen(V)], H(W)) BY <3>3
      <4> QED BY <4>6, <4>7, <4>8
    <3> QED BY <3>2, <3>3
  <2>2. ASSUME NEW s \in SUBSET U
        PROVE  G[s] = IF s = {} THEN Base ELSE Op(f[Chosen(s)], G[Rest(s)])
    <3>1. s # {} => Rest(s) \in SUBSET U /\ Rest(s) # U BY ChosenFacts
    <3>2. s # {} => G[Rest(s)] = H(Rest(s)) BY <2>1, <3>1
    <3> QED BY <3>2
  <2>3. Folds(G, f, U)
    <3> HIDE DEF H
    <3> QED BY <2>2 DEF Folds
  <2> QED BY <2>3
<1>2. S \in Good
  <2> HIDE DEF Good
  <2> QED BY <1>1, SetInduction
<1> QED BY <1>2 DEF The

-----------------------------------------------------------------------------
(* What a fold computes.                                                   *)

LEMMA OverEmpty == \A f : Over(f, {}) = Base
<1> SUFFICES ASSUME NEW f PROVE Over(f, {}) = Base OBVIOUS
<1>1. Folds(The(f, {}), f, {}) BY FS_EmptySet, FoldExists
<1>2. The(f, {})[{}] = Base BY <1>1 DEF Folds
<1> QED BY <1>2 DEF The, Over, FoldFunctionOnSet, MapThenFoldSet, Folds, Chosen, Rest

LEMMA OverIsThe == \A f, S : Over(f, S) = The(f, S)[S]
BY DEF The, Over, FoldFunctionOnSet, MapThenFoldSet, Folds, Chosen, Rest

LEMMA OverStep ==
    ASSUME NEW S, IsFiniteSet(S), S # {}, NEW f
    PROVE  Over(f, S) = Op(f[Chosen(S)], Over(f, Rest(S)))
<1>0. \A U : Over(f, U) = The(f, U)[U] BY OverIsThe
<1>1. Folds(The(f, S), f, S) BY FoldExists
<1>2. The(f, S)[S] = Op(f[Chosen(S)], The(f, S)[Rest(S)]) BY <1>1 DEF Folds
<1> DEFINE W == Rest(S)
           r == [s \in SUBSET W |-> The(f, S)[s]]
<1>3. W \in SUBSET S /\ IsFiniteSet(W) BY ChosenFacts, FS_Subset
<1>4. The(f, S)[W] = The(f, W)[W]
  <2>1. r[W] = The(f, S)[W] OBVIOUS
  <2> HIDE DEF W
  <2>2. Folds(r, f, W) BY <1>1, <1>3, FoldRestricted
  <2>3. Folds(The(f, W), f, W) BY <1>3, FoldExists
  <2>4. r = The(f, W)
    <3> HIDE DEF r
    <3> QED BY <1>3, <2>2, <2>3, FoldUnique
  <2> QED BY <2>1, <2>4
<1> QED BY <1>0, <1>2, <1>4

\* A fold stays in every set that holds the base and is closed under
\* the operation with the values folded.
LEMMA OverStays ==
    ASSUME NEW S, IsFiniteSet(S), NEW f, NEW Good, Base \in Good,
           \A x \in S : \A a \in Good : Op(f[x], a) \in Good
    PROVE  Over(f, S) \in Good
<1> DEFINE Fine == {U \in SUBSET S : Over(f, U) \in Good}
<1>1. ASSUME NEW U \in SUBSET S, \A V \in SUBSET U : V # U => V \in Fine
      PROVE  U \in Fine
  <2>1. CASE U = {} BY <2>1, OverEmpty
  <2>2. CASE U # {}
    <3>1. Chosen(U) \in S /\ Rest(U) \in Fine BY <1>1, <2>2, ChosenFacts
    <3>2. IsFiniteSet(U) BY FS_Subset
    <3>3. Over(f, U) = Op(f[Chosen(U)], Over(f, Rest(U))) BY <2>2, <3>2, OverStep
    <3> QED BY <3>1, <3>3
  <2> QED BY <2>1, <2>2
<1>2. S \in Fine
  <2> HIDE DEF Fine
  <2> QED BY <1>1, SetInduction
<1> QED BY <1>2

LEMMA OverType ==
    ASSUME Laws, NEW S, IsFiniteSet(S), NEW f, \A x \in S : f[x] \in Typ
    PROVE  Over(f, S) \in Typ
<1>1. Base \in Typ /\ \A x \in S : \A a \in Typ : Op(f[x], a) \in Typ BY DEF Laws
<1> QED BY <1>1, OverStays

LEMMA Regroup ==
    ASSUME Laws, NEW a \in Typ, NEW b \in Typ, NEW c \in Typ
    PROVE  Op(a, Op(b, c)) = Op(Op(a, b), c) /\ Op(a, b) = Op(b, a)
BY DEF Laws

\* Two folds over one set end in a relation that holds of the bases and
\* that every step keeps.
LEMMA OverRelated ==
    ASSUME NEW S, IsFiniteSet(S), NEW f, NEW h, NEW R, <<Base, Base>> \in R,
           \A x \in S : \A a, b : <<a, b>> \in R => <<Op(f[x], a), Op(h[x], b)>> \in R
    PROVE  <<Over(f, S), Over(h, S)>> \in R
<1> DEFINE Fine == {U \in SUBSET S : <<Over(f, U), Over(h, U)>> \in R}
<1>1. ASSUME NEW U \in SUBSET S, \A V \in SUBSET U : V # U => V \in Fine
      PROVE  U \in Fine
  <2>1. CASE U = {} BY <2>1, OverEmpty
  <2>2. CASE U # {}
    <3>1. Chosen(U) \in S /\ Rest(U) \in Fine BY <1>1, <2>2, ChosenFacts
    <3>2. IsFiniteSet(U) BY FS_Subset
    <3>3. /\ Over(f, U) = Op(f[Chosen(U)], Over(f, Rest(U)))
          /\ Over(h, U) = Op(h[Chosen(U)], Over(h, Rest(U)))
      BY <2>2, <3>2, OverStep
    <3> QED BY <3>1, <3>3
  <2> QED BY <2>1, <2>2
<1>2. S \in Fine
  <2> HIDE DEF Fine
  <2> QED BY <1>1, SetInduction
<1> QED BY <1>2

LEMMA OverEqual ==
    ASSUME NEW S, IsFiniteSet(S), NEW f, NEW h, \A x \in S : f[x] = h[x]
    PROVE  Over(f, S) = Over(h, S)
<1> DEFINE Fine == {U \in SUBSET S : Over(f, U) = Over(h, U)}
<1>1. ASSUME NEW U \in SUBSET S, \A V \in SUBSET U : V # U => V \in Fine
      PROVE  U \in Fine
  <2>1. CASE U = {} BY <2>1, OverEmpty
  <2>2. CASE U # {}
    <3>1. Chosen(U) \in S /\ Rest(U) \in Fine BY <1>1, <2>2, ChosenFacts
    <3>2. IsFiniteSet(U) BY FS_Subset
    <3>3. /\ Over(f, U) = Op(f[Chosen(U)], Over(f, Rest(U)))
          /\ Over(h, U) = Op(h[Chosen(U)], Over(h, Rest(U)))
      BY <2>2, <3>2, OverStep
    <3> QED BY <3>1, <3>3
  <2> QED BY <2>1, <2>2
<1>2. S \in Fine
  <2> HIDE DEF Fine
  <2> QED BY <1>1, SetInduction
<1> QED BY <1>2

\* Under the laws any element may be folded last.
LEMMA OverAny ==
    ASSUME Laws, NEW S, IsFiniteSet(S), NEW f, \A x \in S : f[x] \in Typ
    PROVE  \A x \in S : Over(f, S) = Op(f[x], Over(f, S \ {x}))
<1> DEFINE Fine == {U \in SUBSET S : \A x \in U : Over(f, U) = Op(f[x], Over(f, U \ {x}))}
<1>1. ASSUME NEW U \in SUBSET S, \A V \in SUBSET U : V # U => V \in Fine,
             NEW x \in U
      PROVE  Over(f, U) = Op(f[x], Over(f, U \ {x}))
  <2> DEFINE c == Chosen(U)
             o == Over(f, U \ {c, x})
  <2>1. c \in U BY ChosenFacts
  <2>2. IsFiniteSet(U) /\ IsFiniteSet(U \ {c, x}) BY FS_Subset
  <2>3. Over(f, U) = Op(f[c], Over(f, U \ {c})) BY <2>2, OverStep DEF Rest
  <2>4. CASE c = x BY <2>3, <2>4
  <2>5. CASE c # x
    <3>1. U \ {c} \in Fine /\ U \ {x} \in Fine BY <1>1, <2>1
    <3>2. (U \ {c}) \ {x} = U \ {c, x} /\ (U \ {x}) \ {c} = U \ {c, x} OBVIOUS
    <3>3. Over(f, U \ {c}) = Op(f[x], o) BY <2>5, <3>1, <3>2
    <3>4. Over(f, U \ {x}) = Op(f[c], o) BY <2>1, <2>5, <3>1, <3>2
    <3>5. o \in Typ
      <4>1. \A y \in U \ {c, x} : f[y] \in Typ OBVIOUS
      <4> QED BY <2>2, <4>1, OverType
    <3>6. f[c] \in Typ /\ f[x] \in Typ BY <2>1
    <3> HIDE DEF o, c
    <3>7. Op(f[c], Op(f[x], o)) = Op(Op(f[c], f[x]), o) BY <3>5, <3>6, Regroup
    <3>8. Op(f[x], Op(f[c], o)) = Op(Op(f[x], f[c]), o) BY <3>5, <3>6, Regroup
    <3>9. Op(f[c], f[x]) = Op(f[x], f[c]) BY <3>5, <3>6, Regroup
    <3> QED BY <2>3, <3>3, <3>4, <3>7, <3>8, <3>9
  <2> QED BY <2>4, <2>5
<1>2. ASSUME NEW U \in SUBSET S, \A V \in SUBSET U : V # U => V \in Fine
      PROVE  U \in Fine
  BY <1>1, <1>2
<1>3. S \in Fine
  <2> HIDE DEF Fine
  <2> QED BY <1>2, SetInduction
<1> QED BY <1>3

LEMMA OverOne ==
    ASSUME Laws, NEW x, NEW f, f[x] \in Typ
    PROVE  Over(f, {x}) = Op(f[x], Base)
<1>1. IsFiniteSet({x}) BY FS_Singleton
<1>2. Over(f, {x}) = Op(f[x], Over(f, {x} \ {x}))
  <2>1. \A y \in {x} : f[y] \in Typ OBVIOUS
  <2> QED BY <1>1, <2>1, OverAny
<1>3. {x} \ {x} = {} OBVIOUS
<1>4. Over(f, {x} \ {x}) = Base BY <1>3, OverEmpty
<1> QED BY <1>2, <1>4

\* A base that is idle once is idle in every fold, which begins with it.
LEMMA OverAbsorbs ==
    ASSUME Laws, Idle, NEW S, IsFiniteSet(S), NEW f, \A x \in S : f[x] \in Typ
    PROVE  Op(Base, Over(f, S)) = Over(f, S) /\ Op(Over(f, S), Base) = Over(f, S)
<1> DEFINE Good == {a \in Typ : Op(Base, a) = a}
<1>1. Base \in Good BY DEF Laws, Idle
<1>2. ASSUME NEW x \in S, NEW a \in Good PROVE Op(f[x], a) \in Good
  <2>1. f[x] \in Typ /\ a \in Typ /\ Op(Base, a) = a OBVIOUS
  <2>2. Op(f[x], a) \in Typ /\ Base \in Typ BY <2>1 DEF Laws
  <2>3. Op(Base, Op(f[x], a)) = Op(Op(Base, f[x]), a) BY <2>1, <2>2, Regroup
  <2>4. Op(Base, f[x]) = Op(f[x], Base) BY <2>1, <2>2, Regroup
  <2>5. Op(f[x], Op(Base, a)) = Op(Op(f[x], Base), a) BY <2>1, <2>2, Regroup
  <2> QED BY <2>1, <2>2, <2>3, <2>4, <2>5
<1>3. Over(f, S) \in Good
  <2> HIDE DEF Good
  <2> QED BY <1>1, <1>2, OverStays
<1>4. Over(f, S) \in Typ /\ Base \in Typ BY <1>3 DEF Laws
<1>5. Op(Over(f, S), Base) = Op(Base, Over(f, S)) BY <1>4, Regroup
<1> QED BY <1>3, <1>5

\* The fold of a union of disjoint sets.
LEMMA OverUnion ==
    ASSUME Laws, Idle, NEW A, NEW B, IsFiniteSet(A), IsFiniteSet(B), A \cap B = {},
           NEW f, \A x \in A \cup B : f[x] \in Typ
    PROVE  Over(f, A \cup B) = Op(Over(f, A), Over(f, B))
<1> DEFINE Fine == {U \in SUBSET A : Over(f, U \cup B) = Op(Over(f, U), Over(f, B))}
<1>0. Over(f, B) \in Typ BY OverType
<1>1. ASSUME NEW U \in SUBSET A, \A V \in SUBSET U : V # U => V \in Fine
      PROVE  U \in Fine
  <2>1. CASE U = {}
    <3>1. Over(f, U \cup B) = Over(f, B) BY <2>1
    <3>2. Over(f, U) = Base BY <2>1, OverEmpty
    <3>3. Op(Base, Over(f, B)) = Over(f, B) BY OverAbsorbs
    <3> QED BY <3>1, <3>2, <3>3
  <2>2. CASE U # {}
    <3> DEFINE c == Chosen(U)
               V == U \ {c}
    <3>1. c \in U /\ V \in SUBSET U /\ V # U BY <2>2, ChosenFacts DEF Rest
    <3>2. Over(f, V \cup B) = Op(Over(f, V), Over(f, B)) BY <1>1, <3>1
    <3>3. IsFiniteSet(U) /\ IsFiniteSet(V) /\ IsFiniteSet(U \cup B) BY FS_Subset, FS_Union
    <3>4. Over(f, U) = Op(f[c], Over(f, V))
      <4>1. \A x \in U : f[x] \in Typ OBVIOUS
      <4> QED BY <3>1, <3>3, <4>1, OverAny
    <3>5. (U \cup B) \ {c} = V \cup B BY <3>1
    <3>6. Over(f, U \cup B) = Op(f[c], Over(f, V \cup B))
      <4>1. \A x \in U \cup B : f[x] \in Typ OBVIOUS
      <4>2. Over(f, U \cup B) = Op(f[c], Over(f, (U \cup B) \ {c}))
        <5> HIDE DEF c
        <5> QED BY <3>1, <3>3, <4>1, OverAny
      <4> QED BY <3>5, <4>2
    <3>7. Over(f, V) \in Typ /\ f[c] \in Typ
      <4>1. \A x \in V : f[x] \in Typ OBVIOUS
      <4> QED BY <3>1, <3>3, <4>1, OverType
    <3> HIDE DEF c, V
    <3>8. Op(f[c], Op(Over(f, V), Over(f, B))) = Op(Op(f[c], Over(f, V)), Over(f, B))
      BY <1>0, <3>7, Regroup
    <3> QED BY <3>2, <3>4, <3>6, <3>8
  <2> QED BY <2>1, <2>2
<1>2. A \in Fine
  <2> HIDE DEF Fine
  <2> QED BY <1>1, SetInduction
<1> QED BY <1>2

\* Indices whose value is the base do not count.
LEMMA OverSupport ==
    ASSUME Laws, Idle, NEW S, IsFiniteSet(S), NEW T \in SUBSET S,
           NEW f, \A x \in S : f[x] \in Typ, \A x \in S \ T : f[x] = Base
    PROVE  Over(f, S) = Over(f, T)
<1>1. IsFiniteSet(T) /\ IsFiniteSet(S \ T) BY FS_Subset
<1>2. Over(f, S \ T) \in {Base}
  <2>1. Op(Base, Base) = Base BY DEF Idle
  <2>2. \A x \in S \ T : \A a \in {Base} : Op(f[x], a) \in {Base} BY <2>1
  <2> QED BY <1>1, <2>2, OverStays
<1>3. S = T \cup (S \ T) /\ T \cap (S \ T) = {} OBVIOUS
<1>4. Over(f, T \cup (S \ T)) = Op(Over(f, T), Over(f, S \ T))
  <2>1. \A x \in T \cup (S \ T) : f[x] \in Typ OBVIOUS
  <2> QED BY <1>1, <1>3, <2>1, OverUnion
<1>5. Op(Over(f, T), Base) = Over(f, T)
  <2>1. \A x \in T : f[x] \in Typ OBVIOUS
  <2> QED BY <1>1, <2>1, OverAbsorbs
<1> QED BY <1>2, <1>3, <1>4, <1>5

\* A fold that starts elsewhere is the fold and the start.
From(c, f, S) == FoldFunctionOnSet(Op, c, f, S)
FoldsFrom(c, g, f, S) ==
    g = [s \in SUBSET S |-> IF s = {} THEN c ELSE Op(f[Chosen(s)], g[Rest(s)])]
LEMMA OverFrom ==
    ASSUME Laws, NEW c \in Typ, Op(Base, c) = c, NEW S, IsFiniteSet(S),
           NEW f, \A x \in S : f[x] \in Typ
    PROVE  From(c, f, S) = Op(Over(f, S), c)
<1> DEFINE G == [s \in SUBSET S |-> Op(Over(f, s), c)]
<1>1. ASSUME NEW s \in SUBSET S
      PROVE  G[s] = IF s = {} THEN c ELSE Op(f[Chosen(s)], G[Rest(s)])
  <2>1. CASE s = {} BY <2>1, OverEmpty
  <2>2. CASE s # {}
    <3> DEFINE R == Rest(s)
    <3>1. Chosen(s) \in S /\ R \in SUBSET S /\ IsFiniteSet(s) /\ IsFiniteSet(R)
      BY <2>2, ChosenFacts, FS_Subset
    <3>2. Over(f, s) = Op(f[Chosen(s)], Over(f, R)) BY <2>2, <3>1, OverStep
    <3> HIDE DEF R
    <3>3. Over(f, R) \in Typ BY <3>1, OverType
    <3>4. f[Chosen(s)] \in Typ BY <3>1
    <3>5. Op(Op(f[Chosen(s)], Over(f, R)), c) = Op(f[Chosen(s)], Op(Over(f, R), c))
      <4> HIDE DEF G
      <4>1. Op(f[Chosen(s)], Op(Over(f, R), c)) = Op(Op(f[Chosen(s)], Over(f, R)), c)
        BY <3>3, <3>4, Regroup
      <4> QED BY <4>1
    <3>6. G[s] = Op(Over(f, s), c) /\ G[R] = Op(Over(f, R), c) BY <3>1
    <3>7. G[s] = Op(f[Chosen(s)], G[R]) BY <3>2, <3>5, <3>6
    <3> QED BY <2>2, <3>7 DEF R
  <2> QED BY <2>1, <2>2
<1>2. FoldsFrom(c, G, f, S) BY <1>1 DEF FoldsFrom
<1>3. ASSUME NEW g, FoldsFrom(c, g, f, S) PROVE g = G
  <2> DEFINE Good == {U \in SUBSET S : g[U] = G[U]}
  <2> HIDE DEF G
  <2>1. ASSUME NEW U \in SUBSET S, \A V \in SUBSET U : V # U => V \in Good
        PROVE  U \in Good
    <3>1. CASE U = {} BY <1>2, <1>3, <3>1 DEF FoldsFrom
    <3>2. CASE U # {}
      <4>1. Rest(U) \in Good BY <2>1, <3>2, ChosenFacts
      <4>2. g[Rest(U)] = G[Rest(U)] BY <4>1
      <4>3. g[U] = Op(f[Chosen(U)], g[Rest(U)]) BY <1>3, <3>2 DEF FoldsFrom
      <4>4. G[U] = Op(f[Chosen(U)], G[Rest(U)]) BY <1>2, <3>2 DEF FoldsFrom
      <4> QED BY <4>2, <4>3, <4>4
    <3> QED BY <3>1, <3>2
  <2>2. \A U \in SUBSET S : U \in Good
    <3> HIDE DEF Good
    <3> QED BY <2>1, SetInduction
  <2>3. g = [U \in SUBSET S |-> g[U]] /\ G = [U \in SUBSET S |-> G[U]]
    BY <1>2, <1>3 DEF FoldsFrom
  <2> QED BY <2>2, <2>3
<1>4. (CHOOSE g : FoldsFrom(c, g, f, S)) = G
  <2> HIDE DEF G
  <2> QED BY <1>2, <1>3
<1>5. From(c, f, S) = (CHOOSE g : FoldsFrom(c, g, f, S))[S]
  BY DEF From, FoldFunctionOnSet, MapThenFoldSet, FoldsFrom, Chosen, Rest
<1> QED BY <1>4, <1>5

\* A fold by parts: first over the part of each x, then over the parts.
LEMMA OverParts ==
    ASSUME Laws, Idle, NEW S, IsFiniteSet(S), NEW T, IsFiniteSet(T), NEW part \in [T -> S],
           NEW class \in [S -> SUBSET T],
           \A x \in S : \A i \in T : i \in class[x] <=> part[i] = x,
           NEW h, \A i \in T : h[i] \in Typ,
           NEW f, \A x \in S : f[x] \in Typ /\ Op(f[x], Base) = Over(h, class[x])
    PROVE  Over(f, S) = Over(h, T)
<1> DEFINE W(U) == {i \in T : part[i] \in U}
           Fine == {U \in SUBSET S : Over(f, U) = Over(h, W(U))}
<1>0. (\A U : IsFiniteSet(W(U))) /\ \A x \in S : IsFiniteSet(class[x])
  <2>1. (\A U : W(U) \subseteq T) /\ \A x \in S : class[x] \subseteq T OBVIOUS
  <2> HIDE DEF W
  <2> QED BY <2>1, FS_Subset
<1>1. ASSUME NEW U \in SUBSET S, \A V \in SUBSET U : V # U => V \in Fine
      PROVE  U \in Fine
  <2>1. CASE U = {}
    <3>1. W(U) = {} BY <2>1
    <3> QED BY <2>1, <3>1, OverEmpty
  <2>2. CASE U # {}
    <3> DEFINE c == Chosen(U)
               V == Rest(U)
    <3>1. c \in U /\ V \in SUBSET U /\ V # U /\ U = V \cup {c} /\ c \notin V
      BY <2>2, ChosenFacts DEF Rest, Chosen
    <3>2. Over(f, V) = Over(h, W(V)) BY <1>1, <3>1
    <3>3. IsFiniteSet(U) BY FS_Subset
    <3>4. Over(f, U) = Op(f[c], Over(f, V)) BY <2>2, <3>3, OverStep
    <3> HIDE DEF c, V
    <3>5. W(U) = class[c] \cup W(V) /\ class[c] \cap W(V) = {} BY <3>1
    <3>6. f[c] \in Typ /\ Op(f[c], Base) = Over(h, class[c]) BY <3>1
    <3>7. \A i \in class[c] \cup W(V) : h[i] \in Typ
      <4>1. class[c] \in SUBSET T BY <3>1
      <4>2. W(V) \in SUBSET T OBVIOUS
      <4> HIDE DEF W
      <4> QED BY <4>1, <4>2
    <3>8. Over(h, W(U)) = Op(Over(h, class[c]), Over(h, W(V)))
      <4> HIDE DEF W
      <4>1. IsFiniteSet(class[c]) /\ IsFiniteSet(W(V)) BY <1>0, <3>1
      <4>2. Over(h, class[c] \cup W(V)) = Op(Over(h, class[c]), Over(h, W(V)))
        BY <3>5, <3>7, <4>1, OverUnion
      <4> QED BY <3>5, <4>2
    <3>9. Over(h, W(V)) \in Typ /\ Op(Base, Over(h, W(V))) = Over(h, W(V))
      <4>1. \A i \in W(V) : h[i] \in Typ BY <3>7
      <4> HIDE DEF W
      <4> QED BY <1>0, <4>1, OverType, OverAbsorbs
    <3>10. Op(Op(f[c], Base), Over(h, W(V))) = Op(f[c], Op(Base, Over(h, W(V))))
      <4>1. Base \in Typ BY DEF Laws
      <4> HIDE DEF W
      <4> QED BY <3>6, <3>9, <4>1, Regroup
    <3> HIDE DEF W
    <3>12. Over(f, U) = Over(h, W(U)) BY <3>2, <3>4, <3>6, <3>8, <3>9, <3>10
    <3> QED BY <3>12
  <2> QED BY <2>1, <2>2
<1>2. S \in Fine
  <2> HIDE DEF Fine
  <2> QED BY <1>1, SetInduction
<1>3. T = W(S) OBVIOUS
<1> QED BY <1>2, <1>3

-----------------------------------------------------------------------------
(* Sums of integers.                                                       *)
Adds == Typ = Int /\ Base = 0 /\ \A a, b : Op(a, b) = a + b

LEMMA AddsLaws == Adds => Laws /\ Idle
BY DEF Adds, Laws, Idle

LEMMA SumType ==
    ASSUME Adds, NEW S, IsFiniteSet(S), NEW f, \A x \in S : f[x] \in Int
    PROVE  Over(f, S) \in Int
BY AddsLaws, OverType DEF Adds

LEMMA SumAny ==
    ASSUME Adds, NEW S, IsFiniteSet(S), NEW f, \A x \in S : f[x] \in Int, NEW x \in S
    PROVE  Over(f, S) = f[x] + Over(f, S \ {x})
BY AddsLaws, OverAny DEF Adds

LEMMA SumLess ==
    ASSUME Adds, NEW S, IsFiniteSet(S), NEW f, NEW h,
           \A x \in S : f[x] \in Int /\ h[x] \in Int /\ f[x] <= h[x]
    PROVE  Over(f, S) <= Over(h, S)
<1> DEFINE R == {e \in Int \X Int : e[1] <= e[2]}
<1>1. <<Base, Base>> \in R BY DEF Adds
<1>2. ASSUME NEW x \in S, NEW a, NEW b, <<a, b>> \in R
      PROVE  <<Op(f[x], a), Op(h[x], b)>> \in R
  <2>1. a \in Int /\ b \in Int /\ a <= b BY <1>2
  <2>2. f[x] + a \in Int /\ h[x] + b \in Int /\ f[x] + a <= h[x] + b BY <2>1
  <2> QED BY <2>2 DEF Adds
<1>3. <<Over(f, S), Over(h, S)>> \in R
  <2> HIDE DEF R
  <2> QED BY <1>1, <1>2, OverRelated
<1> QED BY <1>3

\* A factor comes out of a sum.
LEMMA SumScaled ==
    ASSUME Adds, NEW S, IsFiniteSet(S), NEW f, NEW h, NEW c \in Int,
           \A x \in S : f[x] \in Int /\ h[x] = c * f[x]
    PROVE  Over(h, S) = c * Over(f, S)
<1> DEFINE R == {e \in Int \X Int : e[2] = c * e[1]}
<1>1. <<Base, Base>> \in R BY DEF Adds
<1>2. ASSUME NEW x \in S, NEW a, NEW b, <<a, b>> \in R
      PROVE  <<Op(f[x], a), Op(h[x], b)>> \in R
  <2>1. a \in Int /\ b \in Int /\ b = c * a BY <1>2
  <2>2. f[x] \in Int /\ h[x] = c * f[x] OBVIOUS
  <2>3. h[x] + b = c * (f[x] + a) BY <2>1, <2>2
  <2>4. f[x] + a \in Int /\ h[x] + b \in Int BY <2>1, <2>2
  <2> QED BY <2>3, <2>4 DEF Adds
<1>3. <<Over(f, S), Over(h, S)>> \in R
  <2> HIDE DEF R
  <2> QED BY <1>1, <1>2, OverRelated
<1> QED BY <1>3

LEMMA SumOfSums ==
    ASSUME Adds, NEW S, IsFiniteSet(S), NEW f, NEW g, NEW h,
           \A x \in S : f[x] \in Int /\ g[x] \in Int /\ h[x] = f[x] + g[x]
    PROVE  Over(h, S) = Over(f, S) + Over(g, S)
<1> DEFINE Fine == {U \in SUBSET S : Over(h, U) = Over(f, U) + Over(g, U)}
<1>1. ASSUME NEW U \in SUBSET S, \A V \in SUBSET U : V # U => V \in Fine
      PROVE  U \in Fine
  <2>1. CASE U = {} BY <2>1, OverEmpty DEF Adds
  <2>2. CASE U # {}
    <3> DEFINE c == Chosen(U)
               V == Rest(U)
    <3>1. c \in S /\ V \in SUBSET S /\ V \in Fine BY <1>1, <2>2, ChosenFacts
    <3>2. IsFiniteSet(U) /\ IsFiniteSet(V) BY <3>1, FS_Subset
    <3>3. /\ Over(f, U) = f[c] + Over(f, V)
          /\ Over(g, U) = g[c] + Over(g, V)
          /\ Over(h, U) = h[c] + Over(h, V)
      BY <2>2, <3>2, OverStep DEF Adds
    <3>4. Over(f, V) \in Int /\ Over(g, V) \in Int
      <4>1. \A x \in V : f[x] \in Int /\ g[x] \in Int BY <3>1
      <4> HIDE DEF V
      <4> QED BY <3>2, <4>1, SumType
    <3>5. Over(h, V) = Over(f, V) + Over(g, V) BY <3>1
    <3>6. f[c] \in Int /\ g[c] \in Int /\ h[c] = f[c] + g[c] BY <3>1
    <3> HIDE DEF c, V
    <3>7. Over(h, U) = Over(f, U) + Over(g, U) BY <3>3, <3>4, <3>5, <3>6
    <3> QED BY <3>7
  <2> QED BY <2>1, <2>2
<1>2. S \in Fine
  <2> HIDE DEF Fine
  <2> QED BY <1>1, SetInduction
<1> QED BY <1>2

LEMMA SumOfConstant ==
    ASSUME Adds, NEW S, IsFiniteSet(S), NEW f, NEW c \in Int, \A x \in S : f[x] = c
    PROVE  Over(f, S) = c * Cardinality(S)
<1> DEFINE Fine == {U \in SUBSET S : Over(f, U) = c * Cardinality(U)}
<1>1. ASSUME NEW U \in SUBSET S, \A V \in SUBSET U : V # U => V \in Fine
      PROVE  U \in Fine
  <2>1. CASE U = {}
    <3>1. Over(f, U) = 0 /\ Cardinality(U) = 0 BY <2>1, OverEmpty, FS_EmptySet DEF Adds
    <3> QED BY <3>1
  <2>2. CASE U # {}
    <3> DEFINE d == Chosen(U)
               V == Rest(U)
    <3>1. d \in U /\ V \in Fine /\ V = U \ {d} BY <1>1, <2>2, ChosenFacts DEF Rest
    <3>2. IsFiniteSet(U) /\ IsFiniteSet(V) BY <3>1, FS_Subset
    <3>3. Over(f, U) = f[d] + Over(f, V) BY <2>2, <3>2, OverStep DEF Adds
    <3>4. Cardinality(V) = Cardinality(U) - 1 BY <3>1, <3>2, FS_RemoveElement
    <3>5. Cardinality(U) \in Nat BY <3>2, FS_CardinalityType
    <3>6. f[d] = c /\ Over(f, V) = c * Cardinality(V) BY <3>1
    <3> HIDE DEF d, V
    <3>7. Over(f, U) = c * Cardinality(U) BY <3>3, <3>4, <3>5, <3>6
    <3> QED BY <3>7
  <2> QED BY <2>1, <2>2
<1>2. S \in Fine
  <2> HIDE DEF Fine
  <2> QED BY <1>1, SetInduction
<1> QED BY <1>2

\* Sums of values that lie within c of each other, the first s times as fine.
LEMMA SumsApart ==
    ASSUME Adds, NEW S, IsFiniteSet(S), NEW f, NEW h, NEW s \in Int, NEW c \in Int,
           \A x \in S : /\ f[x] \in Int /\ h[x] \in Int
                        /\ s * f[x] <= h[x] + c /\ h[x] <= s * f[x] + c
    PROVE  /\ s * Over(f, S) <= Over(h, S) + c * Cardinality(S)
           /\ Over(h, S) <= s * Over(f, S) + c * Cardinality(S)
<1> DEFINE k == [x \in S |-> c]
           sf == [x \in S |-> s * f[x]]
           above == [x \in S |-> h[x] + k[x]]
           beyond == [x \in S |-> sf[x] + k[x]]
<1>1. Over(k, S) = c * Cardinality(S) BY SumOfConstant
<1>2. Over(sf, S) = s * Over(f, S) BY SumScaled
<1>3. \A x \in S : /\ k[x] \in Int /\ sf[x] \in Int /\ h[x] \in Int
                   /\ above[x] = h[x] + k[x] /\ beyond[x] = sf[x] + k[x]
                   /\ above[x] \in Int /\ beyond[x] \in Int
                   /\ sf[x] <= above[x] /\ h[x] <= beyond[x]
  OBVIOUS
<1> HIDE DEF k, sf, above, beyond
<1>4. Over(above, S) = Over(h, S) + Over(k, S) BY <1>3, SumOfSums
<1>5. Over(beyond, S) = Over(sf, S) + Over(k, S) BY <1>3, SumOfSums
<1>6. Over(sf, S) <= Over(above, S) /\ Over(h, S) <= Over(beyond, S) BY <1>3, SumLess
<1> QED BY <1>1, <1>2, <1>4, <1>5, <1>6

\* The order of a double sum.
LEMMA SumsExchanged ==
    ASSUME Adds, NEW A, NEW B, IsFiniteSet(A), IsFiniteSet(B),
           NEW f, \A a \in A : \A b \in B : f[a][b] \in Int
    PROVE  Over([a \in A |-> Over(f[a], B)], A)
             = Over([b \in B |-> Over([a \in A |-> f[a][b]], A)], B)
<1> DEFINE rows == [a \in A |-> Over(f[a], B)]
           column(b) == [a \in A |-> f[a][b]]
           columns(U) == [b \in B |-> Over(column(b), U)]
           Fine == {U \in SUBSET A : Over(rows, U) = Over(columns(U), B)}
<1>1. ASSUME NEW U \in SUBSET A, NEW b \in B PROVE Over(column(b), U) \in Int
  <2>1. IsFiniteSet(U) BY FS_Subset
  <2>2. \A a \in U : column(b)[a] \in Int OBVIOUS
  <2> HIDE DEF column
  <2> QED BY <2>1, <2>2, SumType
<1>2. ASSUME NEW a \in A PROVE rows[a] = Over(f[a], B) /\ rows[a] \in Int
  <2>1. \A b \in B : f[a][b] \in Int OBVIOUS
  <2> QED BY <2>1, SumType
<1>3. ASSUME NEW U \in SUBSET A, \A V \in SUBSET U : V # U => V \in Fine
      PROVE  U \in Fine
  <2>1. CASE U = {}
    <3>1. Over(rows, U) = 0 BY <2>1, OverEmpty DEF Adds
    <3>2. \A b \in B : columns(U)[b] = 0 BY <2>1, OverEmpty DEF Adds
    <3>3. Over(columns(U), B) = 0 * Cardinality(B)
      <4> HIDE DEF columns
      <4> QED BY <3>2, SumOfConstant
    <3>4. Cardinality(B) \in Nat BY FS_CardinalityType
    <3> QED BY <3>1, <3>3, <3>4
  <2>2. CASE U # {}
    <3> DEFINE c == Chosen(U)
               V == Rest(U)
    <3>1. c \in A /\ V \in SUBSET A /\ V \in Fine BY <1>3, <2>2, ChosenFacts
    <3>2. IsFiniteSet(U) BY FS_Subset
    <3>3. Over(rows, U) = rows[c] + Over(rows, V) BY <2>2, <3>2, OverStep DEF Adds
    <3>4. ASSUME NEW b \in B
          PROVE  /\ f[c][b] \in Int /\ columns(V)[b] \in Int
                 /\ columns(U)[b] = f[c][b] + columns(V)[b]
      <4>1. Over(column(b), U) = column(b)[c] + Over(column(b), V)
        <5> HIDE DEF column
        <5> QED BY <2>2, <3>2, OverStep DEF Adds
      <4>2. Over(column(b), V) \in Int
        <5> HIDE DEF column, V
        <5> QED BY <1>1, <3>1
      <4>3. column(b)[c] = f[c][b] /\ f[c][b] \in Int BY <3>1
      <4> HIDE DEF column, c, V
      <4> QED BY <4>1, <4>2, <4>3
    <3> HIDE DEF c, V, columns, rows
    <3>5. Over(columns(U), B) = Over(f[c], B) + Over(columns(V), B) BY <3>4, SumOfSums
    <3>6. rows[c] = Over(f[c], B) BY <1>2, <3>1
    <3>7. Over(rows, V) = Over(columns(V), B) BY <3>1
    <3> QED BY <3>3, <3>5, <3>6, <3>7
  <2> QED BY <2>1, <2>2
<1>4. A \in Fine
  <2> HIDE DEF Fine
  <2> QED BY <1>3, SetInduction
<1> QED BY <1>4

\* A square is at most its weighted squares times the weights.
LEMMA CauchyStep ==
    ASSUME NEW s \in Int, NEW p \in Nat, NEW q \in Nat, s * s <= p * q,
           NEW w \in Int, NEW u \in Nat, u * u = w * w, NEW e \in Int
    PROVE  (w * e + s) * (w * e + s) <= (u + p) * (u * (e * e) + q)
<1> DEFINE ee == e * e
           k == q + p * ee
           t == e * s
<1>1. ee \in Nat /\ k \in Nat /\ t \in Int OBVIOUS
<1>2. t * t <= ee * (p * q)
  <2>1. t * t = ee * (s * s) OBVIOUS
  <2>2. ee * (s * s) <= ee * (p * q)
    <3> HIDE DEF ee
    <3>1. s * s \in Nat /\ p * q \in Nat OBVIOUS
    <3>2. \A i, j, l \in Nat : i <= j => l * i <= l * j OBVIOUS
    <3> QED BY <1>1, <3>1, <3>2
  <2> QED BY <2>1, <2>2
<1>3. 4 * (ee * (p * q)) <= k * k
  <2> DEFINE z == p * ee
  <2>1. z \in Nat BY <1>1
  <2>2. ee * (p * q) = z * q BY <1>1
  <2>3. k = q + z OBVIOUS
  <2> HIDE DEF ee, k, z
  <2>4. 0 <= (q - z) * (q - z) BY <2>1
  <2>5. (q + z) * (q + z) = (q - z) * (q - z) + 4 * (z * q) BY <2>1
  <2> QED BY <2>1, <2>2, <2>3, <2>4, <2>5
<1>4. (2 * t) * (2 * t) <= k * k
  <2> HIDE DEF ee, k, t
  <2>1. (2 * t) * (2 * t) = 4 * (t * t) BY <1>1
  <2> QED BY <1>1, <1>2, <1>3, <2>1
<1>5. 2 * t <= k /\ -(2 * t) <= k
  <2> HIDE DEF k, t
  <2>1. \A i \in Int : \A j \in Nat : i * i <= j * j => i <= j /\ -i <= j
    <3> SUFFICES ASSUME NEW i \in Int, NEW j \in Nat, i > j \/ -i > j
                 PROVE  i * i > j * j
      OBVIOUS
    <3> QED OBVIOUS
  <2> QED BY <1>1, <1>4, <2>1
<1>6. 2 * (w * t) <= u * k
  <2> HIDE DEF k, t
  <2>1. w = u \/ w = -u OBVIOUS
  <2>2. CASE w = u BY <1>1, <1>5, <2>2
  <2>3. CASE w = -u BY <1>1, <1>5, <2>3
  <2> QED BY <2>1, <2>2, <2>3
<1>7. (w * e + s) * (w * e + s) = (w * w) * ee + 2 * (w * t) + s * s OBVIOUS
<1>8. (u + p) * (u * ee + q) = (u * u) * ee + u * k + p * q OBVIOUS
<1> QED
  <2> DEFINE a == (w * w) * ee
             b == 2 * (w * t)
             c == u * k
  <2>1. a \in Int /\ b \in Int /\ c \in Int OBVIOUS
  <2>2. (w * e + s) * (w * e + s) = a + b + s * s BY <1>7
  <2>3. (u + p) * (u * (e * e) + q) = a + c + p * q BY <1>8
  <2>4. b <= c BY <1>6
  <2> HIDE DEF a, b, c
  <2> QED BY <2>1, <2>2, <2>3, <2>4

LEMMA WeightedCauchy ==
    ASSUME Adds, NEW S, IsFiniteSet(S), NEW f, NEW g, NEW h, NEW w, NEW e,
           \A i \in S : /\ w[i] \in Int /\ e[i] \in Int /\ f[i] = w[i] * e[i]
                        /\ g[i] \in Nat /\ g[i] * g[i] = w[i] * w[i]
                        /\ h[i] = g[i] * (e[i] * e[i])
    PROVE  /\ Over(f, S) \in Int /\ Over(g, S) \in Nat /\ Over(h, S) \in Nat
           /\ Over(f, S) * Over(f, S) <= Over(g, S) * Over(h, S)
<1> DEFINE Fine == {U \in SUBSET S :
               /\ Over(f, U) \in Int /\ Over(g, U) \in Nat /\ Over(h, U) \in Nat
               /\ Over(f, U) * Over(f, U) <= Over(g, U) * Over(h, U)}
<1>1. ASSUME NEW U \in SUBSET S, \A V \in SUBSET U : V # U => V \in Fine
      PROVE  U \in Fine
  <2>1. CASE U = {}
    <3>1. Over(f, U) = 0 /\ Over(g, U) = 0 /\ Over(h, U) = 0 BY <2>1, OverEmpty DEF Adds
    <3> QED BY <3>1
  <2>2. CASE U # {}
    <3> DEFINE c == Chosen(U)
               V == Rest(U)
    <3>1. c \in S /\ V \in Fine BY <1>1, <2>2, ChosenFacts
    <3>2. IsFiniteSet(U) BY FS_Subset
    <3>3. /\ Over(f, U) = f[c] + Over(f, V)
          /\ Over(g, U) = g[c] + Over(g, V)
          /\ Over(h, U) = h[c] + Over(h, V)
      BY <2>2, <3>2, OverStep DEF Adds
    <3>4. /\ Over(f, V) \in Int /\ Over(g, V) \in Nat /\ Over(h, V) \in Nat
          /\ Over(f, V) * Over(f, V) <= Over(g, V) * Over(h, V)
      BY <3>1
    <3>5. /\ w[c] \in Int /\ e[c] \in Int /\ f[c] = w[c] * e[c]
          /\ g[c] \in Nat /\ g[c] * g[c] = w[c] * w[c]
          /\ h[c] = g[c] * (e[c] * e[c])
      BY <3>1
    <3> HIDE DEF c, V
    <3>6. Over(f, U) * Over(f, U) <= Over(g, U) * Over(h, U)
      <4>1. (w[c] * e[c] + Over(f, V)) * (w[c] * e[c] + Over(f, V))
               <= (g[c] + Over(g, V)) * (g[c] * (e[c] * e[c]) + Over(h, V))
        BY <3>4, <3>5, CauchyStep
      <4> QED BY <3>3, <3>5, <4>1
    <3>7. h[c] \in Nat /\ f[c] \in Int BY <3>5
    <3> QED BY <3>3, <3>4, <3>5, <3>6, <3>7
  <2> QED BY <2>1, <2>2
<1>2. S \in Fine
  <2> HIDE DEF Fine
  <2> QED BY <1>1, SetInduction
<1> QED BY <1>2

-----------------------------------------------------------------------------
(* Maxima of integers, 0 if there is none.                                 *)
Maximises == Typ = Int /\ Base = 0 /\ \A a, b : Op(a, b) = IF a < b THEN b ELSE a

LEMMA MaximisesLaws == Maximises => Laws
BY DEF Maximises, Laws

LEMMA MaximumType ==
    ASSUME Maximises, NEW S, IsFiniteSet(S), NEW f, \A x \in S : f[x] \in Int
    PROVE  Over(f, S) \in Nat
<1>1. Base \in Nat BY DEF Maximises
<1>2. \A x \in S : \A a \in Nat : Op(f[x], a) \in Nat BY DEF Maximises
<1> QED BY <1>1, <1>2, OverStays

LEMMA MaximumIsAbove ==
    ASSUME Maximises, NEW S, IsFiniteSet(S), NEW f, \A x \in S : f[x] \in Int
    PROVE  \A x \in S : f[x] <= Over(f, S)
<1> SUFFICES ASSUME NEW x \in S PROVE f[x] <= Over(f, S) OBVIOUS
<1>1. Over(f, S) = Op(f[x], Over(f, S \ {x})) BY MaximisesLaws, OverAny DEF Maximises
<1>2. Over(f, S \ {x}) \in Nat
  <2>1. IsFiniteSet(S \ {x}) BY FS_Subset
  <2>2. \A z \in S \ {x} : f[z] \in Int OBVIOUS
  <2> QED BY <2>1, <2>2, MaximumType
<1> QED BY <1>1, <1>2 DEF Maximises

LEMMA MaximumIsLeast ==
    ASSUME Maximises, NEW S, IsFiniteSet(S), NEW f, NEW c \in Nat,
           \A x \in S : f[x] \in Int /\ f[x] <= c
    PROVE  Over(f, S) <= c
<1>1. Base \in 0 .. c BY DEF Maximises
<1>2. \A x \in S : \A a \in 0 .. c : Op(f[x], a) \in 0 .. c BY DEF Maximises
<1>3. Over(f, S) \in 0 .. c BY <1>1, <1>2, OverStays
<1> QED BY <1>3
=============================================================================
