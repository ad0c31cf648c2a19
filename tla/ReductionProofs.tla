-------------------------- MODULE ReductionProofs --------------------------
(***************************************************************************)
(* The kernels of dot and norm_inf are free of data races, and the calls   *)
(* return the totals of their vectors, for blocks of every size and        *)
(* vectors of every length.                                                *)
(***************************************************************************)
EXTENDS ReductionProperties, FiniteSetTheorems, TLAPS

\* The threads of a launch have their part in the buffer and their cell in
\* shared memory.
Launched ==
    /\ host = "idle" => threads = {}
    /\ threads \subseteq (DOMAIN buffer) \X (0 .. Block - 1)
    /\ place \in [threads -> {"load", "level", "fetched", "done"}]
    /\ arrived \in [threads -> Nat] /\ stride \in [threads -> Nat]

\* A thread on its own: where it is, how far it has come, and its stride.
OnItsOwn(d) ==
    /\ place[d] = "load" <=> arrived[d] = 0
    /\ stride[d] <= Block \div 2
    /\ arrived[d] = 0 => stride[d] = Block \div 2
    /\ place[d] = "fetched" => tid(d) < stride[d] /\ Synchronised(d)

\* Two threads of a block are never more than a barrier apart, and the one
\* that is ahead has the next stride.
NextStride(d) == IF arrived[d] = 0 THEN stride[d] ELSE stride[d] \div 2
Together(d, e) ==
    /\ arrived[e] <= arrived[d] + 1
    /\ arrived[e] = arrived[d] => stride[e] = stride[d]
    /\ arrived[e] = arrived[d] + 1 => stride[e] = NextStride(d)

InStep ==
    /\ Launched
    /\ \A d \in threads : OnItsOwn(d) /\ \A e \in Peers(d) : Together(d, e)

LEMMA StartInStep == Init => InStep
BY DEF Init, InStep, Launched

-----------------------------------------------------------------------------
\* A thread that passes a barrier, its stride halved or, before the first,
\* kept, stays in step with its block.
LEMMA BarrierInStep ==
    ASSUME InStep, NEW d \in threads,
           place[d] # "done", place[d] = "load" \/ Synchronised(d),
           ReachBarrier(d),
           stride' = [stride EXCEPT ![d] = NextStride(d)],
           UNCHANGED <<threads, host>>, DOMAIN buffer' = DOMAIN buffer
    PROVE  InStep'
<1> USE ReductionAssumption
<1>1. /\ place' \in [threads -> {"load", "level", "fetched", "done"}]
      /\ arrived' \in [threads -> Nat] /\ stride' \in [threads -> Nat]
      /\ arrived'[d] = arrived[d] + 1 /\ place'[d] = "level" /\ stride'[d] = NextStride(d)
      /\ \A e \in threads : e # d =>
            arrived'[e] = arrived[e] /\ place'[e] = place[e] /\ stride'[e] = stride[e]
  BY DEF InStep, Launched, ReachBarrier, NextStride
<1>2. Launched'
  <2>1. /\ threads' = threads /\ host' = host
        /\ threads \subseteq (DOMAIN buffer) \X (0 .. Block - 1)
        /\ host = "idle" => threads = {}
    BY DEF InStep, Launched
  <2>2. threads' \subseteq (DOMAIN buffer') \X (0 .. Block - 1)
    BY <2>1
  <2> QED BY <1>1, <2>1, <2>2 DEF Launched
<1>3. ASSUME NEW e \in threads
      PROVE  arrived'[e] >= arrived[e] /\ arrived[e] \in Nat /\ stride[e] \in Nat
  <2>1. arrived \in [threads -> Nat] /\ stride \in [threads -> Nat]
    BY DEF InStep, Launched
  <2>2. arrived[e] \in Nat /\ stride[e] \in Nat
    BY <2>1
  <2> QED BY <1>1, <2>2
<1>4. ASSUME NEW e \in Peers(d)
      PROVE  arrived[e] >= arrived[d]
  BY <1>3, <1>4 DEF Synchronised, Peers, InStep, OnItsOwn
<1>5. ASSUME NEW e \in threads
      PROVE  OnItsOwn(e)'
  <2>1. Peers(e)' = Peers(e)
    BY DEF Peers, BlockOf
  <2>2. CASE e = d
    BY <1>1, <1>3, <2>2 DEF InStep, OnItsOwn, NextStride
  <2>3. CASE e # d
    <3>1. Synchronised(e) => Synchronised(e)'
      BY <1>1, <1>3, <2>1, <2>3 DEF Synchronised, Peers
    <3> QED BY <1>1, <2>3, <3>1 DEF InStep, OnItsOwn, tid
  <2> QED BY <2>2, <2>3
<1>6. ASSUME NEW e \in threads, NEW f \in Peers(e)
      PROVE  Together(e, f)'
  <2>1. f \in threads /\ e \in Peers(f)
    BY <1>6 DEF Peers
  <2>2. Together(e, f) /\ Together(f, e)
    BY <1>6, <2>1 DEF InStep
  <2>3. CASE e = d /\ f = d
    BY <1>1, <1>3, <2>3 DEF Together
  <2>4. CASE e = d /\ f # d
    <3>1. arrived[f] >= arrived[d]
      BY <1>4, <1>6, <2>4
    <3> QED BY <1>1, <1>3, <2>1, <2>2, <2>4, <3>1 DEF Together, NextStride
  <2>5. CASE e # d /\ f = d
    <3>1. arrived[e] >= arrived[d]
      BY <1>4, <2>1, <2>5
    <3> QED BY <1>1, <1>3, <2>1, <2>2, <2>5, <3>1 DEF Together, NextStride
  <2>6. CASE e # d /\ f # d
    BY <1>1, <2>1, <2>2, <2>6 DEF Together, NextStride
  <2> QED BY <2>3, <2>4, <2>5, <2>6
<1>7. \A e \in threads : Peers(e)' = Peers(e)
  BY DEF Peers, BlockOf
<1> QED BY <1>2, <1>5, <1>6, <1>7 DEF InStep

\* A thread that only changes its place, not to "load" and to "fetched" only
\* where it may, stays in step.
LEMMA PlaceInStep ==
    ASSUME InStep, NEW d \in threads, NEW there \in {"fetched", "done"},
           place[d] = "level", Synchronised(d),
           there = "fetched" => tid(d) < stride[d],
           place' = [place EXCEPT ![d] = there],
           UNCHANGED <<threads, host, arrived, stride>>, DOMAIN buffer' = DOMAIN buffer
    PROVE  InStep'
<1>1. Launched'
  <2>1. /\ threads' = threads /\ host' = host
        /\ threads \subseteq (DOMAIN buffer) \X (0 .. Block - 1)
        /\ host = "idle" => threads = {}
    BY DEF InStep, Launched
  <2>2. threads' \subseteq (DOMAIN buffer') \X (0 .. Block - 1)
    BY <2>1
  <2>3. place' \in [threads' -> {"load", "level", "fetched", "done"}]
    BY <2>1 DEF InStep, Launched
  <2> QED BY <2>1, <2>2, <2>3 DEF Launched, InStep
<1>2. \A e \in threads : Peers(e)' = Peers(e)
  BY DEF Peers, BlockOf
<1>3. \A e \in threads : Synchronised(e)' <=> Synchronised(e)
  BY <1>2 DEF Synchronised
<1>4. ASSUME NEW e \in threads PROVE OnItsOwn(e)'
  <2>1. place'[e] = IF e = d THEN there ELSE place[e]
    BY DEF InStep, Launched
  <2> QED BY <1>3, <2>1 DEF InStep, OnItsOwn, tid
<1>5. \A e \in threads : \A f \in Peers(e) : Together(e, f)'
  BY DEF InStep, Together, NextStride
<1> QED BY <1>1, <1>2, <1>4, <1>5 DEF InStep
-----------------------------------------------------------------------------
LEMMA LaunchInStep == InStep /\ Launch => InStep'
<1> SUFFICES ASSUME InStep, Launch PROVE InStep'
  OBVIOUS
<1> USE ReductionAssumption
<1>1. /\ threads' = Required \X (0 .. Block - 1) /\ host' = "waiting"
      /\ place' = [d \in threads' |-> "load"]
      /\ arrived' = [d \in threads' |-> 0]
      /\ stride' = [d \in threads' |-> Block \div 2]
  BY DEF Launch
<1>2. Required \subseteq DOMAIN buffer'
  BY DEF Launch, EnsureCapacity
<1>3. Block \div 2 \in Nat
  OBVIOUS
<1>4. Launched'
  <2>1. threads' \subseteq (DOMAIN buffer') \X (0 .. Block - 1)
    BY <1>1, <1>2
  <2> QED BY <1>1, <1>3, <2>1 DEF Launched
<1>5. \A d \in threads' : OnItsOwn(d)'
  BY <1>1, <1>3 DEF OnItsOwn
<1>6. \A d, e \in threads' : Together(d, e)'
  BY <1>1, <1>3 DEF Together, NextStride
<1>7. \A d \in threads' : Peers(d)' \subseteq threads'
  BY DEF Peers
<1> QED BY <1>4, <1>5, <1>6, <1>7 DEF InStep

\* A thread's step is a barrier passed or a change of its place.
LEMMA ThreadInStep ==
    ASSUME InStep, NEW d \in threads, Thread(d)
    PROVE  InStep'
<1> USE ReductionAssumption
<1>1. /\ stride \in [threads -> Nat] /\ arrived \in [threads -> Nat]
      /\ place[d] = "load" <=> arrived[d] = 0
  BY DEF InStep, Launched, OnItsOwn
<1>2. CASE Load(d)
  <2>1. stride' = [stride EXCEPT ![d] = NextStride(d)]
    BY <1>1, <1>2 DEF Load, NextStride
  <2> QED BY <1>2, <2>1, BarrierInStep DEF Load
<1>3. CASE Skip(d)
  <2>1. place[d] = "level" /\ Synchronised(d) /\ ReachBarrier(d)
        /\ stride' = [stride EXCEPT ![d] = NextStride(d)]
    BY <1>1, <1>3 DEF Skip, AtLevel, Halve, NextStride
  <2> QED BY <1>3, <2>1, BarrierInStep DEF Skip
<1>4. CASE Fetch(d)
  BY <1>4, PlaceInStep DEF Fetch, AtLevel
<1>5. CASE Store(d)
  <2>1. place[d] = "fetched" /\ Synchronised(d) /\ ReachBarrier(d)
        /\ stride' = [stride EXCEPT ![d] = NextStride(d)]
    BY <1>1, <1>5 DEF Store, Halve, NextStride, InStep, OnItsOwn
  <2> QED BY <1>5, <2>1, BarrierInStep DEF Store
<1>6. CASE Exit(d)
  <2>1. DOMAIN buffer' = DOMAIN buffer
    BY <1>6 DEF Exit
  <2> QED BY <1>6, <2>1, PlaceInStep DEF Exit
<1> QED BY <1>2, <1>3, <1>4, <1>5, <1>6 DEF Thread

\* Steps that leave the threads alone, or find none, or take them away.
LEMMA HostInStep == InStep /\ (Host \/ Spin \/ UNCHANGED vars) => InStep'
<1> SUFFICES ASSUME InStep, Host \/ Spin \/ UNCHANGED vars PROVE InStep'
  OBVIOUS
<1>1. ASSUME UNCHANGED <<host, buffer, kernel>> PROVE InStep'
  <2>1. Launched'
    BY <1>1 DEF kernel, InStep, Launched
  <2>2. /\ \A d \in threads : Peers(d)' = Peers(d)
        /\ \A d \in threads : OnItsOwn(d)' <=> OnItsOwn(d)
        /\ \A d, e \in threads : Together(d, e)' <=> Together(d, e)
    BY <1>1 DEF kernel, Peers, OnItsOwn, Synchronised, Together, NextStride, tid, BlockOf
  <2>3. threads' = threads /\ \A d \in threads : Peers(d) \subseteq threads
    BY <1>1 DEF kernel, Peers
  <2> QED BY <2>1, <2>2, <2>3 DEF InStep
<1>2. ASSUME threads' = {}, place' = <<>>, arrived' = <<>>, stride' = <<>>
      PROVE  InStep'
  <2>1. /\ place' \in [{} -> {"load", "level", "fetched", "done"}]
        /\ arrived' \in [{} -> Nat] /\ stride' \in [{} -> Nat]
    BY <1>2
  <2> QED BY <1>2, <2>1 DEF InStep, Launched
<1>3. CASE ReturnZero \/ CountOverflows \/ AllocationFails \/ Spin \/ UNCHANGED vars
  BY <1>1, <1>3 DEF ReturnZero, CountOverflows, AllocationFails, Spin, vars
<1>4. CASE LaunchFails
  <2>1. threads = {} /\ UNCHANGED <<host, kernel>>
    BY <1>4 DEF LaunchFails, Calling, InStep, Launched
  <2> QED BY <2>1 DEF kernel, InStep, Launched
<1>5. CASE Launch
  BY <1>5, LaunchInStep
<1>6. CASE CopyBack \/ CopyFails
  BY <1>6, <1>2 DEF CopyBack, CopyFails, CallEnds
<1> QED BY <1>3, <1>4, <1>5, <1>6 DEF Host

LEMMA StepInStep == InStep /\ [Next]_vars => InStep'
BY ThreadInStep, HostInStep DEF Next

-----------------------------------------------------------------------------
\* Threads between the same two barriers have the same stride, and below it
\* nobody reads another's cell.
LEMMA InStepIsRaceFree == InStep => NoDataRace
<1> SUFFICES ASSUME InStep, NEW d \in threads
             PROVE  /\ BlockOf(d) \in DOMAIN buffer
                    /\ Between(d) => Reads(d) \cup Writes(d) \subseteq 0 .. Block - 1
                    /\ \A e \in Peers(d) \ {d} : Between(d) /\ Between(e) =>
                          Writes(d) \cap (Reads(e) \cup Writes(e)) = {}
  BY DEF NoDataRace
<1> USE ReductionAssumption
<1>1. \A e \in threads :
        /\ e = <<BlockOf(e), tid(e)>> /\ BlockOf(e) \in DOMAIN buffer
        /\ tid(e) \in 0 .. Block - 1
        /\ stride[e] \in Nat /\ stride[e] <= Block \div 2 /\ arrived[e] \in Nat
        /\ place[e] = "load" <=> arrived[e] = 0
  BY DEF InStep, Launched, OnItsOwn, BlockOf, tid
<1>2. Between(d) => Reads(d) \cup Writes(d) \subseteq 0 .. Block - 1
  <2>1. tid(d) < stride[d] => tid(d) + stride[d] \in 0 .. Block - 1
    BY <1>1
  <2> QED BY <1>1, <2>1 DEF Reads, Writes, Folds
<1>3. ASSUME NEW e \in Peers(d) \ {d}, Between(d), Between(e)
      PROVE  Writes(d) \cap (Reads(e) \cup Writes(e)) = {}
  <2>1. e \in threads /\ d \in Peers(e) /\ tid(e) # tid(d)
    BY <1>1, <1>3 DEF Peers
  <2>2. \A f \in threads : Between(f) => \A g \in Peers(f) : arrived[g] >= arrived[f]
    <3> SUFFICES ASSUME NEW f \in threads, Between(f), NEW g \in Peers(f)
                 PROVE  arrived[g] >= arrived[f]
      OBVIOUS
    <3>1. g \in threads
      BY DEF Peers
    <3> QED BY <1>1, <3>1 DEF Between, Synchronised, InStep, OnItsOwn
  <2>3. arrived[e] = arrived[d]
    BY <1>1, <1>3, <2>1, <2>2
  <2>4. stride[e] = stride[d] /\ (place[e] = "load" <=> place[d] = "load")
    BY <1>1, <1>3, <2>1, <2>3 DEF InStep, Together
  <2>5. /\ Writes(d) \subseteq {tid(d)} /\ Writes(e) \subseteq {tid(e)}
        /\ tid(d) \in Writes(d) /\ place[d] # "load" => tid(d) < stride[d]
    BY DEF Writes, Folds
  <2>6. tid(d) \in Writes(d) => tid(d) \notin Reads(e)
    BY <1>1, <2>1, <2>4, <2>5 DEF Reads, Folds
  <2> QED BY <2>1, <2>5, <2>6
<1> QED BY <1>1, <1>2, <1>3

\* For every block size, every vector and every order of the threads, the
\* kernels of dot and norm_inf have no data race and stay inside their block's
\* shared memory and the buffer of parts (NoDataRace).
THEOREM KernelsAreRaceFree == Spec => []NoDataRace
BY StartInStep, StepInStep, InStepIsRaceFree, PTL DEF Spec

-----------------------------------------------------------------------------
(* The total of a set of entries: a fold of FoldTheory, for a sum and for  *)
(* a largest magnitude.                                                    *)
Plus(a, b) == a + b
Sum == INSTANCE FoldTheory WITH Typ <- Int, Op <- Plus, Base <- 0
Peak == INSTANCE FoldTheory WITH Typ <- Int, Op <- fmax, Base <- 0
Total(kind, f, S) == IF kind = "dot" THEN Sum!Over(f, S) ELSE Peak!Over(f, S)

Recursion(kind, g, f, S) ==
    g = [s \in SUBSET S |->
            IF s = {} THEN 0
            ELSE Fold(kind, f[CHOOSE x \in s : TRUE], g[s \ {CHOOSE x \in s : TRUE}])]

LEMMA FoldIsTotal ==
    ASSUME NEW call, NEW f, NEW S
    PROVE  FoldFunctionOnSet(LAMBDA a, b : Fold(call.kind, a, b), 0, f, S)
             = Total(call.kind, f, S)
<1>1. FoldFunctionOnSet(LAMBDA a, b : Fold(call.kind, a, b), 0, f, S)
        = (CHOOSE g : Recursion(call.kind, g, f, S))[S]
  BY DEF Recursion, FoldFunctionOnSet, MapThenFoldSet
<1>2. CASE call.kind = "dot"
  <2>1. \A g : Recursion(call.kind, g, f, S) <=> Sum!Folds(g, f, S)
    BY <1>2 DEF Recursion, Sum!Folds, Sum!Chosen, Sum!Rest, Fold, Plus
  <2>2. (CHOOSE g : Recursion(call.kind, g, f, S)) = (CHOOSE g : Sum!Folds(g, f, S))
    BY <2>1
  <2>3. Sum!Over(f, S) = (CHOOSE g : Sum!Folds(g, f, S))[S]
    BY Sum!OverIsThe DEF Sum!The
  <2> QED BY <1>1, <1>2, <2>2, <2>3 DEF Total
<1>3. CASE call.kind # "dot"
  <2>1. \A g : Recursion(call.kind, g, f, S) <=> Peak!Folds(g, f, S)
    BY <1>3 DEF Recursion, Peak!Folds, Peak!Chosen, Peak!Rest, Fold
  <2>2. (CHOOSE g : Recursion(call.kind, g, f, S)) = (CHOOSE g : Peak!Folds(g, f, S))
    BY <2>1
  <2>3. Peak!Over(f, S) = (CHOOSE g : Peak!Folds(g, f, S))[S]
    BY Peak!OverIsThe DEF Peak!The
  <2> QED BY <1>1, <1>3, <2>2, <2>3 DEF Total
<1> QED BY <1>2, <1>3

LEMMA PeakLaws == Peak!Laws /\ Peak!Idle
<1>1. \A a, b \in Int : fmax(a, b) \in Int /\ fmax(a, b) = fmax(b, a)
  BY DEF fmax, Larger
<1>2. \A a, b, c \in Int : fmax(a, fmax(b, c)) = fmax(fmax(a, b), c)
  BY DEF fmax, Larger
<1>3. fmax(0, 0) = 0 BY DEF fmax, Larger
<1> QED BY <1>1, <1>2, <1>3 DEF Peak!Laws, Peak!Idle
LEMMA SumLaws == Sum!Laws /\ Sum!Idle
BY DEF Sum!Laws, Sum!Idle, Plus

LEMMA FinitenessIsOne ==
    \A S : IsFiniteSet(S) => Sum!IsFiniteSet(S) /\ Peak!IsFiniteSet(S)
BY DEF IsFiniteSet, Sum!IsFiniteSet, Peak!IsFiniteSet

LEMMA FoldFacts ==
    ASSUME NEW kind, NEW a \in Int, NEW b \in Int, NEW c \in Int
    PROVE  /\ Fold(kind, a, b) \in Int /\ Fold(kind, a, b) = Fold(kind, b, a)
           /\ Fold(kind, a, Fold(kind, b, c)) = Fold(kind, Fold(kind, a, b), c)
           /\ Fold(kind, 0, 0) = 0
<1>1. CASE kind = "dot" BY <1>1 DEF Fold
<1>2. CASE kind # "dot" BY <1>2 DEF Fold, fmax, Larger
<1> QED BY <1>1, <1>2

LEMMA TotalType ==
    ASSUME NEW kind, NEW S, IsFiniteSet(S), NEW f, \A i \in S : f[i] \in Int
    PROVE  Total(kind, f, S) \in Int
<1>1. Sum!Over(f, S) \in Int BY FinitenessIsOne, SumLaws, Sum!OverType
<1>2. Peak!Over(f, S) \in Int BY FinitenessIsOne, PeakLaws, Peak!OverType
<1> QED BY <1>1, <1>2 DEF Total

LEMMA TotalOne ==
    ASSUME NEW kind, NEW i, NEW f, f[i] \in Int
    PROVE  Total(kind, f, {i}) = Fold(kind, f[i], 0)
<1>1. Sum!Over(f, {i}) = f[i] + 0 BY SumLaws, Sum!OverOne DEF Plus
<1>2. Peak!Over(f, {i}) = fmax(f[i], 0) BY PeakLaws, Peak!OverOne
<1> QED BY <1>1, <1>2 DEF Total, Fold

LEMMA TotalUnion ==
    ASSUME NEW kind, NEW A, NEW B, IsFiniteSet(A), IsFiniteSet(B), A \cap B = {},
           NEW f, \A i \in A \cup B : f[i] \in Int
    PROVE  Total(kind, f, A \cup B) = Fold(kind, Total(kind, f, A), Total(kind, f, B))
<1>1. Sum!Over(f, A \cup B) = Sum!Over(f, A) + Sum!Over(f, B)
  BY FinitenessIsOne, SumLaws, Sum!OverUnion DEF Plus
<1>2. Peak!Over(f, A \cup B) = fmax(Peak!Over(f, A), Peak!Over(f, B))
  BY FinitenessIsOne, PeakLaws, Peak!OverUnion
<1> QED BY <1>1, <1>2 DEF Total, Fold

LEMMA TotalSupport ==
    ASSUME NEW kind, NEW S, IsFiniteSet(S), NEW T \in SUBSET S,
           NEW f, \A i \in S : f[i] \in Int, \A i \in S \ T : f[i] = 0
    PROVE  Total(kind, f, S) = Total(kind, f, T)
<1>1. Sum!Over(f, S) = Sum!Over(f, T) BY FinitenessIsOne, SumLaws, Sum!OverSupport
<1>2. Peak!Over(f, S) = Peak!Over(f, T) BY FinitenessIsOne, PeakLaws, Peak!OverSupport
<1> QED BY <1>1, <1>2 DEF Total

LEMMA TotalEqual ==
    ASSUME NEW kind, NEW S, IsFiniteSet(S), NEW f, NEW g, \A i \in S : f[i] = g[i]
    PROVE  Total(kind, f, S) = Total(kind, g, S)
<1>1. Sum!Over(f, S) = Sum!Over(g, S) BY FinitenessIsOne, Sum!OverEqual
<1>2. Peak!Over(f, S) = Peak!Over(g, S) BY FinitenessIsOne, Peak!OverEqual
<1> QED BY <1>1, <1>2 DEF Total

LEMMA TotalParts ==
    ASSUME NEW kind, NEW S, IsFiniteSet(S), NEW T, IsFiniteSet(T), NEW part \in [T -> S],
           NEW class \in [S -> SUBSET T],
           \A x \in S : \A i \in T : i \in class[x] <=> part[i] = x,
           NEW h, \A i \in T : h[i] \in Int,
           NEW f, \A x \in S : f[x] \in Int /\ Fold(kind, f[x], 0) = Total(kind, h, class[x])
    PROVE  Total(kind, f, S) = Total(kind, h, T)
<1>1. CASE kind = "dot"
  <2>1. \A x \in S : f[x] \in Int /\ Plus(f[x], 0) = Sum!Over(h, class[x])
    BY <1>1 DEF Total, Fold, Plus
  <2>2. Sum!IsFiniteSet(S) /\ Sum!IsFiniteSet(T) BY FinitenessIsOne
  <2>3. Sum!Over(f, S) = Sum!Over(h, T) BY <2>1, <2>2, SumLaws, Sum!OverParts
  <2> QED BY <1>1, <2>3 DEF Total
<1>2. CASE kind # "dot"
  <2>1. \A x \in S : f[x] \in Int /\ fmax(f[x], 0) = Peak!Over(h, class[x])
    BY <1>2 DEF Total, Fold
  <2>2. Peak!IsFiniteSet(S) /\ Peak!IsFiniteSet(T) BY FinitenessIsOne
  <2>3. Peak!Laws /\ Peak!Idle /\ \A i \in T : h[i] \in Int BY PeakLaws
  <2>4. Peak!Over(f, S) = Peak!Over(h, T) BY <2>1, <2>2, <2>3, Peak!OverParts
  <2> QED BY <1>2, <2>4 DEF Total
<1> QED BY <1>1, <1>2

\* Two cells that hold the totals of disjoint sets fold to that of their union.
LEMMA CellsFold ==
    ASSUME NEW kind, NEW A, NEW B, IsFiniteSet(A), IsFiniteSet(B), A \cap B = {},
           NEW f, \A i \in A \cup B : f[i] \in Int, NEW a \in Int, NEW b \in Int,
           Fold(kind, a, 0) = Total(kind, f, A), Fold(kind, b, 0) = Total(kind, f, B)
    PROVE  /\ Fold(kind, a, b) \in Int
           /\ Fold(kind, Fold(kind, a, b), 0) = Total(kind, f, A \cup B)
<1>1. Total(kind, f, A \cup B) = Fold(kind, Fold(kind, a, 0), Fold(kind, b, 0))
  BY TotalUnion
<1>2. CASE kind = "dot" BY <1>1, <1>2 DEF Fold
<1>3. CASE kind # "dot" BY <1>1, <1>3 DEF Fold, fmax, Larger
<1> QED BY <1>2, <1>3

-----------------------------------------------------------------------------
(* The indices of a block, and those that a tree of width w brings to cell *)
(* t: the ones that leave the remainder t.                                 *)
Indices(b) == b * Block .. b * Block + Block - 1
Class(b, w, t) == {i \in Indices(b) : (i - b * Block) % w = t}
Divides(s, n) == \E m \in Nat : s * m = n

LEMMA Division ==
    ASSUME NEW w \in Nat \ {0}, NEW n \in Int
    PROVE  n \div w \in Int /\ n % w \in 0 .. w - 1 /\ n = (n \div w) * w + (n % w)
OBVIOUS

\* Division with a remainder is unique.
LEMMA RemainderIsUnique ==
    ASSUME NEW w \in Nat \ {0}, NEW q \in Int, NEW r \in 0 .. w - 1
    PROVE  (q * w + r) % w = r /\ (q * w + r) \div w = q
<1> DEFINE n == q * w + r
           p == n \div w
           c == n % w
<1>1. n \in Int OBVIOUS
<1>2. p \in Int /\ c \in 0 .. w - 1 /\ n = p * w + c
  <2> HIDE DEF n
  <2> QED BY <1>1
<1>3. ~(p < q)
  <2> SUFFICES ASSUME p < q PROVE FALSE OBVIOUS
  <2>1. (q - p) * w >= w
    <3>1. \A k \in Nat : k >= 1 => k * w >= w OBVIOUS
    <3>2. q - p \in Nat /\ q - p >= 1 BY <1>2
    <3> HIDE DEF p
    <3> QED BY <3>1, <3>2
  <2>2. (q - p) * w = q * w - p * w BY <1>2
  <2> QED BY <1>2, <2>1, <2>2
<1>4. ~(q < p)
  <2> SUFFICES ASSUME q < p PROVE FALSE OBVIOUS
  <2>1. (p - q) * w >= w
    <3>1. \A k \in Nat : k >= 1 => k * w >= w OBVIOUS
    <3>2. p - q \in Nat /\ p - q >= 1 BY <1>2
    <3> HIDE DEF p
    <3> QED BY <3>1, <3>2
  <2>2. (p - q) * w = p * w - q * w BY <1>2
  <2> QED BY <1>2, <2>1, <2>2
<1>5. p = q
  <2> HIDE DEF p
  <2> QED BY <1>2, <1>3, <1>4
<1> QED BY <1>2, <1>5

\* A class is made of two of twice its width.
LEMMA ClassSplits ==
    ASSUME NEW b \in Nat, NEW s \in Nat \ {0}, NEW t \in 0 .. s - 1
    PROVE  /\ Class(b, s, t) = Class(b, 2 * s, t) \cup Class(b, 2 * s, t + s)
           /\ Class(b, 2 * s, t) \cap Class(b, 2 * s, t + s) = {}
<1>1. ASSUME NEW j \in Int
      PROVE  j % s = t <=> (j % (2 * s) = t \/ j % (2 * s) = t + s)
  <2> DEFINE r == j % (2 * s)
             q == j \div (2 * s)
  <2>1. q \in Int /\ r \in 0 .. 2 * s - 1 /\ j = q * (2 * s) + r
    <3>1. 2 * s \in Nat \ {0} OBVIOUS
    <3> QED BY <3>1, Division
  <2> HIDE DEF r, q
  <2>2. q * (2 * s) = (2 * q) * s /\ (2 * q + 1) * s = (2 * q) * s + s BY <2>1
  <2>3. CASE r < s
    <3>1. r \in 0 .. s - 1 /\ 2 * q \in Int /\ j = (2 * q) * s + r BY <2>1, <2>2, <2>3
    <3>2. j % s = r BY <3>1, RemainderIsUnique
    <3> QED BY <2>1, <2>3, <3>2 DEF r
  <2>4. CASE r >= s
    <3>1. r - s \in 0 .. s - 1 /\ 2 * q + 1 \in Int /\ j = (2 * q + 1) * s + (r - s)
      BY <2>1, <2>2, <2>4
    <3>2. j % s = r - s BY <3>1, RemainderIsUnique
    <3> QED BY <2>1, <2>4, <3>2 DEF r
  <2> QED BY <2>1, <2>3, <2>4
<1>2. Block \in Nat /\ b * Block \in Int BY ReductionAssumption
<1>3. \A i \in Indices(b) : i - b * Block \in Int BY <1>2 DEF Indices
<1>4. t # t + s OBVIOUS
<1>5. \A i \in Indices(b) : i \in Class(b, s, t)
          <=> i \in Class(b, 2 * s, t) \/ i \in Class(b, 2 * s, t + s)
  <2> TAKE i \in Indices(b)
  <2>1. (i - b * Block) % s = t <=>
          \/ (i - b * Block) % (2 * s) = t
          \/ (i - b * Block) % (2 * s) = t + s
    BY <1>1, <1>3
  <2> QED BY <2>1 DEF Class
<1>6. \A w, r : Class(b, w, r) \subseteq Indices(b) BY DEF Class
<1>7. Class(b, 2 * s, t) \cap Class(b, 2 * s, t + s) = {} BY <1>4 DEF Class
<1> QED BY <1>5, <1>6, <1>7

\* The widest class is one index, the narrowest the whole block.
LEMMA ClassEnds ==
    ASSUME NEW b \in Nat
    PROVE  /\ \A t \in 0 .. Block - 1 : Class(b, Block, t) = {b * Block + t}
           /\ Class(b, 1, 0) = Indices(b)
<1>1. Block \in Nat \ {0} /\ b * Block \in Nat BY ReductionAssumption
<1>2. \A i \in Indices(b) : i - b * Block \in 0 .. Block - 1 BY <1>1 DEF Indices
<1>3. \A r \in 0 .. Block - 1 : r % Block = r
  <2>1. \A r \in 0 .. Block - 1 : (0 * Block + r) % Block = r BY <1>1, RemainderIsUnique
  <2>2. \A r \in 0 .. Block - 1 : 0 * Block + r = r BY <1>1
  <2> QED BY <2>1, <2>2
<1>4. ASSUME NEW t \in 0 .. Block - 1 PROVE Class(b, Block, t) = {b * Block + t}
  <2>1. b * Block + t \in Indices(b) /\ (b * Block + t) - b * Block = t BY <1>1 DEF Indices
  <2>2. \A i \in Indices(b) : (i - b * Block) % Block = t <=> i = b * Block + t
    <3> TAKE i \in Indices(b)
    <3>1. (i - b * Block) % Block = i - b * Block BY <1>2, <1>3
    <3>2. i \in Int BY <1>1 DEF Indices
    <3> QED BY <1>1, <3>1, <3>2
  <2> QED BY <2>1, <2>2 DEF Class
<1>5. \A n \in Nat : n % 1 = 0 OBVIOUS
<1>6. Class(b, 1, 0) = Indices(b)
  <2>1. \A i \in Indices(b) : (i - b * Block) % 1 = 0 BY <1>2, <1>5
  <2> QED BY <2>1 DEF Class
<1> QED BY <1>4, <1>6

LEMMA ClassesAreFinite ==
    ASSUME NEW b \in Nat, NEW w, NEW t
    PROVE  /\ IsFiniteSet(Class(b, w, t)) /\ IsFiniteSet(Indices(b))
           /\ Class(b, w, t) \subseteq Indices(b) /\ Indices(b) \subseteq Nat
<1>1. Block \in Nat \ {0} /\ b * Block \in Nat BY ReductionAssumption
<1>2. b * Block + Block - 1 \in Int BY <1>1
<1>3. IsFiniteSet(b * Block .. b * Block + Block - 1)
  <2>1. \A m, n \in Int : IsFiniteSet(m .. n) BY FS_Interval
  <2> QED BY <1>1, <1>2, <2>1
<1>4. Class(b, w, t) \subseteq Indices(b) BY DEF Class
<1>5. IsFiniteSet(Class(b, w, t)) BY <1>3, <1>4, FS_Subset DEF Indices
<1> QED BY <1>1, <1>3, <1>4, <1>5 DEF Indices

\* A stride that divides the block is 1 or even, and its half divides it too.
LEMMA StridesHalve ==
    ASSUME NEW s \in Nat \ {0}, Divides(s, Block)
    PROVE  s = 1 \/ (s \div 2 \in Nat \ {0} /\ s = 2 * (s \div 2) /\ Divides(s \div 2, Block))
<1>1. Block \in Nat \ {0} BY ReductionAssumption
<1>2. PICK m \in Nat : s * m = Block BY DEF Divides
<1>3. s \in 1 .. Block
  <2>1. m # 0 BY <1>1, <1>2
  <2>2. \A k \in Nat : k >= 1 => s * k >= s OBVIOUS
  <2> QED BY <1>1, <1>2, <2>1, <2>2
<1>4. Block % s = 0
  <2>1. 0 \in 0 .. s - 1 /\ m \in Int /\ m * s + 0 = Block BY <1>2
  <2> QED BY <2>1, RemainderIsUnique
<1>5. s = 1 \/ s % 2 = 0 BY <1>3, <1>4, ReductionAssumption
<1>6. ASSUME s # 1 PROVE s \div 2 \in Nat \ {0} /\ s = 2 * (s \div 2) BY <1>5, <1>6
<1>7. ASSUME s # 1 PROVE Divides(s \div 2, Block)
  <2> DEFINE h == s \div 2
  <2>1. h \in Nat /\ s = 2 * h BY <1>6, <1>7
  <2> HIDE DEF h
  <2>2. h * (2 * m) = Block /\ 2 * m \in Nat BY <1>2, <2>1
  <2> QED BY <2>2 DEF Divides, h
<1> QED BY <1>6, <1>7

-----------------------------------------------------------------------------
(* What the host makes of the parts.                                       *)
Entries(call) == [i \in Nat |-> Entry(call, i)]
\* v, with the 0 every fold begins with, is the total of the entries in A.
Holds(call, v, A) ==
    v \in Int /\ Fold(call.kind, v, 0) = Total(call.kind, Entries(call), A)

LEMMA EntryFacts ==
    ASSUME NEW call \in Reductions
    PROVE  /\ Size(call) \in Nat
           /\ \A i \in Nat : /\ Entries(call)[i] = Entry(call, i) /\ Entries(call)[i] \in Int
                             /\ i >= Size(call) => Entries(call)[i] = 0
<1>1. /\ Size(call) \in Nat /\ NaN \in Int
      /\ \A i \in 1 .. Size(call) : call.x[i] \in Int /\ call.y[i] \in Int
  BY ReductionAssumption DEF Reductions, Size
<1>2. ASSUME NEW i \in Nat PROVE Entry(call, i) \in Int /\ (i >= Size(call) => Entry(call, i) = 0)
  <2>1. CASE i >= Size(call) BY <2>1 DEF Entry
  <2>2. CASE ~(i >= Size(call))
    <3>1. i + 1 \in 1 .. Size(call) BY <1>1, <2>2
    <3>2. call.x[i + 1] \in Int /\ call.y[i + 1] \in Int BY <1>1, <3>1
    <3>3. fabs(call.x[i + 1]) \in Int BY <1>1, <3>2 DEF fabs
    <3>4. call.x[i + 1] * call.y[i + 1] \in Int BY <3>2
    <3> QED BY <2>2, <3>3, <3>4 DEF Entry
  <2> QED BY <2>1, <2>2
<1> QED BY <1>1, <1>2 DEF Entries

LEMMA GridCovers ==
    ASSUME NEW n \in Nat
    PROVE  /\ Grid(n) \in Nat /\ n <= Grid(n) * Block
           /\ Grid(n) * Block \in Nat
<1> DEFINE g == (n + Block - 1) \div Block
           r == (n + Block - 1) % Block
<1>1. Block \in Nat \ {0} /\ n + Block - 1 \in Int /\ n + Block - 1 >= 0 BY ReductionAssumption
<1>2. g \in Int /\ r \in 0 .. Block - 1 /\ n + Block - 1 = g * Block + r BY <1>1, Division
<1> HIDE DEF g, r
<1>3. ~(g < 0)
  <2> SUFFICES ASSUME g < 0 PROVE FALSE OBVIOUS
  <2>1. \A k \in Nat : k >= 1 => k * Block >= Block BY <1>1
  <2>2. -g \in Nat /\ -g >= 1 BY <1>2
  <2>3. (-g) * Block >= Block BY <2>1, <2>2
  <2>4. (-g) * Block = -(g * Block) BY <1>1, <1>2
  <2> QED BY <1>1, <1>2, <2>3, <2>4
<1>4. g \in Nat /\ g * Block \in Nat BY <1>1, <1>2, <1>3
<1>5. n <= g * Block BY <1>1, <1>2, <1>4
<1> QED BY <1>4, <1>5 DEF Grid, g

LEMMA ExpectedIsTotal ==
    ASSUME NEW call \in Reductions
    PROVE  /\ Expected(call) = Total(call.kind, Entries(call), 0 .. Size(call) - 1)
           /\ Expected(call) \in Int
<1> DEFINE f == [i \in 0 .. Size(call) - 1 |-> Entry(call, i)]
           E == Entries(call)
           S == 0 .. Size(call) - 1
<1>1. Expected(call) = Total(call.kind, f, S)
  <2>1. DOMAIN f = S OBVIOUS
  <2>2. Expected(call) = FoldFunctionOnSet(LAMBDA a, b : Fold(call.kind, a, b), 0, f, DOMAIN f)
    BY DEF Expected, FoldFunction
  <2> HIDE DEF f, S
  <2> QED BY <2>1, <2>2, FoldIsTotal
<1>2. S \subseteq Nat /\ IsFiniteSet(S)
  <2>1. \A a, c \in Int : IsFiniteSet(a .. c) BY FS_Interval
  <2>2. Size(call) \in Nat BY EntryFacts
  <2> QED BY <2>1, <2>2
<1>3. \A i \in S : f[i] = E[i] /\ E[i] \in Int BY <1>2, EntryFacts
<1> HIDE DEF f, E, S
<1>4. Total(call.kind, f, S) = Total(call.kind, E, S) BY <1>2, <1>3, TotalEqual
<1>5. Total(call.kind, E, S) \in Int BY <1>2, <1>3, TotalType
<1> QED BY <1>1, <1>4, <1>5 DEF E, S

\* Parts that hold the totals of their blocks fold to the total of the call.
LEMMA HostTotal ==
    ASSUME NEW call \in Reductions, NEW parts,
           \A b \in 0 .. Grid(Size(call)) - 1 : Holds(call, parts[b], Indices(b))
    PROVE  HostFold(call, parts) = Expected(call) /\ Expected(call) \in Int
<1> DEFINE n == Size(call)
           G == Grid(n)
           S == 0 .. G - 1
           T == 0 .. G * Block - 1
           E == Entries(call)
           kind == call.kind
           block == [i \in T |-> i \div Block]
           class == [x \in S |-> Indices(x)]
<1>1. n \in Nat /\ G \in Nat /\ n <= G * Block /\ G * Block \in Nat /\ Block \in Nat \ {0}
  BY EntryFacts, GridCovers, ReductionAssumption
<1> HIDE DEF n, G
<1>2. IsFiniteSet(S) /\ IsFiniteSet(T) /\ IsFiniteSet(0 .. n - 1) /\ 0 .. n - 1 \subseteq T
  <2>1. \A a, c \in Int : IsFiniteSet(a .. c) BY FS_Interval
  <2> QED BY <1>1, <2>1
<1>3. ASSUME NEW i \in T
      PROVE  i \div Block \in S /\ \A x \in S : i \div Block = x <=> i \in Indices(x)
  <2> DEFINE q == i \div Block
             r == i % Block
  <2>1. q \in Int /\ r \in 0 .. Block - 1 /\ i = q * Block + r BY <1>1, Division
  <2>2. i \in Nat /\ i < G * Block BY <1>1
  <2> HIDE DEF q, r
  <2>3. ~(q < 0)
    <3> SUFFICES ASSUME q < 0 PROVE FALSE OBVIOUS
    <3>1. \A k \in Nat : k >= 1 => k * Block >= Block BY <1>1
    <3>2. -q \in Nat /\ -q >= 1 BY <2>1
    <3>3. (-q) * Block >= Block BY <3>1, <3>2
    <3>4. (-q) * Block = -(q * Block) BY <1>1, <2>1
    <3> QED BY <1>1, <2>1, <2>2, <3>3, <3>4
  <2>4. ~(q >= G)
    <3> SUFFICES ASSUME q >= G PROVE FALSE OBVIOUS
    <3>1. \A k \in Nat : k * Block >= 0 BY <1>1
    <3>2. (q - G) * Block >= 0 BY <1>1, <2>1, <3>1
    <3>3. (q - G) * Block = q * Block - G * Block BY <1>1, <2>1
    <3> QED BY <1>1, <2>1, <2>2, <3>2, <3>3
  <2>5. q \in S BY <1>1, <2>1, <2>3, <2>4
  <2>6. ASSUME NEW x \in S PROVE q = x <=> i \in Indices(x)
    <3>1. q = x => i \in Indices(x) BY <1>1, <2>1 DEF Indices
    <3>2. ASSUME i \in Indices(x) PROVE q = x
      <4>1. x \in Int /\ i - x * Block \in 0 .. Block - 1 /\ i = x * Block + (i - x * Block)
        BY <1>1, <2>2, <3>2 DEF Indices
      <4>2. (x * Block + (i - x * Block)) \div Block = x BY <1>1, <4>1, RemainderIsUnique
      <4> QED BY <4>1, <4>2 DEF q
    <3> QED BY <3>1, <3>2
  <2> QED BY <2>5, <2>6 DEF q
<1>4. block \in [T -> S] BY <1>3
<1>5. class \in [S -> SUBSET T]
  <2>1. ASSUME NEW x \in S PROVE Indices(x) \subseteq T
    <3>1. x \in Nat /\ x + 1 <= G BY <1>1
    <3>2. x * Block \in Nat /\ (x + 1) * Block = x * Block + Block BY <1>1, <3>1
    <3>3. (G - (x + 1)) * Block >= 0
      <4>1. \A k \in Nat : k * Block >= 0 BY <1>1
      <4> QED BY <1>1, <3>1, <4>1
    <3>4. (G - (x + 1)) * Block = G * Block - (x + 1) * Block BY <1>1, <3>1
    <3>5. x * Block + Block - 1 <= G * Block - 1 BY <1>1, <3>2, <3>3, <3>4
    <3> QED BY <1>1, <3>2, <3>5 DEF Indices
  <2> QED BY <2>1
<1>6. \A i \in T : E[i] \in Int BY <1>1, EntryFacts
<1>7. Total(kind, parts, S) = Total(kind, E, T)
  <2>1. ASSUME NEW x \in S
        PROVE  parts[x] \in Int /\ Fold(kind, parts[x], 0) = Total(kind, E, class[x])
    <3>1. Holds(call, parts[x], Indices(x)) BY DEF G, n
    <3> QED BY <3>1 DEF Holds
  <2>2. IsFiniteSet(S) /\ IsFiniteSet(T) BY <1>2
  <2>3. \A x \in S : \A i \in T : i \in class[x] <=> block[i] = x BY <1>3
  <2> HIDE DEF kind, E, S, T, block, class
  <2> QED BY <1>4, <1>5, <1>6, <2>1, <2>2, <2>3, TotalParts
<1>8. Total(kind, E, T) = Total(kind, E, 0 .. n - 1)
  <2> DEFINE U == 0 .. n - 1
  <2>1. \A i \in T \ U : E[i] = 0 BY <1>1, EntryFacts DEF n
  <2>2. IsFiniteSet(T) /\ U \in SUBSET T BY <1>2
  <2> HIDE DEF kind, E, T, U
  <2>3. Total(kind, E, T) = Total(kind, E, U) BY <1>6, <2>1, <2>2, TotalSupport
  <2> QED BY <2>3 DEF U
<1>9. HostFold(call, parts) = Total(kind, parts, S)
  BY FoldIsTotal DEF HostFold, G, n
<1>10. Expected(call) = Total(kind, E, 0 .. n - 1) /\ Expected(call) \in Int
  BY ExpectedIsTotal DEF n
<1> QED BY <1>7, <1>8, <1>9, <1>10

-----------------------------------------------------------------------------
(* The tree of a block.  Before a level of stride s the first 2s cells      *)
(* hold the totals of their classes; a cell above them is the one its       *)
(* partner, which may be a barrier behind, has still to read.               *)
Width(d) == IF stride[d] = 0 THEN 1 ELSE 2 * stride[d]
CellHolds(d, w) == Holds(Call, sdata[d], Class(BlockOf(d), w, tid(d)))

CellRight(d) ==
    /\ stride[d] = 0 \/ Divides(stride[d], Block)
    /\ arrived[d] > 0 =>
          /\ tid(d) < Width(d) => CellHolds(d, Width(d))
          /\ Width(d) <= tid(d) /\ tid(d) < 2 * Width(d) => CellHolds(d, 2 * Width(d))
    /\ place[d] = "fetched" => Holds(Call, held[d], Class(BlockOf(d), stride[d], tid(d)))
    /\ place[d] = "done" /\ tid(d) = 0 => Holds(Call, buffer[BlockOf(d)], Indices(BlockOf(d)))

Answers == {Thrown} \cup {<<v>> : v \in Int}
Totalling ==
    /\ program \in Seq(Reductions) /\ results \in Seq(Answers) /\ ResultsAreTotals
    /\ host \in {"idle", "waiting"}
    /\ host = "waiting" =>
          Len(results) < Len(program) /\ threads = Required \X (0 .. Block - 1)
    /\ DOMAIN sdata = threads /\ DOMAIN held = threads
    /\ \A d \in threads : CellRight(d)

LEMMA CallIsReduction ==
    ASSUME program \in Seq(Reductions), results \in Seq(Answers), Len(results) < Len(program)
    PROVE  Call \in Reductions
<1>1. Len(results) \in Nat /\ Len(program) \in Nat OBVIOUS
<1>2. Len(results) + 1 \in 1 .. Len(program) BY <1>1
<1> QED BY <1>2 DEF Call

LEMMA StartTotalling == Init => Totalling
<1> SUFFICES ASSUME Init PROVE Totalling OBVIOUS
<1>1. program \in Seq(Reductions) /\ results = <<>> BY ReductionAssumption DEF Init
<1>2. results \in Seq(Answers) /\ DOMAIN results = {} BY <1>1
<1>3. threads = {} /\ host = "idle" /\ sdata = <<>> /\ held = <<>> BY DEF Init
<1>4. DOMAIN sdata = {} /\ DOMAIN held = {} BY <1>3
<1>5. ResultsAreTotals BY <1>2 DEF ResultsAreTotals
<1> QED BY <1>1, <1>2, <1>3, <1>4, <1>5 DEF Totalling

\* The stride of a thread that is at a level: the width of the next is s.
LEMMA WidthHalves ==
    ASSUME NEW s \in Nat \ {0}, Divides(s, Block)
    PROVE  /\ s \div 2 \in Nat
           /\ s \div 2 = 0 \/ Divides(s \div 2, Block)
           /\ s = IF s \div 2 = 0 THEN 1 ELSE 2 * (s \div 2)
<1>1. s = 1 \/ (s \div 2 \in Nat \ {0} /\ s = 2 * (s \div 2) /\ Divides(s \div 2, Block))
  BY StridesHalve
<1>2. s = 1 => s \div 2 = 0 OBVIOUS
<1> QED BY <1>1, <1>2

\* What the invariants say of a thread that runs.
LEMMA RunningFacts ==
    ASSUME InStep, Totalling, NEW d \in threads
    PROVE  /\ host = "waiting" /\ Call \in Reductions
           /\ BlockOf(d) \in Nat /\ BlockOf(d) \in Required /\ tid(d) \in 0 .. Block - 1
           /\ d = <<BlockOf(d), tid(d)>>
           /\ stride[d] \in Nat /\ arrived[d] \in Nat /\ BlockOf(d) \in DOMAIN buffer
           /\ CellRight(d) /\ OnItsOwn(d)
<1>1. host = "waiting" /\ Call \in Reductions
  BY CallIsReduction DEF InStep, Launched, Totalling
<1>2. threads = Required \X (0 .. Block - 1) BY <1>1 DEF Totalling
<1>3. d = <<BlockOf(d), tid(d)>> /\ BlockOf(d) \in Required /\ tid(d) \in 0 .. Block - 1
  BY <1>2 DEF BlockOf, tid
<1>4. Grid(Size(Call)) \in Nat BY <1>1, EntryFacts, GridCovers
<1>5. BlockOf(d) \in Nat BY <1>3, <1>4 DEF Required
<1>6. stride[d] \in Nat /\ arrived[d] \in Nat /\ BlockOf(d) \in DOMAIN buffer /\ OnItsOwn(d)
  BY DEF InStep, Launched, BlockOf
<1> QED BY <1>1, <1>3, <1>5, <1>6 DEF Totalling

\* A step of one thread that leaves the others' cells and parts alone.
LEMMA OthersKeep ==
    ASSUME InStep, Totalling, NEW d \in threads, NEW e \in threads, e # d,
           UNCHANGED <<program, results>>,
           stride'[e] = stride[e], arrived'[e] = arrived[e], place'[e] = place[e],
           sdata'[e] = sdata[e], held'[e] = held[e],
           tid(e) = 0 => buffer'[BlockOf(e)] = buffer[BlockOf(e)]
    PROVE  CellRight(e)'
<1>1. Call' = Call BY DEF Call
<1>2. Width(e)' = Width(e) /\ tid(e)' = tid(e) /\ BlockOf(e)' = BlockOf(e)
  BY DEF Width, tid, BlockOf
<1>3. CellRight(e) BY DEF Totalling
<1>4. \A w : CellHolds(e, w)' <=> CellHolds(e, w)
  BY <1>1, <1>2 DEF CellHolds
<1> QED BY <1>1, <1>2, <1>3, <1>4 DEF CellRight, CellHolds

\* The thread that moved is right if the others were left alone.
LEMMA ThreadStep ==
    ASSUME InStep, Totalling, NEW d \in threads, CellRight(d)',
           UNCHANGED <<program, results, host, threads>>,
           DOMAIN sdata' = DOMAIN sdata, DOMAIN held' = DOMAIN held,
           \A e \in threads \ {d} :
              /\ stride'[e] = stride[e] /\ arrived'[e] = arrived[e] /\ place'[e] = place[e]
              /\ sdata'[e] = sdata[e] /\ held'[e] = held[e]
              /\ tid(e) = 0 => buffer'[BlockOf(e)] = buffer[BlockOf(e)]
    PROVE  Totalling'
<1>1. \A e \in threads' : CellRight(e)' BY OthersKeep
<1>2. Call' = Call BY DEF Call
<1>3. Required' = Required BY <1>2 DEF Required
<1>4. ResultsAreTotals' <=> ResultsAreTotals BY DEF ResultsAreTotals
<1> QED BY <1>1, <1>3, <1>4 DEF Totalling

LEMMA LoadTotals ==
    ASSUME InStep, Totalling, NEW d \in threads, Load(d)
    PROVE  Totalling'
<1>0. /\ Call \in Reductions /\ BlockOf(d) \in Nat /\ tid(d) \in 0 .. Block - 1
      /\ stride[d] \in Nat /\ arrived[d] \in Nat /\ CellRight(d) /\ OnItsOwn(d)
  BY RunningFacts
<1>1. /\ place \in [threads -> {"load", "level", "fetched", "done"}]
      /\ arrived \in [threads -> Nat] /\ DOMAIN sdata = threads
  BY DEF InStep, Launched, Totalling
<1>2. /\ sdata' = [sdata EXCEPT ![d] = Entry(Call, BlockOf(d) * Block + tid(d))]
      /\ place' = [place EXCEPT ![d] = "level"] /\ arrived' = [arrived EXCEPT ![d] = @ + 1]
      /\ UNCHANGED <<program, results, host, buffer, threads, stride, held>>
      /\ place[d] = "load"
  BY DEF Load, ReachBarrier
<1>3. Block \in Nat \ {0} BY ReductionAssumption
<1>4. stride[d] = Block \div 2 BY <1>0, <1>2 DEF OnItsOwn
<1>5. Width(d) = Block
  <2>1. 1 * Block = Block BY <1>3
  <2>2. Divides(Block, Block)
    <3>1. Block * 1 = Block BY <1>3
    <3> QED BY <3>1 DEF Divides
  <2> QED BY <1>3, <1>4, <2>2, WidthHalves DEF Width
<1>6. Width(d)' = Block /\ Call' = Call BY <1>2, <1>5 DEF Width, Call
<1> DEFINE i == BlockOf(d) * Block + tid(d)
<1>7. i \in Nat BY <1>0, <1>3
<1>8. Holds(Call, Entry(Call, i), Class(BlockOf(d), Block, tid(d)))
  <2>1. Class(BlockOf(d), Block, tid(d)) = {i} BY <1>0, ClassEnds
  <2>2. Entries(Call)[i] = Entry(Call, i) /\ Entries(Call)[i] \in Int BY <1>0, <1>7, EntryFacts
  <2>3. Total(Call.kind, Entries(Call), {i}) = Fold(Call.kind, Entries(Call)[i], 0)
    BY <2>2, TotalOne
  <2> QED BY <2>1, <2>2, <2>3 DEF Holds
<1>9. sdata'[d] = Entry(Call, i) /\ place'[d] = "level" BY <1>1, <1>2
<1>10. CellHolds(d, Block)'
  BY <1>6, <1>8, <1>9 DEF CellHolds, BlockOf, tid
<1>11. CellRight(d)'
  BY <1>0, <1>2, <1>3, <1>6, <1>9, <1>10 DEF CellRight, tid
<1> QED BY <1>1, <1>2, <1>11, ThreadStep

LEMMA SkipTotals ==
    ASSUME InStep, Totalling, NEW d \in threads, Skip(d)
    PROVE  Totalling'
<1>0. /\ Call \in Reductions /\ BlockOf(d) \in Nat /\ tid(d) \in 0 .. Block - 1
      /\ stride[d] \in Nat /\ arrived[d] \in Nat /\ CellRight(d) /\ OnItsOwn(d)
  BY RunningFacts
<1>1. /\ place \in [threads -> {"load", "level", "fetched", "done"}]
      /\ arrived \in [threads -> Nat] /\ stride \in [threads -> Nat]
  BY DEF InStep, Launched
<1>2. /\ stride' = [stride EXCEPT ![d] = @ \div 2]
      /\ place' = [place EXCEPT ![d] = "level"] /\ arrived' = [arrived EXCEPT ![d] = @ + 1]
      /\ UNCHANGED <<program, results, host, buffer, threads, sdata, held>>
      /\ place[d] = "level" /\ stride[d] > 0 /\ tid(d) >= stride[d]
  BY DEF Skip, AtLevel, Halve, ReachBarrier
<1> DEFINE s == stride[d]
<1>3. s \in Nat \ {0} /\ Divides(s, Block) /\ stride'[d] = s \div 2
  BY <1>0, <1>1, <1>2 DEF CellRight
<1>4. Width(d)' = s /\ Width(d) = 2 * s /\ Call' = Call
  BY <1>2, <1>3, WidthHalves DEF Width, Call
<1>5. arrived[d] > 0 BY <1>0, <1>2 DEF OnItsOwn
<1>6. tid(d) < 2 * s => CellHolds(d, 2 * s) BY <1>0, <1>4, <1>5 DEF CellRight
<1>8. s \div 2 = 0 \/ Divides(s \div 2, Block) BY <1>3, WidthHalves
<1>9. place'[d] = "level" BY <1>1, <1>2
<1>10. ~(tid(d) < s) /\ tid(d)' = tid(d) BY <1>0, <1>2 DEF tid
<1>11. \A w : CellHolds(d, w)' <=> CellHolds(d, w)
  BY <1>2, <1>4 DEF CellHolds, BlockOf, tid
<1>12. CellRight(d)'
  BY <1>3, <1>4, <1>6, <1>8, <1>9, <1>10, <1>11 DEF CellRight
<1> QED BY <1>1, <1>2, <1>12, ThreadStep

\* A thread folds its cell and its partner's: the classes of twice the width
\* are disjoint and make up its own.
LEMMA FetchTotals ==
    ASSUME InStep, Totalling, NEW d \in threads, Fetch(d)
    PROVE  Totalling'
<1> DEFINE s == stride[d]
           b == BlockOf(d)
           t == tid(d)
           e == Partner(d)
<1>0. /\ Call \in Reductions /\ b \in Nat /\ b \in Required /\ t \in 0 .. Block - 1
      /\ s \in Nat /\ arrived[d] \in Nat /\ CellRight(d) /\ OnItsOwn(d)
  BY RunningFacts
<1>1. place \in [threads -> {"load", "level", "fetched", "done"}]
  BY DEF InStep, Launched
<1>2. /\ held' = [held EXCEPT ![d] = Fold(Call.kind, sdata[d], sdata[e])]
      /\ place' = [place EXCEPT ![d] = "fetched"]
      /\ UNCHANGED <<program, results, host, buffer, threads, arrived, stride, sdata>>
      /\ place[d] = "level" /\ Synchronised(d) /\ s > 0 /\ t < s
  BY DEF Fetch, AtLevel
<1>3. s \in Nat \ {0} /\ Divides(s, Block) /\ s <= Block \div 2
  BY <1>0, <1>2 DEF CellRight, OnItsOwn
<1>4. t + s \in 0 .. Block - 1
  <2>1. Block \in Nat BY ReductionAssumption
  <2> QED BY <1>0, <1>2, <1>3, <2>1
<1>5. e \in threads /\ BlockOf(e) = b /\ tid(e) = t + s
  <2>1. threads = Required \X (0 .. Block - 1) BY RunningFacts DEF Totalling
  <2>2. e = <<b, t + s>> BY DEF Partner
  <2> QED BY <1>0, <1>4, <2>1, <2>2 DEF BlockOf, tid
<1>6. arrived[d] > 0 BY <1>0, <1>2 DEF OnItsOwn
<1>7. Holds(Call, sdata[d], Class(b, 2 * s, t))
  <2>1. Width(d) = 2 * s BY <1>3 DEF Width
  <2>2. t < 2 * s BY <1>0, <1>2
  <2> QED BY <1>0, <1>6, <2>1, <2>2 DEF CellRight, CellHolds
<1>8. Holds(Call, sdata[e], Class(b, 2 * s, t + s))
  <2>1. CellRight(e) /\ stride[e] \in Nat /\ arrived[e] \in Nat BY <1>5, RunningFacts
  <2>2. e \in Peers(d) BY <1>5 DEF Peers
  <2>3. arrived[e] >= arrived[d] BY <1>2, <2>2 DEF Synchronised
  <2>4. Together(d, e) BY <2>2 DEF InStep
  <2>5. arrived[e] > 0 BY <1>0, <1>6, <2>1, <2>3
  <2>6. CASE arrived[e] = arrived[d]
    <3>1. stride[e] = s BY <2>4, <2>6 DEF Together
    <3>2. Width(e) = 2 * s BY <1>3, <3>1 DEF Width
    <3>3. t + s < 2 * s BY <1>0, <1>2
    <3> QED BY <1>5, <2>1, <2>5, <3>2, <3>3 DEF CellRight, CellHolds
  <2>7. CASE arrived[e] = arrived[d] + 1
    <3>1. stride[e] = s \div 2 BY <1>6, <2>4, <2>7 DEF Together, NextStride
    <3>2. Width(e) = s BY <1>3, <3>1, WidthHalves DEF Width
    <3>3. s <= t + s /\ t + s < 2 * s BY <1>0, <1>2
    <3> QED BY <1>5, <2>1, <2>5, <3>2, <3>3 DEF CellRight, CellHolds
  <2> QED BY <1>0, <2>1, <2>3, <2>4, <2>6, <2>7 DEF Together
<1>9. Holds(Call, Fold(Call.kind, sdata[d], sdata[e]), Class(b, s, t))
  <2> DEFINE A == Class(b, 2 * s, t)
             B == Class(b, 2 * s, t + s)
  <2>1. t \in 0 .. s - 1 BY <1>0, <1>2
  <2>2. Class(b, s, t) = A \cup B /\ A \cap B = {} BY <1>0, <1>3, <2>1, ClassSplits
  <2>3. IsFiniteSet(A) /\ IsFiniteSet(B) /\ A \cup B \subseteq Nat
    BY <1>0, ClassesAreFinite
  <2>4. \A i \in A \cup B : Entries(Call)[i] \in Int BY <1>0, <2>3, EntryFacts
  <2> DEFINE f == Entries(Call)
             k == Call.kind
             x == sdata[d]
             y == sdata[e]
  <2>5. /\ x \in Int /\ Fold(k, x, 0) = Total(k, f, A)
        /\ y \in Int /\ Fold(k, y, 0) = Total(k, f, B)
    BY <1>7, <1>8 DEF Holds
  <2> HIDE DEF A, B, f, k, x, y
  <2>6. Fold(k, x, y) \in Int /\ Fold(k, Fold(k, x, y), 0) = Total(k, f, A \cup B)
    <3>1. \A i \in A \cup B : f[i] \in Int BY <2>4 DEF f
    <3> QED BY <2>2, <2>3, <2>5, <3>1, CellsFold
  <2> QED BY <2>2, <2>6 DEF Holds, f, k, x, y
<1>10. Width(d)' = Width(d) /\ Call' = Call BY <1>2 DEF Width, Call
<1>11. \A w : CellHolds(d, w)' <=> CellHolds(d, w)
  BY <1>2, <1>10 DEF CellHolds, BlockOf, tid
<1>12. held'[d] = Fold(Call.kind, sdata[d], sdata[e]) /\ place'[d] = "fetched"
       /\ DOMAIN held' = DOMAIN held
  BY <1>1, <1>2 DEF Totalling
<1>13. Holds(Call, held[d], Class(BlockOf(d), stride[d], tid(d)))'
  BY <1>2, <1>9, <1>10, <1>12 DEF BlockOf, tid
<1>14. CellRight(d)'
  BY <1>0, <1>2, <1>10, <1>11, <1>12, <1>13 DEF CellRight, tid
<1>15. \A f \in threads \ {d} : place'[f] = place[f] /\ held'[f] = held[f]
  BY <1>1, <1>2 DEF Totalling
<1> QED BY <1>2, <1>12, <1>14, <1>15, ThreadStep

LEMMA StoreTotals ==
    ASSUME InStep, Totalling, NEW d \in threads, Store(d)
    PROVE  Totalling'
<1>0. /\ Call \in Reductions /\ BlockOf(d) \in Nat /\ tid(d) \in 0 .. Block - 1
      /\ stride[d] \in Nat /\ arrived[d] \in Nat /\ CellRight(d) /\ OnItsOwn(d)
  BY RunningFacts
<1>1. /\ place \in [threads -> {"load", "level", "fetched", "done"}]
      /\ arrived \in [threads -> Nat] /\ stride \in [threads -> Nat]
      /\ DOMAIN sdata = threads
  BY DEF InStep, Launched, Totalling
<1>2. /\ stride' = [stride EXCEPT ![d] = @ \div 2] /\ sdata' = [sdata EXCEPT ![d] = held[d]]
      /\ place' = [place EXCEPT ![d] = "level"] /\ arrived' = [arrived EXCEPT ![d] = @ + 1]
      /\ UNCHANGED <<program, results, host, buffer, threads, held>>
      /\ place[d] = "fetched"
  BY DEF Store, Halve, ReachBarrier
<1> DEFINE s == stride[d]
<1>3. tid(d) < s BY <1>2, <1>0 DEF OnItsOwn
<1>4. s \in Nat \ {0} /\ Divides(s, Block) /\ stride'[d] = s \div 2
  BY <1>0, <1>1, <1>2, <1>3 DEF CellRight
<1>5. Width(d)' = s /\ Call' = Call
  BY <1>2, <1>4, WidthHalves DEF Width, Call
<1>6. Holds(Call, held[d], Class(BlockOf(d), s, tid(d))) BY <1>0, <1>2 DEF CellRight
<1>7. sdata'[d] = held[d] /\ place'[d] = "level" BY <1>1, <1>2
<1>8. \A w : w = s => CellHolds(d, w)'
  BY <1>2, <1>5, <1>6, <1>7 DEF CellHolds, BlockOf, tid
<1>9. s \div 2 = 0 \/ Divides(s \div 2, Block) BY <1>4, WidthHalves
<1>10. tid(d)' = tid(d) /\ ~(s <= tid(d)) BY <1>0, <1>3, <1>4 DEF tid
<1>11. CellRight(d)'
  BY <1>4, <1>5, <1>7, <1>8, <1>9, <1>10 DEF CellRight
<1> QED BY <1>1, <1>2, <1>11, ThreadStep

\* Thread 0 leaves the total of its block, and no other thread its part.
LEMMA ExitTotals ==
    ASSUME InStep, Totalling, NEW d \in threads, Exit(d)
    PROVE  Totalling'
<1>0. /\ Call \in Reductions /\ BlockOf(d) \in Nat /\ tid(d) \in 0 .. Block - 1
      /\ stride[d] \in Nat /\ arrived[d] \in Nat /\ CellRight(d) /\ OnItsOwn(d)
      /\ BlockOf(d) \in DOMAIN buffer
  BY RunningFacts
<1>1. place \in [threads -> {"load", "level", "fetched", "done"}]
  BY DEF InStep, Launched
<1>2. /\ buffer' = IF tid(d) = 0 THEN [buffer EXCEPT ![BlockOf(d)] = sdata[d]] ELSE buffer
      /\ place' = [place EXCEPT ![d] = "done"]
      /\ UNCHANGED <<program, results, host, threads, arrived, stride, sdata, held>>
      /\ place[d] = "level" /\ stride[d] = 0
  BY DEF Exit
<1>3. Width(d) = 1 /\ Width(d)' = 1 /\ Call' = Call BY <1>2 DEF Width, Call
<1>4. \A w : CellHolds(d, w)' <=> CellHolds(d, w)
  BY <1>2, <1>3 DEF CellHolds, BlockOf, tid
<1>5. arrived[d] > 0 BY <1>0, <1>2 DEF OnItsOwn
<1>6. place'[d] = "done" BY <1>1, <1>2
<1>7. ASSUME tid(d) = 0
      PROVE  Holds(Call, buffer[BlockOf(d)], Indices(BlockOf(d)))'
  <2>1. CellHolds(d, 1)
    <3>1. tid(d) < Width(d) BY <1>3, <1>7
    <3> QED BY <1>0, <1>3, <1>5, <3>1 DEF CellRight
  <2>2. Class(BlockOf(d), 1, 0) = Indices(BlockOf(d)) BY <1>0, ClassEnds
  <2>3. Holds(Call, sdata[d], Indices(BlockOf(d))) BY <1>7, <2>1, <2>2 DEF CellHolds
  <2>4. buffer'[BlockOf(d)] = sdata[d] BY <1>0, <1>2, <1>7
  <2>5. BlockOf(d)' = BlockOf(d) BY DEF BlockOf
  <2> QED BY <1>3, <2>3, <2>4, <2>5
<1>8. CellRight(d)'
  BY <1>0, <1>2, <1>3, <1>4, <1>6, <1>7 DEF CellRight, tid
<1>9. ASSUME NEW e \in threads \ {d}, tid(e) = 0
      PROVE  buffer'[BlockOf(e)] = buffer[BlockOf(e)]
  <2>1. e = <<BlockOf(e), tid(e)>> /\ d = <<BlockOf(d), tid(d)>>
        /\ BlockOf(e) \in DOMAIN buffer
    BY RunningFacts
  <2>2. tid(d) = 0 => BlockOf(e) # BlockOf(d) BY <1>9, <2>1
  <2> QED BY <1>2, <2>1, <2>2
<1>10. \A e \in threads \ {d} : place'[e] = place[e] BY <1>1, <1>2
<1> QED BY <1>2, <1>8, <1>9, <1>10, ThreadStep

\* A call that returns its value, or none, keeps the answers right.
LEMMA ReturnTotals ==
    ASSUME Totalling, Len(results) < Len(program),
           NEW answer \in {Thrown, <<Expected(Call)>>}, Expected(Call) \in Int,
           Return(answer), UNCHANGED program, host' = "idle",
           threads' = {}, DOMAIN sdata' = {}, DOMAIN held' = {}
    PROVE  Totalling'
<1>1. program \in Seq(Reductions) /\ results \in Seq(Answers) /\ ResultsAreTotals
  BY DEF Totalling
<1>2. results' = Append(results, answer) /\ answer \in Answers BY DEF Return, Answers
<1>3. results' \in Seq(Answers) BY <1>1, <1>2
<1>4. ASSUME NEW k \in DOMAIN results'
      PROVE  results'[k] \in {Thrown, <<Expected(program[k])>>}
  <2>1. CASE k \in DOMAIN results
    <3>1. results'[k] = results[k] BY <1>1, <1>2, <2>1
    <3> QED BY <1>1, <2>1, <3>1 DEF ResultsAreTotals
  <2>2. CASE k \notin DOMAIN results
    <3>1. k = Len(results) + 1 /\ results'[k] = answer BY <1>1, <1>2, <2>2
    <3> QED BY <3>1 DEF Call
  <2> QED BY <2>1, <2>2
<1>5. ResultsAreTotals' BY <1>4 DEF ResultsAreTotals
<1> QED BY <1>1, <1>3, <1>5 DEF Totalling

\* The launch: every cell is ahead of its first barrier.
LEMMA LaunchTotals == InStep /\ Totalling /\ Launch => Totalling'
<1> SUFFICES ASSUME InStep, Totalling, Launch PROVE Totalling' OBVIOUS
<1>1. /\ threads' = Required \X (0 .. Block - 1)
      /\ place' = [d \in threads' |-> "load"] /\ arrived' = [d \in threads' |-> 0]
      /\ stride' = [d \in threads' |-> Block \div 2]
      /\ sdata' = [d \in threads' |-> Garbage] /\ held' = [d \in threads' |-> Garbage]
      /\ host' = "waiting" /\ UNCHANGED <<program, results>>
      /\ Len(results) < Len(program)
  BY DEF Launch, Calling
<1>2. Call' = Call BY <1>1 DEF Call
<1>3. Required' = Required BY <1>2 DEF Required
<1>4. Block \div 2 = 0 \/ Divides(Block \div 2, Block)
  <2>1. Block \in Nat \ {0} /\ Block * 1 = Block BY ReductionAssumption
  <2>2. Divides(Block, Block) BY <2>1 DEF Divides
  <2> QED BY <2>1, <2>2, WidthHalves
<1>5. \A d \in threads' : CellRight(d)' BY <1>1, <1>4 DEF CellRight
<1>6. ResultsAreTotals' <=> ResultsAreTotals BY <1>1 DEF ResultsAreTotals
<1> QED BY <1>1, <1>3, <1>5, <1>6 DEF Totalling

\* The host's copy: every block has left its part.
LEMMA CopyBackTotals == InStep /\ Totalling /\ CopyBack => Totalling'
<1> SUFFICES ASSUME InStep, Totalling, CopyBack PROVE Totalling' OBVIOUS
<1>1. /\ host = "waiting" /\ \A d \in threads : place[d] = "done"
      /\ Return(<<HostFold(Call, buffer)>>) /\ host' = "idle" /\ UNCHANGED program
      /\ threads' = {} /\ sdata' = <<>> /\ held' = <<>>
  BY DEF CopyBack, KernelDone, CallEnds
<1>2. /\ Call \in Reductions /\ threads = Required \X (0 .. Block - 1)
      /\ Len(results) < Len(program)
  BY <1>1, CallIsReduction DEF Totalling
<1>3. ASSUME NEW b \in 0 .. Grid(Size(Call)) - 1
      PROVE  Holds(Call, buffer[b], Indices(b))
  <2>1. 0 \in 0 .. Block - 1 BY ReductionAssumption
  <2>2. <<b, 0>> \in threads BY <1>2, <1>3, <2>1 DEF Required
  <2>3. CellRight(<<b, 0>>) /\ place[<<b, 0>>] = "done" BY <1>1, <2>2 DEF Totalling
  <2> QED BY <2>3 DEF CellRight, BlockOf, tid
<1>4. HostFold(Call, buffer) = Expected(Call) /\ Expected(Call) \in Int
  BY <1>2, <1>3, HostTotal
<1>5. DOMAIN sdata' = {} /\ DOMAIN held' = {} BY <1>1
<1> QED BY <1>1, <1>2, <1>4, <1>5, ReturnTotals

\* A copy that fails answers nothing.
LEMMA CopyFailsTotals == InStep /\ Totalling /\ CopyFails => Totalling'
<1> SUFFICES ASSUME InStep, Totalling, CopyFails PROVE Totalling' OBVIOUS
<1>1. /\ host = "waiting" /\ Return(Thrown) /\ host' = "idle" /\ UNCHANGED program
      /\ threads' = {} /\ sdata' = <<>> /\ held' = <<>>
  BY DEF CopyFails, KernelDone, CallEnds
<1>2. Call \in Reductions /\ Len(results) < Len(program)
  BY <1>1, CallIsReduction DEF Totalling
<1>3. Expected(Call) \in Int BY <1>2, ExpectedIsTotal
<1>4. DOMAIN sdata' = {} /\ DOMAIN held' = {} BY <1>1
<1> QED BY <1>1, <1>2, <1>3, <1>4, ReturnTotals

LEMMA EmptyTotal ==
    ASSUME NEW call \in Reductions, Size(call) = 0
    PROVE  Expected(call) = 0
<1> DEFINE f == [i \in 0 .. Size(call) - 1 |-> Entry(call, i)]
<1>1. DOMAIN f = {} OBVIOUS
<1>2. Expected(call) = FoldFunctionOnSet(LAMBDA a, b : Fold(call.kind, a, b), 0, f, DOMAIN f)
  BY DEF Expected, FoldFunction
<1> HIDE DEF f
<1>3. Expected(call) = Total(call.kind, f, {}) BY <1>1, <1>2, FoldIsTotal
<1>4. Sum!Over(f, {}) = 0 /\ Peak!Over(f, {}) = 0 BY Sum!OverEmpty, Peak!OverEmpty
<1> QED BY <1>3, <1>4 DEF Total

LEMMA HostTotals == InStep /\ Totalling /\ (Host \/ Spin \/ UNCHANGED vars) => Totalling'
<1> SUFFICES ASSUME InStep, Totalling, Host \/ Spin \/ UNCHANGED vars PROVE Totalling'
  OBVIOUS
<1>1. ASSUME Calling, UNCHANGED <<program, host, kernel>>,
             NEW answer \in {Thrown, <<Expected(Call)>>}, Return(answer)
      PROVE  Totalling'
  <2>1. host = "idle" /\ threads = {} /\ Len(results) < Len(program)
    BY <1>1 DEF Calling, InStep, Launched
  <2>2. threads' = {} /\ DOMAIN sdata' = {} /\ DOMAIN held' = {} /\ host' = "idle"
    BY <1>1, <2>1 DEF kernel, Totalling
  <2>3. Call \in Reductions BY <2>1, CallIsReduction DEF Totalling
  <2> QED BY <1>1, <2>1, <2>2, <2>3, ExpectedIsTotal, ReturnTotals
<1>2. CASE ReturnZero
  <2>1. Call \in Reductions BY <1>2, CallIsReduction DEF ReturnZero, Calling, Totalling
  <2>2. Expected(Call) = 0 BY <1>2, <2>1, EmptyTotal DEF ReturnZero
  <2> QED BY <1>1, <1>2, <2>2 DEF ReturnZero
<1>3. CASE CountOverflows \/ AllocationFails \/ LaunchFails
  BY <1>1, <1>3 DEF CountOverflows, AllocationFails, LaunchFails
<1>4. CASE Launch BY <1>4, LaunchTotals
<1>5. CASE CopyBack \/ CopyFails BY <1>5, CopyBackTotals, CopyFailsTotals
<1>6. CASE Spin \/ UNCHANGED vars
  <2>1. UNCHANGED <<program, results, host, buffer, kernel>> BY <1>6 DEF Spin, vars
  <2>2. Call' = Call BY <2>1 DEF Call
  <2>3. Required' = Required BY <2>2 DEF Required
  <2>4. ResultsAreTotals' <=> ResultsAreTotals BY <2>1 DEF ResultsAreTotals
  <2>5. \A d \in threads : CellRight(d)' <=> CellRight(d)
    BY <2>1, <2>2 DEF kernel, CellRight, CellHolds, Width, tid, BlockOf
  <2> QED BY <2>1, <2>3, <2>4, <2>5 DEF Totalling, kernel
<1> QED BY <1>2, <1>3, <1>4, <1>5, <1>6 DEF Host

LEMMA StepTotalling == InStep /\ Totalling /\ [Next]_vars => Totalling'
<1> SUFFICES ASSUME InStep, Totalling, [Next]_vars PROVE Totalling' OBVIOUS
<1>1. ASSUME NEW d \in threads, Thread(d) PROVE Totalling'
  BY <1>1, LoadTotals, SkipTotals, FetchTotals, StoreTotals, ExitTotals DEF Thread
<1> QED BY <1>1, HostTotals DEF Next

-----------------------------------------------------------------------------
\* For every block size that is a power of two, every program of calls, every
\* vector and every order of the threads, a call of dot or norm_inf that
\* returns a value returns the total of its own vectors, whatever an earlier or
\* a failed call left in the buffer (ResultsAreTotals).
THEOREM ReductionsAreRight == Spec => []ResultsAreTotals
<1>1. InStep /\ Totalling /\ [Next]_vars => InStep' /\ Totalling'
  BY StepInStep, StepTotalling
<1>2. Totalling => ResultsAreTotals BY DEF Totalling
<1> QED BY StartInStep, StartTotalling, <1>1, <1>2, PTL DEF Spec
=============================================================================
