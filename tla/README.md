# VIKALP verification

TLA+ models of VIKALP's mixed-integer engines, its continuous solvers (PDHG, PDQP,
interior point), the linear algebra and the CUDA reductions below them, and its MPS
reader, checked with TLC on small instances and proved about with TLAPS, for every
value of their constants. Paths are relative to the repository. Line numbers of every modelled definition are in
`PROJECT.json` (`map`); the hazards the properties are for are there too.

## 1. The system

VIKALP solves optimisation models. A call is synchronous and, on the host,
single-threaded: there are no messages and nothing is persisted. The only
threads are those of the CUDA kernels, and the only state they share is in the
reductions. What makes the rest hard is that the engines loop over *answers of callbacks* (a relaxation oracle, a
cut generator, a nonlinear oracle) that may be exact, inexact, useless or
missing, under tolerances, budgets and many early exits, and that a wrong prune
shows up only as a wrong final answer.

```
 MpsReader ──> Model ──> Solver::solve ──┬─ LP/QP/NLP ──> RelaxationOracle (pdhg, pdqp, ipm)
                                         ├─ MILP/MIQP ──> solve_mip ──> RelaxationOracle, CutGenerator
                                         └─ MINLP ──────> solve_oa ───> RelaxationOracle once, then
                                                                         solve_mip on each master
 ipm ──> ExecutionBackend (CPU or CUDA): solve_linear_system     pdhg, pdqp ──> multiply, clamp, ...
```

| Component | State | Operations | Hard | Correct when |
|---|---|---|---|---|
| Branch-and-bound `src/solver/mip/BranchAndBound.cpp` | open queue, node in hand, working rows, incumbent, certificate flag, pseudocost counts, counters, termination | `solve_mip`: entry checks, root, loop (limits, pop, empty box, relax, root cuts, re-relax, bound, prune, round, integral, branch, gap), report | 9 ways out of the loop; a node that is neither open nor fathomed; inexact answers; tolerances on both sides of a test | no wanted point is lost; Optimal, Infeasible and the dual bound mean what they say; it ends |
| Nodes, queue `BbNode.hpp`, `BbQueue.hpp` | override lists, heap | effective bounds, push, pop, `best_bound` | boxes built from lists of overrides; total order | boxes partition; order is total and by bound |
| Pseudocosts `Pseudocosts.hpp` | observation counts, sums | record, `is_reliable`, score | choice of branch variable | choice never affects soundness |
| Rounding cuts `CutGenerator.cpp` | none | `generate` | tolerances on coefficients | a cut removes no wanted point |
| Outer approximation `OuterApproximation.cpp` | master (tangent rows), incumbent, dual bound, node and iteration budgets, termination | `solve_oa`: entry checks, first relaxation, loop (budget, master, candidate, tangents, gap), report | bounds and points of different masters are combined; `IterationLimit` doubles as default | masters relax the model; answers mean what they say; progress |
| Model contract `Model.hpp/.cpp` | the data | `validate`, `problem_class` | nothing after construction | what engines may assume |
| Options, results, oracles (`contracts/`) | none | interfaces | what a status promises | - |
| Routing `Solver.cpp` | none | `solve` by class; built-in oracle | an exception becomes a status; labels | each class reaches its engine |
| MPS reader `MpsReader.cpp` | current section, seen flags, rows, columns, errors | `read`: one step per line, then the stages of the construction | cards and headers are told apart by one word; the model is cleared before a read that may fail | an accepted file means one model |
| PDHG, PDQP, `continuous_common.hpp` | iterates, restarts, residuals | loops with restarts and convergence checks | floating point; two notions of converged | a status matches its certificate |
| Interior point `ipm.cpp` | point and its evaluation, multipliers in two flat lists | refusals, start, KKT step, line search, report | lists walked in step by three loops; rejected trial points; a linear solve that may answer anything | every iterate interior; LocallyOptimal is a KKT point |
| CPU and CUDA backends `cpu_ops.cpp`, `cuda_ops.cu` | matrices, vectors; on CUDA a buffer of partial results | CSR checks and products, BiCGSTAB, reductions | recurrences and breakdowns in mid-iteration; threads and barriers; a buffer that outlives its call | residuals are true; no race; a total is its own call's |
| Refinery example, benchmark runner, Verifier interface | none that matters | data builders, I/O | - | out of scope |

## 2. Modules

| Module | Models | Notes |
|---|---|---|
| `Grid` | scalars, `floor/ceil/round/clamp`, `isfinite` | A scalar is an integer number of steps, `Unit` to the integer 1, so fractional values and rounding are real; `Inf` is `Model::infinity()`. Floating-point round-off is abstracted. |
| `MipModel` | `Model`, `validate`, feasibility and objective | A row's activity is in steps of 1/Unit², an objective in 1/(2·Unit²): no value is ever rounded. |
| `Tolerances` | the tolerances of `SolverOptions` and the gap test | shared by both engines. |
| `BbQueue` | nodes, effective boxes, children, the heap's order | The heap is a set and `IsTop` its comparator; `pop` takes the top. |
| `BranchAndBound` | `solve_mip` | One action per step of the loop body; `pc` names the place. `node` is the node in hand: it has left the queue and is not accounted for yet, which is exactly the state a `break` leaves behind. |
| `RoundingCuts` | `RoundingCutGenerator::generate` | plugged in as the root generator of the runs, alone and with a malformed cut. |
| `MipSolve` | what a mixed-integer solve promises | abstract specification: improve, then answer once, `Optimal`/`Infeasible` only if `Justified`. |
| `OuterApproximation` | `solve_oa` | The master is the set `linearized` of points where tangents were taken; `MasterOf` tabulates it. `solve_mip` on it answers anything `MipSolve!Justified` allows. |
| `PrimalDual` | `solve_lp` (`pdhg.cpp`) and `solve_qp` (`pdqp.cpp`) with `continuous_common.hpp` | One action per pass of the loop, one for the report. A scalar is a step of `Grid` and a product is rounded to a step, so round-off is real but coarser than the code's. The two functions differ in the step length and the term Qx only. |
| `Semidefinite` | `positive_semidefinite` | The factorisation column by column, as a fold; the code's relative tolerance is 0 here, exact on whole numbers. |
| `ContinuousCommon` | scalars, products, overrides and residuals of `continuous_common.hpp` | shared by the three continuous solvers |
| `InteriorPoint` | `solve_nlp` (`ipm.cpp`) | One action per early return and one per pass of the loop, in fixed point as `PrimalDual`. The oracle is the constants `Nonlinear` and `Hessian`, the backend `LinearAnswers`: what it may say of a system, right, wrong or nothing. |
| `Field`, `SparseMatrix` | `CpuVector` and vector sums; CSR patterns and `multiply` | over any field, in exact arithmetic |
| `LinearSolve` | `solve_linear_system` of both backends | BiCGSTAB, one action per way an iteration can end. The backends differ in one point, which `Overwritten` names. |
| `CudaReduction` | `dot` and `norm_inf` of `cuda_ops.cu` with their kernels | Host and threads are processes. Between barriers the threads run in any order, and a fold is two steps, `Fetch` and `Store`; a thread that has reached a barrier goes on when its whole block has. |
| `MpsReader` | `MpsReader::read` | One action per kind of line, one per stage of the construction; a line is its words, and `Numeric` says which words are numbers. |
| `BnbProperties`, `OaProperties`, `PdProperties`, `IpmProperties`, `LinearProperties`, `ReductionProperties`, `MpsProperties` | properties, invariants | `MpsProperties!Meaning` defines the model of a file from the whole file, independently of the reader; `PdProperties!IsSemidefinite` is the definition by principal minors. |
| `MCBnb`, `MCOa`, `MCPd`, `MCIpm`, `MCLinear`, `MCReduction`, `MCMps` | instances for TLC | |
| `FoldTheory` | induction over finite sets and numbers, and what a fold over a set computes, for any operation | `INSTANCE`d by the proofs for sums, maxima, reductions and inductions |
| `BnbProofs` | proofs about branch-and-bound: rounding and extrema; queue and types; soundness, answers, refinement; lowest bound; rounding cuts; size of the search | |
| `OaProofs` | proofs about outer approximation | |
| `PdProofs` | proofs about the first-order solvers and the semidefiniteness test | |
| `IpmProofs`, `LinearProofs`, `ReductionProofs` | proofs about the interior point method, the linear solve, the reductions | |
| `MpsProofs` | proofs about the MPS reader | |

How the two engines compose: `BranchAndBound` is checked and proved to implement
`MipSolve` (`PromiseKept`), and `OuterApproximation` uses of its masters only
`MipSolve!Justified`, plus the two things proved besides: an accepted point
satisfies the master within tolerances (`IncumbentFeasible`) and the reported
bound holds (`ReportedBoundHolds`). Statuses that promise nothing come with any
accepted point or none.

The environment. `Answers` (branch-and-bound) and `InitialReplies` (outer
approximation) enumerate what an oracle may say: Infeasible only of an empty
box, Optimal with a point no feasible point beats, an inexact status with any
point within tolerance, a failure, a solved status with an unusable point, and
any dual bound that is a bound. What is checked and proved of the engines is
conditional on that contract. The built-in solvers do not certify it: their
Optimal is a feasible and stationary point, not a minimiser (section 6), and
they never answer Infeasible. The interior
point method is likewise checked against a backend that may answer anything a
`LinearAnswers` holds, and `LinearSolve` says what the backends do answer: a
solution whose residual is the one reported. Whether the clock has run out, and
whether the CUDA runtime refuses memory, a launch or a copy, is nondeterministic. Left out: messages, solve times, counters
nobody reads back, pseudocost *scores* (any reliable variable may win), NaN
except in the reductions, and a caller's exceptions.

## 3. Runs

| Run | Instance | Shows |
|---|---|---|
| `bnb_exact` | 2 variables, half-integral grid 0..2, 35 models (packing, steep packing, parity with no integral point, MIQP, fractional and stuck boxes, half costs, all objectives over -1..1 with three rows), cuts good and malformed, an oracle that is exact, unusable or fails, 6 nodes | types, boxes stay non-empty and disjoint, bounds valid, Infeasible and the dual bound right, lowest bound never falls |
| `bnb_tolerant` | quarter grid, values one step off the integers, tolerances 1, absolute gap 8, relative 1/8, inexact answers, slack duals, points outside, 5 nodes | coverage, incumbents, Optimal within the gap, a bound on the number of nodes, termination, refinement of `MipSolve` |
| `oa_exact` | 2 variables, 9 models (disk, bowl, a bowl with kinks, a one-point relaxation, an empty model, four refused ones), no tolerances, 2 masters | masters relax, Infeasible answers, termination |
| `oa_tolerant` | 1 variable, quarter grid 0..2, tolerances 1, absolute gap 8, masters that undercut their tangents and bounds below their value, 3 masters | types and budgets, incumbents, dual bound, Optimal within a doubled gap, new candidates |
| `mps_read` | 594 files grown from `tests/io/simple_lp.mps`: two neighbouring sections at a time replaced by variants (repeated values, crossing bounds, unknown names, short and malformed cards, blank lines, missing or trailing sections), sections in other orders; two reads by one reader | an accepted file is read as the model it means, a good one is accepted, errors name the line at fault, refusals have a cause |
| `pd_converge` | 31 calls in one and two variables: optimum inside, on a bound, on a row, in a corner, free, infeasible; refusals, warm starts, overrides; `Unit` 1000, tolerances of 3 steps, 300 iterations; QPs over symmetric matrices of order 2 and 3 with entries -1..2 | steps stay within the convergence condition; Optimal answers are feasible, stationary, and as good as their complementarity residual says; a matrix is refused exactly if it is not semidefinite, unless a zero pivot follows a positive one |
| `ipm_steps` | one and two variables, all kinds of rows (equations, one- and two-sided, free), fixed variables, overrides, warm starts, oracles undefined at and below an edge or without a Hessian at a point; a backend that solves, fails, or answers half, the opposite or something far off; `Unit` 500, tolerances of 40 steps, 8 iterations | iterates stay interior, the Hessian gets the multipliers of its rows, LocallyOptimal answers are KKT points and, of convex models, not beaten on a lattice |
| `linear_solve` | integers modulo 5, 21 square matrices of order 0 to 3 (diagonal, triangular, symmetric, singular, empty diagonal) against all right-hand sides of order 0 to 2 and 50 of order 3, tolerances 0 and 1, both backends, vectors shared; 30 000 CSR patterns, right and wrong | reported residuals are true, order n ends in n iterations, accepted patterns are those of matrices and multiply like them: the unit vectors and one whose coordinates all differ |
| `cuda_reductions` | blocks of 4 threads, one or two blocks, 5 programs of two or three calls, NaN entries, a length that overflows the count of blocks (`IntMax` 10), refused memory, launches and copies | no race, every call returns, and it returns its own total |
| `oa_mixed_rows`, `pd_overshoot`, `pd_matrix` | violations | the findings of section 6 |

Bounds and why they are enough: two variables are the least for branching to
interact (a node's box cut on two sides, a rounding that leaves a row); 6
nodes allow the root, both children and a grandchild with siblings open, so
every way out of the loop is taken with open nodes left; two masters suffice for
a tangent of one to act on the next and for a repeated candidate, three for a
bound from one, an incumbent from another and an answer on a third. `NodeLimit`
bounds the search, `MaxIterations` (50 in the code) the loop, `MinReliable` and
`MostFractionalNodes` (4 and 8) are 1 and 2 so that both branching rules are
used. With `NodeLimit = 1` outer approximation's total of nodes still tells
spent from unspent, which is all the loop reads. Two reads (`MaxReads`) are the
least for one to leave something to the next, and every reader action has a card
that it takes and one it rejects. The solvers' `CheckInterval` is the code's 50;
300 iterations are six looks at the metric, so that steps grow, are halved and
are kept, and every call that converges does so within them. `Unit`, the
tolerances and `RoundOff` (what rounded products may add up to) are chosen
together: a tolerance is several steps, so that convergence is not an artefact of
rounding. What an optimality statement allows for round-off (`Slack`, `Allowance`) grows
with the steps a sum of rounded products may lose, so `RoundOff` is as small as its
instance permits: 6 in `pd_converge`. `NodesAreBounded` is met with equality on the model
`Quadratic`, one unit step and three nodes, below the node limit. `ipm_steps` needs eight
iterations for its easy models to converge and its limits to bite; the constants
of the line search (20 attempts in the code) are 6 so that an exhausted search is
met. In a field of 5 elements inner products vanish often, so every breakdown of
BiCGSTAB is met, and order 3 is the least at which a wrong `beta` shows in the
third iteration. A block of 4 has two levels of the tree, the least at which a
thread may be a barrier ahead of its neighbour; two blocks are the least for a
stale part. `NaN` and `Garbage` are integers no sum of the programs reaches. The
proofs have none of these bounds.

Fairness of the engines and solvers is weak fairness of their one thread, which never
waits and whose callbacks return; `InteriorPoint`, of which no liveness is claimed,
has none. `CudaReduction` has it for the host and for every thread of a launched
kernel: threads of one block that are ready to run are scheduled in the end, since
a block is resident as a whole. Nothing stronger is used. Deadlock is checked in
every run; a returned call stutters (`Returned`, `Finished`), and so does a host that
waits in `cudaMemcpy` (`Spin`), so that a block stuck at a barrier would show in
`CallsReturn`.

## 4. Proofs

Assumptions on the constants, evaluated by TLC in the runs: `GridAssumption`,
`ValuesAssumption` (the grid is closed under rounding), `ToleranceAssumption`,
`SolverAssumption`, `ModelAssumption` (bounds on the grid, finite objectives),
`CutAssumption` (a well-formed cut removes no wanted point), `CutTolAssumption`,
`SettingsAssumption`, `ConvexAssumption` (tangents touch and stay below),
`FilesAssumption` (words are what `>>` yields) and `NumericAssumption` (numbers
are finite), `FieldAssumption`, `OperatorAssumption` (a product with a matrix is
linear), `RequestAssumption` and `ProbeAssumption` for the linear solve, `ReductionAssumption` (a
block is a power of two, a call's vectors have one length, a sum has no NaN in it;
`NaN` is any negative number, as no magnitude is one), `LimitsAssumption` and
`InteriorAssumption`, and `RequestsAssumption` of the continuous solvers: a call has a
model as `Model::validate` leaves it (`IsCall`) and, for the first-order solvers,
coefficients that no scale rounds to zero (`Scalable`). An override may be wrong in
any way a caller can get it wrong.

**Folds.** The provers cannot instantiate the library's induction theorems, whose
parameter is an operator. `FoldTheory` gets around that: a property of sets is given
as the set of the sets that have it (`SetInduction`), so an induction is an ordinary
lemma about a set, and well-founded induction over `SUBSET S` gives what a fold is
worth without its recursion: its type, any element taken out first (`OverAny`), a
union (`OverUnion`), idle entries (`OverSupport`), regrouping by classes
(`OverParts`), two folds in a relation (`OverRelated`), Cauchy-Schwarz for sums
(`WeightedCauchy`). Everything below that speaks of a sum rests on these lemmas.

**Branch-and-bound.** `TypeOK` alone is not inductive: after a pop the body reads
the node and the answer, so `PlaceOK` says what each place may assume, and the
queue only has a top if ids are unique (`QueueWellFormed`). Their conjunction
`Typed` is inductive for *every* oracle. `SearchSound` adds
boxes that are non-empty and disjoint, valid bounds, rows that keep solutions, a
root that is alone, incumbents that satisfy the original model, and that nothing
is lost before the first incumbent; it too is inductive for every oracle.
`AnswerSound` adds `Coverage` and what each reason to stop says (`StopOK`), and needs `ProperOracle` (no `NotSolved` answer, no dual bound
with a point that is not a minimiser): without it a failed relaxation can be read
as an empty tree (section 6). From it follow `OptimalIsOptimal`, `InfeasibleIsInfeasible`,
`ReportedBoundHolds` and the refinement `PromiseKept` (every step is an
improvement, an answer or a stutter of `MipSolve`).

The search is finite by itself (`SearchIsFinite`), whatever the oracle and the cuts and
without a node limit, if `PrimalTol <= IntTol`, which makes every child's box lose at
least one unit step (`ChildrenShrink`). Two invariants count that: `Shallow` (a node's
depth and the unit steps left across its box do not exceed those of the root's box,
`Levels`) and `Counted` (nodes created, plus the nodes a full binary tree may still have
below those open, stay within the tree). So at most 2^(Levels + 1) - 1 nodes are
created. Without the condition a point outside its box by more than `IntTol` is branched on
again and again, and only `node_limit` ends the search.

`BestFirstSearchClimbs` (`LowestBoundNeverFalls`) needs `ExactOracle`: points satisfy
their relaxation exactly, no solved status is inexact, and an answer's value is its bound. Its invariant, `BoundsBelowRelaxations`, is
stronger than `BoundsValid`: a node's bound holds for every *relaxed* point of its box
under the working rows, not only for integral ones. It is kept because rows are only
added and a child's box is in its parent's; so an answer to the top of the queue is
never below what the top carried.

**Rounding cuts.** The engine is proved for any generator that meets `CutAssumption`.
`RoundingCutsMeetTheContract` discharges that for the repository's own with
`int_tol = 0`, on every valid model whose bounds round to finite numbers: over integer
variables and integral coefficients an activity is integral, so a rounded bound loses
nothing. With `int_tol > 0` it may: coefficients that are integral only within `int_tol` let
the activity of a point p drift off the integers by up to `int_tol` times the sum of
|p| over the row. `RoundingCutsLoseTheDrift` says that a cut loses no wanted point by more
than that, as long as the drift does not reach the next integer (beyond that the
rounded bound is an arbitrary one).

**Outer approximation.** `OaTyped` (types, and what each place knows of the last
reply and of the tangents) and `OaLoopOK` (where the incumbent comes from, what
the dual bound remembers, when the loop stops) are inductive with no further
assumption; `OaTypeOK` and `CandidatesAreNew` follow: the tangent at a
candidate makes a master that proposes it again close the gap. Under `RowsSplit`
(at each point only one part of a row is at work) incumbents satisfy the model,
masters relax it, and Infeasible is never said on the word of a master. Under
`TightMasters` as well (no master reports a bound above its own value) the dual
bound holds up to the absolute gap and Optimal answers are within the gap plus
one more absolute gap. The code guarantees neither condition: `oa_mixed_rows`
breaks the first, and section 6 describes a master that breaks the second.

**MPS reader.** `MpsTypeOK` is inductive for every set of files. `RefusalsHaveCause`
speaks of finished reads only; `Stages` adds that no stage runs after an error
and that `accepted` is not set early. `ErrorsNameTheLine` needs the reader's
section tied to the file: `Located` says that it is the section of the last header
before the next line, that no `ENDATA` has been passed, and that the reader can
only reach its last check without one at the end of the file. It holds under
`HeadersPlain`, that no card starts with a keyword (section 6 has what happens
without it). The files of `mps_read` meet it.

That an accepted file is read as the model it means (`FilesMeanTheirModels`), and that a
well-formed one is never refused (`WellFormedIsRead`), compare what one pass collects
with what `Meaning` says of the whole file at once. `ReaderInv` bridges them, under
`HeadersPlain` and nothing else:

- `ReadInv`: as long as there is no error, the members say what the first `position`
  lines say. The rows are the row cards passed; the entries of a variable in a row
  exist exactly if the cards so far mention the pair, and the last of them has the value
  of the latest mention, by line and then by place in the line, wherever the sections
  begin again; the same for right-hand sides; and the bound entries are the bound cards
  in their order.
- `ModelInv`: each stage leaves its closed form. For the bounds this is a fold over the
  entries (`BoundsFolded`): each side of a variable is set by the last entry that sets
  that side, whatever lies between. The folds are taken apart by a set induction in
  `FoldTheory`.
- `GoodInv`: a well-formed file gives no stage a reason for an error, and the model
  it means has no crossing bounds.

`BuiltIsMeant` then reads `Meaning` off the members, part by part. Files in which two
rows have one name are left out by the property itself (`DistinctRows`).

**First-order solvers.** `PdInv` types the state and says that the scaled model is the
one asked for, over positive scales, and that a status is only set with residuals
that were measured. From it:

- `OptimalPointsAreFeasible` for every call, with the tolerance and one step of
  rounding per column, which is what a row's sum of products may lose;
- `OptimalDualsAreStationary` under `DualTol <= ActiveTol` (so with the default
  options; section 6 has what happens otherwise) and `InRange` (no coordinate within
  `DualTol` of the value that stands for infinity, so overflow is left out);
- `LpStepsMeetTheCondition`: for every LP and *every* direction d,
  tau sigma |A d|^2 <= |d|^2 for the scaled matrix. The argument is the code's: scaling
  leaves rows and columns whose absolute sums the operator bound sees, and |A d|^2 is
  at most the largest row sum times the largest column sum times |d|^2, by
  Cauchy-Schwarz in each row and an exchange of sums. It needs `Unit >= 100`, so that
  the factor 0.99 in the step absorbs the rounding of the operator bound. 
- `StepsMeetTheCondition` (`StepsConverge`): the same for LP and QP with every product
  rounded to a step, as the code rounds it, and the quadratic term of PDQP counted: that
  form is bounded by its rows' absolute sums, which the code's bound on |Q| sees. It needs
  a grid that is fine enough (`GridIsFine`: a rounding per row and per column is at most
  a two-hundredth of `Unit`), and `HalvingsAreCovered`: tau is not rounded to zero however
  often the steps are halved;
- `GapsAreWithinComplementarity`: an Optimal answer is as close to every feasible point
  as its residuals and its complementarity say. The stationarity equation is multiplied by
  the step from the answer to the feasible point; sums over rows and over variables are
  exchanged; `SidedInv` says that a multiplier of one sign only belongs to the
  side it is for, so what is left is complementarity, the tolerances times the distance,
  and a step of rounding per product (`RoundOffIsCovered`). The hypotheses besides are
  those of stationarity, `RowsOpenOutwards` (no lower bound of +infinity), arguments in
  range and `ObjectiveIsConvex`;
- `SmallQpsAreJudged`: for models of up to three variables and any entries the pivots
  say what the principal minors say, unless a zero pivot follows a positive one;
- `QpsAreJudged`: the same for every order, with "negative in some direction" in place of
  the minors. The induction runs from the last column back: with a positive pivot the form that
  is left, plus a square, is the old one times the pivot; a pivot of zero needs a
  column of zeros; a negative one is a direction of descent.

**Interior point.** `StaysInterior` is inductive once `IInv` says where the loop
stands and when a status may be set, and it asks nothing of the oracle or of the
linear solver: an attempt is accepted only on its own evaluation, and multipliers
are cut off at the floor. From the same invariant, LocallyOptimal always comes with
three residuals within their tolerances (`LocallyOptimalWithinTolerances`).

That the Hessian gets the multipliers of its rows (`HessianGetsTheRows`) is about
three loops that walk two flat lists in step: the evaluation flattens one list per row
and per bound, the multipliers are as long as it, and the Hessian's caller counts the
same sides again. The invariant `MatchInv` says that the multipliers are as many as the
constraints of the evaluation, whose lists have one length at every point; the proof shows that the *place* at which the evaluation puts a
side (the flattened list), the *offset* at which the caller finds it (a sum of counts
so far) and its *rank* among the sides of its kind are one number. It assumes nothing.

That a LocallyOptimal point is a KKT point of the model that was asked
(`LocallyOptimalAlwaysKkt`) adds `KktInv`: the evaluation in hand is that of
the point, everything is a number, multipliers of inequalities are positive, and an
answered LocallyOptimal is converged with the multipliers in hand. The gradient of the
Lagrangian by the lists is a sum over flat lists; by rows and bounds it is a sum over
rows and variables. `RowsApart` and `OwnBoundsOnly` take the first apart into the
second, with at most one step of rounding for every row with two sides. The hypotheses
are `OracleAnswersNumbers` and `BackendAnswersDirections` (where the oracle and the
backend claim to answer, they answer numbers, as many as were asked for) and
`RowsWithinRoundOff` (`RoundOff` allows a step for every row). The run's instance
meets all three.

`ConvexAlwaysSolved` (`ConvexIsSolved`) goes from there to optimality: of a convex model no
feasible point is better than a LocallyOptimal answer by more than its residuals
allow. The tangents of the objective and of the rows at the answer stay below them
(`ConvexOracle`), the gradient of the Lagrangian times the step to a feasible point is
small, and each multiplier, taken apart by rows and bounds, is on a side that the feasible
point respects. `SidesWithinRoundOff` lets `RoundOff` allow half a step for every side of a
row or bound.

**Linear solve.** `Accounted` ties the two vectors that are only updated: in the
loop, `r` is the residual of `x`, at whichever place an iteration ends. It holds
for every field and every linear operator, whatever the inner product and the
norm: a wrong direction costs iterations, not truth. That the directions are right
is `SolvesEndWithinDimension`: without rounding a solve of order n is over in n
iterations, by convergence or a breakdown. The variables the code keeps do not say
why, so `KrylovInv` adds witnesses. The residual is `q[z]`, where q is a polynomial
in A with one factor `1 - omega A` per iteration, and z a vector that none of the first
`iter` shadows sees: the shadows are the functionals `Dot(r_hat, A^j .)`, and z is
the residual BiCG would have. A product of `r_hat` with `q[u]` is a nonzero factor
times the next shadow of u when the shadows before it vanish on u (`Leads`), so `rho`
and `Denominator` are what BiCG's would be up to factors that `Beta` and `Alpha` divide
out (`DirectionFactor`, `StepLength`). Because `rho` is not zero, the next shadow does see
z; the vectors z of the iterations so far thus form a triangle with the shadows.
n + 1 such vectors do not fit in dimension n (`TrianglesAreShort`, by elimination, one
coordinate at a time), and a residual that is not small is not zero, so the loop
is left by iteration n (`OrderNotUsedUp`). The hypotheses are `FieldLaws`,
`InnerProductIsLinear` (in its second argument) and `NormOfOrigin`
(the norm of the zero vector is 0), which are statements on the constants; the
integers modulo 5 of the run meet them. Over doubles they hold up to rounding only, and the
theorem says nothing of what rounding adds.

**Sparse matrices.** `CsrMatricesMultiply` is `CsrIsTheMatrix` for patterns of every size.
`create_matrix` accepts a pattern exactly if it compresses a set of positions: one
way, the offsets rise (an induction over the rows), so every entry is in one row, and
the k-th entry is the position with k - 1 positions before it; the other way, the ranks
of n positions are n different numbers below n, so every entry has its position, and
the offsets of a row are passed by the ranks of its positions only. The products are sums by parts
(`OverParts`): the entries of a row fall apart by columns, those scattered to a column by
rows, and a cell holds one entry or none. Scattering starts from the scaled vector, which is a
fold with another start (`OverFrom`). The hypotheses are `RingLaws` (Scalars are a
commutative ring; rounding is outside the model) and `PatternsGiven` (arguments have the
types of the C++ parameters, with as many values as column indices, which `set_values` requires); the
run's instance meets both. The vectors multiplied are the constant operator `Probes`, any
set of vectors for the theorem; those of the run tell every row and every column apart.

**Reductions.** `InStep` is inductive: two threads of a block are never more than
one barrier apart, and the one ahead has the next stride. Race freedom follows for
every power of two: threads between the same two barriers have the same stride,
those below it write their own cell and read it and one a stride further.
`ReductionsAreRight` adds `Totalling`: before a level of stride s, the first 2s cells of
a block hold the totals of their residue classes modulo 2s of what the block's threads
brought in, and the 2s cells after them still hold those modulo 4s, which a slower thread
may be about to read. At stride 0 one cell holds the block's total; the parts of this
call's blocks are in the buffer's first cells whatever an earlier call left behind them;
and totals of blocks are the total of the vector (`OverParts`). For `norm_inf` this includes vectors with NaN, since a maximum that
drops NaN is still associative and commutative on the values the kernel folds.

Only model-checked, and why:

- `Termination`, `OaTermination`, `CallsReturn`: liveness, and `ENABLED` is out of the
  prover's reach.
- `RegularMatricesAreJudged` by principal minors for orders over three; what it means for
  the caller, the form negative in no direction, is `QpsAreJudged`, for every order.
- `oa_mixed_rows`, `pd_overshoot`, `pd_matrix` are counterexamples.

The other way round, the search invariant `SearchInv`, `NothingLostBeforeIncumbent` and
`MpsTypeOK` are proved and have no run: TLC would only repeat them. Sums over
variables in branch-and-bound and outer approximation (`EvaluateObjective`, `Activity`,
tangents) are used as values, under the assumptions above, and never computed, but
for the rows of the rounding cuts and the boxes that are counted.

## 5. Not modelled, and the plan

Done in this order, most important first: grid and model; queue; branch-and-bound;
rounding cuts; `MipSolve` and the refinement; the proofs of branch-and-bound;
outer approximation and its proofs; the MPS reader and its proofs; the
first-order solvers and the semidefiniteness test; the interior point method, the
CUDA reductions and the linear solve, each with its proofs; optimality from residuals,
the size of the search, the contract of the rounding cuts, and the length of a linear
solve. What could follow:

1. `ReportedBoundHolds` for searches broken off at a node, once the code counts that
   node's bound.
2. Rounding in the linear solve: how far the updated residual drifts from the true one.

`Solver` routing (`Solver.cpp` 28-146) has no module: it is a dispatch without state.
The engines' modules take its oracle as their environment, and their
`FailureStatuses` may hold what it answers for an exception (`NumericalFailure`) or a
model without a relaxation (`UnsupportedModel`).

Of the reader, fractional numbers, the model's name, the wording of errors and
files with a row named twice (where the code keeps the later one, and the
reference is silent) are left out. Of the continuous solvers, NaN, overflow and
the tests for them, and the tolerance of the semidefiniteness test. Of the linear
solve, rounding: the field is exact, and what
is proved of residuals is what the recurrence promises before round-off drifts.

Not planned: elementwise kernels, transfers and cuSPARSE products (no control state,
every thread has an element of its own), the Refinery data builder and the
benchmark runner (no behaviour of their own), the Verifier interface (nothing
implements it). Kept out on purpose: oracles that throw, and models whose
nonlinear oracle breaks its convex contract.

## 6. Findings

Each of these has a run that ends in a counterexample:

- **Mixed rows are tested part by part** (`oa_mixed_rows`,
  `OuterApproximation.cpp:55` and `71`), so incumbents may violate
  `row_lower <= Ax + g(x) <= row_upper` of `Model.hpp:40`.
- **Optimal without complementarity** (`pd_overshoot`, `pdhg.cpp:250`): min x
  subject to x/2 >= 5 and 0 <= x <= 12 is answered 12: the row is slack and still has a
  multiplier, and that of the bound 12 takes the difference to the cost.
- **The semidefiniteness test with a zero pivot inside** (`pd_matrix`,
  `continuous_common.hpp:259`) refuses the all-ones matrix of order 3, which is the
  counterexample. The same lines accept [[1,1,1],[1,1,0],[1,0,1]], of determinant -1.

Noted without a run of their own:

- A failed relaxation can answer Infeasible (`BranchAndBound.cpp:482`): `NotSolved` is
  both an oracle's failure and the mark for "no early stop". `bnb_exact` with
  `NotSolved` among its `FailureStatuses` has `InfeasibleIsInfeasible` violated.
- The dual bound forgets the node in hand (`BranchAndBound.cpp:472`) after a break
  inside the body; at the root it is +infinity. `ReportedBoundHolds` says nothing of
  such searches.
- Giving up can be reported as Infeasible (`OuterApproximation.cpp:330`): the loop's
  default status `IterationLimit` without an incumbent becomes Infeasible.
  `InfeasibleIsNotProof` says that this is the only way.
- "Works for general square A" (`cpu_ops.cpp:464`) does not hold of BiCGSTAB as it is
  written: with A = [[0, 1], [1, 0]] and b = (1, 0) the first denominator is 0 and the
  solve ends unconverged with x = 0.
- `std::max` drops NaN (`cpu_ops.cpp:212`, `243`), so a solve whose `alpha` overflows has a
  residual of 0 and reports convergence. The CUDA reductions drop NaN too.
- On CUDA the solution is cleared before the right-hand side is copied
  (`cuda_ops.cu:563`): if both are one vector, the solve is one with right-hand side 0.
  The CPU backend solves it. `ReportedResidualIsTrue` leaves this out (`Overwritten`).
- The number of blocks is computed in `int` (`cuda_ops.cu:192`) and overflows for vectors
  within `BLOCK` of its limit.
- The interior point method has no phase one: a start that is not strictly inside is
  NumericalFailure (`ipm.cpp:275`), and with a fixed variable every start is.
- Its filter compares violations with `<=` (`ipm.cpp:449`). Without equations both are 0
  and the first interior trial passes, whatever it does to the objective; the comment
  at 431 speaks of progress.
- The dual bound of an Optimal answer can exceed its objective
  (`BranchAndBound.cpp:472`), since a negative gap counts as closed (168): on the
  model `Steep` of `MCBnb` the objective is -48 and the dual bound -36, in steps
  of 1/8. `ReportedBoundHolds` therefore compares with the smaller of the two, and
  `OuterApproximation.cpp:282` takes the larger for a bound of the model.
- Right-hand sides in a set named `RHS` are dropped (`MpsReader.cpp:89`): each card
  is taken for a header, and the file is accepted. `mps_read` with
  `Files <- NamedRhs` has `MeansTheFile` violated.
- A file whose bounds cross, as with `UP` below 0 and no `LO`, is refused with
  `errors()` empty (`MpsReader.cpp:551`); the caller of `README.md:114` prints
  nothing then.
- Bound duals are left at 0 when `dual_tolerance` is more than ten times
  `primal_tolerance` (`pdhg.cpp:213`), and the stationarity of
  `SolveResult.hpp:31` fails: `pd_converge` with `Requests <- NearBoundCall`,
  `PrimalTol = 1` and `DualTol = 30` has `DualsAreStationary` violated.
- Override lists are in branching order, not sorted as `BbNode.hpp:42` says; no code
  depends on it.
- Step 4 of `OuterApproximation.hpp` ("Fix integers, solve NLP subproblem") is not
  in the code, so an incumbent is always a master's own point.
- `integrality_residual` is set to 0 (`OuterApproximation.cpp:324`) for points that
  are integral only within tolerance.
- With `InexactBounds` a relaxation that is merely feasible but carries a dual bound
  certifies a node (`BranchAndBound.cpp:357`) whose integral point need not be the
  best of its box.
