-------------------------- MODULE ContinuousCommon --------------------------
(***************************************************************************)
(* What the continuous solvers share: fixed-point arithmetic, calls and    *)
(* the helpers of continuous_common.hpp.                                   *)
(*                                                                         *)
(* A scalar is an integer number of steps of Grid, Unit steps to 1, and a  *)
(* product is rounded to a step: round-off is real here, only coarser than *)
(* the code's.  NaN and overflow are left out.                             *)
(*                                                                         *)
(* A model is a record                                                     *)
(*   class        "LP", "QP", "NLP" or "other": Model::problem_class       *)
(*   lower, upper, linear     of the variables 1 .. Len(linear)            *)
(*   quadratic    Q as a function on pairs of variables (zero for an LP)   *)
(*   offset       objective_offset                                         *)
(*   rows         a sequence of rows [coefficients, lower, upper]          *)
(* and a request is a call: a record                                       *)
(*   model, solver            solver: the class of the function called     *)
(*   lower, upper, warm_start the overrides and the start, <<>> if absent  *)
(*   usable, method           valid_options and continuous_method          *)
(***************************************************************************)
EXTENDS Grid, Sequences, Functions

Product(a, b) == (a * b + Unit \div 2) \div Unit
Quotient(a, b) == (a * Unit) \div b
Total(f) == FoldFunction(+, 0, f)
Largest(f) == FoldFunction(Larger, 0, f)

Times(f, g) == Total([i \in DOMAIN f |-> Product(f[i], g[i])])
NormInf(f) == Largest([i \in DOMAIN f |-> Magnitude(f[i])])

Difference(f, g) == [i \in DOMAIN f |-> f[i] - g[i]]

-----------------------------------------------------------------------------
(* The model and its residuals.                                            *)
ColumnsOf(m) == DOMAIN m.linear
RowsOf(m) == DOMAIN m.rows

Curved(m, quadratic, point) ==
    [v \in ColumnsOf(m) |->
        Total([w \in ColumnsOf(m) |-> Product(quadratic[<<v, w>>], point[w])])]
RowValues(m, matrix, point) == [r \in RowsOf(m) |-> Times(matrix[r], point)]
Coefficients(m) == [r \in RowsOf(m) |-> m.rows[r].coefficients]
ObjectiveValue(m, point) ==
    m.offset + Times(m.linear, point) + Times(point, Curved(m, m.quadratic, point)) \div 2

Violation(a, lower, upper) ==
    Larger(IF Finite(lower) THEN Larger(0, lower - a) ELSE 0,
           IF Finite(upper) THEN Larger(0, a - upper) ELSE 0)

-----------------------------------------------------------------------------
(* The call.                                                               *)
LowerBounds(q) == IF q.lower = <<>> THEN q.model.lower ELSE q.lower
UpperBounds(q) == IF q.upper = <<>> THEN q.model.upper ELSE q.upper
Sized(q, list) == list = <<>> \/ Len(list) = Len(q.model.linear)
BoundsCopied(q) ==
    /\ Sized(q, q.lower) /\ Sized(q, q.upper)
    /\ \A v \in ColumnsOf(q.model) : LowerBounds(q)[v] <= UpperBounds(q)[v]
\* What Model::validate asks of the lists of a model: as long as there are
\* variables, or rows, and Q stored symmetrically.
IsModel(m) ==
    LET n == 1 .. Len(m.linear) IN
    /\ m.linear \in Seq(Int) /\ m.offset \in Int
    /\ m.lower \in [n -> Int] /\ m.upper \in [n -> Int]
    /\ m.quadratic \in [n \X n -> Int]
    /\ \A i, j \in n : m.quadratic[<<i, j>>] = m.quadratic[<<j, i>>]
    /\ m.rows \in Seq([coefficients : [n -> Int], lower : Int, upper : Int])
IsCall(q) ==
    /\ IsModel(q.model)
    /\ {q.lower, q.upper, q.warm_start} \subseteq Seq(Int)
Ordered(m) ==
    /\ \A v \in ColumnsOf(m) : m.lower[v] <= m.upper[v]
    /\ \A r \in RowsOf(m) : m.rows[r].lower <= m.rows[r].upper
=============================================================================
