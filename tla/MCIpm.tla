------------------------------- MODULE MCIpm -------------------------------
(***************************************************************************)
(* Calls of the interior point method for TLC: models of one and two       *)
(* variables whose oracle is a sum of squares, and a backend that solves   *)
(* the KKT system, fails, or answers something else.                       *)
(***************************************************************************)
EXTENDS IpmProperties

Steps(p) == [v \in DOMAIN p |-> IF Finite(p[v]) THEN p[v] * Unit ELSE p[v]]

-----------------------------------------------------------------------------
(* The oracle: the objective and each row are sums of weighted squares of  *)
(* distances to a center; nothing is defined at and below the edge.        *)
Square(a) == Product(a, a)
Distances(weight, p, center) ==
    Total([v \in DOMAIN p |-> Product(weight[v], Square(p[v] - center[v]))])
Slopes(weight, p, center) ==
    [v \in DOMAIN p |-> Product(2 * weight[v], p[v] - center[v])]
SquaresAt(m, p) ==
    [finite |-> \A v \in DOMAIN p : p[v] > m.oracle.edge,
     objective |-> Distances(m.oracle.weight, p, m.oracle.center),
     gradient |-> Slopes(m.oracle.weight, p, m.oracle.center),
     values |-> [r \in RowsOf(m) |-> Distances(m.oracle.rows[r].weight, p, m.oracle.rows[r].center)],
     jacobian |-> [r \in RowsOf(m) |-> Slopes(m.oracle.rows[r].weight, p, m.oracle.rows[r].center)]]
SquaresHessian(m, p, multipliers) ==
    [finite |-> \A v \in DOMAIN p : p[v] # m.oracle.kink,
     values |-> [e \in (DOMAIN p) \X (DOMAIN p) |->
        IF e[1] # e[2] THEN 0
        ELSE 2 * (m.oracle.weight[e[1]]
                  + Total([r \in RowsOf(m) |-> Product(multipliers[r], m.oracle.rows[r].weight[e[1]])]))]]

-----------------------------------------------------------------------------
(* The backend: elimination in fixed point.                                *)
Fraction(a, b) == IF b < 0 THEN Quotient(-a, -b) ELSE Quotient(a, b)
RECURSIVE Eliminate(_, _, _)
\* <<>> if a pivot is zero.
Eliminate(a, b, k) ==
    LET n == Len(b) IN
    IF a[<<k, k>>] = 0 THEN <<>>
    ELSE IF k = n THEN <<Fraction(b[n], a[<<n, n>>])>>
    ELSE LET factor(i) == Fraction(a[<<i, k>>], a[<<k, k>>])
             rest == Eliminate(
                [e \in DOMAIN a |-> IF e[1] > k /\ e[2] > k
                                    THEN a[e] - Product(factor(e[1]), a[<<k, e[2]>>]) ELSE a[e]],
                [i \in DOMAIN b |-> IF i > k THEN b[i] - Product(factor(i), b[k]) ELSE b[i]],
                k + 1)
         IN  IF rest = <<>> THEN <<>>
             ELSE <<Fraction(b[k] - Total([j \in DOMAIN rest |-> Product(a[<<k, k + j>>], rest[j])]),
                             a[<<k, k>>])>> \o rest

Failed == [converged |-> FALSE, direction |-> <<>>]
\* What a backend that is off may answer instead: half the direction, its
\* opposite, and a long way along each axis.
Others(direction) ==
    {[i \in DOMAIN direction |-> direction[i] \div 2], Minus(direction)}
      \cup {[i \in DOMAIN direction |-> IF i = j THEN a ELSE 0] :
              j \in DOMAIN direction, a \in {-8 * Unit, 8 * Unit}}
BackendAnswers(q, a, b) ==
    LET direction == Eliminate(a, b, 1)
        solved == IF direction = <<>> THEN {} ELSE {direction}
    IN  {Failed}
          \cup {[converged |-> TRUE, direction |-> d] :
                   d \in solved \cup (IF q.rough THEN UNION {Others(s) : s \in solved} ELSE {})}

-----------------------------------------------------------------------------
(* The models.                                                             *)
Zeros(n) == [v \in 1 .. n |-> 0]
NoSquares(n) == [weight |-> Zeros(n), center |-> Zeros(n)]
Squares(weight, center) == [weight |-> Steps(weight), center |-> Steps(center)]
Row(coefficients, lower, upper, squares) ==
    [linear |-> [coefficients |-> Steps(coefficients), lower |-> lower, upper |-> upper],
     squares |-> squares]
NLP(linear, lower, upper, squares, rows) ==
    [class |-> "NLP", linear |-> Steps(linear), lower |-> Steps(lower), upper |-> Steps(upper),
     quadratic |-> [e \in (DOMAIN linear) \X (DOMAIN linear) |-> 0], offset |-> 0,
     rows |-> [r \in DOMAIN rows |-> rows[r].linear], convex |-> TRUE,
     oracle |-> [weight |-> squares.weight, center |-> squares.center,
                 rows |-> [r \in DOMAIN rows |-> rows[r].squares],
                 edge |-> -Inf, kink |-> Inf]]
Call(m) == [model |-> m, solver |-> "NLP", lower |-> <<>>, upper |-> <<>>,
            warm_start |-> <<>>, usable |-> TRUE, method |-> "Auto",
            iterations |-> 8, rough |-> FALSE]

\* (x - 2)^2 over [-10, 10], alone and with the equation x = 1.
Parabola == NLP(<<0>>, <<-10>>, <<10>>, Squares(<<1>>, <<2>>), <<>>)
Tied == NLP(<<0>>, <<-10>>, <<10>>, Squares(<<1>>, <<2>>),
            <<Row(<<1>>, Unit, Unit, NoSquares(1))>>)
\* The optimum on a bound, on a row, on a circle, free, and of two rows.
OnBound == NLP(<<-1>>, <<-1>>, <<5>>, NoSquares(1), <<>>)
OnRow == NLP(<<-1>>, <<0>>, <<6>>, NoSquares(1), <<Row(<<1>>, -Inf, 4 * Unit, NoSquares(1))>>)
OnCircle == NLP(<<-1>>, <<0>>, <<3>>, NoSquares(1),
                <<Row(<<0>>, -Inf, 4 * Unit, Squares(<<1>>, <<0>>))>>)
Free == NLP(<<1>>, <<-Inf>>, <<Inf>>, Squares(<<1>>, <<3>>), <<>>)
HalfFree == NLP(<<1>>, <<2>>, <<Inf>>, NoSquares(1), <<>>)
TwoRows == NLP(<<1>>, <<-Inf>>, <<6>>, NoSquares(1),
               <<Row(<<1>>, Unit, 5 * Unit, NoSquares(1)),
                 Row(<<1>>, 2 * Unit, Inf, NoSquares(1))>>)
\* Every kind of row in turn.
ManyRows == NLP(<<1, 0>>, <<-4, -4>>, <<4, 4>>, Squares(<<1, 1>>, <<0, 1>>),
                <<Row(<<1, 0>>, -3 * Unit, 3 * Unit, NoSquares(2)),
                  Row(<<1, 0>>, -Inf, Inf, Squares(<<0, 1>>, <<0, 0>>)),
                  Row(<<1, 1>>, Unit, Unit, NoSquares(2)),
                  Row(<<0, 1>>, -Inf, 2 * Unit, Squares(<<1, 0>>, <<0, 0>>))>>)
Corner == NLP(<<-1, -1>>, <<0, 0>>, <<2, 2>>, NoSquares(2),
              <<Row(<<1, 1>>, -Inf, 3 * Unit, NoSquares(2))>>)
CircleAndPlane == NLP(<<0, -1>>, <<-3, -3>>, <<3, 3>>, Squares(<<1, 0>>, <<1, 0>>),
                      <<Row(<<0, 0>>, -Inf, 4 * Unit, Squares(<<1, 1>>, <<0, 0>>))>>)
\* -(x - 1)^2 over [-2, 3]: not convex.
Hill == [NLP(<<0>>, <<-2>>, <<3>>, Squares(<<-1>>, <<1>>), <<>>) EXCEPT !.convex = FALSE]
\* An oracle that is not defined on the left of the box, or at its middle.
Edged == [NLP(<<1>>, <<-4>>, <<4>>, Squares(<<1>>, <<-2>>), <<>>) EXCEPT !.oracle.edge = -Unit]
Solvable == {Parabola, Tied, OnBound, OnRow, OnCircle, Free, HalfFree, ManyRows,
             Corner, CircleAndPlane, Hill, Edged}

Plain == Call(Parabola)
Refused == {
    [Plain EXCEPT !.lower = <<11 * Unit>>],
    [Plain EXCEPT !.upper = <<Unit, Unit>>],
    [Plain EXCEPT !.model.class = "QP"],
    [Plain EXCEPT !.model = NLP(<<>>, <<>>, <<>>, NoSquares(0), <<>>)],
    [Plain EXCEPT !.usable = FALSE],
    [Plain EXCEPT !.method = "PDHG"],
    [Plain EXCEPT !.warm_start = <<0, 0>>],
    [Plain EXCEPT !.model.oracle.edge = 0],                 \* undefined at the start
    [Plain EXCEPT !.model.oracle.kink = 0],                 \* Hessian undefined there
    [Plain EXCEPT !.lower = <<Unit>>, !.upper = <<Unit>>],  \* a fixed variable
    [Call(OnRow) EXCEPT !.warm_start = <<5 * Unit>>]}       \* outside of the row
Restarted == {
    [Plain EXCEPT !.warm_start = <<20 * Unit>>],
    [Plain EXCEPT !.warm_start = <<-10 * Unit>>],
    [Plain EXCEPT !.warm_start = <<2 * Unit>>, !.iterations = 0],
    [Plain EXCEPT !.lower = <<3 * Unit>>, !.upper = <<4 * Unit>>],
    [Call(TwoRows) EXCEPT !.warm_start = <<3 * Unit>>],
    [Call(HalfFree) EXCEPT !.warm_start = <<0>>],
    [Call(OnCircle) EXCEPT !.warm_start = <<Unit>>]}
Rough == {[Call(m) EXCEPT !.rough = TRUE, !.iterations = 3] :
             m \in {Parabola, Tied, OnRow, OnCircle, Edged, ManyRows, Free, Hill}}

AllCalls == {Call(m) : m \in Solvable} \cup Refused \cup Restarted \cup Rough
Lattice == UNION {[1 .. n -> {k * (Unit \div 2) : k \in -12 .. 12}] : n \in 1 .. 2}
=============================================================================
