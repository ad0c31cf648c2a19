-------------------------------- MODULE MCPd --------------------------------
(***************************************************************************)
(* Calls of the first-order solvers for TLC: models of one and two         *)
(* variables with their optimum inside, on a bound, on a row and where     *)
(* rows and bounds meet, with coefficients that need scaling.              *)
(***************************************************************************)
EXTENDS PdProperties

Steps(p) == [v \in DOMAIN p |-> IF Finite(p[v]) THEN p[v] * Unit ELSE p[v]]
NoCurve(n) == [e \in (1 .. n) \X (1 .. n) |-> 0]
Row(coefficients, lower, upper) ==
    [coefficients |-> coefficients, lower |-> lower, upper |-> upper]

Model(class, linear, lower, upper, quadratic, rows) ==
    [class |-> class, linear |-> linear, lower |-> Steps(lower), upper |-> Steps(upper),
     quadratic |-> quadratic, offset |-> 0, rows |-> rows]
LP(linear, lower, upper, rows) ==
    Model("LP", linear, lower, upper, NoCurve(Len(linear)), rows)
Diagonal(q) == [e \in (DOMAIN q) \X (DOMAIN q) |-> IF e[1] = e[2] THEN q[e[1]] ELSE 0]
QP(linear, lower, upper, q, rows) == Model("QP", linear, lower, upper, Diagonal(q), rows)

Call(m) == [model |-> m, solver |-> m.class, lower |-> <<>>, upper |-> <<>>,
            warm_start |-> <<>>, usable |-> TRUE, method |-> "Auto"]

Half == Unit \div 2
\* min x with x/2 >= 5: the optimum is 10; the box ends at 12.
Overshoot == LP(<<Unit>>, <<0>>, <<12>>, <<Row(<<Half>>, 5 * Unit, Inf)>>)

\* max x below a bound that five steps of the method just miss: with PrimalTol 1
\* and DualTol 30, DualsAreStationary does not hold of the answer.
NearBound == [LP(<<-Unit>>, <<0>>, <<5>>, <<>>) EXCEPT !.upper = <<5 * Safe + 15>>]

LPs == {
    LP(<<-Unit>>, <<0>>, <<10>>, <<>>),
    LP(<<-Unit>>, <<0>>, <<20>>, <<Row(<<Unit>>, -Inf, 3 * Unit)>>),
    LP(<<Unit>>, <<0>>, <<30>>, <<Row(<<Half>>, 5 * Unit, Inf)>>),
    LP(<<Unit, 2 * Unit>>, <<0, 0>>, <<4, 4>>, <<Row(<<Unit, Unit>>, 3 * Unit, Inf)>>),
    LP(<<-Unit, -Unit>>, <<0, 0>>, <<Inf, Inf>>,
       <<Row(<<Unit, 2 * Unit>>, -Inf, 4 * Unit), Row(<<2 * Unit, Unit>>, -Inf, 4 * Unit)>>),
    LP(<<Unit, -Unit>>, <<-2, -2>>, <<2, 2>>, <<Row(<<Unit, Unit>>, 0, 0)>>),
    LP(<<Unit, Unit>>, <<0, 0>>, <<3, 3>>,
       <<Row(<<4 * Unit, Unit>>, 4 * Unit, 8 * Unit), Row(<<0, 2 * Unit>>, 2 * Unit, Inf)>>),
    LP(<<Unit>>, <<0>>, <<5>>,
       <<Row(<<Unit>>, Unit, Inf), Row(<<Unit>>, -Inf, 4 * Unit), Row(<<Unit>>, 0, 3 * Unit)>>),
    LP(<<Unit>>, <<0>>, <<2>>, <<Row(<<Unit>>, 2 * Unit + Half, Inf)>>)}       \* infeasible

\* The metric rises between two checks: the steps are halved.
Rising == {
    LP(<<Unit>>, <<0>>, <<30>>, <<Row(<<Unit \div 5>>, 2 * Unit, Inf)>>),
    LP(<<Half>>, <<0>>, <<30>>, <<Row(<<Unit \div 10>>, Unit, Inf)>>),
    LP(<<-(Unit \div 10)>>, <<0>>, <<30>>, <<Row(<<3 * (Unit \div 10)>>, 3 * Unit, Inf)>>)}

QPs == {
    QP(<<-2 * Unit>>, <<0>>, <<4>>, <<Unit>>, <<>>),
    QP(<<-3 * Unit>>, <<-Inf>>, <<Inf>>, <<2 * Unit>>, <<Row(<<Unit>>, -Inf, Unit)>>),
    QP(<<0, 0>>, <<-2, -2>>, <<2, 2>>, <<Unit, 2 * Unit>>, <<Row(<<Unit, Unit>>, 3 * Unit, Inf)>>),
    QP(<<-Unit, Unit>>, <<0, 0>>, <<3, 3>>, <<4 * Unit, 0>>, <<Row(<<2 * Unit, -Unit>>, 0, 0)>>)}

\* An LP and a QP the refusals are varied on.
Plain == Call(LP(<<Unit>>, <<0>>, <<2>>, <<Row(<<Unit>>, Unit, Inf)>>))
Bowl == Call(QP(<<-2 * Unit>>, <<0>>, <<4>>, <<Unit>>, <<>>))
Refused == {
    [Plain EXCEPT !.lower = <<3 * Unit>>],
    [Plain EXCEPT !.upper = <<Unit, Unit>>],
    [Plain EXCEPT !.model.rows[1].upper = 0],
    [Plain EXCEPT !.solver = "QP"],
    [Plain EXCEPT !.model = LP(<<>>, <<>>, <<>>, <<>>)],
    [Plain EXCEPT !.usable = FALSE],
    [Plain EXCEPT !.method = "IPM"],
    [Plain EXCEPT !.warm_start = <<0, 0>>],
    Call(QP(<<0>>, <<0>>, <<4>>, <<-Unit>>, <<>>))}
Restarted == {
    [Plain EXCEPT !.warm_start = <<9 * Unit>>],
    [Plain EXCEPT !.lower = <<Unit>>, !.upper = <<2 * Unit>>],
    [Plain EXCEPT !.lower = <<0>>, !.upper = <<0>>],
    [Bowl EXCEPT !.warm_start = <<3 * Unit>>],
    [Bowl EXCEPT !.upper = <<Unit>>],
    [Bowl EXCEPT !.upper = <<0>>]}

\* All symmetric matrices of order 2 and 3 with small entries, in steps, over a
\* box of one point.
Symmetric(n) ==
    {q \in [(1 .. n) \X (1 .. n) -> -1 .. 1] :
        \A i, j \in 1 .. n : i < j => q[<<i, j>>] = q[<<j, i>>]}
PlusIdentity(q) == [e \in DOMAIN q |-> IF e[1] = e[2] THEN q[e] + 1 ELSE q[e]]
Quadratic(n, q) ==
    LET zero == [v \in 1 .. n |-> 0] IN Call(Model("QP", zero, zero, zero, q, <<>>))
Matrices == UNION {{Quadratic(n, q) : q \in Symmetric(n) \cup {PlusIdentity(p) : p \in Symmetric(n)}} :
                   n \in 2 .. 3}
AllOnesCall == {Quadratic(3, [e \in (1 .. 3) \X (1 .. 3) |-> 1])}

LpCalls == {Call(m) : m \in LPs \cup Rising}
QpCalls == {Call(m) : m \in QPs}
AllCalls == LpCalls \cup QpCalls \cup Refused \cup Restarted \cup Matrices
OvershootCall == {Call(Overshoot)}
NearBoundCall == {Call(NearBound)}
Lattice == UNION {[1 .. n -> {k * Unit : k \in -2 .. 12}] : n \in 1 .. 2}
SmallDirections == UNION {[1 .. n -> -2 .. 2] : n \in 1 .. 2}
=============================================================================
