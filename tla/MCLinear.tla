------------------------------ MODULE MCLinear ------------------------------
(***************************************************************************)
(* The integers modulo 5 as scalars, and calls of solve_linear_system up   *)
(* to order 3.  In a small field inner products are zero often, so that    *)
(* every breakdown is met.                                                 *)
(***************************************************************************)
EXTENDS LinearProperties

Modulus == 5
Residues == 0 .. Modulus - 1
Add(a, c) == (a + c) % Modulus
Subtract(a, c) == (a - c) % Modulus
Multiply(a, c) == (a * c) % Modulus
Divide(a, c) == CHOOSE q \in Residues : Multiply(q, c) = a
Magnitude(a) == IF 2 * a > Modulus THEN Modulus - a ELSE a
Inner(f, g) == FoldFunction(Add, 0, [i \in DOMAIN f |-> Multiply(f[i], g[i])])
Largest(f) ==
    FoldFunction(LAMBDA a, c : IF a < c THEN c ELSE a, 0,
                 [i \in DOMAIN f |-> Magnitude(f[i])])

Csr(rows, columns, offsets, indices, values) ==
    [rows |-> rows, columns |-> columns, row_offsets |-> offsets,
     column_indices |-> indices, values |-> values]
Full2(q) == Csr(2, 2, <<0, 2, 4>>, <<0, 1, 0, 1>>, q)

\* Matrices of order 0 to 3: diagonal, triangular, symmetric, singular, and
\* one whose diagonal is empty.
Order2 ==
    {Full2(q) : q \in {f \in [1 .. 4 -> {0, 1}] : f[3] = f[2] \/ f[2] = 0} \cup
                      {<<2, 1, 1, 3>>, <<1, 2, 3, 4>>, <<3, 1, 0, 2>>, <<2, 4, 4, 0>>}}
Others == {
    Csr(0, 0, <<0>>, <<>>, <<>>), Csr(2, 2, <<0, 1, 2>>, <<1, 0>>, <<1, 1>>),
    Csr(1, 1, <<0, 0>>, <<>>, <<>>), Csr(1, 1, <<0, 1>>, <<0>>, <<3>>)}
Order3 == {Csr(3, 3, <<0, 2, 5, 7>>, <<0, 1, 0, 1, 2, 1, 2>>, <<2, 4, 4, 2, 4, 4, 2>>)}
SquareMatrices == Order2 \cup Others \cup Order3

Request(m, rhs, where, aliased, tolerance, limit) ==
    [matrix |-> m, rhs |-> rhs, rhs_size |-> Len(rhs), solution_size |-> Len(rhs),
     backend |-> where, aliased |-> aliased, tolerance |-> tolerance,
     iteration_limit |-> limit]
Right(n) == {f \in Vectors(n) : n = 3 => f[3] \in {1, 2}}
Solves ==
    {Request(m, f, "cpu", FALSE, tol, limit) :
        m \in SquareMatrices, f \in UNION {Vectors(0), Vectors(1), Vectors(2), Right(3)},
        tol \in {0, 1}, limit \in {1, 5}}
OnCuda == {Request(m, f, "cuda", aliased, tol, limit) :
        m \in {Full2(<<2, 1, 1, 3>>)}, f \in Vectors(2), aliased \in BOOLEAN,
        tol \in {0, -1}, limit \in {-1, 0, 2}}
\* Patterns right and wrong.
Sequences(S, n) == UNION {[1 .. k -> S] : k \in 0 .. n}
Patterns ==
    {Request(Csr(rows, columns, offsets, indices, [k \in DOMAIN indices |-> 2 * k % 5]),
             <<3>>, "cpu", FALSE, -1, 1) :
        rows \in -1 .. 2, columns \in {-1, 1, 2}, offsets \in Sequences(0 .. 3, 3) \ {<<>>},
        indices \in Sequences(-1 .. 1, 3)}
Reversed == Csr(2, 2, <<0, 2, 3>>, <<1, 0, 1>>, <<1, 2, 3>>)
AllRequests ==
    {q \in Solves : q.rhs_size = q.matrix.rows \/ q.rhs = <<1>>} \cup OnCuda
        \cup {q \in Patterns : q.matrix.rows >= 0 \/ q.matrix.row_offsets = <<0>>}
        \cup {Request(Reversed, <<1, 2>>, "cpu", FALSE, 0, 5)}

\* A vector with a coordinate of its own at every place, and the unit vectors.
ProbeVectors(n) ==
    {[j \in 1 .. n |-> j % Modulus]}
        \cup {[j \in 1 .. n |-> IF j = l THEN 1 ELSE 0] : l \in 1 .. n}
=============================================================================
