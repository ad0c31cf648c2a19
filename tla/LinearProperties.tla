-------------------------- MODULE LinearProperties --------------------------
(***************************************************************************)
(* What the backends' linear algebra promises.                             *)
(***************************************************************************)
EXTENDS LinearSolve, FiniteSets

CONSTANT Probes(_)    \* vectors of an order, to multiply accepted matrices by

ASSUME ProbeAssumption ==
    \A q \in Requests : ValidPattern(q.matrix) =>
        \A n \in {q.matrix.rows, q.matrix.columns} : Probes(n) \subseteq Vectors(n)

\* However the solve ends, the residual it reports is that of the solution it
\* leaves, and converged says whether it is within the tolerance: although r
\* is only updated, never computed, a breakdown may come in mid-step, and on
\* CUDA a right-hand side that is also the solution is lost
\* (cpu_ops.cpp:184-264, cuda_ops.cu:575-651).
ReportedResidualIsTrue ==
    pc = "returned" /\ ~Overwritten =>
        /\ result.residual = Norm(Residual(request.rhs, x))
        /\ result.converged <=> result.residual <= request.tolerance

\* Without rounding a solve of order n is over in n iterations, by convergence
\* or by a breakdown: the recurrences keep the residuals orthogonal to what
\* the shadow residual spans (cpu_ops.cpp:188-255).
EndsWithinDimension ==
    pc \in {"loop", "returned"} => result.iterations <= size

-----------------------------------------------------------------------------
\* The pattern of a set of positions, row by row.
Positions(m) == (1 .. m.rows) \X (1 .. m.columns)
Before(p1, p2) == p1[1] < p2[1] \/ (p1[1] = p2[1] /\ p1[2] < p2[2])
Compresses(m, where) ==
    /\ Len(m.column_indices) = Cardinality(where)
    /\ \A q \in where : m.column_indices[Cardinality({o \in where : Before(o, q)}) + 1] = q[2] - 1
    /\ m.row_offsets = [i \in 1 .. m.rows + 1 |-> Cardinality({o \in where : o[1] < i})]

\* A matrix by rows and columns, and its products by definition.
Cell(m, i, j) ==
    LET at == {k \in Row(m, i) : m.column_indices[k] + 1 = j}
    IN  IF at = {} THEN Zero ELSE m.values[CHOOSE k \in at : TRUE]
AddUp(f) == FoldFunction(Plus, Zero, f)
Axpby(a, f, c, g) == [i \in DOMAIN g |-> Plus(Times(a, f[i]), Times(c, g[i]))]

MultipliesRows(m, a, u, c, w) ==
    MultiplyNo(a, m, u, c, w) = Axpby(a,
        [i \in 1 .. m.rows |->
            AddUp([j \in 1 .. m.columns |-> Times(Cell(m, i, j), u[j])])], c, w)
MultipliesColumns(m, a, w, c, u) ==
    MultiplyYes(a, m, w, c, u) = Axpby(a,
        [j \in 1 .. m.columns |->
            AddUp([i \in 1 .. m.rows |-> Times(Cell(m, i, j), w[i])])], c, u)

\* create_matrix accepts exactly the patterns of sets of positions, and what it
\* accepts multiplies every probe like the matrix it stands for, in both
\* directions: every entry meets the coordinate of its column, or of its row
\* (cpu_ops.cpp:38-63, 393-460).
CsrIsTheMatrix ==
    LET m == request.matrix IN
    pc = "call" =>
        /\ ValidPattern(m) <=>
              /\ m.rows >= 0 /\ m.columns >= 0
              /\ \E where \in SUBSET Positions(m) : Compresses(m, where)
        /\ ValidPattern(m) =>
              \A a, c \in Scalars, u \in Probes(m.columns), w \in Probes(m.rows) :
                  MultipliesRows(m, a, u, c, w) /\ MultipliesColumns(m, a, w, c, u)
=============================================================================
