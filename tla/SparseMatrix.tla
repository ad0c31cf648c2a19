---------------------------- MODULE SparseMatrix ----------------------------
(***************************************************************************)
(* CSR matrices of the CPU backend (backend/cpu_ops.cpp): which patterns   *)
(* create_matrix accepts, and multiply in both directions.                 *)
(*                                                                         *)
(* A matrix is [rows, columns, row_offsets, column_indices, values], the   *)
(* offsets and column indices as the code has them, from zero.             *)
(***************************************************************************)
EXTENDS Field, Sequences, Functions

Row(m, i) == m.row_offsets[i] + 1 .. m.row_offsets[i + 1]

\* validate_pattern.
OffsetsDescribe(m) ==
    /\ m.rows >= 0 /\ m.columns >= 0
    /\ Len(m.row_offsets) = m.rows + 1
    /\ m.row_offsets[1] = 0
    /\ m.row_offsets[m.rows + 1] = Len(m.column_indices)
RowsAreRanges(m) ==
    \A i \in 1 .. m.rows :
        /\ 0 <= m.row_offsets[i] /\ m.row_offsets[i] <= m.row_offsets[i + 1]
        /\ m.row_offsets[i + 1] <= Len(m.column_indices)
ColumnsInRange(m) ==
    \A k \in DOMAIN m.column_indices : m.column_indices[k] \in 0 .. m.columns - 1
ColumnsInOrder(m) ==
    /\ ColumnsInRange(m)
    /\ \A i \in 1 .. m.rows : \A k, l \in Row(m, i) :
          k < l => m.column_indices[k] < m.column_indices[l]
ValidPattern(m) == OffsetsDescribe(m) /\ RowsAreRanges(m) /\ ColumnsInOrder(m)

-----------------------------------------------------------------------------
\* Mutant: column indices read as counted from one.
EntryFromOne(m, k, x) ==
    Times(m.values[k], x[IF m.column_indices[k] = 0 THEN 1 ELSE m.column_indices[k]])
Entry(m, k, x) == Times(m.values[k], x[m.column_indices[k] + 1])

MatVec(m, x) ==
    [i \in 1 .. m.rows |->
        FoldFunctionOnSet(Plus, Zero,
            [k \in DOMAIN m.values |-> Entry(m, k, x)], Row(m, i))]

MultiplyNo(alpha, m, x, beta, y) ==
    LET product == MatVec(m, x)
    IN  [i \in 1 .. m.rows |-> Plus(Times(alpha, product[i]), Times(beta, y[i]))]

\* y is scaled first, then every entry is scattered to its column.
\* Mutant: the entries of a column are found by the row's number.
RowOf(m, k) == CHOOSE i \in 1 .. m.rows : k \in Row(m, i)
ScatterByRow(m, j) == {k \in DOMAIN m.values : RowOf(m, k) = j}
Scatter(m, j) == {k \in DOMAIN m.values : m.column_indices[k] + 1 = j}
MultiplyYes(alpha, m, x, beta, y) ==
    [j \in 1 .. m.columns |->
        FoldFunctionOnSet(Plus, Times(beta, y[j]),
            [k \in DOMAIN m.values |-> Times(m.values[k], Times(alpha, x[RowOf(m, k)]))],
            Scatter(m, j))]
=============================================================================
