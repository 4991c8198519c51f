----------------------------- MODULE RowReduce -----------------------------
(***************************************************************************)
(* row_reduce of                                                           *)
(* src/src/algebra_core/include/algebra_core/generic_algorithms.hh over    *)
(* any field of Rings: Gauss-Jordan elimination in place, one column of    *)
(* the outer loop at a time.                                               *)
(***************************************************************************)
EXTENDS Rings, SequencesExt

CONSTANT Matrices        \* <<field, matrix>>: what a caller may pass

VARIABLES field, original,     \* the arguments
          matrix,              \* the rows, reduced in place
          col, pivot_row       \* the next column and the next row without a pivot

rowVars == <<field, original, matrix, col, pivot_row>>

Rows == Len(matrix)
Cols == IF matrix = <<>> THEN 0 ELSE Len(matrix[1])

RowReduceInit ==
    /\ \E m \in Matrices : field = m[1] /\ original = m[2]
    /\ matrix = original /\ col = 1 /\ pivot_row = 1

Running == col <= Cols /\ pivot_row <= Rows

\* The first row from pivot_row on with an entry in the column, Rows + 1 if none has.
Selected(m, c, first) ==
    LET candidates == {k \in first .. Len(m) : ~is_zero(field, m[k][c])}
    IN IF candidates = {} THEN Len(m) + 1 ELSE Min(candidates)

Scaled(row, factor)         == [c \in DOMAIN row |-> mul(field, row[c], factor)]
Reduced(row, factor, pivot) == [c \in DOMAIN row |-> sub(field, row[c], mul(field, factor, pivot[c]))]

\* Mutant: clears only the rows below the pivot.
ClearedBelow(m, p, c) ==
    [k \in DOMAIN m |-> IF k <= p \/ is_zero(field, m[k][c]) THEN m[k]
                        ELSE Reduced(m[k], m[k][c], m[p])]

\* Every other row with an entry in the pivot's column loses it.
Cleared(m, p, c) ==
    [k \in DOMAIN m |-> IF k = p \/ is_zero(field, m[k][c]) THEN m[k]
                        ELSE Reduced(m[k], m[k][c], m[p])]

\* One column: swap the pivot up, make it one, clear the column.
Eliminate ==
    LET chosen  == Selected(matrix, col, pivot_row)
        swapped == [matrix EXCEPT ![chosen] = matrix[pivot_row], ![pivot_row] = matrix[chosen]]
        pivot   == Scaled(swapped[pivot_row], inv(field, swapped[pivot_row][col]))
    IN /\ Running /\ col' = col + 1 /\ UNCHANGED <<field, original>>
       /\ IF chosen = Rows + 1 THEN UNCHANGED <<matrix, pivot_row>>
          ELSE /\ matrix' = Cleared([swapped EXCEPT ![pivot_row] = pivot], pivot_row, col)
               /\ pivot_row' = pivot_row + 1

RowReduceSpec == RowReduceInit /\ [][Eliminate]_rowVars

-----------------------------------------------------------------------------
\* The sum of the products, from the left.
Dot(F, row, v) ==
    LET sum[c \in 0 .. Len(v)] ==
            IF c = 0 THEN zero(F) ELSE add(F, sum[c - 1], mul(F, row[c], v[c]))
    IN sum[Len(v)]

Orthogonal(F, m, v) == \A k \in DOMAIN m : is_zero(F, Dot(F, m[k], v))

\* The linear system is the same: a vector is orthogonal to the rows now if
\* and only if it was at the start (all vectors over a finite field, those
\* with small entries over the rationals).
SolutionsKept ==
    LET elements == {element(field, n) : n \in 0 .. field.bound - 1}
    IN \A v \in [1 .. Cols -> elements] : Orthogonal(field, matrix, v) <=> Orthogonal(field, original, v)

\* The column of the first entry of a row, Cols + 1 for a zero row.
Leading(row) == LET entries == {c \in DOMAIN row : ~is_zero(field, row[c])}
                IN IF entries = {} THEN Cols + 1 ELSE Min(entries)

\* When the loop ends the matrix is in reduced row echelon form: leading ones
\* move right, stand alone in their columns, and zero rows come last.
EndsReduced ==
    ~Running =>
      \A k \in DOMAIN matrix : LET lead == Leading(matrix[k]) IN
        /\ \A l \in k + 1 .. Rows : Leading(matrix[l]) > (IF lead > Cols THEN Cols ELSE lead)
        /\ lead <= Cols => /\ matrix[k][lead] = one(field)
                           /\ \A l \in DOMAIN matrix \ {k} : is_zero(field, matrix[l][lead])

\* Row reduction keeps the solutions of the system in every step and ends in
\* reduced row echelon form.
ReducesTheSystem == SolutionsKept /\ EndsReduced
=============================================================================
