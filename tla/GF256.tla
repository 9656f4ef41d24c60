------------------------------- MODULE GF256 -------------------------------
(***************************************************************************)
(* GF(2^8) arithmetic and the Reed-Solomon linear-system solver of         *)
(* FecGroupBuffer (fec_group_buffer.cpp): the exp/log tables built by      *)
(* init_gf_tables, gf_mul_fast, gf_inv, the Vandermonde entries of         *)
(* build_vandermonde_matrix and the per-byte Gauss-Jordan elimination of   *)
(* solve_linear_system.  A shard is abstracted to one byte: the code       *)
(* solves every byte position independently with the same matrix.         *)
(***************************************************************************)
EXTENDS Integers, Sequences, Bitwise, FiniteSets

Byte == 0..255

RECURSIVE Ascending(_)
\* The elements of a finite set of integers in ascending order, the order in
\* which a std::map or an index loop visits them.
Ascending(S) ==
    IF S = {} THEN <<>>
    ELSE LET least == CHOOSE i \in S : \A j \in S : i <= j
         IN  <<least>> \o Ascending(S \ {least})

\* One step of the exp-table loop: val = (val << 1) ^ ((val & 0x80) ? 0x1D : 0),
\* stored back into a uint8_t.
XTime(v) == ((2 * v) % 256) ^^ (IF v >= 128 THEN 29 ELSE 0)

RECURSIVE Steps(_, _)
\* Extend the table prefix s by n iterations of the loop step.
Steps(s, n) == IF n = 0 THEN s ELSE Steps(Append(s, XTime(s[Len(s)])), n - 1)

RECURSIVE ExpRows(_)
\* <<exp[0], ..., exp[16 * q]>>: the loop of init_gf_tables, run in blocks
\* of 16 iterations.
ExpRows(q) ==
    IF q = 0 THEN <<1>>
    ELSE LET prev == ExpRows(q - 1)
         IN  prev \o Tail(Steps(<<prev[Len(prev)]>>, 16))

\* gf_exp_table[0..511]: exp[i] for i < 255 from the loop, exp[255] = exp[0],
\* and entries 255..511 copy entries 0..256.
gf_exp_table ==
    LET e == ExpRows(16) IN [i \in 0..511 |-> e[(i % 255) + 1]]

\* The log table init_gf_tables fills from the exp table ex: log[ex[i]] = i
\* for i in 1..254; log[0] is set to 255; log[1] is never written by the
\* loop and keeps the static zero.
LogTableOf(ex) ==
    [v \in Byte |->
        IF v = 0 THEN 255
        ELSE IF \E i \in 1..254 : ex[i] = v
             THEN CHOOSE i \in 1..254 : ex[i] = v
             ELSE 0]

\* gf_log_table
gf_log_table == LogTableOf(gf_exp_table)

\* exp[(log[a] + log[b]) mod 255] for the log values la and lb.
ExpOfSum(la, lb) ==
    LET s == la + lb IN gf_exp_table[IF s >= 255 THEN s - 255 ELSE s]

\* Mutant of gf_mul_fast: the zero-operand check dropped, so log[0] = 255
\* is used as an exponent.
gf_mul_fast_no_zero_check(a, b) ==
    IF a = 1 THEN b
    ELSE IF b = 1 THEN a
    ELSE ExpOfSum(gf_log_table[a], gf_log_table[b])

\* gf_mul_fast(a, b)
gf_mul_fast(a, b) ==
    IF a = 0 \/ b = 0 THEN 0
    ELSE IF a = 1 THEN b
    ELSE IF b = 1 THEN a
    ELSE ExpOfSum(gf_log_table[a], gf_log_table[b])

\* Mutant of gf_inv: the exponent taken from 256 instead of 255.
gf_inv_off_by_one(a) ==
    IF a = 0 THEN 0
    ELSE IF a = 1 THEN 1
    ELSE gf_exp_table[256 - gf_log_table[a]]

\* gf_inv(a): 0 has no inverse and yields 0.
gf_inv(a) ==
    IF a = 0 THEN 0
    ELSE IF a = 1 THEN 1
    ELSE gf_exp_table[255 - gf_log_table[a]]

\* build_vandermonde_matrix entry for available index a and missing index m:
\* uint8_t power = (a * m) % 255; entry = power == 0 ? 1 : exp[power].
VandermondeEntry(a, m) ==
    LET power == (a * m) % 255 IN IF power = 0 THEN 1 ELSE gf_exp_table[power]

\* build_vandermonde_matrix for the index sequences avail and miss: an
\* M x M matrix (1-based) whose rows use the first M available indices; it
\* fails when nothing is missing or fewer than M indices are available.
BuildVandermonde(avail, miss) ==
    [ok |-> Len(miss) > 0 /\ Len(avail) >= Len(miss),
     m  |-> [i \in 1..Len(miss) |->
               [j \in 1..Len(miss) |->
                  IF i <= Len(avail) THEN VandermondeEntry(avail[i], miss[j]) ELSE 0]]]

\* Row operations of one column of the elimination.  Normalize the pivot row
\* by the inverse of the pivot (skipped when the pivot is 1), then clear the
\* column in every other row with row ^= factor * pivot_row.
\* Mutant of NormalizeRow: the pivot row is never normalized.
NormalizeRow_skipped(row, col, pv) == row

NormalizeRow(row, col, pv) ==
    IF pv = 1 THEN row
    ELSE [c \in DOMAIN row |->
            IF c >= col THEN gf_mul_fast(row[c], gf_inv(pv)) ELSE row[c]]

EliminateRow(row, prow, col) ==
    IF row[col] = 0 THEN row
    ELSE [c \in DOMAIN row |->
            IF c >= col THEN row[c] ^^ gf_mul_fast(row[col], prow[c]) ELSE row[c]]

\* The pivot row of column col: the first later row with a non-zero entry
\* in the column, else the diagonal row.
PivotRow(aug, col, M) ==
    LET later == {r \in (col + 1)..M : aug[r][col] # 0}
    IN  IF later = {} THEN col ELSE CHOOSE r \in later : \A q \in later : r <= q

\* The matrix with rows col and pr swapped.
SwapRows(aug, col, pr) ==
    IF pr = col THEN aug ELSE [aug EXCEPT ![col] = aug[pr], ![pr] = aug[col]]

\* Every row but col cleared against the normalized pivot row prow.
ClearColumn(sw, prow, col, M) ==
    [r \in 1..M |-> IF r = col THEN prow ELSE EliminateRow(sw[r], prow, col)]

\* After the swap: a zero pivot is a singular system (ok = FALSE, the
\* matrix before the swap is returned); otherwise normalize and clear.
EliminateSwapped(aug, sw, col, M) ==
    IF sw[col][col] = 0 THEN [ok |-> FALSE, aug |-> aug]
    ELSE [ok |-> TRUE,
          aug |-> ClearColumn(sw, NormalizeRow(sw[col], col, sw[col][col]), col, M)]

\* One column of the Gauss-Jordan elimination over the augmented matrix aug
\* (M rows, M+1 columns): pivot search, swap, normalize, eliminate.
EliminateColumn(aug, col, M) ==
    EliminateSwapped(aug, SwapRows(aug, col, PivotRow(aug, col, M)), col, M)

\* The augmented matrix [A | rhs] solve_linear_system builds for one byte.
Augment(A, rhs) ==
    [i \in 1..Len(rhs) |-> [j \in 1..(Len(rhs) + 1) |->
                              IF j <= Len(rhs) THEN A[i][j] ELSE rhs[i]]]

RECURSIVE GaussJordan(_, _, _), GaussNext(_, _, _)
\* The elimination from column col on.
GaussJordan(aug, col, M) ==
    IF col > M THEN [ok |-> TRUE, aug |-> aug]
    ELSE GaussNext(EliminateColumn(aug, col, M), col, M)

\* Continue after column col unless it found the system singular.
GaussNext(step, col, M) ==
    IF step.ok THEN GaussJordan(step.aug, col + 1, M) ELSE step

\* The solution read off the last column after the elimination.
SolutionOf(aug, M) == [i \in 1..M |-> aug[i][M + 1]]

\* The result of the elimination res as solve_linear_system returns it.
SolveResult(res, M) == [ok |-> res.ok, x |-> SolutionOf(res.aug, M)]

\* solve_linear_system for one byte position: matrix A (M x M), right-hand
\* side rhs (length M).  Result: ok and the solution vector.
SolveLinearSystem(A, rhs) ==
    SolveResult(GaussJordan(Augment(A, rhs), 1, Len(rhs)), Len(rhs))

-----------------------------------------------------------------------------
(***************************************************************************)
(* Reference definitions the table-driven arithmetic is checked against.   *)
(***************************************************************************)

\* Multiplication by x modulo the field polynomial x^8+x^4+x^3+x^2+1 (0x11D).
RefTimesX(a) == IF a >= 128 THEN (2 * a) ^^ 285 ELSE 2 * a

RECURSIVE RefMul(_, _)
\* Shift-and-add product of two field elements.
RefMul(a, b) ==
    IF b = 0 THEN 0
    ELSE (IF b % 2 = 1 THEN a ELSE 0) ^^ RefMul(RefTimesX(a), b \div 2)

RECURSIVE RefDot(_, _, _)
\* Field dot product of row and x over positions 1..i.
RefDot(row, x, i) == IF i = 0 THEN 0 ELSE RefMul(row[i], x[i]) ^^ RefDot(row, x, i - 1)

\* The right-hand side A * x computed with the reference arithmetic.
RefApply(A, x) == [i \in DOMAIN A |-> RefDot(A[i], x, Len(x))]
=============================================================================
