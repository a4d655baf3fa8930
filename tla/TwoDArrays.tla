----------------------------- MODULE TwoDArrays -----------------------------
(***************************************************************************)
(* modern_c/2d_arrays.c: main() fills two stack matrices with init_matrix  *)
(* and prints matrix[2][3]; method1 fills an N x M array in one malloc'd   *)
(* block through the offset i * M + j; method2 fills an array of N row     *)
(* pointers, each row malloc'd, and neither malloc of method2 is checked.  *)
(* Each method prints its element [2][3].  init_matrix is one step; the    *)
(* loops of the methods are one step per element.  A malloc'd int not yet  *)
(* written is indeterminate, taken as Junk.                                *)
(***************************************************************************)
EXTENDS Integers, Sequences

CONSTANTS NULL

VARIABLES
  matrix, bigger,  \* main's int matrix[50][COLS] and bigger[90][COLS]
  flat,            \* method1's two_d_array: a block of N * M ints
  rows,            \* method2's two_d_array: NULL, or the row pointers
                   \* stored so far (rows[i + 1] is two_d_array[i]), each
                   \* NULL or a row
  i, j,            \* the running loop's indices
  printed,         \* the elements printed, in order
  pc,
  status           \* "running", "exit0", "exit1" or "fault"

vars == <<matrix, bigger, flat, rows, i, j, printed, pc, status>>

COLS == 100
N == 3
M == 4
Junk == -1

\* init_matrix(m, rows): m[i][j] = i * j over every row and all COLS columns.
init_matrix(nrows) == [r \in 0 .. nrows - 1 |-> [c \in 0 .. COLS - 1 |-> r * c]]

\* The indices after one iteration of the two nested loops over N x M.
NextIJ == IF j + 1 < M THEN <<i, j + 1>> ELSE <<i + 1, 0>>

Init ==
  /\ matrix = <<>> /\ bigger = <<>>
  /\ flat = NULL /\ rows = NULL
  /\ i = 0 /\ j = 0
  /\ printed = <<>>
  /\ pc = "main"
  /\ status = "running"

\* init_matrix(matrix, 50); init_matrix(bigger, 90); print matrix[2][3].
InitMatrices ==
  /\ pc = "main"
  /\ matrix' = init_matrix(50)
  /\ bigger' = init_matrix(90)
  /\ printed' = <<init_matrix(50)[2][3]>>
  /\ pc' = "m1alloc"
  /\ UNCHANGED <<flat, rows, i, j, status>>

\* method1: malloc(sizeof(int) * N * M); on NULL print and exit(1).
M1Alloc ==
  /\ pc = "m1alloc"
  /\ \/ /\ status' = "exit1"
        /\ pc' = "done"
        /\ UNCHANGED flat
     \/ /\ flat' = [k \in 0 .. N * M - 1 |-> Junk]
        /\ pc' = "m1"
        /\ UNCHANGED status
  /\ UNCHANGED <<matrix, bigger, rows, i, j, printed>>

\* Mutant: the offset computed with the row count as the row length.
Offset1_rows(r, c) == r * N + c

\* The offset of element [r][c] in the contiguous block: r * M + c.
Offset1(r, c) == r * M + c

\* two_d_array[i * M + j] = i * j;
M1Store ==
  /\ pc = "m1" /\ i < N
  /\ flat' = [flat EXCEPT ![Offset1(i, j)] = i * j]
  /\ i' = NextIJ[1] /\ j' = NextIJ[2]
  /\ UNCHANGED <<matrix, bigger, rows, printed, pc, status>>

\* print two_d_array[2 * M + 3]; method2 begins with an unchecked malloc of
\* the N row pointers.
M1Print ==
  /\ pc = "m1" /\ i >= N
  /\ printed' = Append(printed, flat[2 * M + 3])
  /\ rows' \in {NULL, <<>>}
  /\ i' = 0 /\ j' = 0
  /\ pc' = "m2rows"
  /\ UNCHANGED <<matrix, bigger, flat, status>>

\* two_d_array[i] = malloc(sizeof(int) * M): a store through the row
\* pointers, which faults when their malloc returned NULL.
M2Row ==
  /\ pc = "m2rows" /\ i < N
  /\ \/ /\ rows = NULL
        /\ status' = "fault" /\ pc' = "done"
        /\ UNCHANGED <<rows, i>>
     \/ /\ rows # NULL
        /\ \E r \in {NULL, [c \in 0 .. M - 1 |-> Junk]} :
             rows' = Append(rows, r)
        /\ i' = i + 1
        /\ UNCHANGED <<status, pc>>
  /\ UNCHANGED <<matrix, bigger, flat, j, printed>>

\* The row loop ends; the fill loop starts.
M2RowsDone ==
  /\ pc = "m2rows" /\ i >= N
  /\ i' = 0 /\ j' = 0
  /\ pc' = "m2"
  /\ UNCHANGED <<matrix, bigger, flat, rows, printed, status>>

\* two_d_array[i][j] = i * j: faults on a NULL row.
M2Store ==
  /\ pc = "m2" /\ i < N
  /\ \/ /\ rows[i + 1] = NULL
        /\ status' = "fault" /\ pc' = "done"
        /\ UNCHANGED <<rows, i, j>>
     \/ /\ rows[i + 1] # NULL
        /\ rows' = [rows EXCEPT ![i + 1][j] = i * j]
        /\ i' = NextIJ[1] /\ j' = NextIJ[2]
        /\ UNCHANGED <<status, pc>>
  /\ UNCHANGED <<matrix, bigger, flat, printed>>

\* print two_d_array[2][3]; main returns 0.
M2Print ==
  /\ pc = "m2" /\ i >= N
  /\ printed' = Append(printed, rows[2 + 1][3])
  /\ pc' = "done"
  /\ status' = "exit0"
  /\ UNCHANGED <<matrix, bigger, flat, rows, i, j>>

Next == InitMatrices \/ M1Alloc \/ M1Store \/ M1Print \/ M2Row \/ M2RowsDone
          \/ M2Store \/ M2Print

Spec == Init /\ [][Next]_vars
-----------------------------------------------------------------------------
\* The three layouts agree: when main returns, the element [2][3] printed
\* from the stack matrix, from the flat block through i * M + j and from
\* the row pointers is each the 2 * 3 the loops stored there, never a
\* slot the loops missed.
ElementsAgree ==
  status = "exit0" => printed = <<2 * 3, 2 * 3, 2 * 3>>
=============================================================================
