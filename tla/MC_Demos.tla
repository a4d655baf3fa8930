------------------------------ MODULE MC_Demos ------------------------------
(***************************************************************************)
(* The single-process programs checked together: each behaviour starts one *)
(* of them, chosen in `prog`, on one of its inputs, and runs it to its     *)
(* end; the others stay in an initial state and take no step.  The state   *)
(* space is the sum of the programs' state spaces.  Each program is an     *)
(* INSTANCE of its module with its variables renamed.                     *)
(***************************************************************************)
EXTENDS Integers, Sequences

CONSTANTS NULL, Garbage, NoFile, c1, c2, JoeName, FrankName, NullText,
          NoStack, NoOutput, sv1, sv2

VARIABLES
  prog,
  cs_numbers, cs_call, cs_target, cs_i, cs_j, cs_key, cs_pc, cs_printed,
  sl_pc, sl_heap, sl_head, sl_i, sl_printed, sl_status,
  tk_stdin, tk_line, tk_pos, tk_token, tk_pc, tk_printed,
  fc_infile, fc_bak, fc_pos, fc_buf, fc_pc,
  f2_x, f2_y, f2_larger, f2_i, f2_last, f2_rows, f2_pc,
  e10_argv, e10_i, e10_printed, e10_pc,
  e14_argv, e14_a, e14_k, e14_printed, e14_pc,
  p16_joe, p16_frank, p16_printed, p16_pc, p16_status, p16_copies,
  sd_fn, sd_str, sd_len, sd_i, sd_out, sd_overrun, sd_status,
  sb_fn, sb_out, sb_overrun, sb_status,
  a2_opposite, a2_i, a2_arr, a2_low, a2_printed, a2_pc,
  td_matrix, td_bigger, td_flat, td_rows, td_i, td_j, td_printed, td_pc,
  td_status,
  pw_f, pw_k, pw_listing,
  pa_fn, pa_letters, pa_numbers, pa_matrix, pa_i, pa_out, pa_pc,
  ms_dest, ms_i, ms_printed, ms_overrun, ms_pc,
  cp_fn, cp_mem, cp_arr, cp_printed, cp_pc, cp_status,
  ac_argv, ac_i, ac_printed, ac_pc,
  st_s, st_heap, st_out, st_alive,
  bf_mem, bf_layout, bf_i, bf_printed, bf_pc, bf_status

\* ex18.c: lists of up to three ints from the ends of a 3-bit int and near 0.
CSInputs == UNION {[1 .. m -> {-4, -1, 0, 3}] : m \in 1 .. 3}
\* strings.c tokens(): every stdin of up to 4 of 'a', ' ', '\n'.
TKInputs == UNION {[1 .. n -> {97, 32, 10}] : n \in 0 .. 4}
\* io.c: files of up to four characters, two buffers' worth.
FCContents == UNION {[1 .. n -> {c1, c2}] : n \in 0 .. 4}
\* ex10.c: 'a', 'A', 'y', 'Y', 'Z', '@' in arguments of up to 4 characters,
\* and argc of 1, 2 and 3.
E10Strs == UNION {[1 .. n -> {97, 65, 121, 89, 90, 64}] : n \in 0 .. 4}
E10Argvs == {<<<<46>>>>, <<<<46>>, <<97>>, <<97>>>>}
              \cup {<<<<46>>, s>> : s \in E10Strs}
\* ex14.c: argv of one or two strings of up to 2 of 'a', ' ', '\n', '1'.
E14Strs == UNION {[1 .. n -> {97, 32, 10, 49}] : n \in 0 .. 2}
E14Argvs == {<<s>> : s \in E14Strs} \cup {<<s, t>> : s, t \in E14Strs}

CS  == INSTANCE CallbackSort WITH INT_BITS <- 3, Inputs <- CSInputs,
         numbers <- cs_numbers, call <- cs_call, target <- cs_target,
         i <- cs_i, j <- cs_j, key <- cs_key, pc <- cs_pc, printed <- cs_printed
SL  == INSTANCE StructsList WITH Addrs <- 1 .. 5,
         pc <- sl_pc, heap <- sl_heap, head <- sl_head, i <- sl_i,
         printed <- sl_printed, status <- sl_status
TK  == INSTANCE Tokens WITH LINE_SIZE <- 4, Inputs <- TKInputs,
         stdin <- tk_stdin, line <- tk_line, pos <- tk_pos, token <- tk_token,
         pc <- tk_pc, printed <- tk_printed
FC  == INSTANCE FileCopy WITH Contents <- FCContents, BUF_SIZE <- 2,
         WriteErrors <- FALSE,
         infile <- fc_infile, bak <- fc_bak, pos <- fc_pos, buf <- fc_buf,
         pc <- fc_pc
F2  == INSTANCE Functions2 WITH INT_BITS <- 4, ROW_CAP <- 17,
         x <- f2_x, y <- f2_y, larger <- f2_larger, i <- f2_i,
         last <- f2_last, rows <- f2_rows, pc <- f2_pc
E10 == INSTANCE Ex10 WITH Argvs <- E10Argvs,
         argv <- e10_argv, i <- e10_i, printed <- e10_printed, pc <- e10_pc
E14 == INSTANCE Ex14 WITH Argvs <- E14Argvs,
         argv <- e14_argv, a <- e14_a, k <- e14_k, printed <- e14_printed,
         pc <- e14_pc
P16 == INSTANCE Ex16_2 WITH
         joe <- p16_joe, frank <- p16_frank, printed <- p16_printed,
         pc <- p16_pc, status <- p16_status, copies <- p16_copies
SD  == INSTANCE StringsDemo WITH
         fn <- sd_fn, str <- sd_str, len <- sd_len, i <- sd_i, out <- sd_out,
         overrun <- sd_overrun, status <- sd_status
SB  == INSTANCE StructsBasic WITH
         fn <- sb_fn, out <- sb_out, overrun <- sb_overrun, status <- sb_status
A2  == INSTANCE Array2 WITH
         opposite <- a2_opposite, i <- a2_i, arr <- a2_arr, low <- a2_low,
         printed <- a2_printed, pc <- a2_pc
TD  == INSTANCE TwoDArrays WITH
         matrix <- td_matrix, bigger <- td_bigger, flat <- td_flat,
         rows <- td_rows, i <- td_i, j <- td_j, printed <- td_printed,
         pc <- td_pc, status <- td_status
PW  == INSTANCE PointerWalks WITH f <- pw_f, k <- pw_k, listing <- pw_listing
PA  == INSTANCE PointerArith WITH
         fn <- pa_fn, letters <- pa_letters, numbers <- pa_numbers,
         matrix <- pa_matrix, i <- pa_i, out <- pa_out, pc <- pa_pc
MS  == INSTANCE MyStrcpy WITH
         dest <- ms_dest, i <- ms_i, printed <- ms_printed,
         overrun <- ms_overrun, pc <- ms_pc
CP  == INSTANCE CallByPointer WITH
         fn <- cp_fn, mem <- cp_mem, arr <- cp_arr, printed <- cp_printed,
         pc <- cp_pc, status <- cp_status
AC  == INSTANCE ArgCount WITH
         argv <- ac_argv, i <- ac_i, printed <- ac_printed, pc <- ac_pc
\* stack.c: two strings over a heap of 5 blocks, room for the Stack and
\* two pushed elements with their copies, so that pops show the order and
\* a third push finds the heap full.
ST  == INSTANCE LinkedStack WITH Values <- {sv1, sv2}, Addrs <- 1 .. 5,
         s <- st_s, heap <- st_heap, out <- st_out, alive <- st_alive
BF  == INSTANCE BigFish WITH
         mem <- bf_mem, layout <- bf_layout, i <- bf_i, printed <- bf_printed,
         pc <- bf_pc, status <- bf_status

csv  == <<cs_numbers, cs_call, cs_target, cs_i, cs_j, cs_key, cs_pc, cs_printed>>
slv  == <<sl_pc, sl_heap, sl_head, sl_i, sl_printed, sl_status>>
tkv  == <<tk_stdin, tk_line, tk_pos, tk_token, tk_pc, tk_printed>>
fcv  == <<fc_infile, fc_bak, fc_pos, fc_buf, fc_pc>>
f2v  == <<f2_x, f2_y, f2_larger, f2_i, f2_last, f2_rows, f2_pc>>
e10v == <<e10_argv, e10_i, e10_printed, e10_pc>>
e14v == <<e14_argv, e14_a, e14_k, e14_printed, e14_pc>>
p16v == <<p16_joe, p16_frank, p16_printed, p16_pc, p16_status, p16_copies>>
sdv  == <<sd_fn, sd_str, sd_len, sd_i, sd_out, sd_overrun, sd_status>>
sbv  == <<sb_fn, sb_out, sb_overrun, sb_status>>
a2v  == <<a2_opposite, a2_i, a2_arr, a2_low, a2_printed, a2_pc>>
tdv  == <<td_matrix, td_bigger, td_flat, td_rows, td_i, td_j, td_printed, td_pc,
          td_status>>
pwv  == <<pw_f, pw_k, pw_listing>>
pav  == <<pa_fn, pa_letters, pa_numbers, pa_matrix, pa_i, pa_out, pa_pc>>
msv  == <<ms_dest, ms_i, ms_printed, ms_overrun, ms_pc>>
cpv  == <<cp_fn, cp_mem, cp_arr, cp_printed, cp_pc, cp_status>>
acv  == <<ac_argv, ac_i, ac_printed, ac_pc>>
stv  == <<st_s, st_heap, st_out, st_alive>>
bfv  == <<bf_mem, bf_layout, bf_i, bf_printed, bf_pc, bf_status>>

Progs == {"ex18", "structs", "tokens", "io", "functions2", "ex10", "ex14",
          "ex16_2", "strings", "structs_fns", "array2", "two_d_arrays",
          "ex15", "advanced", "my_strcpy", "pointer_demos", "ex08", "stack",
          "bigfish"}

\* The chosen program starts on any of its inputs; every other one is in
\* the initial state of one fixed input.
Init ==
  /\ prog \in Progs
  /\ CS!Init  /\ (prog # "ex18"       => DOMAIN cs_numbers = {0} /\ cs_numbers[0] = 0)
  /\ SL!Init
  /\ TK!Init  /\ (prog # "tokens"     => tk_stdin = <<>>)
  /\ FC!Init  /\ (prog # "io"         => fc_infile = <<>> /\ fc_bak = <<>>)
  /\ F2!Init  /\ (prog # "functions2" => f2_x = 0 /\ f2_y = 0)
  /\ E10!Init /\ (prog # "ex10"       => e10_argv = <<<<46>>>>)
  /\ E14!Init /\ (prog # "ex14"       => e14_argv = <<<<>>>>)
  /\ P16!Init
  /\ SD!Init  /\ (prog # "strings"    => sd_fn = "basic")
  /\ SB!Init  /\ (prog # "structs_fns" => sb_fn = "basic")
  /\ A2!Init
  /\ TD!Init
  /\ PW!Init
  /\ PA!Init  /\ (prog # "advanced" => pa_fn = "pointer_arithmetic")
  /\ MS!Init  /\ (prog # "my_strcpy"  => ms_dest[0] = 0)
  /\ CP!Init  /\ (prog # "pointer_demos" => cp_fn = "swap")
  /\ AC!Init  /\ (prog # "ex08"       => ac_argv = <<>>)
  /\ ST!Init
  /\ BF!Init  /\ (prog # "bigfish"    => bf_layout.lf = 20)

Next ==
  /\ UNCHANGED prog
  /\ \/ prog = "ex18"          /\ CS!Next
          /\ UNCHANGED <<slv, tkv, fcv, f2v, e10v, e14v, p16v, sdv, sbv, a2v, tdv, pwv, pav, msv, cpv, acv, stv, bfv>>
     \/ prog = "structs"       /\ SL!Next
          /\ UNCHANGED <<csv, tkv, fcv, f2v, e10v, e14v, p16v, sdv, sbv, a2v, tdv, pwv, pav, msv, cpv, acv, stv, bfv>>
     \/ prog = "tokens"        /\ TK!Next
          /\ UNCHANGED <<csv, slv, fcv, f2v, e10v, e14v, p16v, sdv, sbv, a2v, tdv, pwv, pav, msv, cpv, acv, stv, bfv>>
     \/ prog = "io"            /\ FC!Next
          /\ UNCHANGED <<csv, slv, tkv, f2v, e10v, e14v, p16v, sdv, sbv, a2v, tdv, pwv, pav, msv, cpv, acv, stv, bfv>>
     \/ prog = "functions2"    /\ F2!Next
          /\ UNCHANGED <<csv, slv, tkv, fcv, e10v, e14v, p16v, sdv, sbv, a2v, tdv, pwv, pav, msv, cpv, acv, stv, bfv>>
     \/ prog = "ex10"          /\ E10!Next
          /\ UNCHANGED <<csv, slv, tkv, fcv, f2v, e14v, p16v, sdv, sbv, a2v, tdv, pwv, pav, msv, cpv, acv, stv, bfv>>
     \/ prog = "ex14"          /\ E14!Next
          /\ UNCHANGED <<csv, slv, tkv, fcv, f2v, e10v, p16v, sdv, sbv, a2v, tdv, pwv, pav, msv, cpv, acv, stv, bfv>>
     \/ prog = "ex16_2"        /\ P16!Next
          /\ UNCHANGED <<csv, slv, tkv, fcv, f2v, e10v, e14v, sdv, sbv, a2v, tdv, pwv, pav, msv, cpv, acv, stv, bfv>>
     \/ prog = "strings"       /\ SD!Next
          /\ UNCHANGED <<csv, slv, tkv, fcv, f2v, e10v, e14v, p16v, sbv, a2v, tdv, pwv, pav, msv, cpv, acv, stv, bfv>>
     \/ prog = "structs_fns"   /\ SB!Next
          /\ UNCHANGED <<csv, slv, tkv, fcv, f2v, e10v, e14v, p16v, sdv, a2v, tdv, pwv, pav, msv, cpv, acv, stv, bfv>>
     \/ prog = "array2"        /\ A2!Next
          /\ UNCHANGED <<csv, slv, tkv, fcv, f2v, e10v, e14v, p16v, sdv, sbv, tdv, pwv, pav, msv, cpv, acv, stv, bfv>>
     \/ prog = "two_d_arrays"  /\ TD!Next
          /\ UNCHANGED <<csv, slv, tkv, fcv, f2v, e10v, e14v, p16v, sdv, sbv, a2v, pwv, pav, msv, cpv, acv, stv, bfv>>
     \/ prog = "ex15"          /\ PW!Next
          /\ UNCHANGED <<csv, slv, tkv, fcv, f2v, e10v, e14v, p16v, sdv, sbv, a2v, tdv, pav, msv, cpv, acv, stv, bfv>>
     \/ prog = "advanced"      /\ PA!Next
          /\ UNCHANGED <<csv, slv, tkv, fcv, f2v, e10v, e14v, p16v, sdv, sbv, a2v, tdv, pwv, msv, cpv, acv, stv, bfv>>
     \/ prog = "my_strcpy"     /\ MS!Next
          /\ UNCHANGED <<csv, slv, tkv, fcv, f2v, e10v, e14v, p16v, sdv, sbv, a2v, tdv, pwv, pav, cpv, acv, stv, bfv>>
     \/ prog = "pointer_demos" /\ CP!Next
          /\ UNCHANGED <<csv, slv, tkv, fcv, f2v, e10v, e14v, p16v, sdv, sbv, a2v, tdv, pwv, pav, msv, acv, stv, bfv>>
     \/ prog = "ex08"          /\ AC!Next
          /\ UNCHANGED <<csv, slv, tkv, fcv, f2v, e10v, e14v, p16v, sdv, sbv, a2v, tdv, pwv, pav, msv, cpv, stv, bfv>>
     \/ prog = "stack"         /\ ST!Next
          /\ UNCHANGED <<csv, slv, tkv, fcv, f2v, e10v, e14v, p16v, sdv, sbv, a2v, tdv, pwv, pav, msv, cpv, acv, bfv>>
     \/ prog = "bigfish"       /\ BF!Next
          /\ UNCHANGED <<csv, slv, tkv, fcv, f2v, e10v, e14v, p16v, sdv, sbv, a2v, tdv, pwv, pav, msv, cpv, acv, stv>>

vars == <<prog, csv, slv, tkv, fcv, f2v, e10v, e14v, p16v, sdv, sbv, a2v, tdv, pwv, pav, msv, cpv, acv, stv, bfv>>

\* Each program is one thread that runs until it exits.
Spec == Init /\ [][Next]_vars /\ WF_vars(Next)
-----------------------------------------------------------------------------
(***************************************************************************)
(* Properties, each the module's own on the program's variables.          *)
(***************************************************************************)
\* ex18.c: numbers, the sort's copy and the printed lines hold ints of the
\* width, and pc is a location of the program.
SortTypeOK == CS!TypeOK

\* ex18.c: every line test_sorting prints is a permutation of the input.
SortPrintedIsPermutation == CS!PrintedIsPermutation

\* ex18.c: with no two inputs far enough apart for a - b to overflow, every
\* line is in its comparator's order.
SortOrderedUnlessOverflow == CS!OrderedUnlessOverflow

\* ex18.c: main() always reaches its return or a die(), whatever the
\* comparators return.
SortTerminates == prog = "ex18" => CS!Terminates

\* structs.c: every heap block is a node whose next is an address or NULL.
ListTypeOK == SL!TypeOK

\* structs.c: during create_list's loop the list from head is i-1, ..., 0,
\* 10 and the heap holds exactly its nodes.
ListBuiltByPrepending == SL!ListBuiltByPrepending

\* strings.c: strtok's saved position stays inside the LINE_SIZE buffer.
TokensTypeOK == TK!TypeOK

\* strings.c tokens(): the tokens strtok yields are the words of the line
\* fgets read, in order, none lost, merged, split or repeated.
TokensAreWords == TK!TokensAreWords

\* io.c file_example(): the backup plus the stdio buffer is the part of
\* /tmp/1 read so far; a killed copy leaves a prefix.
BackupIsPrefix == FC!BackupIsPrefix

\* io.c: when file_example returns (no write failing), the backup equals
\* /tmp/1.
CopyCompleteOnExit0 == FC!CopyCompleteOnExit0

\* functions2.c: print_table(x, larger) prints one row per integer from x
\* to max(x, y) when that is below INT_MAX.
TableCoversXToLarger == F2!TableCoversXToLarger

\* functions2.c: below INT_MAX the table loop ends and main returns.
TableEndsBelowIntMax == F2!TableEndsBelowIntMax

\* ex10.c: every report names a vowel or prints a signed char.
VowelsTypeOK == E10!TypeOK

\* ex10.c: the reports are, in index order, one per character of the
\* argument (none for a y before index 3), by the case-folded letter.
ReportsMatchArgument == E10!ReportsMatchArgument

\* ex14.c: one line per element of argv, the program name first, each
\* holding exactly the letters and blanks of its argument.
LinesAreLettersOfArgs == E14!LinesAreLettersOfArgs

\* strings.c: no strcpy, strcat, strncat, strncpy or byte store of
\* dym_alloc, basic, lib_example or char_example runs past its buffer.
WritesStayInBuffers == SD!WritesStayInBuffers

\* strings.c lib_example: the d_str printed is the first five characters of
\* str, terminated by line 84 after strncpy.
DStrIsPrefixOfStr == SD!DStrIsPrefixOfStr

\* strings.c char_example: the printed sentence has every capital lowered
\* and every digit made 'X', through its last character.
CharsFolded == SD!CharsFolded

\* structs.c: every strcpy of a name fits its block, the exact-size mallocs
\* of pointer_fields included.
NamesFitTheirBlocks == SB!NamesFitTheirBlocks

\* array2.c: each minimum printed is an element of the array printed before
\* it and no element of that array is smaller; minimum's loop reaches both
\* ends of the array.
MinimumIsLeast == A2!MinimumIsLeast

\* 2d_arrays.c: when main returns, the element [2][3] of the stack matrix,
\* of method1's flat block and of method2's row pointers each printed the
\* 2 * 3 stored there.
ElementsAgree == TD!ElementsAgree

\* ex15.c: print1 .. print6 each print the five people with their own ages,
\* print5 in reverse from the last element to the first.
WalksAgree == PW!WalksAgree

\* my_strcpy.c: main prints exactly "hello", terminated within dest's ten
\* bytes, whatever dest held before.
CopyIsSource == MS!CopyIsSource

\* pointers.c, swap.c, array.c: a store through a pointer parameter or an
\* alias reaches the caller's variable, as each program's output claims.
WritesReachCaller == CP!WritesReachCaller

\* stack.c: every heap block is a Stack, an element or a string copy.
StackTypeOK == ST!TypeOK

\* stack.c: while the process runs, the heap holds exactly the Stack, the
\* elements linked from its head and one private copy per element: no
\* pop frees twice or leaves a block behind, no push leaks.
HeapExact == ST!HeapExact

\* stack.c: the linked list implements a LIFO sequence, through every
\* create, push, pop, peek and is_empty and every failed malloc.
LifoStackSpec == ST!LifoStackSpec
=============================================================================
