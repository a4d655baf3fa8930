------------------------------- MODULE Tokens -------------------------------
(***************************************************************************)
(* tokens() of modern_c/strings.c: malloc a LINE_SIZE-byte buffer, read    *)
(* one line of stdin into it with fgets, print it, then print each token   *)
(* strtok finds, and free the buffer.  (main() of the file has the call    *)
(* commented out; the model is the function as written.)  Characters are   *)
(* their codes; stdin is a finite sequence of them.                        *)
(*                                                                         *)
(* fgets and strtok are modelled by what they do: fgets stores up to       *)
(* LINE_SIZE - 1 characters, stopping after a newline, and a NUL; strtok   *)
(* skips delimiters, overwrites the delimiter ending the token with NUL    *)
(* and keeps its position in the buffer for the next call.                 *)
(***************************************************************************)
EXTENDS Integers, Sequences, SequencesExt

CONSTANTS
  LINE_SIZE,    \* 200 in the code
  Inputs,       \* what stdin may hold
  NULL          \* model value: the null pointer

NUL == 0
NEWLINE == 10
\* " \t\f\r\v\n"
Whitespace == {32, 9, 12, 13, 11, 10}

VARIABLES
  stdin,        \* what stdin holds
  line,         \* the buffer as bytes, 1-indexed; <<>> before fgets
  pos,          \* strtok's saved position: the index it resumes at
  token,        \* the last token strtok returned, or NULL
  pc,
  printed       \* the tokens printed, in order

vars == <<stdin, line, pos, token, pc, printed>>

\* Mutant: a buffer of LINE_SIZE characters plus NUL (fgets given one more
\* than the malloc'd size).
FgetsLength_full(in) ==
  LET nl == SelectInSeq(in, LAMBDA c : c = NEWLINE)
      upto == IF nl = 0 THEN Len(in) ELSE nl
  IN IF upto < LINE_SIZE THEN upto ELSE LINE_SIZE

\* What fgets(line, LINE_SIZE, stdin) stores: up to LINE_SIZE - 1
\* characters, through the first newline, then NUL.
FgetsLength(in) ==
  LET nl == SelectInSeq(in, LAMBDA c : c = NEWLINE)
      upto == IF nl = 0 THEN Len(in) ELSE nl
  IN IF upto < LINE_SIZE - 1 THEN upto ELSE LINE_SIZE - 1

\* Mutant: strtok without skipping leading delimiters.
Strtok_no_skip(b, p) ==
  IF b[p] = NUL
  THEN [tok |-> NULL, buf |-> b, next |-> p]
  ELSE LET end == SelectInSubSeq(b, p, Len(b),
                                 LAMBDA c : c \in Whitespace \cup {NUL})
       IN [tok  |-> SubSeq(b, p, end - 1),
           buf  |-> [b EXCEPT ![end] = NUL],
           next |-> IF b[end] = NUL THEN end ELSE end + 1]

\* strtok(s, Whitespace) resuming at index p of buffer b: the token, the
\* buffer with the token's end overwritten, and the next position.
Strtok(b, p) ==
  LET start == SelectInSubSeq(b, p, Len(b), LAMBDA c : c \notin Whitespace)
  IN IF b[start] = NUL
     THEN [tok |-> NULL, buf |-> b, next |-> start]
     ELSE LET end == SelectInSubSeq(b, start, Len(b),
                                    LAMBDA c : c \in Whitespace \cup {NUL})
          IN [tok  |-> SubSeq(b, start, end - 1),
              buf  |-> [b EXCEPT ![end] = NUL],
              next |-> IF b[end] = NUL THEN end ELSE end + 1]

Init ==
  /\ stdin \in Inputs
  /\ line = <<>>
  /\ pos = 1
  /\ token = NULL
  /\ pc = "start"
  /\ printed = <<>>

\* malloc returns NULL, or fgets hits end of input before any character:
\* print an error and exit(1).
ReadFails ==
  /\ pc = "start"
  /\ pc' = "exit1"
  /\ UNCHANGED <<stdin, line, pos, token, printed>>

\* fgets reads the line; the first strtok(line, whitespace).
ReadLine ==
  /\ pc = "start" /\ stdin # <<>>
  /\ LET n == FgetsLength(stdin)
         r == Strtok(SubSeq(stdin, 1, n) \o <<NUL>>, 1)
     IN /\ line' = r.buf
        /\ token' = r.tok
        /\ pos' = r.next
  /\ pc' = "loop"
  /\ UNCHANGED <<stdin, printed>>

\* while (token != NULL): print it; token = strtok(NULL, whitespace).
NextToken ==
  /\ pc = "loop" /\ token # NULL
  /\ printed' = Append(printed, token)
  /\ LET r == Strtok(line, pos)
     IN /\ line' = r.buf
        /\ token' = r.tok
        /\ pos' = r.next
  /\ UNCHANGED <<stdin, pc>>

\* free(line); return 0.
Done ==
  /\ pc = "loop" /\ token = NULL
  /\ pc' = "exit0"
  /\ UNCHANGED <<stdin, line, pos, token, printed>>

Next == ReadFails \/ ReadLine \/ NextToken \/ Done

Spec == Init /\ [][Next]_vars
-----------------------------------------------------------------------------
(***************************************************************************)
(* Properties.                                                             *)
(***************************************************************************)
TypeOK ==
  /\ line \in Seq(Nat)
  /\ pos \in 1 .. LINE_SIZE
  /\ token \in Seq(Nat) \cup {NULL}
  /\ pc \in {"start", "loop", "exit0", "exit1"}
  /\ printed \in Seq(Seq(Nat))

\* Reference: the words of s, its maximal runs of non-whitespace, in order.
Words(s) ==
  LET word(c) == c \notin Whitespace
      runs == {r \in (1 .. Len(s)) \X (1 .. Len(s)) :
                 /\ r[1] <= r[2]
                 /\ \A k \in r[1] .. r[2] : word(s[k])
                 /\ r[1] = 1 \/ ~word(s[r[1] - 1])
                 /\ r[2] = Len(s) \/ ~word(s[r[2] + 1])}
      order == SetToSortSeq(runs, LAMBDA x, y : x[1] < y[1])
  IN [k \in 1 .. Len(order) |-> SubSeq(s, order[k][1], order[k][2])]

\* The text fgets stored: the first line of stdin, cut at LINE_SIZE - 1.
LineRead == SubSeq(stdin, 1, FgetsLength(stdin))

\* The tokens printed so far are the first words of the line read, and
\* when tokens() returns 0 they are all of them: strtok's in-place NULs
\* and saved position neither lose, merge, split nor repeat a word.
TokensAreWords ==
  /\ pc = "loop" => IsPrefix(printed, Words(LineRead))
  /\ pc = "exit0" => printed = Words(LineRead)
=============================================================================
