---------------------------- MODULE StringsDemo ----------------------------
(***************************************************************************)
(* modern_c/strings.c: dym_alloc, basic, lib_example and char_example.     *)
(* main() runs char_example; its calls of the others are commented out,    *)
(* and each is modelled as main would run it with its call restored        *)
(* (tokens() is module Tokens).  A char buffer is a function from          *)
(* 0 .. size-1 to char codes.  A byte nothing wrote (a stack array, a      *)
(* malloc'd block) is indeterminate: the model takes the buffer all 0 or   *)
(* all Junk, a nonzero byte.  A write past the end of its buffer is        *)
(* undefined; it is recorded in `overrun` and the bytes out of range are   *)
(* dropped.  A straight-line function is one step; char_example's loop is *)
(* one step per iteration.                                                 *)
(***************************************************************************)
EXTENDS Integers, Sequences, SequencesExt

VARIABLES
  fn,        \* the function main() runs
  str,       \* char_example's str[64]
  len,       \* char_example's len
  i,         \* char_example's loop index
  out,       \* what the function printed: a record of its %s and %d values
  overrun,   \* some write went past the end of its buffer
  status     \* "running", "loop", "exit0" or "exit1"

vars == <<fn, str, len, i, out, overrun, status>>

Junk == -1      \* an indeterminate nonzero byte
PastEnd == -2   \* what %s prints once it runs off the end of its buffer

\* The literals of the file, as character codes.
Hello      == <<104, 101, 108, 108, 111>>
World      == <<32, 119, 111, 114, 108, 100>>
HelloThere == <<72, 101, 108, 108, 111, 32, 84, 104, 101, 114, 101>>
Alligator  == <<97, 108, 108, 105, 103, 97, 116, 111, 114>>
Zebra      == <<90, 101, 98, 114, 97>>
ZebraFish  == Zebra \o <<32, 102, 105, 115, 104>>
Stripes    == <<32, 115, 116, 114, 105, 112, 101, 115>>
AreBlack   == <<32, 97, 114, 101, 32, 98, 108, 97, 99, 107, 46>>
Trip       == <<116, 114, 105, 112>>
\* "I see 20 ZEBRAS, GOATS, and COWS"
Sentence   == <<73, 32, 115, 101, 101, 32, 50, 48, 32, 90, 69, 66, 82, 65, 83,
                44, 32, 71, 79, 65, 84, 83, 44, 32, 97, 110, 100, 32, 67, 79,
                87, 83>>

Indet(n) == {[k \in 0 .. n - 1 |-> 0], [k \in 0 .. n - 1 |-> Junk]}
BufSize(b) == Cardinality(DOMAIN b)

strlen(b) == CHOOSE k \in DOMAIN b : b[k] = 0 /\ \A m \in 0 .. k - 1 : b[m] # 0

\* What %s prints: the bytes before the NUL, or, with none in the buffer,
\* all of them and then whatever lies past its end.
Text(b) ==
  IF \E k \in DOMAIN b : b[k] = 0
  THEN [k \in 1 .. strlen(b) |-> b[k - 1]]
  ELSE [k \in 1 .. BufSize(b) |-> b[k - 1]] \o <<PastEnd>>

\* Storing the bytes s at offset off of b: the new buffer, and whether the
\* store ran past its end.
Store(b, off, s) ==
  [buf  |-> [k \in DOMAIN b |->
               IF off <= k /\ k < off + Len(s) THEN s[k - off + 1] ELSE b[k]],
   over |-> off + Len(s) > BufSize(b)]

strcpy(b, s) == Store(b, 0, s \o <<0>>)
strcat(b, s) == Store(b, strlen(b), s \o <<0>>)
strncat(b, s, n) ==
  Store(b, strlen(b), SubSeq(s, 1, IF n < Len(s) THEN n ELSE Len(s)) \o <<0>>)
\* strncpy writes exactly n bytes: NUL padding, but no NUL when s is long.
strncpy(b, s, n) ==
  Store(b, 0, IF Len(s) >= n THEN SubSeq(s, 1, n)
                             ELSE s \o [k \in 1 .. n - Len(s) |-> 0])

\* The sign of strncmp(s, t, n); the end of a string reads as its NUL.
RECURSIVE strncmp(_, _, _)
strncmp(s, t, n) ==
  LET a == IF s = <<>> THEN 0 ELSE Head(s)
      b == IF t = <<>> THEN 0 ELSE Head(t)
  IN CASE n = 0 \/ (a = b /\ a = 0) -> 0
       [] a < b -> -1
       [] a > b -> 1
       [] OTHER -> strncmp(Tail(s), Tail(t), n - 1)

\* The suffix strstr(t, s) or strchr(t, c) points at; <<>> for NULL.
strstr(t, s) ==
  LET at == {k \in 1 .. Len(t) - Len(s) + 1 : SubSeq(t, k, k + Len(s) - 1) = s}
  IN IF at = {} THEN <<>> ELSE SubSeq(t, Min(at), Len(t))
strchr(t, c) ==
  LET at == SelectInSeq(t, LAMBDA x : x = c)
  IN IF at = 0 THEN <<>> ELSE SubSeq(t, at, Len(t))

Init ==
  /\ fn \in {"dym_alloc", "basic", "lib_example", "char_example"}
  /\ str = <<>> /\ len = 0 /\ i = 0
  /\ out = <<>>
  /\ overrun = FALSE
  /\ status = "running"
-----------------------------------------------------------------------------
\* Mutant: new_str allocated without room for the NUL.
NewStrSize_no_nul(size) == size

\* malloc(sizeof(char) * (size + 1)): "need extra space for '\0'".
NewStrSize(size) == size + 1

\* dym_alloc(): str[64] = "hello"; new_str = malloc; on NULL exit(1);
\* strcpy(new_str, str); strcat(str, " world"); free.
DymAlloc ==
  /\ fn = "dym_alloc" /\ status = "running"
  /\ \E str0 \in Indet(64) :
       LET s1 == strcpy(str0, Hello)
           size == strlen(s1.buf)
       IN \/ /\ out' = [str |-> Text(s1.buf)]
             /\ overrun' = s1.over
             /\ status' = "exit1"
          \/ \E n0 \in Indet(NewStrSize(size)) :
               LET n1 == strcpy(n0, Text(s1.buf))
                   s2 == strcat(s1.buf, World)
               IN /\ out' = [str |-> Text(s1.buf), new_str |-> Text(n1.buf),
                             cat |-> Text(s2.buf)]
                  /\ overrun' = (s1.over \/ n1.over \/ s2.over)
                  /\ status' = "exit0"
  /\ UNCHANGED <<fn, str, len, i>>

\* basic(): str1 = "hi" byte by byte, strlen, strcpy(str2, str1),
\* strcpy(str2, "hello"), strlen.
Basic ==
  /\ fn = "basic" /\ status = "running"
  /\ \E b1, b2 \in Indet(10) :
       LET s1 == [b1 EXCEPT ![0] = 104, ![1] = 105, ![2] = 0]
           c1 == strcpy(b2, Text(s1))
           c2 == strcpy(c1.buf, Hello)
       IN /\ out' = [str1 |-> Text(s1), len1 |-> strlen(s1),
                     str2 |-> Text(c1.buf), hello |-> Text(c2.buf),
                     len2 |-> strlen(c2.buf)]
          /\ overrun' = (c1.over \/ c2.over)
  /\ status' = "exit0"
  /\ UNCHANGED <<fn, str, len, i>>

\* Mutant: d_str copied by strncpy alone, without the explicit NUL.
DStrCopy_no_nul(b, s) == strncpy(b, s, 5)

\* strncpy(d_str, str, 5); d_str[5] = '\0'.
DStrCopy(b, s) ==
  LET c == strncpy(b, s, 5)
  IN [buf |-> [c.buf EXCEPT ![5] = 0], over |-> c.over \/ BufSize(b) <= 5]

\* lib_example(): str[32]; strcpy, malloc d_str of strlen(str) + 1 (exit 1
\* on NULL), the 5-byte copy, strncmp of the first 3 bytes, strcpy,
\* strcat, strncat of 8 bytes, strstr and strchr; free.
LibExample ==
  /\ fn = "lib_example" /\ status = "running"
  /\ \E str0 \in Indet(32) :
       LET s1 == strcpy(str0, HelloThere)
       IN \/ /\ out' = [len |-> strlen(s1.buf)]
             /\ overrun' = s1.over
             /\ status' = "exit1"
          \/ \E d0 \in Indet(strlen(s1.buf) + 1) :
               LET d1 == DStrCopy(d0, Text(s1.buf))
                   s2 == strcpy(s1.buf, Alligator)
                   d2 == strcpy(d1.buf, Zebra)
                   s3 == strcpy(s2.buf, ZebraFish)
                   s4 == strcat(s3.buf, Stripes)
                   s5 == strncat(s4.buf, AreBlack, 8)
               IN /\ out' = [len |-> strlen(s1.buf), str |-> Text(s1.buf),
                             dstr |-> Text(d1.buf),
                             ret |-> strncmp(Text(s2.buf), Text(d2.buf), 3),
                             cat |-> Text(s4.buf), ncat |-> Text(s5.buf),
                             found |-> strstr(Text(s5.buf), Trip),
                             chr |-> strchr(Text(s5.buf), 101)]
                  /\ overrun' = \E w \in {s1, d1, s2, d2, s3, s4, s5} : w.over
                  /\ status' = "exit0"
  /\ UNCHANGED <<fn, str, len, i>>

\* Mutant: isupper missing 'Z'.
isupper_no_Z(c) == c \in 65 .. 89

\* isupper, islower, isdigit and tolower of the "C" locale.
isupper(c) == c \in 65 .. 90
islower(c) == c \in 97 .. 122
isdigit(c) == c \in 48 .. 57
tolower(c) == IF isupper(c) THEN c + 32 ELSE c

\* char_example(): strcpy the sentence into str[64], print str[2] if it is
\* lower case, len = strlen(str), enter the loop.
CharStart ==
  /\ fn = "char_example" /\ status = "running"
  /\ \E str0 \in Indet(64) :
       LET s1 == strcpy(str0, Sentence)
       IN /\ str' = s1.buf
          /\ overrun' = s1.over
          /\ out' = [lower |-> IF islower(s1.buf[2]) THEN <<s1.buf[2]>> ELSE <<>>]
          /\ len' = strlen(s1.buf)
  /\ i' = 0
  /\ status' = "loop"
  /\ UNCHANGED fn

\* One iteration: upper case to lower case, a digit to 'X'.
CharStep ==
  /\ status = "loop" /\ i < len
  /\ str' = [str EXCEPT ![i] = IF isupper(@) THEN tolower(@)
                               ELSE IF isdigit(@) THEN 88 ELSE @]
  /\ i' = i + 1
  /\ UNCHANGED <<fn, len, out, overrun, status>>

\* The loop ends: print str; main() returns 0.
CharDone ==
  /\ status = "loop" /\ i >= len
  /\ out' = [lower |-> out.lower, folded |-> Text(str)]
  /\ status' = "exit0"
  /\ UNCHANGED <<fn, str, len, i, overrun>>

Next == DymAlloc \/ Basic \/ LibExample \/ CharStart \/ CharStep \/ CharDone

Spec == Init /\ [][Next]_vars
-----------------------------------------------------------------------------
\* Every strcpy, strcat, strncat, strncpy and byte store of the four
\* functions stays inside its buffer: the +1 for the NUL of lines 33 and 77,
\* the 64 bytes of str for " world", and the 32 bytes of str for the
\* 8 bytes strncat appends (lines 103-106) all suffice.
WritesStayInBuffers == ~overrun

\* lib_example: strncpy(d_str, str, 5) leaves d_str without a NUL, and the
\* d_str printed at line 87 is the first five characters of the str printed
\* at line 86 only because line 84 terminates it.
DStrIsPrefixOfStr ==
  fn = "lib_example" /\ status = "exit0" => out.dstr = SubSeq(out.str, 1, 5)

\* Reference for char_example: the upper-case letters are the lower-case
\* ones less 32, the digits are '0' .. '9'.
FoldedRef(c) ==
  IF c \in {l - 32 : l \in 97 .. 122} THEN c + 32
  ELSE IF c \in {48, 49, 50, 51, 52, 53, 54, 55, 56, 57} THEN 88 ELSE c

\* char_example prints the sentence with every upper-case letter lowered
\* and every digit replaced by 'X', through its last character.
CharsFolded ==
  fn = "char_example" /\ status = "exit0" =>
    out.folded = [k \in 1 .. Len(Sentence) |-> FoldedRef(Sentence[k])]
=============================================================================
