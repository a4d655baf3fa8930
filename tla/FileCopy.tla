------------------------------ MODULE FileCopy ------------------------------
(***************************************************************************)
(* file_example() of modern_c/io.c, run by its main(): open /tmp/1 for     *)
(* reading and /tmp/1.bak for writing, copy one character at a time with   *)
(* getc/putc until EOF, close both, return 0.  The output stream is        *)
(* buffered: putc fills a BUF_SIZE-byte stdio buffer, which reaches the    *)
(* file on the putc after it is full and at fclose.  The process can be   *)
(* killed at any step, losing what sits in the buffer.  Files are          *)
(* sequences of characters, or NoFile when absent.                         *)
(***************************************************************************)
EXTENDS Integers, Sequences, SequencesExt, Functions

CONSTANTS
  Contents,   \* what /tmp/1 and an earlier /tmp/1.bak may hold
  BUF_SIZE,   \* the stdio buffer of the output stream
  NoFile,     \* model value: the file does not exist
  WriteErrors \* whether a write of the buffer can fail (disk full, EIO)

VARIABLES
  infile,     \* /tmp/1
  bak,        \* /tmp/1.bak
  pos,        \* characters getc has returned
  buf,        \* the output stream's buffer
  pc

vars == <<infile, bak, pos, buf, pc>>

\* The file after the buffer's bytes `data` are written out.  A failed
\* write(2) leaves a prefix of them on the file and stdio drops the rest;
\* neither putc's nor fclose's result is checked.
WriteOut(data) ==
  {bak \o SubSeq(data, 1, n) :
     n \in (IF WriteErrors THEN 0 ELSE Len(data)) .. Len(data)}

\* putc(ch, outfile): into the buffer; a buffer that is already full is
\* written out first (glibc's __overflow), so a full buffer waits for the
\* next putc or for fclose.
Putc(ch) ==
  IF Len(buf) = BUF_SIZE
  THEN /\ bak' \in WriteOut(buf)
       /\ buf' = <<ch>>
  ELSE /\ buf' = Append(buf, ch)
       /\ UNCHANGED bak

Init ==
  /\ infile \in Contents \cup {NoFile}
  /\ bak \in Contents \cup {NoFile}
  /\ pos = 0
  /\ buf = <<>>
  /\ pc = "start"

\* fopen("/tmp/1", "r") fails: print an error and exit(1).
OpenInFails ==
  /\ pc = "start" /\ infile = NoFile
  /\ pc' = "exit1"
  /\ UNCHANGED <<infile, bak, pos, buf>>

\* Mutant: the backup opened with "a", which keeps its old contents.
OpenFiles_append ==
  /\ pc = "start" /\ infile # NoFile
  /\ \/ /\ bak' = IF bak = NoFile THEN <<>> ELSE bak
        /\ pc' = "copy"
     \/ /\ pc' = "exit1"
        /\ UNCHANGED bak
  /\ UNCHANGED <<infile, pos, buf>>

\* fopen("/tmp/1.bak", "w") creates or truncates the backup.  It can fail
\* (permissions, no space), which exits 1 with the backup untouched.
OpenFiles ==
  /\ pc = "start" /\ infile # NoFile
  /\ \/ /\ bak' = <<>>
        /\ pc' = "copy"
     \/ /\ pc' = "exit1"
        /\ UNCHANGED bak
  /\ UNCHANGED <<infile, pos, buf>>

\* ch = getc(infile) is not EOF: putc(ch, outfile).
CopyChar ==
  /\ pc = "copy" /\ pos < Len(infile)
  /\ Putc(infile[pos + 1])
  /\ pos' = pos + 1
  /\ UNCHANGED <<infile, pc>>

\* Mutant: the loop ends one character before EOF.
CloseFiles_early ==
  /\ pc = "copy" /\ pos >= Len(infile) - 1
  /\ bak' = bak \o buf
  /\ buf' = <<>>
  /\ pc' = "exit0"
  /\ UNCHANGED <<infile, pos>>

\* getc returns EOF: fclose both, flushing the buffer.  file_example
\* returns and main, with no return statement, exits 0.
CloseFiles ==
  /\ pc = "copy" /\ pos >= Len(infile)
  /\ bak' \in WriteOut(buf)
  /\ buf' = <<>>
  /\ pc' = "exit0"
  /\ UNCHANGED <<infile, pos>>

\* The process is killed while copying: the buffer is lost.
Killed ==
  /\ pc = "copy"
  /\ buf' = <<>>
  /\ pc' = "killed"
  /\ UNCHANGED <<infile, bak, pos>>

Next == OpenInFails \/ OpenFiles \/ CopyChar \/ CloseFiles \/ Killed

Spec == Init /\ [][Next]_vars
-----------------------------------------------------------------------------
TypeOK ==
  /\ infile \in Contents \cup {NoFile}
  /\ pos \in Nat
  /\ buf \in Seq(UNION {Range(c) : c \in Contents})
  /\ Len(buf) <= BUF_SIZE
  /\ pc \in {"start", "copy", "exit0", "exit1", "killed"}

\* Once the backup is opened, the file holds the first characters of the
\* input and the buffer the next ones, up to what getc has read; so a
\* killed copy leaves a prefix of /tmp/1 (the old backup is gone) and no
\* character is written twice, out of order, or from the old backup.
BackupIsPrefix ==
  /\ pc \in {"copy", "exit0"} => bak \o buf = SubSeq(infile, 1, pos)
  /\ pc = "killed" => IsPrefix(bak, infile)

\* When file_example returns, /tmp/1.bak is a copy of /tmp/1.
CopyCompleteOnExit0 == pc = "exit0" => bak = infile
=============================================================================
