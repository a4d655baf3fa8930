------------------------------ MODULE AddressDB ------------------------------
(***************************************************************************)
(* The address database of src/learn_c_the_hard_way/ex17.c, one process   *)
(* invocation after another against one database file.                    *)
(*                                                                         *)
(* An invocation `ex17 dbfile action [params]` runs main(): Database_open  *)
(* (fopen "w" for `c`, otherwise fopen "r+" and fread of the whole        *)
(* struct Database), the operation on the in-memory table, and for `c`,   *)
(* `s` and `d` Database_write (rewind, fwrite, fflush), then              *)
(* Database_close.  Every die() ends the process with status 1.            *)
(*                                                                         *)
(* `disk` is the content of the file as a flat sequence of cells laid out *)
(* like struct Address (id, set, MAX_DATA name bytes, MAX_DATA email      *)
(* bytes); `mem` is conn->db; `pc` is where main() is.  With Faults the   *)
(* process may be killed at any step and fopen, fwrite and fflush may     *)
(* fail; fwrite hands the kernel only a prefix of the image before it     *)
(* returns or fails, and fflush the rest from the stdio buffer, at the    *)
(* offset the kernel had reached, so a write can be torn.                 *)
(***************************************************************************)
EXTENDS Integers, Sequences, SequencesExt

CONSTANTS
  MAX_ROWS,     \* #define MAX_ROWS
  MAX_DATA,     \* #define MAX_DATA
  Chars,        \* the non-NUL bytes arguments are made of
  Names,        \* argv[4] of `set`
  Emails,       \* argv[5] of `set`
  FindNames,    \* argv[3] of `find`
  Ids,          \* atoi(argv[3]): may lie outside 0 .. MAX_ROWS - 1
  Faults,       \* whether kills and I/O failures happen
  NoFile,       \* model value: the file does not exist
  Uninit,       \* model value: conn->db as malloc returned it
  Garbage,      \* model value: what get prints of a row outside the table
  NotSet,       \* model value: get of a row whose set flag is clear
  NotFound,     \* model value: find without a match
  NoOutput,     \* model value: nothing printed yet
  Empty,        \* model value, for the abstract specification
  NoStore       \* model value, for the abstract specification

ASSUME MAX_ROWS \in Nat \ {0} /\ MAX_DATA \in Nat \ {0, 1}
ASSUME 0 \notin Chars /\ Faults \in BOOLEAN

VARIABLES
  disk,     \* content of dbfile
  pc,       \* "idle" between invocations, else the step of main() next
  cmd,      \* the command line of the current (or last) invocation
  mem,      \* conn->db
  out,      \* what the last get/find/list printed, tagged with the command
  status,   \* exit status of the last invocation: "ok", "fail", "crash"
  before,   \* history: disk as the current invocation found it
  sent      \* cells of the image fwrite has handed to the kernel

vars == <<disk, pc, cmd, mem, out, status, before, sent>>

Rows == 0 .. MAX_ROWS - 1
Bytes == {0} \cup Chars
Zeros == [k \in 1 .. MAX_DATA |-> 0]

\* struct Address
Row == [id : Rows, set : {0, 1},
        name : [1 .. MAX_DATA -> Bytes], email : [1 .. MAX_DATA -> Bytes]]

RowSize == 2 + 2 * MAX_DATA
ImageSize == MAX_ROWS * RowSize

(***************************************************************************)
(* The raw memory image fwrite stores and fread loads: rows in index order, *)
(* each as id, set, name bytes, email bytes.                               *)
(***************************************************************************)
Image(db) ==
  FlattenSeq([k \in 1 .. MAX_ROWS |->
                <<db[k - 1].id, db[k - 1].set>> \o db[k - 1].name \o db[k - 1].email])

Decode(img) ==
  [i \in Rows |->
     LET b == i * RowSize
     IN [id    |-> img[b + 1],
         set   |-> img[b + 2],
         name  |-> SubSeq(img, b + 3, b + 2 + MAX_DATA),
         email |-> SubSeq(img, b + 3 + MAX_DATA, b + 2 + 2 * MAX_DATA)]]

\* fread(conn->db, sizeof(struct Database), 1, file) returns 1.
Loadable(img) == img # NoFile /\ Len(img) = ImageSize

\* The text a %s or strcmp sees in a field: the bytes before the first NUL.
CStr(f) ==
  LET z == SelectInSeq(f, LAMBDA c : c = 0)
  IN IF z = 0 THEN f ELSE SubSeq(f, 1, z - 1)

\* strncpy(dest, src, n): n bytes of src, NUL-padded; bytes past n untouched.
Strncpy(dest, src, n) ==
  [k \in 1 .. Len(dest) |->
     IF k > n THEN dest[k] ELSE IF k <= Len(src) THEN src[k] ELSE 0]

\* Address_print
AddressPrint(addr) == [id |-> addr.id, name |-> CStr(addr.name), email |-> CStr(addr.email)]

\* Database_create: every row {.id = i, .set = 0}, the rest zero-filled.
Database_create == [i \in Rows |-> [id |-> i, set |-> 0, name |-> Zeros, email |-> Zeros]]

(***************************************************************************)
(* Plausible faults of the code below, each the same operator with one     *)
(* change; each property of the runs is shown able to catch one of them.   *)
(***************************************************************************)
Strcpy(dest, src) ==
  [k \in 1 .. Max({Len(dest), Len(src) + 1}) |->
     IF k <= Len(src) THEN src[k] ELSE IF k = Len(src) + 1 THEN 0 ELSE dest[k]]

\* strcpy instead of strncpy: a long argument runs past the field.
Database_set_strcpy(db, id, name, email) ==
  [db EXCEPT ![id].set = 1, ![id].name = Strcpy(@, name), ![id].email = Strcpy(@, email)]

\* strncpy of email with the full width MAX_DATA.
Database_set_email_full(db, id, name, email) ==
  [db EXCEPT ![id].set = 1,
             ![id].name = [Strncpy(@, name, MAX_DATA - 1) EXCEPT ![MAX_DATA] = 0],
             ![id].email = Strncpy(@, email, MAX_DATA)]

\* The memset of email left out.
Database_delete_keep_email(db, id) ==
  IF db[id].set # 0 THEN [db EXCEPT ![id].set = 0, ![id].name = Zeros] ELSE db

\* Database_set past its `Already set` check.  Line 141 terminates name
\* a second time; email[MAX_DATA - 1] is never written.
Database_set(db, id, name, email) ==
  [db EXCEPT ![id].set = 1,
             ![id].name = [Strncpy(@, name, MAX_DATA - 1) EXCEPT ![MAX_DATA] = 0],
             ![id].email = Strncpy(@, email, MAX_DATA - 1)]

Database_delete(db, id) ==
  IF db[id].set # 0
  THEN [db EXCEPT ![id].set = 0, ![id].name = Zeros, ![id].email = Zeros]
  ELSE db

\* Database_find: the first row, set or not, whose name compares equal.
Database_find(db, name) ==
  LET hits == {i \in Rows : CStr(db[i].name) = name}
  IN IF hits = {} THEN NotFound ELSE db[Min(hits)].id

Database_list(db) ==
  LET ids == SetToSortSeq({i \in Rows : db[i].set # 0}, <)
  IN [k \in 1 .. Len(ids) |-> AddressPrint(db[ids[k]])]

(***************************************************************************)
(* Command lines.  `ok` says whether argc fits the action; c, l and an     *)
(* invalid action do not check it.                                         *)
(***************************************************************************)
Commands ==
  [act : {"s"}, id : Ids, name : Names, email : Emails, ok : BOOLEAN]
  \cup [act : {"g", "d"}, id : Ids, name : {<<>>}, email : {<<>>}, ok : BOOLEAN]
  \cup [act : {"f"}, id : {0}, name : FindNames, email : {<<>>}, ok : BOOLEAN]
  \cup [act : {"c", "l", "x"}, id : {0}, name : {<<>>}, email : {<<>>}, ok : {TRUE}]

\* The process ends with status st; conn->db goes with it.
Exit(st) ==
  /\ pc' = "idle"
  /\ status' = st
  /\ mem' = Uninit
  /\ sent' = 0

\* die(): exit(1) without Database_close.
Die == Exit("fail")

\* The cells of the file after fwrite, from offset 0 after rewind, handed
\* k cells of the image to the kernel: they overwrite the file in place
\* (empty after "w" truncated it) and extend it where it is shorter.
Torn(k) == SubSeq(Image(mem), 1, k) \o SubSeq(disk, k + 1, Len(disk))

\* The file after fflush wrote j more cells of the buffered rest of the
\* image at offset `sent`; a file shorter than that (truncated meanwhile)
\* reads as zeros up to the offset, a hole.
Flushed(j) ==
  [c \in 1 .. sent |-> IF c <= Len(disk) THEN disk[c] ELSE 0]
    \o SubSeq(Image(mem), sent + 1, sent + j)
    \o SubSeq(disk, sent + j + 1, Len(disk))

-----------------------------------------------------------------------------
\* A process before main() runs.
ProcInit ==
  /\ pc = "idle"
  /\ cmd = [act |-> "x", id |-> 0, name |-> <<>>, email |-> <<>>, ok |-> TRUE]
  /\ mem = Uninit
  /\ out = NoOutput
  /\ status = "ok"
  /\ before = NoFile
  /\ sent = 0

Init == disk = NoFile /\ ProcInit

\* main() up to the switch: Database_open(filename, action).
Open(c) ==
  /\ pc = "idle"
  /\ cmd' = c
  /\ before' = disk
  /\ UNCHANGED out
  /\ \/ /\ c.act = "c"
        /\ disk' = <<>>
        /\ pc' = "exec"
        /\ UNCHANGED <<mem, status, sent>>
     \/ /\ c.act # "c"
        /\ Loadable(disk)
        /\ mem' = Decode(disk)
        /\ pc' = "exec"
        /\ UNCHANGED <<disk, status, sent>>
     \/ /\ c.act # "c"
        /\ ~Loadable(disk)
        /\ Die
        /\ UNCHANGED disk

\* fopen itself fails (permissions, no space for the new file).
OpenFail(c) ==
  /\ Faults
  /\ pc = "idle"
  /\ cmd' = c
  /\ before' = disk
  /\ Die
  /\ UNCHANGED <<disk, out>>

ExecCreate ==
  /\ pc = "exec" /\ cmd.act = "c"
  /\ mem' = Database_create
  /\ pc' = "write"
  /\ UNCHANGED <<disk, cmd, out, status, before, sent>>

ExecGet ==
  /\ pc = "exec" /\ cmd.act = "g"
  /\ \/ ~cmd.ok /\ Die /\ UNCHANGED out
     \/ /\ cmd.ok /\ cmd.id \in Rows /\ mem[cmd.id].set # 0
        /\ out' = [get |-> AddressPrint(mem[cmd.id])]
        /\ pc' = "close"
        /\ UNCHANGED <<mem, status, sent>>
     \/ cmd.ok /\ cmd.id \in Rows /\ mem[cmd.id].set = 0 /\ Die /\ out' = [get |-> NotSet]
  /\ UNCHANGED <<disk, cmd, before>>

ExecFind ==
  /\ pc = "exec" /\ cmd.act = "f"
  /\ \/ ~cmd.ok /\ Die /\ UNCHANGED out
     \/ /\ cmd.ok
        /\ out' = [find |-> Database_find(mem, cmd.name)]
        /\ pc' = "close"
        /\ UNCHANGED <<mem, status, sent>>
  /\ UNCHANGED <<disk, cmd, before>>

\* The `Already set` check left out.
ExecSet_unchecked ==
  /\ pc = "exec" /\ cmd.act = "s"
  /\ \/ ~cmd.ok /\ Die
     \/ /\ cmd.ok /\ cmd.id \in Rows
        /\ mem' = Database_set(mem, cmd.id, cmd.name, cmd.email)
        /\ pc' = "write"
        /\ UNCHANGED <<status, sent>>
  /\ UNCHANGED <<disk, cmd, out, before>>

ExecSet ==
  /\ pc = "exec" /\ cmd.act = "s"
  /\ \/ ~cmd.ok /\ Die
     \/ cmd.ok /\ cmd.id \in Rows /\ mem[cmd.id].set # 0 /\ Die
     \/ /\ cmd.ok /\ cmd.id \in Rows /\ mem[cmd.id].set = 0
        /\ mem' = Database_set(mem, cmd.id, cmd.name, cmd.email)
        /\ pc' = "write"
        /\ UNCHANGED <<status, sent>>
  /\ UNCHANGED <<disk, cmd, out, before>>

ExecDelete ==
  /\ pc = "exec" /\ cmd.act = "d"
  /\ \/ ~cmd.ok /\ Die
     \/ /\ cmd.ok /\ cmd.id \in Rows
        /\ mem' = Database_delete(mem, cmd.id)
        /\ pc' = "write"
        /\ UNCHANGED <<status, sent>>
  /\ UNCHANGED <<disk, cmd, out, before>>

ExecList ==
  /\ pc = "exec" /\ cmd.act = "l"
  /\ out' = [list |-> Database_list(mem)]
  /\ pc' = "close"
  /\ UNCHANGED <<disk, cmd, mem, status, before, sent>>

ExecInvalid ==
  /\ pc = "exec" /\ cmd.act = "x"
  /\ Die
  /\ UNCHANGED <<disk, cmd, out, before>>

(***************************************************************************)
(* &conn->db->rows[id] with id outside the table: undefined behaviour.     *)
(* The build either faults, or reads and writes memory next to the table:  *)
(* get prints garbage or finds the flag clear, set finds the flag set and  *)
(* dies or writes outside the table, delete clears memory outside it.  In  *)
(* every outcome the table itself is untouched.                            *)
(***************************************************************************)
ExecOutOfRange ==
  /\ pc = "exec" /\ cmd.act \in {"g", "s", "d"} /\ cmd.ok /\ cmd.id \notin Rows
  /\ \/ Exit("crash") /\ UNCHANGED out
     \/ /\ cmd.act = "g"
        /\ out' = [get |-> Garbage]
        /\ pc' = "close"
        /\ UNCHANGED <<mem, status, sent>>
     \/ cmd.act = "g" /\ Die /\ out' = [get |-> NotSet]
     \/ cmd.act = "s" /\ Die /\ UNCHANGED out
     \/ cmd.act \in {"s", "d"} /\ pc' = "write" /\ UNCHANGED <<mem, out, status, sent>>
  /\ UNCHANGED <<disk, cmd, before>>

\* rewind + fwrite returning 1: a prefix of the image reaches the file,
\* the rest waits in the stdio buffer.
Write ==
  /\ pc = "write"
  /\ \E k \in 0 .. ImageSize : disk' = Torn(k) /\ sent' = k
  /\ pc' = "flush"
  /\ UNCHANGED <<cmd, mem, out, status, before>>

\* fwrite returns 0 after handing over part of the image.
WriteFail ==
  /\ Faults
  /\ pc = "write"
  /\ \E k \in 0 .. ImageSize - 1 : disk' = Torn(k)
  /\ Die
  /\ UNCHANGED <<cmd, out, before>>

\* fflush writes the rest of the image from the buffer.
Flush ==
  /\ pc = "flush"
  /\ disk' = Flushed(ImageSize - sent)
  /\ pc' = "close"
  /\ UNCHANGED <<cmd, mem, out, status, before, sent>>

\* fflush fails after writing part of the rest.
FlushFail ==
  /\ Faults
  /\ pc = "flush"
  /\ \E j \in 0 .. ImageSize - sent - 1 : disk' = Flushed(j)
  /\ Die
  /\ UNCHANGED <<cmd, out, before>>

\* Database_close and return 0.
Close ==
  /\ pc = "close"
  /\ Exit("ok")
  /\ UNCHANGED <<disk, cmd, out, before>>

\* The process is killed; during fwrite or fflush, part of the image has
\* reached the file, and what was still buffered is lost.
Crash ==
  /\ Faults
  /\ pc # "idle"
  /\ CASE pc = "write" -> \E k \in 0 .. ImageSize : disk' = Torn(k)
       [] pc = "flush" -> \E j \in 0 .. ImageSize - sent : disk' = Flushed(j)
       [] OTHER -> UNCHANGED disk
  /\ Exit("crash")
  /\ UNCHANGED <<cmd, out, before>>

Next ==
  \/ \E c \in Commands : Open(c) \/ OpenFail(c)
  \/ ExecCreate \/ ExecGet \/ ExecFind \/ ExecSet \/ ExecDelete \/ ExecList
  \/ ExecInvalid \/ ExecOutOfRange
  \/ Write \/ WriteFail \/ Flush \/ FlushFail \/ Close \/ Crash

Spec == Init /\ [][Next]_vars

-----------------------------------------------------------------------------
TypeOK ==
  /\ disk = NoFile \/ (disk \in Seq(Rows \cup Bytes) /\ Len(disk) <= ImageSize)
  /\ pc \in {"idle", "exec", "write", "flush", "close"}
  /\ cmd \in Commands
  /\ mem = Uninit \/ mem \in [Rows -> Row]
  /\ status \in {"ok", "fail", "crash"}
  /\ before = NoFile \/ before \in Seq(Rows \cup Bytes)
  /\ sent \in 0 .. ImageSize

\* Cell offsets of the last byte of row i's name and email fields.
NameEnd(i) == i * RowSize + 2 + MAX_DATA
EmailEnd(i) == i * RowSize + 2 + 2 * MAX_DATA

(***************************************************************************)
(* Every name and email field, in memory and in every cell of the file,    *)
(* ends in a NUL, so %s and strcmp never read past a field.  For email     *)
(* this rests on Database_set never writing email[MAX_DATA - 1] (line 141  *)
(* terminates name instead), on Database_create zero-filling it, and on    *)
(* Database_delete's memset, across invocations, torn writes and crashes.  *)
(***************************************************************************)
FieldsTerminated ==
  /\ mem # Uninit =>
       \A i \in Rows : mem[i].name[MAX_DATA] = 0 /\ mem[i].email[MAX_DATA] = 0
  /\ disk # NoFile =>
       \A i \in Rows : \A p \in {NameEnd(i), EmailEnd(i)} : p <= Len(disk) => disk[p] = 0

(***************************************************************************)
(* A slot whose set flag is clear holds no stale name or email, in memory  *)
(* and in a loadable file between invocations: Database_delete's memsets   *)
(* and Database_create's zero-fill against every later set, delete, write *)
(* and reload.                                                             *)
(***************************************************************************)
UnsetCleared ==
  /\ mem # Uninit =>
       \A i \in Rows : mem[i].set = 0 => mem[i].name = Zeros /\ mem[i].email = Zeros
  /\ pc = "idle" /\ Loadable(disk) =>
       \A i \in Rows : LET r == Decode(disk)[i]
                       IN r.set = 0 => r.name = Zeros /\ r.email = Zeros

(***************************************************************************)
(* Refinement.  Between invocations the abstract table is what the file   *)
(* decodes to; during one, the file as the invocation found it.            *)
(***************************************************************************)
StoreView(img) ==
  IF ~Loadable(img) THEN NoStore
  ELSE LET db == Decode(img)
       IN [i \in Rows |-> IF db[i].set # 0
                          THEN [name |-> CStr(db[i].name), email |-> CStr(db[i].email)]
                          ELSE Empty]

Abs == INSTANCE AddressStore
         WITH store <- IF pc = "idle" THEN StoreView(disk) ELSE StoreView(before)

\* Each completed c, s and d command changes the durable table exactly as
\* the specification's Create, Set and Delete, and get, find and list
\* report what its Get, Find and List do.
AddressStoreSpec == Abs!Spec

\* The table a successful c, s or d leaves, as a function of the table it
\* found; only c makes a table where there is none.
Committed(c, S) ==
  CASE c.act = "c" -> [i \in Rows |-> Empty]
    [] c.act # "c" /\ S = NoStore -> S
    [] c.act = "s" /\ S # NoStore ->
         [S EXCEPT ![c.id] = [name |-> Abs!Bounded(c.name), email |-> Abs!Bounded(c.email)]]
    [] c.act = "d" /\ S # NoStore -> [S EXCEPT ![c.id] = Empty]
    [] c.act \in {"g", "f", "l", "x"} /\ S # NoStore -> S

(***************************************************************************)
(* Spec sections 3 and 7: save overwrites the whole image atomically from  *)
(* the caller's view, a failed save leaves the old content intact, and c  *)
(* does not touch storage before its save.  So a command that fails or is *)
(* killed leaves either the table it found or, killed after a complete    *)
(* save, that table with its whole effect.  Database_open's fopen "w"      *)
(* truncates for c at once, and Database_write's fwrite and fflush         *)
(* overwrite the image in place, a prefix at a time.                       *)
(***************************************************************************)
FailedCommandAllOrNothing ==
  pc = "idle" /\ status # "ok" =>
    StoreView(disk) \in {StoreView(before), Committed(cmd, StoreView(before))}

(***************************************************************************)
(* Spec 4.1: find reports an occupied slot.  Database_find compares the    *)
(* name of every row, set or not.                                          *)
(***************************************************************************)
FindReturnsOccupied ==
  pc = "idle" /\ status = "ok" /\ cmd.act = "f" /\ out.find # NotFound
    => StoreView(disk)[out.find] # Empty

(***************************************************************************)
(* Spec 4.1 / 8: get, set and delete with an id outside 0 .. MAX_ROWS - 1  *)
(* fail.  main() passes atoi(argv[3]) to rows[id] unchecked.               *)
(***************************************************************************)
OutOfRangeRejected ==
  pc = "idle" /\ status = "ok" /\ cmd.act \in {"g", "s", "d"} => cmd.id \in Rows
=============================================================================
