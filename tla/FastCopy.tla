------------------------------ MODULE FastCopy ------------------------------
(***************************************************************************)
(* The fast copy engine of src/include/fast_copy.h, as the game copy of    *)
(* src/source/utils.c drives it.                                           *)
(*                                                                         *)
(* Two threads share the engine's globals.  The copy thread walks a        *)
(* directory (my_game_copy), queues each file (fast_copy_add) and, when    *)
(* the queue is full and once more at the end, runs fast_copy_process: a   *)
(* loop that opens a file, issues one asynchronous read and one            *)
(* asynchronous write at a time, and polls two flags.  The AIO thread      *)
(* completes the requests and calls fast_func_read and fast_func_write.    *)
(*                                                                         *)
(* Data is abstracted to units: a unit of a source file is the pair of the *)
(* fragment it lies in and its offset there, so a misplaced, duplicated or *)
(* lost unit is visible at the destination.                                *)
(***************************************************************************)
EXTENDS Integers, Sequences, FiniteSets, EndToEnd

CONSTANTS
    Jobs,            \* directory listings to copy: sequences of entries
    CopyModes,       \* values of copy_mode: 0 normal, 1 split files of SPLIT_MIN
    MAX_FAST_FILES,  \* slots of the queue (16 in the code)
    FILESIZE_MAX,    \* units of a read buffer (2 MB in the code)
    GIGA,            \* units of one split fragment (1 GB in the code)
    SPLIT_MIN,       \* units from which copy_mode 1 splits (4 GB in the code)
    Faults           \* the calls that may fail in this instance

FaultKinds ==
    {"stat", "openr", "openw", "aior", "aiow", "read", "write", "close", "user"}

(***************************************************************************)
(* A directory entry.  "plain": an ordinary file.  "x666" and "part": the  *)
(* first fragment of a file split as .66600, .66601, ... or as name,       *)
(* name.1.part, ...; frags holds the length of every fragment.  "piece": a *)
(* later fragment, which the walk meets on its own and must ignore.        *)
(***************************************************************************)
Entry == [kind : {"plain", "x666", "part", "piece"}, frags : Seq(Nat)]

ASSUME SizesAssumption ==
    /\ MAX_FAST_FILES \in Nat \ {0}
    /\ FILESIZE_MAX \in Nat \ {0}
    /\ GIGA \in Nat \ {0}
    /\ SPLIT_MIN \in Nat \ {0}
ASSUME JobsAssumption ==
    /\ Jobs \subseteq Seq(Entry)
    /\ \A j \in Jobs : /\ j # << >>
                       /\ \A e \in DOMAIN j : Len(j[e].frags) >= 1
\* n is a whole number of read buffers.
Whole(n) == \E m \in 0 .. n : n = m * FILESIZE_MAX

\* A split fragment is a whole number of buffers, and a file that is split fills one.
ASSUME RatiosAssumption == Whole(GIGA) /\ SPLIT_MIN >= FILESIZE_MAX
\* A file that is not split is one fragment, only such a file may be empty, and a
\* fragment of a split one is no file of 4 GB.
ASSUME FragmentsAssumption ==
    \A j \in Jobs : \A e \in DOMAIN j :
        /\ j[e].kind = "plain" => Len(j[e].frags) = 1
        /\ \A k \in 2 .. Len(j[e].frags) : j[e].frags[k] > 0
        /\ j[e].kind \in {"x666", "part"} =>
               j[e].frags[1] > 0 /\ j[e].frags[1] < SPLIT_MIN
ASSUME ModesAssumption == CopyModes \subseteq {0, 1} /\ Faults \subseteq FaultKinds

VARIABLES
    job,             \* the directory being copied
    copy_mode,
    next,            \* the entry the walk hands to fast_copy_add next
    pc,              \* where the copy thread is
    caller,          \* who called fast_copy_process: "add" or "end"
    failed,          \* the walk returned FAILED
    error,           \* error of the current fast_copy_process
    abort_copy,
    file_counter,
    missed,          \* the entries a failing stat has cut short (no state of the code's)
    \* the t_slotVars of each slot of the queue:
    file,            \*   what fast_copy_add fixes: entry, bigfile_mode, buffer
    fl,              \*   operation control: 1 queued, 2 reading, 3 read, 4 done, 5 all read
    readed, writed,  \*   units read and written so far, -1 after an error
    off_readed,      \*   units of the fragments joined before the one being read
    len,             \*   units of the file, more with each fragment joined
    giga_counter,    \*   units in the output fragment being written
    number_frag,     \*   fragments joined or split off so far
    t_read, t_write, \*   the request blocks: descriptor, offset, size
    \* the globals of the engine:
    fast_num_files,
    fast_used_mem,
    cur_r,           \* current_fast_file_r
    cur_w,           \* current_fast_file_w
    i_reading,
    fast_read,       \* 0 idle, 1 issued, 2 called back
    fast_writing,    \* 0 idle, 1 issued, 2 called back
    files_opened,
    aio_r,           \* the read of each slot, in the AIO thread
    aio_w,           \* the write of each slot, in the AIO thread
    fds,             \* the descriptors the kernel holds open
    mem,             \* the two halves of each slot's buffer
    disk             \* the destination: each entry's output fragments

walkVars  == <<job, copy_mode, next, caller, failed>>
queueVars == <<fast_num_files, fast_used_mem, missed>>
fragVars  == <<len, giga_counter, number_frag, off_readed>>
slotVars  == <<file, fl, readed, writed, fragVars, t_read, t_write>>
aioVars   == <<aio_r, aio_w>>
kernVars  == <<fds, mem, disk>>
flagVars  == <<fast_read, fast_writing, i_reading>>
vars == <<walkVars, pc, error, abort_copy, file_counter, slotVars, queueVars,
          cur_r, cur_w, flagVars, files_opened, aioVars, kernVars>>

Slots == 0 .. MAX_FAST_FILES - 1
Hole  == <<>>
Unit  == {Hole} \cup (Int \X Int)
Rd(s, k) == <<"r", s, k>>       \* the descriptor slot s reads fragment k with
Wr(s, k) == <<"w", s, k>>       \* the descriptor slot s writes fragment k with

\* What a pwrite of data at offset off leaves in a file or buffer that held seq.
WriteAt(seq, off, data) ==
    [i \in 1 .. (IF Len(seq) >= off + Len(data) THEN Len(seq) ELSE off + Len(data)) |->
        IF i > off /\ i <= off + Len(data) THEN data[i - off]
        ELSE IF i <= Len(seq) THEN seq[i] ELSE Hole]

\* Opening output fragment k with O_CREAT and O_TRUNC.
Truncate(out, k) ==
    IF k + 1 \in DOMAIN out THEN [out EXCEPT ![k + 1] = << >>] ELSE Append(out, << >>)

\* Size of the next read of slot s when left units remain: at most one buffer.
Chunk(s, left) == IF left > file[s].size_mem THEN file[s].size_mem ELSE left

\* The output fragment slot s opens first.
OutFrag(s) == IF file[s].mode = 1 THEN number_frag[s] ELSE 0

\* A request block; a descriptor is named by the fragment it is open on.
Aio(f, o, n) == [fd |-> f, offset |-> o, size |-> n]
NoFile == [ent |-> 1, mode |-> 0, dbl |-> FALSE, size_mem |-> 0]
Zeros  == [s \in Slots |-> 0]

(***************************************************************************)
(* fast_copy_async(.., 1): the state my_game_copy starts from.             *)
(***************************************************************************)
Init ==
    /\ job \in Jobs /\ copy_mode \in CopyModes
    /\ next = 1 /\ pc = "walk" /\ caller = "add" /\ failed = FALSE
    /\ error = 0 /\ abort_copy = FALSE /\ file_counter = 0 /\ missed = {}
    /\ file = [s \in Slots |-> NoFile] /\ fl = Zeros /\ readed = Zeros /\ writed = Zeros
    /\ off_readed = Zeros /\ len = Zeros /\ giga_counter = Zeros /\ number_frag = Zeros
    /\ t_read = [s \in Slots |-> Aio(-1, 0, 0)] /\ t_write = [s \in Slots |-> Aio(-1, 0, 0)]
    /\ fast_num_files = 0 /\ fast_used_mem = 0
    /\ cur_r = 0 /\ cur_w = 0 /\ i_reading = FALSE
    /\ fast_read = 0 /\ fast_writing = 0 /\ files_opened = 0
    /\ aio_r = [s \in Slots |-> "idle"] /\ aio_w = [s \in Slots |-> "idle"]
    /\ fds = {} /\ mem = [s \in Slots |-> [lo |-> << >>, hi |-> << >>]]
    /\ disk = [e \in DOMAIN job |-> << >>]

-----------------------------------------------------------------------------
(* The directory walk and fast_copy_add. *)

\* Entering fast_copy_process.
CallProcess(who) ==
    /\ pc' = "loop" /\ caller' = who /\ error' = 0 /\ i_reading' = FALSE
    /\ cur_r' = 0 /\ cur_w' = 0

\* Mutation of QueueFull: one slot too many.
QueueFullLate == fast_num_files > MAX_FAST_FILES \/ fast_used_mem > MAX_FAST_FILES * FILESIZE_MAX

QueueFull == fast_num_files >= MAX_FAST_FILES \/ fast_used_mem >= FILESIZE_MAX

\* fast_copy_add finds the queue full and processes it before it adds.
AddFlush ==
    /\ pc = "walk" /\ next \in DOMAIN job /\ QueueFull
    /\ CallProcess("add")
    /\ UNCHANGED <<job, copy_mode, next, failed, abort_copy, file_counter, slotVars,
                   queueVars, fast_read, fast_writing, files_opened, aioVars, kernVars>>

\* A later fragment of a split file is ignored.
AddPiece ==
    /\ pc = "walk" /\ next \in DOMAIN job /\ ~QueueFull
    /\ job[next].kind = "piece"
    /\ next' = next + 1
    /\ UNCHANGED <<job, copy_mode, caller, failed, pc, error, abort_copy, file_counter,
                   slotVars, queueVars, cur_r, cur_w, flagVars, files_opened, aioVars,
                   kernVars>>

\* Mutation of CountFile: the file is not counted.
CountNothing == UNCHANGED file_counter

CountFile == file_counter' = file_counter + 1

\* An empty file is created at once and never queued.
AddEmpty ==
    /\ pc = "walk" /\ next \in DOMAIN job /\ ~QueueFull
    /\ job[next].kind # "piece" /\ job[next].frags[1] = 0
    /\ disk' = [disk EXCEPT ![next] = Truncate(@, 0)]
    /\ CountFile
    /\ next' = next + 1
    /\ UNCHANGED <<job, copy_mode, caller, failed, pc, error, abort_copy, slotVars,
                   queueVars, cur_r, cur_w, flagVars, files_opened, aioVars, fds, mem>>

\* The bigfile_mode fast_copy_add gives to entry e.
ModeOf(e) ==
    IF copy_mode = 1 /\ job[e].frags[1] >= SPLIT_MIN THEN 1
    ELSE IF job[e].kind = "x666" THEN 2
    ELSE IF job[e].kind = "part" THEN 3 ELSE 0

\* A stat of .1.part that fails is taken for the absence of the file.
ModesOf(e) ==
    {ModeOf(e)} \cup (IF job[e].kind = "part" /\ "stat" \in Faults THEN {0} ELSE {})

Fragmented(e) == Len(job[e].frags) > 1

\* A file is queued; the buffer is doubled from FILESIZE_MAX on.
AddFile ==
    /\ pc = "walk" /\ next \in DOMAIN job /\ ~QueueFull
    /\ job[next].kind # "piece" /\ job[next].frags[1] > 0
    /\ \E mode \in ModesOf(next) :
       LET n    == fast_num_files
           size == job[next].frags[1]
           dbl  == size >= FILESIZE_MAX
           smem == IF dbl THEN FILESIZE_MAX ELSE size
       IN /\ file' = [file EXCEPT ![n] =
                [ent |-> next, mode |-> mode, dbl |-> dbl, size_mem |-> smem]]
          /\ missed' = IF mode # ModeOf(next) /\ Fragmented(next) THEN missed \cup {next}
                       ELSE missed
          /\ fl' = [fl EXCEPT ![n] = 1]
          /\ readed' = [readed EXCEPT ![n] = 0] /\ writed' = [writed EXCEPT ![n] = 0]
          /\ len' = [len EXCEPT ![n] = size]
          /\ number_frag' = [number_frag EXCEPT ![n] = 0]
          /\ giga_counter' = IF mode = 1 THEN [giga_counter EXCEPT ![n] = 0]
                             ELSE giga_counter
          /\ t_read' = [t_read EXCEPT ![n].fd = -1]
          /\ t_write' = [t_write EXCEPT ![n].fd = -1]
          /\ fast_used_mem' = fast_used_mem + smem
    /\ mem' = [mem EXCEPT ![fast_num_files] = [lo |-> << >>, hi |-> << >>]]
    /\ fast_num_files' = fast_num_files + 1
    /\ next' = next + 1
    /\ UNCHANGED <<job, copy_mode, caller, failed, pc, error, abort_copy, file_counter, off_readed,
                   cur_r, cur_w, flagVars, files_opened, aioVars, fds, disk>>

\* fast_copy_add fails (stat, create or memory); my_game_copy still calls
\* fast_copy_process to release the queue.
AddFails ==
    /\ pc = "walk" /\ next \in DOMAIN job /\ ~QueueFull
    /\ job[next].kind # "piece" /\ "stat" \in Faults
    /\ abort_copy' = TRUE /\ failed' = TRUE
    /\ CallProcess("end")
    /\ UNCHANGED <<job, copy_mode, next, file_counter, slotVars, queueVars, fast_read,
                   fast_writing, files_opened, aioVars, kernVars>>

\* The walk is over: my_game_copy processes what is still queued.
EndWalk ==
    /\ pc = "walk" /\ next \notin DOMAIN job
    /\ CallProcess("end")
    /\ UNCHANGED <<job, copy_mode, next, failed, abort_copy, file_counter, slotVars,
                   queueVars, fast_read, fast_writing, files_opened, aioVars, kernVars>>

-----------------------------------------------------------------------------
(* fast_copy_process: one iteration runs the sections loop, readend,       *)
(* writeend and ui in order; an error leaves it for cleanup.               *)

walkUnchanged == UNCHANGED <<walkVars, queueVars, abort_copy>>

\* On to the next section with nothing done.
GoTo(section) ==
    /\ pc' = section
    /\ walkUnchanged
    /\ UNCHANGED <<error, file_counter, slotVars, cur_r, cur_w, flagVars, files_opened,
                   aioVars, kernVars>>

\* Break out of the loop.
Leave(e) == pc' = "cleanup" /\ error' = e

Running == cur_r < fast_num_files \/ cur_w < fast_num_files
           \/ fast_writing # 0 \/ files_opened # 0

LoopExit == pc = "loop" /\ (~Running \/ abort_copy) /\ GoTo("cleanup")

\* Mutation of OpenGuard: a file is opened while another is being finished.
OpenGuardBusy ==
    /\ pc = "loop" /\ Running /\ ~abort_copy
    /\ cur_r < fast_num_files /\ fl[cur_r] = 1 /\ ~i_reading

OpenGuard ==
    /\ pc = "loop" /\ Running /\ ~abort_copy
    /\ cur_r < fast_num_files /\ fl[cur_r] = 1 /\ ~i_reading /\ fast_read = 0
    /\ files_opened < 2

LoopSkip == pc = "loop" /\ Running /\ ~abort_copy /\ ~OpenGuard /\ GoTo("readend")

\* What the open section does before it opens anything.
ResetCounters ==
    /\ readed' = [readed EXCEPT ![cur_r] = 0]
    /\ writed' = [writed EXCEPT ![cur_r] = 0]
    /\ off_readed' = [off_readed EXCEPT ![cur_r] = 0]
    /\ UNCHANGED <<file, len, giga_counter, number_frag>>

NotOpened ==
    /\ ResetCounters
    /\ t_read' = [t_read EXCEPT ![cur_r].fd = -1]
    /\ t_write' = [t_write EXCEPT ![cur_r].fd = -1]
    /\ walkUnchanged
    /\ UNCHANGED <<fl, file_counter, cur_r, cur_w, flagVars, aioVars, mem, disk>>

OpenReadFails ==
    /\ OpenGuard /\ "openr" \in Faults
    /\ Leave(-1) /\ NotOpened
    /\ UNCHANGED <<fds, files_opened>>

\* The descriptor just opened for reading is still in a local variable.
OpenWriteFails ==
    /\ OpenGuard /\ "openw" \in Faults
    /\ fds' = fds \cup {Rd(cur_r, number_frag[cur_r])}
    /\ files_opened' = files_opened + 1
    /\ Leave(-2) /\ NotOpened

\* Mutation of OpenedTwo: the second descriptor is not counted.
OpenedOne == files_opened' = files_opened + 1

OpenedTwo == files_opened' = files_opened + 2

\* Both opens succeed and the first read is prepared.
OpenBoth ==
    /\ OpenGuard /\ ResetCounters
    /\ t_read' = [t_read EXCEPT ![cur_r] = Aio(number_frag[cur_r], 0, Chunk(cur_r, len[cur_r]))]
    /\ t_write' = [t_write EXCEPT ![cur_r] = Aio(OutFrag(cur_r), 0, t_write[cur_r].size)]
    /\ fl' = [fl EXCEPT ![cur_r] = 2]
    /\ fds' = fds \cup {Rd(cur_r, number_frag[cur_r]), Wr(cur_r, OutFrag(cur_r))}
    /\ OpenedTwo
    /\ disk' = [disk EXCEPT ![file[cur_r].ent] = Truncate(@, OutFrag(cur_r))]
    /\ walkUnchanged
    /\ UNCHANGED <<file_counter, cur_r, cur_w, fast_writing, aio_w, mem>>

OpenFile ==
    /\ OpenBoth
    /\ fast_read' = 1 /\ i_reading' = TRUE
    /\ aio_r' = [aio_r EXCEPT ![cur_r] = "issued"]
    /\ pc' = "readend" /\ UNCHANGED error

OpenFileAioFails ==
    /\ OpenBoth /\ "aior" \in Faults
    /\ Leave(-3)
    /\ UNCHANGED <<fast_read, i_reading, aio_r>>

-----------------------------------------------------------------------------
(* The end of a read: hand the data to a write, read ahead. *)

\* Mutation of ReadEndGuard: the write in flight is not waited for.
ReadEndEager == pc = "readend" /\ cur_r < fast_num_files /\ fl[cur_r] = 3

ReadEndGuard == pc = "readend" /\ cur_r < fast_num_files /\ fl[cur_r] = 3 /\ fast_writing = 0

ReadEndSkip == pc = "readend" /\ ~ReadEndGuard /\ GoTo("writeend")

\* A failed read, which the section tests first, or a write that is refused.
ReadEndFails ==
    /\ ReadEndGuard
    /\ \/ readed[cur_r] >= 0 /\ "aiow" \in Faults /\ Leave(-4) /\ cur_w' = cur_r
       \/ readed[cur_r] < 0 /\ Leave(-3) /\ UNCHANGED cur_w
    /\ walkUnchanged
    /\ UNCHANGED <<file_counter, slotVars, cur_r, flagVars, files_opened, aioVars, kernVars>>

\* Mutation of WriteOffset: a split fragment is written at the offset in the whole file.
WriteOffsetWhole(s) == writed[s]

\* Where the next write of slot s goes in the output fragment.
WriteOffset(s) ==
    IF file[s].mode = 1 /\ file[s].dbl THEN giga_counter[s] ELSE writed[s]

\* Common to every read end that issues a write.
IssueWrite ==
    /\ ReadEndGuard /\ readed[cur_r] >= 0
    /\ cur_w' = cur_r
    /\ fast_writing' = 1
    /\ aio_w' = [aio_w EXCEPT ![cur_r] = "issued"]
    /\ mem' = [mem EXCEPT ![cur_r].hi = IF file[cur_r].dbl THEN mem[cur_r].lo ELSE @]
    /\ t_write' = [t_write EXCEPT ![cur_r] =
            Aio(t_write[cur_r].fd, WriteOffset(cur_r), t_read[cur_r].size)]
    /\ UNCHANGED <<walkVars, fast_num_files, fast_used_mem, abort_copy>>
    /\ UNCHANGED <<file_counter, file, readed, writed, giga_counter, disk>>

\* Mutation of NextSlot: i_reading is left set.
NextSlotReading == cur_r' = cur_r + 1 /\ UNCHANGED i_reading /\ pc' = "writeend"

\* Advance to the next slot; the write goes on.
NextSlot == cur_r' = cur_r + 1 /\ i_reading' = FALSE /\ pc' = "writeend"

NoMoreReads == NextSlot /\ UNCHANGED <<error, fast_read, files_opened, t_read, aio_r, fds, len>>

SingleWrite ==
    /\ IssueWrite /\ ~file[cur_r].dbl
    /\ NoMoreReads
    /\ UNCHANGED <<fl, off_readed, number_frag, missed>>

LastRead ==
    /\ IssueWrite /\ file[cur_r].dbl /\ readed[cur_r] >= len[cur_r]
    /\ file[cur_r].mode \notin {2, 3}
    /\ fl' = [fl EXCEPT ![cur_r] = 5]
    /\ NoMoreReads
    /\ UNCHANGED <<off_readed, number_frag, missed>>

\* The read section issues one more read, or is refused.
IssueRead(section) ==
    /\ UNCHANGED <<cur_r, i_reading, missed>>
    /\ \/ /\ fast_read' = 1 /\ aio_r' = [aio_r EXCEPT ![cur_r] = "issued"]
          /\ pc' = section /\ UNCHANGED error
       \/ /\ "aior" \in Faults
          /\ fast_read' = 0 /\ UNCHANGED aio_r /\ Leave(-3)

\* More of this fragment is left: read it while the write runs.
ReadAhead ==
    /\ IssueWrite /\ file[cur_r].dbl /\ readed[cur_r] < len[cur_r]
    /\ t_read' = [t_read EXCEPT ![cur_r] =
            Aio(t_read[cur_r].fd, readed[cur_r] - off_readed[cur_r],
                Chunk(cur_r, len[cur_r] - readed[cur_r]))]
    /\ fl' = [fl EXCEPT ![cur_r] = 2]
    /\ IssueRead("writeend")
    /\ UNCHANGED <<files_opened, fds, len, off_readed, number_frag>>

\* A split source is read to the end of a fragment: on to the next fragment.
JoinStep ==
    /\ IssueWrite /\ file[cur_r].dbl /\ readed[cur_r] >= len[cur_r]
    /\ file[cur_r].mode \in {2, 3}
    /\ number_frag' = [number_frag EXCEPT ![cur_r] = @ + 1]
    /\ off_readed' = [off_readed EXCEPT ![cur_r] = readed[cur_r]]
    /\ UNCHANGED fl
HasNext == number_frag[cur_r] + 2 \in DOMAIN job[file[cur_r].ent].frags

\* No further fragment is found, whether there is one or its stat fails: the file is
\* taken to end here (fl keeps the value 3).
JoinMissing ==
    /\ JoinStep /\ NoMoreReads
    /\ \/ ~HasNext /\ UNCHANGED missed
       \/ HasNext /\ "stat" \in Faults /\ missed' = missed \cup {file[cur_r].ent}

\* The next fragment replaces the one that was read; its read is issued, and
\* only then does the section set fl to 2 (JoinSetFl).
JoinNext ==
    /\ JoinStep /\ HasNext
    /\ LET more == job[file[cur_r].ent].frags[number_frag[cur_r] + 2] IN
       /\ len' = [len EXCEPT ![cur_r] = @ + more]
       /\ t_read' = [t_read EXCEPT ![cur_r] =
               Aio(number_frag[cur_r] + 1, 0, Chunk(cur_r, len[cur_r] + more - readed[cur_r]))]
    /\ fds' = (fds \ {Rd(cur_r, t_read[cur_r].fd)}) \cup {Rd(cur_r, number_frag[cur_r] + 1)}
    /\ IssueRead("joined")
    /\ UNCHANGED files_opened

JoinOpenFails ==
    /\ JoinStep /\ HasNext /\ "openr" \in Faults
    /\ fds' = fds \ {Rd(cur_r, t_read[cur_r].fd)}
    /\ files_opened' = files_opened - 1
    /\ t_read' = [t_read EXCEPT ![cur_r].fd = -1]
    /\ fast_read' = 0
    /\ Leave(-1)
    /\ UNCHANGED <<cur_r, i_reading, aio_r, len, missed>>

JoinCloseFails ==
    /\ JoinStep /\ HasNext /\ "close" \in Faults
    /\ Leave(-4)
    /\ UNCHANGED <<cur_r, i_reading, fast_read, files_opened, t_read, aio_r, fds, len, missed>>

JoinSetFl ==
    /\ pc = "joined"
    /\ fl' = [fl EXCEPT ![cur_r] = 2]
    /\ pc' = "writeend"
    /\ walkUnchanged
    /\ UNCHANGED <<error, file_counter, file, readed, writed, fragVars, t_read, t_write, cur_r,
                   cur_w, flagVars, files_opened, aioVars, kernVars>>

-----------------------------------------------------------------------------
(* The end of a write: close the file, open the next split fragment, or go on. *)

WriteEndSkip == pc = "writeend" /\ fast_writing # 2 /\ GoTo("ui")

\* Common to every write end.
WriteEnd ==
    /\ pc = "writeend" /\ fast_writing = 2 /\ fast_writing' = 0
    /\ walkUnchanged
    /\ UNCHANGED <<file, readed, len, off_readed, cur_r, i_reading, aioVars, mem>>

WriteEndError ==
    /\ WriteEnd /\ writed[cur_w] < 0
    /\ Leave(-4)
    /\ UNCHANGED <<file_counter, fl, writed, giga_counter, number_frag, t_read, t_write, cur_w,
                   fast_read, files_opened, fds, disk>>

FileComplete == writed[cur_w] >= 0 /\ writed[cur_w] >= len[cur_w]

\* The descriptors slot s holds.
StoredOf(s) == {d \in {Rd(s, t_read[s].fd), Wr(s, t_write[s].fd)} : d[3] >= 0}

FinishFile ==
    /\ WriteEnd /\ FileComplete
    /\ fds' = fds \ StoredOf(cur_w)
    /\ files_opened' = files_opened - Cardinality(StoredOf(cur_w))
    /\ fast_read' = IF t_read[cur_w].fd >= 0 THEN 0 ELSE fast_read
    /\ t_read' = [t_read EXCEPT ![cur_w].fd = -1]
    /\ t_write' = [t_write EXCEPT ![cur_w].fd = -1]
    /\ fl' = [fl EXCEPT ![cur_w] = 4]
    /\ writed' = [writed EXCEPT ![cur_w] = -1]
    /\ cur_w' = cur_w + 1
    /\ CountFile
    /\ pc' = "ui"
    /\ UNCHANGED <<error, giga_counter, number_frag, disk>>

\* One of the two closes of a finished file fails: the first leaves both
\* descriptors, the second only the one that writes.
FinishCloseFails ==
    /\ WriteEnd /\ FileComplete /\ "close" \in Faults
    /\ Leave(-4)
    /\ UNCHANGED <<file_counter, fl, writed, giga_counter, number_frag, t_write, cur_w, disk>>
    /\ \/ UNCHANGED <<fds, files_opened, t_read, fast_read>>
       \/ /\ t_read[cur_w].fd >= 0
          /\ fds' = fds \ {Rd(cur_w, t_read[cur_w].fd)} /\ files_opened' = files_opened - 1
          /\ t_read' = [t_read EXCEPT ![cur_w].fd = -1]
          /\ fast_read' = 0

\* Mutation of SplitDue: the fragment is left one buffer too late.
SplitDueLate ==
    /\ writed[cur_w] >= 0 /\ writed[cur_w] < len[cur_w]
    /\ file[cur_w].mode = 1 /\ giga_counter[cur_w] > GIGA

SplitDue ==
    /\ writed[cur_w] >= 0 /\ writed[cur_w] < len[cur_w]
    /\ file[cur_w].mode = 1 /\ giga_counter[cur_w] >= GIGA

SplitStep ==
    /\ WriteEnd /\ SplitDue
    /\ UNCHANGED <<file_counter, fl, writed, t_read, cur_w, fast_read>>

NextFrag ==
    /\ giga_counter' = [giga_counter EXCEPT ![cur_w] = 0]
    /\ number_frag' = [number_frag EXCEPT ![cur_w] = @ + 1]

SplitFile ==
    /\ SplitStep /\ NextFrag
    /\ fds' = (fds \ {Wr(cur_w, t_write[cur_w].fd)}) \cup {Wr(cur_w, number_frag[cur_w] + 1)}
    /\ t_write' = [t_write EXCEPT ![cur_w].fd = number_frag[cur_w] + 1]
    /\ disk' = [disk EXCEPT ![file[cur_w].ent] = Truncate(@, number_frag[cur_w] + 1)]
    /\ pc' = "ui"
    /\ UNCHANGED <<error, files_opened>>

\* Closing the full fragment fails, or opening the next one does.
SplitCloseFails ==
    /\ SplitStep /\ "close" \in Faults
    /\ Leave(-4)
    /\ UNCHANGED <<fds, files_opened, giga_counter, number_frag, t_write, disk>>

SplitOpenFails ==
    /\ SplitStep /\ NextFrag /\ "openw" \in Faults
    /\ Leave(-2)
    /\ fds' = fds \ {Wr(cur_w, t_write[cur_w].fd)}
    /\ files_opened' = files_opened - 1
    /\ t_write' = [t_write EXCEPT ![cur_w].fd = -1]
    /\ UNCHANGED disk

WriteOn ==
    /\ WriteEnd /\ writed[cur_w] >= 0 /\ ~FileComplete /\ ~SplitDue
    /\ pc' = "ui"
    /\ UNCHANGED <<error, file_counter, fl, writed, giga_counter, number_frag, t_read, t_write,
                   cur_w, fast_read, files_opened, fds, disk>>

-----------------------------------------------------------------------------
(* Progress display and the user's abort, then the release of everything. *)

Display == pc = "ui" /\ GoTo("loop")

\* The dialog's cancel lets the loop go round; the pad leaves it at once.
UserAbort ==
    /\ pc = "ui" /\ "user" \in Faults
    /\ abort_copy' = TRUE /\ error' = -666
    /\ pc' \in {"loop", "cleanup"}
    /\ UNCHANGED <<walkVars, queueVars, file_counter, slotVars, cur_r, cur_w, flagVars,
                   files_opened, aioVars, kernVars>>

\* Mutation of Stored: the last queued slot is forgotten.
StoredButLast == UNION {StoredOf(s) : s \in 0 .. fast_num_files - 2}

\* The descriptors the queued slots hold.
Stored == UNION {StoredOf(s) : s \in 0 .. fast_num_files - 1}

\* Mutation of Cancelled: the request is left to the AIO thread.
CancelledNot(aio, flag) == aio

\* The requests of one kind after the cancellation that flag, still 1, asks for.
Cancelled(aio, flag) == [s \in Slots |-> IF flag = 1 THEN "idle" ELSE aio[s]]

Closed(t) == [s \in Slots |-> IF s < fast_num_files THEN [t[s] EXCEPT !.fd = -1] ELSE t[s]]

\* Requests in flight are cancelled, then descriptors and buffers released.
Cleanup ==
    /\ pc = "cleanup"
    /\ aio_w' = Cancelled(aio_w, fast_writing) /\ aio_r' = Cancelled(aio_r, fast_read)
    /\ fast_writing' = 0 /\ fast_read' = 0
    /\ fds' = fds \ Stored
    /\ files_opened' = files_opened - Cardinality(Stored)
    /\ t_read' = Closed(t_read) /\ t_write' = Closed(t_write)
    /\ mem' = [s \in Slots |-> [lo |-> << >>, hi |-> << >>]]
    /\ fast_num_files' = 0 /\ fast_used_mem' = 0 /\ cur_r' = 0 /\ cur_w' = 0
    /\ abort_copy' = (abort_copy \/ error # 0)
    /\ pc' = "return"
    /\ UNCHANGED <<walkVars, error, file_counter, missed, file, fl, readed, writed, fragVars,
                   i_reading, disk>>

\* Back in fast_copy_add, which goes on to queue its entry ...
ReturnToAdd == pc = "return" /\ caller = "add" /\ error = 0 /\ ~abort_copy /\ GoTo("walk")

\* ... or fails, and my_game_copy calls fast_copy_process once more.
ReturnFailed ==
    /\ pc = "return" /\ caller = "add" /\ (error # 0 \/ abort_copy)
    /\ failed' = TRUE /\ abort_copy' = TRUE
    /\ CallProcess("end")
    /\ UNCHANGED <<job, copy_mode, next, file_counter, slotVars, queueVars, fast_read,
                   fast_writing, files_opened, aioVars, kernVars>>

\* my_game_copy returns: fast_copy_async(.., 0) and its result.
Finish ==
    /\ pc = "return" /\ caller = "end"
    /\ pc' = "done"
    /\ failed' = (failed \/ error < 0)
    /\ files_opened' = 0
    /\ UNCHANGED <<job, copy_mode, next, caller, error, abort_copy, file_counter, slotVars,
                   queueVars, cur_r, cur_w, flagVars, aioVars, kernVars>>

-----------------------------------------------------------------------------
(* The AIO thread: it moves the data of a request, then calls back. *)

copyUnchanged ==
    UNCHANGED <<walkVars, pc, error, abort_copy, file_counter, queueVars, cur_r, cur_w,
                i_reading, files_opened, fds, file, len, off_readed, number_frag, t_read,
                t_write>>

ReadTransfer(s) ==
    LET r == t_read[s] IN
    /\ aio_r[s] = "issued"
    /\ aio_r' = [aio_r EXCEPT ![s] = "moved"]
    /\ mem' = [mem EXCEPT ![s].lo =
            WriteAt(@, 0, [i \in 1 .. r.size |-> <<r.fd, r.offset + i - 1>>])]
    /\ copyUnchanged
    /\ UNCHANGED <<fl, readed, writed, giga_counter, fast_read, fast_writing, aio_w, disk>>

fast_func_read(s) ==
    /\ aio_r[s] = "moved"
    /\ aio_r' = [aio_r EXCEPT ![s] = "idle"]
    /\ readed' = [readed EXCEPT ![s] = @ + t_read[s].size]
    /\ fast_read' = 2
    /\ fl' = [fl EXCEPT ![s] = 3]
    /\ copyUnchanged
    /\ UNCHANGED <<writed, giga_counter, fast_writing, aio_w, mem, disk>>

\* The callback of a failed or short read stores readed and returns.
ReadError(s) ==
    /\ aio_r[s] = "issued" /\ "read" \in Faults
    /\ aio_r' = [aio_r EXCEPT ![s] = "idle"]
    /\ readed' = [readed EXCEPT ![s] = -1]
    /\ copyUnchanged
    /\ UNCHANGED <<fl, writed, giga_counter, fast_read, fast_writing, aio_w, mem, disk>>

\* Unit i of a buffer: a hole where no read has put anything.
UnitAt(buf, i) == IF i \in DOMAIN buf THEN buf[i] ELSE Hole

BufferOf(s) == IF file[s].dbl THEN mem[s].hi ELSE mem[s].lo

\* The destination once the first n units of a write of slot s have reached it.
Sent(s, n) ==
    LET w == t_write[s] IN
    [disk EXCEPT ![file[s].ent][w.fd + 1] =
        WriteAt(@, w.offset, [i \in 1 .. n |-> UnitAt(BufferOf(s), i)])]

WriteTransfer(s) ==
    /\ aio_w[s] = "issued"
    /\ aio_w' = [aio_w EXCEPT ![s] = "moved"]
    /\ disk' = Sent(s, t_write[s].size)
    /\ copyUnchanged
    /\ UNCHANGED <<fl, readed, writed, giga_counter, fast_read, fast_writing, aio_r, mem>>

fast_func_write(s) ==
    /\ aio_w[s] = "moved"
    /\ aio_w' = [aio_w EXCEPT ![s] = "idle"]
    /\ writed' = [writed EXCEPT ![s] = @ + t_write[s].size]
    /\ giga_counter' = [giga_counter EXCEPT ![s] = @ + t_write[s].size]
    /\ fast_writing' = 2
    /\ copyUnchanged
    /\ UNCHANGED <<fl, readed, fast_read, aio_r, mem, disk>>

\* A failed or short write: some of its data may have reached the file.
WriteError(s) ==
    /\ aio_w[s] = "issued" /\ "write" \in Faults
    /\ aio_w' = [aio_w EXCEPT ![s] = "idle"]
    /\ writed' = [writed EXCEPT ![s] = -1]
    /\ \E n \in 0 .. t_write[s].size - 1 : disk' = Sent(s, n)
    /\ fast_writing' = 2
    /\ copyUnchanged
    /\ UNCHANGED <<fl, readed, giga_counter, fast_read, aio_r, mem>>

-----------------------------------------------------------------------------
Walk == AddFlush \/ AddPiece \/ AddEmpty \/ AddFile \/ AddFails \/ EndWalk
OpenSection == LoopExit \/ LoopSkip \/ OpenReadFails \/ OpenWriteFails \/ OpenFile
               \/ OpenFileAioFails
ReadEndSection == ReadEndSkip \/ ReadEndFails \/ SingleWrite \/ ReadAhead \/ LastRead
                  \/ JoinMissing \/ JoinNext \/ JoinOpenFails \/ JoinCloseFails \/ JoinSetFl
WriteEndSection == WriteEndSkip \/ WriteEndError \/ FinishFile \/ FinishCloseFails
                   \/ SplitFile \/ SplitCloseFails \/ SplitOpenFails \/ WriteOn
Leaving == Display \/ UserAbort \/ Cleanup \/ ReturnToAdd \/ ReturnFailed \/ Finish

CopyThread == Walk \/ OpenSection \/ ReadEndSection \/ WriteEndSection \/ Leaving
AioThread == \E s \in Slots : \/ ReadTransfer(s) \/ fast_func_read(s) \/ ReadError(s)
                              \/ WriteTransfer(s) \/ fast_func_write(s) \/ WriteError(s)

\* The program is over once my_game_copy has returned.
Terminated == pc = "done" /\ UNCHANGED vars

Next == CopyThread \/ AioThread \/ Terminated

(***************************************************************************)
(* The copy thread never blocks, and every request the AIO thread accepted *)
(* is eventually answered.                                                 *)
(***************************************************************************)
Fairness ==
    /\ WF_vars(CopyThread)
    /\ \A s \in Slots : /\ WF_vars(ReadTransfer(s) \/ fast_func_read(s))
                        /\ WF_vars(WriteTransfer(s) \/ fast_func_write(s))

Spec == Init /\ [][Next]_vars

FairSpec == Spec /\ Fairness

-----------------------------------------------------------------------------
(* Properties *)

FdType  == Nat \cup {-1}
FileType == [ent : DOMAIN job, mode : 0 .. 3, dbl : BOOLEAN, size_mem : Int]
AioType == [fd : FdType, offset : Int, size : Int]

ControlType ==
    /\ job \in Jobs /\ copy_mode \in CopyModes /\ next \in 1 .. Len(job) + 1
    /\ pc \in {"walk", "loop", "readend", "joined", "writeend", "ui", "cleanup", "return",
              "done"}
    /\ caller \in {"add", "end"} /\ failed \in BOOLEAN
    /\ error \in {0, -1, -2, -3, -4, -666} /\ abort_copy \in BOOLEAN /\ file_counter \in Nat
    /\ i_reading \in BOOLEAN
QueueType ==
    /\ file \in [Slots -> FileType] /\ fl \in [Slots -> 0 .. 5]
    /\ readed \in [Slots -> Int] /\ writed \in [Slots -> Int] /\ off_readed \in [Slots -> Int]
    /\ len \in [Slots -> Int] /\ giga_counter \in [Slots -> Int] /\ number_frag \in [Slots -> Nat]
    /\ t_read \in [Slots -> AioType] /\ t_write \in [Slots -> AioType]
EngineType ==
    /\ fast_num_files \in 0 .. MAX_FAST_FILES /\ fast_used_mem \in Int
    /\ cur_r \in 0 .. MAX_FAST_FILES /\ cur_w \in 0 .. MAX_FAST_FILES
    /\ fast_read \in 0 .. 2 /\ fast_writing \in 0 .. 2
    /\ files_opened \in Int
KernelType ==
    /\ aio_r \in [Slots -> {"idle", "issued", "moved"}]
    /\ aio_w \in [Slots -> {"idle", "issued", "moved"}]
    /\ fds \in SUBSET ({"r", "w"} \X Slots \X Nat)
    /\ mem \in [Slots -> [lo : Seq(Unit), hi : Seq(Unit)]]
    /\ disk \in [DOMAIN job -> Seq(Seq(Unit))]

\* The values each variable of the engine can take.
TypeOK == ControlType /\ QueueType /\ EngineType /\ KernelType /\ missed \subseteq DOMAIN job

InProcess == pc \in {"loop", "readend", "joined", "writeend", "ui", "cleanup"}

\* The count the loop waits on, files_opened, is the number of descriptors really
\* open (fast_copy.h:402, the ++ and -- around each open and close); each
\* descriptor a slot holds is open; and one is open that no slot holds only
\* after an open for writing that failed.
FdAccounting ==
    /\ Stored \subseteq fds
    /\ InProcess => files_opened = Cardinality(fds)
    /\ "openw" \notin Faults => fds = Stored

\* The loop has at most one file open, so that two files never share fast_read,
\* fast_writing, cur_r and cur_w (the guard files_opened < 2 at fast_copy.h:409).
OneFileAtATime ==
    \A s1, s2 \in Slots : StoredOf(s1) # {} /\ StoredOf(s2) # {} => s1 = s2

\* A request in flight belongs to a queued slot and its descriptor is open: no
\* step closes a descriptor or frees a buffer under the AIO thread.
NoCloseUnderIO ==
    \A s \in Slots :
        /\ aio_r[s] # "idle" => s < fast_num_files /\ Rd(s, t_read[s].fd) \in fds
        /\ aio_w[s] # "idle" => s < fast_num_files /\ Wr(s, t_write[s].fd) \in fds

\* While a write is in flight the half of the buffer it sends does not change:
\* the point of copying the first half to the second before reading ahead
\* (fast_copy.h:538).
BufferStable ==
    [][\A s \in Slots :
          aio_w[s] = "issued" /\ aio_w'[s] # "idle" => BufferOf(s)' = BufferOf(s)]_vars

\* No output fragment of a split file exceeds GIGA, and only the last one of a
\* copy that succeeded is shorter; a file that is not split has one fragment.
SplitSizes ==
    \A e \in DOMAIN job :
        IF ModeOf(e) = 1
        THEN \A k \in DOMAIN disk[e] :
                /\ Len(disk[e][k]) <= GIGA
                /\ k < Len(disk[e]) => Len(disk[e][k]) = GIGA
        ELSE Len(disk[e]) <= 1

\* The counter shown as (i/n) has counted each file once when the copy succeeds.
CountMatches ==
    pc = "done" /\ ~failed =>
        file_counter = Cardinality({e \in DOMAIN job : job[e].kind # "piece"})

\* Once the engine has returned from a run in which no open for writing failed,
\* nothing is left open or in flight.
CleanReturn ==
    pc \in {"return", "done"} =>
        /\ "openw" \notin Faults => fds = {}
        /\ \A s \in Slots : aio_r[s] = "idle" /\ aio_w[s] = "idle"

(***************************************************************************)
(* The refinement: a file's content is its output fragments, end to end.   *)
(***************************************************************************)
Parts(e)    == Numbered(job[e].frags)
SourceOf(e) == IF job[e].kind = "piece" THEN << >> ELSE EndToEnd(Parts(e))
Sources     == [e \in DOMAIN job |-> SourceOf(e)]
Delivered   == [e \in DOMAIN job |-> EndToEnd(disk[e])]
Status      == IF pc # "done" THEN "copying" ELSE IF failed THEN "failed" ELSE "ok"

\* A job whose split files the engine joins: it looks for a second fragment only
\* when the first one fills a buffer (fast_copy.h:678).
JoinsAll ==
    \A j \in Jobs : \A e \in DOMAIN j :
        Len(j[e].frags) > 1 /\ j[e].kind # "piece" => j[e].frags[1] >= FILESIZE_MAX

Copy == INSTANCE CopySpec WITH
    MaxWrite <- FILESIZE_MAX, MayMiss <- "stat" \in Faults,
    source <- Sources, dest <- Delivered, short <- missed, status <- Status

\* The engine copies: every write extends the right file by the right units, in
\* order, and success is reported only when each file is whole, or cut short by a stat of
\* its next fragment that failed (fast_copy.h:201, :610).
ImplementsCopy == Copy!CopySpec

\* my_game_copy returns: the loop of fast_copy_process does not spin forever.
Termination == <>(pc = "done")
=============================================================================
