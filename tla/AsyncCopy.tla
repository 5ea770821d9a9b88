------------------------------ MODULE AsyncCopy ------------------------------
(***************************************************************************)
(* The file copy of src/source/file_copy.h over the event thread of        *)
(* src/source/event_threads.c.                                             *)
(*                                                                         *)
(* The copy thread reads a file chunk by chunk.  A chunk to be written is  *)
(* put in the one slot my_f_async and a job is sent to the event thread,   *)
(* which writes the chunk, closes the file with its last chunk or after an *)
(* error, and clears ENABLE in the slot's flags.  The copy thread reads    *)
(* the next chunk meanwhile, and looks for ERROR when it needs the slot.   *)
(*                                                                         *)
(* A session is one call of copy_file_manager or move_file_manager; its    *)
(* files are copied one after the other.  A chunk is the pair of the       *)
(* fragment of its file and its position there.                            *)
(***************************************************************************)
EXTENDS Integers, Sequences, FiniteSets, EndToEnd

CONSTANTS
    Tasks,       \* programs of the user: sequences of sessions
    MAX_FRAGS,   \* fragments a split source can have (99 in the code)
    Prompt,      \* the 100 ms before the end let the event thread receive a job
    Faults       \* the calls that may fail in this instance

FaultKinds == {"stat", "openr", "openw", "mem", "malloc", "read", "write", "unlink", "user"}

(***************************************************************************)
(* "plain": an ordinary file.  "joined": a source split in .66600, ... or  *)
(* .0, .1, ... whose fragments are written to one file.  "split": a file   *)
(* of 4 GB and more that is written in pieces.  parts holds the chunks of  *)
(* each fragment or piece.                                                 *)
(***************************************************************************)
FileKind == [kind : {"plain", "joined", "split"}, parts : Seq(Nat)]
Session  == [op : {"copy", "move"}, files : Seq(FileKind)]

ASSUME TasksAssumption == Tasks \subseteq Seq(Session) /\ Prompt \in BOOLEAN
ASSUME PartsAssumption ==
    \A t \in Tasks : \A s \in DOMAIN t : \A f \in DOMAIN t[s].files :
        LET file == t[s].files[f] IN
        /\ Len(file.parts) >= 1
        /\ file.kind = "plain" => Len(file.parts) = 1
        /\ file.kind # "plain" => \A p \in DOMAIN file.parts : file.parts[p] > 0
        /\ file.kind = "joined" => Len(file.parts) <= MAX_FRAGS
ASSUME FaultsAssumption == Faults \subseteq FaultKinds /\ MAX_FRAGS \in Nat \ {0}

VARIABLES
    task,            \* what the user does
    sess, fi,        \* the session and the file being copied
    n, pos,          \* the fragment or piece, and the chunks of it sent so far
    pc,              \* where the copy thread is
    ret,             \* its error code: 0 or -1
    aborted,         \* progress_action = 2
    use_async_fd,    \* 0, 128 before the first chunk of a session, then 1
    slot,            \* my_f_async: its flags, descriptor and chunk
    result,          \* what the sessions that ended returned
    queue,           \* the event queue
    ev,              \* where the event thread is
    job,             \* the job it received
    evflags,         \* its local copy of the flags
    event_thread_working,
    fds,             \* the descriptors the kernel holds open
    disk,            \* the outputs of each file, as sequences of chunks
    unlinked,        \* the outputs that were deleted
    removed          \* the sources a move has deleted, a fragment at a time

placeVars == <<sess, fi, n, pos>>
evVars    == <<ev, job, evflags, event_thread_working>>
outVars   == <<disk, unlinked, removed>>
vars == <<task, placeVars, pc, ret, aborted, use_async_fd, slot, result, queue, evVars, fds,
          outVars>>

File == task[sess].files[fi]
Length == File.parts[n + 1]
None == << >>
\* The output the current fragment or piece goes to; each descriptor is named
\* by its file.
piece == IF File.kind = "split" THEN n ELSE 0
Src == <<"r", sess, fi, 0>>
Dst == <<"w", sess, fi, piece>>

Init ==
    /\ task \in Tasks
    /\ sess = 1 /\ fi = 1 /\ n = 0 /\ pos = 0 /\ pc = "idle" /\ ret = 0
    /\ aborted = FALSE /\ use_async_fd = 0
    /\ slot = [flags |-> {}, fd |-> None, mem |-> None]
    /\ result = << >> /\ queue = << >>
    /\ ev = "receive" /\ job = "null" /\ evflags = {} /\ event_thread_working = FALSE
    /\ fds = {}
    /\ disk = [s \in DOMAIN task |-> [f \in DOMAIN task[s].files |-> << >>]]
    /\ unlinked = {} /\ removed = {}

-----------------------------------------------------------------------------
(* CopyFile: opening a file, a fragment or a piece. *)

StartSession ==
    /\ pc = "idle" /\ sess \in DOMAIN task
    /\ use_async_fd' = 128 /\ aborted' = FALSE /\ ret' = 0
    /\ fi' = 1 /\ n' = 0 /\ pos' = 0
    /\ pc' = "open"
    /\ UNCHANGED <<task, sess, slot, result, queue, evVars, fds, outVars>>

Opening == pc = "open" /\ fi \in DOMAIN task[sess].files

\* All but the first fragment of a split source go to the output that is open.
NewOutput == File.kind # "joined" \/ n = 0
Created == [disk EXCEPT ![sess][fi] = Append(@, << >>)]

OpenFile ==
    /\ Opening
    /\ pos' = 0 /\ pc' = "copy"
    /\ IF NewOutput THEN fds' = fds \cup {Src, Dst} /\ disk' = Created
                    ELSE fds' = fds \cup {Src} /\ UNCHANGED disk
    /\ UNCHANGED <<task, sess, fi, n, ret, aborted, use_async_fd, slot, result, queue, evVars,
                   unlinked, removed>>

\* On to the end of CopyFile.
SkipWith(r) ==
    /\ pc' = "close" /\ ret' = r
    /\ UNCHANGED <<task, placeVars, aborted, use_async_fd, slot, result, queue, evVars, unlinked,
                   removed>>

Skip == SkipWith(-1)

\* A fragment that cannot be found ends a joined file, which is no error.
StatFails ==
    /\ Opening /\ "stat" \in Faults
    /\ n = 0 \/ File.kind = "joined"
    /\ SkipWith(IF File.kind = "joined" THEN ret ELSE -1)
    /\ UNCHANGED <<fds, disk>>

OpenReadFails ==
    /\ Opening /\ "openr" \in Faults
    /\ File.kind = "split" => n = 0
    /\ Skip /\ UNCHANGED <<fds, disk>>

OpenWriteFails ==
    /\ Opening /\ "openw" \in Faults /\ NewOutput
    /\ Skip
    /\ fds' = fds \cup {Src} /\ UNCHANGED disk

\* The read buffer is allocated after a plain file is opened, and before that for
\* the other kinds (a file to be split has its source open by then).
MemFails ==
    /\ Opening /\ "mem" \in Faults /\ n = 0
    /\ Skip
    /\ \/ File.kind = "plain"  /\ fds' = fds \cup {Src, Dst} /\ disk' = Created
       \/ File.kind = "split"  /\ fds' = fds \cup {Src} /\ UNCHANGED disk
       \/ File.kind = "joined" /\ UNCHANGED <<fds, disk>>

-----------------------------------------------------------------------------
(* CopyFd. *)

Copying == pc = "copy" /\ pos < Length

\* A chunk is read; it may have to wait for the slot.
ReadChunk ==
    /\ Copying /\ pc' = "send"
    /\ UNCHANGED <<task, placeVars, ret, aborted, use_async_fd, slot, result, queue, evVars, fds,
                   outVars>>

ReadFails == Copying /\ "read" \in Faults /\ Skip /\ UNCHANGED <<fds, disk>>

\* Mutation of SlotFree: the job in the slot is not waited for.
SlotFreeAlways == TRUE

SlotFree == "ENABLE" \notin slot.flags

\* Mutation of SlotError: the error of the previous chunk is not looked at.
SlotErrorUnseen == FALSE

SlotError == use_async_fd = 1 /\ "ERROR" \in slot.flags

\* Mutation of LastChunk: the last chunk but one closes the file.
LastChunkEarly == pos + 2 >= Length /\ File.kind # "joined"

\* The chunk that lets the event thread close the file.
LastChunk == pos + 1 >= Length /\ File.kind # "joined"

\* Mutation of Advance: a chunk is stepped over.
AdvanceTwo == pos' = pos + 2

Advance == pos' = pos + 1

\* The slot is filled (without memory it is sent empty) and a job is sent; then
\* the user's abort ends the copy of this file.
SendChunk ==
    /\ pc = "send"
    /\ use_async_fd = 1 => SlotFree /\ ~SlotError
    /\ use_async_fd' = 1
    /\ \E m \in {<<n, pos>>} \cup (IF "malloc" \in Faults THEN {None} ELSE {}) :
         slot' = [flags |-> {"ENABLE"} \cup (IF LastChunk THEN {"FCLOSE"} ELSE {}),
                  fd |-> Dst, mem |-> m]
    /\ queue' = Append(queue, "func")
    /\ Advance
    /\ IF aborted THEN pc' = "close" /\ ret' = -1 ELSE pc' = "copy" /\ UNCHANGED ret
    /\ UNCHANGED <<task, sess, fi, n, aborted, result, evVars, fds, outVars>>

SeeError == pc = "send" /\ SlotFree /\ SlotError /\ Skip /\ UNCHANGED <<fds, disk>>

\* The progress bar's dialog is polled after a chunk, after a file without
\* progress so far, and once when the first file starts.
UserAbort ==
    /\ pc = "copy" /\ ~aborted /\ "user" \in Faults
    /\ fi = 1 \/ pos > 0 \/ Length = 0
    /\ aborted' = TRUE
    /\ UNCHANGED <<task, placeVars, pc, ret, use_async_fd, slot, result, queue, evVars, fds,
                   outVars>>

Copied == pc = "copy" /\ pos >= Length
HasMore == n + 2 \in DOMAIN File.parts

\* One fragment or piece is sent: the next one, ...
NextPart ==
    /\ Copied /\ File.kind # "plain" /\ HasMore
    /\ n' = n + 1 /\ pc' = "open"
    /\ fds' = IF File.kind = "joined" THEN fds \ {Src} ELSE fds
    /\ UNCHANGED <<task, sess, fi, pos, ret, aborted, use_async_fd, slot, result, queue, evVars,
                   outVars>>

\* ... or the end of the file.
LastPart ==
    /\ Copied /\ File.kind # "joined" /\ ~HasMore
    /\ pc' = "close"
    /\ UNCHANGED <<task, placeVars, ret, aborted, use_async_fd, slot, result, queue, evVars, fds,
                   outVars>>

\* A joined file of MAX_FRAGS fragments is waited for and closed; a shorter one
\* ends at the fragment that is missing, whose name the path then has.
LastFragment ==
    /\ Copied /\ File.kind = "joined" /\ ~HasMore
    /\ IF n + 1 = MAX_FRAGS THEN pc' = "joinwait" /\ UNCHANGED n
                            ELSE pc' = "close" /\ n' = n + 1
    /\ fds' = fds \ {Src}
    /\ UNCHANGED <<task, sess, fi, pos, ret, aborted, use_async_fd, slot, result, queue, evVars,
                   outVars>>

JoinWait ==
    /\ pc = "joinwait" /\ SlotFree
    /\ fds' = fds \ {Dst}
    /\ ret' = IF "ERROR" \in slot.flags THEN -1 ELSE ret
    /\ pc' = "close"
    /\ UNCHANGED <<task, placeVars, aborted, use_async_fd, slot, result, queue, evVars, outVars>>

-----------------------------------------------------------------------------
(* The end of CopyFile, and of a session. *)

\* The source is closed; the output is the event thread's to close.
CloseSource ==
    /\ pc = "close"
    /\ fds' = fds \ {Src}
    /\ pc' = IF ~aborted THEN "return" ELSE IF SlotFree THEN "unlink" ELSE "abortwait"
    /\ UNCHANGED <<task, placeVars, ret, aborted, use_async_fd, slot, result, queue, evVars,
                   outVars>>

AbortWait ==
    /\ pc = "abortwait" /\ ~event_thread_working
    /\ ret' = IF "ERROR" \in slot.flags THEN -1 ELSE ret
    /\ pc' = "unlink"
    /\ UNCHANGED <<task, placeVars, aborted, use_async_fd, slot, result, queue, evVars, fds,
                   outVars>>

\* An aborted copy deletes the output it was writing, whatever it returns.
UnlinkOutput ==
    /\ pc = "unlink" /\ pc' = "return"
    /\ IF piece + 1 \in DOMAIN disk[sess][fi]
       THEN /\ unlinked' = unlinked \cup {Dst}
            /\ disk' = [disk EXCEPT ![sess][fi][piece + 1] = << >>]
       ELSE UNCHANGED <<unlinked, disk>>
    /\ UNCHANGED <<task, placeVars, ret, aborted, use_async_fd, slot, result, queue, evVars, fds,
                   removed>>

\* Mutation of MayRemove: a move deletes the source whatever the copy returned.
MayRemoveAlways == TRUE

MayRemove == ret = 0

\* CopyFile leaves in its path the name of the fragment it came to.
PathPart == IF File.kind = "joined" THEN n ELSE 0
PathExists == PathPart + 1 \in DOMAIN File.parts

\* CopyFile returns: a move deletes what the path names, and the session goes on.
NextFile ==
    /\ pc = "return" /\ MayRemove
    /\ task[sess].op = "move" => PathExists
    /\ removed' = IF task[sess].op = "move" THEN removed \cup {<<sess, fi, PathPart>>} ELSE removed
    /\ fi' = fi + 1 /\ n' = 0 /\ pos' = 0 /\ pc' = "open"
    /\ UNCHANGED <<task, sess, ret, aborted, use_async_fd, slot, result, queue, evVars, fds, disk,
                   unlinked>>

ToEnd(r) ==
    /\ pc' = "end" /\ ret' = r
    /\ UNCHANGED <<task, placeVars, aborted, use_async_fd, slot, result, queue, evVars, fds,
                   outVars>>

FileFailed   == pc = "return" /\ ret < 0 /\ ToEnd(ret)
RemoveFails  == /\ pc = "return" /\ MayRemove /\ task[sess].op = "move"
                /\ "unlink" \in Faults \/ ~PathExists
                /\ ToEnd(-1)
NoMoreFiles  == pc = "open" /\ fi \notin DOMAIN task[sess].files /\ ToEnd(ret)

Queued(i) == i \in DOMAIN queue /\ queue[i] = "func"
JobQueued == \E i \in DOMAIN queue : Queued(i)

\* The event thread has taken the last job and set event_thread_working.
Received == ~JobQueued /\ ~(ev = "got" /\ job = "func")

EndSession(r) ==
    /\ result' = Append(result, r) /\ queue' = Append(queue, "null")
    /\ use_async_fd' = 0 /\ sess' = sess + 1 /\ pc' = "idle"
    /\ UNCHANGED <<task, fi, n, pos, ret, aborted, slot, evVars, fds, outVars>>

\* Mutation of LastPending: the last chunk is not waited for.
LastPendingNot == FALSE

LastPending == "ENABLE" \in slot.flags

End ==
    /\ pc = "end" /\ ~LastPending
    /\ Prompt => Received
    /\ EndSession(ret)

EndPending ==
    /\ pc = "end" /\ LastPending
    /\ Prompt => Received
    /\ pc' = "endwait"
    /\ UNCHANGED <<task, placeVars, ret, aborted, use_async_fd, slot, result, queue, evVars, fds,
                   outVars>>

EndWait ==
    /\ pc = "endwait" /\ ~event_thread_working
    /\ EndSession(IF "ERROR" \in slot.flags THEN -1 ELSE ret)

\* event_threads_finish, when the program ends.
Quit ==
    /\ pc = "idle" /\ sess \notin DOMAIN task
    /\ queue' = Append(queue, "exit") /\ pc' = "joining"
    /\ UNCHANGED <<task, placeVars, ret, aborted, use_async_fd, slot, result, evVars, fds,
                   outVars>>

Join ==
    /\ pc = "joining" /\ ev = "exit" /\ pc' = "over"
    /\ UNCHANGED <<task, placeVars, ret, aborted, use_async_fd, slot, result, queue, evVars, fds,
                   outVars>>

-----------------------------------------------------------------------------
(* Event_thread and the job my_func_async. *)

copyUnchanged == UNCHANGED <<task, placeVars, pc, ret, aborted, use_async_fd, result, unlinked,
                             removed>>

Receive ==
    /\ ev = "receive" /\ queue # << >>
    /\ job' = Head(queue) /\ queue' = Tail(queue)
    /\ ev' = IF Head(queue) = "exit" THEN "exit" ELSE "got"
    /\ copyUnchanged /\ UNCHANGED <<slot, evflags, event_thread_working, fds, disk>>

Start ==
    /\ ev = "got" /\ ev' = "run" /\ event_thread_working' = TRUE
    /\ copyUnchanged /\ UNCHANGED <<slot, queue, job, evflags, fds, disk>>

Enabled == job = "func" /\ "ENABLE" \in slot.flags

\* The write of the slot's chunk, at the end of the output it goes to.
Written ==
    LET d == slot.fd IN
    IF d \in unlinked THEN disk ELSE [disk EXCEPT ![d[2]][d[3]][d[4] + 1] = Append(@, slot.mem)]

Write ==
    /\ ev = "run" /\ Enabled /\ slot.mem # None /\ slot.fd \in fds
    /\ disk' = Written
    /\ slot' = [slot EXCEPT !.mem = None] /\ evflags' = slot.flags /\ ev' = "wrote"
    /\ copyUnchanged /\ UNCHANGED <<queue, job, event_thread_working, fds>>

\* No memory, a bad descriptor, or a failed or short write.
WriteFails ==
    /\ ev = "run" /\ Enabled
    /\ "write" \in Faults \/ slot.mem = None \/ slot.fd \notin fds
    /\ slot' = [slot EXCEPT !.mem = None] /\ evflags' = slot.flags \cup {"ERROR"}
    /\ ev' = "wrote"
    /\ copyUnchanged /\ UNCHANGED <<queue, job, event_thread_working, fds, disk>>

\* Mutation of Closes: only an error closes the file.
ClosesOnError(flags) == "ERROR" \in flags

Closes(flags) == "ERROR" \in flags \/ "FCLOSE" \in flags

\* Mutation of FlagsAfter: ENABLE stays set.
FlagsAfterEnabled(flags) == flags

FlagsAfter(flags) == flags \ {"ENABLE"}

Finish ==
    /\ ev = "wrote" /\ ev' = "ran"
    /\ fds' = IF Closes(evflags) THEN fds \ {slot.fd} ELSE fds
    /\ slot' = [slot EXCEPT !.flags = FlagsAfter(evflags)]
    /\ copyUnchanged /\ UNCHANGED <<queue, job, evflags, event_thread_working, disk>>

\* A null function, or a slot without ENABLE.
NoJob ==
    /\ ev = "run" /\ ~Enabled /\ ev' = "ran"
    /\ copyUnchanged /\ UNCHANGED <<slot, queue, job, evflags, event_thread_working, fds, disk>>

Idle ==
    /\ ev = "ran" /\ ev' = "receive" /\ event_thread_working' = FALSE
    /\ copyUnchanged /\ UNCHANGED <<slot, queue, job, evflags, fds, disk>>

-----------------------------------------------------------------------------
CopyFile == OpenFile \/ StatFails \/ OpenReadFails \/ OpenWriteFails \/ MemFails \/ NextPart
            \/ LastPart \/ LastFragment \/ JoinWait \/ CloseSource \/ AbortWait \/ UnlinkOutput
CopyFd   == ReadChunk \/ ReadFails \/ SendChunk \/ SeeError
Manager  == StartSession \/ NextFile \/ FileFailed \/ RemoveFails \/ NoMoreFiles \/ End
            \/ EndPending \/ EndWait \/ Quit \/ Join

CopyThread  == CopyFile \/ CopyFd \/ Manager
EventThread == Receive \/ Start \/ Write \/ WriteFails \/ Finish \/ NoJob \/ Idle
Terminated  == pc = "over" /\ UNCHANGED vars

Next == CopyThread \/ EventThread \/ UserAbort \/ Terminated

Spec == Init /\ [][Next]_vars

\* Both threads run; neither waits except in a loop that polls.
FairSpec == Spec /\ WF_vars(CopyThread) /\ WF_vars(EventThread)

-----------------------------------------------------------------------------
(* Properties *)

Flags == {"ENABLE", "ERROR", "FCLOSE"}
Descriptor == {"r", "w"} \X Nat \X Nat \X Nat
PlaceType ==
    /\ task \in Tasks /\ sess \in 1 .. Len(task) + 1 /\ fi \in Nat /\ n \in Nat /\ pos \in Nat
    /\ pc \in {"idle", "open", "copy", "send", "joinwait", "close", "abortwait", "unlink", "return",
              "end", "endwait", "joining", "over"}
    /\ pc = "copy" => pos <= Length
    /\ pc = "send" => pos < Length
    /\ ret \in {0, -1} /\ aborted \in BOOLEAN /\ use_async_fd \in {0, 1, 128}
    /\ result \in Seq({0, -1}) /\ Len(result) = sess - 1
EventType ==
    /\ slot \in [flags : SUBSET Flags, fd : Descriptor \cup {None}, mem : (Nat \X Nat) \cup {None}]
    /\ queue \in Seq({"func", "null", "exit"})
    /\ ev \in {"receive", "got", "run", "wrote", "ran", "exit"} /\ job \in {"func", "null", "exit"}
    /\ evflags \in SUBSET Flags /\ event_thread_working \in BOOLEAN
OutType ==
    /\ fds \in SUBSET Descriptor /\ unlinked \in SUBSET Descriptor
    /\ removed \in SUBSET (Nat \X Nat \X Nat)
    /\ \A s \in DOMAIN task : \A f \in DOMAIN task[s].files : disk[s][f] \in Seq(Seq(Nat \X Nat))

\* The values each variable of the copy can take.
TypeOK == PlaceType /\ EventType /\ OutType

JobRunning == job = "func" /\ ev \in {"got", "run", "wrote"}

\* The slot is handed over: while ENABLE is set exactly one job of the event
\* thread is going to read it, and otherwise none is, so that no chunk is
\* overwritten before it is written and none is written twice
\* (file_copy.h:93, event_threads.c:31).
Handover ==
    /\ "ENABLE" \in slot.flags <=> JobQueued \/ JobRunning
    /\ JobRunning => ~JobQueued
    /\ \A i, j \in DOMAIN queue : Queued(i) /\ Queued(j) => i = j

\* The file a job is to write is open until that job closes it: FCLOSE goes with
\* the last chunk and no earlier (file_copy.h:88 and :103).
NoEarlyClose == "ENABLE" \in slot.flags /\ ev # "wrote" => slot.fd \in fds

\* d is the chunk that follows c in the output both belong to.
Follows(file, c, d) ==
    IF c[2] + 1 < file.parts[c[1] + 1] THEN d = <<c[1], c[2] + 1>>
    ELSE file.kind = "joined" /\ c[1] + 1 < Len(file.parts) /\ d = <<c[1] + 1, 0>>

\* The output q of a file starts with its first chunk and misses none in between.
InOrder(file, q, out) == out # << >> =>
    /\ file.parts[q] > 0 /\ out[1] = <<q - 1, 0>>
    /\ \A i \in 1 .. Len(out) - 1 : Follows(file, out[i], out[i + 1])

\* It goes as far as it should.
ReachesEnd(file, q, out) ==
    LET p == IF file.kind = "joined" THEN Len(file.parts) ELSE q
    IN IF out = << >> THEN file.parts[p] = 0 ELSE out[Len(out)] = <<p - 1, file.parts[p] - 1>>

\* Nothing is in an output while an earlier piece of its file is incomplete, but
\* for the pieces that were deleted.
InSequence(file, out, gone) ==
    \A q \in DOMAIN out :
        /\ InOrder(file, q, out[q])
        /\ out[q] # << >> => \A p \in 1 .. q - 1 : p \in gone \/ ReachesEnd(file, p, out[p])

Gone(s, f) == {p \in DOMAIN disk[s][f] : <<"w", s, f, p - 1>> \in unlinked}

\* Each output is a prefix of what it should hold, and nothing is written to a
\* piece while an earlier one of its file is incomplete: after a failed write no
\* further chunk is sent (file_copy.h:95).
Contiguous ==
    \A s \in DOMAIN task : \A f \in DOMAIN task[s].files :
        InSequence(task[s].files[f], disk[s][f], Gone(s, f))

\* The outputs once the chunk in the slot is written.
Ahead == [s \in DOMAIN task |-> [f \in DOMAIN task[s].files |-> [q \in DOMAIN disk[s][f] |->
    IF slot.mem # None /\ slot.fd = <<"w", s, f, q - 1>> /\ slot.fd \notin unlinked
    THEN Append(disk[s][f][q], slot.mem) ELSE disk[s][f][q]]]]

\* All the chunks of a file are in its outputs, and nothing else is.
Complete(file, out) ==
    /\ DOMAIN out = 1 .. (IF file.kind = "joined" THEN 1 ELSE Len(file.parts))
    /\ \A q \in DOMAIN out : InOrder(file, q, out[q]) /\ ReachesEnd(file, q, out[q])

\* A source that a move has deleted is complete at its destination but for the
\* chunk that is in the slot (file_copy.h:964).
MoveKeeps == \A m \in removed : Complete(task[m[1]].files[m[2]], Ahead[m[1]][m[2]])

\* Between sessions the only files open are outputs that nothing closes: an
\* empty file, a joined one with fewer than MAX_FRAGS fragments, and the one a
\* failed or aborted session was writing (file_copy.h:477).
OpenAtEnd ==
    pc \in {"idle", "joining", "over"} /\ slot.flags \cap {"ENABLE"} = {} =>
        \A d \in fds :
            /\ d[1] = "w"
            /\ \/ task[d[2]].files[d[3]].parts = <<0>>
               \/ task[d[2]].files[d[3]].kind = "joined"
               \/ result[d[2]] < 0

(***************************************************************************)
(* The refinement, for the first session: a file's content is its outputs, *)
(* end to end.                                                             *)
(***************************************************************************)
SourceOf(s, f)    == EndToEnd(Numbered(task[s].files[f].parts))
DeliveredOf(s, f) == EndToEnd(disk[s][f])

Sources   == [f \in DOMAIN task[1].files |-> SourceOf(1, f)]
Delivered == [f \in DOMAIN task[1].files |-> DeliveredOf(1, f)]
Status    == IF result = << >> THEN "copying" ELSE IF result[1] = 0 THEN "ok" ELSE "failed"

Copy == INSTANCE CopySpec WITH
    MaxWrite <- 1, MayMiss <- FALSE,
    source <- Sources, dest <- Delivered, short <- {}, status <- Status

\* Without a failed write or an abort the copy copies: chunks reach the files in
\* order, none is lost or repeated, and success is reported once all are written
\* (file_copy.h:93 and :727).
ImplementsCopy == Copy!CopySpec

\* The sessions end and the event thread is joined.
Termination == <>(pc = "over")
=============================================================================
