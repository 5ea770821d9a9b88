--------------------------- MODULE FastCopyProofs ---------------------------
(***************************************************************************)
(* The inductive invariant of FastCopy, that every step keeps it, and what *)
(* follows from it: the types, the accounts of the descriptors, the        *)
(* exclusion of files, the safety of requests and buffers, the count of    *)
(* the files and the sizes of the fragments.                               *)
(*                                                                         *)
(* The two threads share the flags fast_read and fast_writing, the slots   *)
(* and the buffers with no lock.  What keeps them apart is that only one   *)
(* slot is ever busy, that its flags follow its requests, and that the     *)
(* sections act only where a flag says that a request has ended: SlotInv,  *)
(* BusyInv and IdleInv.  DataInv relates the units read to those written,  *)
(* from which it follows that a file is closed only after its last read.   *)
(*                                                                         *)
(* On top of IInv stand two invariants of the walk and of the output:      *)
(* every file the walk has passed is counted or still queued (CountInv),   *)
(* and the slot that writes a split file has written whole buffers into a  *)
(* fragment that still has room for one (SplitInv), which rests on a       *)
(* fragment being a whole number of buffers (RatiosAssumption).            *)
(*                                                                         *)
(* The last part proves that the engine implements CopySpec.  CopyInv says *)
(* where every unit is: those at the destination are at their place in the *)
(* source (InPlace), the slot that writes sends what comes next            *)
(* (WriteSides), the slot that reads knows which part of which fragment    *)
(* its buffer holds (ReadSides), and a file the walk has passed is whole   *)
(* or queued while nothing has failed (Ordered).  Every step is then a     *)
(* step of CopySpec: WriteTransfer its Deliver, a stat that fails its      *)
(* Miss, the end of the copy its Succeed or Fail, any other a stutter.     *)
(*                                                                         *)
(* The types do not stand alone: that the cursors stay in the queue, for   *)
(* instance, needs the inductive invariant.                                *)
(***************************************************************************)
EXTENDS FastCopy, EndToEndProofs

\* Nothing is open or in flight in slot s.
Quiet(s) == /\ t_read[s].fd = -1 /\ t_write[s].fd = -1
            /\ aio_r[s] = "idle" /\ aio_w[s] = "idle"

LoopPcs == {"loop", "readend", "joined", "writeend", "ui"}

\* Units of slot s that a write in flight will add.
Pending(s) == IF aio_w[s] = "idle" THEN 0 ELSE t_write[s].size

\* Descriptors: the count is right, the held ones are open, and one is lost only
\* by a failed open for writing, which ends the copy.
FdInv ==
    /\ IsFiniteSet(fds)
    /\ pc # "done" => files_opened = Cardinality(fds)
    /\ \A s \in Slots : StoredOf(s) \subseteq fds
    /\ \A d \in fds : (\A s \in Slots : d \notin StoredOf(s)) =>
           "openw" \in Faults /\ (abort_copy \/ (pc = "cleanup" /\ error = -2))

\* Only the slot being written can be busy; its flags follow its requests.
SlotInv ==
    \A s \in Slots :
        /\ ~Quiet(s) => s = cur_w /\ s < fast_num_files
        /\ aio_r[s] # "idle" => fast_read = 1 /\ t_read[s].fd # -1
        /\ aio_w[s] # "idle" => fast_writing = 1 /\ t_write[s].fd # -1
        /\ aio_w[s] # "idle" /\ ~file[s].dbl => aio_r[s] = "idle"

\* Outside fast_copy_process nothing is busy.
RestInv ==
    /\ pc \in {"walk", "return", "done"} =>
          fast_read = 0 /\ fast_writing = 0 /\ \A s \in Slots : Quiet(s)
    /\ pc \in {"walk", "readend", "joined", "writeend", "ui"} => ~abort_copy
    /\ pc \in {"return", "done"} => fast_num_files = 0
    /\ pc = "cleanup" /\ error = 0 /\ ~abort_copy => files_opened = 0

\* A queued file has something to copy, and the slots not yet opened wait with fl = 1.
LenInv == \A s \in Slots : s < fast_num_files => len[s] > 0 /\ file[s].size_mem > 0
QueueInv ==
    \A s \in Slots : s < fast_num_files =>
        /\ pc = "walk" => fl[s] = 1
        /\ pc \in LoopPcs /\ s >= cur_r /\ Quiet(s) => fl[s] = 1

\* In the loop a busy slot holds both descriptors; once it is read to its end, the
\* read side is one slot ahead.
BusyInv ==
    pc \in LoopPcs => \A s \in Slots : ~Quiet(s) =>
        /\ t_read[s].fd # -1 /\ t_write[s].fd # -1
        /\ files_opened >= 2
        /\ ~i_reading => cur_r = cur_w + 1 /\ aio_r[s] = "idle"

\* When no slot is busy, neither side has begun the next one.
IdleInv ==
    pc \in LoopPcs /\ (\A s \in Slots : Quiet(s)) =>
        ~i_reading /\ cur_r = cur_w /\ fast_writing = 0 /\ fast_read = 0

ReadingInv == pc \in LoopPcs => /\ i_reading => cur_r = cur_w
                                /\ pc = "joined" => i_reading

LoopInv == BusyInv /\ IdleInv /\ ReadingInv

\* While a file is being read, less than all of it has been handed to the
\* writes; what was read last is what the next write has to send.
DataInv ==
    pc \in LoopPcs /\ i_reading =>
        LET w == cur_w  given == writed[cur_w] + Pending(cur_w) IN
        /\ writed[w] >= 0 => given < len[w]
        /\ aio_r[w] # "idle" =>
              /\ readed[w] >= 0 /\ t_read[w].size > 0 /\ t_read[w].size <= len[w] - readed[w]
              /\ writed[w] >= 0 => given = readed[w]
              /\ pc # "joined" => fl[w] = 2
        /\ aio_r[w] = "idle" /\ fl[w] = 3 /\ pc # "joined" =>
              /\ readed[w] >= 0 /\ t_read[w].size > 0 /\ readed[w] <= len[w]
              /\ writed[w] >= 0 => given = readed[w] - t_read[w].size
        /\ writed[w] < 0 => fast_writing = 2

IInv == TypeOK /\ FdInv /\ SlotInv /\ RestInv /\ LenInv /\ QueueInv /\ LoopInv /\ DataInv

-----------------------------------------------------------------------------
(* Facts about the operators. *)

\* A write to a file or buffer of units leaves units.
LEMMA WriteAtType ==
  ASSUME NEW seq \in Seq(Unit), NEW off \in Int, NEW data \in Seq(Unit)
  PROVE  WriteAt(seq, off, data) \in Seq(Unit)
<1> DEFINE top == IF Len(seq) >= off + Len(data) THEN Len(seq) ELSE off + Len(data)
           val(i) == IF i > off /\ i <= off + Len(data) THEN data[i - off]
                     ELSE IF i <= Len(seq) THEN seq[i] ELSE Hole
<1>1. top \in Nat
  OBVIOUS
<1>2. ASSUME NEW i \in 1 .. top PROVE val(i) \in Unit
  BY DEF Unit
<1>3. [i \in 1 .. top |-> val(i)] \in Seq(Unit)
  BY <1>1, <1>2
<1>4. QED BY <1>3 DEF WriteAt

\* A function on 1 .. n to units is a sequence of units, also when n is negative.
LEMMA UnitSeq ==
  ASSUME NEW n \in Int, NEW f \in [1 .. n -> Unit]
  PROVE  f \in Seq(Unit)
<1>1. CASE n >= 0
  BY <1>1
<1>2. CASE n < 0
  <2>1. 1 .. n = 1 .. 0
    BY <1>2
  <2>2. QED BY <2>1
<1>3. QED BY <1>1, <1>2

\* Updating a sequence at any index gives a sequence of the same elements.
LEMMA SeqExcept ==
  ASSUME NEW S, NEW f \in Seq(S), NEW k, NEW v, k \in DOMAIN f => v \in S
  PROVE  [f EXCEPT ![k] = v] \in Seq(S)
<1>1. f \in [1 .. Len(f) -> S] /\ Len(f) \in Nat
  OBVIOUS
<1>2. [f EXCEPT ![k] = v] \in [1 .. Len(f) -> S]
  BY <1>1
<1>3. QED BY <1>1, <1>2

\* A listing is a sequence of entries with at least one fragment each.
LEMMA JobFacts ==
  ASSUME job \in Jobs
  PROVE  /\ Len(job) \in Nat /\ Len(job) >= 1 /\ DOMAIN job = 1 .. Len(job)
         /\ \A e \in DOMAIN job : /\ job[e].frags \in Seq(Nat) /\ Len(job[e].frags) >= 1
                                  /\ job[e].frags[1] \in Nat /\ ModesOf(e) \subseteq 0 .. 3
<1>1. job \in Seq(Entry) /\ job # << >>
  BY JobsAssumption
<1>2. Len(job) \in Nat /\ Len(job) >= 1 /\ DOMAIN job = 1 .. Len(job)
  BY <1>1
<1>3. ASSUME NEW e \in DOMAIN job
      PROVE  /\ job[e].frags \in Seq(Nat) /\ Len(job[e].frags) >= 1
             /\ job[e].frags[1] \in Nat /\ ModesOf(e) \subseteq 0 .. 3
  <2>1. job[e] \in Entry BY <1>1
  <2>2. job[e].frags \in Seq(Nat) BY <2>1 DEF Entry
  <2>3. Len(job[e].frags) >= 1 BY JobsAssumption
  <2>4. job[e].frags[1] \in Nat BY <2>2, <2>3
  <2>5. ModesOf(e) \subseteq 0 .. 3 BY DEF ModeOf, ModesOf
  <2>6. QED BY <2>2, <2>3, <2>4, <2>5
<1>4. QED BY <1>2, <1>3

\* The constants the engine assigns, which the provers need spelled out.
LEMMA Values ==
  /\ 1 \in 0 .. 5 /\ 2 \in 0 .. 5 /\ 3 \in 0 .. 5 /\ 4 \in 0 .. 5 /\ 5 \in 0 .. 5
  /\ 0 \in Int /\ -1 \in Int /\ 0 \in Nat /\ \A n \in Nat : n + 1 \in Nat /\ n \in Int
  /\ \A m, n \in Int : m + n \in Int /\ m - n \in Int
  OBVIOUS

\* Request blocks made, or whose descriptor is replaced, are request blocks.
LEMMA AioTypes ==
  /\ -1 \in FdType /\ \A n \in Nat : n \in FdType
  /\ \A f \in FdType : \A o, n \in Int : Aio(f, o, n) \in AioType
  /\ \A t \in [Slots -> AioType], f \in FdType : \A s :
        [t EXCEPT ![s].fd = f] \in [Slots -> AioType]
<1>1. -1 \in FdType /\ \A n \in Nat : n \in FdType
  BY DEF FdType
<1>2. \A f \in FdType : \A o, n \in Int : Aio(f, o, n) \in AioType
  BY DEF Aio, AioType
<1>3. ASSUME NEW t \in [Slots -> AioType], NEW f \in FdType, NEW s
      PROVE  [t EXCEPT ![s].fd = f] \in [Slots -> AioType]
  BY DEF AioType
<1>4. QED BY <1>1, <1>2, <1>3

\* What each field of a slot, and what is computed from it, can be.
LEMMA SlotTypes ==
  ASSUME QueueType
  PROVE  \A s \in Slots :
           /\ readed[s] \in Int /\ writed[s] \in Int /\ off_readed[s] \in Int
           /\ len[s] \in Int /\ giga_counter[s] \in Int /\ number_frag[s] \in Nat
           /\ t_read[s].fd \in FdType /\ t_read[s].size \in Int
           /\ t_write[s].fd \in FdType /\ t_write[s].size \in Int
           /\ file[s].ent \in DOMAIN job /\ file[s].size_mem \in Int
           /\ OutFrag(s) \in Nat /\ WriteOffset(s) \in Int
           /\ \A n \in Int : Chunk(s, n) \in Int
<1> SUFFICES ASSUME NEW s \in Slots
             PROVE  /\ readed[s] \in Int /\ writed[s] \in Int /\ off_readed[s] \in Int
                    /\ len[s] \in Int /\ giga_counter[s] \in Int /\ number_frag[s] \in Nat
                    /\ t_read[s].fd \in FdType /\ t_read[s].size \in Int
                    /\ t_write[s].fd \in FdType /\ t_write[s].size \in Int
                    /\ file[s].ent \in DOMAIN job /\ file[s].size_mem \in Int
                    /\ OutFrag(s) \in Nat /\ WriteOffset(s) \in Int
                    /\ \A n \in Int : Chunk(s, n) \in Int
  OBVIOUS
<1>1. /\ readed[s] \in Int /\ writed[s] \in Int /\ off_readed[s] \in Int
      /\ len[s] \in Int /\ giga_counter[s] \in Int /\ number_frag[s] \in Nat
  BY DEF QueueType
<1>2. /\ t_read[s].fd \in FdType /\ t_read[s].size \in Int
      /\ t_write[s].fd \in FdType /\ t_write[s].size \in Int
  BY DEF QueueType, AioType
<1>3. file[s].ent \in DOMAIN job /\ file[s].size_mem \in Int
  BY DEF QueueType, FileType
<1>4. OutFrag(s) \in Nat /\ WriteOffset(s) \in Int
  BY <1>1 DEF OutFrag, WriteOffset
<1>5. \A n \in Int : Chunk(s, n) \in Int
  BY <1>3 DEF Chunk
<1>6. QED BY <1>1, <1>2, <1>3, <1>4, <1>5

\* Opening a fragment leaves a sequence of fragments.
LEMMA TruncateType ==
  ASSUME NEW out \in Seq(Seq(Unit)), NEW k \in Nat
  PROVE  Truncate(out, k) \in Seq(Seq(Unit))
<1>1. << >> \in Seq(Unit)
  OBVIOUS
<1>2. QED BY <1>1 DEF Truncate

-----------------------------------------------------------------------------
(* What holds where the sections act on a slot. *)

\* The slot whose read has ended is the busy one, and nothing of it is in flight.
LEMMA ReadEndSlot ==
  ASSUME IInv, ReadEndGuard
  PROVE  /\ cur_r = cur_w /\ cur_r \in Slots /\ cur_r < fast_num_files
         /\ i_reading /\ ~Quiet(cur_r)
         /\ aio_r[cur_r] = "idle" /\ aio_w[cur_r] = "idle"
         /\ t_read[cur_r].fd # -1 /\ t_write[cur_r].fd # -1
<1>1. cur_r \in Slots /\ cur_r < fast_num_files /\ pc = "readend"
  BY SizesAssumption DEF IInv, TypeOK, EngineType, QueueType, ReadEndGuard, Slots
<1>2. ~Quiet(cur_r)
  BY <1>1 DEF IInv, QueueInv, ReadEndGuard, LoopPcs, TypeOK, EngineType
<1>3. cur_r = cur_w
  BY <1>1, <1>2 DEF IInv, SlotInv
<1>4. i_reading
  <2>1. cur_w \in Int /\ cur_w # cur_w + 1
    BY DEF IInv, TypeOK, EngineType, QueueType
  <2>2. QED
    BY <1>1, <1>2, <1>3, <2>1
      DEF IInv, LoopInv, BusyInv, IdleInv, ReadingInv, LoopPcs
<1>5. aio_r[cur_r] = "idle"
  BY <1>1, <1>3, <1>4 DEF IInv, DataInv, LoopPcs, ReadEndGuard
<1>6. aio_w[cur_r] = "idle"
  BY <1>1 DEF IInv, SlotInv, ReadEndGuard
<1>7. QED
  BY <1>1, <1>2, <1>3, <1>4, <1>5, <1>6
    DEF IInv, LoopInv, BusyInv, IdleInv, ReadingInv, LoopPcs

\* A write ends in the busy slot, which holds both descriptors.
LEMMA WriteEndSlot ==
  ASSUME IInv, WriteEnd
  PROVE  /\ cur_w \in Slots /\ cur_w < fast_num_files /\ ~Quiet(cur_w)
         /\ aio_w[cur_w] = "idle"
         /\ t_read[cur_w].fd # -1 /\ t_write[cur_w].fd # -1
         /\ writed[cur_w] >= 0 /\ writed[cur_w] >= len[cur_w] =>
               ~i_reading /\ aio_r[cur_w] = "idle" /\ cur_r = cur_w + 1
<1>1. PICK s \in Slots : ~Quiet(s)
  BY DEF IInv, LoopInv, BusyInv, IdleInv, ReadingInv, LoopPcs, WriteEnd
<1>2. s = cur_w /\ s < fast_num_files
  BY <1>1 DEF IInv, SlotInv
<1>3. aio_w[cur_w] = "idle"
  BY <1>1, <1>2 DEF IInv, SlotInv, WriteEnd
<1>4. t_read[cur_w].fd # -1 /\ t_write[cur_w].fd # -1
  BY <1>1, <1>2 DEF IInv, LoopInv, BusyInv, IdleInv, ReadingInv, LoopPcs, WriteEnd
<1>5. ASSUME writed[cur_w] >= 0, writed[cur_w] >= len[cur_w]
      PROVE  ~i_reading
  <2>1. writed[cur_w] \in Int /\ len[cur_w] \in Int
    BY <1>1, <1>2 DEF IInv, TypeOK, EngineType, QueueType
  <2>2. QED BY <1>3, <1>5, <2>1 DEF IInv, DataInv, LoopPcs, WriteEnd, Pending
<1>6. ~i_reading => aio_r[cur_w] = "idle" /\ cur_r = cur_w + 1
  BY <1>1, <1>2 DEF IInv, LoopInv, BusyInv, IdleInv, ReadingInv, LoopPcs, WriteEnd
<1>7. QED BY <1>1, <1>2, <1>3, <1>4, <1>5, <1>6

\* A file is opened only when nothing is open or in flight.
LEMMA OpenSlot ==
  ASSUME IInv, OpenGuard
  PROVE  /\ cur_r = cur_w /\ cur_r \in Slots /\ \A s \in Slots : Quiet(s)
         /\ fast_read = 0 /\ fast_writing = 0
<1>1. cur_r \in Slots
  BY SizesAssumption DEF IInv, TypeOK, EngineType, QueueType, OpenGuard, Slots
<1>2. \A s \in Slots : Quiet(s)
  <2>1. files_opened \in Int /\ files_opened < 2 /\ ~(files_opened >= 2)
    BY DEF IInv, TypeOK, EngineType, QueueType, OpenGuard
  <2>2. QED BY <2>1 DEF IInv, LoopInv, BusyInv, IdleInv, ReadingInv, LoopPcs, OpenGuard
<1>3. QED BY <1>1, <1>2 DEF IInv, LoopInv, BusyInv, IdleInv, ReadingInv, LoopPcs, OpenGuard

\* The fragment a join goes on to has a length.
LEMMA NextFragment ==
  ASSUME IInv, ReadEndGuard, HasNext
  PROVE  job[file[cur_r].ent].frags[number_frag[cur_r] + 2] \in Nat
<1>1. cur_r \in Slots
  BY ReadEndSlot
<1>2. file[cur_r].ent \in DOMAIN job
  BY <1>1, SlotTypes DEF IInv, TypeOK
<1>3. job[file[cur_r].ent].frags \in Seq(Nat)
  BY <1>2, JobFacts DEF IInv, TypeOK, ControlType
<1>4. QED BY <1>3 DEF HasNext

\* The request blocks of a write, of the next reads and of a file just opened.
LEMMA Requests ==
  ASSUME IInv
  PROVE  /\ IssueWrite => t_write' \in [Slots -> AioType]
         /\ ReadAhead \/ JoinNext => t_read' \in [Slots -> AioType]
         /\ OpenBoth => t_read' \in [Slots -> AioType] /\ t_write' \in [Slots -> AioType]
<1>1. QueueType
  BY DEF IInv, TypeOK
<1>2. t_read \in [Slots -> AioType] /\ t_write \in [Slots -> AioType]
  BY <1>1 DEF QueueType
<1>3. ASSUME IssueWrite PROVE t_write' \in [Slots -> AioType]
  <2>1. cur_r \in Slots
    BY <1>3, ReadEndSlot DEF IssueWrite
  <2>2. Aio(t_write[cur_r].fd, WriteOffset(cur_r), t_read[cur_r].size) \in AioType
    BY <1>1, <2>1, SlotTypes, AioTypes
  <2>3. QED BY <1>2, <1>3, <2>2 DEF IssueWrite
<1>4. ASSUME ReadAhead PROVE t_read' \in [Slots -> AioType]
  <2>1. cur_r \in Slots
    BY <1>4, ReadEndSlot DEF ReadAhead, IssueWrite
  <2>2. readed[cur_r] - off_readed[cur_r] \in Int /\ len[cur_r] - readed[cur_r] \in Int
    BY <1>1, <2>1, SlotTypes
  <2>3. Chunk(cur_r, len[cur_r] - readed[cur_r]) \in Int
    BY <1>1, <2>1, <2>2, SlotTypes
  <2>4. Aio(t_read[cur_r].fd, readed[cur_r] - off_readed[cur_r],
            Chunk(cur_r, len[cur_r] - readed[cur_r])) \in AioType
    BY <1>1, <2>1, <2>2, <2>3, SlotTypes, AioTypes
  <2>5. QED BY <1>2, <1>4, <2>4 DEF ReadAhead
<1>5. ASSUME JoinNext PROVE t_read' \in [Slots -> AioType]
  <2> DEFINE more == job[file[cur_r].ent].frags[number_frag[cur_r] + 2]
  <2>1. cur_r \in Slots /\ more \in Int
    BY <1>5, ReadEndSlot, NextFragment DEF JoinNext, JoinStep, IssueWrite
  <2> HIDE DEF more
  <2>2. len[cur_r] + more - readed[cur_r] \in Int /\ number_frag[cur_r] + 1 \in Nat
    BY <1>1, <2>1, SlotTypes
  <2>3. Chunk(cur_r, len[cur_r] + more - readed[cur_r]) \in Int
    BY <1>1, <2>1, <2>2, SlotTypes
  <2>4. Aio(number_frag[cur_r] + 1, 0, Chunk(cur_r, len[cur_r] + more - readed[cur_r]))
           \in AioType
    BY <2>2, <2>3, AioTypes, Values
  <2>5. t_read' = [t_read EXCEPT ![cur_r] =
           Aio(number_frag[cur_r] + 1, 0, Chunk(cur_r, len[cur_r] + more - readed[cur_r]))]
    BY <1>5 DEF JoinNext, more
  <2>6. QED BY <1>2, <2>4, <2>5
<1>6. ASSUME OpenBoth PROVE t_read' \in [Slots -> AioType] /\ t_write' \in [Slots -> AioType]
  <2>1. cur_r \in Slots
    BY <1>6, OpenSlot DEF OpenBoth
  <2>2. Chunk(cur_r, len[cur_r]) \in Int
    BY <1>1, <2>1, SlotTypes
  <2>3. /\ Aio(number_frag[cur_r], 0, Chunk(cur_r, len[cur_r])) \in AioType
        /\ Aio(OutFrag(cur_r), 0, t_write[cur_r].size) \in AioType
    BY <1>1, <2>1, <2>2, SlotTypes, AioTypes, Values
  <2>4. QED BY <1>2, <1>6, <2>3 DEF OpenBoth
<1>7. QED BY <1>3, <1>4, <1>5, <1>6

\* The descriptors held are finitely many, all open.
LEMMA HeldFds ==
  ASSUME FdInv, EngineType
  PROVE  /\ \A s \in Slots : IsFiniteSet(StoredOf(s)) /\ Cardinality(StoredOf(s)) \in Nat
         /\ Stored \subseteq fds /\ IsFiniteSet(Stored) /\ Cardinality(Stored) \in Nat
         /\ Cardinality(fds) \in Nat
<1>1. \A s \in Slots : IsFiniteSet(StoredOf(s)) /\ Cardinality(StoredOf(s)) \in Nat
  BY FS_Subset, FS_CardinalityType DEF FdInv
<1>2. Stored \subseteq fds
  <2>1. \A s \in 0 .. fast_num_files - 1 : s \in Slots
    BY SizesAssumption DEF EngineType, Slots
  <2>2. QED BY <2>1 DEF Stored, FdInv
<1>3. IsFiniteSet(Stored) /\ Cardinality(Stored) \in Nat /\ Cardinality(fds) \in Nat
  BY <1>2, FS_Subset, FS_CardinalityType DEF FdInv
<1>4. QED BY <1>1, <1>2, <1>3

\* Descriptors are named by direction, slot and fragment.
LEMMA FdNames ==
  \A s \in Slots, k \in Nat : /\ Rd(s, k) \in {"r", "w"} \X Slots \X Nat
                              /\ Wr(s, k) \in {"r", "w"} \X Slots \X Nat
  BY DEF Rd, Wr

\* Opening a fragment of an entry leaves a destination.
LEMMA TruncateDisk ==
  ASSUME disk \in [DOMAIN job -> Seq(Seq(Unit))], NEW e, NEW k \in Nat
  PROVE  [disk EXCEPT ![e] = Truncate(@, k)] \in [DOMAIN job -> Seq(Seq(Unit))]
<1>1. CASE e \in DOMAIN job
  <2>1. Truncate(disk[e], k) \in Seq(Seq(Unit))
    BY <1>1, TruncateType
  <2>2. QED BY <2>1
<1>2. CASE e \notin DOMAIN job
  BY <1>2
<1>3. QED BY <1>1, <1>2

\* Whatever part of a write reaches it, the destination holds units.
LEMMA SentType ==
  ASSUME QueueType, KernelType, NEW s \in Slots, NEW n \in Int
  PROVE  Sent(s, n) \in [DOMAIN job -> Seq(Seq(Unit))]
<1> DEFINE data == [i \in 1 .. n |-> UnitAt(BufferOf(s), i)]
           e == file[s].ent
           k == t_write[s].fd + 1
           off == t_write[s].offset
<1>1. e \in DOMAIN job /\ off \in Int
  BY SlotTypes DEF QueueType, AioType
<1>2. data \in Seq(Unit)
  <2>1. mem[s].lo \in Seq(Unit) /\ mem[s].hi \in Seq(Unit)
    BY DEF KernelType
  <2>2. BufferOf(s) \in Seq(Unit)
    BY <2>1 DEF BufferOf
  <2>3. \A i : UnitAt(BufferOf(s), i) \in Unit
    BY <2>2 DEF UnitAt, Unit
  <2>4. data \in [1 .. n -> Unit]
    BY <2>3
  <2>5. QED BY <2>4, UnitSeq
<1>3. disk[e] \in Seq(Seq(Unit)) /\ disk \in [DOMAIN job -> Seq(Seq(Unit))]
  BY <1>1 DEF KernelType
<1> HIDE DEF data, e, k, off
<1>4. [disk[e] EXCEPT ![k] = WriteAt(@, off, data)] \in Seq(Seq(Unit))
  <2>1. k \in DOMAIN disk[e] => WriteAt(disk[e][k], off, data) \in Seq(Unit)
    BY <1>1, <1>2, <1>3, WriteAtType
  <2>2. QED BY <1>3, <2>1, SeqExcept
<1>5. Sent(s, n) = [disk EXCEPT ![e] = [disk[e] EXCEPT ![k] = WriteAt(@, off, data)]]
  BY <1>1, <1>3 DEF Sent, data, e, k, off
<1>6. QED BY <1>3, <1>4, <1>5

\* What a read or a copy leaves in the buffers.
LEMMA BufferTypes ==
  ASSUME QueueType, KernelType, NEW s \in Slots
  PROVE  /\ ReadTransfer(s) => mem' \in [Slots -> [lo : Seq(Unit), hi : Seq(Unit)]]
         /\ IssueWrite => mem' \in [Slots -> [lo : Seq(Unit), hi : Seq(Unit)]]
<1>1. \A i \in Slots : mem[i].lo \in Seq(Unit) /\ mem[i].hi \in Seq(Unit)
  BY DEF KernelType
<1>2. mem \in [Slots -> [lo : Seq(Unit), hi : Seq(Unit)]]
  BY DEF KernelType
<1>3. \A v \in Seq(Unit) : \A i :
         /\ [mem EXCEPT ![i].lo = v] \in [Slots -> [lo : Seq(Unit), hi : Seq(Unit)]]
         /\ [mem EXCEPT ![i].hi = v] \in [Slots -> [lo : Seq(Unit), hi : Seq(Unit)]]
  BY <1>2
<1>4. ASSUME ReadTransfer(s)
      PROVE  mem' \in [Slots -> [lo : Seq(Unit), hi : Seq(Unit)]]
  <2> DEFINE r == t_read[s]
             data == [i \in 1 .. r.size |-> <<r.fd, r.offset + i - 1>>]
  <2>1. r.fd \in Int /\ r.offset \in Int /\ r.size \in Int
    BY DEF QueueType, AioType, FdType
  <2>2. \A i \in 1 .. r.size : <<r.fd, r.offset + i - 1>> \in Unit
    BY <2>1 DEF Unit
  <2>3. data \in [1 .. r.size -> Unit]
    BY <2>2
  <2>4. data \in Seq(Unit)
    BY <2>1, <2>3, UnitSeq
  <2> HIDE DEF data
  <2>5. WriteAt(mem[s].lo, 0, data) \in Seq(Unit)
    BY <1>1, <2>4, WriteAtType, Values
  <2>6. mem' = [mem EXCEPT ![s].lo = WriteAt(mem[s].lo, 0, data)]
    BY <1>2, <1>4 DEF ReadTransfer, data
  <2>7. QED BY <1>3, <2>5, <2>6
<1>5. ASSUME IssueWrite
      PROVE  mem' \in [Slots -> [lo : Seq(Unit), hi : Seq(Unit)]]
  <2>1. CASE cur_r \in Slots
    <3>1. mem' = [mem EXCEPT ![cur_r].hi = IF file[cur_r].dbl THEN mem[cur_r].lo
                                           ELSE mem[cur_r].hi]
      BY <1>2, <1>5, <2>1 DEF IssueWrite
    <3>2. (IF file[cur_r].dbl THEN mem[cur_r].lo ELSE mem[cur_r].hi) \in Seq(Unit)
      BY <1>1, <2>1
    <3>3. QED BY <1>3, <3>1, <3>2
  <2>2. CASE cur_r \notin Slots
    BY <1>2, <1>5, <2>2 DEF IssueWrite
  <2>3. QED BY <2>1, <2>2
<1>6. QED BY <1>4, <1>5

\* The release leaves nothing busy.
LEMMA CleanupQuiet ==
  ASSUME IInv, Cleanup
  PROVE  \A s \in Slots : Quiet(s)'
<1> SUFFICES ASSUME NEW s \in Slots PROVE Quiet(s)'
  OBVIOUS
<1>1. aio_r'[s] = "idle" /\ aio_w'[s] = "idle"
  BY DEF IInv, SlotInv, Cleanup, Cancelled
<1>2. s >= fast_num_files => t_read[s].fd = -1 /\ t_write[s].fd = -1
  BY SizesAssumption DEF IInv, SlotInv, Quiet, TypeOK, EngineType, Slots
<1>3. t_read \in [Slots -> AioType] /\ t_write \in [Slots -> AioType]
  BY DEF IInv, TypeOK, QueueType
<1>4. fast_num_files \in Nat /\ s \in Nat
  BY SizesAssumption DEF IInv, TypeOK, EngineType, Slots
<1>5. t_read'[s].fd = -1 /\ t_write'[s].fd = -1
  BY <1>2, <1>3, <1>4 DEF Cleanup, Closed, AioType
<1>6. QED BY <1>1, <1>5 DEF Quiet

\* Opening a file makes its slot hold two descriptors.
LEMMA OpenFds ==
  ASSUME IInv, OpenGuard
  PROVE  /\ number_frag[cur_r] \in Nat /\ OutFrag(cur_r) \in Nat
         /\ cur_r < fast_num_files
  BY OpenSlot, SlotTypes DEF IInv, TypeOK, OpenGuard

\* Issuing a write makes the slot read from the one that writes.
LEMMA IssuedWrite ==
  ASSUME IInv, IssueWrite
  PROVE  /\ cur_r \in Slots /\ cur_r < fast_num_files
         /\ cur_w' = cur_r /\ fast_writing' = 1 /\ aio_w'[cur_r] = "issued"
         /\ fast_num_files' = fast_num_files /\ pc = "readend"
         /\ t_write'[cur_r].fd = t_write[cur_r].fd /\ t_write[cur_r].fd # -1
         /\ aio_r[cur_r] = "idle" /\ t_read[cur_r].fd # -1
         /\ files_opened >= 2 /\ i_reading
         /\ \A s \in Slots : s # cur_r =>
               Quiet(s) /\ aio_w'[s] = "idle" /\ t_write'[s].fd = -1
<1>1. ReadEndGuard
  BY DEF IssueWrite
<1>2. /\ t_write \in [Slots -> AioType]
      /\ aio_w \in [Slots -> {"idle", "issued", "moved"}]
  BY DEF IInv, TypeOK, QueueType, KernelType
<1>3. \A s \in Slots : s # cur_r => Quiet(s)
  BY <1>1, ReadEndSlot DEF IInv, SlotInv
<1>4. /\ aio_w'[cur_r] = "issued" /\ t_write'[cur_r].fd = t_write[cur_r].fd
      /\ \A s \in Slots : s # cur_r => aio_w'[s] = "idle" /\ t_write'[s].fd = -1
  BY <1>1, <1>2, <1>3, ReadEndSlot DEF IssueWrite, Aio, Quiet
<1>5. files_opened >= 2
  BY <1>1, ReadEndSlot DEF IInv, LoopInv, BusyInv, LoopPcs, ReadEndGuard
<1>6. cur_w' = cur_r /\ fast_writing' = 1 /\ fast_num_files' = fast_num_files
      /\ pc = "readend"
  BY DEF IssueWrite, ReadEndGuard, walkUnchanged, queueVars
<1>7. QED BY <1>1, <1>3, <1>4, <1>5, <1>6, ReadEndSlot

-----------------------------------------------------------------------------
(* Descriptors. *)

\* The descriptors of a slot are those its two request blocks hold.
LEMMA StoredIff ==
  \A s, d : d \in StoredOf(s) <=> \/ d = Rd(s, t_read[s].fd) /\ t_read[s].fd >= 0
                                  \/ d = Wr(s, t_write[s].fd) /\ t_write[s].fd >= 0
  BY DEF StoredOf, Rd, Wr

\* The sizes of the sets of descriptors a slot can hold.
LEMMA PairSize ==
  ASSUME NEW a, NEW b, a # b
  PROVE  /\ Cardinality({}) = 0 /\ Cardinality({a}) = 1 /\ Cardinality({a, b}) = 2
         /\ IsFiniteSet({}) /\ IsFiniteSet({a}) /\ IsFiniteSet({a, b})
<1>1. IsFiniteSet({a}) /\ Cardinality({a}) = 1
  BY FS_Singleton
<1>2. {a, b} = {a} \cup {b} /\ b \notin {a}
  OBVIOUS
<1>3. IsFiniteSet({a, b}) /\ Cardinality({a, b}) = 2
  BY <1>1, <1>2, FS_AddElement
<1>4. QED BY <1>1, <1>3, FS_EmptySet

\* A step that touches no descriptor keeps their accounts.
LEMMA FdFrame ==
  ASSUME IInv, fds' = fds,
         \/ pc' = "done"
         \/ pc # "done" /\ files_opened' = files_opened,
         \A s \in Slots : t_read'[s].fd = t_read[s].fd /\ t_write'[s].fd = t_write[s].fd,
         abort_copy => abort_copy',
         pc = "cleanup" /\ error = -2 => abort_copy' \/ (pc' = "cleanup" /\ error' = -2)
  PROVE  FdInv'
<1>1. \A s \in Slots : StoredOf(s)' = StoredOf(s)
  BY DEF StoredOf
<1>2. FdInv
  BY DEF IInv
<1>3. QED BY <1>1, <1>2 DEF FdInv

\* A step after which one slot holds all open descriptors has counted them right.
LEMMA FdExact ==
  ASSUME NEW c \in Slots,
         \A s \in Slots : s # c => t_read'[s].fd = -1 /\ t_write'[s].fd = -1,
         fds' = StoredOf(c)', files_opened' = Cardinality(fds')
  PROVE  FdInv'
<1>1. \A s \in Slots : s # c => StoredOf(s)' = {}
  BY DEF StoredOf, Rd, Wr
<1>2. IsFiniteSet(fds')
  <2>1. Rd(c, t_read'[c].fd) # Wr(c, t_write'[c].fd)
    BY DEF Rd, Wr
  <2>2. IsFiniteSet({Rd(c, t_read'[c].fd), Wr(c, t_write'[c].fd)})
    BY <2>1, PairSize
  <2>3. fds' \subseteq {Rd(c, t_read'[c].fd), Wr(c, t_write'[c].fd)}
    BY DEF StoredOf
  <2>4. QED BY <2>2, <2>3, FS_Subset
<1>3. QED BY <1>1, <1>2 DEF FdInv

\* While the loop runs its sections every open descriptor belongs to the busy slot.
LEMMA HeldFile ==
  ASSUME IInv, pc \in {"readend", "joined", "writeend", "ui"} \/ OpenGuard
  PROVE  \/ fds = {} /\ files_opened = 0 /\ (\A s \in Slots : Quiet(s))
         \/ /\ cur_w \in Slots /\ ~Quiet(cur_w) /\ files_opened = 2
            /\ fds = {Rd(cur_w, t_read[cur_w].fd), Wr(cur_w, t_write[cur_w].fd)}
            /\ t_read[cur_w].fd >= 0 /\ t_write[cur_w].fd >= 0
<1>1. \A d \in fds : \E s \in Slots : d \in StoredOf(s)
  BY DEF IInv, FdInv, RestInv, OpenGuard
<1>2. pc # "done" /\ pc \in LoopPcs
  BY DEF OpenGuard, LoopPcs
<1>3. CASE \A s \in Slots : Quiet(s)
  <2>1. fds = {}
    BY <1>1, <1>3, StoredIff DEF Quiet
  <2>2. QED BY <1>2, <1>3, <2>1, FS_EmptySet DEF IInv, FdInv
<1>4. CASE \E s \in Slots : ~Quiet(s)
  <2>1. cur_w \in Slots /\ ~Quiet(cur_w) /\ \A s \in Slots : s # cur_w => Quiet(s)
    BY <1>4 DEF IInv, SlotInv
  <2>2. t_read[cur_w].fd >= 0 /\ t_write[cur_w].fd >= 0
    BY <1>2, <2>1, SlotTypes DEF IInv, TypeOK, LoopInv, BusyInv, FdType
  <2>3. fds = StoredOf(cur_w)
    BY <1>1, <2>1, StoredIff DEF IInv, FdInv, Quiet
  <2>4. StoredOf(cur_w) = {Rd(cur_w, t_read[cur_w].fd), Wr(cur_w, t_write[cur_w].fd)}
    BY <2>2, StoredIff
  <2>5. Rd(cur_w, t_read[cur_w].fd) # Wr(cur_w, t_write[cur_w].fd)
    BY DEF Rd, Wr
  <2>6. Cardinality({Rd(cur_w, t_read[cur_w].fd), Wr(cur_w, t_write[cur_w].fd)}) = 2
    BY <2>5, PairSize
  <2>7. files_opened = Cardinality(fds)
    BY <1>2 DEF IInv, FdInv
  <2>8. QED BY <2>1, <2>2, <2>3, <2>4, <2>6, <2>7
<1>5. QED BY <1>3, <1>4

\* The sections that read and open leave no trace of the walk's variables.
LEMMA StillRunning ==
  ASSUME RestInv
  PROVE  /\ IssueWrite => ~abort_copy'
         /\ OpenBoth => ~abort_copy'
  BY DEF RestInv, IssueWrite, ReadEndGuard, OpenBoth, OpenGuard, walkUnchanged

\* A section that ends with one slot holding Rd(c, r), Wr(c, w) or one of them.
LEMMA FdOne ==
  ASSUME NEW c \in Slots,
         \A s \in Slots : s # c => t_read'[s].fd = -1 /\ t_write'[s].fd = -1,
         t_read'[c].fd \in FdType, t_write'[c].fd \in FdType,
         \/ /\ t_read'[c].fd # -1 /\ t_write'[c].fd # -1 /\ files_opened' = 2
            /\ fds' = {Rd(c, t_read'[c].fd), Wr(c, t_write'[c].fd)}
         \/ /\ t_read'[c].fd # -1 /\ t_write'[c].fd = -1 /\ files_opened' = 1
            /\ fds' = {Rd(c, t_read'[c].fd)}
         \/ /\ t_read'[c].fd = -1 /\ t_write'[c].fd # -1 /\ files_opened' = 1
            /\ fds' = {Wr(c, t_write'[c].fd)}
         \/ t_read'[c].fd = -1 /\ t_write'[c].fd = -1 /\ files_opened' = 0 /\ fds' = {}
  PROVE  FdInv'
<1>1. /\ t_read'[c].fd >= 0 <=> t_read'[c].fd # -1
      /\ t_write'[c].fd >= 0 <=> t_write'[c].fd # -1
  BY DEF FdType
<1>2. fds' = StoredOf(c)'
  <2>1. \A d : d \in StoredOf(c)' <=> \/ d = Rd(c, t_read'[c].fd) /\ t_read'[c].fd >= 0
                                      \/ d = Wr(c, t_write'[c].fd) /\ t_write'[c].fd >= 0
    BY DEF StoredOf, Rd, Wr
  <2>2. QED BY <1>1, <2>1
<1>3. files_opened' = Cardinality(fds')
  <2> DEFINE a == Rd(c, t_read'[c].fd)  b == Wr(c, t_write'[c].fd)
  <2>1. a # b
    BY DEF Rd, Wr
  <2> HIDE DEF a, b
  <2>2. /\ Cardinality({}) = 0 /\ Cardinality({a}) = 1 /\ Cardinality({b}) = 1
        /\ Cardinality({a, b}) = 2
    BY <2>1, PairSize, FS_Singleton
  <2>3. QED BY <2>2 DEF a, b
<1>4. QED BY <1>2, <1>3, FdExact

\* After both opens of the open section two descriptors are open and counted.
LEMMA OpenedFds ==
  ASSUME IInv, OpenBoth
  PROVE  FdInv'
<1>1. OpenGuard
  BY DEF OpenBoth
<1>2. cur_r \in Slots /\ \A s \in Slots : Quiet(s)
  BY <1>1, OpenSlot
<1>3. fds = {} /\ files_opened = 0
  BY <1>1, <1>2, HeldFile
<1>4. number_frag[cur_r] \in Nat /\ OutFrag(cur_r) \in Nat
  BY <1>1, OpenFds
<1>5. t_read \in [Slots -> AioType] /\ t_write \in [Slots -> AioType]
  BY DEF IInv, TypeOK, QueueType
<1>6. /\ t_read'[cur_r].fd = number_frag[cur_r] /\ t_write'[cur_r].fd = OutFrag(cur_r)
      /\ \A s \in Slots : s # cur_r => t_read'[s].fd = -1 /\ t_write'[s].fd = -1
  BY <1>2, <1>5 DEF OpenBoth, Aio, Quiet
<1>7. files_opened' = 2
  BY <1>3 DEF OpenBoth, OpenedTwo
<1>8. fds' = {Rd(cur_r, t_read'[cur_r].fd), Wr(cur_r, t_write'[cur_r].fd)}
  BY <1>3, <1>6 DEF OpenBoth
<1>9. t_read'[cur_r].fd \in FdType /\ t_read'[cur_r].fd # -1
      /\ t_write'[cur_r].fd \in FdType /\ t_write'[cur_r].fd # -1
  BY <1>4, <1>6 DEF FdType
<1>10. QED BY <1>2, <1>6, <1>7, <1>8, <1>9, FdOne

-----------------------------------------------------------------------------
(* Data. *)

\* A read is neither empty nor longer than what is left.
LEMMA ChunkBounds ==
  ASSUME IInv, NEW s \in Slots, s < fast_num_files, NEW n \in Int, n > 0
  PROVE  Chunk(s, n) \in Int /\ Chunk(s, n) > 0 /\ Chunk(s, n) <= n
<1>1. file[s].size_mem \in Int /\ file[s].size_mem > 0
  BY SlotTypes DEF IInv, TypeOK, LenInv
<1>2. QED BY <1>1 DEF Chunk

\* A fragment that is joined is not empty.
LEMMA NextFragmentLength ==
  ASSUME IInv, ReadEndGuard, HasNext
  PROVE  job[file[cur_r].ent].frags[number_frag[cur_r] + 2] > 0
<1>1. cur_r \in Slots
  BY ReadEndSlot
<1>2. file[cur_r].ent \in DOMAIN job /\ number_frag[cur_r] \in Nat
  BY <1>1, SlotTypes DEF IInv, TypeOK
<1>3. job[file[cur_r].ent].frags \in Seq(Nat) /\ job \in Jobs
  BY <1>2, JobFacts DEF IInv, TypeOK, ControlType
<1>4. number_frag[cur_r] + 2 \in 2 .. Len(job[file[cur_r].ent].frags)
  BY <1>2, <1>3 DEF HasNext
<1>5. QED BY <1>2, <1>3, <1>4, FragmentsAssumption

\* At the end of a read, all but the last buffer has been written.
LEMMA ReadEndData ==
  ASSUME IInv, IssueWrite
  PROVE  /\ writed[cur_r] >= 0 /\ readed[cur_r] >= 0 /\ readed[cur_r] <= len[cur_r]
         /\ writed[cur_r] = readed[cur_r] - t_read[cur_r].size
         /\ writed' = writed /\ readed' = readed
         /\ t_write'[cur_r].size = t_read[cur_r].size /\ aio_w'[cur_r] = "issued"
         /\ readed[cur_r] \in Int /\ len[cur_r] \in Int /\ t_read[cur_r].size \in Int
<1>1. ReadEndGuard /\ pc = "readend"
  BY DEF IssueWrite, ReadEndGuard
<1>2. /\ cur_r = cur_w /\ cur_r \in Slots /\ i_reading
      /\ aio_r[cur_r] = "idle" /\ aio_w[cur_r] = "idle"
  BY <1>1, ReadEndSlot
<1>3. /\ readed[cur_r] \in Int /\ writed[cur_r] \in Int /\ len[cur_r] \in Int
      /\ t_read[cur_r].size \in Int
  BY <1>2, SlotTypes DEF IInv, TypeOK
<1>4. writed[cur_r] >= 0
  BY <1>1, <1>2, <1>3 DEF IInv, DataInv, LoopPcs, ReadEndGuard
<1>5. /\ readed[cur_r] >= 0 /\ readed[cur_r] <= len[cur_r]
      /\ writed[cur_r] = readed[cur_r] - t_read[cur_r].size
  BY <1>1, <1>2, <1>3, <1>4 DEF IInv, DataInv, LoopPcs, ReadEndGuard, Pending
<1>6. t_write \in [Slots -> AioType] /\ aio_w \in [Slots -> {"idle", "issued", "moved"}]
  BY DEF IInv, TypeOK, QueueType, KernelType
<1>7. /\ writed' = writed /\ readed' = readed
      /\ t_write'[cur_r].size = t_read[cur_r].size /\ aio_w'[cur_r] = "issued"
  BY <1>2, <1>6 DEF IssueWrite, Aio
<1>8. QED BY <1>3, <1>4, <1>5, <1>7

-----------------------------------------------------------------------------
(* Type correctness of every step, by groups of variables. *)

\* The walk, the program counter and the results keep their types.
LEMMA ControlTypeStep ==
  ASSUME IInv, Next
  PROVE  ControlType'
<1> USE DEF vars, walkVars, queueVars, slotVars, fragVars, aioVars, kernVars, flagVars,
            walkUnchanged, GoTo, Leave, CallProcess, copyUnchanged
<1>t. ControlType /\ Len(job) \in Nat /\ DOMAIN job = 1 .. Len(job)
  BY JobFacts DEF IInv, TypeOK, ControlType
<1>1. CASE AddFlush
  BY <1>t, <1>1, Values DEF AddFlush, ControlType
<1>2. CASE AddPiece
  BY <1>t, <1>2, Values DEF AddPiece, ControlType
<1>3. CASE AddEmpty
  BY <1>t, <1>3, Values DEF AddEmpty, CountFile, ControlType
<1>4. CASE AddFile
  BY <1>t, <1>4, Values DEF AddFile, ControlType
<1>5. CASE AddFails
  BY <1>t, <1>5, Values DEF AddFails, ControlType
<1>6. CASE EndWalk
  BY <1>t, <1>6, Values DEF EndWalk, ControlType
<1>7. CASE LoopExit
  BY <1>t, <1>7, Values DEF LoopExit, ControlType
<1>8. CASE LoopSkip
  BY <1>t, <1>8, Values DEF LoopSkip, ControlType
<1>9. CASE OpenReadFails
  BY <1>t, <1>9, Values DEF OpenReadFails, NotOpened, ResetCounters, ControlType
<1>10. CASE OpenWriteFails
  BY <1>t, <1>10, Values DEF OpenWriteFails, NotOpened, ResetCounters, ControlType
<1>11. CASE OpenFile
  BY <1>t, <1>11, Values DEF OpenFile, OpenBoth, OpenedTwo, ResetCounters, ControlType
<1>12. CASE OpenFileAioFails
  BY <1>t, <1>12, Values
    DEF OpenFileAioFails, OpenBoth, OpenedTwo, ResetCounters, ControlType
<1>13. CASE ReadEndSkip
  BY <1>t, <1>13, Values DEF ReadEndSkip, ControlType
<1>14. CASE ReadEndFails
  BY <1>t, <1>14, Values DEF ReadEndFails, ControlType
<1>15. CASE SingleWrite
  BY <1>t, <1>15, Values DEF SingleWrite, IssueWrite, NoMoreReads, NextSlot, ControlType
<1>16. CASE ReadAhead
  BY <1>t, <1>16, Values DEF ReadAhead, IssueWrite, IssueRead, ControlType
<1>17. CASE LastRead
  <2>1. /\ job' = job /\ copy_mode' = copy_mode /\ next' = next /\ pc' \in {"writeend", "cleanup"}
        /\ caller' = caller /\ failed' = failed /\ error' \in {error, -2}
        /\ abort_copy' = abort_copy /\ file_counter' = file_counter /\ i_reading' \in BOOLEAN
    BY <1>17 DEF LastRead, IssueWrite, NoMoreReads, NextSlot
  <2>2. QED BY <1>t, <2>1, Values DEF ControlType
<1>18. CASE JoinMissing
  BY <1>t, <1>18, Values
    DEF JoinMissing, JoinStep, IssueWrite, NoMoreReads, NextSlot, ControlType
<1>19. CASE JoinNext
  BY <1>t, <1>19, Values DEF JoinNext, JoinStep, IssueWrite, IssueRead, ControlType
<1>20. CASE JoinOpenFails
  BY <1>t, <1>20, Values DEF JoinOpenFails, JoinStep, IssueWrite, ControlType
<1>21. CASE JoinCloseFails
  BY <1>t, <1>21, Values DEF JoinCloseFails, JoinStep, IssueWrite, ControlType
<1>22. CASE JoinSetFl
  BY <1>t, <1>22, Values DEF JoinSetFl, ControlType
<1>23. CASE WriteEndSkip
  BY <1>t, <1>23, Values DEF WriteEndSkip, ControlType
<1>24. CASE WriteEndError
  BY <1>t, <1>24, Values DEF WriteEndError, WriteEnd, ControlType
<1>25. CASE FinishFile
  BY <1>t, <1>25, Values DEF FinishFile, WriteEnd, CountFile, ControlType
<1>26. CASE FinishCloseFails
  BY <1>t, <1>26, Values DEF FinishCloseFails, WriteEnd, ControlType
<1>27. CASE SplitFile
  BY <1>t, <1>27, Values DEF SplitFile, SplitStep, NextFrag, WriteEnd, ControlType
<1>28. CASE SplitCloseFails
  BY <1>t, <1>28, Values DEF SplitCloseFails, SplitStep, WriteEnd, ControlType
<1>29. CASE SplitOpenFails
  BY <1>t, <1>29, Values DEF SplitOpenFails, SplitStep, NextFrag, WriteEnd, ControlType
<1>30. CASE WriteOn
  BY <1>t, <1>30, Values DEF WriteOn, WriteEnd, ControlType
<1>31. CASE Display
  BY <1>t, <1>31, Values DEF Display, ControlType
<1>32. CASE UserAbort
  BY <1>t, <1>32, Values DEF UserAbort, ControlType
<1>33. CASE Cleanup
  BY <1>t, <1>33, Values DEF Cleanup, ControlType
<1>34. CASE ReturnToAdd
  BY <1>t, <1>34, Values DEF ReturnToAdd, ControlType
<1>35. CASE ReturnFailed
  BY <1>t, <1>35, Values DEF ReturnFailed, ControlType
<1>36. CASE Finish
  BY <1>t, <1>36, Values DEF Finish, ControlType
<1>37. ASSUME NEW s \in Slots, ReadTransfer(s) PROVE ControlType'
  BY <1>t, <1>37, Values DEF ReadTransfer, ControlType
<1>38. ASSUME NEW s \in Slots, fast_func_read(s) PROVE ControlType'
  BY <1>t, <1>38, Values DEF fast_func_read, ControlType
<1>39. ASSUME NEW s \in Slots, ReadError(s) PROVE ControlType'
  BY <1>t, <1>39, Values DEF ReadError, ControlType
<1>40. ASSUME NEW s \in Slots, WriteTransfer(s) PROVE ControlType'
  BY <1>t, <1>40, Values DEF WriteTransfer, ControlType
<1>41. ASSUME NEW s \in Slots, fast_func_write(s) PROVE ControlType'
  BY <1>t, <1>41, Values DEF fast_func_write, ControlType
<1>42. ASSUME NEW s \in Slots, WriteError(s) PROVE ControlType'
  BY <1>t, <1>42, Values DEF WriteError, ControlType
<1>43. CASE Terminated
  BY <1>t, <1>43 DEF Terminated, ControlType
<1>q. QED
  BY <1>1, <1>2, <1>3, <1>4, <1>5, <1>6, <1>7, <1>8, <1>9, <1>10, <1>11, <1>12,
     <1>13, <1>14, <1>15, <1>16, <1>17, <1>18, <1>19, <1>20, <1>21, <1>22, <1>23,
     <1>24, <1>25, <1>26, <1>27, <1>28, <1>29, <1>30, <1>31, <1>32, <1>33, <1>34,
     <1>35, <1>36, <1>37, <1>38, <1>39, <1>40, <1>41, <1>42, <1>43
  DEF Next, CopyThread, Walk, OpenSection, ReadEndSection, WriteEndSection, Leaving,
      AioThread

\* What fast_copy_add fixes of a slot: only AddFile changes it.
LEMMA FileTypeStep ==
  ASSUME IInv, Next
  PROVE  (file \in [Slots -> FileType])'
<1> USE DEF vars, walkVars, queueVars, slotVars, fragVars, aioVars, kernVars, flagVars,
            walkUnchanged, GoTo, Leave, CallProcess, copyUnchanged
<1>t. QueueType /\ ControlType /\ EngineType /\ job \in Jobs
  BY DEF IInv, TypeOK, ControlType
<1>v. /\ DOMAIN job = 1 .. Len(job) /\ Len(job) \in Nat
      /\ \A e \in DOMAIN job : job[e].frags[1] \in Int /\ ModesOf(e) \subseteq 0 .. 3
  BY <1>t, JobFacts
<1>1. CASE AddFlush
  BY <1>t, <1>1, Values DEF AddFlush, QueueType, FileType
<1>2. CASE AddPiece
  BY <1>t, <1>2, Values DEF AddPiece, QueueType, FileType
<1>3. CASE AddEmpty
  BY <1>t, <1>3, Values DEF AddEmpty, CountFile, QueueType, FileType
<1>4. CASE AddFile
  <2> DEFINE size == job[next].frags[1]
             f(m) == [ent |-> next, mode |-> m, dbl |-> size >= FILESIZE_MAX,
                      size_mem |-> IF size >= FILESIZE_MAX THEN FILESIZE_MAX ELSE size]
  <2>1. PICK mode \in ModesOf(next) :
            next \in DOMAIN job /\ job' = job /\ file' = [file EXCEPT ![fast_num_files] = f(mode)]
    BY <1>4 DEF AddFile
  <2>2. size \in Int /\ mode \in 0 .. 3
    BY <1>v, <2>1
  <2>3. (IF size >= FILESIZE_MAX THEN FILESIZE_MAX ELSE size) \in Int
    BY <2>2, SizesAssumption
  <2>4. f(mode) \in FileType
    BY <2>1, <2>2, <2>3 DEF FileType
  <2>5. file \in [Slots -> FileType] /\ FileType' = FileType
    BY <1>t, <2>1 DEF QueueType, FileType
  <2> HIDE DEF f
  <2>6. QED BY <2>1, <2>4, <2>5
<1>5. CASE AddFails
  BY <1>t, <1>5, Values DEF AddFails, QueueType, FileType
<1>6. CASE EndWalk
  BY <1>t, <1>6, Values DEF EndWalk, QueueType, FileType
<1>7. CASE LoopExit
  BY <1>t, <1>7, Values DEF LoopExit, QueueType, FileType
<1>8. CASE LoopSkip
  BY <1>t, <1>8, Values DEF LoopSkip, QueueType, FileType
<1>9. CASE OpenReadFails
  BY <1>t, <1>9, Values DEF OpenReadFails, NotOpened, ResetCounters, QueueType, FileType
<1>10. CASE OpenWriteFails
  BY <1>t, <1>10, Values DEF OpenWriteFails, NotOpened, ResetCounters, QueueType, FileType
<1>11. CASE OpenFile
  BY <1>t, <1>11, Values
    DEF OpenFile, OpenBoth, OpenedTwo, ResetCounters, QueueType, FileType
<1>12. CASE OpenFileAioFails
  BY <1>t, <1>12, Values
    DEF OpenFileAioFails, OpenBoth, OpenedTwo, ResetCounters, QueueType, FileType
<1>13. CASE ReadEndSkip
  BY <1>t, <1>13, Values DEF ReadEndSkip, QueueType, FileType
<1>14. CASE ReadEndFails
  BY <1>t, <1>14, Values DEF ReadEndFails, QueueType, FileType
<1>15. CASE SingleWrite
  BY <1>t, <1>15, Values
    DEF SingleWrite, IssueWrite, NoMoreReads, NextSlot, QueueType, FileType
<1>16. CASE ReadAhead
  BY <1>t, <1>16, Values DEF ReadAhead, IssueWrite, IssueRead, QueueType, FileType
<1>17. CASE LastRead
  BY <1>t, <1>17, Values
    DEF LastRead, IssueWrite, NoMoreReads, NextSlot, QueueType, FileType
<1>18. CASE JoinMissing
  BY <1>t, <1>18, Values
    DEF JoinMissing, JoinStep, IssueWrite, NoMoreReads, NextSlot, QueueType, FileType
<1>19. CASE JoinNext
  BY <1>t, <1>19, Values DEF JoinNext, JoinStep, IssueWrite, IssueRead, QueueType, FileType
<1>20. CASE JoinOpenFails
  BY <1>t, <1>20, Values DEF JoinOpenFails, JoinStep, IssueWrite, QueueType, FileType
<1>21. CASE JoinCloseFails
  BY <1>t, <1>21, Values DEF JoinCloseFails, JoinStep, IssueWrite, QueueType, FileType
<1>22. CASE JoinSetFl
  BY <1>t, <1>22, Values DEF JoinSetFl, QueueType, FileType
<1>23. CASE WriteEndSkip
  BY <1>t, <1>23, Values DEF WriteEndSkip, QueueType, FileType
<1>24. CASE WriteEndError
  BY <1>t, <1>24, Values DEF WriteEndError, WriteEnd, QueueType, FileType
<1>25. CASE FinishFile
  BY <1>t, <1>25, Values DEF FinishFile, WriteEnd, CountFile, QueueType, FileType
<1>26. CASE FinishCloseFails
  BY <1>t, <1>26, Values DEF FinishCloseFails, WriteEnd, QueueType, FileType
<1>27. CASE SplitFile
  BY <1>t, <1>27, Values DEF SplitFile, SplitStep, NextFrag, WriteEnd, QueueType, FileType
<1>28. CASE SplitCloseFails
  BY <1>t, <1>28, Values DEF SplitCloseFails, SplitStep, WriteEnd, QueueType, FileType
<1>29. CASE SplitOpenFails
  BY <1>t, <1>29, Values
    DEF SplitOpenFails, SplitStep, NextFrag, WriteEnd, QueueType, FileType
<1>30. CASE WriteOn
  BY <1>t, <1>30, Values DEF WriteOn, WriteEnd, QueueType, FileType
<1>31. CASE Display
  BY <1>t, <1>31, Values DEF Display, QueueType, FileType
<1>32. CASE UserAbort
  BY <1>t, <1>32, Values DEF UserAbort, QueueType, FileType
<1>33. CASE Cleanup
  BY <1>t, <1>33, Values DEF Cleanup, QueueType, FileType
<1>34. CASE ReturnToAdd
  BY <1>t, <1>34, Values DEF ReturnToAdd, QueueType, FileType
<1>35. CASE ReturnFailed
  BY <1>t, <1>35, Values DEF ReturnFailed, QueueType, FileType
<1>36. CASE Finish
  BY <1>t, <1>36, Values DEF Finish, QueueType, FileType
<1>37. ASSUME NEW s \in Slots, ReadTransfer(s) PROVE (file \in [Slots -> FileType])'
  BY <1>t, <1>37, Values DEF ReadTransfer, QueueType, FileType
<1>38. ASSUME NEW s \in Slots, fast_func_read(s) PROVE (file \in [Slots -> FileType])'
  BY <1>t, <1>38, Values DEF fast_func_read, QueueType, FileType
<1>39. ASSUME NEW s \in Slots, ReadError(s) PROVE (file \in [Slots -> FileType])'
  BY <1>t, <1>39, Values DEF ReadError, QueueType, FileType
<1>40. ASSUME NEW s \in Slots, WriteTransfer(s) PROVE (file \in [Slots -> FileType])'
  BY <1>t, <1>40, Values DEF WriteTransfer, QueueType, FileType
<1>41. ASSUME NEW s \in Slots, fast_func_write(s) PROVE (file \in [Slots -> FileType])'
  BY <1>t, <1>41, Values DEF fast_func_write, QueueType, FileType
<1>42. ASSUME NEW s \in Slots, WriteError(s) PROVE (file \in [Slots -> FileType])'
  BY <1>t, <1>42, Values DEF WriteError, QueueType, FileType
<1>43. CASE Terminated
  BY <1>t, <1>43 DEF Terminated, QueueType, FileType
<1>q. QED
  BY <1>1, <1>2, <1>3, <1>4, <1>5, <1>6, <1>7, <1>8, <1>9, <1>10, <1>11, <1>12,
     <1>13, <1>14, <1>15, <1>16, <1>17, <1>18, <1>19, <1>20, <1>21, <1>22, <1>23,
     <1>24, <1>25, <1>26, <1>27, <1>28, <1>29, <1>30, <1>31, <1>32, <1>33, <1>34,
     <1>35, <1>36, <1>37, <1>38, <1>39, <1>40, <1>41, <1>42, <1>43
  DEF Next, CopyThread, Walk, OpenSection, ReadEndSection, WriteEndSection, Leaving,
      AioThread

\* The counters of the slots stay numbers.
LEMMA CountsStep ==
  ASSUME IInv, Next
  PROVE  (/\ fl \in [Slots -> 0 .. 5]
           /\ readed \in [Slots -> Int] /\ writed \in [Slots -> Int]
           /\ off_readed \in [Slots -> Int] /\ len \in [Slots -> Int]
           /\ giga_counter \in [Slots -> Int] /\ number_frag \in [Slots -> Nat])'
<1> USE DEF vars, walkVars, queueVars, slotVars, fragVars, aioVars, kernVars, flagVars,
            walkUnchanged, GoTo, Leave, CallProcess, copyUnchanged
<1>t. QueueType /\ ControlType /\ EngineType /\ job \in Jobs
  BY DEF IInv, TypeOK, ControlType
<1>v. /\ DOMAIN job = 1 .. Len(job) /\ Len(job) \in Nat
      /\ \A e \in DOMAIN job : job[e].frags[1] \in Int /\ ModesOf(e) \subseteq 0 .. 3
  BY <1>t, JobFacts
<1>1. CASE AddFlush
  BY <1>t, <1>1, Values DEF AddFlush, QueueType
<1>2. CASE AddPiece
  BY <1>t, <1>2, Values DEF AddPiece, QueueType
<1>3. CASE AddEmpty
  BY <1>t, <1>3, Values DEF AddEmpty, CountFile, QueueType
<1>4. CASE AddFile
  <2>1. /\ next \in DOMAIN job /\ UNCHANGED off_readed
        /\ fl' = [fl EXCEPT ![fast_num_files] = 1]
        /\ readed' = [readed EXCEPT ![fast_num_files] = 0]
        /\ writed' = [writed EXCEPT ![fast_num_files] = 0]
        /\ len' = [len EXCEPT ![fast_num_files] = job[next].frags[1]]
        /\ number_frag' = [number_frag EXCEPT ![fast_num_files] = 0]
        /\ \/ giga_counter' = giga_counter
           \/ giga_counter' = [giga_counter EXCEPT ![fast_num_files] = 0]
    BY <1>4 DEF AddFile
  <2>2. QED BY <1>t, <1>v, <2>1, Values DEF QueueType
<1>5. CASE AddFails
  BY <1>t, <1>5, Values DEF AddFails, QueueType
<1>6. CASE EndWalk
  BY <1>t, <1>6, Values DEF EndWalk, QueueType
<1>7. CASE LoopExit
  BY <1>t, <1>7, Values DEF LoopExit, QueueType
<1>8. CASE LoopSkip
  BY <1>t, <1>8, Values DEF LoopSkip, QueueType
<1>9. CASE OpenReadFails
  BY <1>t, <1>9, Values DEF OpenReadFails, NotOpened, ResetCounters, QueueType
<1>10. CASE OpenWriteFails
  BY <1>t, <1>10, Values DEF OpenWriteFails, NotOpened, ResetCounters, QueueType
<1>11. CASE OpenFile
  BY <1>t, <1>11, Values DEF OpenFile, OpenBoth, OpenedTwo, ResetCounters, QueueType
<1>12. CASE OpenFileAioFails
  BY <1>t, <1>12, Values DEF OpenFileAioFails, OpenBoth, OpenedTwo, ResetCounters, QueueType
<1>13. CASE ReadEndSkip
  BY <1>t, <1>13, Values DEF ReadEndSkip, QueueType
<1>14. CASE ReadEndFails
  BY <1>t, <1>14, Values DEF ReadEndFails, QueueType
<1>15. CASE SingleWrite
  BY <1>t, <1>15, Values DEF SingleWrite, IssueWrite, NoMoreReads, NextSlot, QueueType
<1>16. CASE ReadAhead
  BY <1>t, <1>16, Values DEF ReadAhead, IssueWrite, IssueRead, QueueType
<1>17. CASE LastRead
  BY <1>t, <1>17, Values DEF LastRead, IssueWrite, NoMoreReads, NextSlot, QueueType
<1>18. CASE JoinMissing
  <2>1. cur_r \in Slots BY ReadEndSlot, <1>18 DEF JoinMissing, JoinStep, IssueWrite
  <2>2. QED
    BY <1>t, <1>18, <2>1, Values, SlotTypes
      DEF JoinMissing, JoinStep, IssueWrite, NoMoreReads, NextSlot, QueueType
<1>19. CASE JoinNext
  <2>1. cur_r \in Slots /\ job[file[cur_r].ent].frags[number_frag[cur_r] + 2] \in Int
    BY ReadEndSlot, NextFragment, <1>19 DEF JoinNext, JoinStep, IssueWrite
  <2>2. len' \in [Slots -> Int]
    BY <1>t, <1>19, <2>1, Values, SlotTypes DEF JoinNext, QueueType
  <2>3. QED
    BY <1>t, <1>19, <2>1, <2>2, Values, SlotTypes
      DEF JoinNext, JoinStep, IssueWrite, IssueRead, QueueType
<1>20. CASE JoinOpenFails
  <2>1. cur_r \in Slots BY ReadEndSlot, <1>20 DEF JoinOpenFails, JoinStep, IssueWrite
  <2>2. QED
    BY <1>t, <1>20, <2>1, Values, SlotTypes
      DEF JoinOpenFails, JoinStep, IssueWrite, QueueType
<1>21. CASE JoinCloseFails
  <2>1. cur_r \in Slots BY ReadEndSlot, <1>21 DEF JoinCloseFails, JoinStep, IssueWrite
  <2>2. QED
    BY <1>t, <1>21, <2>1, Values, SlotTypes
      DEF JoinCloseFails, JoinStep, IssueWrite, QueueType
<1>22. CASE JoinSetFl
  BY <1>t, <1>22, Values DEF JoinSetFl, QueueType
<1>23. CASE WriteEndSkip
  BY <1>t, <1>23, Values DEF WriteEndSkip, QueueType
<1>24. CASE WriteEndError
  BY <1>t, <1>24, Values DEF WriteEndError, WriteEnd, QueueType
<1>25. CASE FinishFile
  BY <1>t, <1>25, Values DEF FinishFile, WriteEnd, CountFile, QueueType
<1>26. CASE FinishCloseFails
  BY <1>t, <1>26, Values DEF FinishCloseFails, WriteEnd, QueueType
<1>27. CASE SplitFile
  <2>1. cur_w \in Slots
    BY WriteEndSlot, <1>27
      DEF SplitFile, SplitStep, NextFrag, WriteEnd, QueueType
  <2>2. QED
    BY <1>t, <1>27, <2>1, Values, SlotTypes
      DEF SplitFile, SplitStep, NextFrag, WriteEnd, QueueType
<1>28. CASE SplitCloseFails
  BY <1>t, <1>28, Values DEF SplitCloseFails, SplitStep, WriteEnd, QueueType
<1>29. CASE SplitOpenFails
  <2>1. cur_w \in Slots
    BY WriteEndSlot, <1>29
      DEF SplitOpenFails, SplitStep, NextFrag, WriteEnd, QueueType
  <2>2. QED
    BY <1>t, <1>29, <2>1, Values, SlotTypes
      DEF SplitOpenFails, SplitStep, NextFrag, WriteEnd, QueueType
<1>30. CASE WriteOn
  BY <1>t, <1>30, Values DEF WriteOn, WriteEnd, QueueType
<1>31. CASE Display
  BY <1>t, <1>31, Values DEF Display, QueueType
<1>32. CASE UserAbort
  BY <1>t, <1>32, Values DEF UserAbort, QueueType
<1>33. CASE Cleanup
  BY <1>t, <1>33, Values DEF Cleanup, QueueType
<1>34. CASE ReturnToAdd
  BY <1>t, <1>34, Values DEF ReturnToAdd, QueueType
<1>35. CASE ReturnFailed
  BY <1>t, <1>35, Values DEF ReturnFailed, QueueType
<1>36. CASE Finish
  BY <1>t, <1>36, Values DEF Finish, QueueType
<1>37. ASSUME NEW s \in Slots, ReadTransfer(s) PROVE (/\ fl \in [Slots -> 0 .. 5]
           /\ readed \in [Slots -> Int] /\ writed \in [Slots -> Int]
           /\ off_readed \in [Slots -> Int] /\ len \in [Slots -> Int]
           /\ giga_counter \in [Slots -> Int] /\ number_frag \in [Slots -> Nat])'
  BY <1>t, <1>37, Values DEF ReadTransfer, QueueType
<1>38. ASSUME NEW s \in Slots, fast_func_read(s) PROVE (/\ fl \in [Slots -> 0 .. 5]
           /\ readed \in [Slots -> Int] /\ writed \in [Slots -> Int]
           /\ off_readed \in [Slots -> Int] /\ len \in [Slots -> Int]
           /\ giga_counter \in [Slots -> Int] /\ number_frag \in [Slots -> Nat])'
  BY <1>t, <1>38, Values, SlotTypes DEF fast_func_read, QueueType
<1>39. ASSUME NEW s \in Slots, ReadError(s) PROVE (/\ fl \in [Slots -> 0 .. 5]
           /\ readed \in [Slots -> Int] /\ writed \in [Slots -> Int]
           /\ off_readed \in [Slots -> Int] /\ len \in [Slots -> Int]
           /\ giga_counter \in [Slots -> Int] /\ number_frag \in [Slots -> Nat])'
  BY <1>t, <1>39, Values DEF ReadError, QueueType
<1>40. ASSUME NEW s \in Slots, WriteTransfer(s) PROVE (/\ fl \in [Slots -> 0 .. 5]
           /\ readed \in [Slots -> Int] /\ writed \in [Slots -> Int]
           /\ off_readed \in [Slots -> Int] /\ len \in [Slots -> Int]
           /\ giga_counter \in [Slots -> Int] /\ number_frag \in [Slots -> Nat])'
  BY <1>t, <1>40, Values DEF WriteTransfer, QueueType
<1>41. ASSUME NEW s \in Slots, fast_func_write(s) PROVE (/\ fl \in [Slots -> 0 .. 5]
           /\ readed \in [Slots -> Int] /\ writed \in [Slots -> Int]
           /\ off_readed \in [Slots -> Int] /\ len \in [Slots -> Int]
           /\ giga_counter \in [Slots -> Int] /\ number_frag \in [Slots -> Nat])'
  BY <1>t, <1>41, Values, SlotTypes DEF fast_func_write, QueueType
<1>42. ASSUME NEW s \in Slots, WriteError(s) PROVE (/\ fl \in [Slots -> 0 .. 5]
           /\ readed \in [Slots -> Int] /\ writed \in [Slots -> Int]
           /\ off_readed \in [Slots -> Int] /\ len \in [Slots -> Int]
           /\ giga_counter \in [Slots -> Int] /\ number_frag \in [Slots -> Nat])'
  BY <1>t, <1>42, Values DEF WriteError, QueueType
<1>43. CASE Terminated
  BY <1>t, <1>43 DEF Terminated, QueueType
<1>q. QED
  BY <1>1, <1>2, <1>3, <1>4, <1>5, <1>6, <1>7, <1>8, <1>9, <1>10, <1>11, <1>12,
     <1>13, <1>14, <1>15, <1>16, <1>17, <1>18, <1>19, <1>20, <1>21, <1>22, <1>23,
     <1>24, <1>25, <1>26, <1>27, <1>28, <1>29, <1>30, <1>31, <1>32, <1>33, <1>34,
     <1>35, <1>36, <1>37, <1>38, <1>39, <1>40, <1>41, <1>42, <1>43
  DEF Next, CopyThread, Walk, OpenSection, ReadEndSection, WriteEndSection, Leaving,
      AioThread

\* The request blocks stay request blocks.
LEMMA RequestsStep ==
  ASSUME IInv, Next
  PROVE  (t_read \in [Slots -> AioType] /\ t_write \in [Slots -> AioType])'
<1> USE DEF vars, walkVars, queueVars, slotVars, fragVars, aioVars, kernVars, flagVars,
            walkUnchanged, GoTo, Leave, CallProcess, copyUnchanged
<1>t. QueueType /\ ControlType /\ EngineType /\ job \in Jobs
  BY DEF IInv, TypeOK, ControlType
<1>v. /\ DOMAIN job = 1 .. Len(job) /\ Len(job) \in Nat
      /\ \A e \in DOMAIN job : job[e].frags[1] \in Int /\ ModesOf(e) \subseteq 0 .. 3
  BY <1>t, JobFacts
<1>1. CASE AddFlush
  BY <1>t, <1>1, Values, AioTypes DEF AddFlush, QueueType
<1>2. CASE AddPiece
  BY <1>t, <1>2, Values, AioTypes DEF AddPiece, QueueType
<1>3. CASE AddEmpty
  BY <1>t, <1>3, Values, AioTypes DEF AddEmpty, CountFile, QueueType
<1>4. CASE AddFile
  <2>1. /\ t_read' = [t_read EXCEPT ![fast_num_files].fd = -1]
        /\ t_write' = [t_write EXCEPT ![fast_num_files].fd = -1]
    BY <1>4 DEF AddFile
  <2>2. QED BY <1>t, <2>1, Values, AioTypes DEF QueueType
<1>5. CASE AddFails
  BY <1>t, <1>5, Values, AioTypes DEF AddFails, QueueType
<1>6. CASE EndWalk
  BY <1>t, <1>6, Values, AioTypes DEF EndWalk, QueueType
<1>7. CASE LoopExit
  BY <1>t, <1>7, Values, AioTypes DEF LoopExit, QueueType
<1>8. CASE LoopSkip
  BY <1>t, <1>8, Values, AioTypes DEF LoopSkip, QueueType
<1>9. CASE OpenReadFails
  BY <1>t, <1>9, Values, AioTypes DEF OpenReadFails, NotOpened, ResetCounters, QueueType
<1>10. CASE OpenWriteFails
  BY <1>t, <1>10, Values, AioTypes DEF OpenWriteFails, NotOpened, ResetCounters, QueueType
<1>11. CASE OpenFile
  BY <1>t, <1>11, Requests DEF OpenFile, OpenBoth, OpenedTwo, ResetCounters, QueueType
<1>12. CASE OpenFileAioFails
  BY <1>t, <1>12, Requests
    DEF OpenFileAioFails, OpenBoth, OpenedTwo, ResetCounters, QueueType
<1>13. CASE ReadEndSkip
  BY <1>t, <1>13, Values, AioTypes DEF ReadEndSkip, QueueType
<1>14. CASE ReadEndFails
  BY <1>t, <1>14, Values, AioTypes DEF ReadEndFails, QueueType
<1>15. CASE SingleWrite
  BY <1>t, <1>15, Requests DEF SingleWrite, IssueWrite, NoMoreReads, NextSlot, QueueType
<1>16. CASE ReadAhead
  BY <1>t, <1>16, Requests DEF ReadAhead, IssueWrite, IssueRead, QueueType
<1>17. CASE LastRead
  BY <1>t, <1>17, Requests DEF LastRead, IssueWrite, NoMoreReads, NextSlot, QueueType
<1>18. CASE JoinMissing
  BY <1>t, <1>18, Requests
    DEF JoinMissing, JoinStep, IssueWrite, NoMoreReads, NextSlot, QueueType
<1>19. CASE JoinNext
  BY <1>t, <1>19, Requests DEF JoinNext, JoinStep, IssueWrite, IssueRead, QueueType
<1>20. CASE JoinOpenFails
  <2>1. t_write' \in [Slots -> AioType]
    BY <1>20, Requests DEF JoinOpenFails, JoinStep
  <2>2. t_read' \in [Slots -> AioType]
    BY <1>t, <1>20, AioTypes DEF JoinOpenFails, QueueType
  <2>3. QED BY <2>1, <2>2
<1>21. CASE JoinCloseFails
  BY <1>t, <1>21, Requests DEF JoinCloseFails, JoinStep, IssueWrite, QueueType
<1>22. CASE JoinSetFl
  BY <1>t, <1>22, Values, AioTypes DEF JoinSetFl, QueueType
<1>23. CASE WriteEndSkip
  BY <1>t, <1>23, Values, AioTypes DEF WriteEndSkip, QueueType
<1>24. CASE WriteEndError
  BY <1>t, <1>24, Values, AioTypes DEF WriteEndError, WriteEnd, QueueType
<1>25. CASE FinishFile
  BY <1>t, <1>25, Values, AioTypes DEF FinishFile, WriteEnd, CountFile, QueueType
<1>26. CASE FinishCloseFails
  <2>1. t_write' \in [Slots -> AioType]
    BY <1>t, <1>26 DEF FinishCloseFails, QueueType
  <2>2. t_read' = t_read \/ t_read' = [t_read EXCEPT ![cur_w].fd = -1]
    BY <1>26 DEF FinishCloseFails
  <2>3. \A i : [t_read EXCEPT ![i].fd = -1] \in [Slots -> AioType]
    BY <1>t, AioTypes DEF QueueType
  <2>4. t_read' \in [Slots -> AioType]
    BY <1>t, <2>2, <2>3 DEF QueueType
  <2>5. QED BY <2>1, <2>4
<1>27. CASE SplitFile
  <2>1. cur_w \in Slots BY WriteEndSlot, <1>27 DEF SplitFile, SplitStep
  <2>2. number_frag[cur_w] + 1 \in FdType
    BY <1>t, <2>1, SlotTypes, Values, AioTypes
  <2>3. t_write' \in [Slots -> AioType]
    BY <1>t, <1>27, <2>2, AioTypes DEF SplitFile, QueueType
  <2>4. QED BY <1>t, <1>27, <2>3 DEF SplitFile, SplitStep, NextFrag, WriteEnd, QueueType
<1>28. CASE SplitCloseFails
  BY <1>t, <1>28, Values, AioTypes DEF SplitCloseFails, SplitStep, WriteEnd, QueueType
<1>29. CASE SplitOpenFails
  BY <1>t, <1>29, Values, AioTypes
    DEF SplitOpenFails, SplitStep, NextFrag, WriteEnd, QueueType
<1>30. CASE WriteOn
  BY <1>t, <1>30, Values, AioTypes DEF WriteOn, WriteEnd, QueueType
<1>31. CASE Display
  BY <1>t, <1>31, Values, AioTypes DEF Display, QueueType
<1>32. CASE UserAbort
  BY <1>t, <1>32, Values, AioTypes DEF UserAbort, QueueType
<1>33. CASE Cleanup
  <2>1. \A t \in [Slots -> AioType] : Closed(t) \in [Slots -> AioType]
    BY AioTypes DEF Closed, AioType
  <2>2. QED BY <1>t, <1>33, <2>1 DEF Cleanup, QueueType
<1>34. CASE ReturnToAdd
  BY <1>t, <1>34, Values, AioTypes DEF ReturnToAdd, QueueType
<1>35. CASE ReturnFailed
  BY <1>t, <1>35, Values, AioTypes DEF ReturnFailed, QueueType
<1>36. CASE Finish
  BY <1>t, <1>36, Values, AioTypes DEF Finish, QueueType
<1>37. ASSUME NEW s \in Slots, ReadTransfer(s) PROVE (t_read \in [Slots -> AioType] /\ t_write \in [Slots -> AioType])'
  BY <1>t, <1>37, Values, AioTypes DEF ReadTransfer, QueueType
<1>38. ASSUME NEW s \in Slots, fast_func_read(s) PROVE (t_read \in [Slots -> AioType] /\ t_write \in [Slots -> AioType])'
  BY <1>t, <1>38, Values, AioTypes DEF fast_func_read, QueueType
<1>39. ASSUME NEW s \in Slots, ReadError(s) PROVE (t_read \in [Slots -> AioType] /\ t_write \in [Slots -> AioType])'
  BY <1>t, <1>39, Values, AioTypes DEF ReadError, QueueType
<1>40. ASSUME NEW s \in Slots, WriteTransfer(s) PROVE (t_read \in [Slots -> AioType] /\ t_write \in [Slots -> AioType])'
  BY <1>t, <1>40, Values, AioTypes DEF WriteTransfer, QueueType
<1>41. ASSUME NEW s \in Slots, fast_func_write(s) PROVE (t_read \in [Slots -> AioType] /\ t_write \in [Slots -> AioType])'
  BY <1>t, <1>41, Values, AioTypes DEF fast_func_write, QueueType
<1>42. ASSUME NEW s \in Slots, WriteError(s) PROVE (t_read \in [Slots -> AioType] /\ t_write \in [Slots -> AioType])'
  BY <1>t, <1>42, Values, AioTypes DEF WriteError, QueueType
<1>43. CASE Terminated
  BY <1>t, <1>43 DEF Terminated, QueueType
<1>q. QED
  BY <1>1, <1>2, <1>3, <1>4, <1>5, <1>6, <1>7, <1>8, <1>9, <1>10, <1>11, <1>12,
     <1>13, <1>14, <1>15, <1>16, <1>17, <1>18, <1>19, <1>20, <1>21, <1>22, <1>23,
     <1>24, <1>25, <1>26, <1>27, <1>28, <1>29, <1>30, <1>31, <1>32, <1>33, <1>34,
     <1>35, <1>36, <1>37, <1>38, <1>39, <1>40, <1>41, <1>42, <1>43
  DEF Next, CopyThread, Walk, OpenSection, ReadEndSection, WriteEndSection, Leaving,
      AioThread

\* The cursors and fast_num_files stay within the queue.
LEMMA EngineTypeStep ==
  ASSUME IInv, Next
  PROVE  EngineType'
<1> USE DEF vars, walkVars, queueVars, slotVars, fragVars, aioVars, kernVars, flagVars,
            walkUnchanged, GoTo, Leave, CallProcess, copyUnchanged
<1>t. EngineType /\ FdInv /\ MAX_FAST_FILES \in Nat \ {0} /\ FILESIZE_MAX \in Int
  BY SizesAssumption DEF IInv, TypeOK
<1>1. CASE AddFlush
  BY <1>t, <1>1, Values DEF AddFlush, EngineType
<1>2. CASE AddPiece
  BY <1>t, <1>2, Values DEF AddPiece, EngineType
<1>3. CASE AddEmpty
  BY <1>t, <1>3, Values DEF AddEmpty, CountFile, EngineType
<1>4. CASE AddFile
  <2>1. job[next].frags[1] \in Int
    BY <1>4, JobFacts DEF AddFile, IInv, TypeOK, ControlType
  <2>2. QED BY <1>t, <1>4, <2>1 DEF AddFile, QueueFull, EngineType
<1>5. CASE AddFails
  BY <1>t, <1>5, Values DEF AddFails, EngineType
<1>6. CASE EndWalk
  BY <1>t, <1>6, Values DEF EndWalk, EngineType
<1>7. CASE LoopExit
  BY <1>t, <1>7, Values DEF LoopExit, EngineType
<1>8. CASE LoopSkip
  BY <1>t, <1>8, Values DEF LoopSkip, EngineType
<1>9. CASE OpenReadFails
  BY <1>t, <1>9, Values DEF OpenReadFails, NotOpened, ResetCounters, EngineType
<1>10. CASE OpenWriteFails
  BY <1>t, <1>10, Values DEF OpenWriteFails, NotOpened, ResetCounters, EngineType
<1>11. CASE OpenFile
  BY <1>t, <1>11, Values DEF OpenFile, OpenBoth, OpenedTwo, ResetCounters, EngineType
<1>12. CASE OpenFileAioFails
  BY <1>t, <1>12, Values
    DEF OpenFileAioFails, OpenBoth, OpenedTwo, ResetCounters, EngineType
<1>13. CASE ReadEndSkip
  BY <1>t, <1>13, Values DEF ReadEndSkip, EngineType
<1>14. CASE ReadEndFails
  BY <1>t, <1>14, Values DEF ReadEndFails, EngineType
<1>15. CASE SingleWrite
  <2>1. cur_r < fast_num_files
    BY ReadEndSlot, <1>15
      DEF SingleWrite, IssueWrite, NoMoreReads, NextSlot, EngineType
  <2>2. QED
    BY <1>t, <1>15, <2>1, Values
      DEF SingleWrite, IssueWrite, NoMoreReads, NextSlot, EngineType
<1>16. CASE ReadAhead
  BY <1>t, <1>16, Values DEF ReadAhead, IssueWrite, IssueRead, EngineType
<1>17. CASE LastRead
  <2>1. cur_r < fast_num_files
    BY ReadEndSlot, <1>17
      DEF LastRead, IssueWrite, NoMoreReads, NextSlot, EngineType
  <2>2. QED
    BY <1>t, <1>17, <2>1, Values
      DEF LastRead, IssueWrite, NoMoreReads, NextSlot, EngineType
<1>18. CASE JoinMissing
  <2>1. cur_r < fast_num_files
    BY ReadEndSlot, <1>18
      DEF JoinMissing, JoinStep, IssueWrite, NoMoreReads, NextSlot, EngineType
  <2>2. QED
    BY <1>t, <1>18, <2>1, Values
      DEF JoinMissing, JoinStep, IssueWrite, NoMoreReads, NextSlot, EngineType
<1>19. CASE JoinNext
  BY <1>t, <1>19, Values DEF JoinNext, JoinStep, IssueWrite, IssueRead, EngineType
<1>20. CASE JoinOpenFails
  BY <1>t, <1>20, Values DEF JoinOpenFails, JoinStep, IssueWrite, EngineType
<1>21. CASE JoinCloseFails
  BY <1>t, <1>21, Values DEF JoinCloseFails, JoinStep, IssueWrite, EngineType
<1>22. CASE JoinSetFl
  BY <1>t, <1>22, Values DEF JoinSetFl, EngineType
<1>23. CASE WriteEndSkip
  BY <1>t, <1>23, Values DEF WriteEndSkip, EngineType
<1>24. CASE WriteEndError
  BY <1>t, <1>24, Values DEF WriteEndError, WriteEnd, EngineType
<1>25. CASE FinishFile
  <2>1. cur_w \in Slots /\ cur_w < fast_num_files
    BY WriteEndSlot, <1>25 DEF FinishFile, WriteEnd, CountFile, EngineType
  <2>2. Cardinality(StoredOf(cur_w)) \in Nat
    BY <1>t, <2>1, HeldFds
  <2>3. files_opened' \in Int
    BY <1>t, <2>2, <1>25 DEF FinishFile, EngineType
  <2>4. QED BY <1>t, <1>25, <2>1, <2>3 DEF FinishFile, WriteEnd, CountFile, EngineType
<1>26. CASE FinishCloseFails
  BY <1>t, <1>26, Values DEF FinishCloseFails, WriteEnd, EngineType
<1>27. CASE SplitFile
  BY <1>t, <1>27, Values DEF SplitFile, SplitStep, NextFrag, WriteEnd, EngineType
<1>28. CASE SplitCloseFails
  BY <1>t, <1>28, Values DEF SplitCloseFails, SplitStep, WriteEnd, EngineType
<1>29. CASE SplitOpenFails
  BY <1>t, <1>29, Values DEF SplitOpenFails, SplitStep, NextFrag, WriteEnd, EngineType
<1>30. CASE WriteOn
  BY <1>t, <1>30, Values DEF WriteOn, WriteEnd, EngineType
<1>31. CASE Display
  BY <1>t, <1>31, Values DEF Display, EngineType
<1>32. CASE UserAbort
  BY <1>t, <1>32, Values DEF UserAbort, EngineType
<1>33. CASE Cleanup
  <2>1. files_opened' \in Int
    BY <1>t, HeldFds, <1>33 DEF Cleanup, EngineType
  <2>2. QED BY <1>t, <1>33, <2>1 DEF Cleanup, EngineType
<1>34. CASE ReturnToAdd
  BY <1>t, <1>34, Values DEF ReturnToAdd, EngineType
<1>35. CASE ReturnFailed
  BY <1>t, <1>35, Values DEF ReturnFailed, EngineType
<1>36. CASE Finish
  BY <1>t, <1>36, Values DEF Finish, EngineType
<1>37. ASSUME NEW s \in Slots, ReadTransfer(s) PROVE EngineType'
  BY <1>t, <1>37, Values DEF ReadTransfer, EngineType
<1>38. ASSUME NEW s \in Slots, fast_func_read(s) PROVE EngineType'
  BY <1>t, <1>38, Values DEF fast_func_read, EngineType
<1>39. ASSUME NEW s \in Slots, ReadError(s) PROVE EngineType'
  BY <1>t, <1>39, Values DEF ReadError, EngineType
<1>40. ASSUME NEW s \in Slots, WriteTransfer(s) PROVE EngineType'
  BY <1>t, <1>40, Values DEF WriteTransfer, EngineType
<1>41. ASSUME NEW s \in Slots, fast_func_write(s) PROVE EngineType'
  BY <1>t, <1>41, Values DEF fast_func_write, EngineType
<1>42. ASSUME NEW s \in Slots, WriteError(s) PROVE EngineType'
  BY <1>t, <1>42, Values DEF WriteError, EngineType
<1>43. CASE Terminated
  BY <1>t, <1>43 DEF Terminated, EngineType
<1>q. QED
  BY <1>1, <1>2, <1>3, <1>4, <1>5, <1>6, <1>7, <1>8, <1>9, <1>10, <1>11, <1>12,
     <1>13, <1>14, <1>15, <1>16, <1>17, <1>18, <1>19, <1>20, <1>21, <1>22, <1>23,
     <1>24, <1>25, <1>26, <1>27, <1>28, <1>29, <1>30, <1>31, <1>32, <1>33, <1>34,
     <1>35, <1>36, <1>37, <1>38, <1>39, <1>40, <1>41, <1>42, <1>43
  DEF Next, CopyThread, Walk, OpenSection, ReadEndSection, WriteEndSection, Leaving,
      AioThread

\* A request is idle, issued or moved.
LEMMA RequestStateStep ==
  ASSUME IInv, Next
  PROVE  (/\ aio_r \in [Slots -> {"idle", "issued", "moved"}]
           /\ aio_w \in [Slots -> {"idle", "issued", "moved"}])'
<1> USE DEF vars, walkVars, queueVars, slotVars, fragVars, aioVars, kernVars, flagVars,
            walkUnchanged, GoTo, Leave, CallProcess, copyUnchanged
<1>t. KernelType
  BY DEF IInv, TypeOK
<1>1. CASE AddFlush
  BY <1>t, <1>1, Values DEF AddFlush, KernelType
<1>2. CASE AddPiece
  BY <1>t, <1>2, Values DEF AddPiece, KernelType
<1>3. CASE AddEmpty
  BY <1>t, <1>3, Values DEF AddEmpty, CountFile, KernelType
<1>4. CASE AddFile
  BY <1>t, <1>4, Values DEF AddFile, KernelType
<1>5. CASE AddFails
  BY <1>t, <1>5, Values DEF AddFails, KernelType
<1>6. CASE EndWalk
  BY <1>t, <1>6, Values DEF EndWalk, KernelType
<1>7. CASE LoopExit
  BY <1>t, <1>7, Values DEF LoopExit, KernelType
<1>8. CASE LoopSkip
  BY <1>t, <1>8, Values DEF LoopSkip, KernelType
<1>9. CASE OpenReadFails
  BY <1>t, <1>9, Values DEF OpenReadFails, NotOpened, ResetCounters, KernelType
<1>10. CASE OpenWriteFails
  BY <1>t, <1>10, Values DEF OpenWriteFails, NotOpened, ResetCounters, KernelType
<1>11. CASE OpenFile
  BY <1>t, <1>11, Values DEF OpenFile, OpenBoth, OpenedTwo, ResetCounters, KernelType
<1>12. CASE OpenFileAioFails
  BY <1>t, <1>12, Values
    DEF OpenFileAioFails, OpenBoth, OpenedTwo, ResetCounters, KernelType
<1>13. CASE ReadEndSkip
  BY <1>t, <1>13, Values DEF ReadEndSkip, KernelType
<1>14. CASE ReadEndFails
  BY <1>t, <1>14, Values DEF ReadEndFails, KernelType
<1>15. CASE SingleWrite
  BY <1>t, <1>15, Values DEF SingleWrite, IssueWrite, NoMoreReads, NextSlot, KernelType
<1>16. CASE ReadAhead
  BY <1>t, <1>16, Values DEF ReadAhead, IssueWrite, IssueRead, KernelType
<1>17. CASE LastRead
  BY <1>t, <1>17, Values DEF LastRead, IssueWrite, NoMoreReads, NextSlot, KernelType
<1>18. CASE JoinMissing
  BY <1>t, <1>18, Values
    DEF JoinMissing, JoinStep, IssueWrite, NoMoreReads, NextSlot, KernelType
<1>19. CASE JoinNext
  BY <1>t, <1>19, Values DEF JoinNext, JoinStep, IssueWrite, IssueRead, KernelType
<1>20. CASE JoinOpenFails
  BY <1>t, <1>20, Values DEF JoinOpenFails, JoinStep, IssueWrite, KernelType
<1>21. CASE JoinCloseFails
  BY <1>t, <1>21, Values DEF JoinCloseFails, JoinStep, IssueWrite, KernelType
<1>22. CASE JoinSetFl
  BY <1>t, <1>22, Values DEF JoinSetFl, KernelType
<1>23. CASE WriteEndSkip
  BY <1>t, <1>23, Values DEF WriteEndSkip, KernelType
<1>24. CASE WriteEndError
  BY <1>t, <1>24, Values DEF WriteEndError, WriteEnd, KernelType
<1>25. CASE FinishFile
  BY <1>t, <1>25, Values DEF FinishFile, WriteEnd, CountFile, KernelType
<1>26. CASE FinishCloseFails
  BY <1>t, <1>26, Values DEF FinishCloseFails, WriteEnd, KernelType
<1>27. CASE SplitFile
  BY <1>t, <1>27, Values DEF SplitFile, SplitStep, NextFrag, WriteEnd, KernelType
<1>28. CASE SplitCloseFails
  BY <1>t, <1>28, Values DEF SplitCloseFails, SplitStep, WriteEnd, KernelType
<1>29. CASE SplitOpenFails
  BY <1>t, <1>29, Values DEF SplitOpenFails, SplitStep, NextFrag, WriteEnd, KernelType
<1>30. CASE WriteOn
  BY <1>t, <1>30, Values DEF WriteOn, WriteEnd, KernelType
<1>31. CASE Display
  BY <1>t, <1>31, Values DEF Display, KernelType
<1>32. CASE UserAbort
  BY <1>t, <1>32, Values DEF UserAbort, KernelType
<1>33. CASE Cleanup
  BY <1>t, <1>33 DEF Cleanup, KernelType, Cancelled
<1>34. CASE ReturnToAdd
  BY <1>t, <1>34, Values DEF ReturnToAdd, KernelType
<1>35. CASE ReturnFailed
  BY <1>t, <1>35, Values DEF ReturnFailed, KernelType
<1>36. CASE Finish
  BY <1>t, <1>36, Values DEF Finish, KernelType
<1>37. ASSUME NEW s \in Slots, ReadTransfer(s) PROVE (/\ aio_r \in [Slots -> {"idle", "issued", "moved"}]
           /\ aio_w \in [Slots -> {"idle", "issued", "moved"}])'
  BY <1>t, <1>37, Values DEF ReadTransfer, KernelType
<1>38. ASSUME NEW s \in Slots, fast_func_read(s) PROVE (/\ aio_r \in [Slots -> {"idle", "issued", "moved"}]
           /\ aio_w \in [Slots -> {"idle", "issued", "moved"}])'
  BY <1>t, <1>38, Values DEF fast_func_read, KernelType
<1>39. ASSUME NEW s \in Slots, ReadError(s) PROVE (/\ aio_r \in [Slots -> {"idle", "issued", "moved"}]
           /\ aio_w \in [Slots -> {"idle", "issued", "moved"}])'
  BY <1>t, <1>39, Values DEF ReadError, KernelType
<1>40. ASSUME NEW s \in Slots, WriteTransfer(s) PROVE (/\ aio_r \in [Slots -> {"idle", "issued", "moved"}]
           /\ aio_w \in [Slots -> {"idle", "issued", "moved"}])'
  BY <1>t, <1>40, Values DEF WriteTransfer, KernelType
<1>41. ASSUME NEW s \in Slots, fast_func_write(s) PROVE (/\ aio_r \in [Slots -> {"idle", "issued", "moved"}]
           /\ aio_w \in [Slots -> {"idle", "issued", "moved"}])'
  BY <1>t, <1>41, Values DEF fast_func_write, KernelType
<1>42. ASSUME NEW s \in Slots, WriteError(s) PROVE (/\ aio_r \in [Slots -> {"idle", "issued", "moved"}]
           /\ aio_w \in [Slots -> {"idle", "issued", "moved"}])'
  BY <1>t, <1>42, Values DEF WriteError, KernelType
<1>43. CASE Terminated
  BY <1>t, <1>43 DEF Terminated, KernelType
<1>q. QED
  BY <1>1, <1>2, <1>3, <1>4, <1>5, <1>6, <1>7, <1>8, <1>9, <1>10, <1>11, <1>12,
     <1>13, <1>14, <1>15, <1>16, <1>17, <1>18, <1>19, <1>20, <1>21, <1>22, <1>23,
     <1>24, <1>25, <1>26, <1>27, <1>28, <1>29, <1>30, <1>31, <1>32, <1>33, <1>34,
     <1>35, <1>36, <1>37, <1>38, <1>39, <1>40, <1>41, <1>42, <1>43
  DEF Next, CopyThread, Walk, OpenSection, ReadEndSection, WriteEndSection, Leaving,
      AioThread

\* Open descriptors are those of slots and fragments.
LEMMA FdsStep ==
  ASSUME IInv, Next
  PROVE  (fds \in SUBSET ({"r", "w"} \X Slots \X Nat))'
<1> USE DEF vars, walkVars, queueVars, slotVars, fragVars, aioVars, kernVars, flagVars,
            walkUnchanged, GoTo, Leave, CallProcess, copyUnchanged
<1>t. KernelType /\ QueueType
  BY DEF IInv, TypeOK
<1>1. CASE AddFlush
  BY <1>t, <1>1, Values DEF AddFlush, KernelType
<1>2. CASE AddPiece
  BY <1>t, <1>2, Values DEF AddPiece, KernelType
<1>3. CASE AddEmpty
  BY <1>t, <1>3, Values DEF AddEmpty, CountFile, KernelType
<1>4. CASE AddFile
  BY <1>t, <1>4, Values DEF AddFile, KernelType
<1>5. CASE AddFails
  BY <1>t, <1>5, Values DEF AddFails, KernelType
<1>6. CASE EndWalk
  BY <1>t, <1>6, Values DEF EndWalk, KernelType
<1>7. CASE LoopExit
  BY <1>t, <1>7, Values DEF LoopExit, KernelType
<1>8. CASE LoopSkip
  BY <1>t, <1>8, Values DEF LoopSkip, KernelType
<1>9. CASE OpenReadFails
  BY <1>t, <1>9, Values DEF OpenReadFails, NotOpened, ResetCounters, KernelType
<1>10. CASE OpenWriteFails
  <2>1. cur_r \in Slots /\ number_frag[cur_r] \in Nat /\ OutFrag(cur_r) \in Nat
    BY <1>t, OpenSlot, SlotTypes, <1>10
      DEF OpenWriteFails, NotOpened, ResetCounters, KernelType
  <2>2. QED
    BY <1>t, <1>10, <2>1, FdNames
      DEF OpenWriteFails, NotOpened, ResetCounters, KernelType
<1>11. CASE OpenFile
  <2>1. cur_r \in Slots /\ number_frag[cur_r] \in Nat /\ OutFrag(cur_r) \in Nat
    BY <1>t, OpenSlot, SlotTypes, <1>11
      DEF OpenFile, OpenBoth, OpenedTwo, ResetCounters, KernelType
  <2>2. QED
    BY <1>t, <1>11, <2>1, FdNames
      DEF OpenFile, OpenBoth, OpenedTwo, ResetCounters, KernelType
<1>12. CASE OpenFileAioFails
  <2>1. cur_r \in Slots /\ number_frag[cur_r] \in Nat /\ OutFrag(cur_r) \in Nat
    BY <1>t, OpenSlot, SlotTypes, <1>12
      DEF OpenFileAioFails, OpenBoth, OpenedTwo, ResetCounters, KernelType
  <2>2. QED
    BY <1>t, <1>12, <2>1, FdNames
      DEF OpenFileAioFails, OpenBoth, OpenedTwo, ResetCounters, KernelType
<1>13. CASE ReadEndSkip
  BY <1>t, <1>13, Values DEF ReadEndSkip, KernelType
<1>14. CASE ReadEndFails
  BY <1>t, <1>14, Values DEF ReadEndFails, KernelType
<1>15. CASE SingleWrite
  BY <1>t, <1>15, Values DEF SingleWrite, IssueWrite, NoMoreReads, NextSlot, KernelType
<1>16. CASE ReadAhead
  BY <1>t, <1>16, Values DEF ReadAhead, IssueWrite, IssueRead, KernelType
<1>17. CASE LastRead
  BY <1>t, <1>17, Values DEF LastRead, IssueWrite, NoMoreReads, NextSlot, KernelType
<1>18. CASE JoinMissing
  BY <1>t, <1>18, Values
    DEF JoinMissing, JoinStep, IssueWrite, NoMoreReads, NextSlot, KernelType
<1>19. CASE JoinNext
  <2>1. cur_r \in Slots /\ number_frag[cur_r] + 1 \in Nat
    BY <1>t, ReadEndSlot, SlotTypes, Values, <1>19 DEF JoinNext, JoinStep, IssueWrite
  <2>2. QED
    BY <1>t, <1>19, <2>1, FdNames
      DEF JoinNext, JoinStep, IssueWrite, IssueRead, KernelType
<1>20. CASE JoinOpenFails
  BY <1>t, <1>20, Values DEF JoinOpenFails, JoinStep, IssueWrite, KernelType
<1>21. CASE JoinCloseFails
  BY <1>t, <1>21, Values DEF JoinCloseFails, JoinStep, IssueWrite, KernelType
<1>22. CASE JoinSetFl
  BY <1>t, <1>22, Values DEF JoinSetFl, KernelType
<1>23. CASE WriteEndSkip
  BY <1>t, <1>23, Values DEF WriteEndSkip, KernelType
<1>24. CASE WriteEndError
  BY <1>t, <1>24, Values DEF WriteEndError, WriteEnd, KernelType
<1>25. CASE FinishFile
  BY <1>t, <1>25, Values DEF FinishFile, WriteEnd, CountFile, KernelType
<1>26. CASE FinishCloseFails
  BY <1>t, <1>26, Values DEF FinishCloseFails, WriteEnd, KernelType
<1>27. CASE SplitFile
  <2>1. cur_w \in Slots /\ number_frag[cur_w] + 1 \in Nat
    BY <1>t, WriteEndSlot, SlotTypes, Values, <1>27
      DEF SplitFile, SplitStep, NextFrag, WriteEnd, KernelType
  <2>2. QED
    BY <1>t, <1>27, <2>1, FdNames
      DEF SplitFile, SplitStep, NextFrag, WriteEnd, KernelType
<1>28. CASE SplitCloseFails
  BY <1>t, <1>28, Values DEF SplitCloseFails, SplitStep, WriteEnd, KernelType
<1>29. CASE SplitOpenFails
  BY <1>t, <1>29, Values DEF SplitOpenFails, SplitStep, NextFrag, WriteEnd, KernelType
<1>30. CASE WriteOn
  BY <1>t, <1>30, Values DEF WriteOn, WriteEnd, KernelType
<1>31. CASE Display
  BY <1>t, <1>31, Values DEF Display, KernelType
<1>32. CASE UserAbort
  BY <1>t, <1>32, Values DEF UserAbort, KernelType
<1>33. CASE Cleanup
  BY <1>t, <1>33, Values DEF Cleanup, KernelType
<1>34. CASE ReturnToAdd
  BY <1>t, <1>34, Values DEF ReturnToAdd, KernelType
<1>35. CASE ReturnFailed
  BY <1>t, <1>35, Values DEF ReturnFailed, KernelType
<1>36. CASE Finish
  BY <1>t, <1>36, Values DEF Finish, KernelType
<1>37. ASSUME NEW s \in Slots, ReadTransfer(s) PROVE (fds \in SUBSET ({"r", "w"} \X Slots \X Nat))'
  BY <1>t, <1>37, Values DEF ReadTransfer, KernelType
<1>38. ASSUME NEW s \in Slots, fast_func_read(s) PROVE (fds \in SUBSET ({"r", "w"} \X Slots \X Nat))'
  BY <1>t, <1>38, Values DEF fast_func_read, KernelType
<1>39. ASSUME NEW s \in Slots, ReadError(s) PROVE (fds \in SUBSET ({"r", "w"} \X Slots \X Nat))'
  BY <1>t, <1>39, Values DEF ReadError, KernelType
<1>40. ASSUME NEW s \in Slots, WriteTransfer(s) PROVE (fds \in SUBSET ({"r", "w"} \X Slots \X Nat))'
  BY <1>t, <1>40, Values DEF WriteTransfer, KernelType
<1>41. ASSUME NEW s \in Slots, fast_func_write(s) PROVE (fds \in SUBSET ({"r", "w"} \X Slots \X Nat))'
  BY <1>t, <1>41, Values DEF fast_func_write, KernelType
<1>42. ASSUME NEW s \in Slots, WriteError(s) PROVE (fds \in SUBSET ({"r", "w"} \X Slots \X Nat))'
  BY <1>t, <1>42, Values DEF WriteError, KernelType
<1>43. CASE Terminated
  BY <1>t, <1>43 DEF Terminated, KernelType
<1>q. QED
  BY <1>1, <1>2, <1>3, <1>4, <1>5, <1>6, <1>7, <1>8, <1>9, <1>10, <1>11, <1>12,
     <1>13, <1>14, <1>15, <1>16, <1>17, <1>18, <1>19, <1>20, <1>21, <1>22, <1>23,
     <1>24, <1>25, <1>26, <1>27, <1>28, <1>29, <1>30, <1>31, <1>32, <1>33, <1>34,
     <1>35, <1>36, <1>37, <1>38, <1>39, <1>40, <1>41, <1>42, <1>43
  DEF Next, CopyThread, Walk, OpenSection, ReadEndSection, WriteEndSection, Leaving,
      AioThread

\* Buffers hold units.
LEMMA BuffersStep ==
  ASSUME IInv, Next
  PROVE  (mem \in [Slots -> [lo : Seq(Unit), hi : Seq(Unit)]])'
<1> USE DEF vars, walkVars, queueVars, slotVars, fragVars, aioVars, kernVars, flagVars,
            walkUnchanged, GoTo, Leave, CallProcess, copyUnchanged
<1>t. KernelType /\ QueueType /\ << >> \in Seq(Unit)
  BY DEF IInv, TypeOK
<1>1. CASE AddFlush
  BY <1>t, <1>1, Values DEF AddFlush, KernelType
<1>2. CASE AddPiece
  BY <1>t, <1>2, Values DEF AddPiece, KernelType
<1>3. CASE AddEmpty
  BY <1>t, <1>3, Values DEF AddEmpty, CountFile, KernelType
<1>4. CASE AddFile
  BY <1>t, <1>4, Values DEF AddFile, KernelType
<1>5. CASE AddFails
  BY <1>t, <1>5, Values DEF AddFails, KernelType
<1>6. CASE EndWalk
  BY <1>t, <1>6, Values DEF EndWalk, KernelType
<1>7. CASE LoopExit
  BY <1>t, <1>7, Values DEF LoopExit, KernelType
<1>8. CASE LoopSkip
  BY <1>t, <1>8, Values DEF LoopSkip, KernelType
<1>9. CASE OpenReadFails
  BY <1>t, <1>9, Values DEF OpenReadFails, NotOpened, ResetCounters, KernelType
<1>10. CASE OpenWriteFails
  BY <1>t, <1>10, Values DEF OpenWriteFails, NotOpened, ResetCounters, KernelType
<1>11. CASE OpenFile
  BY <1>t, <1>11, Values DEF OpenFile, OpenBoth, OpenedTwo, ResetCounters, KernelType
<1>12. CASE OpenFileAioFails
  BY <1>t, <1>12, Values
    DEF OpenFileAioFails, OpenBoth, OpenedTwo, ResetCounters, KernelType
<1>13. CASE ReadEndSkip
  BY <1>t, <1>13, Values DEF ReadEndSkip, KernelType
<1>14. CASE ReadEndFails
  BY <1>t, <1>14, Values DEF ReadEndFails, KernelType
<1>15. CASE SingleWrite
  <2>1. IssueWrite BY <1>15 DEF SingleWrite
  <2>2. cur_r \in Slots BY <2>1, ReadEndSlot DEF IssueWrite
  <2>3. QED BY <1>t, <2>1, <2>2, BufferTypes
<1>16. CASE ReadAhead
  <2>1. IssueWrite BY <1>16 DEF ReadAhead
  <2>2. cur_r \in Slots BY <2>1, ReadEndSlot DEF IssueWrite
  <2>3. QED BY <1>t, <2>1, <2>2, BufferTypes
<1>17. CASE LastRead
  <2>1. IssueWrite BY <1>17 DEF LastRead
  <2>2. cur_r \in Slots BY <2>1, ReadEndSlot DEF IssueWrite
  <2>3. QED BY <1>t, <2>1, <2>2, BufferTypes
<1>18. CASE JoinMissing
  <2>1. IssueWrite BY <1>18 DEF JoinMissing, JoinStep
  <2>2. cur_r \in Slots BY <2>1, ReadEndSlot DEF IssueWrite
  <2>3. QED BY <1>t, <2>1, <2>2, BufferTypes
<1>19. CASE JoinNext
  <2>1. IssueWrite BY <1>19 DEF JoinNext, JoinStep
  <2>2. cur_r \in Slots BY <2>1, ReadEndSlot DEF IssueWrite
  <2>3. QED BY <1>t, <2>1, <2>2, BufferTypes
<1>20. CASE JoinOpenFails
  <2>1. IssueWrite BY <1>20 DEF JoinOpenFails, JoinStep
  <2>2. cur_r \in Slots BY <2>1, ReadEndSlot DEF IssueWrite
  <2>3. QED BY <1>t, <2>1, <2>2, BufferTypes
<1>21. CASE JoinCloseFails
  <2>1. IssueWrite BY <1>21 DEF JoinCloseFails, JoinStep
  <2>2. cur_r \in Slots BY <2>1, ReadEndSlot DEF IssueWrite
  <2>3. QED BY <1>t, <2>1, <2>2, BufferTypes
<1>22. CASE JoinSetFl
  BY <1>t, <1>22, Values DEF JoinSetFl, KernelType
<1>23. CASE WriteEndSkip
  BY <1>t, <1>23, Values DEF WriteEndSkip, KernelType
<1>24. CASE WriteEndError
  BY <1>t, <1>24, Values DEF WriteEndError, WriteEnd, KernelType
<1>25. CASE FinishFile
  BY <1>t, <1>25, Values DEF FinishFile, WriteEnd, CountFile, KernelType
<1>26. CASE FinishCloseFails
  BY <1>t, <1>26, Values DEF FinishCloseFails, WriteEnd, KernelType
<1>27. CASE SplitFile
  BY <1>t, <1>27, Values DEF SplitFile, SplitStep, NextFrag, WriteEnd, KernelType
<1>28. CASE SplitCloseFails
  BY <1>t, <1>28, Values DEF SplitCloseFails, SplitStep, WriteEnd, KernelType
<1>29. CASE SplitOpenFails
  BY <1>t, <1>29, Values DEF SplitOpenFails, SplitStep, NextFrag, WriteEnd, KernelType
<1>30. CASE WriteOn
  BY <1>t, <1>30, Values DEF WriteOn, WriteEnd, KernelType
<1>31. CASE Display
  BY <1>t, <1>31, Values DEF Display, KernelType
<1>32. CASE UserAbort
  BY <1>t, <1>32, Values DEF UserAbort, KernelType
<1>33. CASE Cleanup
  BY <1>t, <1>33, Values DEF Cleanup, KernelType
<1>34. CASE ReturnToAdd
  BY <1>t, <1>34, Values DEF ReturnToAdd, KernelType
<1>35. CASE ReturnFailed
  BY <1>t, <1>35, Values DEF ReturnFailed, KernelType
<1>36. CASE Finish
  BY <1>t, <1>36, Values DEF Finish, KernelType
<1>37. ASSUME NEW s \in Slots, ReadTransfer(s) PROVE (mem \in [Slots -> [lo : Seq(Unit), hi : Seq(Unit)]])'
  BY <1>t, <1>37, BufferTypes
<1>38. ASSUME NEW s \in Slots, fast_func_read(s) PROVE (mem \in [Slots -> [lo : Seq(Unit), hi : Seq(Unit)]])'
  BY <1>t, <1>38, Values DEF fast_func_read, KernelType
<1>39. ASSUME NEW s \in Slots, ReadError(s) PROVE (mem \in [Slots -> [lo : Seq(Unit), hi : Seq(Unit)]])'
  BY <1>t, <1>39, Values DEF ReadError, KernelType
<1>40. ASSUME NEW s \in Slots, WriteTransfer(s) PROVE (mem \in [Slots -> [lo : Seq(Unit), hi : Seq(Unit)]])'
  BY <1>t, <1>40, Values DEF WriteTransfer, KernelType
<1>41. ASSUME NEW s \in Slots, fast_func_write(s) PROVE (mem \in [Slots -> [lo : Seq(Unit), hi : Seq(Unit)]])'
  BY <1>t, <1>41, Values DEF fast_func_write, KernelType
<1>42. ASSUME NEW s \in Slots, WriteError(s) PROVE (mem \in [Slots -> [lo : Seq(Unit), hi : Seq(Unit)]])'
  BY <1>t, <1>42, Values DEF WriteError, KernelType
<1>43. CASE Terminated
  BY <1>t, <1>43 DEF Terminated, KernelType
<1>q. QED
  BY <1>1, <1>2, <1>3, <1>4, <1>5, <1>6, <1>7, <1>8, <1>9, <1>10, <1>11, <1>12,
     <1>13, <1>14, <1>15, <1>16, <1>17, <1>18, <1>19, <1>20, <1>21, <1>22, <1>23,
     <1>24, <1>25, <1>26, <1>27, <1>28, <1>29, <1>30, <1>31, <1>32, <1>33, <1>34,
     <1>35, <1>36, <1>37, <1>38, <1>39, <1>40, <1>41, <1>42, <1>43
  DEF Next, CopyThread, Walk, OpenSection, ReadEndSection, WriteEndSection, Leaving,
      AioThread

\* The destination holds fragments of units.
LEMMA DestinationStep ==
  ASSUME IInv, Next
  PROVE  (disk \in [DOMAIN job -> Seq(Seq(Unit))])'
<1> USE DEF vars, walkVars, queueVars, slotVars, fragVars, aioVars, kernVars, flagVars,
            walkUnchanged, GoTo, Leave, CallProcess, copyUnchanged
<1>t. KernelType /\ QueueType
  BY DEF IInv, TypeOK
<1>1. CASE AddFlush
  BY <1>t, <1>1, Values DEF AddFlush, KernelType
<1>2. CASE AddPiece
  BY <1>t, <1>2, Values DEF AddPiece, KernelType
<1>3. CASE AddEmpty
  BY <1>t, <1>3, Values, TruncateDisk DEF AddEmpty, CountFile, KernelType
<1>4. CASE AddFile
  BY <1>t, <1>4, Values DEF AddFile, KernelType
<1>5. CASE AddFails
  BY <1>t, <1>5, Values DEF AddFails, KernelType
<1>6. CASE EndWalk
  BY <1>t, <1>6, Values DEF EndWalk, KernelType
<1>7. CASE LoopExit
  BY <1>t, <1>7, Values DEF LoopExit, KernelType
<1>8. CASE LoopSkip
  BY <1>t, <1>8, Values DEF LoopSkip, KernelType
<1>9. CASE OpenReadFails
  BY <1>t, <1>9, Values DEF OpenReadFails, NotOpened, ResetCounters, KernelType
<1>10. CASE OpenWriteFails
  BY <1>t, <1>10, Values DEF OpenWriteFails, NotOpened, ResetCounters, KernelType
<1>11. CASE OpenFile
  <2>1. OutFrag(cur_r) \in Nat
    BY <1>t, OpenSlot, SlotTypes, Values, <1>11
      DEF OpenFile, OpenBoth, OpenedTwo, ResetCounters, KernelType
  <2>2. QED
    BY <1>t, <1>11, <2>1, TruncateDisk
      DEF OpenFile, OpenBoth, OpenedTwo, ResetCounters, KernelType
<1>12. CASE OpenFileAioFails
  <2>1. OutFrag(cur_r) \in Nat
    BY <1>t, OpenSlot, SlotTypes, Values, <1>12
      DEF OpenFileAioFails, OpenBoth, OpenedTwo, ResetCounters, KernelType
  <2>2. QED
    BY <1>t, <1>12, <2>1, TruncateDisk
      DEF OpenFileAioFails, OpenBoth, OpenedTwo, ResetCounters, KernelType
<1>13. CASE ReadEndSkip
  BY <1>t, <1>13, Values DEF ReadEndSkip, KernelType
<1>14. CASE ReadEndFails
  BY <1>t, <1>14, Values DEF ReadEndFails, KernelType
<1>15. CASE SingleWrite
  BY <1>t, <1>15, Values DEF SingleWrite, IssueWrite, NoMoreReads, NextSlot, KernelType
<1>16. CASE ReadAhead
  BY <1>t, <1>16, Values DEF ReadAhead, IssueWrite, IssueRead, KernelType
<1>17. CASE LastRead
  BY <1>t, <1>17, Values DEF LastRead, IssueWrite, NoMoreReads, NextSlot, KernelType
<1>18. CASE JoinMissing
  BY <1>t, <1>18, Values
    DEF JoinMissing, JoinStep, IssueWrite, NoMoreReads, NextSlot, KernelType
<1>19. CASE JoinNext
  BY <1>t, <1>19, Values DEF JoinNext, JoinStep, IssueWrite, IssueRead, KernelType
<1>20. CASE JoinOpenFails
  BY <1>t, <1>20, Values DEF JoinOpenFails, JoinStep, IssueWrite, KernelType
<1>21. CASE JoinCloseFails
  BY <1>t, <1>21, Values DEF JoinCloseFails, JoinStep, IssueWrite, KernelType
<1>22. CASE JoinSetFl
  BY <1>t, <1>22, Values DEF JoinSetFl, KernelType
<1>23. CASE WriteEndSkip
  BY <1>t, <1>23, Values DEF WriteEndSkip, KernelType
<1>24. CASE WriteEndError
  BY <1>t, <1>24, Values DEF WriteEndError, WriteEnd, KernelType
<1>25. CASE FinishFile
  BY <1>t, <1>25, Values DEF FinishFile, WriteEnd, CountFile, KernelType
<1>26. CASE FinishCloseFails
  BY <1>t, <1>26, Values DEF FinishCloseFails, WriteEnd, KernelType
<1>27. CASE SplitFile
  <2>1. number_frag[cur_w] + 1 \in Nat
    BY <1>t, WriteEndSlot, SlotTypes, Values, <1>27
      DEF SplitFile, SplitStep, NextFrag, WriteEnd, KernelType
  <2>2. QED
    BY <1>t, <1>27, <2>1, TruncateDisk
      DEF SplitFile, SplitStep, NextFrag, WriteEnd, KernelType
<1>28. CASE SplitCloseFails
  BY <1>t, <1>28, Values DEF SplitCloseFails, SplitStep, WriteEnd, KernelType
<1>29. CASE SplitOpenFails
  BY <1>t, <1>29, Values DEF SplitOpenFails, SplitStep, NextFrag, WriteEnd, KernelType
<1>30. CASE WriteOn
  BY <1>t, <1>30, Values DEF WriteOn, WriteEnd, KernelType
<1>31. CASE Display
  BY <1>t, <1>31, Values DEF Display, KernelType
<1>32. CASE UserAbort
  BY <1>t, <1>32, Values DEF UserAbort, KernelType
<1>33. CASE Cleanup
  BY <1>t, <1>33, Values DEF Cleanup, KernelType
<1>34. CASE ReturnToAdd
  BY <1>t, <1>34, Values DEF ReturnToAdd, KernelType
<1>35. CASE ReturnFailed
  BY <1>t, <1>35, Values DEF ReturnFailed, KernelType
<1>36. CASE Finish
  BY <1>t, <1>36, Values DEF Finish, KernelType
<1>37. ASSUME NEW s \in Slots, ReadTransfer(s) PROVE (disk \in [DOMAIN job -> Seq(Seq(Unit))])'
  BY <1>t, <1>37, Values DEF ReadTransfer, KernelType
<1>38. ASSUME NEW s \in Slots, fast_func_read(s) PROVE (disk \in [DOMAIN job -> Seq(Seq(Unit))])'
  BY <1>t, <1>38, Values DEF fast_func_read, KernelType
<1>39. ASSUME NEW s \in Slots, ReadError(s) PROVE (disk \in [DOMAIN job -> Seq(Seq(Unit))])'
  BY <1>t, <1>39, Values DEF ReadError, KernelType
<1>40. ASSUME NEW s \in Slots, WriteTransfer(s) PROVE (disk \in [DOMAIN job -> Seq(Seq(Unit))])'
  <2>1. t_write[s].size \in Int
    BY <1>t, SlotTypes
  <2>2. QED BY <1>t, <1>40, <2>1, SentType DEF WriteTransfer, KernelType
<1>41. ASSUME NEW s \in Slots, fast_func_write(s) PROVE (disk \in [DOMAIN job -> Seq(Seq(Unit))])'
  BY <1>t, <1>41, Values DEF fast_func_write, KernelType
<1>42. ASSUME NEW s \in Slots, WriteError(s) PROVE (disk \in [DOMAIN job -> Seq(Seq(Unit))])'
  <2>1. PICK n \in 0 .. t_write[s].size - 1 : disk' = Sent(s, n)
    BY <1>42 DEF WriteError
  <2>2. n \in Int
    BY <1>t, SlotTypes
  <2>3. QED BY <1>t, <1>42, <2>1, <2>2, SentType DEF WriteError, KernelType
<1>43. CASE Terminated
  BY <1>t, <1>43 DEF Terminated, KernelType
<1>q. QED
  BY <1>1, <1>2, <1>3, <1>4, <1>5, <1>6, <1>7, <1>8, <1>9, <1>10, <1>11, <1>12,
     <1>13, <1>14, <1>15, <1>16, <1>17, <1>18, <1>19, <1>20, <1>21, <1>22, <1>23,
     <1>24, <1>25, <1>26, <1>27, <1>28, <1>29, <1>30, <1>31, <1>32, <1>33, <1>34,
     <1>35, <1>36, <1>37, <1>38, <1>39, <1>40, <1>41, <1>42, <1>43
  DEF Next, CopyThread, Walk, OpenSection, ReadEndSection, WriteEndSection, Leaving,
      AioThread

\* An entry is cut short by fast_copy_add or at the end of a fragment, and stays so.
LEMMA MissedStep ==
  ASSUME IInv, Next
  PROVE  /\ missed' \subseteq DOMAIN job' /\ missed \subseteq missed'
         /\ missed' # missed => AddFile \/ JoinMissing
<1> USE DEF vars, walkVars, queueVars, slotVars, walkUnchanged, GoTo, CallProcess, copyUnchanged
<1>t. missed \subseteq DOMAIN job
  BY DEF IInv, TypeOK
<1>1. CASE AddFile
  <2>1. next \in DOMAIN job /\ job' = job /\ (missed' = missed \/ missed' = missed \cup {next})
    BY <1>1 DEF AddFile
  <2>2. QED BY <1>1, <1>t, <2>1
<1>2. CASE JoinMissing
  <2>1. cur_r \in Slots
    BY <1>2, ReadEndSlot DEF JoinMissing, JoinStep, IssueWrite
  <2>2. file[cur_r].ent \in DOMAIN job
    BY <2>1, SlotTypes DEF IInv, TypeOK
  <2>3. job' = job /\ (missed' = missed \/ missed' = missed \cup {file[cur_r].ent})
    BY <1>2 DEF JoinMissing, JoinStep, IssueWrite
  <2>4. QED BY <1>2, <1>t, <2>2, <2>3
<1>3. CASE ~AddFile /\ ~JoinMissing
  <2>1. CASE Walk
    BY <1>3, <1>t, <2>1 DEF Walk, AddFlush, AddPiece, AddEmpty, AddFails, EndWalk
  <2>2. CASE OpenSection
    BY <1>3, <1>t, <2>2
      DEF OpenSection, LoopExit, LoopSkip, OpenReadFails, OpenWriteFails, NotOpened, OpenFile,
          OpenFileAioFails, OpenBoth
  <2>3. CASE ReadEndSection
    BY <1>3, <1>t, <2>3
      DEF ReadEndSection, ReadEndSkip, ReadEndFails, SingleWrite, ReadAhead, LastRead, JoinNext,
          JoinOpenFails, JoinCloseFails, JoinSetFl, JoinStep, IssueWrite, IssueRead
  <2>4. CASE WriteEndSection
    BY <1>3, <1>t, <2>4
      DEF WriteEndSection, WriteEndSkip, WriteEndError, FinishFile, FinishCloseFails, SplitFile,
          SplitCloseFails, SplitOpenFails, SplitStep, WriteOn, WriteEnd
  <2>5. CASE Leaving
    BY <1>3, <1>t, <2>5
      DEF Leaving, Display, UserAbort, Cleanup, ReturnToAdd, ReturnFailed, Finish
  <2>6. CASE AioThread
    BY <1>3, <1>t, <2>6
      DEF AioThread, ReadTransfer, fast_func_read, ReadError, WriteTransfer, fast_func_write,
          WriteError
  <2>7. CASE Terminated
    BY <1>3, <1>t, <2>7 DEF Terminated
  <2>8. QED BY <2>1, <2>2, <2>3, <2>4, <2>5, <2>6, <2>7 DEF Next, CopyThread
<1>4. QED BY <1>1, <1>2, <1>3

\* Every step keeps all the types.
LEMMA TypeStep ==
  ASSUME IInv, Next
  PROVE  TypeOK'
<1>1. QueueType'
  BY FileTypeStep, CountsStep, RequestsStep DEF QueueType
<1>2. KernelType'
  BY RequestStateStep, FdsStep, BuffersStep, DestinationStep DEF KernelType
<1>3. QED BY <1>1, <1>2, ControlTypeStep, EngineTypeStep, MissedStep DEF TypeOK

-----------------------------------------------------------------------------
(* The parts of the inductive invariant. *)

\* Only the slot being written is busy, and the flags follow its requests.
LEMMA SlotInvStep ==
  ASSUME IInv, Next
  PROVE  SlotInv'
<1> USE DEF vars, walkVars, queueVars, slotVars, fragVars, aioVars, kernVars, flagVars,
            walkUnchanged, GoTo, Leave, CallProcess, copyUnchanged
<1>i. SlotInv /\ RestInv /\ LoopInv /\ TypeOK
  BY DEF IInv
<1>k. QueueType /\ KernelType /\ EngineType
  BY <1>i DEF TypeOK
<1>t. /\ SlotInv /\ RestInv /\ LoopInv /\ TypeOK
      /\ t_read \in [Slots -> AioType] /\ t_write \in [Slots -> AioType]
      /\ aio_r \in [Slots -> {"idle", "issued", "moved"}]
      /\ aio_w \in [Slots -> {"idle", "issued", "moved"}]
      /\ cur_w \in Nat /\ cur_r \in Nat /\ fast_num_files \in Nat
  BY <1>i, <1>k DEF QueueType, KernelType, EngineType
<1>1. CASE AddFlush
  BY <1>t, <1>1 DEF AddFlush, SlotInv, Quiet, AioType, Aio, RestInv
<1>2. CASE AddPiece
  BY <1>t, <1>2, Values DEF AddPiece, SlotInv, Quiet, AioType, Aio
<1>3. CASE AddEmpty
  BY <1>t, <1>3, Values DEF AddEmpty, CountFile, SlotInv, Quiet, AioType, Aio
<1>4. CASE AddFile
  BY <1>t, <1>4, Values DEF AddFile, SlotInv, Quiet, AioType, Aio
<1>5. CASE AddFails
  BY <1>t, <1>5 DEF AddFails, SlotInv, Quiet, AioType, Aio, RestInv
<1>6. CASE EndWalk
  BY <1>t, <1>6 DEF EndWalk, SlotInv, Quiet, AioType, Aio, RestInv
<1>7. CASE LoopExit
  BY <1>t, <1>7, Values DEF LoopExit, SlotInv, Quiet, AioType, Aio
<1>8. CASE LoopSkip
  BY <1>t, <1>8, Values DEF LoopSkip, SlotInv, Quiet, AioType, Aio
<1>9. CASE OpenReadFails
  BY <1>t, <1>9, Values, OpenSlot
    DEF OpenReadFails, NotOpened, ResetCounters, SlotInv, Quiet, AioType, Aio
<1>10. CASE OpenWriteFails
  BY <1>t, <1>10, Values, OpenSlot
    DEF OpenWriteFails, NotOpened, ResetCounters, SlotInv, Quiet, AioType, Aio
<1>11. CASE OpenFile
  BY <1>t, <1>11, OpenSlot, OpenFds
    DEF OpenFile, OpenBoth, OpenedTwo, ResetCounters, SlotInv, Quiet, AioType, Aio
<1>12. CASE OpenFileAioFails
  BY <1>t, <1>12, OpenSlot, OpenFds
    DEF OpenFileAioFails, OpenBoth, OpenedTwo, ResetCounters, SlotInv, Quiet, AioType,
        Aio
<1>13. CASE ReadEndSkip
  BY <1>t, <1>13, Values DEF ReadEndSkip, SlotInv, Quiet, AioType, Aio
<1>14. CASE ReadEndFails
  BY <1>t, <1>14, Values, ReadEndSlot DEF ReadEndFails, SlotInv, Quiet, AioType, Aio
<1>15. CASE SingleWrite
  BY <1>t, <1>15, Values, ReadEndSlot
    DEF SingleWrite, IssueWrite, NoMoreReads, NextSlot, SlotInv, Quiet, AioType, Aio
<1>16. CASE ReadAhead
  BY <1>t, <1>16, Values, ReadEndSlot
    DEF ReadAhead, IssueWrite, IssueRead, SlotInv, Quiet, AioType, Aio
<1>17. CASE LastRead
  BY <1>t, <1>17, Values, ReadEndSlot
    DEF LastRead, IssueWrite, NoMoreReads, NextSlot, SlotInv, Quiet, AioType, Aio
<1>18. CASE JoinMissing
  BY <1>t, <1>18, Values, ReadEndSlot
    DEF JoinMissing, JoinStep, IssueWrite, NoMoreReads, NextSlot, SlotInv, Quiet,
        AioType, Aio
<1>19. CASE JoinNext
  <2>1. number_frag[cur_r] + 1 \in Nat
    BY ReadEndSlot, SlotTypes, Values, <1>19
      DEF JoinNext, JoinStep, IssueWrite, IInv, TypeOK
  <2>2. QED
    BY <1>t, <1>19, <2>1, ReadEndSlot
      DEF JoinNext, JoinStep, IssueWrite, IssueRead, SlotInv, Quiet, AioType, Aio
<1>20. CASE JoinOpenFails
  BY <1>t, <1>20, Values, ReadEndSlot
    DEF JoinOpenFails, JoinStep, IssueWrite, SlotInv, Quiet, AioType, Aio
<1>21. CASE JoinCloseFails
  BY <1>t, <1>21, Values, ReadEndSlot
    DEF JoinCloseFails, JoinStep, IssueWrite, SlotInv, Quiet, AioType, Aio
<1>22. CASE JoinSetFl
  BY <1>t, <1>22, Values DEF JoinSetFl, SlotInv, Quiet, AioType, Aio
<1>23. CASE WriteEndSkip
  BY <1>t, <1>23, Values DEF WriteEndSkip, SlotInv, Quiet, AioType, Aio
<1>24. CASE WriteEndError
  BY <1>t, <1>24, Values, WriteEndSlot
    DEF WriteEndError, WriteEnd, SlotInv, Quiet, AioType, Aio
<1>25. CASE FinishFile
  BY <1>t, <1>25, WriteEndSlot
    DEF FinishFile, WriteEnd, CountFile, SlotInv, Quiet, AioType, Aio, FileComplete
<1>26. CASE FinishCloseFails
  BY <1>t, <1>26, WriteEndSlot
    DEF FinishCloseFails, WriteEnd, SlotInv, Quiet, AioType, Aio, FileComplete
<1>27. CASE SplitFile
  BY <1>t, <1>27, Values, WriteEndSlot
    DEF SplitFile, SplitStep, NextFrag, WriteEnd, SlotInv, Quiet, AioType, Aio
<1>28. CASE SplitCloseFails
  BY <1>t, <1>28, Values, WriteEndSlot
    DEF SplitCloseFails, SplitStep, WriteEnd, SlotInv, Quiet, AioType, Aio
<1>29. CASE SplitOpenFails
  BY <1>t, <1>29, Values, WriteEndSlot
    DEF SplitOpenFails, SplitStep, NextFrag, WriteEnd, SlotInv, Quiet, AioType, Aio
<1>30. CASE WriteOn
  BY <1>t, <1>30, Values, WriteEndSlot DEF WriteOn, WriteEnd, SlotInv, Quiet, AioType, Aio
<1>31. CASE Display
  BY <1>t, <1>31, Values DEF Display, SlotInv, Quiet, AioType, Aio
<1>32. CASE UserAbort
  BY <1>t, <1>32, Values DEF UserAbort, SlotInv, Quiet, AioType, Aio
<1>33. CASE Cleanup
  BY <1>t, <1>33, CleanupQuiet DEF SlotInv, Quiet
<1>34. CASE ReturnToAdd
  BY <1>t, <1>34, Values DEF ReturnToAdd, SlotInv, Quiet, AioType, Aio
<1>35. CASE ReturnFailed
  BY <1>t, <1>35 DEF ReturnFailed, SlotInv, Quiet, AioType, Aio, RestInv
<1>36. CASE Finish
  BY <1>t, <1>36, Values DEF Finish, SlotInv, Quiet, AioType, Aio
<1>37. ASSUME NEW s \in Slots, ReadTransfer(s) PROVE SlotInv'
  BY <1>t, <1>37, Values DEF ReadTransfer, SlotInv, Quiet, AioType, Aio
<1>38. ASSUME NEW s \in Slots, fast_func_read(s) PROVE SlotInv'
  BY <1>t, <1>38, Values DEF fast_func_read, SlotInv, Quiet, AioType, Aio
<1>39. ASSUME NEW s \in Slots, ReadError(s) PROVE SlotInv'
  BY <1>t, <1>39, Values DEF ReadError, SlotInv, Quiet, AioType, Aio
<1>40. ASSUME NEW s \in Slots, WriteTransfer(s) PROVE SlotInv'
  BY <1>t, <1>40, Values DEF WriteTransfer, SlotInv, Quiet, AioType, Aio
<1>41. ASSUME NEW s \in Slots, fast_func_write(s) PROVE SlotInv'
  BY <1>t, <1>41, Values DEF fast_func_write, SlotInv, Quiet, AioType, Aio
<1>42. ASSUME NEW s \in Slots, WriteError(s) PROVE SlotInv'
  BY <1>t, <1>42, Values DEF WriteError, SlotInv, Quiet, AioType, Aio
<1>43. CASE Terminated
  BY <1>t, <1>43 DEF Terminated, SlotInv, Quiet, AioType, Aio
<1>q. QED
  BY <1>1, <1>2, <1>3, <1>4, <1>5, <1>6, <1>7, <1>8, <1>9, <1>10, <1>11, <1>12,
     <1>13, <1>14, <1>15, <1>16, <1>17, <1>18, <1>19, <1>20, <1>21, <1>22, <1>23,
     <1>24, <1>25, <1>26, <1>27, <1>28, <1>29, <1>30, <1>31, <1>32, <1>33, <1>34,
     <1>35, <1>36, <1>37, <1>38, <1>39, <1>40, <1>41, <1>42, <1>43
  DEF Next, CopyThread, Walk, OpenSection, ReadEndSection, WriteEndSection, Leaving,
      AioThread

\* Outside fast_copy_process nothing is busy; an abort leaves its sections.
LEMMA RestInvStep ==
  ASSUME IInv, Next
  PROVE  RestInv'
<1> USE DEF vars, walkVars, queueVars, slotVars, fragVars, aioVars, kernVars, flagVars,
            walkUnchanged, GoTo, Leave, CallProcess, copyUnchanged
<1>c. Cardinality(fds) \in Nat
  BY HeldFds DEF IInv, TypeOK
<1>i. FdInv /\ SlotInv /\ RestInv /\ LoopInv /\ TypeOK
  BY DEF IInv
<1>k. QueueType /\ KernelType /\ EngineType
  BY <1>i DEF TypeOK
<1>t. /\ FdInv /\ SlotInv /\ RestInv /\ LoopInv /\ TypeOK
      /\ t_read \in [Slots -> AioType] /\ t_write \in [Slots -> AioType]
      /\ aio_r \in [Slots -> {"idle", "issued", "moved"}]
      /\ aio_w \in [Slots -> {"idle", "issued", "moved"}]
      /\ cur_w \in Nat /\ cur_r \in Nat /\ fast_num_files \in Nat
      /\ files_opened \in Int /\ Cardinality(fds) \in Nat
  BY <1>c, <1>i, <1>k DEF QueueType, KernelType, EngineType
<1>1. CASE AddFlush
  BY <1>t, <1>1, Values DEF AddFlush, RestInv, Quiet, AioType, Aio
<1>2. CASE AddPiece
  BY <1>t, <1>2, Values DEF AddPiece, RestInv, Quiet, AioType, Aio
<1>3. CASE AddEmpty
  BY <1>t, <1>3, Values DEF AddEmpty, CountFile, RestInv, Quiet, AioType, Aio
<1>4. CASE AddFile
  BY <1>t, <1>4, Values DEF AddFile, RestInv, Quiet, AioType, Aio
<1>5. CASE AddFails
  BY <1>t, <1>5, Values DEF AddFails, RestInv, Quiet, AioType, Aio
<1>6. CASE EndWalk
  BY <1>t, <1>6, Values DEF EndWalk, RestInv, Quiet, AioType, Aio
<1>7. CASE LoopExit
  BY <1>t, <1>7 DEF LoopExit, RestInv, Quiet, AioType, Aio, Running
<1>8. CASE LoopSkip
  BY <1>t, <1>8, Values DEF LoopSkip, RestInv, Quiet, AioType, Aio
<1>9. CASE OpenReadFails
  BY <1>t, <1>9, Values, OpenSlot
    DEF OpenReadFails, NotOpened, ResetCounters, RestInv, Quiet, AioType, Aio
<1>10. CASE OpenWriteFails
  BY <1>t, <1>10, Values, OpenSlot
    DEF OpenWriteFails, NotOpened, ResetCounters, RestInv, Quiet, AioType, Aio
<1>11. CASE OpenFile
  <2>1. ~abort_copy'
    BY <1>t, <1>11, StillRunning DEF OpenFile, JoinStep
  <2>2. pc' \notin {"walk", "return", "done"} /\ (pc' = "cleanup" => error' # 0)
    BY <1>11 DEF OpenFile, Leave
  <2>3. QED BY <2>1, <2>2 DEF RestInv
<1>12. CASE OpenFileAioFails
  BY <1>t, <1>12, Values, OpenSlot
    DEF OpenFileAioFails, OpenBoth, OpenedTwo, ResetCounters, RestInv, Quiet, AioType,
        Aio
<1>13. CASE ReadEndSkip
  BY <1>t, <1>13, Values DEF ReadEndSkip, RestInv, Quiet, AioType, Aio
<1>14. CASE ReadEndFails
  BY <1>t, <1>14, Values, ReadEndSlot DEF ReadEndFails, RestInv, Quiet, AioType, Aio
<1>15. CASE SingleWrite
  <2>1. ~abort_copy'
    BY <1>t, <1>15, StillRunning DEF SingleWrite, JoinStep
  <2>2. pc' \notin {"walk", "return", "done"} /\ (pc' = "cleanup" => error' # 0)
    BY <1>15 DEF SingleWrite, NoMoreReads, NextSlot
  <2>3. QED BY <2>1, <2>2 DEF RestInv
<1>16. CASE ReadAhead
  <2>1. ~abort_copy'
    BY <1>t, <1>16, StillRunning DEF ReadAhead, JoinStep
  <2>2. pc' \notin {"walk", "return", "done"} /\ (pc' = "cleanup" => error' # 0)
    BY <1>16 DEF ReadAhead, IssueRead, Leave
  <2>3. QED BY <2>1, <2>2 DEF RestInv
<1>17. CASE LastRead
  <2>1. ~abort_copy'
    BY <1>t, <1>17, StillRunning DEF LastRead, JoinStep
  <2>2. pc' \notin {"walk", "return", "done"} /\ (pc' = "cleanup" => error' # 0)
    BY <1>17 DEF LastRead, NoMoreReads, NextSlot
  <2>3. QED BY <2>1, <2>2 DEF RestInv
<1>18. CASE JoinMissing
  <2>1. ~abort_copy'
    BY <1>t, <1>18, StillRunning DEF JoinMissing, JoinStep
  <2>2. pc' \notin {"walk", "return", "done"} /\ (pc' = "cleanup" => error' # 0)
    BY <1>18 DEF JoinMissing, NoMoreReads, NextSlot
  <2>3. QED BY <2>1, <2>2 DEF RestInv
<1>19. CASE JoinNext
  <2>1. ~abort_copy'
    BY <1>t, <1>19, StillRunning DEF JoinNext, JoinStep
  <2>2. pc' \notin {"walk", "return", "done"} /\ (pc' = "cleanup" => error' # 0)
    BY <1>19 DEF JoinNext, IssueRead, Leave
  <2>3. QED BY <2>1, <2>2 DEF RestInv
<1>20. CASE JoinOpenFails
  BY <1>t, <1>20, Values, ReadEndSlot
    DEF JoinOpenFails, JoinStep, IssueWrite, RestInv, Quiet, AioType, Aio
<1>21. CASE JoinCloseFails
  BY <1>t, <1>21, Values, ReadEndSlot
    DEF JoinCloseFails, JoinStep, IssueWrite, RestInv, Quiet, AioType, Aio
<1>22. CASE JoinSetFl
  BY <1>t, <1>22, Values DEF JoinSetFl, RestInv, Quiet, AioType, Aio
<1>23. CASE WriteEndSkip
  BY <1>t, <1>23, Values DEF WriteEndSkip, RestInv, Quiet, AioType, Aio
<1>24. CASE WriteEndError
  BY <1>t, <1>24, Values, WriteEndSlot
    DEF WriteEndError, WriteEnd, RestInv, Quiet, AioType, Aio
<1>25. CASE FinishFile
  BY <1>t, <1>25, Values, WriteEndSlot
    DEF FinishFile, WriteEnd, CountFile, RestInv, Quiet, AioType, Aio
<1>26. CASE FinishCloseFails
  BY <1>t, <1>26, Values, WriteEndSlot
    DEF FinishCloseFails, WriteEnd, RestInv, Quiet, AioType, Aio
<1>27. CASE SplitFile
  BY <1>t, <1>27, Values, WriteEndSlot
    DEF SplitFile, SplitStep, NextFrag, WriteEnd, RestInv, Quiet, AioType, Aio
<1>28. CASE SplitCloseFails
  BY <1>t, <1>28, Values, WriteEndSlot
    DEF SplitCloseFails, SplitStep, WriteEnd, RestInv, Quiet, AioType, Aio
<1>29. CASE SplitOpenFails
  BY <1>t, <1>29, Values, WriteEndSlot
    DEF SplitOpenFails, SplitStep, NextFrag, WriteEnd, RestInv, Quiet, AioType, Aio
<1>30. CASE WriteOn
  BY <1>t, <1>30, Values, WriteEndSlot DEF WriteOn, WriteEnd, RestInv, Quiet, AioType, Aio
<1>31. CASE Display
  BY <1>t, <1>31, Values DEF Display, RestInv, Quiet, AioType, Aio
<1>32. CASE UserAbort
  BY <1>t, <1>32, Values DEF UserAbort, RestInv, Quiet, AioType, Aio
<1>33. CASE Cleanup
  BY <1>t, <1>33, CleanupQuiet DEF Cleanup, RestInv, Quiet
<1>34. CASE ReturnToAdd
  BY <1>t, <1>34, Values DEF ReturnToAdd, RestInv, Quiet, AioType, Aio
<1>35. CASE ReturnFailed
  BY <1>t, <1>35, Values DEF ReturnFailed, RestInv, Quiet, AioType, Aio
<1>36. CASE Finish
  BY <1>t, <1>36, Values DEF Finish, RestInv, Quiet, AioType, Aio
<1>37. ASSUME NEW s \in Slots, ReadTransfer(s) PROVE RestInv'
  BY <1>t, <1>37, Values DEF ReadTransfer, RestInv, Quiet, AioType, Aio
<1>38. ASSUME NEW s \in Slots, fast_func_read(s) PROVE RestInv'
  BY <1>t, <1>38, Values DEF fast_func_read, RestInv, Quiet, AioType, Aio
<1>39. ASSUME NEW s \in Slots, ReadError(s) PROVE RestInv'
  BY <1>t, <1>39, Values DEF ReadError, RestInv, Quiet, AioType, Aio
<1>40. ASSUME NEW s \in Slots, WriteTransfer(s) PROVE RestInv'
  BY <1>t, <1>40, Values DEF WriteTransfer, RestInv, Quiet, AioType, Aio
<1>41. ASSUME NEW s \in Slots, fast_func_write(s) PROVE RestInv'
  BY <1>t, <1>41, Values DEF fast_func_write, RestInv, Quiet, AioType, Aio
<1>42. ASSUME NEW s \in Slots, WriteError(s) PROVE RestInv'
  BY <1>t, <1>42, Values DEF WriteError, RestInv, Quiet, AioType, Aio
<1>43. CASE Terminated
  BY <1>t, <1>43 DEF Terminated, RestInv, Quiet, AioType, Aio
<1>q. QED
  BY <1>1, <1>2, <1>3, <1>4, <1>5, <1>6, <1>7, <1>8, <1>9, <1>10, <1>11, <1>12,
     <1>13, <1>14, <1>15, <1>16, <1>17, <1>18, <1>19, <1>20, <1>21, <1>22, <1>23,
     <1>24, <1>25, <1>26, <1>27, <1>28, <1>29, <1>30, <1>31, <1>32, <1>33, <1>34,
     <1>35, <1>36, <1>37, <1>38, <1>39, <1>40, <1>41, <1>42, <1>43
  DEF Next, CopyThread, Walk, OpenSection, ReadEndSection, WriteEndSection, Leaving,
      AioThread

\* Queued files keep something to copy.
LEMMA LenInvStep ==
  ASSUME IInv, Next
  PROVE  LenInv'
<1> USE DEF vars, walkVars, queueVars, slotVars, fragVars, aioVars, kernVars, flagVars,
            walkUnchanged, GoTo, Leave, CallProcess, copyUnchanged
<1>t. /\ LenInv /\ RestInv
      /\ file \in [Slots -> FileType] /\ len \in [Slots -> Int]
      /\ fast_num_files \in Nat /\ FILESIZE_MAX > 0 /\ FILESIZE_MAX \in Int
      /\ \A s \in Slots : s \in Nat
  BY SizesAssumption DEF IInv, TypeOK, QueueType, KernelType, EngineType, Slots
<1>1. CASE AddFlush
  BY <1>t, <1>1, Values DEF AddFlush, LenInv, FileType
<1>2. CASE AddPiece
  BY <1>t, <1>2, Values DEF AddPiece, LenInv, FileType
<1>3. CASE AddEmpty
  BY <1>t, <1>3, Values DEF AddEmpty, CountFile, LenInv, FileType
<1>4. CASE AddFile
  BY <1>t, <1>4, Values DEF AddFile, LenInv, FileType
<1>5. CASE AddFails
  BY <1>t, <1>5, Values DEF AddFails, LenInv, FileType
<1>6. CASE EndWalk
  BY <1>t, <1>6, Values DEF EndWalk, LenInv, FileType
<1>7. CASE LoopExit
  BY <1>t, <1>7, Values DEF LoopExit, LenInv, FileType
<1>8. CASE LoopSkip
  BY <1>t, <1>8, Values DEF LoopSkip, LenInv, FileType
<1>9. CASE OpenReadFails
  BY <1>t, <1>9, Values DEF OpenReadFails, NotOpened, ResetCounters, LenInv, FileType
<1>10. CASE OpenWriteFails
  BY <1>t, <1>10, Values DEF OpenWriteFails, NotOpened, ResetCounters, LenInv, FileType
<1>11. CASE OpenFile
  BY <1>t, <1>11, Values DEF OpenFile, OpenBoth, OpenedTwo, ResetCounters, LenInv, FileType
<1>12. CASE OpenFileAioFails
  BY <1>t, <1>12, Values
    DEF OpenFileAioFails, OpenBoth, OpenedTwo, ResetCounters, LenInv, FileType
<1>13. CASE ReadEndSkip
  BY <1>t, <1>13, Values DEF ReadEndSkip, LenInv, FileType
<1>14. CASE ReadEndFails
  BY <1>t, <1>14, Values DEF ReadEndFails, LenInv, FileType
<1>15. CASE SingleWrite
  BY <1>t, <1>15, Values
    DEF SingleWrite, IssueWrite, NoMoreReads, NextSlot, LenInv, FileType
<1>16. CASE ReadAhead
  BY <1>t, <1>16, Values DEF ReadAhead, IssueWrite, IssueRead, LenInv, FileType
<1>17. CASE LastRead
  BY <1>t, <1>17, Values DEF LastRead, IssueWrite, NoMoreReads, NextSlot, LenInv, FileType
<1>18. CASE JoinMissing
  BY <1>t, <1>18, Values
    DEF JoinMissing, JoinStep, IssueWrite, NoMoreReads, NextSlot, LenInv, FileType
<1>19. CASE JoinNext
  <2>1. cur_r \in Slots /\ job[file[cur_r].ent].frags[number_frag[cur_r] + 2] \in Nat
    BY ReadEndSlot, NextFragment, <1>19 DEF JoinNext, JoinStep, IssueWrite
  <2>2. \A s \in Slots : len'[s] >= len[s] /\ len'[s] \in Int
    BY <1>t, <1>19, <2>1 DEF JoinNext
  <2>3. QED BY <1>t, <1>19, <2>2 DEF JoinNext, JoinStep, IssueWrite, LenInv, FileType
<1>20. CASE JoinOpenFails
  BY <1>t, <1>20, Values DEF JoinOpenFails, JoinStep, IssueWrite, LenInv, FileType
<1>21. CASE JoinCloseFails
  BY <1>t, <1>21, Values DEF JoinCloseFails, JoinStep, IssueWrite, LenInv, FileType
<1>22. CASE JoinSetFl
  BY <1>t, <1>22, Values DEF JoinSetFl, LenInv, FileType
<1>23. CASE WriteEndSkip
  BY <1>t, <1>23, Values DEF WriteEndSkip, LenInv, FileType
<1>24. CASE WriteEndError
  BY <1>t, <1>24, Values DEF WriteEndError, WriteEnd, LenInv, FileType
<1>25. CASE FinishFile
  BY <1>t, <1>25, Values DEF FinishFile, WriteEnd, CountFile, LenInv, FileType
<1>26. CASE FinishCloseFails
  BY <1>t, <1>26, Values DEF FinishCloseFails, WriteEnd, LenInv, FileType
<1>27. CASE SplitFile
  BY <1>t, <1>27, Values DEF SplitFile, SplitStep, NextFrag, WriteEnd, LenInv, FileType
<1>28. CASE SplitCloseFails
  BY <1>t, <1>28, Values DEF SplitCloseFails, SplitStep, WriteEnd, LenInv, FileType
<1>29. CASE SplitOpenFails
  BY <1>t, <1>29, Values DEF SplitOpenFails, SplitStep, NextFrag, WriteEnd, LenInv, FileType
<1>30. CASE WriteOn
  BY <1>t, <1>30, Values DEF WriteOn, WriteEnd, LenInv, FileType
<1>31. CASE Display
  BY <1>t, <1>31, Values DEF Display, LenInv, FileType
<1>32. CASE UserAbort
  BY <1>t, <1>32, Values DEF UserAbort, LenInv, FileType
<1>33. CASE Cleanup
  BY <1>t, <1>33, Values DEF Cleanup, LenInv, FileType
<1>34. CASE ReturnToAdd
  BY <1>t, <1>34, Values DEF ReturnToAdd, LenInv, FileType
<1>35. CASE ReturnFailed
  BY <1>t, <1>35, Values DEF ReturnFailed, LenInv, FileType
<1>36. CASE Finish
  BY <1>t, <1>36, Values DEF Finish, LenInv, FileType
<1>37. ASSUME NEW s \in Slots, ReadTransfer(s) PROVE LenInv'
  BY <1>t, <1>37, Values DEF ReadTransfer, LenInv, FileType
<1>38. ASSUME NEW s \in Slots, fast_func_read(s) PROVE LenInv'
  BY <1>t, <1>38, Values DEF fast_func_read, LenInv, FileType
<1>39. ASSUME NEW s \in Slots, ReadError(s) PROVE LenInv'
  BY <1>t, <1>39, Values DEF ReadError, LenInv, FileType
<1>40. ASSUME NEW s \in Slots, WriteTransfer(s) PROVE LenInv'
  BY <1>t, <1>40, Values DEF WriteTransfer, LenInv, FileType
<1>41. ASSUME NEW s \in Slots, fast_func_write(s) PROVE LenInv'
  BY <1>t, <1>41, Values DEF fast_func_write, LenInv, FileType
<1>42. ASSUME NEW s \in Slots, WriteError(s) PROVE LenInv'
  BY <1>t, <1>42, Values DEF WriteError, LenInv, FileType
<1>43. CASE Terminated
  BY <1>t, <1>43 DEF Terminated, LenInv, FileType
<1>q. QED
  BY <1>1, <1>2, <1>3, <1>4, <1>5, <1>6, <1>7, <1>8, <1>9, <1>10, <1>11, <1>12,
     <1>13, <1>14, <1>15, <1>16, <1>17, <1>18, <1>19, <1>20, <1>21, <1>22, <1>23,
     <1>24, <1>25, <1>26, <1>27, <1>28, <1>29, <1>30, <1>31, <1>32, <1>33, <1>34,
     <1>35, <1>36, <1>37, <1>38, <1>39, <1>40, <1>41, <1>42, <1>43
  DEF Next, CopyThread, Walk, OpenSection, ReadEndSection, WriteEndSection, Leaving,
      AioThread

\* The slots not yet opened keep fl = 1.
LEMMA QueueInvStep ==
  ASSUME IInv, Next
  PROVE  QueueInv'
<1> USE DEF vars, walkVars, queueVars, slotVars, fragVars, aioVars, kernVars, flagVars,
            walkUnchanged, GoTo, Leave, CallProcess, copyUnchanged
<1>t. /\ QueueInv /\ RestInv /\ SlotInv /\ LoopInv
      /\ t_read \in [Slots -> AioType] /\ t_write \in [Slots -> AioType]
      /\ fl \in [Slots -> 0 .. 5]
      /\ aio_r \in [Slots -> {"idle", "issued", "moved"}]
      /\ aio_w \in [Slots -> {"idle", "issued", "moved"}]
      /\ cur_w \in Nat /\ cur_r \in Nat /\ fast_num_files \in Nat
      /\ \A s \in Slots : s \in Nat
  BY SizesAssumption DEF IInv, TypeOK, QueueType, KernelType, EngineType, Slots
<1>1. CASE AddFlush
  BY <1>t, <1>1, Values DEF AddFlush, QueueInv, LoopPcs, Quiet, AioType, Aio
<1>2. CASE AddPiece
  BY <1>t, <1>2, Values DEF AddPiece, QueueInv, LoopPcs, Quiet, AioType, Aio
<1>3. CASE AddEmpty
  BY <1>t, <1>3, Values DEF AddEmpty, CountFile, QueueInv, LoopPcs, Quiet, AioType, Aio
<1>4. CASE AddFile
  BY <1>t, <1>4, Values DEF AddFile, QueueInv, LoopPcs, Quiet, AioType, Aio
<1>5. CASE AddFails
  BY <1>t, <1>5, Values DEF AddFails, QueueInv, LoopPcs, Quiet, AioType, Aio
<1>6. CASE EndWalk
  BY <1>t, <1>6, Values DEF EndWalk, QueueInv, LoopPcs, Quiet, AioType, Aio
<1>7. CASE LoopExit
  BY <1>t, <1>7, Values DEF LoopExit, QueueInv, LoopPcs, Quiet, AioType, Aio
<1>8. CASE LoopSkip
  BY <1>t, <1>8, Values DEF LoopSkip, QueueInv, LoopPcs, Quiet, AioType, Aio
<1>9. CASE OpenReadFails
  BY <1>t, <1>9, Values, OpenSlot
    DEF OpenReadFails, NotOpened, ResetCounters, QueueInv, LoopPcs, Quiet, AioType,
        Aio
<1>10. CASE OpenWriteFails
  BY <1>t, <1>10, Values, OpenSlot
    DEF OpenWriteFails, NotOpened, ResetCounters, QueueInv, LoopPcs, Quiet, AioType,
        Aio
<1>11. CASE OpenFile
  BY <1>t, <1>11, OpenSlot, OpenFds
    DEF OpenFile, OpenBoth, OpenedTwo, ResetCounters, QueueInv, LoopPcs, Quiet,
        AioType, Aio, FdInv, OpenGuard
<1>12. CASE OpenFileAioFails
  BY <1>t, <1>12, Values, OpenSlot
    DEF OpenFileAioFails, OpenBoth, OpenedTwo, ResetCounters, QueueInv, LoopPcs,
        Quiet, AioType, Aio
<1>13. CASE ReadEndSkip
  BY <1>t, <1>13, Values DEF ReadEndSkip, QueueInv, LoopPcs, Quiet, AioType, Aio
<1>14. CASE ReadEndFails
  BY <1>t, <1>14, Values, ReadEndSlot
    DEF ReadEndFails, QueueInv, LoopPcs, Quiet, AioType, Aio
<1>15. CASE SingleWrite
  <2>1. IssueWrite BY <1>15 DEF SingleWrite
  <2>2. QED
    BY <1>t, <1>15, <2>1, IssuedWrite
      DEF SingleWrite, NoMoreReads, NextSlot, IssueRead, QueueInv, LoopPcs, Quiet
<1>16. CASE ReadAhead
  <2>1. IssueWrite BY <1>16 DEF ReadAhead
  <2>2. \A s \in Slots : t_read'[s].fd = t_read[s].fd
    BY <1>t, <1>16 DEF ReadAhead, Aio
  <2>3. QED
    BY <1>t, <1>16, <2>1, <2>2, IssuedWrite
      DEF ReadAhead, IssueRead, QueueInv, LoopPcs, Quiet
<1>17. CASE LastRead
  <2>1. IssueWrite BY <1>17 DEF LastRead
  <2>2. QED
    BY <1>t, <1>17, <2>1, IssuedWrite
      DEF LastRead, NoMoreReads, NextSlot, IssueRead, QueueInv, LoopPcs, Quiet
<1>18. CASE JoinMissing
  <2>1. IssueWrite BY <1>18 DEF JoinStep, JoinMissing
  <2>2. QED
    BY <1>t, <1>18, <2>1, IssuedWrite
      DEF JoinMissing, JoinStep, NoMoreReads, NextSlot, IssueRead, QueueInv,
          LoopPcs, Quiet
<1>19. CASE JoinNext
  <2>1. IssueWrite BY <1>19 DEF JoinStep, JoinNext
  <2>2. cur_r \in Slots /\ number_frag[cur_r] + 1 \in Nat
    BY <2>1, IssuedWrite, SlotTypes, Values DEF IInv, TypeOK
  <2>3. /\ t_read'[cur_r].fd # -1
        /\ \A s \in Slots : s # cur_r => t_read'[s].fd = t_read[s].fd
    BY <1>t, <1>19, <2>2 DEF JoinNext, Aio
  <2>4. QED
    BY <1>t, <1>19, <2>1, <2>2, <2>3, IssuedWrite
      DEF JoinNext, JoinStep, IssueRead, QueueInv, LoopPcs, Quiet
<1>20. CASE JoinOpenFails
  BY <1>t, <1>20, Values, ReadEndSlot
    DEF JoinOpenFails, JoinStep, IssueWrite, QueueInv, LoopPcs, Quiet, AioType, Aio
<1>21. CASE JoinCloseFails
  BY <1>t, <1>21, Values, ReadEndSlot
    DEF JoinCloseFails, JoinStep, IssueWrite, QueueInv, LoopPcs, Quiet, AioType, Aio
<1>22. CASE JoinSetFl
  <2>1. ~Quiet(cur_r)
    BY <1>t, <1>22 DEF JoinSetFl, LoopInv, IdleInv, ReadingInv, LoopPcs, SlotInv
  <2>2. QED BY <1>t, <1>22, <2>1 DEF JoinSetFl, QueueInv, LoopPcs, Quiet, AioType, Aio
<1>23. CASE WriteEndSkip
  BY <1>t, <1>23, Values DEF WriteEndSkip, QueueInv, LoopPcs, Quiet, AioType, Aio
<1>24. CASE WriteEndError
  BY <1>t, <1>24, Values, WriteEndSlot
    DEF WriteEndError, WriteEnd, QueueInv, LoopPcs, Quiet, AioType, Aio
<1>25. CASE FinishFile
  BY <1>t, <1>25, WriteEndSlot
    DEF FinishFile, WriteEnd, CountFile, QueueInv, LoopPcs, Quiet, AioType, Aio,
        FileComplete, SlotInv
<1>26. CASE FinishCloseFails
  BY <1>t, <1>26, Values, WriteEndSlot
    DEF FinishCloseFails, WriteEnd, QueueInv, LoopPcs, Quiet, AioType, Aio
<1>27. CASE SplitFile
  BY <1>t, <1>27, Values, WriteEndSlot
    DEF SplitFile, SplitStep, NextFrag, WriteEnd, QueueInv, LoopPcs, Quiet, AioType,
        Aio
<1>28. CASE SplitCloseFails
  BY <1>t, <1>28, Values, WriteEndSlot
    DEF SplitCloseFails, SplitStep, WriteEnd, QueueInv, LoopPcs, Quiet, AioType, Aio
<1>29. CASE SplitOpenFails
  BY <1>t, <1>29, Values, WriteEndSlot
    DEF SplitOpenFails, SplitStep, NextFrag, WriteEnd, QueueInv, LoopPcs, Quiet,
        AioType, Aio
<1>30. CASE WriteOn
  BY <1>t, <1>30, Values, WriteEndSlot
    DEF WriteOn, WriteEnd, QueueInv, LoopPcs, Quiet, AioType, Aio
<1>31. CASE Display
  BY <1>t, <1>31, Values DEF Display, QueueInv, LoopPcs, Quiet, AioType, Aio
<1>32. CASE UserAbort
  BY <1>t, <1>32, Values DEF UserAbort, QueueInv, LoopPcs, Quiet, AioType, Aio
<1>33. CASE Cleanup
  BY <1>t, <1>33, Values DEF Cleanup, QueueInv, LoopPcs, Quiet, AioType, Aio
<1>34. CASE ReturnToAdd
  BY <1>t, <1>34 DEF ReturnToAdd, QueueInv, LoopPcs, Quiet, AioType, Aio, RestInv
<1>35. CASE ReturnFailed
  BY <1>t, <1>35 DEF ReturnFailed, QueueInv, LoopPcs, Quiet, AioType, Aio, RestInv
<1>36. CASE Finish
  BY <1>t, <1>36, Values DEF Finish, QueueInv, LoopPcs, Quiet, AioType, Aio
<1>37. ASSUME NEW s \in Slots, ReadTransfer(s) PROVE QueueInv'
  BY <1>t, <1>37, Values DEF ReadTransfer, QueueInv, LoopPcs, Quiet, AioType, Aio
<1>38. ASSUME NEW s \in Slots, fast_func_read(s) PROVE QueueInv'
  BY <1>t, <1>38
    DEF fast_func_read, QueueInv, LoopPcs, Quiet, AioType, Aio, RestInv, LoopInv,
        BusyInv
<1>39. ASSUME NEW s \in Slots, ReadError(s) PROVE QueueInv'
  BY <1>t, <1>39
    DEF ReadError, QueueInv, LoopPcs, Quiet, AioType, Aio, RestInv, LoopInv, BusyInv
<1>40. ASSUME NEW s \in Slots, WriteTransfer(s) PROVE QueueInv'
  BY <1>t, <1>40, Values DEF WriteTransfer, QueueInv, LoopPcs, Quiet, AioType, Aio
<1>41. ASSUME NEW s \in Slots, fast_func_write(s) PROVE QueueInv'
  BY <1>t, <1>41
    DEF fast_func_write, QueueInv, LoopPcs, Quiet, AioType, Aio, RestInv, LoopInv,
        BusyInv
<1>42. ASSUME NEW s \in Slots, WriteError(s) PROVE QueueInv'
  BY <1>t, <1>42
    DEF WriteError, QueueInv, LoopPcs, Quiet, AioType, Aio, RestInv, LoopInv, BusyInv
<1>43. CASE Terminated
  BY <1>t, <1>43 DEF Terminated, QueueInv, LoopPcs, Quiet, AioType, Aio
<1>q. QED
  BY <1>1, <1>2, <1>3, <1>4, <1>5, <1>6, <1>7, <1>8, <1>9, <1>10, <1>11, <1>12,
     <1>13, <1>14, <1>15, <1>16, <1>17, <1>18, <1>19, <1>20, <1>21, <1>22, <1>23,
     <1>24, <1>25, <1>26, <1>27, <1>28, <1>29, <1>30, <1>31, <1>32, <1>33, <1>34,
     <1>35, <1>36, <1>37, <1>38, <1>39, <1>40, <1>41, <1>42, <1>43
  DEF Next, CopyThread, Walk, OpenSection, ReadEndSection, WriteEndSection, Leaving,
      AioThread

\* A busy slot keeps both its descriptors while the loop runs.
LEMMA BusyInvStep ==
  ASSUME IInv, Next
  PROVE  BusyInv'
<1> USE DEF vars, walkVars, queueVars, slotVars, fragVars, aioVars, kernVars, flagVars,
            walkUnchanged, GoTo, Leave, CallProcess, copyUnchanged
<1>c. Cardinality(fds) \in Nat
  BY HeldFds DEF IInv, TypeOK
<1>i. FdInv /\ SlotInv /\ RestInv /\ LoopInv /\ BusyInv /\ IdleInv /\ ReadingInv /\ TypeOK
  BY DEF LoopInv, IInv
<1>k. QueueType /\ KernelType /\ EngineType
  BY <1>i DEF TypeOK
<1>t. /\ FdInv /\ SlotInv /\ RestInv /\ LoopInv /\ BusyInv /\ IdleInv /\ ReadingInv /\ TypeOK
      /\ t_read \in [Slots -> AioType] /\ t_write \in [Slots -> AioType]
      /\ aio_r \in [Slots -> {"idle", "issued", "moved"}]
      /\ aio_w \in [Slots -> {"idle", "issued", "moved"}]
      /\ cur_w \in Nat /\ cur_r \in Nat /\ fast_num_files \in Nat
      /\ files_opened \in Int /\ Cardinality(fds) \in Nat
  BY <1>c, <1>i, <1>k DEF QueueType, KernelType, EngineType
<1>1. CASE AddFlush
  BY <1>t, <1>1 DEF AddFlush, BusyInv, LoopPcs, Quiet, AioType, Aio, RestInv
<1>2. CASE AddPiece
  BY <1>t, <1>2, Values DEF AddPiece, BusyInv, LoopPcs, Quiet, AioType, Aio
<1>3. CASE AddEmpty
  BY <1>t, <1>3, Values DEF AddEmpty, CountFile, BusyInv, LoopPcs, Quiet, AioType, Aio
<1>4. CASE AddFile
  BY <1>t, <1>4, Values DEF AddFile, BusyInv, LoopPcs, Quiet, AioType, Aio
<1>5. CASE AddFails
  BY <1>t, <1>5 DEF AddFails, BusyInv, LoopPcs, Quiet, AioType, Aio, RestInv
<1>6. CASE EndWalk
  BY <1>t, <1>6 DEF EndWalk, BusyInv, LoopPcs, Quiet, AioType, Aio, RestInv
<1>7. CASE LoopExit
  BY <1>t, <1>7, Values DEF LoopExit, BusyInv, LoopPcs, Quiet, AioType, Aio
<1>8. CASE LoopSkip
  BY <1>t, <1>8, Values DEF LoopSkip, BusyInv, LoopPcs, Quiet, AioType, Aio
<1>9. CASE OpenReadFails
  BY <1>t, <1>9, Values, OpenSlot
    DEF OpenReadFails, NotOpened, ResetCounters, BusyInv, LoopPcs, Quiet, AioType, Aio
<1>10. CASE OpenWriteFails
  BY <1>t, <1>10, Values, OpenSlot
    DEF OpenWriteFails, NotOpened, ResetCounters, BusyInv, LoopPcs, Quiet, AioType,
        Aio
<1>11. CASE OpenFile
  BY <1>t, <1>11, OpenSlot, OpenFds
    DEF OpenFile, OpenBoth, OpenedTwo, ResetCounters, BusyInv, LoopPcs, Quiet,
        AioType, Aio, FdInv, OpenGuard
<1>12. CASE OpenFileAioFails
  BY <1>t, <1>12, Values, OpenSlot
    DEF OpenFileAioFails, OpenBoth, OpenedTwo, ResetCounters, BusyInv, LoopPcs, Quiet,
        AioType, Aio
<1>13. CASE ReadEndSkip
  BY <1>t, <1>13, Values DEF ReadEndSkip, BusyInv, LoopPcs, Quiet, AioType, Aio
<1>14. CASE ReadEndFails
  BY <1>t, <1>14, Values, ReadEndSlot
    DEF ReadEndFails, BusyInv, LoopPcs, Quiet, AioType, Aio
<1>15. CASE SingleWrite
  <2>1. IssueWrite BY <1>15 DEF SingleWrite
  <2>2. QED
    BY <1>t, <1>15, <2>1, IssuedWrite
      DEF SingleWrite, NoMoreReads, NextSlot, IssueRead, BusyInv, LoopPcs, Quiet
<1>16. CASE ReadAhead
  <2>1. IssueWrite BY <1>16 DEF ReadAhead
  <2>2. \A s \in Slots : t_read'[s].fd = t_read[s].fd
    BY <1>t, <1>16 DEF ReadAhead, Aio
  <2>3. QED
    BY <1>t, <1>16, <2>1, <2>2, IssuedWrite
      DEF ReadAhead, IssueRead, BusyInv, LoopPcs, Quiet
<1>17. CASE LastRead
  <2>1. IssueWrite BY <1>17 DEF LastRead
  <2>2. QED
    BY <1>t, <1>17, <2>1, IssuedWrite
      DEF LastRead, NoMoreReads, NextSlot, IssueRead, BusyInv, LoopPcs, Quiet
<1>18. CASE JoinMissing
  <2>1. IssueWrite BY <1>18 DEF JoinStep, JoinMissing
  <2>2. QED
    BY <1>t, <1>18, <2>1, IssuedWrite
      DEF JoinMissing, JoinStep, NoMoreReads, NextSlot, IssueRead, BusyInv, LoopPcs,
          Quiet
<1>19. CASE JoinNext
  <2>1. IssueWrite BY <1>19 DEF JoinStep, JoinNext
  <2>2. cur_r \in Slots /\ number_frag[cur_r] + 1 \in Nat
    BY <2>1, IssuedWrite, SlotTypes, Values DEF IInv, TypeOK
  <2>3. /\ t_read'[cur_r].fd # -1
        /\ \A s \in Slots : s # cur_r => t_read'[s].fd = t_read[s].fd
    BY <1>t, <1>19, <2>2 DEF JoinNext, Aio
  <2>4. QED
    BY <1>t, <1>19, <2>1, <2>2, <2>3, IssuedWrite
      DEF JoinNext, JoinStep, IssueRead, BusyInv, LoopPcs, Quiet
<1>20. CASE JoinOpenFails
  BY <1>t, <1>20, Values, ReadEndSlot
    DEF JoinOpenFails, JoinStep, IssueWrite, BusyInv, LoopPcs, Quiet, AioType, Aio
<1>21. CASE JoinCloseFails
  BY <1>t, <1>21, Values, ReadEndSlot
    DEF JoinCloseFails, JoinStep, IssueWrite, BusyInv, LoopPcs, Quiet, AioType, Aio
<1>22. CASE JoinSetFl
  BY <1>t, <1>22, Values DEF JoinSetFl, BusyInv, LoopPcs, Quiet, AioType, Aio
<1>23. CASE WriteEndSkip
  BY <1>t, <1>23, Values DEF WriteEndSkip, BusyInv, LoopPcs, Quiet, AioType, Aio
<1>24. CASE WriteEndError
  BY <1>t, <1>24, Values, WriteEndSlot
    DEF WriteEndError, WriteEnd, BusyInv, LoopPcs, Quiet, AioType, Aio
<1>25. CASE FinishFile
  BY <1>t, <1>25, WriteEndSlot
    DEF FinishFile, WriteEnd, CountFile, BusyInv, LoopPcs, Quiet, AioType, Aio,
        FileComplete, SlotInv
<1>26. CASE FinishCloseFails
  BY <1>t, <1>26, Values, WriteEndSlot
    DEF FinishCloseFails, WriteEnd, BusyInv, LoopPcs, Quiet, AioType, Aio
<1>27. CASE SplitFile
  <2>1. cur_w \in Slots /\ number_frag[cur_w] + 1 \in Nat /\ t_read[cur_w].fd # -1
    BY <1>27, WriteEndSlot, SlotTypes, Values
      DEF SplitFile, SplitStep, NextFrag, WriteEnd, BusyInv, LoopPcs, Quiet,
          AioType, Aio, IInv, TypeOK
  <2>2. QED
    BY <1>t, <1>27, <2>1, WriteEndSlot
      DEF SplitFile, SplitStep, NextFrag, WriteEnd, BusyInv, LoopPcs, Quiet,
          AioType, Aio
<1>28. CASE SplitCloseFails
  BY <1>t, <1>28, Values, WriteEndSlot
    DEF SplitCloseFails, SplitStep, WriteEnd, BusyInv, LoopPcs, Quiet, AioType, Aio
<1>29. CASE SplitOpenFails
  BY <1>t, <1>29, Values, WriteEndSlot
    DEF SplitOpenFails, SplitStep, NextFrag, WriteEnd, BusyInv, LoopPcs, Quiet,
        AioType, Aio
<1>30. CASE WriteOn
  BY <1>t, <1>30, Values, WriteEndSlot
    DEF WriteOn, WriteEnd, BusyInv, LoopPcs, Quiet, AioType, Aio
<1>31. CASE Display
  BY <1>t, <1>31, Values DEF Display, BusyInv, LoopPcs, Quiet, AioType, Aio
<1>32. CASE UserAbort
  BY <1>t, <1>32, Values DEF UserAbort, BusyInv, LoopPcs, Quiet, AioType, Aio
<1>33. CASE Cleanup
  BY <1>t, <1>33, Values DEF Cleanup, BusyInv, LoopPcs, Quiet, AioType, Aio
<1>34. CASE ReturnToAdd
  BY <1>t, <1>34, Values DEF ReturnToAdd, BusyInv, LoopPcs, Quiet, AioType, Aio
<1>35. CASE ReturnFailed
  BY <1>t, <1>35 DEF ReturnFailed, BusyInv, LoopPcs, Quiet, AioType, Aio, RestInv
<1>36. CASE Finish
  BY <1>t, <1>36, Values DEF Finish, BusyInv, LoopPcs, Quiet, AioType, Aio
<1>37. ASSUME NEW s \in Slots, ReadTransfer(s) PROVE BusyInv'
  BY <1>t, <1>37, Values DEF ReadTransfer, BusyInv, LoopPcs, Quiet, AioType, Aio
<1>38. ASSUME NEW s \in Slots, fast_func_read(s) PROVE BusyInv'
  BY <1>t, <1>38, Values DEF fast_func_read, BusyInv, LoopPcs, Quiet, AioType, Aio
<1>39. ASSUME NEW s \in Slots, ReadError(s) PROVE BusyInv'
  BY <1>t, <1>39, Values DEF ReadError, BusyInv, LoopPcs, Quiet, AioType, Aio
<1>40. ASSUME NEW s \in Slots, WriteTransfer(s) PROVE BusyInv'
  BY <1>t, <1>40, Values DEF WriteTransfer, BusyInv, LoopPcs, Quiet, AioType, Aio
<1>41. ASSUME NEW s \in Slots, fast_func_write(s) PROVE BusyInv'
  BY <1>t, <1>41, Values DEF fast_func_write, BusyInv, LoopPcs, Quiet, AioType, Aio
<1>42. ASSUME NEW s \in Slots, WriteError(s) PROVE BusyInv'
  BY <1>t, <1>42, Values DEF WriteError, BusyInv, LoopPcs, Quiet, AioType, Aio
<1>43. CASE Terminated
  BY <1>t, <1>43 DEF Terminated, BusyInv, LoopPcs, Quiet, AioType, Aio
<1>q. QED
  BY <1>1, <1>2, <1>3, <1>4, <1>5, <1>6, <1>7, <1>8, <1>9, <1>10, <1>11, <1>12,
     <1>13, <1>14, <1>15, <1>16, <1>17, <1>18, <1>19, <1>20, <1>21, <1>22, <1>23,
     <1>24, <1>25, <1>26, <1>27, <1>28, <1>29, <1>30, <1>31, <1>32, <1>33, <1>34,
     <1>35, <1>36, <1>37, <1>38, <1>39, <1>40, <1>41, <1>42, <1>43
  DEF Next, CopyThread, Walk, OpenSection, ReadEndSection, WriteEndSection, Leaving,
      AioThread

\* When no slot is busy, cur_r and cur_w agree and both flags are 0.
LEMMA IdleInvStep ==
  ASSUME IInv, Next
  PROVE  IdleInv'
<1> USE DEF vars, walkVars, queueVars, slotVars, fragVars, aioVars, kernVars, flagVars,
            walkUnchanged, GoTo, Leave, CallProcess, copyUnchanged
<1>c. Cardinality(fds) \in Nat
  BY HeldFds DEF IInv, TypeOK
<1>i. FdInv /\ SlotInv /\ RestInv /\ LoopInv /\ BusyInv /\ IdleInv /\ ReadingInv /\ TypeOK
  BY DEF LoopInv, IInv
<1>k. QueueType /\ KernelType /\ EngineType
  BY <1>i DEF TypeOK
<1>t. /\ FdInv /\ SlotInv /\ RestInv /\ LoopInv /\ BusyInv /\ IdleInv /\ ReadingInv /\ TypeOK
      /\ t_read \in [Slots -> AioType] /\ t_write \in [Slots -> AioType]
      /\ aio_r \in [Slots -> {"idle", "issued", "moved"}]
      /\ aio_w \in [Slots -> {"idle", "issued", "moved"}]
      /\ cur_w \in Nat /\ cur_r \in Nat /\ fast_num_files \in Nat
      /\ files_opened \in Int /\ Cardinality(fds) \in Nat
  BY <1>c, <1>i, <1>k DEF QueueType, KernelType, EngineType
<1>1. CASE AddFlush
  BY <1>t, <1>1 DEF AddFlush, IdleInv, LoopPcs, Quiet, AioType, Aio, RestInv
<1>2. CASE AddPiece
  BY <1>t, <1>2, Values DEF AddPiece, IdleInv, LoopPcs, Quiet, AioType, Aio
<1>3. CASE AddEmpty
  BY <1>t, <1>3, Values DEF AddEmpty, CountFile, IdleInv, LoopPcs, Quiet, AioType, Aio
<1>4. CASE AddFile
  BY <1>t, <1>4, Values DEF AddFile, IdleInv, LoopPcs, Quiet, AioType, Aio
<1>5. CASE AddFails
  BY <1>t, <1>5 DEF AddFails, IdleInv, LoopPcs, Quiet, AioType, Aio, RestInv
<1>6. CASE EndWalk
  BY <1>t, <1>6 DEF EndWalk, IdleInv, LoopPcs, Quiet, AioType, Aio, RestInv
<1>7. CASE LoopExit
  BY <1>t, <1>7, Values DEF LoopExit, IdleInv, LoopPcs, Quiet, AioType, Aio
<1>8. CASE LoopSkip
  BY <1>t, <1>8, Values DEF LoopSkip, IdleInv, LoopPcs, Quiet, AioType, Aio
<1>9. CASE OpenReadFails
  BY <1>t, <1>9, Values, OpenSlot
    DEF OpenReadFails, NotOpened, ResetCounters, IdleInv, LoopPcs, Quiet, AioType, Aio
<1>10. CASE OpenWriteFails
  BY <1>t, <1>10, Values, OpenSlot
    DEF OpenWriteFails, NotOpened, ResetCounters, IdleInv, LoopPcs, Quiet, AioType,
        Aio
<1>11. CASE OpenFile
  BY <1>t, <1>11, OpenSlot, OpenFds
    DEF OpenFile, OpenBoth, OpenedTwo, ResetCounters, IdleInv, LoopPcs, Quiet,
        AioType, Aio, FdInv, OpenGuard
<1>12. CASE OpenFileAioFails
  BY <1>t, <1>12, Values, OpenSlot
    DEF OpenFileAioFails, OpenBoth, OpenedTwo, ResetCounters, IdleInv, LoopPcs, Quiet,
        AioType, Aio
<1>13. CASE ReadEndSkip
  BY <1>t, <1>13, Values DEF ReadEndSkip, IdleInv, LoopPcs, Quiet, AioType, Aio
<1>14. CASE ReadEndFails
  BY <1>t, <1>14, Values, ReadEndSlot
    DEF ReadEndFails, IdleInv, LoopPcs, Quiet, AioType, Aio
<1>15. CASE SingleWrite
  BY <1>t, <1>15, Values, ReadEndSlot
    DEF SingleWrite, IssueWrite, NoMoreReads, NextSlot, IdleInv, LoopPcs, Quiet,
        AioType, Aio
<1>16. CASE ReadAhead
  BY <1>t, <1>16, Values, ReadEndSlot
    DEF ReadAhead, IssueWrite, IssueRead, IdleInv, LoopPcs, Quiet, AioType, Aio
<1>17. CASE LastRead
  BY <1>t, <1>17, Values, ReadEndSlot
    DEF LastRead, IssueWrite, NoMoreReads, NextSlot, IdleInv, LoopPcs, Quiet, AioType,
        Aio
<1>18. CASE JoinMissing
  BY <1>t, <1>18, Values, ReadEndSlot
    DEF JoinMissing, JoinStep, IssueWrite, NoMoreReads, NextSlot, IdleInv, LoopPcs,
        Quiet, AioType, Aio
<1>19. CASE JoinNext
  BY <1>t, <1>19, Values, ReadEndSlot
    DEF JoinNext, JoinStep, IssueWrite, IssueRead, IdleInv, LoopPcs, Quiet, AioType,
        Aio
<1>20. CASE JoinOpenFails
  BY <1>t, <1>20, Values, ReadEndSlot
    DEF JoinOpenFails, JoinStep, IssueWrite, IdleInv, LoopPcs, Quiet, AioType, Aio
<1>21. CASE JoinCloseFails
  BY <1>t, <1>21, Values, ReadEndSlot
    DEF JoinCloseFails, JoinStep, IssueWrite, IdleInv, LoopPcs, Quiet, AioType, Aio
<1>22. CASE JoinSetFl
  BY <1>t, <1>22, Values DEF JoinSetFl, IdleInv, LoopPcs, Quiet, AioType, Aio
<1>23. CASE WriteEndSkip
  BY <1>t, <1>23, Values DEF WriteEndSkip, IdleInv, LoopPcs, Quiet, AioType, Aio
<1>24. CASE WriteEndError
  BY <1>t, <1>24, Values, WriteEndSlot
    DEF WriteEndError, WriteEnd, IdleInv, LoopPcs, Quiet, AioType, Aio
<1>25. CASE FinishFile
  <2>1. cur_w \in Slots /\ t_read[cur_w].fd >= 0 /\ cur_r = cur_w + 1 /\ ~i_reading
    BY <1>t, <1>25, WriteEndSlot DEF FinishFile, FileComplete, AioType, FdType
  <2>2. fast_read' = 0 /\ fast_writing' = 0 /\ cur_w' = cur_r /\ cur_r' = cur_r /\ ~i_reading'
    BY <2>1, <1>25 DEF FinishFile, WriteEnd
  <2>3. QED BY <2>2 DEF IdleInv
<1>26. CASE FinishCloseFails
  BY <1>t, <1>26, Values, WriteEndSlot
    DEF FinishCloseFails, WriteEnd, IdleInv, LoopPcs, Quiet, AioType, Aio
<1>27. CASE SplitFile
  BY <1>t, <1>27, Values, WriteEndSlot
    DEF SplitFile, SplitStep, NextFrag, WriteEnd, IdleInv, LoopPcs, Quiet, AioType,
        Aio
<1>28. CASE SplitCloseFails
  BY <1>t, <1>28, Values, WriteEndSlot
    DEF SplitCloseFails, SplitStep, WriteEnd, IdleInv, LoopPcs, Quiet, AioType, Aio
<1>29. CASE SplitOpenFails
  BY <1>t, <1>29, Values, WriteEndSlot
    DEF SplitOpenFails, SplitStep, NextFrag, WriteEnd, IdleInv, LoopPcs, Quiet,
        AioType, Aio
<1>30. CASE WriteOn
  BY <1>t, <1>30, Values, WriteEndSlot
    DEF WriteOn, WriteEnd, IdleInv, LoopPcs, Quiet, AioType, Aio
<1>31. CASE Display
  BY <1>t, <1>31, Values DEF Display, IdleInv, LoopPcs, Quiet, AioType, Aio
<1>32. CASE UserAbort
  BY <1>t, <1>32, Values DEF UserAbort, IdleInv, LoopPcs, Quiet, AioType, Aio
<1>33. CASE Cleanup
  BY <1>t, <1>33, Values DEF Cleanup, IdleInv, LoopPcs, Quiet, AioType, Aio
<1>34. CASE ReturnToAdd
  BY <1>t, <1>34, Values DEF ReturnToAdd, IdleInv, LoopPcs, Quiet, AioType, Aio
<1>35. CASE ReturnFailed
  BY <1>t, <1>35 DEF ReturnFailed, IdleInv, LoopPcs, Quiet, AioType, Aio, RestInv
<1>36. CASE Finish
  BY <1>t, <1>36, Values DEF Finish, IdleInv, LoopPcs, Quiet, AioType, Aio
<1>37. ASSUME NEW s \in Slots, ReadTransfer(s) PROVE IdleInv'
  BY <1>t, <1>37, Values DEF ReadTransfer, IdleInv, LoopPcs, Quiet, AioType, Aio
<1>38. ASSUME NEW s \in Slots, fast_func_read(s) PROVE IdleInv'
  BY <1>t, <1>38 DEF fast_func_read, IdleInv, LoopPcs, Quiet, AioType, Aio, BusyInv
<1>39. ASSUME NEW s \in Slots, ReadError(s) PROVE IdleInv'
  BY <1>t, <1>39 DEF ReadError, IdleInv, LoopPcs, Quiet, AioType, Aio, BusyInv
<1>40. ASSUME NEW s \in Slots, WriteTransfer(s) PROVE IdleInv'
  BY <1>t, <1>40, Values DEF WriteTransfer, IdleInv, LoopPcs, Quiet, AioType, Aio
<1>41. ASSUME NEW s \in Slots, fast_func_write(s) PROVE IdleInv'
  BY <1>t, <1>41 DEF fast_func_write, IdleInv, LoopPcs, Quiet, AioType, Aio, BusyInv
<1>42. ASSUME NEW s \in Slots, WriteError(s) PROVE IdleInv'
  BY <1>t, <1>42 DEF WriteError, IdleInv, LoopPcs, Quiet, AioType, Aio, BusyInv
<1>43. CASE Terminated
  BY <1>t, <1>43 DEF Terminated, IdleInv, LoopPcs, Quiet, AioType, Aio
<1>q. QED
  BY <1>1, <1>2, <1>3, <1>4, <1>5, <1>6, <1>7, <1>8, <1>9, <1>10, <1>11, <1>12,
     <1>13, <1>14, <1>15, <1>16, <1>17, <1>18, <1>19, <1>20, <1>21, <1>22, <1>23,
     <1>24, <1>25, <1>26, <1>27, <1>28, <1>29, <1>30, <1>31, <1>32, <1>33, <1>34,
     <1>35, <1>36, <1>37, <1>38, <1>39, <1>40, <1>41, <1>42, <1>43
  DEF Next, CopyThread, Walk, OpenSection, ReadEndSection, WriteEndSection, Leaving,
      AioThread

\* While a file is read, both cursors stand on it.
LEMMA ReadingInvStep ==
  ASSUME IInv, Next
  PROVE  ReadingInv'
<1> USE DEF vars, walkVars, queueVars, slotVars, fragVars, aioVars, kernVars, flagVars,
            walkUnchanged, GoTo, Leave, CallProcess, copyUnchanged
<1>c. Cardinality(fds) \in Nat
  BY HeldFds DEF IInv, TypeOK
<1>i. FdInv /\ SlotInv /\ RestInv /\ LoopInv /\ BusyInv /\ IdleInv /\ ReadingInv /\ TypeOK
  BY DEF LoopInv, IInv
<1>k. QueueType /\ KernelType /\ EngineType
  BY <1>i DEF TypeOK
<1>t. /\ FdInv /\ SlotInv /\ RestInv /\ LoopInv /\ BusyInv /\ IdleInv /\ ReadingInv /\ TypeOK
      /\ t_read \in [Slots -> AioType] /\ t_write \in [Slots -> AioType]
      /\ aio_r \in [Slots -> {"idle", "issued", "moved"}]
      /\ aio_w \in [Slots -> {"idle", "issued", "moved"}]
      /\ cur_w \in Nat /\ cur_r \in Nat /\ fast_num_files \in Nat
      /\ files_opened \in Int /\ Cardinality(fds) \in Nat
  BY <1>c, <1>i, <1>k DEF QueueType, KernelType, EngineType
<1>1. CASE AddFlush
  BY <1>t, <1>1 DEF AddFlush, ReadingInv, LoopPcs, RestInv
<1>2. CASE AddPiece
  BY <1>t, <1>2, Values DEF AddPiece, ReadingInv, LoopPcs
<1>3. CASE AddEmpty
  BY <1>t, <1>3, Values DEF AddEmpty, CountFile, ReadingInv, LoopPcs
<1>4. CASE AddFile
  BY <1>t, <1>4, Values DEF AddFile, ReadingInv, LoopPcs
<1>5. CASE AddFails
  BY <1>t, <1>5 DEF AddFails, ReadingInv, LoopPcs, RestInv
<1>6. CASE EndWalk
  BY <1>t, <1>6 DEF EndWalk, ReadingInv, LoopPcs, RestInv
<1>7. CASE LoopExit
  BY <1>t, <1>7, Values DEF LoopExit, ReadingInv, LoopPcs
<1>8. CASE LoopSkip
  BY <1>t, <1>8, Values DEF LoopSkip, ReadingInv, LoopPcs
<1>9. CASE OpenReadFails
  BY <1>t, <1>9, Values, OpenSlot
    DEF OpenReadFails, NotOpened, ResetCounters, ReadingInv, LoopPcs
<1>10. CASE OpenWriteFails
  BY <1>t, <1>10, Values, OpenSlot
    DEF OpenWriteFails, NotOpened, ResetCounters, ReadingInv, LoopPcs
<1>11. CASE OpenFile
  BY <1>t, <1>11, Values, OpenSlot
    DEF OpenFile, OpenBoth, OpenedTwo, ResetCounters, ReadingInv, LoopPcs
<1>12. CASE OpenFileAioFails
  BY <1>t, <1>12, Values, OpenSlot
    DEF OpenFileAioFails, OpenBoth, OpenedTwo, ResetCounters, ReadingInv, LoopPcs
<1>13. CASE ReadEndSkip
  BY <1>t, <1>13, Values DEF ReadEndSkip, ReadingInv, LoopPcs
<1>14. CASE ReadEndFails
  BY <1>t, <1>14, Values, ReadEndSlot DEF ReadEndFails, ReadingInv, LoopPcs
<1>15. CASE SingleWrite
  BY <1>t, <1>15, Values, ReadEndSlot
    DEF SingleWrite, IssueWrite, NoMoreReads, NextSlot, ReadingInv, LoopPcs
<1>16. CASE ReadAhead
  BY <1>t, <1>16, Values, ReadEndSlot
    DEF ReadAhead, IssueWrite, IssueRead, ReadingInv, LoopPcs
<1>17. CASE LastRead
  BY <1>t, <1>17, Values, ReadEndSlot
    DEF LastRead, IssueWrite, NoMoreReads, NextSlot, ReadingInv, LoopPcs
<1>18. CASE JoinMissing
  BY <1>t, <1>18, Values, ReadEndSlot
    DEF JoinMissing, JoinStep, IssueWrite, NoMoreReads, NextSlot, ReadingInv, LoopPcs
<1>19. CASE JoinNext
  BY <1>t, <1>19, Values, ReadEndSlot
    DEF JoinNext, JoinStep, IssueWrite, IssueRead, ReadingInv, LoopPcs
<1>20. CASE JoinOpenFails
  BY <1>t, <1>20, Values, ReadEndSlot
    DEF JoinOpenFails, JoinStep, IssueWrite, ReadingInv, LoopPcs
<1>21. CASE JoinCloseFails
  BY <1>t, <1>21, Values, ReadEndSlot
    DEF JoinCloseFails, JoinStep, IssueWrite, ReadingInv, LoopPcs
<1>22. CASE JoinSetFl
  BY <1>t, <1>22, Values DEF JoinSetFl, ReadingInv, LoopPcs
<1>23. CASE WriteEndSkip
  BY <1>t, <1>23, Values DEF WriteEndSkip, ReadingInv, LoopPcs
<1>24. CASE WriteEndError
  BY <1>t, <1>24, Values, WriteEndSlot DEF WriteEndError, WriteEnd, ReadingInv, LoopPcs
<1>25. CASE FinishFile
  BY <1>t, <1>25, WriteEndSlot
    DEF FinishFile, WriteEnd, CountFile, ReadingInv, LoopPcs, FileComplete, SlotInv
<1>26. CASE FinishCloseFails
  BY <1>t, <1>26, Values, WriteEndSlot DEF FinishCloseFails, WriteEnd, ReadingInv, LoopPcs
<1>27. CASE SplitFile
  BY <1>t, <1>27, Values, WriteEndSlot
    DEF SplitFile, SplitStep, NextFrag, WriteEnd, ReadingInv, LoopPcs
<1>28. CASE SplitCloseFails
  BY <1>t, <1>28, Values, WriteEndSlot
    DEF SplitCloseFails, SplitStep, WriteEnd, ReadingInv, LoopPcs
<1>29. CASE SplitOpenFails
  BY <1>t, <1>29, Values, WriteEndSlot
    DEF SplitOpenFails, SplitStep, NextFrag, WriteEnd, ReadingInv, LoopPcs
<1>30. CASE WriteOn
  BY <1>t, <1>30, Values, WriteEndSlot DEF WriteOn, WriteEnd, ReadingInv, LoopPcs
<1>31. CASE Display
  BY <1>t, <1>31, Values DEF Display, ReadingInv, LoopPcs
<1>32. CASE UserAbort
  BY <1>t, <1>32, Values DEF UserAbort, ReadingInv, LoopPcs
<1>33. CASE Cleanup
  BY <1>t, <1>33, Values DEF Cleanup, ReadingInv, LoopPcs
<1>34. CASE ReturnToAdd
  BY <1>t, <1>34, Values DEF ReturnToAdd, ReadingInv, LoopPcs
<1>35. CASE ReturnFailed
  BY <1>t, <1>35 DEF ReturnFailed, ReadingInv, LoopPcs, RestInv
<1>36. CASE Finish
  BY <1>t, <1>36, Values DEF Finish, ReadingInv, LoopPcs
<1>37. ASSUME NEW s \in Slots, ReadTransfer(s) PROVE ReadingInv'
  BY <1>t, <1>37, Values DEF ReadTransfer, ReadingInv, LoopPcs
<1>38. ASSUME NEW s \in Slots, fast_func_read(s) PROVE ReadingInv'
  BY <1>t, <1>38, Values DEF fast_func_read, ReadingInv, LoopPcs
<1>39. ASSUME NEW s \in Slots, ReadError(s) PROVE ReadingInv'
  BY <1>t, <1>39, Values DEF ReadError, ReadingInv, LoopPcs
<1>40. ASSUME NEW s \in Slots, WriteTransfer(s) PROVE ReadingInv'
  BY <1>t, <1>40, Values DEF WriteTransfer, ReadingInv, LoopPcs
<1>41. ASSUME NEW s \in Slots, fast_func_write(s) PROVE ReadingInv'
  BY <1>t, <1>41, Values DEF fast_func_write, ReadingInv, LoopPcs
<1>42. ASSUME NEW s \in Slots, WriteError(s) PROVE ReadingInv'
  BY <1>t, <1>42, Values DEF WriteError, ReadingInv, LoopPcs
<1>43. CASE Terminated
  BY <1>t, <1>43 DEF Terminated, ReadingInv, LoopPcs
<1>q. QED
  BY <1>1, <1>2, <1>3, <1>4, <1>5, <1>6, <1>7, <1>8, <1>9, <1>10, <1>11, <1>12,
     <1>13, <1>14, <1>15, <1>16, <1>17, <1>18, <1>19, <1>20, <1>21, <1>22, <1>23,
     <1>24, <1>25, <1>26, <1>27, <1>28, <1>29, <1>30, <1>31, <1>32, <1>33, <1>34,
     <1>35, <1>36, <1>37, <1>38, <1>39, <1>40, <1>41, <1>42, <1>43
  DEF Next, CopyThread, Walk, OpenSection, ReadEndSection, WriteEndSection, Leaving,
      AioThread

\* The accounts of the descriptors, section by section.
LEMMA FdInvStep ==
  ASSUME IInv, Next
  PROVE  FdInv'
<1> USE DEF vars, walkVars, queueVars, slotVars, fragVars, aioVars, kernVars, flagVars,
            walkUnchanged, GoTo, Leave, CallProcess, copyUnchanged
<1>t. t_read \in [Slots -> AioType] /\ t_write \in [Slots -> AioType] /\ QueueType
  BY DEF IInv, TypeOK, QueueType
<1>1. CASE AddFlush
  BY <1>1, FdFrame, Values DEF AddFlush
<1>2. CASE AddPiece
  BY <1>2, FdFrame, Values DEF AddPiece
<1>3. CASE AddEmpty
  BY <1>3, FdFrame, Values DEF AddEmpty, CountFile
<1>4. CASE AddFile
  <2>1. \A s \in Slots : Quiet(s) BY <1>4 DEF AddFile, IInv, RestInv
  <2>2. \A s \in Slots : t_read'[s].fd = t_read[s].fd /\ t_write'[s].fd = t_write[s].fd
    BY <1>t, <1>4, <2>1 DEF AddFile, Quiet, AioType
  <2>3. QED BY <1>4, <2>2, FdFrame DEF AddFile
<1>5. CASE AddFails
  BY <1>5, FdFrame, Values DEF AddFails
<1>6. CASE EndWalk
  BY <1>6, FdFrame, Values DEF EndWalk
<1>7. CASE LoopExit
  BY <1>7, FdFrame, Values DEF LoopExit
<1>8. CASE LoopSkip
  BY <1>8, FdFrame, Values DEF LoopSkip
<1>9. CASE OpenReadFails
  <2>1. \A s \in Slots : Quiet(s)
    BY <1>9, OpenSlot DEF OpenReadFails
  <2>2. \A s \in Slots : t_read'[s].fd = t_read[s].fd /\ t_write'[s].fd = t_write[s].fd
    BY <1>t, <1>9, <2>1 DEF OpenReadFails, NotOpened, Quiet, AioType
  <2>3. QED BY <1>9, <2>2, FdFrame DEF OpenReadFails, OpenGuard, NotOpened
<1>10. CASE OpenWriteFails
  <2>1. \A s \in Slots : Quiet(s)
    BY <1>10, OpenSlot DEF OpenWriteFails
  <2>2. fds = {} /\ files_opened = 0
    BY <1>10, <2>1, HeldFile DEF OpenWriteFails
  <2>3. \A s \in Slots : StoredOf(s)' = {}
    BY <1>t, <1>10, <2>1 DEF OpenWriteFails, NotOpened, Quiet, AioType, StoredOf, Rd, Wr
  <2>4. fds' = {Rd(cur_r, number_frag[cur_r])} /\ files_opened' = 1
    BY <1>10, <2>2 DEF OpenWriteFails
  <2>5. Cardinality(fds') = 1 /\ IsFiniteSet(fds')
    BY <2>4, FS_Singleton
  <2>6. "openw" \in Faults /\ pc' = "cleanup" /\ error' = -2
    BY <1>10 DEF OpenWriteFails
  <2>7. QED BY <2>3, <2>4, <2>5, <2>6 DEF FdInv
<1>11. CASE OpenFile
  BY <1>11, OpenedFds DEF OpenFile
<1>12. CASE OpenFileAioFails
  BY <1>12, OpenedFds DEF OpenFileAioFails
<1>13. CASE ReadEndSkip
  BY <1>13, FdFrame, Values DEF ReadEndSkip
<1>14. CASE ReadEndFails
  BY <1>14, FdFrame DEF ReadEndFails, ReadEndGuard
<1>15. CASE SingleWrite
  <2>1. IssueWrite
    BY <1>15 DEF SingleWrite
  <2>2. \A s \in Slots : t_read'[s].fd = t_read[s].fd /\ t_write'[s].fd = t_write[s].fd
    BY <1>t, <1>15, <2>1, IssuedWrite DEF SingleWrite, NoMoreReads, NextSlot, Quiet, AioType
  <2>3. fds' = fds /\ files_opened' = files_opened /\ abort_copy' = abort_copy
    BY <1>15, <2>1 DEF SingleWrite, NoMoreReads, NextSlot, IssueWrite
  <2>4. QED BY <2>1, <2>2, <2>3, IssuedWrite, FdFrame
<1>16. CASE ReadAhead
  <2>1. IssueWrite
    BY <1>16 DEF ReadAhead
  <2>2. \A s \in Slots : t_read'[s].fd = t_read[s].fd /\ t_write'[s].fd = t_write[s].fd
    BY <1>t, <1>16, <2>1, IssuedWrite DEF ReadAhead, Aio, Quiet, AioType
  <2>3. fds' = fds /\ files_opened' = files_opened /\ abort_copy' = abort_copy
    BY <1>16, <2>1 DEF ReadAhead, Aio, IssueWrite
  <2>4. QED BY <2>1, <2>2, <2>3, IssuedWrite, FdFrame
<1>17. CASE LastRead
  <2>1. IssueWrite
    BY <1>17 DEF LastRead
  <2>2. \A s \in Slots : t_read'[s].fd = t_read[s].fd /\ t_write'[s].fd = t_write[s].fd
    BY <1>t, <1>17, <2>1, IssuedWrite DEF LastRead, NoMoreReads, NextSlot, Quiet, AioType
  <2>3. fds' = fds /\ files_opened' = files_opened /\ abort_copy' = abort_copy
    BY <1>17, <2>1 DEF LastRead, NoMoreReads, NextSlot, IssueWrite
  <2>4. QED BY <2>1, <2>2, <2>3, IssuedWrite, FdFrame
<1>18. CASE JoinMissing
  <2>1. IssueWrite
    BY <1>18 DEF JoinStep, JoinMissing
  <2>2. \A s \in Slots : t_read'[s].fd = t_read[s].fd /\ t_write'[s].fd = t_write[s].fd
    BY <1>t, <1>18, <2>1, IssuedWrite
      DEF JoinMissing, JoinStep, NoMoreReads, NextSlot, Quiet, AioType
  <2>3. fds' = fds /\ files_opened' = files_opened /\ abort_copy' = abort_copy
    BY <1>18, <2>1 DEF JoinMissing, JoinStep, NoMoreReads, NextSlot, IssueWrite
  <2>4. QED BY <2>1, <2>2, <2>3, IssuedWrite, FdFrame
<1>19. CASE JoinNext
  <2>1. IssueWrite
    BY <1>19 DEF JoinStep, JoinNext
  <2>2. cur_r = cur_w /\ cur_r \in Slots /\ ~Quiet(cur_r) /\ pc = "readend"
    BY <2>1, ReadEndSlot DEF IssueWrite, ReadEndGuard
  <2>3. /\ files_opened = 2 /\ t_write[cur_r].fd >= 0
        /\ fds = {Rd(cur_r, t_read[cur_r].fd), Wr(cur_r, t_write[cur_r].fd)}
    BY <2>2, HeldFile
  <2>4. t_read'[cur_r].fd = number_frag[cur_r] + 1 /\ t_read'[cur_r].fd \in Nat
    BY <1>t, <1>19, <2>2, SlotTypes, Values DEF JoinNext, Aio, AioType
  <2>5. \A s \in Slots : s # cur_r => t_read'[s].fd = -1 /\ t_write'[s].fd = -1
    BY <1>t, <1>19, <2>1, IssuedWrite DEF JoinNext, Quiet
  <2>6. /\ t_write'[cur_r].fd = t_write[cur_r].fd /\ t_write'[cur_r].fd # -1
        /\ t_write'[cur_r].fd \in FdType
    BY <1>t, <2>1, <2>2, IssuedWrite, SlotTypes
  <2>7. files_opened' = 2 /\ fds' = {Rd(cur_r, t_read'[cur_r].fd), Wr(cur_r, t_write'[cur_r].fd)}
    <3>1. /\ files_opened' = files_opened
          /\ fds' = (fds \ {Rd(cur_r, t_read[cur_r].fd)}) \cup {Rd(cur_r, number_frag[cur_r] + 1)}
      BY <1>19 DEF JoinNext
    <3>2. Wr(cur_r, t_write[cur_r].fd) # Rd(cur_r, t_read[cur_r].fd)
      BY DEF Rd, Wr
    <3>3. QED BY <2>3, <2>4, <2>6, <3>1, <3>2
  <2>8. QED BY <2>2, <2>4, <2>5, <2>6, <2>7, FdOne DEF FdType
<1>20. CASE JoinOpenFails
  <2>1. IssueWrite
    BY <1>20 DEF JoinStep, JoinOpenFails
  <2>2. cur_r = cur_w /\ cur_r \in Slots /\ ~Quiet(cur_r) /\ pc = "readend"
    BY <2>1, ReadEndSlot DEF IssueWrite, ReadEndGuard
  <2>3. /\ files_opened = 2 /\ t_write[cur_r].fd >= 0
        /\ fds = {Rd(cur_r, t_read[cur_r].fd), Wr(cur_r, t_write[cur_r].fd)}
    BY <2>2, HeldFile
  <2>4. t_read'[cur_r].fd = -1
    BY <1>t, <1>20, <2>2, SlotTypes, Values DEF JoinOpenFails, Aio, AioType
  <2>5. \A s \in Slots : s # cur_r => t_read'[s].fd = -1 /\ t_write'[s].fd = -1
    BY <1>t, <1>20, <2>1, IssuedWrite DEF JoinOpenFails, Quiet
  <2>6. /\ t_write'[cur_r].fd = t_write[cur_r].fd /\ t_write'[cur_r].fd # -1
        /\ t_write'[cur_r].fd \in FdType
    BY <1>t, <2>1, <2>2, IssuedWrite, SlotTypes
  <2>7. files_opened' = 1 /\ fds' = {Wr(cur_r, t_write'[cur_r].fd)}
    BY <1>20, <2>3, <2>4, <2>6 DEF JoinOpenFails, Rd, Wr
  <2>8. QED BY <2>2, <2>4, <2>5, <2>6, <2>7, FdOne DEF FdType
<1>21. CASE JoinCloseFails
  <2>1. IssueWrite
    BY <1>21 DEF JoinStep, JoinCloseFails
  <2>2. \A s \in Slots : t_read'[s].fd = t_read[s].fd /\ t_write'[s].fd = t_write[s].fd
    BY <1>t, <1>21, <2>1, IssuedWrite DEF JoinCloseFails, JoinStep, Quiet, AioType
  <2>3. fds' = fds /\ files_opened' = files_opened /\ abort_copy' = abort_copy
    BY <1>21, <2>1 DEF JoinCloseFails, JoinStep, IssueWrite
  <2>4. QED BY <2>1, <2>2, <2>3, IssuedWrite, FdFrame
<1>22. CASE JoinSetFl
  BY <1>22, FdFrame, Values DEF JoinSetFl
<1>23. CASE WriteEndSkip
  BY <1>23, FdFrame, Values DEF WriteEndSkip
<1>24. CASE WriteEndError
  BY <1>24, FdFrame, Values DEF WriteEndError, WriteEnd
<1>25. CASE FinishFile
  <2>1. WriteEnd
    BY <1>25 DEF SplitStep, FinishFile
  <2>2. cur_w \in Slots /\ ~Quiet(cur_w) /\ pc = "writeend"
    BY <2>1, WriteEndSlot DEF WriteEnd
  <2>3. /\ files_opened = 2 /\ t_read[cur_w].fd >= 0 /\ t_write[cur_w].fd >= 0
        /\ fds = {Rd(cur_w, t_read[cur_w].fd), Wr(cur_w, t_write[cur_w].fd)}
    BY <2>2, HeldFile
  <2>4. \A s \in Slots : s # cur_w => t_read[s].fd = -1 /\ t_write[s].fd = -1
    BY <2>2 DEF IInv, SlotInv, Quiet
  <2>5. \A s \in Slots : s # cur_w => t_read'[s].fd = -1 /\ t_write'[s].fd = -1
    BY <1>t, <1>25, <2>4 DEF FinishFile
  <2>6. StoredOf(cur_w) = fds
    BY <2>3, StoredIff
  <2>7. Cardinality(fds) = 2
    BY <2>2, <2>3 DEF IInv, FdInv
  <2>8. files_opened' = 0 /\ fds' = {}
    BY <1>25, <2>3, <2>6, <2>7 DEF FinishFile
  <2>9. t_read'[cur_w].fd = -1 /\ t_write'[cur_w].fd = -1
    BY <1>t, <1>25, <2>2 DEF FinishFile, AioType
  <2>10. QED BY <2>2, <2>5, <2>8, <2>9, FdOne DEF FdType
<1>26. CASE FinishCloseFails
  <2>1. CASE UNCHANGED <<fds, files_opened, t_read, fast_read>>
    BY <1>26, <2>1, FdFrame DEF FinishCloseFails, WriteEnd
  <2>2. CASE ~UNCHANGED <<fds, files_opened, t_read, fast_read>>
    <3>1. WriteEnd
      BY <1>26 DEF SplitStep, FinishCloseFails
    <3>2. cur_w \in Slots /\ ~Quiet(cur_w) /\ pc = "writeend"
      BY <3>1, WriteEndSlot DEF WriteEnd
    <3>3. /\ files_opened = 2 /\ t_read[cur_w].fd >= 0 /\ t_write[cur_w].fd >= 0
          /\ fds = {Rd(cur_w, t_read[cur_w].fd), Wr(cur_w, t_write[cur_w].fd)}
      BY <3>2, HeldFile
    <3>4. \A s \in Slots : s # cur_w => t_read[s].fd = -1 /\ t_write[s].fd = -1
      BY <3>2 DEF IInv, SlotInv, Quiet
    <3>5. \A s \in Slots : s # cur_w => t_read'[s].fd = -1 /\ t_write'[s].fd = -1
      BY <1>t, <1>26, <3>4 DEF FinishCloseFails
    <3>6. t_read'[cur_w].fd = -1 /\ t_write' = t_write
      BY <1>t, <1>26, <2>2, <3>2 DEF FinishCloseFails, AioType
    <3>7. files_opened' = 1 /\ fds' = {Wr(cur_w, t_write'[cur_w].fd)}
      BY <1>26, <2>2, <3>3, <3>6 DEF FinishCloseFails, Rd, Wr
    <3>8. QED BY <1>t, <3>2, <3>3, <3>5, <3>6, <3>7, FdOne, SlotTypes DEF FdType
  <2>3. QED BY <2>1, <2>2
<1>27. CASE SplitFile
  <2>1. WriteEnd
    BY <1>27 DEF SplitStep, SplitFile
  <2>2. cur_w \in Slots /\ ~Quiet(cur_w) /\ pc = "writeend"
    BY <2>1, WriteEndSlot DEF WriteEnd
  <2>3. /\ files_opened = 2 /\ t_read[cur_w].fd >= 0 /\ t_write[cur_w].fd >= 0
        /\ fds = {Rd(cur_w, t_read[cur_w].fd), Wr(cur_w, t_write[cur_w].fd)}
    BY <2>2, HeldFile
  <2>4. \A s \in Slots : s # cur_w => t_read[s].fd = -1 /\ t_write[s].fd = -1
    BY <2>2 DEF IInv, SlotInv, Quiet
  <2>5. \A s \in Slots : s # cur_w => t_read'[s].fd = -1 /\ t_write'[s].fd = -1
    BY <1>t, <1>27, <2>4 DEF SplitFile, SplitStep
  <2>6. /\ t_read'[cur_w].fd = t_read[cur_w].fd /\ t_write'[cur_w].fd = number_frag[cur_w] + 1
        /\ number_frag[cur_w] + 1 \in Nat /\ t_read[cur_w].fd \in FdType
    BY <1>t, <1>27, <2>2, SlotTypes, Values DEF SplitFile, SplitStep, AioType
  <2>7. files_opened' = 2 /\ fds' = {Rd(cur_w, t_read'[cur_w].fd), Wr(cur_w, t_write'[cur_w].fd)}
    BY <1>27, <2>3, <2>6 DEF SplitFile, Rd, Wr
  <2>8. QED BY <2>2, <2>3, <2>5, <2>6, <2>7, FdOne DEF FdType
<1>28. CASE SplitCloseFails
  BY <1>28, FdFrame, Values DEF SplitCloseFails, SplitStep, WriteEnd
<1>29. CASE SplitOpenFails
  <2>1. WriteEnd
    BY <1>29 DEF SplitStep, SplitOpenFails
  <2>2. cur_w \in Slots /\ ~Quiet(cur_w) /\ pc = "writeend"
    BY <2>1, WriteEndSlot DEF WriteEnd
  <2>3. /\ files_opened = 2 /\ t_read[cur_w].fd >= 0 /\ t_write[cur_w].fd >= 0
        /\ fds = {Rd(cur_w, t_read[cur_w].fd), Wr(cur_w, t_write[cur_w].fd)}
    BY <2>2, HeldFile
  <2>4. \A s \in Slots : s # cur_w => t_read[s].fd = -1 /\ t_write[s].fd = -1
    BY <2>2 DEF IInv, SlotInv, Quiet
  <2>5. \A s \in Slots : s # cur_w => t_read'[s].fd = -1 /\ t_write'[s].fd = -1
    BY <1>t, <1>29, <2>4 DEF SplitOpenFails, SplitStep
  <2>6. /\ t_read'[cur_w].fd = t_read[cur_w].fd /\ t_write'[cur_w].fd = -1
        /\ t_read[cur_w].fd \in FdType
    BY <1>t, <1>29, <2>2, SlotTypes, Values DEF SplitOpenFails, SplitStep, AioType
  <2>7. files_opened' = 1 /\ fds' = {Rd(cur_w, t_read'[cur_w].fd)}
    BY <1>29, <2>3, <2>6 DEF SplitOpenFails, Rd, Wr
  <2>8. QED BY <2>2, <2>3, <2>5, <2>6, <2>7, FdOne DEF FdType
<1>30. CASE WriteOn
  BY <1>30, FdFrame, Values DEF WriteOn, WriteEnd
<1>31. CASE Display
  BY <1>31, FdFrame, Values DEF Display
<1>32. CASE UserAbort
  BY <1>32, FdFrame, Values DEF UserAbort
<1>33. CASE Cleanup
  <2>1. \A s \in Slots : StoredOf(s)' = {}
    BY <1>33, CleanupQuiet DEF StoredOf, Rd, Wr, Quiet
  <2>2. FdInv /\ IsFiniteSet(fds) /\ Stored \subseteq fds /\ files_opened = Cardinality(fds)
    BY <1>33, HeldFds DEF IInv, TypeOK, FdInv, Cleanup
  <2>3. fds \cap Stored = Stored
    BY <2>2
  <2>4. IsFiniteSet(fds') /\ files_opened' = Cardinality(fds')
    BY <1>33, <2>2, <2>3, FS_Difference DEF Cleanup
  <2>5. ASSUME NEW d \in fds'
        PROVE  "openw" \in Faults /\ abort_copy'
    <3>1. \A s \in Slots : d \notin StoredOf(s)
      <4>1. TAKE s \in Slots
      <4>2. CASE s < fast_num_files
        BY <1>33, <2>5, <4>2, SizesAssumption
          DEF Cleanup, Stored, Slots, IInv, TypeOK, EngineType
      <4>3. CASE ~(s < fast_num_files)
        <5>1. Quiet(s)
          BY <4>3 DEF IInv, SlotInv
        <5>2. QED BY <5>1, StoredIff DEF Quiet
      <4>4. QED BY <4>2, <4>3
    <3>2. d \in fds
      BY <1>33, <2>5 DEF Cleanup
    <3>3. "openw" \in Faults /\ (abort_copy \/ error = -2)
      BY <2>2, <3>1, <3>2 DEF FdInv
    <3>4. abort_copy' = (abort_copy \/ error # 0)
      BY <1>33 DEF Cleanup
    <3>5. error = -2 => error # 0
      OBVIOUS
    <3>6. QED BY <3>3, <3>4, <3>5
  <2>6. QED BY <2>1, <2>4, <2>5 DEF FdInv
<1>34. CASE ReturnToAdd
  BY <1>34, FdFrame, Values DEF ReturnToAdd
<1>35. CASE ReturnFailed
  BY <1>35, FdFrame, Values DEF ReturnFailed
<1>36. CASE Finish
  BY <1>36, FdFrame, Values DEF Finish
<1>37. ASSUME NEW s \in Slots, ReadTransfer(s) PROVE FdInv'
  BY <1>37, FdFrame, Values DEF ReadTransfer
<1>38. ASSUME NEW s \in Slots, fast_func_read(s) PROVE FdInv'
  BY <1>38, FdFrame, Values DEF fast_func_read
<1>39. ASSUME NEW s \in Slots, ReadError(s) PROVE FdInv'
  BY <1>39, FdFrame, Values DEF ReadError
<1>40. ASSUME NEW s \in Slots, WriteTransfer(s) PROVE FdInv'
  BY <1>40, FdFrame, Values DEF WriteTransfer
<1>41. ASSUME NEW s \in Slots, fast_func_write(s) PROVE FdInv'
  BY <1>41, FdFrame, Values DEF fast_func_write
<1>42. ASSUME NEW s \in Slots, WriteError(s) PROVE FdInv'
  BY <1>42, FdFrame, Values DEF WriteError
<1>43. CASE Terminated
  BY <1>43, FdFrame DEF Terminated
<1>q. QED
  BY <1>1, <1>2, <1>3, <1>4, <1>5, <1>6, <1>7, <1>8, <1>9, <1>10, <1>11, <1>12,
     <1>13, <1>14, <1>15, <1>16, <1>17, <1>18, <1>19, <1>20, <1>21, <1>22, <1>23,
     <1>24, <1>25, <1>26, <1>27, <1>28, <1>29, <1>30, <1>31, <1>32, <1>33, <1>34,
     <1>35, <1>36, <1>37, <1>38, <1>39, <1>40, <1>41, <1>42, <1>43
  DEF Next, CopyThread, Walk, OpenSection, ReadEndSection, WriteEndSection, Leaving,
      AioThread

\* The units read and handed to the writes stay in step.
LEMMA DataInvStep ==
  ASSUME IInv, Next
  PROVE  DataInv'
<1> USE DEF vars, walkVars, queueVars, slotVars, fragVars, aioVars, kernVars, flagVars,
            walkUnchanged, GoTo, Leave, CallProcess, copyUnchanged
<1>t. /\ DataInv /\ cur_w \in Nat /\ cur_r \in Nat
      /\ t_read \in [Slots -> AioType] /\ t_write \in [Slots -> AioType]
      /\ fl \in [Slots -> 0 .. 5] /\ readed \in [Slots -> Int] /\ writed \in [Slots -> Int]
      /\ len \in [Slots -> Int]
      /\ aio_r \in [Slots -> {"idle", "issued", "moved"}]
      /\ aio_w \in [Slots -> {"idle", "issued", "moved"}]
  BY DEF IInv, TypeOK, QueueType, KernelType, EngineType
<1>1. CASE AddFlush
  BY <1>t, <1>1, Values DEF AddFlush, DataInv, LoopPcs, Pending
<1>2. CASE AddPiece
  BY <1>t, <1>2, Values DEF AddPiece, DataInv, LoopPcs, Pending
<1>3. CASE AddEmpty
  BY <1>t, <1>3, Values DEF AddEmpty, CountFile, DataInv, LoopPcs, Pending
<1>4. CASE AddFile
  BY <1>t, <1>4, Values DEF AddFile, DataInv, LoopPcs, Pending
<1>5. CASE AddFails
  BY <1>t, <1>5, Values DEF AddFails, DataInv, LoopPcs, Pending
<1>6. CASE EndWalk
  BY <1>t, <1>6, Values DEF EndWalk, DataInv, LoopPcs, Pending
<1>7. CASE LoopExit
  BY <1>t, <1>7, Values DEF LoopExit, DataInv, LoopPcs, Pending
<1>8. CASE LoopSkip
  BY <1>t, <1>8, Values DEF LoopSkip, DataInv, LoopPcs, Pending
<1>9. CASE OpenReadFails
  BY <1>t, <1>9, Values, OpenSlot
    DEF OpenReadFails, NotOpened, ResetCounters, DataInv, LoopPcs, Pending
<1>10. CASE OpenWriteFails
  BY <1>t, <1>10, Values, OpenSlot
    DEF OpenWriteFails, NotOpened, ResetCounters, DataInv, LoopPcs, Pending
<1>11. CASE OpenFile
  <2>1. /\ OpenBoth /\ OpenGuard /\ cur_r \in Slots /\ cur_r = cur_w
        /\ cur_r < fast_num_files /\ aio_w[cur_r] = "idle"
    BY <1>11, OpenSlot, OpenFds DEF OpenFile, OpenBoth, Quiet
  <2>2. len[cur_r] \in Int /\ len[cur_r] > 0
    BY <2>1, <1>t DEF IInv, LenInv
  <2>3. /\ Chunk(cur_r, len[cur_r]) \in Int /\ Chunk(cur_r, len[cur_r]) > 0
        /\ Chunk(cur_r, len[cur_r]) <= len[cur_r]
    BY <2>1, <2>2, ChunkBounds
  <2>4. /\ readed'[cur_r] = 0 /\ writed'[cur_r] = 0 /\ fl'[cur_r] = 2
        /\ len' = len /\ cur_w' = cur_r /\ aio_w' = aio_w /\ aio_r'[cur_r] = "issued"
        /\ t_read'[cur_r].size = Chunk(cur_r, len[cur_r])
    BY <1>t, <1>11, <2>1 DEF OpenFile, OpenBoth, ResetCounters, Aio
  <2>5. QED BY <2>1, <2>2, <2>3, <2>4 DEF DataInv, Pending
<1>12. CASE OpenFileAioFails
  BY <1>t, <1>12, Values, OpenSlot
    DEF OpenFileAioFails, OpenBoth, OpenedTwo, ResetCounters, DataInv, LoopPcs,
        Pending
<1>13. CASE ReadEndSkip
  BY <1>t, <1>13, Values DEF ReadEndSkip, DataInv, LoopPcs, Pending
<1>14. CASE ReadEndFails
  BY <1>t, <1>14, Values, ReadEndSlot DEF ReadEndFails, DataInv, LoopPcs, Pending
<1>15. CASE SingleWrite
  BY <1>t, <1>15, Values, ReadEndSlot
    DEF SingleWrite, IssueWrite, NoMoreReads, NextSlot, DataInv, LoopPcs, Pending
<1>16. CASE ReadAhead
  <2>1. IssueWrite /\ cur_r \in Slots /\ cur_r < fast_num_files /\ cur_w' = cur_r
    BY <1>16, IssuedWrite DEF ReadAhead
  <2>2. len[cur_r] - readed[cur_r] \in Int /\ len[cur_r] - readed[cur_r] > 0
    BY <1>16, <2>1, ReadEndData DEF ReadAhead
  <2> DEFINE c == Chunk(cur_r, len[cur_r] - readed[cur_r])
  <2>3. c \in Int /\ c > 0 /\ c <= len[cur_r] - readed[cur_r]
    BY <2>1, <2>2, ChunkBounds
  <2>4. /\ t_read'[cur_r].size = c /\ fl'[cur_r] = 2 /\ len' = len
        /\ pc' \in {"writeend", "cleanup"}
        /\ pc' = "writeend" => aio_r'[cur_r] = "issued"
    BY <1>t, <1>16, <2>1 DEF ReadAhead, IssueRead, Aio
  <2> HIDE DEF c
  <2>5. QED BY <2>1, <2>2, <2>3, <2>4, ReadEndData DEF DataInv, Pending, LoopPcs
<1>17. CASE LastRead
  BY <1>t, <1>17, Values, ReadEndSlot
    DEF LastRead, IssueWrite, NoMoreReads, NextSlot, DataInv, LoopPcs, Pending
<1>18. CASE JoinMissing
  BY <1>t, <1>18, Values, ReadEndSlot
    DEF JoinMissing, JoinStep, IssueWrite, NoMoreReads, NextSlot, DataInv, LoopPcs,
        Pending
<1>19. CASE JoinNext
  <2> DEFINE more == job[file[cur_r].ent].frags[number_frag[cur_r] + 2]
  <2>1. /\ IssueWrite /\ ReadEndGuard /\ HasNext /\ cur_r \in Slots
        /\ cur_r < fast_num_files /\ cur_w' = cur_r
    BY <1>19, IssuedWrite DEF JoinNext, JoinStep, IssueWrite
  <2>2. more \in Nat /\ more > 0
    BY <2>1, NextFragment, NextFragmentLength
  <2> HIDE DEF more
  <2>3. len'[cur_r] = len[cur_r] + more /\ readed[cur_r] = len[cur_r]
    BY <1>t, <1>19, <2>1, ReadEndData DEF JoinNext, JoinStep, more
  <2> DEFINE c == Chunk(cur_r, len[cur_r] + more - readed[cur_r])
  <2>4. len[cur_r] + more - readed[cur_r] = more
    BY <2>1, <2>2, <2>3, ReadEndData
  <2>5. c \in Int /\ c > 0 /\ c <= more
    BY <2>1, <2>2, <2>4, ChunkBounds
  <2>6. t_read'[cur_r].size = c /\ pc' \in {"joined", "cleanup"}
        /\ (pc' = "joined" => aio_r'[cur_r] = "issued")
    BY <1>t, <1>19, <2>1 DEF JoinNext, IssueRead, Aio, more
  <2> HIDE DEF c
  <2>7. QED BY <2>1, <2>2, <2>3, <2>5, <2>6, ReadEndData DEF DataInv, Pending, LoopPcs
<1>20. CASE JoinOpenFails
  BY <1>t, <1>20, Values, ReadEndSlot
    DEF JoinOpenFails, JoinStep, IssueWrite, DataInv, LoopPcs, Pending
<1>21. CASE JoinCloseFails
  BY <1>t, <1>21, Values, ReadEndSlot
    DEF JoinCloseFails, JoinStep, IssueWrite, DataInv, LoopPcs, Pending
<1>22. CASE JoinSetFl
  <2>1. i_reading /\ cur_r = cur_w /\ cur_w \in Slots
    BY <1>22 DEF JoinSetFl, IInv, LoopInv, ReadingInv, IdleInv, SlotInv, LoopPcs
  <2>2. QED BY <1>t, <1>22, <2>1 DEF JoinSetFl, DataInv, LoopPcs, Pending
<1>23. CASE WriteEndSkip
  BY <1>t, <1>23, Values DEF WriteEndSkip, DataInv, LoopPcs, Pending
<1>24. CASE WriteEndError
  BY <1>t, <1>24, Values, WriteEndSlot
    DEF WriteEndError, WriteEnd, DataInv, LoopPcs, Pending
<1>25. CASE FinishFile
  <2>1. ~i_reading'
    BY <1>t, <1>25, WriteEndSlot DEF FinishFile, FileComplete, WriteEnd
  <2>2. QED BY <2>1 DEF DataInv
<1>26. CASE FinishCloseFails
  BY <1>t, <1>26, Values, WriteEndSlot
    DEF FinishCloseFails, WriteEnd, DataInv, LoopPcs, Pending
<1>27. CASE SplitFile
  <2>1. \A s \in Slots : t_write'[s].size = t_write[s].size
    BY <1>t, <1>27 DEF SplitFile, AioType
  <2>2. cur_w \in Slots /\ writed[cur_w] >= 0 /\ writed[cur_w] \in Int
    BY <1>t, <1>27, WriteEndSlot DEF SplitFile, SplitStep, SplitDue
  <2>3. QED
    BY <1>t, <1>27, <2>1, <2>2
      DEF SplitFile, SplitStep, WriteEnd, DataInv, LoopPcs, Pending
<1>28. CASE SplitCloseFails
  BY <1>t, <1>28, Values, WriteEndSlot
    DEF SplitCloseFails, SplitStep, WriteEnd, DataInv, LoopPcs, Pending
<1>29. CASE SplitOpenFails
  BY <1>t, <1>29, Values, WriteEndSlot
    DEF SplitOpenFails, SplitStep, NextFrag, WriteEnd, DataInv, LoopPcs, Pending
<1>30. CASE WriteOn
  BY <1>t, <1>30, Values, WriteEndSlot DEF WriteOn, WriteEnd, DataInv, LoopPcs, Pending
<1>31. CASE Display
  BY <1>t, <1>31, Values DEF Display, DataInv, LoopPcs, Pending
<1>32. CASE UserAbort
  BY <1>t, <1>32, Values DEF UserAbort, DataInv, LoopPcs, Pending
<1>33. CASE Cleanup
  BY <1>t, <1>33, Values DEF Cleanup, DataInv, LoopPcs, Pending
<1>34. CASE ReturnToAdd
  BY <1>t, <1>34, Values DEF ReturnToAdd, DataInv, LoopPcs, Pending
<1>35. CASE ReturnFailed
  BY <1>t, <1>35, Values DEF ReturnFailed, DataInv, LoopPcs, Pending
<1>36. CASE Finish
  BY <1>t, <1>36, Values DEF Finish, DataInv, LoopPcs, Pending
<1>37. ASSUME NEW s \in Slots, ReadTransfer(s) PROVE DataInv'
  BY <1>t, <1>37, Values DEF ReadTransfer, DataInv, LoopPcs, Pending
<1>38. ASSUME NEW s \in Slots, fast_func_read(s) PROVE DataInv'
  <2>1. s = cur_w /\ t_read[s].size \in Int /\ t_write[s].size \in Int
    BY <1>38, SlotTypes DEF fast_func_read, IInv, TypeOK, SlotInv, Quiet
  <2>2. QED BY <1>t, <1>38, <2>1 DEF fast_func_read, DataInv, LoopPcs, Pending
<1>39. ASSUME NEW s \in Slots, ReadError(s) PROVE DataInv'
  BY <1>t, <1>39, Values DEF ReadError, DataInv, LoopPcs, Pending
<1>40. ASSUME NEW s \in Slots, WriteTransfer(s) PROVE DataInv'
  BY <1>t, <1>40, Values DEF WriteTransfer, DataInv, LoopPcs, Pending
<1>41. ASSUME NEW s \in Slots, fast_func_write(s) PROVE DataInv'
  <2>1. s = cur_w /\ t_write[s].size \in Int /\ fast_writing = 1
    BY <1>41, SlotTypes DEF fast_func_write, IInv, TypeOK, SlotInv, Quiet
  <2>2. QED BY <1>t, <1>41, <2>1 DEF fast_func_write, DataInv, LoopPcs, Pending
<1>42. ASSUME NEW s \in Slots, WriteError(s) PROVE DataInv'
  BY <1>t, <1>42, Values DEF WriteError, DataInv, LoopPcs, Pending
<1>43. CASE Terminated
  BY <1>t, <1>43 DEF Terminated, DataInv, LoopPcs, Pending
<1>q. QED
  BY <1>1, <1>2, <1>3, <1>4, <1>5, <1>6, <1>7, <1>8, <1>9, <1>10, <1>11, <1>12,
     <1>13, <1>14, <1>15, <1>16, <1>17, <1>18, <1>19, <1>20, <1>21, <1>22, <1>23,
     <1>24, <1>25, <1>26, <1>27, <1>28, <1>29, <1>30, <1>31, <1>32, <1>33, <1>34,
     <1>35, <1>36, <1>37, <1>38, <1>39, <1>40, <1>41, <1>42, <1>43
  DEF Next, CopyThread, Walk, OpenSection, ReadEndSection, WriteEndSection, Leaving,
      AioThread

-----------------------------------------------------------------------------
(* The inductive invariant, and what follows from it. *)

\* The state fast_copy_async leaves satisfies the invariant.
LEMMA InitIInv == Init => IInv
<1> SUFFICES ASSUME Init PROVE IInv
  OBVIOUS
<1>1. 0 \in Slots /\ MAX_FAST_FILES \in Nat /\ \A s \in Slots : s \in Nat
  BY SizesAssumption DEF Slots
<1>2. /\ Len(job) \in Nat /\ Len(job) >= 1 /\ DOMAIN job = 1 .. Len(job)
  BY JobFacts DEF Init
<1>3. \A s \in Slots : Quiet(s) /\ StoredOf(s) = {}
  BY DEF Init, Quiet, Aio, StoredOf, Rd, Wr
<1>4. TypeOK
  <2>1. ControlType
    <3>1. next \in 1 .. Len(job) + 1
      BY <1>2 DEF Init
    <3>2. /\ job \in Jobs /\ copy_mode \in CopyModes /\ pc = "walk" /\ caller = "add"
          /\ failed = FALSE /\ error = 0 /\ abort_copy = FALSE /\ i_reading = FALSE
      BY DEF Init
    <3>3. file_counter \in Nat
      BY DEF Init
    <3>4. QED BY <3>1, <3>2, <3>3 DEF ControlType
  <2>2. QueueType
    <3>1. NoFile \in FileType
      BY <1>2 DEF NoFile, FileType
    <3>2. Aio(-1, 0, 0) \in AioType
      BY AioTypes, Values
    <3>3. 0 \in 0 .. 5
      OBVIOUS
    <3>4. QED BY <3>1, <3>2, <3>3, Values DEF Init, QueueType, Zeros
  <2>3. EngineType
    BY <1>1 DEF Init, EngineType
  <2>4. KernelType
    <3>1. << >> \in Seq(Unit) /\ << >> \in Seq(Seq(Unit))
      OBVIOUS
    <3>2. QED BY <3>1 DEF Init, KernelType
  <2>5. missed \subseteq DOMAIN job
    BY DEF Init
  <2>6. QED BY <2>1, <2>2, <2>3, <2>4, <2>5 DEF TypeOK
<1>5. FdInv
  BY <1>3, FS_EmptySet DEF Init, FdInv
<1>6. SlotInv
  BY <1>3 DEF Init, SlotInv, Quiet
<1>7. RestInv
  BY <1>3 DEF Init, RestInv
<1>8. LenInv /\ QueueInv
  BY <1>1 DEF Init, LenInv, QueueInv
<1>9. LoopInv /\ DataInv
  BY DEF Init, LoopInv, BusyInv, IdleInv, ReadingInv, DataInv, LoopPcs
<1>10. QED BY <1>4, <1>5, <1>6, <1>7, <1>8, <1>9 DEF IInv

\* A step that changes nothing keeps the invariant.
LEMMA StutterIInv ==
  ASSUME IInv, UNCHANGED vars
  PROVE  IInv'
<1> USE DEF IInv, vars, walkVars, queueVars, slotVars, fragVars, aioVars, kernVars, flagVars
<1>1. ControlType'
  BY DEF TypeOK, ControlType
<1>2. QueueType'
  BY DEF TypeOK, QueueType, FileType
<1>3. EngineType' /\ KernelType' /\ (missed \subseteq DOMAIN job)'
  BY DEF TypeOK, EngineType, KernelType
<1>4. FdInv'
  BY DEF FdInv, StoredOf
<1>5. SlotInv'
  BY DEF SlotInv, Quiet
<1>6. RestInv'
  BY DEF RestInv, Quiet
<1>7. LenInv' /\ QueueInv'
  BY DEF LenInv, QueueInv, Quiet
<1>8. BusyInv' /\ IdleInv' /\ ReadingInv'
  BY DEF LoopInv, BusyInv, IdleInv, ReadingInv, Quiet
<1>9. DataInv'
  BY DEF DataInv, Pending
<1>10. QED
  BY <1>1, <1>2, <1>3, <1>4, <1>5, <1>6, <1>7, <1>8, <1>9 DEF TypeOK, LoopInv

\* Every step of either thread keeps the invariant.
LEMMA NextIInv ==
  ASSUME IInv, [Next]_vars
  PROVE  IInv'
<1>1. CASE Next
  <2>1. LoopInv'
    BY <1>1, BusyInvStep, IdleInvStep, ReadingInvStep DEF LoopInv
  <2>2. QED
    BY <1>1, <2>1, TypeStep, FdInvStep, SlotInvStep, RestInvStep, LenInvStep, QueueInvStep,
       DataInvStep
    DEF IInv
<1>2. CASE UNCHANGED vars
  BY <1>2, StutterIInv
<1>3. QED BY <1>1, <1>2

\* The inductive invariant holds of every reachable state of the engine, whatever the
\* files, the sizes and the faults.
THEOREM Inductive == Spec => []IInv
<1>1. IInv /\ [Next]_vars => IInv'
  BY NextIInv
<1>2. QED BY InitIInv, <1>1, PTL DEF Spec

\* Every variable of fast_copy.h keeps to its type; in particular cur_r, cur_w and
\* fast_num_files stay within the queue.
THEOREM TypeCorrect == Spec => []TypeOK
<1>1. IInv => TypeOK
  BY DEF IInv
<1>2. QED BY Inductive, <1>1, PTL

\* Every open descriptor is that of a slot, unless an open for writing has failed.
LEMMA AllStored ==
  ASSUME IInv, "openw" \notin Faults
  PROVE  fds = Stored
<1>1. Stored \subseteq fds
  BY HeldFds DEF IInv, TypeOK
<1>2. ASSUME NEW d \in fds PROVE d \in Stored
  <2>1. PICK s \in Slots : d \in StoredOf(s)
    BY <1>2 DEF IInv, FdInv
  <2>2. ~Quiet(s)
    BY <2>1, StoredIff DEF Quiet
  <2>3. s < fast_num_files /\ s \in Nat /\ fast_num_files \in Nat
    BY <2>2, SizesAssumption DEF IInv, SlotInv, TypeOK, EngineType, Slots
  <2>4. s \in 0 .. fast_num_files - 1
    BY <2>3
  <2>5. QED BY <2>1, <2>4 DEF Stored
<1>3. QED BY <1>1, <1>2

\* files_opened, on which the loop waits, always is the number of open descriptors, and
\* no descriptor is lost but by a failed open for writing.
THEOREM FdsAccounted == Spec => []FdAccounting
<1>1. ASSUME IInv PROVE FdAccounting
  <2>1. Stored \subseteq fds
    BY <1>1, HeldFds DEF IInv, TypeOK
  <2>2. InProcess => files_opened = Cardinality(fds)
    BY <1>1 DEF IInv, FdInv, InProcess
  <2>3. QED BY <1>1, <2>1, <2>2, AllStored DEF FdAccounting
<1>2. QED BY Inductive, <1>1, PTL

\* Two files never share the flags and the cursors of the engine.
THEOREM OneFile == Spec => []OneFileAtATime
<1>1. ASSUME IInv PROVE OneFileAtATime
  <2>1. \A s \in Slots : StoredOf(s) # {} => ~Quiet(s)
    BY StoredIff DEF Quiet
  <2>2. QED BY <1>1, <2>1 DEF IInv, SlotInv, OneFileAtATime
<1>2. QED BY Inductive, <1>1, PTL

\* No descriptor is closed, and no buffer freed, under a request in flight.
THEOREM RequestsSafe == Spec => []NoCloseUnderIO
<1>1. ASSUME IInv PROVE NoCloseUnderIO
  <2> SUFFICES ASSUME NEW s \in Slots
               PROVE  /\ aio_r[s] # "idle" => s < fast_num_files /\ Rd(s, t_read[s].fd) \in fds
                      /\ aio_w[s] # "idle" => s < fast_num_files /\ Wr(s, t_write[s].fd) \in fds
    BY DEF NoCloseUnderIO
  <2>1. StoredOf(s) \subseteq fds /\ t_read[s].fd \in FdType /\ t_write[s].fd \in FdType
    BY <1>1, SlotTypes DEF IInv, FdInv, TypeOK
  <2>2. /\ t_read[s].fd # -1 => Rd(s, t_read[s].fd) \in fds
        /\ t_write[s].fd # -1 => Wr(s, t_write[s].fd) \in fds
    BY <2>1, StoredIff DEF FdType
  <2>3. /\ aio_r[s] # "idle" => s < fast_num_files /\ t_read[s].fd # -1
        /\ aio_w[s] # "idle" => s < fast_num_files /\ t_write[s].fd # -1
    BY <1>1 DEF IInv, SlotInv, Quiet
  <2>4. QED BY <2>2, <2>3
<1>2. QED BY Inductive, <1>1, PTL

\* fast_copy_process leaves nothing open or in flight behind it.
THEOREM ReturnsClean == Spec => []CleanReturn
<1>1. ASSUME IInv PROVE CleanReturn
  <2>1. ASSUME pc \in {"return", "done"} PROVE \A s \in Slots : Quiet(s)
    BY <1>1, <2>1 DEF IInv, RestInv
  <2>2. ASSUME pc \in {"return", "done"}, "openw" \notin Faults PROVE fds = {}
    <3>1. \A d \in fds : \E s \in Slots : d \in StoredOf(s)
      BY <1>1, <2>2 DEF IInv, FdInv
    <3>2. QED BY <2>1, <2>2, <3>1, StoredIff DEF Quiet
  <2>3. QED BY <2>1, <2>2 DEF CleanReturn, Quiet
<1>2. QED BY Inductive, <1>1, PTL

-----------------------------------------------------------------------------
(* The buffer of a write in flight. *)

BufferKept == \A s \in Slots :
    aio_w[s] = "issued" /\ aio_w'[s] # "idle" => BufferOf(s)' = BufferOf(s)

\* Issuing a write copies the buffer of its own slot only, in which nothing is in flight.
LEMMA IssueKeeps ==
  ASSUME IInv, IssueWrite
  PROVE  BufferKept
<1>1. cur_r \in Slots /\ aio_w[cur_r] = "idle"
  BY ReadEndSlot DEF IssueWrite
<1>2. mem \in [Slots -> [lo : Seq(Unit), hi : Seq(Unit)]]
  BY DEF IInv, TypeOK, KernelType
<1>3. file' = file /\ \A s \in Slots : s # cur_r => mem'[s] = mem[s]
  BY <1>1, <1>2 DEF IssueWrite
<1>4. QED BY <1>1, <1>3 DEF BufferKept, BufferOf

\* A read in flight beside a write fills the other half of the buffer.
LEMMA ReadKeeps ==
  ASSUME IInv, NEW r \in Slots, ReadTransfer(r)
  PROVE  BufferKept
<1>1. aio_r[r] = "issued"
  BY DEF ReadTransfer
<1>2. aio_w[r] # "idle" => file[r].dbl
  BY <1>1 DEF IInv, SlotInv
<1>3. mem \in [Slots -> [lo : Seq(Unit), hi : Seq(Unit)]]
  BY DEF IInv, TypeOK, KernelType
<1>4. /\ file' = file /\ mem'[r].hi = mem[r].hi
      /\ \A s \in Slots : s # r => mem'[s] = mem[s]
  BY <1>3 DEF ReadTransfer, copyUnchanged
<1>5. QED BY <1>2, <1>4 DEF BufferKept, BufferOf

\* No step changes the buffer half that a write in flight sends.
LEMMA NextKeeps ==
  ASSUME IInv, Next
  PROVE  BufferKept
<1>1. ASSUME UNCHANGED <<file, mem>> PROVE BufferKept
  BY <1>1 DEF BufferKept, BufferOf
<1>2. CASE AddFile
  <2>1. \A s \in Slots : aio_w[s] = "idle"
    BY <1>2 DEF AddFile, IInv, RestInv, Quiet
  <2>2. QED BY <2>1 DEF BufferKept
<1>3. CASE Cleanup
  BY <1>3, CleanupQuiet DEF BufferKept, Quiet
<1>4. CASE ReadEndSection
  <2>1. CASE IssueWrite
    BY <2>1, IssueKeeps
  <2>2. CASE ~IssueWrite
    <3>1. ReadEndSkip \/ ReadEndFails \/ JoinSetFl
      BY <1>4, <2>2 DEF ReadEndSection, SingleWrite, ReadAhead, LastRead, JoinMissing,
         JoinNext, JoinOpenFails, JoinCloseFails, JoinStep
    <3>2. UNCHANGED <<file, mem>>
      BY <3>1 DEF ReadEndSkip, ReadEndFails, JoinSetFl, GoTo, slotVars, kernVars
    <3>3. QED BY <1>1, <3>2
  <2>3. QED BY <2>1, <2>2
<1>5. CASE AioThread
  <2>1. PICK s \in Slots : \/ ReadTransfer(s) \/ fast_func_read(s) \/ ReadError(s)
                           \/ WriteTransfer(s) \/ fast_func_write(s) \/ WriteError(s)
    BY <1>5 DEF AioThread
  <2>2. CASE ReadTransfer(s)
    BY <2>2, ReadKeeps
  <2>3. CASE ~ReadTransfer(s)
    <3>1. UNCHANGED <<file, mem>>
      BY <2>1, <2>3
        DEF fast_func_read, ReadError, WriteTransfer, fast_func_write, WriteError,
         copyUnchanged
    <3>2. QED BY <1>1, <3>1
  <2>4. QED BY <2>2, <2>3
<1>6. CASE Terminated
  BY <1>1, <1>6 DEF Terminated, vars, slotVars, kernVars
<1>7. CASE AddFlush \/ AddPiece \/ AddEmpty \/ AddFails \/ EndWalk
  BY <1>1, <1>7 DEF AddFlush, AddPiece, AddEmpty, AddFails, EndWalk, slotVars, kernVars
<1>8. CASE OpenSection
  BY <1>1, <1>8
    DEF OpenSection, LoopExit, LoopSkip, OpenReadFails, OpenWriteFails, OpenFile,
     OpenFileAioFails, OpenBoth, NotOpened, ResetCounters, GoTo, slotVars, kernVars
<1>9. CASE WriteEndSection
  <2>1. UNCHANGED <<file, mem>>
    BY <1>9 DEF WriteEndSection, WriteEndSkip, WriteEndError, FinishFile, FinishCloseFails,
       SplitFile, SplitCloseFails, SplitOpenFails, WriteOn, SplitStep, WriteEnd, GoTo,
       slotVars, kernVars
  <2>2. QED BY <1>1, <2>1
<1>10. CASE Display \/ UserAbort \/ ReturnToAdd \/ ReturnFailed \/ Finish
  BY <1>1, <1>10 DEF Display, UserAbort, ReturnToAdd, ReturnFailed, Finish, GoTo, slotVars,
     kernVars
<1>11. QED
  BY <1>2, <1>3, <1>4, <1>5, <1>6, <1>7, <1>8, <1>9, <1>10
  DEF Next, CopyThread, Walk, Leaving

\* Reading ahead never overwrites data that a write in flight still has to send.
THEOREM BufferSafe == Spec => BufferStable
<1>1. ASSUME IInv, [Next]_vars PROVE BufferKept
  <2>1. CASE Next
    BY <1>1, <2>1, NextKeeps
  <2>2. CASE UNCHANGED vars
    BY <2>2 DEF vars, slotVars, kernVars, BufferKept, BufferOf
  <2>3. QED BY <1>1, <2>1, <2>2
<1>2. IInv /\ [Next]_vars => [BufferKept]_vars
  BY <1>1
<1>3. Spec => [][BufferKept]_vars
  BY Inductive, <1>2, PTL DEF Spec
<1>4. QED BY <1>3 DEF BufferStable, BufferKept

-----------------------------------------------------------------------------
(* Every file is counted once. *)

\* The entries the walk has passed that are files of their own.
Passed == {e \in DOMAIN job : e < next /\ job[e].kind # "piece"}

\* While the copy goes well, every file passed has been counted or is still queued.
CountInv ==
    /\ caller = "end" => pc # "walk" /\ (failed \/ next = Len(job) + 1)
    /\ pc \in {"walk", "return", "done"} => cur_w = 0
    /\ pc = "walk" => error = 0
    /\ pc = "done" => caller = "end" /\ (failed \/ error = 0)
    /\ pc \in LoopPcs => cur_w <= fast_num_files
    /\ pc = "cleanup" /\ error = 0 /\ ~abort_copy => cur_w = fast_num_files
    /\ ~failed /\ error = 0 =>
           ~abort_copy /\ file_counter + fast_num_files - cur_w = Cardinality(Passed)

\* The entry the walk passes is added to those passed, unless it is a later fragment.
LEMMA PassNext ==
  ASSUME IInv, IInv', next \in DOMAIN job, next' = next + 1, job' = job
  PROVE  /\ Cardinality(Passed) \in Nat
         /\ job[next].kind = "piece" => Cardinality(Passed') = Cardinality(Passed)
         /\ job[next].kind # "piece" => Cardinality(Passed') = Cardinality(Passed) + 1
<1>1. Len(job) \in Nat /\ DOMAIN job = 1 .. Len(job) /\ next \in Int
  BY JobFacts DEF IInv, TypeOK, ControlType
<1>2. IsFiniteSet(1 .. Len(job))
  BY <1>1, FS_Interval
<1>3. Passed \subseteq 1 .. Len(job)
  BY <1>1 DEF Passed
<1>4. IsFiniteSet(Passed)
  BY <1>2, <1>3, FS_Subset
<1>5. Cardinality(Passed) \in Nat
  BY <1>4, FS_CardinalityType
<1>6. \A e \in DOMAIN job : e < next + 1 <=> e < next \/ e = next
  BY <1>1
<1>7. CASE job[next].kind = "piece"
  <2>1. Passed' = Passed
    BY <1>6, <1>7 DEF Passed
  <2>2. QED BY <1>5, <1>7, <2>1
<1>8. CASE job[next].kind # "piece"
  <2>1. Passed' = Passed \cup {next}
    BY <1>6, <1>8 DEF Passed
  <2>2. next \notin Passed
    BY <1>1 DEF Passed
  <2>3. QED BY <1>4, <1>5, <1>8, <2>1, <2>2, FS_AddElement
<1>9. QED BY <1>7, <1>8

\* Neither the walk nor the queue moves, and nothing is aborted.
WalkKept == UNCHANGED <<walkVars, fast_num_files, fast_used_mem, abort_copy>>

\* A step inside the loop that moves neither cursor of the count keeps it.
LEMMA CountLoop ==
  ASSUME CountInv, pc \in LoopPcs, pc' \in LoopPcs, cur_w' = cur_w, abort_copy' = abort_copy,
         error' = error, file_counter' = file_counter, WalkKept
  PROVE  CountInv'
<1>1. Passed' = Passed
  BY DEF Passed, WalkKept, walkVars
<1>2. QED BY <1>1 DEF CountInv, WalkKept, walkVars, LoopPcs

\* An error that leaves the loop ends the count.
LEMMA CountLeave ==
  ASSUME CountInv, pc \in LoopPcs, pc' = "cleanup", error' # 0, WalkKept
  PROVE  CountInv'
  BY DEF CountInv, WalkKept, walkVars, LoopPcs

\* A step of the AIO thread does not touch the count.
LEMMA CountAio ==
  ASSUME CountInv, copyUnchanged
  PROVE  CountInv'
<1>1. Passed' = Passed
  BY DEF Passed, copyUnchanged, walkVars
<1>2. QED BY <1>1 DEF CountInv, copyUnchanged, walkVars, queueVars, LoopPcs

\* Every step keeps the count.
LEMMA CountStep ==
  ASSUME IInv, CountInv, Next, IInv'
  PROVE  CountInv'
<1> USE DEF Leave, GoTo
<1>t. /\ next \in Nat /\ fast_num_files \in Nat /\ cur_w \in Nat /\ file_counter \in Nat
      /\ error \in {0, -1, -2, -3, -4, -666} /\ failed \in BOOLEAN /\ abort_copy \in BOOLEAN
  BY JobFacts DEF IInv, TypeOK, ControlType, EngineType, SizesAssumption
<1>1. CASE AddFlush
  <2>1. Passed' = Passed BY <1>1 DEF AddFlush, Passed
  <2>2. QED
    BY <1>t, <1>1, <2>1
      DEF AddFlush, CallProcess, CountInv, queueVars, LoopPcs
<1>2. CASE AddPiece
  <2>1. Cardinality(Passed') = Cardinality(Passed)
    BY <1>2, PassNext DEF AddPiece
  <2>2. QED BY <1>t, <1>2, <2>1 DEF AddPiece, CountInv, queueVars, LoopPcs
<1>3. CASE AddEmpty
  <2>1. Cardinality(Passed) \in Nat /\ Cardinality(Passed') = Cardinality(Passed) + 1
    BY <1>3, PassNext DEF AddEmpty
  <2>2. QED BY <1>t, <1>3, <2>1 DEF AddEmpty, CountFile, CountInv, queueVars, LoopPcs
<1>4. CASE AddFile
  <2>1. Cardinality(Passed) \in Nat /\ Cardinality(Passed') = Cardinality(Passed) + 1
    BY <1>4, PassNext DEF AddFile
  <2>2. QED BY <1>t, <1>4, <2>1 DEF AddFile, CountInv, LoopPcs
<1>5. CASE AddFails
  BY <1>t, <1>5 DEF AddFails, CallProcess, CountInv, queueVars, LoopPcs
<1>6. CASE EndWalk
  <2>1. Passed' = Passed BY <1>6 DEF EndWalk, Passed
  <2>2. next = Len(job) + 1
    BY <1>6, <1>t, JobFacts DEF EndWalk, IInv, TypeOK, ControlType
  <2>3. QED
    BY <1>t, <1>6, <2>1, <2>2 DEF EndWalk, CallProcess, CountInv, queueVars, LoopPcs
<1>7. CASE LoopExit
  <2>1. Passed' = Passed BY <1>7 DEF LoopExit, walkUnchanged, walkVars, Passed
  <2>2. QED
    BY <1>t, <1>7, <2>1
      DEF LoopExit, Running, CountInv, walkUnchanged, walkVars, queueVars, LoopPcs
<1>8. CASE LoopSkip \/ ReadEndSkip \/ JoinSetFl \/ WriteEndSkip \/ WriteOn \/ SplitFile \/ Display
           \/ OpenFile
  <2>1. /\ pc \in LoopPcs /\ pc' \in LoopPcs /\ cur_w' = cur_w /\ file_counter' = file_counter
        /\ error' = error /\ WalkKept
    BY <1>8 DEF walkUnchanged, queueVars, WalkKept, LoopSkip, ReadEndSkip, JoinSetFl, WriteEndSkip, WriteOn, SplitFile, SplitStep,
                WriteEnd, Display, OpenFile, OpenBoth, OpenGuard, LoopPcs
  <2>2. QED BY <2>1, CountLoop DEF WalkKept
<1>9. CASE SingleWrite \/ ReadAhead \/ LastRead \/ JoinMissing \/ JoinNext
  <2>1. IssueWrite
    BY <1>9 DEF SingleWrite, ReadAhead, LastRead, JoinMissing, JoinNext, JoinStep
  <2>2. cur_w' = cur_w /\ pc \in LoopPcs /\ file_counter' = file_counter /\ WalkKept
    BY <2>1, ReadEndSlot DEF IssueWrite, ReadEndGuard, LoopPcs, WalkKept
  <2>3. \/ pc' \in LoopPcs /\ error' = error
        \/ pc' = "cleanup" /\ error' # 0
    BY <1>9 DEF SingleWrite, ReadAhead, LastRead, JoinMissing, JoinNext, NoMoreReads, NextSlot,
                IssueRead, LoopPcs
  <2>4. QED BY <2>2, <2>3, CountLoop, CountLeave DEF WalkKept
<1>10. CASE OpenReadFails \/ OpenWriteFails \/ OpenFileAioFails \/ ReadEndFails \/ JoinOpenFails
            \/ JoinCloseFails \/ WriteEndError \/ FinishCloseFails \/ SplitCloseFails
            \/ SplitOpenFails
  <2>1. pc \in LoopPcs /\ pc' = "cleanup" /\ error' # 0 /\ WalkKept
    BY <1>10 DEF walkUnchanged, queueVars, WalkKept, OpenReadFails, OpenWriteFails, OpenFileAioFails, OpenBoth, NotOpened, OpenGuard,
                 ReadEndFails, ReadEndGuard, JoinOpenFails, JoinCloseFails, JoinStep, IssueWrite,
                 WriteEndError, FinishCloseFails, SplitCloseFails, SplitOpenFails, SplitStep,
                 WriteEnd, LoopPcs
  <2>2. QED BY <2>1, CountLeave
<1>11. CASE FinishFile
  <2>1. cur_w < fast_num_files
    BY <1>11, WriteEndSlot DEF FinishFile
  <2>2. Passed' = Passed
    BY <1>11 DEF FinishFile, WriteEnd, walkUnchanged, walkVars, Passed
  <2>3. QED
    BY <1>t, <1>11, <2>1, <2>2 DEF FinishFile, WriteEnd, CountFile, CountInv, walkUnchanged,
                                   walkVars, queueVars, LoopPcs
<1>12. CASE UserAbort
  BY <1>t, <1>12 DEF UserAbort, CountInv, walkVars, queueVars, LoopPcs
<1>13. CASE Cleanup
  <2>1. Passed' = Passed BY <1>13 DEF Cleanup, walkVars, Passed
  <2>2. QED BY <1>t, <1>13, <2>1 DEF Cleanup, CountInv, walkVars, LoopPcs
<1>14. CASE ReturnToAdd
  <2>1. Passed' = Passed BY <1>14 DEF ReturnToAdd, walkUnchanged, walkVars, Passed
  <2>2. QED
    BY <1>t, <1>14, <2>1 DEF ReturnToAdd, CountInv, walkUnchanged, walkVars, queueVars, LoopPcs
<1>15. CASE ReturnFailed
  BY <1>t, <1>15 DEF ReturnFailed, CallProcess, CountInv, queueVars, LoopPcs
<1>16. CASE Finish
  <2>1. Passed' = Passed BY <1>16 DEF Finish, Passed
  <2>2. /\ pc' = "done" /\ caller = "end" /\ caller' = caller /\ next' = next /\ job' = job
        /\ cur_w' = cur_w /\ cur_w = 0 /\ fast_num_files' = fast_num_files
        /\ error' = error /\ abort_copy' = abort_copy /\ file_counter' = file_counter
    BY <1>16 DEF Finish, queueVars, CountInv
  <2>3. failed' = (failed \/ error < 0)
    BY <1>16 DEF Finish
  <2>4. ~(error < 0) => error = 0
    BY <1>t
  <2>5. failed => failed'
    BY <2>3
  <2>6. ~failed' => ~failed /\ error = 0
    BY <2>3, <2>4
  <2>7. pc' \notin LoopPcs
    BY <2>2 DEF LoopPcs
  <2>8. QED BY <2>1, <2>2, <2>5, <2>6, <2>7 DEF CountInv
<1>17. CASE AioThread
  <2>1. copyUnchanged
    BY <1>17 DEF AioThread, ReadTransfer, fast_func_read, ReadError, WriteTransfer,
                 fast_func_write, WriteError
  <2>2. QED BY <2>1, CountAio
<1>18. CASE Terminated
  <2>1. Passed' = Passed BY <1>18 DEF Terminated, vars, walkVars, Passed
  <2>2. QED BY <1>18, <2>1 DEF Terminated, vars, walkVars, queueVars, CountInv, LoopPcs
<1>19. QED
  BY <1>1, <1>2, <1>3, <1>4, <1>5, <1>6, <1>7, <1>8, <1>9, <1>10, <1>11, <1>12, <1>13, <1>14,
     <1>15, <1>16, <1>17, <1>18
    DEF Next, CopyThread, Walk, OpenSection, ReadEndSection, WriteEndSection, Leaving

\* Every file passed is counted or queued in every state the copy goes well in.
LEMMA CountInductive == Spec => []CountInv
<1>1. Init => CountInv
  <2>1. SUFFICES ASSUME Init PROVE CountInv
    OBVIOUS
  <2>2. Passed = {}
    <3>1. Len(job) \in Nat /\ DOMAIN job = 1 .. Len(job)
      BY JobFacts DEF Init
    <3>2. next = 1
      BY <2>1 DEF Init
    <3>3. \A e \in DOMAIN job : ~(e < next)
      BY <3>1, <3>2
    <3>4. QED BY <3>3 DEF Passed
  <2>3. Cardinality(Passed) = 0
    BY <2>2, FS_EmptySet
  <2>4. /\ caller = "add" /\ pc = "walk" /\ cur_w = 0 /\ error = 0 /\ fast_num_files = 0
        /\ file_counter = 0 /\ abort_copy = FALSE
    BY <2>1, SMT DEF Init
  <2>5. QED BY <2>3, <2>4 DEF CountInv, LoopPcs
<1>2. IInv /\ CountInv /\ [Next]_vars /\ IInv' => CountInv'
  <2>1. SUFFICES ASSUME IInv, CountInv, [Next]_vars, IInv' PROVE CountInv'
    OBVIOUS
  <2>2. CASE UNCHANGED vars
    <3>1. /\ pc' = pc /\ caller' = caller /\ failed' = failed /\ next' = next /\ job' = job
          /\ error' = error /\ abort_copy' = abort_copy /\ file_counter' = file_counter
          /\ cur_w' = cur_w /\ fast_num_files' = fast_num_files
      BY <2>2 DEF vars, walkVars, queueVars
    <3>2. Passed' = Passed
      BY <3>1 DEF Passed
    <3>3. QED BY <2>1, <3>1, <3>2 DEF CountInv, LoopPcs
  <2>3. QED BY <2>1, <2>2, CountStep
<1>3. QED BY <1>1, <1>2, Inductive, PTL DEF Spec

\* The counter shown as (i/n) has counted each file once when the copy succeeds,
\* for every listing and every mix of faults.
THEOREM FilesCounted == Spec => []CountMatches
<1>1. IInv /\ CountInv => CountMatches
  <2>1. SUFFICES ASSUME IInv, CountInv, pc = "done", ~failed
                 PROVE  file_counter = Cardinality({e \in DOMAIN job : job[e].kind # "piece"})
    BY DEF CountMatches
  <2>2. next = Len(job) + 1 /\ DOMAIN job = 1 .. Len(job) /\ Len(job) \in Nat
    BY <2>1, JobFacts DEF CountInv, IInv, TypeOK, ControlType
  <2>3. Passed = {e \in DOMAIN job : job[e].kind # "piece"}
    BY <2>2 DEF Passed
  <2>4. fast_num_files = 0 /\ cur_w = 0 /\ file_counter \in Nat
    BY <2>1 DEF CountInv, IInv, RestInv, TypeOK, ControlType
  <2>5. file_counter + fast_num_files - cur_w = Cardinality(Passed)
    BY <2>1 DEF CountInv
  <2>6. QED BY <2>3, <2>4, <2>5
<1>2. QED BY <1>1, Inductive, CountInductive, PTL

-----------------------------------------------------------------------------
(* The sizes of the output fragments. *)

\* Each queued slot has an entry of its own, with the mode fast_copy_add gave it;
\* nothing is written for an entry before its slot is opened.
OwnInv ==
    /\ \A s \in Slots : s < fast_num_files =>
          /\ file[s].ent < next /\ (file[s].mode = 1 <=> ModeOf(file[s].ent) = 1)
          /\ file[s].mode = 1 => file[s].dbl /\ file[s].size_mem = FILESIZE_MAX
          /\ fl[s] = 1 => /\ disk[file[s].ent] = << >> /\ number_frag[s] = 0
                          /\ t_write[s].fd = -1
          /\ fl[s] = 1 /\ file[s].mode = 1 => giga_counter[s] = 0
          /\ \A r \in Slots : r < fast_num_files /\ file[r].ent = file[s].ent => r = s
    /\ \A e \in DOMAIN job : e >= next => disk[e] = << >>

\* What slot s has in its last output fragment.
LastLen(s) == Len(disk[file[s].ent][number_frag[s] + 1])

\* The slot that writes a split file: its last fragment holds giga_counter units
\* (and those of a write that has reached it), a whole number of buffers until the
\* last one, and a write that is issued still fits.
SplitSlot(s) ==
    /\ t_write[s].fd = number_frag[s]
    /\ Len(disk[file[s].ent]) = number_frag[s] + 1
    /\ aio_w[s] # "idle" => /\ writed[s] >= 0 /\ t_write[s].size > 0
                            /\ t_write[s].offset = giga_counter[s]
    /\ pc \in LoopPcs /\ readed[s] >= 0 /\ (aio_r[s] # "idle" \/ fl[s] = 3) =>
          /\ t_read[s].size <= FILESIZE_MAX
          /\ \/ t_read[s].size = FILESIZE_MAX
             \/ readed[s] + (IF aio_r[s] = "idle" THEN 0 ELSE t_read[s].size) >= len[s]
    /\ writed[s] >= 0 =>
          /\ giga_counter[s] >= 0 /\ giga_counter[s] + Pending(s) <= GIGA
          /\ LastLen(s) = giga_counter[s] + (IF aio_w[s] = "moved" THEN t_write[s].size ELSE 0)
          /\ writed[s] + Pending(s) < len[s] => Whole(giga_counter[s] + Pending(s))
          /\ pc \in LoopPcs /\ fast_writing = 0 /\ writed[s] < len[s] => giga_counter[s] < GIGA

SplitSlots == \A s \in Slots : t_write[s].fd # -1 /\ file[s].mode = 1 => SplitSlot(s)

SplitInv == OwnInv /\ SplitSizes /\ SplitSlots
\* Whole buffers: one more is whole, and below a whole number there is room for one.
LEMMA WholeBuffers ==
  /\ Whole(0)
  /\ \A a \in Nat : Whole(a) => Whole(a + FILESIZE_MAX)
  /\ \A a, b \in Nat : Whole(a) /\ Whole(b) /\ a < b => a + FILESIZE_MAX <= b
<1>f. FILESIZE_MAX \in Nat /\ FILESIZE_MAX >= 1
  BY SizesAssumption
<1>1. Whole(0)
  <2>1. 0 \in 0 .. 0 /\ 0 = 0 * FILESIZE_MAX
    BY <1>f
  <2>2. QED BY <2>1 DEF Whole
<1>2. ASSUME NEW a \in Nat, Whole(a)
      PROVE  Whole(a + FILESIZE_MAX)
  <2>1. PICK m \in 0 .. a : a = m * FILESIZE_MAX
    BY <1>2 DEF Whole
  <2>2. m + 1 \in 0 .. a + FILESIZE_MAX
    BY <1>f, <2>1
  <2>3. a + FILESIZE_MAX = (m + 1) * FILESIZE_MAX
    BY <1>f, <2>1
  <2>4. QED BY <2>2, <2>3 DEF Whole
<1>3. ASSUME NEW a \in Nat, NEW b \in Nat, Whole(a), Whole(b), a < b
      PROVE  a + FILESIZE_MAX <= b
  <2>1. PICK m \in 0 .. a : a = m * FILESIZE_MAX
    BY <1>3 DEF Whole
  <2>2. PICK n \in 0 .. b : b = n * FILESIZE_MAX
    BY <1>3 DEF Whole
  <2>3. m < n
    <3>1. SUFFICES ASSUME n <= m PROVE n * FILESIZE_MAX <= m * FILESIZE_MAX
      BY <1>3, <2>1, <2>2
    <3>2. m - n \in Nat
      BY <3>1
    <3>3. (m - n) * FILESIZE_MAX \in Nat
      BY <1>f, <3>2
    <3>4. m * FILESIZE_MAX = n * FILESIZE_MAX + (m - n) * FILESIZE_MAX
      BY <1>f
    <3>5. n * FILESIZE_MAX \in Nat /\ m * FILESIZE_MAX \in Nat
      BY <1>f
    <3>6. QED BY <3>3, <3>4, <3>5
  <2>4. n - (m + 1) \in Nat
    BY <2>3
  <2>5. (n - (m + 1)) * FILESIZE_MAX \in Nat
    BY <1>f, <2>4
  <2>6. n * FILESIZE_MAX = m * FILESIZE_MAX + FILESIZE_MAX + (n - (m + 1)) * FILESIZE_MAX
    BY <1>f
  <2>7. QED BY <1>f, <2>1, <2>2, <2>5, <2>6
<1>4. QED BY <1>1, <1>2, <1>3

\* A write at the end of what a fragment holds makes it longer by what is written.
LEMMA WriteAtEnd ==
  ASSUME NEW seq \in Seq(Unit), NEW data \in Seq(Unit)
  PROVE  Len(WriteAt(seq, Len(seq), data)) = Len(seq) + Len(data)
<1>1. Len(seq) \in Nat /\ Len(data) \in Nat
  OBVIOUS
<1>2. (IF Len(seq) >= Len(seq) + Len(data) THEN Len(seq) ELSE Len(seq) + Len(data))
         = Len(seq) + Len(data)
  BY <1>1
<1>3. DOMAIN WriteAt(seq, Len(seq), data) = 1 .. Len(seq) + Len(data)
  BY <1>2 DEF WriteAt
<1>4. WriteAt(seq, Len(seq), data) \in Seq(Unit)
  BY <1>1, WriteAtType
<1>5. QED BY <1>1, <1>3, <1>4

\* A write at the end of the fragment that a slot has open lengthens it alone.
LEMMA SentEnd ==
  ASSUME IInv, NEW s \in Slots, NEW n \in Nat,
         t_write[s].fd # -1, t_write[s].fd + 1 <= Len(disk[file[s].ent]),
         t_write[s].offset = Len(disk[file[s].ent][t_write[s].fd + 1])
  PROVE  /\ \A e \in DOMAIN job : e # file[s].ent => Sent(s, n)[e] = disk[e]
         /\ Len(Sent(s, n)[file[s].ent]) = Len(disk[file[s].ent])
         /\ \A k \in DOMAIN disk[file[s].ent] :
               Len(Sent(s, n)[file[s].ent][k]) =
                  IF k = t_write[s].fd + 1 THEN Len(disk[file[s].ent][k]) + n
                  ELSE Len(disk[file[s].ent][k])
<1> DEFINE e == file[s].ent
           k == t_write[s].fd + 1
           data == [i \in 1 .. n |-> UnitAt(BufferOf(s), i)]
<1>1. /\ e \in DOMAIN job /\ t_write[s].fd \in Nat
  BY SlotTypes DEF IInv, TypeOK, FdType
<1>2. disk \in [DOMAIN job -> Seq(Seq(Unit))]
  BY DEF IInv, TypeOK, KernelType
<1>3. disk[e] \in Seq(Seq(Unit)) /\ k \in DOMAIN disk[e] /\ disk[e][k] \in Seq(Unit)
  BY <1>1, <1>2
<1>4. data \in Seq(Unit) /\ Len(data) = n
  <2>1. mem \in [Slots -> [lo : Seq(Unit), hi : Seq(Unit)]]
    BY DEF IInv, TypeOK, KernelType
  <2>2. BufferOf(s) \in Seq(Unit)
    BY <2>1 DEF BufferOf
  <2>3. \A i : UnitAt(BufferOf(s), i) \in Unit
    BY <2>2 DEF UnitAt, Unit
  <2>4. data \in [1 .. n -> Unit]
    BY <2>3
  <2>5. data \in Seq(Unit)
    BY <2>4, UnitSeq
  <2>6. DOMAIN data = 1 .. n
    OBVIOUS
  <2>7. QED BY <2>5, <2>6
<1>5. Len(WriteAt(disk[e][k], Len(disk[e][k]), data)) = Len(disk[e][k]) + n
  BY <1>3, <1>4, WriteAtEnd
<1> DEFINE new == WriteAt(disk[e][k], Len(disk[e][k]), data)
<1>6. Sent(s, n) = [disk EXCEPT ![e][k] = new]
  BY DEF Sent
<1> HIDE DEF new, data, k
<1>7. Sent(s, n)[e] = [disk[e] EXCEPT ![k] = new]
  BY <1>1, <1>2, <1>6
<1>8. Len(Sent(s, n)[e]) = Len(disk[e])
  BY <1>3, <1>7
<1>9. \A j \in DOMAIN disk[e] : Sent(s, n)[e][j] = IF j = k THEN new ELSE disk[e][j]
  BY <1>3, <1>7
<1>10. \A x \in DOMAIN job : x # e => Sent(s, n)[x] = disk[x]
  BY <1>1, <1>2, <1>6
<1>11. Len(new) = Len(disk[e][k]) + n
  BY <1>5 DEF new
<1>12. QED BY <1>8, <1>9, <1>10, <1>11 DEF k

\* Entries and slots are numbers.
LEMMA Numbers ==
  ASSUME IInv
  PROVE  /\ next \in Int /\ fast_num_files \in Nat /\ cur_r \in Nat /\ cur_w \in Nat
         /\ \A s \in Slots : s \in Nat
         /\ \A e \in DOMAIN job : e \in Int
         /\ \A s \in Slots : file[s].ent \in DOMAIN job /\ file[s].ent \in Int
<1>1. Len(job) \in Nat /\ DOMAIN job = 1 .. Len(job) /\ next \in Int
  BY JobFacts DEF IInv, TypeOK, ControlType
<1>2. fast_num_files \in Nat /\ cur_r \in Nat /\ cur_w \in Nat
  BY SizesAssumption DEF IInv, TypeOK, EngineType
<1>3. \A s \in Slots : s \in Nat
  BY DEF Slots
<1>4. \A s \in Slots : file[s].ent \in DOMAIN job
  BY SlotTypes DEF IInv, TypeOK
<1>5. QED BY <1>1, <1>2, <1>3, <1>4

\* Steps that queue nothing keep the slots apart, if they leave the slots that are
\* still to be opened alone and write for a slot that is open.
LEMMA OwnFrame ==
  ASSUME IInv, OwnInv, NEW c \in Slots,
         job' = job, copy_mode' = copy_mode, next' = next, file' = file,
         fast_num_files' \in {fast_num_files, 0},
         \A s \in Slots : fl'[s] = 1 =>
             /\ fl[s] = 1 /\ number_frag'[s] = number_frag[s]
             /\ giga_counter'[s] = giga_counter[s] /\ t_write'[s].fd = -1,
         \A e \in DOMAIN job : e # file[c].ent => disk'[e] = disk[e],
         disk' = disk \/ (c < fast_num_files /\ fl'[c] # 1)
  PROVE  OwnInv'
<1>1. /\ next \in Int /\ fast_num_files \in Nat /\ \A s \in Slots : s \in Nat
      /\ \A s \in Slots : file[s].ent \in DOMAIN job /\ file[s].ent \in Int
  BY Numbers
<1>2. ASSUME NEW s \in Slots, s < fast_num_files'
      PROVE  /\ file'[s].ent < next' /\ (file'[s].mode = 1 <=> ModeOf(file[s].ent)' = 1)
             /\ file'[s].mode = 1 => file'[s].dbl /\ file'[s].size_mem = FILESIZE_MAX
             /\ fl'[s] = 1 => /\ disk'[file'[s].ent] = << >> /\ number_frag'[s] = 0
                              /\ t_write'[s].fd = -1
             /\ fl'[s] = 1 /\ file'[s].mode = 1 => giga_counter'[s] = 0
             /\ \A r \in Slots : r < fast_num_files' /\ file'[r].ent = file'[s].ent => r = s
  <2>1. s < fast_num_files /\ \A r \in Slots : r < fast_num_files' => r < fast_num_files
    BY <1>1, <1>2
  <2>2. /\ file[s].ent < next /\ (file[s].mode = 1 <=> ModeOf(file[s].ent) = 1)
        /\ file[s].mode = 1 => file[s].dbl /\ file[s].size_mem = FILESIZE_MAX
        /\ fl[s] = 1 => disk[file[s].ent] = << >> /\ number_frag[s] = 0
        /\ fl[s] = 1 /\ file[s].mode = 1 => giga_counter[s] = 0
        /\ \A r \in Slots : r < fast_num_files /\ file[r].ent = file[s].ent => r = s
    BY <2>1 DEF OwnInv
  <2>3. ModeOf(file[s].ent)' = ModeOf(file[s].ent)
    BY DEF ModeOf
  <2>4. fl'[s] = 1 => disk'[file[s].ent] = disk[file[s].ent]
    BY <1>1, <2>1, <2>2
  <2>5. QED BY <2>1, <2>2, <2>3, <2>4
<1>3. ASSUME NEW e \in DOMAIN job, e >= next PROVE disk'[e] = << >>
  <2>1. disk[e] = << >>
    BY <1>3 DEF OwnInv
  <2>2. c < fast_num_files => file[c].ent < next
    BY DEF OwnInv
  <2>3. c < fast_num_files => e # file[c].ent
    BY <1>1, <1>3, <2>2
  <2>4. QED BY <1>3, <2>1, <2>3
<1>4. QED BY <1>2, <1>3 DEF OwnInv

\* The mode fast_copy_add fixes: one of those of the entry, to split it only when it must.
LEMMA AddedMode ==
  ASSUME IInv, AddFile
  PROVE  \E mode \in ModesOf(next) :
           LET size == job[next].frags[1] IN
           /\ mode = 1 <=> ModeOf(next) = 1
           /\ file' = [file EXCEPT ![fast_num_files] =
                  [ent |-> next, mode |-> mode, dbl |-> size >= FILESIZE_MAX,
                   size_mem |-> IF size >= FILESIZE_MAX THEN FILESIZE_MAX ELSE size]]
           /\ missed' = IF mode # ModeOf(next) /\ Fragmented(next) THEN missed \cup {next}
                        ELSE missed
           /\ giga_counter' = IF mode = 1 THEN [giga_counter EXCEPT ![fast_num_files] = 0]
                              ELSE giga_counter
<1>1. job \in Jobs /\ next \in DOMAIN job
  BY DEF IInv, TypeOK, ControlType, AddFile
<1>2. ASSUME NEW mode \in ModesOf(next) PROVE mode = 1 <=> ModeOf(next) = 1
  <2>1. CASE mode = ModeOf(next)
    BY <2>1
  <2>2. CASE mode # ModeOf(next)
    <3>1. mode = 0 /\ job[next].kind = "part"
      BY <1>2, <2>2 DEF ModesOf
    <3>2. job[next].frags[1] < SPLIT_MIN
      BY <1>1, <3>1, FragmentsAssumption
    <3>3. job[next].frags[1] \in Nat
      BY <1>1, JobFacts
    <3>4. ~(job[next].frags[1] >= SPLIT_MIN)
      BY <3>2, <3>3, SizesAssumption
    <3>5. QED BY <3>1, <3>4 DEF ModeOf
  <2>3. QED BY <2>1, <2>2
<1>3. QED BY <1>2 DEF AddFile

\* The entry that is queued gets a slot that is not in use.
LEMMA OwnAdd ==
  ASSUME IInv, OwnInv, AddFile
  PROVE  OwnInv'
<1>1. /\ next \in Int /\ next \in DOMAIN job /\ fast_num_files \in Nat
      /\ fast_num_files \in Slots /\ next' = next + 1 /\ fast_num_files' = fast_num_files + 1
      /\ job' = job /\ copy_mode' = copy_mode /\ disk' = disk
      /\ \A s \in Slots : s \in Nat
      /\ \A s \in Slots : file[s].ent \in DOMAIN job /\ file[s].ent \in Int
  <2>1. fast_num_files \in Slots
    BY SizesAssumption DEF IInv, TypeOK, EngineType, Slots, AddFile, QueueFull
  <2>2. QED BY <2>1, Numbers DEF AddFile
<1> DEFINE n == fast_num_files
<1>2. /\ file'[n].ent = next /\ (file'[n].mode = 1 <=> ModeOf(next) = 1)
      /\ file'[n].dbl = (job[next].frags[1] >= FILESIZE_MAX)
      /\ file'[n].dbl => file'[n].size_mem = FILESIZE_MAX
  <2>1. PICK mode : /\ mode = 1 <=> ModeOf(next) = 1
                    /\ file' = [file EXCEPT ![n] =
                          [ent |-> next, mode |-> mode,
                           dbl |-> job[next].frags[1] >= FILESIZE_MAX,
                           size_mem |-> IF job[next].frags[1] >= FILESIZE_MAX
                                        THEN FILESIZE_MAX ELSE job[next].frags[1]]]
    BY <1>1, AddedMode
  <2>2. DOMAIN file = Slots
    BY DEF IInv, TypeOK, QueueType
  <2>3. /\ file'[n].ent = next /\ file'[n].mode = mode
        /\ file'[n].dbl = (job[next].frags[1] >= FILESIZE_MAX)
        /\ file'[n].size_mem = IF job[next].frags[1] >= FILESIZE_MAX THEN FILESIZE_MAX
                               ELSE job[next].frags[1]
    BY <1>1, <2>1, <2>2
  <2>4. QED BY <2>1, <2>3
<1>3. /\ number_frag'[n] = 0 /\ t_write'[n].fd = -1
      /\ ModeOf(next) = 1 => giga_counter'[n] = 0
  <2>1. number_frag'[n] = 0 /\ t_write'[n].fd = -1
    BY <1>1 DEF AddFile, IInv, TypeOK, QueueType, AioType
  <2>2. ModeOf(next) = 1 => giga_counter' = [giga_counter EXCEPT ![n] = 0]
    BY AddedMode
  <2>3. QED BY <1>1, <2>1, <2>2 DEF IInv, TypeOK, QueueType
<1>4. \A s \in Slots : s # n =>
        /\ file'[s] = file[s] /\ fl'[s] = fl[s] /\ number_frag'[s] = number_frag[s]
        /\ giga_counter'[s] = giga_counter[s] /\ t_write'[s] = t_write[s]
  BY <1>1 DEF AddFile, IInv, TypeOK, QueueType
<1>5. \A e : ModeOf(e)' = ModeOf(e)
  BY <1>1 DEF ModeOf
<1>6. ModeOf(next) = 1 => job[next].frags[1] >= FILESIZE_MAX
  <2>1. job[next].frags[1] \in Int /\ FILESIZE_MAX \in Int /\ SPLIT_MIN \in Int
    BY <1>1, JobFacts, SizesAssumption DEF IInv, TypeOK, ControlType
  <2>2. SPLIT_MIN >= FILESIZE_MAX
    BY RatiosAssumption
  <2>3. ModeOf(next) = 1 => job[next].frags[1] >= SPLIT_MIN
    BY DEF ModeOf
  <2>4. QED BY <2>1, <2>2, <2>3
<1>7. \A s \in Slots : s < n =>
        /\ file[s].ent < next /\ (file[s].mode = 1 <=> ModeOf(file[s].ent) = 1)
        /\ file[s].mode = 1 => file[s].dbl /\ file[s].size_mem = FILESIZE_MAX
        /\ fl[s] = 1 => /\ disk[file[s].ent] = << >> /\ number_frag[s] = 0
                        /\ t_write[s].fd = -1
        /\ fl[s] = 1 /\ file[s].mode = 1 => giga_counter[s] = 0
        /\ \A r \in Slots : r < n /\ file[r].ent = file[s].ent => r = s
  BY DEF OwnInv
<1>8. \A e \in DOMAIN job : e >= next => disk[e] = << >>
  BY DEF OwnInv
<1>9. \A s \in Slots : s < n + 1 => s = n \/ (s < n /\ s # n)
  BY <1>1
<1>10. ASSUME NEW s \in Slots, s < fast_num_files'
       PROVE  /\ file'[s].ent < next' /\ (file'[s].mode = 1 <=> ModeOf(file'[s].ent) = 1)
              /\ file'[s].mode = 1 => file'[s].dbl /\ file'[s].size_mem = FILESIZE_MAX
              /\ fl'[s] = 1 => /\ disk'[file'[s].ent] = << >> /\ number_frag'[s] = 0
                               /\ t_write'[s].fd = -1
              /\ fl'[s] = 1 /\ file'[s].mode = 1 => giga_counter'[s] = 0
              /\ \A r \in Slots : r < fast_num_files' /\ file'[r].ent = file'[s].ent => r = s
  <2>1. CASE s = n
    <3>1. disk[next] = << >>
      BY <1>1, <1>8
    <3>2. ASSUME NEW r \in Slots, r < n PROVE file'[r].ent # next
      <4>1. r # n
        BY <1>1, <3>2
      <4>2. file'[r] = file[r]
        BY <1>4, <4>1
      <4>3. file[r].ent < next /\ file[r].ent \in Int
        BY <1>1, <1>7, <3>2
      <4>4. QED BY <1>1, <4>2, <4>3
    <3>3. \A r \in Slots : r < fast_num_files' /\ file'[r].ent = file'[s].ent => r = s
      BY <1>1, <1>2, <1>9, <2>1, <3>2
    <3>4. file'[n].mode = 1 => file'[n].dbl /\ file'[n].size_mem = FILESIZE_MAX
      BY <1>2, <1>6, Zenon
    <3>5. next < next + 1
      BY <1>1
    <3>6. file'[n].ent < next' /\ (file'[n].mode = 1 <=> ModeOf(file'[n].ent) = 1)
      BY <1>1, <1>2, <3>5
    <3>7. /\ disk'[file'[n].ent] = << >>
          /\ file'[n].mode = 1 => giga_counter'[n] = 0
      BY <1>1, <1>2, <1>3, <3>1
    <3>8. QED BY <1>3, <2>1, <3>3, <3>4, <3>6, <3>7
  <2>2. CASE s < n /\ s # n
    <3>1. file[s].ent # next /\ file[s].ent < next + 1
      <4>1. file[s].ent < next
        BY <1>7, <2>2
      <4>2. file[s].ent \in Int /\ next \in Int
        BY <1>1
      <4>3. QED BY <4>1, <4>2
    <3>2. \A r \in Slots : r < n + 1 /\ file'[r].ent = file[s].ent => r = s
      BY <1>2, <1>4, <1>7, <1>9, <2>2, <3>1
    <3>3. QED BY <1>1, <1>4, <1>7, <2>2, <3>1, <3>2
  <2>3. QED BY <1>1, <1>9, <1>10, <2>1, <2>2
<1>11. \A e \in DOMAIN job : e >= next' => disk'[e] = << >>
  BY <1>1, <1>8, JobFacts DEF IInv, TypeOK, ControlType
<1>12. QED BY <1>1, <1>5, <1>10, <1>11 DEF OwnInv

\* A slot that waits to be opened writes nothing.
LEMMA WaitingWritesNothing ==
  ASSUME IInv, OwnInv
  PROVE  \A s \in Slots : fl[s] = 1 => t_write[s].fd = -1
<1>1. \A s \in Slots : s < fast_num_files \/ Quiet(s)
  BY DEF IInv, SlotInv
<1>2. QED BY <1>1 DEF OwnInv, Quiet

\* The walk goes on to the next entry, and may create the one it leaves.
LEMMA OwnNext ==
  ASSUME IInv, OwnInv, next \in DOMAIN job, next' = next + 1,
         \A e \in DOMAIN job : e # next => disk'[e] = disk[e],
         UNCHANGED <<job, copy_mode, slotVars, queueVars>>
  PROVE  OwnInv'
<1>1. /\ fast_num_files' = fast_num_files /\ file' = file /\ fl' = fl /\ job' = job
      /\ number_frag' = number_frag /\ giga_counter' = giga_counter /\ t_write' = t_write
      /\ copy_mode' = copy_mode
  BY DEF slotVars, fragVars, queueVars
<1>2. \A e : ModeOf(e)' = ModeOf(e)
  BY <1>1 DEF ModeOf
<1>3. \A s \in Slots : s < fast_num_files =>
        file[s].ent < next + 1 /\ disk'[file[s].ent] = disk[file[s].ent]
  BY Numbers DEF OwnInv
<1>4. \A e \in DOMAIN job : e >= next + 1 => e >= next /\ e # next
  BY Numbers
<1>5. QED BY <1>1, <1>2, <1>3, <1>4 DEF OwnInv

\* A step that changes no entry, no fragment and no count of them keeps the slots apart.
LEMMA OwnSame ==
  ASSUME IInv, OwnInv,
         UNCHANGED <<job, copy_mode, next, file, disk, number_frag, giga_counter>>,
         fast_num_files' \in {fast_num_files, 0},
         \A s \in Slots : t_write'[s].fd \in {t_write[s].fd, -1},
         \A s \in Slots : fl'[s] = 1 => fl[s] = 1
  PROVE  OwnInv'
<1>1. PICK c \in Slots : TRUE
  BY SizesAssumption DEF Slots
<1>2. QED BY <1>1, OwnFrame, WaitingWritesNothing

\* Every step keeps the slots apart.
LEMMA OwnStep ==
  ASSUME IInv, OwnInv, Next
  PROVE  OwnInv'
<1> USE DEF GoTo, Leave, CallProcess, walkUnchanged, walkVars, queueVars, slotVars, fragVars,
            kernVars
<1>t. /\ fl \in [Slots -> 0 .. 5] /\ number_frag \in [Slots -> Nat]
      /\ giga_counter \in [Slots -> Int] /\ t_write \in [Slots -> AioType]
      /\ disk \in [DOMAIN job -> Seq(Seq(Unit))]
  BY DEF IInv, TypeOK, QueueType, KernelType
<1>w. \A s \in Slots : fl[s] = 1 => t_write[s].fd = -1
  BY WaitingWritesNothing
<1>1. CASE AddFlush \/ AddFails \/ EndWalk \/ LoopExit \/ LoopSkip \/ ReadEndSkip \/ ReadEndFails
           \/ WriteEndSkip \/ WriteEndError \/ FinishCloseFails \/ SplitCloseFails \/ WriteOn
           \/ Display \/ UserAbort \/ ReturnToAdd \/ ReturnFailed \/ Finish
  <2>1. /\ UNCHANGED <<job, copy_mode, next, file, disk, number_frag, giga_counter, fast_num_files,
                       t_write, fl>>
    BY <1>1 DEF AddFlush, AddFails, EndWalk, LoopExit, LoopSkip, ReadEndSkip, ReadEndFails,
                WriteEndSkip, WriteEndError, WriteEnd, FinishCloseFails, SplitCloseFails,
                SplitStep, WriteOn, Display, UserAbort, ReturnToAdd, ReturnFailed, Finish
  <2>2. QED BY <2>1, OwnSame
<1>2. CASE AddPiece
  <2>1. QED BY <1>2, OwnNext DEF AddPiece
<1>3. CASE AddEmpty
  <2>1. \A e \in DOMAIN job : e # next => disk'[e] = disk[e]
    BY <1>t, <1>3 DEF AddEmpty
  <2>2. QED BY <1>3, <2>1, OwnNext DEF AddEmpty
<1>4. CASE AddFile
  BY <1>4, OwnAdd
<1>5. CASE OpenReadFails \/ OpenWriteFails
  <2>1. /\ UNCHANGED <<job, copy_mode, next, file, disk, number_frag, giga_counter, fast_num_files,
                       fl>>
        /\ t_write' = [t_write EXCEPT ![cur_r].fd = -1]
    BY <1>5 DEF OpenReadFails, OpenWriteFails, NotOpened, ResetCounters
  <2>2. \A s \in Slots : t_write'[s].fd \in {t_write[s].fd, -1}
    BY <1>t, <2>1 DEF AioType
  <2>3. QED BY <2>1, <2>2, OwnSame
<1>6. CASE OpenFile \/ OpenFileAioFails
  <2>1. OpenBoth
    BY <1>6 DEF OpenFile, OpenFileAioFails
  <2>2. cur_r \in Slots /\ cur_r < fast_num_files
    BY <2>1, OpenSlot DEF OpenBoth, OpenGuard
  <2>3. /\ UNCHANGED <<job, copy_mode, next, file, number_frag, giga_counter, fast_num_files>>
    BY <2>1 DEF OpenBoth, ResetCounters
  <2>4. fl'[cur_r] = 2
    BY <1>t, <2>1, <2>2 DEF OpenBoth
  <2>5. \A s \in Slots : s # cur_r => fl'[s] = fl[s] /\ t_write'[s] = t_write[s]
    BY <1>t, <2>1 DEF OpenBoth
  <2>6. \A e \in DOMAIN job : e # file[cur_r].ent => disk'[e] = disk[e]
    BY <1>t, <2>1 DEF OpenBoth
  <2>7. QED BY <1>w, <2>2, <2>3, <2>4, <2>5, <2>6, OwnFrame
<1>7. CASE SingleWrite \/ ReadAhead \/ LastRead \/ JoinMissing \/ JoinNext \/ JoinOpenFails
           \/ JoinCloseFails
  <2>1. IssueWrite
    BY <1>7 DEF SingleWrite, ReadAhead, LastRead, JoinMissing, JoinNext, JoinOpenFails,
                JoinCloseFails, JoinStep
  <2>2. cur_r \in Slots /\ fl[cur_r] = 3
    BY <2>1, ReadEndSlot DEF IssueWrite, ReadEndGuard
  <2>3. UNCHANGED <<job, copy_mode, next, file, disk, giga_counter, fast_num_files>>
    BY <2>1 DEF IssueWrite
  <2>4. fl'[cur_r] # 1
    BY <1>t, <1>7, <2>2 DEF SingleWrite, ReadAhead, LastRead, JoinMissing, JoinNext, JoinOpenFails,
                JoinCloseFails, JoinStep
  <2>5. \A s \in Slots : s # cur_r =>
           fl'[s] = fl[s] /\ t_write'[s] = t_write[s] /\ number_frag'[s] = number_frag[s]
    <3>1. \A s \in Slots : s # cur_r => t_write'[s] = t_write[s]
      BY <1>t, <2>1 DEF IssueWrite
    <3>2. \A s \in Slots : s # cur_r => fl'[s] = fl[s] /\ number_frag'[s] = number_frag[s]
      BY <1>t, <1>7 DEF SingleWrite, ReadAhead, LastRead, JoinMissing, JoinNext, JoinOpenFails,
                JoinCloseFails, JoinStep
    <3>3. QED BY <3>1, <3>2
  <2>6. QED BY <1>w, <2>2, <2>3, <2>4, <2>5, OwnFrame
<1>8. CASE JoinSetFl
  <2>1. /\ UNCHANGED <<job, copy_mode, next, file, disk, number_frag, giga_counter, fast_num_files,
                       t_write>>
        /\ fl' = [fl EXCEPT ![cur_r] = 2]
    BY <1>8 DEF JoinSetFl
  <2>2. \A s \in Slots : fl'[s] = 1 => fl[s] = 1
    BY <1>t, <2>1
  <2>3. QED BY <2>1, <2>2, OwnSame
<1>9. CASE FinishFile
  <2>1. /\ UNCHANGED <<job, copy_mode, next, file, disk, number_frag, giga_counter, fast_num_files>>
        /\ fl' = [fl EXCEPT ![cur_w] = 4] /\ t_write' = [t_write EXCEPT ![cur_w].fd = -1]
    BY <1>9 DEF FinishFile, WriteEnd
  <2>2. \A s \in Slots : fl'[s] = 1 => fl[s] = 1
    BY <1>t, <2>1
  <2>3. \A s \in Slots : t_write'[s].fd \in {t_write[s].fd, -1}
    BY <1>t, <2>1 DEF AioType
  <2>4. QED BY <2>1, <2>2, <2>3, OwnSame
<1>10. CASE SplitFile \/ SplitOpenFails
  <2>1. /\ cur_w \in Slots /\ cur_w < fast_num_files /\ t_write[cur_w].fd # -1
    BY <1>10, WriteEndSlot DEF SplitFile, SplitOpenFails, SplitStep
  <2>2. fl[cur_w] # 1
    BY <1>w, <2>1
  <2>3. UNCHANGED <<job, copy_mode, next, file, fl, fast_num_files>>
    BY <1>10 DEF SplitFile, SplitOpenFails, SplitStep, WriteEnd
  <2>4. \A s \in Slots : s # cur_w =>
           /\ number_frag'[s] = number_frag[s] /\ giga_counter'[s] = giga_counter[s]
           /\ t_write'[s] = t_write[s]
    BY <1>t, <1>10 DEF SplitFile, SplitOpenFails, NextFrag
  <2>5. \A e \in DOMAIN job : e # file[cur_w].ent => disk'[e] = disk[e]
    BY <1>t, <1>10 DEF SplitFile, SplitOpenFails
  <2>6. QED BY <1>w, <2>1, <2>2, <2>3, <2>4, <2>5, OwnFrame
<1>11. CASE Cleanup
  <2>1. /\ UNCHANGED <<job, copy_mode, next, file, fl, disk, number_frag, giga_counter>>
        /\ fast_num_files' = 0 /\ t_write' = Closed(t_write)
    BY <1>11 DEF Cleanup
  <2>2. \A s \in Slots : t_write'[s].fd \in {t_write[s].fd, -1}
    BY <1>t, <2>1 DEF Closed, AioType
  <2>3. QED BY <2>1, <2>2, OwnSame
<1>12. ASSUME NEW s \in Slots, ReadTransfer(s) \/ fast_func_read(s) \/ ReadError(s)
       PROVE  OwnInv'
  <2>1. /\ UNCHANGED <<job, copy_mode, next, file, disk, number_frag, giga_counter, fast_num_files,
                       t_write>>
        /\ fl' = fl \/ fl' = [fl EXCEPT ![s] = 3]
    BY <1>12 DEF ReadTransfer, fast_func_read, ReadError, copyUnchanged
  <2>2. \A r \in Slots : fl'[r] = 1 => fl[r] = 1
    BY <1>t, <2>1
  <2>3. QED BY <2>1, <2>2, OwnSame
<1>13. ASSUME NEW s \in Slots, WriteTransfer(s) \/ fast_func_write(s) \/ WriteError(s)
       PROVE  OwnInv'
  <2>1. s < fast_num_files /\ t_write[s].fd # -1
    BY <1>13 DEF IInv, SlotInv, Quiet, WriteTransfer, fast_func_write, WriteError
  <2>2. fl[s] # 1
    BY <1>w, <2>1
  <2>3. UNCHANGED <<job, copy_mode, next, file, fl, number_frag, fast_num_files, t_write>>
    BY <1>13 DEF WriteTransfer, fast_func_write, WriteError, copyUnchanged
  <2>4. \A r \in Slots : r # s => giga_counter'[r] = giga_counter[r]
    BY <1>t, <1>13 DEF WriteTransfer, fast_func_write, WriteError
  <2>5. \A e \in DOMAIN job : e # file[s].ent => disk'[e] = disk[e]
    BY <1>t, <1>13 DEF WriteTransfer, fast_func_write, WriteError, Sent
  <2>6. QED BY <1>w, <2>1, <2>2, <2>3, <2>4, <2>5, OwnFrame
<1>14. CASE Terminated
  <2>1. UNCHANGED <<job, copy_mode, next, file, disk, number_frag, giga_counter, fast_num_files,
                    t_write, fl>>
    BY <1>14 DEF Terminated, vars
  <2>2. QED BY <2>1, OwnSame
<1>15. QED
  BY <1>1, <1>2, <1>3, <1>4, <1>5, <1>6, <1>7, <1>8, <1>9, <1>10, <1>11, <1>12, <1>13, <1>14
    DEF Next, CopyThread, Walk, OpenSection, ReadEndSection, WriteEndSection, Leaving, AioThread

\* The numbers of a slot.
LEMMA SlotNumbers ==
  ASSUME IInv, NEW s \in Slots
  PROVE  /\ readed[s] \in Int /\ writed[s] \in Int /\ len[s] \in Int
         /\ giga_counter[s] \in Int /\ number_frag[s] \in Nat
         /\ t_read[s].size \in Int /\ t_write[s].size \in Int /\ t_write[s].offset \in Int
         /\ file[s].ent \in DOMAIN job /\ disk[file[s].ent] \in Seq(Seq(Unit))
         /\ GIGA \in Nat /\ GIGA > 0 /\ FILESIZE_MAX \in Nat /\ FILESIZE_MAX > 0
<1>1. t_write[s].offset \in Int
  BY DEF IInv, TypeOK, QueueType, AioType
<1>2. disk[file[s].ent] \in Seq(Seq(Unit))
  BY SlotTypes DEF IInv, TypeOK, KernelType
<1>3. QED BY <1>1, <1>2, SlotTypes, SizesAssumption DEF IInv, TypeOK

\* A step that leaves the numbers of a slot alone keeps what its fragments are.
LEMMA SlotKept ==
  ASSUME SplitSlots,
         UNCHANGED <<disk, file, number_frag, giga_counter, aio_w, writed, readed, len>>,
         \A s \in Slots : /\ t_write'[s] = t_write[s] /\ t_read'[s].size = t_read[s].size
                          /\ fl'[s] = 3 => fl[s] = 3
                          /\ aio_r'[s] = "idle" <=> aio_r[s] = "idle",
         pc' \in LoopPcs => pc \in LoopPcs /\ fast_writing' = fast_writing
  PROVE  SplitSlots'
<1> SUFFICES ASSUME NEW s \in Slots, t_write'[s].fd # -1, file'[s].mode = 1
             PROVE  SplitSlot(s)'
  BY DEF SplitSlots
<1>1. SplitSlot(s)
  BY DEF SplitSlots
<1>2. LastLen(s)' = LastLen(s) /\ Pending(s)' = Pending(s)
  BY DEF LastLen, Pending
<1>3. \A n : Whole(n)' = Whole(n)
  BY DEF Whole
<1>4. LoopPcs' = LoopPcs
  BY DEF LoopPcs
<1>5. QED BY <1>1, <1>2, <1>3, <1>4 DEF SplitSlot

\* Only the slot the writes are at can write.
LEMMA OneWriter ==
  ASSUME IInv
  PROVE  \A s \in Slots : t_write[s].fd # -1 => s = cur_w /\ s < fast_num_files
  BY DEF IInv, SlotInv, Quiet

\* A file is opened with an empty first fragment.
LEMMA SlotOpened ==
  ASSUME IInv, OwnInv, OpenBoth, NEW s \in Slots, s = cur_r, file[s].mode = 1
  PROVE  SplitSlot(s)'
<1>1. /\ s < fast_num_files /\ fl[s] = 1 /\ aio_w[s] = "idle"
  BY OpenSlot DEF OpenBoth, OpenGuard, Quiet
<1>2. /\ number_frag[s] = 0 /\ giga_counter[s] = 0 /\ disk[file[s].ent] = << >>
      /\ file[s].size_mem = FILESIZE_MAX
  BY <1>1 DEF OwnInv
<1>3. /\ file' = file /\ number_frag' = number_frag /\ giga_counter' = giga_counter /\ len' = len
      /\ aio_w' = aio_w
  BY DEF OpenBoth, ResetCounters
<1>4. /\ writed'[s] = 0 /\ readed'[s] = 0 /\ fl'[s] = 2
  BY DEF OpenBoth, ResetCounters, IInv, TypeOK, QueueType
<1>5. /\ t_write'[s].fd = 0 /\ t_read'[s].size = Chunk(s, len[s])
  BY <1>2 DEF OpenBoth, OutFrag, Aio, IInv, TypeOK, QueueType
<1>6. disk'[file[s].ent] = << << >> >>
  <2>1. file[s].ent \in DOMAIN job /\ disk \in [DOMAIN job -> Seq(Seq(Unit))]
    BY SlotNumbers DEF IInv, TypeOK, KernelType
  <2>2. disk'[file[s].ent] = Truncate(<< >>, OutFrag(s))
    BY <1>2, <2>1 DEF OpenBoth
  <2>3. OutFrag(s) = 0
    BY <1>2 DEF OutFrag
  <2>4. Truncate(<< >>, 0) = << << >> >>
    BY DEF Truncate
  <2>5. QED BY <2>2, <2>3, <2>4
<1>7. Len(<< << >> >>) = 1 /\ Len(<< << >> >>[1]) = 0
  OBVIOUS
<1>8. LastLen(s)' = 0 /\ Len(disk'[file'[s].ent]) = number_frag'[s] + 1
  BY <1>2, <1>3, <1>6, <1>7 DEF LastLen
<1>9. Pending(s)' = 0
  BY <1>1, <1>3 DEF Pending
<1>10. /\ t_read'[s].size <= FILESIZE_MAX
       /\ t_read'[s].size = FILESIZE_MAX \/ t_read'[s].size = len[s]
  BY <1>2, <1>5, SlotNumbers DEF Chunk
<1>11. Whole(0) /\ 0 < GIGA /\ 0 <= GIGA
  BY WholeBuffers, SlotNumbers
<1>12. /\ t_write'[s].fd = number_frag'[s] /\ aio_w'[s] = "idle" /\ giga_counter'[s] = 0
  BY <1>1, <1>2, <1>3, <1>5
<1>13. aio_r'[s] # "idle" =>
          readed'[s] + (IF aio_r'[s] = "idle" THEN 0 ELSE t_read'[s].size) = t_read'[s].size
  BY <1>4, <1>5, <1>10, SlotNumbers
<1>14. len'[s] = len[s] /\ len[s] \in Int
  BY <1>3, SlotNumbers
<1>15. Whole(0)' = Whole(0)
  BY DEF Whole
<1>16. QED
  BY <1>4, <1>8, <1>9, <1>10, <1>11, <1>12, <1>13, <1>14, <1>15 DEF SplitSlot

\* A write that is issued fits in the fragment, and the next read is one buffer or
\* all that is left.
LEMMA SlotIssued ==
  ASSUME IInv, OwnInv, SplitSlots, ReadAhead \/ LastRead, NEW s \in Slots, s = cur_r,
         file[s].mode = 1
  PROVE  SplitSlot(s)'
<1>1. IssueWrite /\ ReadEndGuard
  BY DEF ReadAhead, LastRead, IssueWrite
<1>2. /\ s < fast_num_files /\ aio_r[s] = "idle" /\ aio_w[s] = "idle" /\ t_write[s].fd # -1
      /\ pc \in LoopPcs /\ fl[s] = 3 /\ fast_writing = 0 /\ i_reading /\ cur_w = s
  BY <1>1, ReadEndSlot DEF ReadEndGuard, LoopPcs
<1>3. /\ writed[s] >= 0 /\ readed[s] >= 0 /\ readed[s] <= len[s]
      /\ writed[s] = readed[s] - t_read[s].size /\ writed' = writed /\ readed' = readed
      /\ t_write'[s].size = t_read[s].size /\ aio_w'[s] = "issued"
  BY <1>1, ReadEndData
<1>4. SplitSlot(s)
  BY <1>2 DEF SplitSlots
<1>5. file[s].dbl /\ file[s].size_mem = FILESIZE_MAX
  BY <1>2 DEF OwnInv
<1>6. t_read[s].size > 0
  BY <1>1, <1>2 DEF IInv, DataInv, LoopPcs, ReadEndGuard
<1>7. /\ file' = file /\ number_frag' = number_frag /\ giga_counter' = giga_counter /\ len' = len
      /\ disk' = disk /\ fast_writing' = 1
  BY DEF ReadAhead, LastRead, NoMoreReads, IssueWrite
<1>8. t_write'[s].fd = t_write[s].fd /\ t_write'[s].offset = giga_counter[s]
  BY <1>1, <1>5 DEF IssueWrite, Aio, WriteOffset, IInv, TypeOK, QueueType
<1>9. /\ t_write[s].fd = number_frag[s] /\ Len(disk[file[s].ent]) = number_frag[s] + 1
      /\ t_read[s].size <= FILESIZE_MAX
      /\ t_read[s].size = FILESIZE_MAX \/ readed[s] >= len[s]
      /\ giga_counter[s] >= 0 /\ LastLen(s) = giga_counter[s]
      /\ writed[s] < len[s] => Whole(giga_counter[s]) /\ giga_counter[s] < GIGA
  BY <1>2, <1>3, <1>4, SlotNumbers DEF SplitSlot, Pending
<1>10. writed[s] < len[s]
  BY <1>3, <1>6, SlotNumbers
<1>11. giga_counter[s] + t_read[s].size <= GIGA
  <2>1. giga_counter[s] + FILESIZE_MAX <= GIGA
    BY <1>9, <1>10, WholeBuffers, RatiosAssumption, SlotNumbers
  <2>2. QED BY <1>9, <2>1, SlotNumbers
<1>12. writed[s] + t_read[s].size < len[s] => Whole(giga_counter[s] + t_read[s].size)
  <2>1. Whole(giga_counter[s] + FILESIZE_MAX)
    BY <1>9, <1>10, WholeBuffers, SlotNumbers
  <2>2. writed[s] + t_read[s].size < len[s] => t_read[s].size = FILESIZE_MAX
    BY <1>3, <1>9, SlotNumbers
  <2>3. QED BY <2>1, <2>2
<1>13. Pending(s)' = t_read[s].size /\ LastLen(s)' = giga_counter[s]
  BY <1>3, <1>7, <1>9 DEF Pending, LastLen
<1>14. ASSUME aio_r'[s] # "idle" \/ fl'[s] = 3
       PROVE  /\ t_read'[s].size <= FILESIZE_MAX
              /\ \/ t_read'[s].size = FILESIZE_MAX
                 \/ readed[s] + t_read'[s].size >= len[s]
              /\ aio_r'[s] # "idle"
  <2>1. CASE ReadAhead
    <3>1. t_read'[s].size = Chunk(s, len[s] - readed[s])
      BY <2>1 DEF ReadAhead, Aio, IInv, TypeOK, QueueType
    <3>2. fl'[s] = 2
      BY <2>1 DEF ReadAhead, IInv, TypeOK, QueueType
    <3>3. QED BY <1>5, <1>14, <3>1, <3>2, SlotNumbers DEF Chunk
  <2>2. CASE LastRead
    <3>1. fl'[s] = 5 /\ aio_r' = aio_r
      BY <2>2 DEF LastRead, NoMoreReads, IInv, TypeOK, QueueType
    <3>2. QED BY <1>2, <1>14, <3>1
  <2>3. QED BY <2>1, <2>2
<1>15. \A n : Whole(n)' = Whole(n)
  BY DEF Whole
<1> DEFINE g == giga_counter[s]  n == t_read[s].size
<1>16. /\ t_write'[s].fd = number_frag'[s] /\ Len(disk'[file'[s].ent]) = number_frag'[s] + 1
       /\ t_write'[s].offset = giga_counter'[s] /\ t_write'[s].size > 0 /\ writed'[s] >= 0
  BY <1>3, <1>6, <1>7, <1>8, <1>9
<1>17. /\ giga_counter'[s] >= 0 /\ giga_counter'[s] + n <= GIGA
       /\ LastLen(s)' = giga_counter'[s] + 0
       /\ writed'[s] + n < len'[s] => Whole(giga_counter'[s] + n)
  BY <1>3, <1>7, <1>9, <1>11, <1>12, <1>13, SlotNumbers
<1>18. /\ t_read'[s].size <= FILESIZE_MAX
       /\ \/ t_read'[s].size = FILESIZE_MAX
          \/ readed'[s] + (IF aio_r'[s] = "idle" THEN 0 ELSE t_read'[s].size) >= len'[s]
       \/ ~(aio_r'[s] # "idle" \/ fl'[s] = 3)
  BY <1>3, <1>7, <1>14
<1>19. QED
  BY <1>3, <1>7, <1>13, <1>15, <1>16, <1>17, <1>18 DEF SplitSlot

\* The next output fragment starts empty.
LEMMA SlotSplit ==
  ASSUME IInv, OwnInv, SplitSlots, SplitFile, NEW s \in Slots, s = cur_w
  PROVE  SplitSlot(s)'
<1>1. /\ SplitStep /\ WriteEnd /\ SplitDue
  BY DEF SplitFile, SplitStep
<1>2. /\ s < fast_num_files /\ aio_w[s] = "idle" /\ t_write[s].fd # -1 /\ file[s].mode = 1
      /\ pc \in LoopPcs /\ writed[s] >= 0
  BY <1>1, WriteEndSlot DEF WriteEnd, SplitDue, LoopPcs
<1>3. SplitSlot(s)
  BY <1>2 DEF SplitSlots
<1>4. /\ file' = file /\ len' = len /\ writed' = writed /\ readed' = readed /\ t_read' = t_read
      /\ aio_r' = aio_r /\ aio_w' = aio_w /\ fl' = fl /\ fast_writing' = 0
  BY <1>1 DEF WriteEnd, SplitStep, aioVars
<1>5. /\ number_frag'[s] = number_frag[s] + 1 /\ giga_counter'[s] = 0
      /\ t_write'[s].fd = number_frag[s] + 1
  BY DEF SplitFile, NextFrag, IInv, TypeOK, QueueType, AioType
<1>6. disk'[file[s].ent] = Append(disk[file[s].ent], << >>)
  <2>1. file[s].ent \in DOMAIN job /\ disk \in [DOMAIN job -> Seq(Seq(Unit))]
    BY SlotNumbers DEF IInv, TypeOK, KernelType
  <2>2. disk'[file[s].ent] = Truncate(disk[file[s].ent], number_frag[s] + 1)
    BY <2>1 DEF SplitFile
  <2>3. Len(disk[file[s].ent]) = number_frag[s] + 1
    BY <1>3 DEF SplitSlot
  <2>4. number_frag[s] + 1 + 1 \notin DOMAIN disk[file[s].ent]
    BY <2>3, SlotNumbers
  <2>5. QED BY <2>2, <2>4 DEF Truncate
<1>7. /\ Len(disk'[file[s].ent]) = number_frag[s] + 2
      /\ disk'[file[s].ent][number_frag[s] + 2] = << >>
  <2>1. Len(disk[file[s].ent]) = number_frag[s] + 1
    BY <1>3 DEF SplitSlot
  <2> DEFINE out == disk[file[s].ent]  S == Seq(Unit)  m == number_frag[s] + 1
  <2>2. << >> \in S /\ out \in Seq(S) /\ Len(out) = m /\ m \in Nat
    BY <2>1, SlotNumbers
  <2> HIDE DEF out, S, m
  <2>3. Len(Append(out, << >>)) = m + 1 /\ Append(out, << >>)[m + 1] = << >>
    BY <2>2
  <2>4. m + 1 = number_frag[s] + 2
    BY SlotNumbers DEF m
  <2>5. QED BY <1>6, <2>3, <2>4 DEF out
<1>8. number_frag[s] + 1 + 1 = number_frag[s] + 2
  BY SlotNumbers
<1>9. Len(<< >>) = 0
  OBVIOUS
<1>10. LastLen(s)' = 0 /\ Pending(s)' = 0
  BY <1>2, <1>4, <1>5, <1>7, <1>8, <1>9 DEF LastLen, Pending
<1>11. Whole(0)' /\ 0 < GIGA /\ 0 <= GIGA
  <2>1. Whole(0)' = Whole(0)
    BY DEF Whole
  <2>2. QED BY <2>1, WholeBuffers, SlotNumbers
<1>12. /\ t_write'[s].fd = number_frag'[s] /\ Len(disk'[file'[s].ent]) = number_frag'[s] + 1
       /\ aio_w'[s] = "idle"
  BY <1>2, <1>4, <1>5, <1>7, <1>8
<1>13. pc' \in LoopPcs /\ readed'[s] >= 0 /\ (aio_r'[s] # "idle" \/ fl'[s] = 3) =>
          /\ t_read'[s].size <= FILESIZE_MAX
          /\ \/ t_read'[s].size = FILESIZE_MAX
             \/ readed'[s] + (IF aio_r'[s] = "idle" THEN 0 ELSE t_read'[s].size) >= len'[s]
  BY <1>2, <1>3, <1>4 DEF SplitSlot
<1>14. 0 + 0 = 0
  OBVIOUS
<1>15. QED
  BY <1>5, <1>10, <1>11, <1>12, <1>13, <1>14 DEF SplitSlot

\* After a write that fills no fragment, there is room in it.
LEMMA SlotWriteOn ==
  ASSUME IInv, OwnInv, SplitSlots, WriteOn
  PROVE  SplitSlots'
<1> SUFFICES ASSUME NEW s \in Slots, t_write'[s].fd # -1, file'[s].mode = 1
             PROVE  SplitSlot(s)'
  BY DEF SplitSlots
<1>1. /\ UNCHANGED <<disk, file, number_frag, giga_counter, aio_w, writed, readed, len, t_write,
                     t_read, fl, aio_r>>
      /\ pc \in LoopPcs /\ WriteEnd
  BY DEF WriteOn, WriteEnd, LoopPcs, aioVars
<1>2. SplitSlot(s)
  BY <1>1 DEF SplitSlots
<1>3. s = cur_w
  BY <1>1, OneWriter
<1>4. writed[s] < len[s] => giga_counter[s] < GIGA
  BY <1>1, <1>3, SlotNumbers DEF WriteOn, SplitDue, FileComplete
<1>5. LastLen(s)' = LastLen(s) /\ Pending(s)' = Pending(s)
  BY <1>1 DEF LastLen, Pending
<1>6. \A n : Whole(n)' = Whole(n)
  BY DEF Whole
<1>7. QED BY <1>1, <1>2, <1>4, <1>5, <1>6 DEF SplitSlot

\* A write never changes the number of fragments.
LEMMA SentCount ==
  ASSUME IInv, NEW s \in Slots, NEW n \in Int
  PROVE  /\ \A e \in DOMAIN job : e # file[s].ent => Sent(s, n)[e] = disk[e]
         /\ Len(Sent(s, n)[file[s].ent]) = Len(disk[file[s].ent])
<1>1. /\ disk \in [DOMAIN job -> Seq(Seq(Unit))] /\ file[s].ent \in DOMAIN job
      /\ Sent(s, n) \in [DOMAIN job -> Seq(Seq(Unit))]
  BY SentType, SlotNumbers DEF IInv, TypeOK, KernelType
<1>2. DOMAIN Sent(s, n)[file[s].ent] = DOMAIN disk[file[s].ent]
  BY <1>1 DEF Sent
<1>3. \A e \in DOMAIN job : e # file[s].ent => Sent(s, n)[e] = disk[e]
  BY <1>1 DEF Sent
<1>4. QED BY <1>1, <1>2, <1>3

\* What the AIO thread does to the fragment a slot writes and to its counts.
LEMMA SlotAio ==
  ASSUME IInv, OwnInv, SplitSlots, NEW c \in Slots,
         \/ ReadTransfer(c) \/ fast_func_read(c) \/ ReadError(c)
         \/ WriteTransfer(c) \/ fast_func_write(c) \/ WriteError(c)
  PROVE  SplitSlots'
<1> SUFFICES ASSUME NEW s \in Slots, t_write'[s].fd # -1, file'[s].mode = 1
             PROVE  SplitSlot(s)'
  BY DEF SplitSlots
<1>t. /\ aio_r \in [Slots -> {"idle", "issued", "moved"}]
      /\ aio_w \in [Slots -> {"idle", "issued", "moved"}]
      /\ fl \in [Slots -> 0 .. 5] /\ readed \in [Slots -> Int] /\ writed \in [Slots -> Int]
      /\ giga_counter \in [Slots -> Int]
  BY DEF IInv, TypeOK, QueueType, KernelType
<1>1. /\ UNCHANGED <<file, number_frag, t_write, t_read, len, pc>>
  BY DEF ReadTransfer, fast_func_read, ReadError, WriteTransfer, fast_func_write, WriteError,
         copyUnchanged
<1>2. /\ SplitSlot(s) /\ s = cur_w /\ s < fast_num_files
  BY <1>1, OneWriter DEF SplitSlots
<1>3. c = s
  <2>1. ~Quiet(c)
    BY DEF ReadTransfer, fast_func_read, ReadError, WriteTransfer, fast_func_write, WriteError,
           Quiet
  <2>2. QED BY <1>2, <2>1 DEF IInv, SlotInv
<1>4. \A n : Whole(n)' = Whole(n)
  BY DEF Whole
<1>5. LoopPcs' = LoopPcs
  BY DEF LoopPcs
<1>6. CASE ReadTransfer(c)
  <2>1. /\ UNCHANGED <<disk, giga_counter, aio_w, writed, readed, fl, fast_writing>>
        /\ aio_r'[s] # "idle" /\ aio_r[s] # "idle"
    BY <1>t, <1>3, <1>6 DEF ReadTransfer
  <2>2. LastLen(s)' = LastLen(s) /\ Pending(s)' = Pending(s)
    BY <1>1, <2>1 DEF LastLen, Pending
  <2>3. QED BY <1>1, <1>2, <1>4, <1>5, <2>1, <2>2 DEF SplitSlot
<1>7. CASE fast_func_read(c)
  <2>1. /\ UNCHANGED <<disk, giga_counter, aio_w, writed, fast_writing>>
        /\ aio_r'[s] = "idle" /\ aio_r[s] # "idle"
        /\ readed'[s] = readed[s] + t_read[s].size
    BY <1>t, <1>3, <1>7 DEF fast_func_read
  <2>2. LastLen(s)' = LastLen(s) /\ Pending(s)' = Pending(s)
    BY <1>1, <2>1 DEF LastLen, Pending
  <2>3. ASSUME pc \in LoopPcs
        PROVE  /\ t_read[s].size <= FILESIZE_MAX
               /\ t_read[s].size = FILESIZE_MAX \/ readed'[s] >= len[s]
    <3>1. i_reading
      BY <1>2, <2>1, <2>3 DEF IInv, LoopInv, BusyInv, Quiet
    <3>2. readed[s] >= 0
      BY <1>2, <2>1, <2>3, <3>1 DEF IInv, DataInv
    <3>3. QED BY <1>2, <2>1, <2>3, <3>2, SlotNumbers DEF SplitSlot
  <2>4. readed'[s] + 0 = readed'[s]
    BY <2>1, SlotNumbers
  <2>5. QED BY <1>1, <1>2, <1>4, <1>5, <2>1, <2>2, <2>3, <2>4 DEF SplitSlot
<1>8. CASE ReadError(c)
  <2>1. /\ UNCHANGED <<disk, giga_counter, aio_w, writed, fast_writing>>
        /\ readed'[s] = -1
    BY <1>t, <1>3, <1>8 DEF ReadError
  <2>2. LastLen(s)' = LastLen(s) /\ Pending(s)' = Pending(s)
    BY <1>1, <2>1 DEF LastLen, Pending
  <2>3. ~(readed'[s] >= 0)
    BY <2>1
  <2>4. QED BY <1>1, <1>2, <1>4, <1>5, <2>1, <2>2, <2>3 DEF SplitSlot
<1>9. CASE WriteTransfer(c)
  <2>1. /\ UNCHANGED <<giga_counter, aio_r, writed, readed, fl, fast_writing>>
        /\ aio_w'[s] = "moved" /\ aio_w[s] = "issued" /\ disk' = Sent(s, t_write[s].size)
    BY <1>t, <1>3, <1>9 DEF WriteTransfer
  <2>2. /\ writed[s] >= 0 /\ t_write[s].size > 0 /\ t_write[s].offset = giga_counter[s]
        /\ LastLen(s) = giga_counter[s] /\ t_write[s].fd = number_frag[s]
        /\ Len(disk[file[s].ent]) = number_frag[s] + 1
    BY <1>2, <2>1, SlotNumbers DEF SplitSlot
  <2>3. /\ Len(disk'[file[s].ent]) = number_frag[s] + 1
        /\ Len(disk'[file[s].ent][number_frag[s] + 1]) = giga_counter[s] + t_write[s].size
    <3>1. t_write[s].fd # -1 /\ t_write[s].fd + 1 <= Len(disk[file[s].ent])
      BY <1>1, <2>2, SlotNumbers
    <3>2. t_write[s].offset = Len(disk[file[s].ent][t_write[s].fd + 1])
      BY <2>2 DEF LastLen
    <3>3. t_write[s].size \in Nat /\ number_frag[s] + 1 \in DOMAIN disk[file[s].ent]
      BY <2>2, SlotNumbers
    <3> DEFINE k == number_frag[s] + 1
    <3>4. /\ Len(disk'[file[s].ent]) = Len(disk[file[s].ent])
          /\ Len(disk'[file[s].ent][k]) =
                IF k = t_write[s].fd + 1 THEN Len(disk[file[s].ent][k]) + t_write[s].size
                ELSE Len(disk[file[s].ent][k])
      BY <2>1, <3>1, <3>2, <3>3, SentEnd
    <3>5. k = t_write[s].fd + 1 /\ Len(disk[file[s].ent][k]) = giga_counter[s]
      BY <2>2 DEF LastLen
    <3>6. QED BY <2>2, <3>4, <3>5
  <2>4. LastLen(s)' = giga_counter[s] + t_write[s].size /\ Pending(s)' = Pending(s)
    BY <1>1, <2>1, <2>3 DEF LastLen, Pending
  <2>5. QED BY <1>1, <1>2, <1>4, <1>5, <2>1, <2>2, <2>3, <2>4 DEF SplitSlot
<1>10. CASE fast_func_write(c)
  <2>1. /\ UNCHANGED <<disk, aio_r, readed, fl>>
        /\ aio_w'[s] = "idle" /\ aio_w[s] = "moved" /\ fast_writing' = 2
        /\ writed'[s] = writed[s] + t_write[s].size
        /\ giga_counter'[s] = giga_counter[s] + t_write[s].size
    BY <1>t, <1>3, <1>10 DEF fast_func_write
  <2>2. LastLen(s)' = LastLen(s) /\ Pending(s)' = 0 /\ Pending(s) = t_write[s].size
    BY <1>1, <2>1 DEF LastLen, Pending
  <2>3. /\ writed[s] >= 0 /\ t_write[s].size > 0
        /\ giga_counter[s] >= 0 /\ giga_counter'[s] <= GIGA /\ LastLen(s) = giga_counter'[s]
        /\ writed'[s] < len[s] => Whole(giga_counter'[s])
    BY <1>2, <2>1, <2>2, SlotNumbers DEF SplitSlot
  <2>4. /\ giga_counter'[s] >= 0 /\ giga_counter'[s] + 0 = giga_counter'[s]
        /\ writed'[s] + 0 = writed'[s]
    BY <2>1, <2>3, SlotNumbers
  <2>5. QED BY <1>1, <1>2, <1>4, <1>5, <2>1, <2>2, <2>3, <2>4 DEF SplitSlot
<1>11. CASE WriteError(c)
  <2>1. /\ UNCHANGED <<giga_counter, aio_r, readed, fl>>
        /\ aio_w'[s] = "idle" /\ writed'[s] = -1
        /\ Len(disk'[file[s].ent]) = Len(disk[file[s].ent])
    <3>1. /\ UNCHANGED <<giga_counter, aio_r, readed, fl>>
          /\ aio_w'[s] = "idle" /\ writed'[s] = -1
      BY <1>t, <1>3, <1>11 DEF WriteError
    <3>2. PICK n \in 0 .. t_write[s].size - 1 : disk' = Sent(s, n)
      BY <1>3, <1>11 DEF WriteError
    <3>3. n \in Int
      BY <3>2
    <3>4. Len(Sent(s, n)[file[s].ent]) = Len(disk[file[s].ent])
      BY <3>3, SentCount
    <3>5. QED BY <3>1, <3>2, <3>4
  <2>2. ~(writed'[s] >= 0)
    BY <2>1
  <2>3. QED BY <1>1, <1>2, <1>4, <1>5, <2>1, <2>2 DEF SplitSlot
<1>12. QED BY <1>6, <1>7, <1>8, <1>9, <1>10, <1>11

\* Every step keeps what the slot that writes a split file has written.
LEMMA SlotsStep ==
  ASSUME IInv, OwnInv, SplitSlots, Next, IInv', OwnInv'
  PROVE  SplitSlots'
<1> USE DEF GoTo, Leave, CallProcess, walkUnchanged, walkVars, queueVars, slotVars, fragVars,
            kernVars, flagVars, aioVars
<1>t. /\ t_write \in [Slots -> AioType] /\ t_read \in [Slots -> AioType]
      /\ fl \in [Slots -> 0 .. 5]
  BY DEF IInv, TypeOK, QueueType
<1>1. CASE \A s \in Slots : t_write'[s].fd = -1
  BY <1>1 DEF SplitSlots
<1>2. CASE Walk \/ ReturnToAdd \/ ReturnFailed \/ Finish
  <2>1. \A s \in Slots : t_write[s].fd = -1
    BY <1>2 DEF IInv, RestInv, Quiet, Walk, AddFlush, AddPiece, AddEmpty, AddFile, AddFails,
                EndWalk, ReturnToAdd, ReturnFailed, Finish
  <2>2. t_write' = t_write \/ t_write' = [t_write EXCEPT ![fast_num_files].fd = -1]
    BY <1>2 DEF Walk, AddFlush, AddPiece, AddEmpty, AddFile, AddFails,
                EndWalk, ReturnToAdd, ReturnFailed, Finish
  <2>3. \A s \in Slots : t_write'[s].fd = -1
    BY <1>t, <2>1, <2>2 DEF AioType
  <2>4. QED BY <1>1, <2>3
<1>3. CASE OpenReadFails \/ OpenWriteFails
  <2>1. \A s \in Slots : t_write[s].fd = -1
    BY <1>3, OpenSlot DEF OpenReadFails, OpenWriteFails, Quiet
  <2>2. t_write' = [t_write EXCEPT ![cur_r].fd = -1]
    BY <1>3 DEF OpenReadFails, OpenWriteFails, NotOpened
  <2>3. \A s \in Slots : t_write'[s].fd = -1
    BY <1>t, <2>1, <2>2 DEF AioType
  <2>4. QED BY <1>1, <2>3
<1>4. CASE FinishFile \/ SplitOpenFails
  <2>1. t_write' = [t_write EXCEPT ![cur_w].fd = -1]
    BY <1>4 DEF FinishFile, SplitOpenFails
  <2>2. \A s \in Slots : t_write'[s].fd = -1
    BY <1>t, <2>1, OneWriter DEF AioType
  <2>3. QED BY <1>1, <2>2
<1>5. CASE Cleanup
  <2>1. \A s \in Slots : t_write'[s].fd = -1
    BY <1>t, <1>5, OneWriter DEF Cleanup, Closed, AioType
  <2>2. QED BY <1>1, <2>1
<1>6. CASE LoopExit \/ LoopSkip \/ ReadEndSkip \/ ReadEndFails \/ WriteEndSkip \/ Display
           \/ UserAbort \/ WriteEndError \/ FinishCloseFails \/ SplitCloseFails \/ Terminated
           \/ JoinSetFl
  <2>1. /\ UNCHANGED <<disk, file, number_frag, giga_counter, aio_w, writed, readed, len, t_write,
                       aio_r>>
        /\ fl' = fl \/ fl' = [fl EXCEPT ![cur_r] = 2]
        /\ t_read' = t_read \/ t_read' = [t_read EXCEPT ![cur_w].fd = -1]
    BY <1>6 DEF LoopExit, LoopSkip, ReadEndSkip, ReadEndFails, WriteEndSkip, Display, UserAbort,
                WriteEndError, FinishCloseFails, SplitCloseFails, SplitStep, WriteEnd, Terminated,
                vars, JoinSetFl
  <2>2. pc' \in LoopPcs => pc \in LoopPcs /\ fast_writing' = fast_writing
    BY <1>6 DEF LoopExit, LoopSkip, ReadEndSkip, ReadEndFails, WriteEndSkip, Display, UserAbort,
                WriteEndError, FinishCloseFails, SplitCloseFails, SplitStep, WriteEnd, Terminated,
                vars, JoinSetFl, LoopPcs
  <2>3. \A s \in Slots : t_read'[s].size = t_read[s].size /\ (fl'[s] = 3 => fl[s] = 3)
    BY <1>t, <2>1 DEF AioType
  <2>4. QED BY <2>1, <2>2, <2>3, SlotKept
<1>7. CASE OpenFile \/ OpenFileAioFails
  <2>1. OpenBoth /\ file' = file
    BY <1>7 DEF OpenFile, OpenFileAioFails, OpenBoth, ResetCounters
  <2>2. \A s \in Slots : s # cur_r => t_write'[s].fd = -1
    BY <1>t, <2>1, OpenSlot DEF OpenBoth, Quiet
  <2>3. QED BY <2>1, <2>2, SlotOpened DEF SplitSlots
<1>8. CASE SingleWrite \/ ReadAhead \/ LastRead \/ JoinMissing \/ JoinNext \/ JoinOpenFails
           \/ JoinCloseFails
  <2>1. IssueWrite /\ file' = file
    BY <1>8 DEF SingleWrite, ReadAhead, LastRead, JoinMissing, JoinNext, JoinOpenFails,
                JoinCloseFails, JoinStep, IssueWrite
  <2>2. cur_r = cur_w /\ cur_r \in Slots /\ cur_r < fast_num_files
    BY <2>1, ReadEndSlot DEF IssueWrite
  <2>3. \A s \in Slots : s # cur_r => t_write'[s].fd = -1
    BY <1>t, <2>1, <2>2, OneWriter DEF IssueWrite, AioType, FdType
  <2>4. file[cur_r].mode = 1 => file[cur_r].dbl
    BY <2>2 DEF OwnInv
  <2>5. file[cur_r].mode = 1 => ReadAhead \/ LastRead
    BY <1>8, <2>4 DEF SingleWrite, JoinMissing, JoinNext, JoinOpenFails, JoinCloseFails, JoinStep
  <2>6. \A s \in Slots : s = cur_r /\ file[s].mode = 1 => SplitSlot(s)'
    BY <2>5, SlotIssued
  <2>7. QED BY <2>1, <2>3, <2>6 DEF SplitSlots
<1>9. CASE SplitFile
  <2>1. \A s \in Slots : s # cur_w => t_write'[s].fd = -1
    BY <1>t, <1>9, OneWriter DEF SplitFile
  <2>2. QED BY <1>9, <2>1, SlotSplit DEF SplitSlots
<1>10. CASE WriteOn
  BY <1>10, SlotWriteOn
<1>11. CASE AioThread
  BY <1>11, SlotAio DEF AioThread
<1>12. QED
  BY <1>2, <1>3, <1>4, <1>5, <1>6, <1>7, <1>8, <1>9, <1>10, <1>11
    DEF Next, CopyThread, OpenSection, ReadEndSection, WriteEndSection, Leaving

\* The sizes an entry's fragments may have.
Sized(e, out) ==
    IF ModeOf(e) = 1
    THEN \A k \in DOMAIN out : Len(out[k]) <= GIGA /\ (k < Len(out) => Len(out[k]) = GIGA)
    ELSE Len(out) <= 1

\* The sizes are right if those of the entry that is written are.
LEMMA SizedOne ==
  ASSUME SplitSizes, job' = job, copy_mode' = copy_mode, NEW c,
         \A e \in DOMAIN job : e # c => disk'[e] = disk[e],
         c \in DOMAIN job => Sized(c, disk'[c])
  PROVE  SplitSizes'
<1>1. \A e : ModeOf(e)' = ModeOf(e)
  BY DEF ModeOf
<1>2. \A e \in DOMAIN job : Sized(e, disk'[e])
  BY DEF SplitSizes, Sized
<1>3. QED BY <1>1, <1>2 DEF SplitSizes, Sized

\* A single empty fragment is of the right size.
LEMMA EmptySized ==
  ASSUME NEW e
  PROVE  Truncate(<< >>, 0) = << << >> >> /\ Sized(e, << << >> >>)
<1>1. Truncate(<< >>, 0) = << << >> >>
  BY DEF Truncate
<1>2. /\ Len(<< << >> >>) = 1 /\ DOMAIN << << >> >> = {1} /\ << << >> >>[1] = << >>
      /\ Len(<< >>) = 0 /\ 0 <= GIGA /\ ~(1 < 1) /\ 1 <= 1
  BY SizesAssumption
<1>3. QED BY <1>1, <1>2 DEF Sized

\* Every step keeps the fragments to their size.
LEMMA SizesStep ==
  ASSUME IInv, OwnInv, SplitSizes, SplitSlots, Next
  PROVE  SplitSizes'
<1> USE DEF GoTo, Leave, CallProcess, walkUnchanged, walkVars, kernVars
<1>t. disk \in [DOMAIN job -> Seq(Seq(Unit))]
  BY DEF IInv, TypeOK, KernelType
<1>j. job' = job /\ copy_mode' = copy_mode
  BY DEF Next, CopyThread, Walk, AddFlush, AddPiece, AddEmpty, AddFile, AddFails, EndWalk,
         OpenSection, LoopExit, LoopSkip, OpenReadFails, OpenWriteFails, NotOpened, OpenFile,
         OpenFileAioFails, OpenBoth, ReadEndSection, ReadEndSkip, ReadEndFails, SingleWrite,
         ReadAhead, LastRead, JoinMissing, JoinNext, JoinOpenFails, JoinCloseFails, JoinStep,
         IssueWrite, JoinSetFl, WriteEndSection, WriteEndSkip, WriteEndError, FinishFile,
         FinishCloseFails, SplitFile, SplitCloseFails, SplitOpenFails, SplitStep, WriteOn,
         WriteEnd, Leaving, Display, UserAbort, Cleanup, ReturnToAdd, ReturnFailed, Finish,
         AioThread, ReadTransfer, fast_func_read, ReadError, WriteTransfer, fast_func_write,
         WriteError, copyUnchanged, Terminated, vars
<1>1. CASE disk' = disk
  <2>1. \A e : ModeOf(e)' = ModeOf(e)
    BY <1>j DEF ModeOf
  <2>2. QED BY <1>1, <1>j, <2>1 DEF SplitSizes
<1>2. CASE AddEmpty
  <2>1. next \in DOMAIN job /\ disk[next] = << >>
    BY <1>2, Numbers DEF AddEmpty, OwnInv
  <2>2. disk'[next] = << << >> >> /\ \A e \in DOMAIN job : e # next => disk'[e] = disk[e]
    BY <1>t, <1>2, <2>1, EmptySized DEF AddEmpty
  <2>3. QED BY <1>j, <2>2, SizedOne, EmptySized
<1>3. CASE OpenFile \/ OpenFileAioFails
  <2>1. OpenBoth
    BY <1>3 DEF OpenFile, OpenFileAioFails
  <2>2. cur_r \in Slots /\ cur_r < fast_num_files /\ fl[cur_r] = 1
    BY <2>1, OpenSlot DEF OpenBoth, OpenGuard
  <2>3. disk[file[cur_r].ent] = << >> /\ OutFrag(cur_r) = 0 /\ file[cur_r].ent \in DOMAIN job
    BY <2>2, SlotNumbers DEF OwnInv, OutFrag
  <2>4. /\ disk'[file[cur_r].ent] = << << >> >>
        /\ \A e \in DOMAIN job : e # file[cur_r].ent => disk'[e] = disk[e]
    BY <1>t, <2>1, <2>3, EmptySized DEF OpenBoth
  <2>5. QED BY <1>j, <2>4, SizedOne, EmptySized
<1>4. CASE SplitFile
  <2> DEFINE e == file[cur_w].ent  out == disk[e]  S == Seq(Unit)  m == number_frag[cur_w] + 1
  <2>1. /\ cur_w \in Slots /\ cur_w < fast_num_files /\ aio_w[cur_w] = "idle"
        /\ t_write[cur_w].fd # -1 /\ SplitDue
    BY <1>4, WriteEndSlot DEF SplitFile, SplitStep
  <2>2. SplitSlot(cur_w) /\ ModeOf(e) = 1
    BY <2>1 DEF SplitSlots, SplitDue, OwnInv
  <2>3. Len(out) = m /\ Len(out[m]) = GIGA
    <3>1. writed[cur_w] >= 0 /\ giga_counter[cur_w] >= GIGA
      BY <2>1 DEF SplitDue
    <3>2. /\ Len(out) = m /\ giga_counter[cur_w] + 0 <= GIGA
          /\ LastLen(cur_w) = giga_counter[cur_w] + 0
      BY <2>1, <2>2, <3>1 DEF SplitSlot, Pending
    <3>3. giga_counter[cur_w] \in Int /\ GIGA \in Int
      BY <2>1, SlotNumbers
    <3>4. LastLen(cur_w) = GIGA
      BY <3>1, <3>2, <3>3
    <3>5. QED BY <3>2, <3>4 DEF LastLen
  <2>4. e \in DOMAIN job /\ out \in Seq(S) /\ m \in Nat /\ m >= 1 /\ << >> \in S
    BY <2>1, SlotNumbers
  <2>5. Truncate(out, m) = Append(out, << >>)
    <3>1. m + 1 \notin DOMAIN out
      BY <2>3, <2>4
    <3>2. QED BY <3>1 DEF Truncate
  <2>6. /\ disk'[e] = Append(out, << >>)
        /\ \A x \in DOMAIN job : x # e => disk'[x] = disk[x]
    BY <1>t, <1>4, <2>4, <2>5 DEF SplitFile
  <2>7. \A k \in DOMAIN out : Len(out[k]) = GIGA
    <3>1. \A k \in DOMAIN out : k < Len(out) => Len(out[k]) = GIGA
      BY <2>2, <2>4 DEF SplitSizes
    <3>2. \A k \in DOMAIN out : k < Len(out) \/ k = m
      BY <2>3, <2>4
    <3>3. QED BY <2>3, <3>1, <3>2
  <2>8. Sized(e, Append(out, << >>))
    <3> HIDE DEF out, S, m, e
    <3>1. /\ Len(Append(out, << >>)) = m + 1 /\ Append(out, << >>)[m + 1] = << >>
          /\ DOMAIN Append(out, << >>) = 1 .. m + 1
          /\ \A k \in 1 .. m : Append(out, << >>)[k] = out[k]
      BY <2>3, <2>4
    <3>2. Len(<< >>) = 0 /\ 0 <= GIGA /\ GIGA <= GIGA /\ GIGA \in Nat
      BY SizesAssumption
    <3>3. \A k \in 1 .. m : k \in DOMAIN out
      BY <2>3, <2>4
    <3>4. ASSUME NEW k \in 1 .. m + 1
          PROVE  /\ Len(Append(out, << >>)[k]) <= GIGA
                 /\ k < m + 1 => Len(Append(out, << >>)[k]) = GIGA
      <4>1. CASE k = m + 1
        BY <2>4, <3>1, <3>2, <4>1
      <4>2. CASE k \in 1 .. m
        BY <2>7, <3>1, <3>2, <3>3, <4>2
      <4>3. k = m + 1 \/ k \in 1 .. m
        BY <2>4
      <4>4. QED BY <4>1, <4>2, <4>3
    <3>5. QED BY <2>2, <3>1, <3>4 DEF Sized
  <2>9. QED BY <1>j, <2>6, <2>8, SizedOne
<1>5. ASSUME NEW s \in Slots, WriteTransfer(s) \/ WriteError(s)
      PROVE  SplitSizes'
  <2> DEFINE e == file[s].ent  size == t_write[s].size
  <2>1. /\ aio_w[s] = "issued" /\ s < fast_num_files /\ t_write[s].fd # -1
    BY <1>5 DEF WriteTransfer, WriteError, IInv, SlotInv, Quiet
  <2>2. \E n \in Int : n <= size /\ (size > 0 => n >= 0) /\ disk' = Sent(s, n)
    <3>1. CASE WriteTransfer(s)
      BY <3>1, SlotNumbers DEF WriteTransfer
    <3>2. CASE WriteError(s)
      <4>1. PICK n \in 0 .. size - 1 : disk' = Sent(s, n)
        BY <3>2 DEF WriteError
      <4>2. n \in Int /\ n <= size /\ n >= 0
        BY <4>1, SlotNumbers
      <4>3. QED BY <4>1, <4>2
    <3>3. QED BY <1>5, <3>1, <3>2
  <2>3. PICK n \in Int : n <= size /\ (size > 0 => n >= 0) /\ disk' = Sent(s, n)
    BY <2>2
  <2>4. /\ \A x \in DOMAIN job : x # e => disk'[x] = disk[x]
        /\ Len(disk'[e]) = Len(disk[e])
    BY <2>3, SentCount
  <2>5. CASE file[s].mode # 1
    <3>1. ModeOf(e) # 1 /\ e \in DOMAIN job
      BY <2>1, <2>5, SlotNumbers DEF OwnInv
    <3>2. Len(disk[e]) <= 1
      BY <3>1 DEF SplitSizes
    <3>3. Sized(e, disk'[e])
      BY <2>4, <3>1, <3>2 DEF Sized
    <3>4. QED BY <1>j, <2>4, <3>3, SizedOne
  <2>6. CASE file[s].mode = 1
    <3>1. SplitSlot(s) /\ ModeOf(e) = 1
      BY <2>1, <2>6 DEF SplitSlots, OwnInv
    <3> DEFINE m == number_frag[s] + 1  g == giga_counter[s]
    <3>2. /\ Len(disk[e]) = m /\ t_write[s].fd = number_frag[s] /\ t_write[s].offset = g
          /\ size > 0 /\ Len(disk[e][m]) = g /\ g >= 0 /\ g + size <= GIGA
      BY <2>1, <3>1, SlotNumbers DEF SplitSlot, LastLen, Pending
    <3>3. n \in Nat /\ m \in Nat /\ g \in Int /\ e \in DOMAIN job /\ disk[e] \in Seq(Seq(Unit))
      BY <2>3, <3>2, SlotNumbers
    <3>4. \A k \in DOMAIN disk[e] :
             Len(disk'[e][k]) = IF k = m THEN Len(disk[e][k]) + n ELSE Len(disk[e][k])
      <4>1. t_write[s].fd + 1 <= Len(disk[e])
        BY <3>2, <3>3
      <4>2. t_write[s].offset = Len(disk[e][t_write[s].fd + 1])
        BY <3>2
      <4>3. \A k \in DOMAIN disk[e] :
               Len(Sent(s, n)[e][k]) =
                  IF k = t_write[s].fd + 1 THEN Len(disk[e][k]) + n ELSE Len(disk[e][k])
        BY <2>1, <3>3, <4>1, <4>2, SentEnd
      <4>4. QED BY <2>3, <3>2, <4>3
    <3>5. disk'[e] \in Seq(Seq(Unit))
      BY <2>3, <3>3, SentType DEF IInv, TypeOK
    <3>6. DOMAIN disk'[e] = 1 .. m /\ DOMAIN disk[e] = 1 .. m /\ Len(disk'[e]) = m
      BY <2>4, <3>2, <3>3, <3>5
    <3>7. ASSUME NEW k \in 1 .. m
          PROVE  Len(disk'[e][k]) <= GIGA /\ (k < m => Len(disk'[e][k]) = GIGA)
      <4>1. CASE k = m
        <5>1. Len(disk'[e][k]) = g + n
          BY <3>2, <3>4, <3>6, <4>1
        <5>2. QED BY <2>3, <3>2, <3>3, <4>1, <5>1, SlotNumbers
      <4>2. CASE k < m
        <5>1. Len(disk'[e][k]) = Len(disk[e][k])
          BY <3>3, <3>4, <3>6, <4>2
        <5>2. Len(disk[e][k]) = GIGA
          BY <3>1, <3>2, <3>3, <3>6, <4>2 DEF SplitSizes
        <5>3. QED BY <5>1, <5>2, SizesAssumption
      <4>3. QED BY <3>3, <4>1, <4>2
    <3>8. Sized(e, disk'[e])
      BY <3>1, <3>6, <3>7 DEF Sized
    <3>9. QED BY <1>j, <2>4, <3>8, SizedOne
  <2>7. QED BY <2>5, <2>6
<1>6. CASE \/ AddFlush \/ AddPiece \/ AddFile \/ AddFails \/ EndWalk \/ LoopExit \/ LoopSkip
           \/ OpenReadFails \/ OpenWriteFails \/ ReadEndSection \/ Leaving \/ Terminated
           \/ WriteEndSkip \/ WriteEndError \/ FinishFile \/ FinishCloseFails \/ SplitCloseFails
           \/ SplitOpenFails \/ WriteOn
  <2>1. disk' = disk
    BY <1>6
      DEF AddFlush, AddPiece, AddFile, AddFails, EndWalk, LoopExit, LoopSkip, OpenReadFails,
          OpenWriteFails, NotOpened, ReadEndSection, ReadEndSkip, ReadEndFails, SingleWrite,
          ReadAhead, LastRead, JoinMissing, JoinNext, JoinOpenFails, JoinCloseFails, JoinStep,
          IssueWrite, JoinSetFl, Leaving, Display, UserAbort, Cleanup, ReturnToAdd, ReturnFailed,
          Finish, Terminated, vars, WriteEndSkip, WriteEndError, FinishFile, FinishCloseFails,
          SplitCloseFails, SplitOpenFails, WriteOn
  <2>2. QED BY <1>1, <2>1
<1>7. ASSUME NEW s \in Slots, \/ ReadTransfer(s) \/ fast_func_read(s) \/ ReadError(s)
                              \/ fast_func_write(s)
      PROVE  SplitSizes'
  <2>1. disk' = disk
    BY <1>7 DEF ReadTransfer, fast_func_read, ReadError, fast_func_write
  <2>2. QED BY <1>1, <2>1
<1>8. QED
  BY <1>2, <1>3, <1>4, <1>5, <1>6, <1>7
    DEF Next, CopyThread, Walk, OpenSection, WriteEndSection, AioThread

\* A step that changes nothing keeps the sizes.
LEMMA StutterSplit ==
  ASSUME IInv, SplitInv, UNCHANGED vars
  PROVE  SplitInv'
<1>1. /\ UNCHANGED <<job, copy_mode, next, file, disk, number_frag, giga_counter, fast_num_files,
                     t_write, t_read, fl, aio_r, aio_w, writed, readed, len, pc, fast_writing>>
  BY DEF vars, walkVars, queueVars, slotVars, fragVars, aioVars, kernVars, flagVars
<1>2. OwnInv'
  BY <1>1, OwnSame DEF SplitInv
<1>3. SplitSizes'
  <2>1. \A e : ModeOf(e)' = ModeOf(e)
    BY <1>1 DEF ModeOf
  <2>2. QED BY <1>1, <2>1 DEF SplitInv, SplitSizes
<1>4. SplitSlots'
  BY <1>1, SlotKept DEF SplitInv
<1>5. QED BY <1>2, <1>3, <1>4 DEF SplitInv

\* The output fragments have their sizes in every state.
LEMMA SplitInductive == Spec => []SplitInv
<1>1. Init => SplitInv
  <2>1. SUFFICES ASSUME Init PROVE SplitInv
    OBVIOUS
  <2>2. /\ fast_num_files = 0 /\ \A e \in DOMAIN job : disk[e] = << >>
        /\ \A s \in Slots : t_write[s].fd = -1
    BY <2>1 DEF Init, Aio
  <2>3. OwnInv
    BY <2>2 DEF OwnInv, Slots
  <2>4. SplitSizes
    BY <2>2 DEF SplitSizes
  <2>5. SplitSlots
    BY <2>2 DEF SplitSlots
  <2>6. QED BY <2>3, <2>4, <2>5 DEF SplitInv
<1>2. IInv /\ SplitInv /\ [Next]_vars /\ IInv' => SplitInv'
  <2>1. SUFFICES ASSUME IInv, SplitInv, [Next]_vars, IInv' PROVE SplitInv'
    OBVIOUS
  <2>2. CASE Next
    BY <2>1, <2>2, OwnStep, SizesStep, SlotsStep DEF SplitInv
  <2>3. CASE UNCHANGED vars
    BY <2>1, <2>3, StutterSplit
  <2>4. QED BY <2>1, <2>2, <2>3
<1>3. QED BY <1>1, <1>2, Inductive, PTL DEF Spec

\* No output fragment of a split file exceeds GIGA and all but the last have that
\* size, and a file that is not split has one fragment: whatever the sizes, with
\* every fault, in every state and not only at the end.
THEOREM FragmentSizes == Spec => []SplitSizes
<1>1. SplitInv => SplitSizes
  BY DEF SplitInv
<1>2. QED BY <1>1, SplitInductive, PTL

-----------------------------------------------------------------------------
(* The engine copies. *)

Total(e)    == Cardinality(Places(disk[e]))
Length(e)   == Len(SourceOf(e))
Complete(e) == Total(e) = Length(e)

\* Entry e is copied as far as the engine has seen that it goes.
Settled(e) == Complete(e) \/ e \in missed

\* What is known of a queued slot, and of it before its file is opened.
NewSlots ==
    /\ \A s \in Slots : s < fast_num_files =>
          /\ job[file[s].ent].kind # "piece"
          /\ file[s].dbl <=> job[file[s].ent].frags[1] >= FILESIZE_MAX
          /\ file[s].size_mem <= FILESIZE_MAX
          /\ fl[s] = 1 => len[s] = job[file[s].ent].frags[1]
          /\ \/ file[s].mode = ModeOf(file[s].ent) \/ ~Fragmented(file[s].ent)
             \/ file[s].ent \in missed
    /\ \A r, s \in Slots : r < s /\ s < fast_num_files => file[r].ent < file[s].ent

\* Every unit at the destination is at the place it has in the source.
InPlace == \A e \in DOMAIN job : Placed(SourceOf(e), disk[e])

\* The first size units of a buffer of slot s are those of its source after the first n.
Carries(s, buf, n, size) == \A i \in 1 .. size : UnitAt(buf, i) = SourceOf(file[s].ent)[n + i]

\* The slot that writes adds to its last fragment; all it has counted is there, and
\* a write that is issued sends what comes next.
WriteSide(s) ==
    LET e == file[s].ent IN
    /\ Len(disk[e]) = t_write[s].fd + 1
    /\ writed[s] >= 0 =>
          Total(e) = writed[s] + (IF aio_w[s] = "moved" THEN t_write[s].size ELSE 0)
    /\ aio_w[s] # "idle" => writed[s] >= 0 /\ t_write[s].size > 0
    /\ aio_w[s] = "issued" =>
          /\ t_write[s].offset = Len(disk[e][t_write[s].fd + 1])
          /\ t_write[s].size <= FILESIZE_MAX
          /\ writed[s] + t_write[s].size <= Length(e)
          /\ Carries(s, BufferOf(s), writed[s], t_write[s].size)
WriteSides == \A s \in Slots : t_write[s].fd # -1 => WriteSide(s)

\* The slot that reads is in the fragment its descriptor names, off_readed and len are
\* where that starts and ends in the file, and the buffer holds what was read last.
ReadSide(s) ==
    LET e == file[s].ent  f == t_read[s].fd + 1 IN
    /\ f \in DOMAIN job[e].frags
    /\ off_readed[s] = StartOf(Parts(e), f) /\ len[s] = StartOf(Parts(e), f + 1)
    /\ file[s].mode \in {2, 3} => number_frag[s] = t_read[s].fd
    /\ file[s].mode \notin {2, 3} => f = Len(job[e].frags) \/ e \in missed
    /\ t_read[s].size <= FILESIZE_MAX
    /\ aio_r[s] # "idle" =>
          /\ off_readed[s] <= readed[s] /\ t_read[s].offset = readed[s] - off_readed[s]
    /\ aio_r[s] = "moved" => Carries(s, mem[s].lo, readed[s], t_read[s].size)
    /\ aio_r[s] = "idle" /\ fl[s] = 3 /\ pc # "joined" /\ readed[s] >= 0 =>
          /\ off_readed[s] <= readed[s]
          /\ Carries(s, mem[s].lo, readed[s] - t_read[s].size, t_read[s].size)

\* A slot that has been read to its end is as long as its source, or was cut short.
ReadSides ==
    pc \in LoopPcs => \A s \in Slots : ~Quiet(s) =>
        IF i_reading THEN ReadSide(s)
        ELSE len[s] = Length(file[s].ent) \/ file[s].ent \in missed

\* While the copy goes well every entry passed is settled or still queued.
Queued(e) == \E s \in Slots : s < fast_num_files /\ cur_w <= s /\ file[s].ent = e
Ordered ==
    /\ failed => caller = "end"
    /\ fast_num_files > 0 \/ (~failed /\ error = 0 /\ ~abort_copy) =>
          \A e \in DOMAIN job : e < next => Settled(e) \/ Queued(e)

CopyInv == NewSlots /\ InPlace /\ WriteSides /\ ReadSides /\ Ordered

\* The fragments of a source file, and the file they make.
LEMMA SourceFacts ==
  ASSUME IInv, NEW e \in DOMAIN job
  PROVE  /\ Parts(e) \in Seq(Seq(Int \X Int)) /\ SourceOf(e) \in Seq(Int \X Int)
         /\ Length(e) \in Nat /\ job[e].frags \in Seq(Nat) /\ Len(job[e].frags) \in Nat
         /\ Len(job[e].frags) >= 1
         /\ job[e].kind = "piece" => Length(e) = 0
         /\ \A g : StartOf(Parts(e), g) \in Nat
         /\ StartOf(Parts(e), 1) = 0
         /\ \A g \in DOMAIN job[e].frags :
               StartOf(Parts(e), g + 1) = StartOf(Parts(e), g) + job[e].frags[g]
         /\ job[e].kind # "piece" =>
               /\ Length(e) = StartOf(Parts(e), Len(job[e].frags) + 1)
               /\ \A g : StartOf(Parts(e), g) <= Length(e)
               /\ \A g \in DOMAIN job[e].frags : \A o \in 1 .. job[e].frags[g] :
                     SourceOf(e)[StartOf(Parts(e), g) + o] = <<g - 1, o - 1>>
<1> DEFINE fs == job[e].frags
<1>1. fs \in Seq(Nat) /\ Len(fs) \in Nat /\ Len(fs) >= 1 /\ DOMAIN fs = 1 .. Len(fs)
  <2>1. fs \in Seq(Nat) /\ Len(fs) >= 1
    BY JobFacts, JobsAssumption DEF IInv, TypeOK, ControlType
  <2>2. QED BY <2>1
<1>2. Parts(e) = Numbered(fs)
  BY DEF Parts
<1> HIDE DEF fs
<1>3. /\ Parts(e) \in Seq(Seq(Int \X Int)) /\ EndToEnd(Parts(e)) \in Seq(Int \X Int)
      /\ \A g : StartOf(Parts(e), g) \in Nat
      /\ \A g : StartOf(Parts(e), g) <= Len(EndToEnd(Parts(e)))
      /\ StartOf(Parts(e), 1) = 0
      /\ Len(EndToEnd(Parts(e))) = StartOf(Parts(e), Len(fs) + 1)
      /\ \A g \in DOMAIN fs : StartOf(Parts(e), g + 1) = StartOf(Parts(e), g) + fs[g]
      /\ \A g \in DOMAIN fs : \A o \in 1 .. fs[g] :
             EndToEnd(Parts(e))[StartOf(Parts(e), g) + o] = <<g - 1, o - 1>>
  BY <1>1, <1>2, NumberedUnits
<1>4. CASE job[e].kind = "piece"
  <2>1. SourceOf(e) = << >>
    BY <1>4 DEF SourceOf
  <2>2. SourceOf(e) \in Seq(Int \X Int) /\ Length(e) = 0
    BY <2>1 DEF Length
  <2>3. QED BY <1>1, <1>3, <1>4, <2>2 DEF fs
<1>5. CASE job[e].kind # "piece"
  <2>1. SourceOf(e) = EndToEnd(Parts(e))
    BY <1>5 DEF SourceOf
  <2>2. Length(e) \in Nat /\ Length(e) = Len(EndToEnd(Parts(e)))
    BY <1>3, <2>1 DEF Length
  <2>3. QED BY <1>1, <1>3, <1>5, <2>1, <2>2, Zenon DEF fs
<1>6. QED BY <1>4, <1>5

\* The destination of an entry is a sequence of fragments, with so many units.
LEMMA TotalFacts ==
  ASSUME IInv, NEW e \in DOMAIN job
  PROVE  disk[e] \in Seq(Seq(Unit)) /\ Total(e) \in Nat
<1>1. disk[e] \in Seq(Seq(Unit))
  BY DEF IInv, TypeOK, KernelType
<1>2. QED BY <1>1, PlacesFinite DEF Total

\* A write at the end of a fragment keeps what the fragment holds and adds the units.
LEMMA WriteAppends ==
  ASSUME NEW seq \in Seq(Unit), NEW n \in Nat, NEW buf
  PROVE  LET new == WriteAt(seq, Len(seq), [i \in 1 .. n |-> UnitAt(buf, i)]) IN
         /\ \A i \in 1 .. Len(seq) : new[i] = seq[i]
         /\ \A i \in 1 .. n : new[Len(seq) + i] = UnitAt(buf, i)
<1> DEFINE data == [i \in 1 .. n |-> UnitAt(buf, i)]
<1>1. PICK l \in Nat : l = Len(seq)
  OBVIOUS
<1>2. PICK d : d = data
  OBVIOUS
<1>3. Len(d) = n /\ \A i \in 1 .. n : d[i] = UnitAt(buf, i)
  BY <1>2
<1> HIDE DEF data
<1>4. (IF l >= l + n THEN l ELSE l + n) = l + n
  BY <1>1
<1>5. WriteAt(seq, l, d) = [i \in 1 .. l + n |->
          IF i > l /\ i <= l + n THEN d[i - l] ELSE IF i <= l THEN seq[i] ELSE Hole]
  BY <1>1, <1>3, <1>4 DEF WriteAt
<1>6. ASSUME NEW i \in 1 .. l PROVE WriteAt(seq, l, d)[i] = seq[i]
  <2>1. i \in 1 .. l + n /\ ~(i > l) /\ i <= l
    BY <1>1, <1>6
  <2>2. QED BY <1>5, <2>1
<1>7. ASSUME NEW i \in 1 .. n PROVE WriteAt(seq, l, d)[l + i] = UnitAt(buf, i)
  <2>1. /\ l + i \in 1 .. l + n /\ (l + i) - l = i /\ l + i > l /\ l + i <= l + n
    BY <1>1, <1>7
  <2>2. QED BY <1>3, <1>5, <1>7, <2>1
<1>8. QED BY <1>1, <1>2, <1>6, <1>7 DEF data

\* A write adds its units to the last fragment of the slot's file.
LEMMA SentUnits ==
  ASSUME IInv, NEW s \in Slots, NEW n \in Nat, NEW m \in Nat, t_write[s].fd # -1,
         m = t_write[s].fd + 1, m = Len(disk[file[s].ent]),
         t_write[s].offset = Len(disk[file[s].ent][m])
  PROVE  LET e == file[s].ent  old == disk[e][m]  new == Sent(s, n)[e] IN
         /\ old \in Seq(Unit) /\ m >= 1 /\ new \in Seq(Seq(Unit)) /\ Len(new) = m
         /\ \A k \in 1 .. m - 1 : new[k] = disk[e][k]
         /\ Len(new[m]) = Len(old) + n
         /\ \A i \in 1 .. Len(old) : new[m][i] = old[i]
         /\ \A i \in 1 .. n : new[m][Len(old) + i] = UnitAt(BufferOf(s), i)
<1> DEFINE e == file[s].ent  old == disk[e][m]
           row == WriteAt(old, Len(old), [i \in 1 .. n |-> UnitAt(BufferOf(s), i)])
<1>1. /\ e \in DOMAIN job /\ t_write[s].fd \in Nat /\ disk \in [DOMAIN job -> Seq(Seq(Unit))]
  BY SlotTypes DEF IInv, TypeOK, FdType, KernelType
<1>2. disk[e] \in Seq(Seq(Unit)) /\ m \in DOMAIN disk[e] /\ m >= 1 /\ old \in Seq(Unit)
      /\ DOMAIN disk[e] = 1 .. m
  BY <1>1
<1>4. Sent(s, n) = [disk EXCEPT ![e][m] = row]
  BY DEF Sent
<1>5. Sent(s, n)[e] = [disk[e] EXCEPT ![m] = row]
  <2> HIDE DEF row, e
  <2>1. QED BY <1>1, <1>4
<1>6. Sent(s, n)[e] \in Seq(Seq(Unit)) /\ Len(Sent(s, n)[e]) = m
  <2>1. Sent(s, n) \in [DOMAIN job -> Seq(Seq(Unit))]
    BY SentType DEF IInv, TypeOK
  <2>2. Len(Sent(s, n)[e]) = Len(disk[e])
    BY SentCount
  <2>3. QED BY <1>1, <2>1, <2>2
<1>7. /\ \A k \in 1 .. m - 1 : Sent(s, n)[e][k] = disk[e][k]
      /\ Sent(s, n)[e][m] = row
  <2> HIDE DEF row, e
  <2>1. QED BY <1>2, <1>5
<1>8. /\ \A i \in 1 .. Len(old) : row[i] = old[i]
      /\ \A i \in 1 .. n : row[Len(old) + i] = UnitAt(BufferOf(s), i)
  <2>1. \A buf : LET new == WriteAt(old, Len(old), [i \in 1 .. n |-> UnitAt(buf, i)]) IN
                  /\ \A i \in 1 .. Len(old) : new[i] = old[i]
                  /\ \A i \in 1 .. n : new[Len(old) + i] = UnitAt(buf, i)
    <3> HIDE DEF old
    <3>1. QED BY <1>2, WriteAppends
  <2>2. QED BY <2>1, Zenon
<1>9. Len(Sent(s, n)[e][m]) = Len(old) + n
  <2>1. t_write[s].fd + 1 <= Len(disk[e])
    BY <1>1
  <2>2. \A k \in DOMAIN disk[e] : Len(Sent(s, n)[e][k]) =
           IF k = m THEN Len(disk[e][k]) + n ELSE Len(disk[e][k])
    BY <2>1, SentEnd
  <2>3. QED BY <1>2, <2>2
<1> HIDE DEF row, old
<1>10. QED BY <1>2, <1>6, <1>7, <1>8, <1>9 DEF old

\* No step changes the listing or the copy mode.
LEMMA JobKept ==
  ASSUME Next
  PROVE  job' = job /\ copy_mode' = copy_mode
  BY DEF Next, CopyThread, Walk, AddFlush, AddPiece, AddEmpty, AddFile, AddFails, EndWalk,
         OpenSection, LoopExit, LoopSkip, OpenReadFails, OpenWriteFails, NotOpened, OpenFile,
         OpenFileAioFails, OpenBoth, ReadEndSection, ReadEndSkip, ReadEndFails, SingleWrite,
         ReadAhead, LastRead, JoinMissing, JoinNext, JoinOpenFails, JoinCloseFails, JoinStep,
         IssueWrite, JoinSetFl, WriteEndSection, WriteEndSkip, WriteEndError, FinishFile,
         FinishCloseFails, SplitFile, SplitCloseFails, SplitOpenFails, SplitStep, WriteOn,
         WriteEnd, Leaving, Display, UserAbort, Cleanup, ReturnToAdd, ReturnFailed, Finish,
         AioThread, ReadTransfer, fast_func_read, ReadError, WriteTransfer, fast_func_write,
         WriteError, copyUnchanged, Terminated, vars, GoTo, Leave, CallProcess, walkUnchanged,
         walkVars, kernVars

\* What a file is made of depends on the listing alone.
LEMMA SourceKept ==
  ASSUME job' = job
  PROVE  \A e : /\ Parts(e)' = Parts(e) /\ SourceOf(e)' = SourceOf(e) /\ Length(e)' = Length(e)
                /\ disk'[e] = disk[e] => Total(e)' = Total(e)
  BY DEF Parts, SourceOf, Length, Total

\* The slot that writes, while its write is on its way.
LEMMA WriterFacts ==
  ASSUME IInv, CopyInv, NEW s \in Slots, aio_w[s] = "issued"
  PROVE  LET e == file[s].ent  m == t_write[s].fd + 1 IN
         /\ e \in DOMAIN job /\ t_write[s].fd # -1 /\ m \in Nat /\ m = Len(disk[e])
         /\ t_write[s].offset = Len(disk[e][m])
         /\ t_write[s].size \in Nat /\ t_write[s].size > 0 /\ t_write[s].size <= FILESIZE_MAX
         /\ writed[s] \in Nat /\ Total(e) = writed[s]
         /\ writed[s] + t_write[s].size <= Length(e)
         /\ Carries(s, BufferOf(s), writed[s], t_write[s].size)
<1> DEFINE e == file[s].ent  m == t_write[s].fd + 1
<1>1. t_write[s].fd # -1
  BY DEF IInv, SlotInv
<1>2. /\ e \in DOMAIN job /\ writed[s] \in Int /\ t_write[s].size \in Int /\ t_write[s].fd \in Nat
  <2>1. t_write[s].fd \in FdType /\ e \in DOMAIN job
    BY SlotTypes DEF IInv, TypeOK
  <2>2. QED BY <1>1, <2>1, SlotNumbers DEF FdType
<1>3. WriteSide(s)
  BY <1>1 DEF CopyInv, WriteSides
<1>4. writed[s] >= 0 /\ t_write[s].size > 0
  BY <1>3 DEF WriteSide
<1>5. Total(e) = writed[s] + 0
  BY <1>3, <1>4 DEF WriteSide
<1>6. Total(e) = writed[s]
  BY <1>2, <1>5
<1>7. /\ m = Len(disk[e]) /\ t_write[s].offset = Len(disk[e][m])
      /\ t_write[s].size <= FILESIZE_MAX
      /\ writed[s] + t_write[s].size <= Length(e)
      /\ Carries(s, BufferOf(s), writed[s], t_write[s].size)
  BY <1>3 DEF WriteSide
<1>8. m \in Nat /\ writed[s] \in Nat /\ t_write[s].size \in Nat
  BY <1>2, <1>4
<1>9. QED BY <1>1, <1>2, <1>4, <1>6, <1>7, <1>8

\* What a write sends, all of it or only the first units, goes where it belongs.
LEMMA WriteAdds ==
  ASSUME IInv, CopyInv, NEW s \in Slots, NEW n \in Nat, aio_w[s] = "issued",
         n <= t_write[s].size, disk' = Sent(s, n), job' = job, NEW e, e = file[s].ent
  PROVE  /\ e \in DOMAIN job /\ Len(disk'[e]) = Len(disk[e])
         /\ Total(e)' = Total(e) + n /\ Total(e) + n <= Length(e)
         /\ \A x \in DOMAIN job : x # e => disk'[x] = disk[x] /\ Total(x)' = Total(x)
         /\ InPlace'
<1>1. PICK m \in Nat : m = t_write[s].fd + 1 /\ m = Len(disk[e])
  BY WriterFacts
<1>2. /\ e \in DOMAIN job /\ t_write[s].fd # -1 /\ t_write[s].offset = Len(disk[e][m])
      /\ t_write[s].size \in Nat
      /\ writed[s] \in Nat /\ Total(e) = writed[s]
      /\ writed[s] + t_write[s].size <= Length(e)
      /\ Carries(s, BufferOf(s), writed[s], t_write[s].size)
  BY <1>1, WriterFacts
<1>3. PICK new : new = Sent(s, n)[e]
  OBVIOUS
<1>4. PICK old : old = disk[e][m]
  OBVIOUS
<1>5. /\ m >= 1 /\ old \in Seq(Unit) /\ new \in Seq(Seq(Unit)) /\ Len(new) = m
      /\ \A k \in 1 .. m - 1 : new[k] = disk[e][k]
      /\ Len(new[m]) = Len(old) + n
      /\ \A i \in 1 .. Len(old) : new[m][i] = old[i]
      /\ \A i \in 1 .. n : new[m][Len(old) + i] = UnitAt(BufferOf(s), i)
  <2>1. LET old1 == disk[file[s].ent][m]  new1 == Sent(s, n)[file[s].ent] IN
        /\ old1 \in Seq(Unit) /\ m >= 1 /\ new1 \in Seq(Seq(Unit)) /\ Len(new1) = m
        /\ \A k \in 1 .. m - 1 : new1[k] = disk[file[s].ent][k]
        /\ Len(new1[m]) = Len(old1) + n
        /\ \A i \in 1 .. Len(old1) : new1[m][i] = old1[i]
        /\ \A i \in 1 .. n : new1[m][Len(old1) + i] = UnitAt(BufferOf(s), i)
    <3>1. t_write[s].offset = Len(disk[file[s].ent][m]) /\ m = Len(disk[file[s].ent])
      BY <1>1, <1>2
    <3>2. QED BY <1>1, <1>2, <3>1, SentUnits, Zenon
  <2>2. new = Sent(s, n)[file[s].ent] /\ old = disk[file[s].ent][m]
    BY <1>3, <1>4
  <2>3. QED BY <2>1, <2>2, Zenon
<1>6. disk'[e] = new /\ \A x \in DOMAIN job : x # e => disk'[x] = disk[x]
  BY <1>3, SentCount
<1>7. PICK src \in Seq(Int \X Int) : src = SourceOf(e)
  BY <1>2, SourceFacts
<1>8. PICK t \in Nat : t = Total(e)
  BY <1>2, TotalFacts
<1>9. PICK out \in Seq(Seq(Unit)) : out = disk[e]
  BY <1>2, TotalFacts
<1>10. t + n <= Len(src)
  <2>1. Len(src) = Length(e) /\ Length(e) \in Nat
    BY <1>2, <1>7, SourceFacts DEF Length
  <2>2. QED BY <1>2, <1>8, <2>1
<1>11. \A i \in 1 .. n : UnitAt(BufferOf(s), i) = src[t + i]
  <2>1. \A i \in 1 .. n : i \in 1 .. t_write[s].size
    BY <1>2
  <2>2. \A i \in 1 .. t_write[s].size : UnitAt(BufferOf(s), i) = SourceOf(e)[writed[s] + i]
    BY <1>2 DEF Carries
  <2>3. QED BY <1>2, <1>7, <1>8, <2>1, <2>2
<1>12. Placed(src, out) /\ Cardinality(Places(out)) = t
  BY <1>2, <1>7, <1>8, <1>9 DEF CopyInv, InPlace, Total
<1>13. Placed(src, new) /\ Cardinality(Places(new)) = t + n
  <2>1. out[m] = old
    BY <1>4, <1>9
  <2>2. /\ Len(out) = m /\ \A k \in 1 .. m - 1 : new[k] = out[k]
        /\ Len(new[m]) = Len(out[m]) + n
        /\ \A i \in 1 .. Len(out[m]) : new[m][i] = out[m][i]
        /\ \A i \in 1 .. n : new[m][Len(out[m]) + i] = src[Cardinality(Places(out)) + i]
        /\ Cardinality(Places(out)) + n <= Len(src)
    BY <1>1, <1>5, <1>9, <1>10, <1>11, <1>12, <2>1
  <2>3. /\ m \in DOMAIN out /\ Len(new) = Len(out)
        /\ \A k \in DOMAIN out : k # m => new[k] = out[k]
        /\ \A k \in DOMAIN out : k > m => out[k] = << >>
    <3>1. DOMAIN out = 1 .. m /\ m \in 1 .. m /\ Len(new) = m
      BY <1>5, <2>2
    <3>2. \A k \in 1 .. m : (k # m => k \in 1 .. m - 1) /\ ~(k > m)
      BY <3>1
    <3>3. QED BY <2>2, <3>1, <3>2
  <2>4. Extends(src, out, new, m, n) /\ new \in Seq(Seq(Unit))
    BY <1>5, <2>2, <2>3 DEF Extends
  <2>5. Placed(src, new) /\ Cardinality(Places(new)) = Cardinality(Places(out)) + n
    BY <1>12, <2>4, PlacedMore
  <2>6. QED BY <1>12, <2>5
<1>14. Total(e)' = Total(e) + n /\ Total(e) + n <= Length(e)
  BY <1>6, <1>7, <1>8, <1>10, <1>13 DEF Total, Length
<1>15. InPlace'
  <2>1. ASSUME NEW x \in DOMAIN job PROVE Placed(SourceOf(x), disk'[x])
    <3>1. CASE x = e
      BY <1>6, <1>7, <1>13, <3>1
    <3>2. CASE x # e
      BY <1>6, <3>2 DEF CopyInv, InPlace
    <3>3. QED BY <3>1, <3>2
  <2>2. QED BY <2>1, SourceKept DEF InPlace
<1>16. \A x \in DOMAIN job : x # e => Total(x)' = Total(x)
  BY <1>6, SourceKept
<1>17. Len(disk'[e]) = Len(disk[e])
  BY <1>1, <1>5, <1>6
<1>18. QED BY <1>2, <1>6, <1>14, <1>15, <1>16, <1>17

\* A fragment that is opened adds no unit.
LEMMA OpenAdds ==
  ASSUME IInv, InPlace, NEW e \in DOMAIN job, disk'[e] = Append(disk[e], << >>),
         \A x \in DOMAIN job : x # e => disk'[x] = disk[x], job' = job
  PROVE  InPlace' /\ \A x \in DOMAIN job : Total(x)' = Total(x)
<1>1. /\ SourceOf(e) \in Seq(Int \X Int) /\ disk[e] \in Seq(Seq(Unit))
      /\ Placed(SourceOf(e), disk[e])
  BY SourceFacts, TotalFacts DEF InPlace
<1>2. Placed(SourceOf(e), disk'[e])
  BY <1>1, PlacedEmpty
<1>3. Places(disk'[e]) = Places(disk[e])
  BY <1>1, EmptyFragment
<1>4. \A x \in DOMAIN job : Placed(SourceOf(x), disk'[x])
  BY <1>2 DEF InPlace
<1>5. \A x \in DOMAIN job : Total(x)' = Total(x)
  BY <1>3, SourceKept DEF Total
<1>6. QED BY <1>4, <1>5, SourceKept DEF InPlace

\* A file is created with one empty fragment, when the walk passes an empty file or
\* when a queued one is opened; a full fragment of a split file is followed by one.
LEMMA OpenedFragments ==
  ASSUME IInv, SplitInv
  PROVE  /\ AddEmpty => /\ disk[next] = << >> /\ disk'[next] = Append(disk[next], << >>)
                        /\ \A x \in DOMAIN job : x # next => disk'[x] = disk[x]
         /\ OpenBoth => LET e == file[cur_r].ent IN
               /\ e \in DOMAIN job /\ cur_r \in Slots /\ cur_r < fast_num_files /\ fl[cur_r] = 1
               /\ number_frag[cur_r] = 0 /\ OutFrag(cur_r) = 0 /\ disk[e] = << >>
               /\ disk'[e] = Append(disk[e], << >>)
               /\ \A x \in DOMAIN job : x # e => disk'[x] = disk[x]
         /\ SplitFile => LET e == file[cur_w].ent IN
               /\ e \in DOMAIN job /\ cur_w \in Slots /\ cur_w < fast_num_files
               /\ file[cur_w].mode = 1 /\ t_write[cur_w].fd = number_frag[cur_w]
               /\ Len(disk[e]) = number_frag[cur_w] + 1
               /\ disk'[e] = Append(disk[e], << >>)
               /\ \A x \in DOMAIN job : x # e => disk'[x] = disk[x]
<1>t. disk \in [DOMAIN job -> Seq(Seq(Unit))]
  BY DEF IInv, TypeOK, KernelType
<1>e. Append(<< >>, << >>) = << << >> >> /\ Truncate(<< >>, 0) = << << >> >>
  BY EmptySized
<1>1. ASSUME AddEmpty
      PROVE  /\ disk[next] = << >> /\ disk'[next] = Append(disk[next], << >>)
             /\ \A x \in DOMAIN job : x # next => disk'[x] = disk[x]
  <2>1. next \in DOMAIN job /\ disk[next] = << >>
    BY <1>1, Numbers DEF AddEmpty, SplitInv, OwnInv
  <2>2. disk'[next] = << << >> >> /\ \A x \in DOMAIN job : x # next => disk'[x] = disk[x]
    BY <1>t, <1>e, <1>1, <2>1 DEF AddEmpty
  <2>3. QED BY <1>e, <2>1, <2>2
<1>2. ASSUME OpenBoth
      PROVE  LET e == file[cur_r].ent IN
             /\ e \in DOMAIN job /\ cur_r \in Slots /\ cur_r < fast_num_files /\ fl[cur_r] = 1
             /\ number_frag[cur_r] = 0 /\ OutFrag(cur_r) = 0 /\ disk[e] = << >>
             /\ disk'[e] = Append(disk[e], << >>)
             /\ \A x \in DOMAIN job : x # e => disk'[x] = disk[x]
  <2> DEFINE e == file[cur_r].ent
  <2>1. cur_r \in Slots /\ cur_r < fast_num_files /\ fl[cur_r] = 1
    BY <1>2, OpenSlot DEF OpenBoth, OpenGuard
  <2>2. disk[e] = << >> /\ number_frag[cur_r] = 0 /\ OutFrag(cur_r) = 0 /\ e \in DOMAIN job
    BY <2>1, SlotNumbers DEF SplitInv, OwnInv, OutFrag
  <2>3. /\ disk'[e] = << << >> >>
        /\ \A x \in DOMAIN job : x # e => disk'[x] = disk[x]
    BY <1>t, <1>e, <1>2, <2>2 DEF OpenBoth
  <2>4. QED BY <1>e, <2>1, <2>2, <2>3
<1>3. ASSUME SplitFile
      PROVE  LET e == file[cur_w].ent IN
             /\ e \in DOMAIN job /\ cur_w \in Slots /\ cur_w < fast_num_files
             /\ file[cur_w].mode = 1 /\ t_write[cur_w].fd = number_frag[cur_w]
             /\ Len(disk[e]) = number_frag[cur_w] + 1
             /\ disk'[e] = Append(disk[e], << >>)
             /\ \A x \in DOMAIN job : x # e => disk'[x] = disk[x]
  <2> DEFINE e == file[cur_w].ent
  <2>1. /\ cur_w \in Slots /\ cur_w < fast_num_files /\ t_write[cur_w].fd # -1
        /\ file[cur_w].mode = 1
    BY <1>3, WriteEndSlot DEF SplitFile, SplitStep, SplitDue
  <2>2. SplitSlot(cur_w)
    BY <2>1 DEF SplitInv, SplitSlots
  <2>3. /\ t_write[cur_w].fd = number_frag[cur_w] /\ Len(disk[e]) = number_frag[cur_w] + 1
    BY <2>2 DEF SplitSlot
  <2>4. number_frag[cur_w] + 1 + 1 \notin DOMAIN disk[e] /\ e \in DOMAIN job
    BY <2>1, <2>3, SlotNumbers
  <2>5. /\ disk'[e] = Append(disk[e], << >>)
        /\ \A x \in DOMAIN job : x # e => disk'[x] = disk[x]
    BY <1>t, <1>3, <2>4 DEF SplitFile, Truncate
  <2>6. QED BY <2>1, <2>3, <2>4, <2>5
<1>4. QED BY <1>1, <1>2, <1>3

\* The steps that are no write keep what is at the destination.
LEMMA DiskStep ==
  ASSUME IInv, SplitInv, Next, \A s \in Slots : ~WriteTransfer(s) /\ ~WriteError(s)
  PROVE  disk' = disk \/ AddEmpty \/ OpenBoth \/ SplitFile
<1> USE DEF GoTo, walkUnchanged, kernVars
<1>1. CASE \/ AddFlush \/ AddPiece \/ AddFile \/ AddFails \/ EndWalk \/ LoopExit \/ LoopSkip
           \/ OpenReadFails \/ OpenWriteFails \/ ReadEndSection \/ Leaving \/ Terminated
           \/ WriteEndSkip \/ WriteEndError \/ FinishFile \/ FinishCloseFails \/ SplitCloseFails
           \/ SplitOpenFails \/ WriteOn
  BY <1>1
    DEF AddFlush, AddPiece, AddFile, AddFails, EndWalk, LoopExit, LoopSkip, OpenReadFails,
        OpenWriteFails, NotOpened, ReadEndSection, ReadEndSkip, ReadEndFails, SingleWrite,
        ReadAhead, LastRead, JoinMissing, JoinNext, JoinOpenFails, JoinCloseFails, JoinStep,
        IssueWrite, JoinSetFl, Leaving, Display, UserAbort, Cleanup, ReturnToAdd, ReturnFailed,
        Finish, Terminated, vars, WriteEndSkip, WriteEndError, FinishFile, FinishCloseFails,
        SplitCloseFails, SplitOpenFails, WriteOn
<1>2. ASSUME NEW s \in Slots, ReadTransfer(s) \/ fast_func_read(s) \/ ReadError(s)
                              \/ fast_func_write(s)
      PROVE  disk' = disk
  BY <1>2 DEF ReadTransfer, fast_func_read, ReadError, fast_func_write
<1>3. QED
  BY <1>1, <1>2
    DEF Next, CopyThread, Walk, OpenSection, OpenFile, OpenFileAioFails, WriteEndSection, AioThread

\* Only a write adds units.
LEMMA UnitsKept ==
  ASSUME IInv, SplitInv, InPlace, Next, \A s \in Slots : ~WriteTransfer(s) /\ ~WriteError(s)
  PROVE  InPlace' /\ \A x \in DOMAIN job : Total(x)' = Total(x)
<1>1. job' = job
  BY JobKept
<1>2. CASE disk' = disk
  BY <1>1, <1>2, SourceKept DEF InPlace
<1>3. CASE AddEmpty
  <2>1. next \in DOMAIN job
    BY <1>3 DEF AddEmpty
  <2>2. QED BY <1>1, <1>3, <2>1, OpenedFragments, OpenAdds
<1>4. CASE OpenBoth
  BY <1>1, <1>4, OpenedFragments, OpenAdds
<1>5. CASE SplitFile
  BY <1>1, <1>5, OpenedFragments, OpenAdds
<1>6. QED BY <1>2, <1>3, <1>4, <1>5, DiskStep

\* How many units a write adds, and that it then adds them.
LEMMA WriteStep ==
  ASSUME IInv, CopyInv, NEW s \in Slots, WriteTransfer(s) \/ WriteError(s)
  PROVE  /\ aio_w[s] = "issued" /\ job' = job
         /\ \E n \in Nat : n <= t_write[s].size /\ disk' = Sent(s, n)
         /\ WriteTransfer(s) => disk' = Sent(s, t_write[s].size)
<1>1. aio_w[s] = "issued" /\ job' = job
  BY DEF WriteTransfer, WriteError, copyUnchanged, walkVars
<1>2. t_write[s].size \in Nat
  BY <1>1, WriterFacts
<1>3. CASE WriteTransfer(s)
  <2>1. disk' = Sent(s, t_write[s].size)
    BY <1>3 DEF WriteTransfer
  <2>2. t_write[s].size <= t_write[s].size
    BY <1>2
  <2>3. QED BY <1>1, <1>2, <2>1, <2>2
<1>4. CASE WriteError(s) /\ ~WriteTransfer(s)
  <2>1. PICK n \in 0 .. t_write[s].size - 1 : disk' = Sent(s, n)
    BY <1>4 DEF WriteError
  <2>2. n \in Nat /\ n <= t_write[s].size
    BY <1>2, <2>1
  <2>3. QED BY <1>1, <1>4, <2>1, <2>2
<1>5. QED BY <1>3, <1>4

\* Every step keeps the units in place and takes none away.
LEMMA InPlaceStep ==
  ASSUME IInv, SplitInv, CopyInv, Next
  PROVE  InPlace' /\ \A x \in DOMAIN job : Total(x)' \in Nat /\ Total(x)' >= Total(x)
<1>0. job' = job /\ \A x \in DOMAIN job : Total(x) \in Nat
  BY JobKept, TotalFacts
<1>1. CASE \A s \in Slots : ~WriteTransfer(s) /\ ~WriteError(s)
  <2>1. InPlace' /\ \A x \in DOMAIN job : Total(x)' = Total(x)
    BY <1>1, UnitsKept DEF CopyInv
  <2>2. QED BY <1>0, <2>1
<1>2. ASSUME NEW s \in Slots, WriteTransfer(s) \/ WriteError(s)
      PROVE  InPlace' /\ \A x \in DOMAIN job : Total(x)' \in Nat /\ Total(x)' >= Total(x)
  <2>1. PICK n \in Nat : n <= t_write[s].size /\ disk' = Sent(s, n)
    BY <1>2, WriteStep
  <2>2. PICK e : e = file[s].ent
    OBVIOUS
  <2>3. /\ Total(e)' = Total(e) + n /\ InPlace' /\ e \in DOMAIN job
        /\ \A x \in DOMAIN job : x # e => Total(x)' = Total(x)
    BY <1>2, <2>1, <2>2, WriteStep, WriteAdds
  <2>4. QED BY <1>0, <2>1, <2>3
<1>3. QED BY <1>1, <1>2

\* What is whole stays whole.
LEMMA WholeKept ==
  ASSUME IInv, SplitInv, CopyInv, Next
  PROVE  \A x \in DOMAIN job : Complete(x) => Complete(x)'
<1>1. TAKE x \in DOMAIN job
<1>2. /\ InPlace' /\ Total(x)' \in Nat /\ Total(x)' >= Total(x) /\ job' = job /\ Total(x) \in Nat
      /\ Length(x) \in Nat /\ Length(x)' = Length(x) /\ SourceOf(x)' = SourceOf(x)
  BY InPlaceStep, JobKept, SourceKept, SourceFacts, TotalFacts
<1>3. Total(x)' <= Length(x)
  BY <1>2 DEF InPlace, Placed, Total, Length
<1>4. QED BY <1>2, <1>3 DEF Complete

\* A file that is settled stays so.
LEMMA SettledKept ==
  ASSUME IInv, SplitInv, CopyInv, Next
  PROVE  \A x \in DOMAIN job : Settled(x) => Settled(x)'
  BY WholeKept, MissedStep DEF Settled

\* A step that queues nothing leaves what was queued as it is.
LEMMA NewSlotsSame ==
  ASSUME IInv, NewSlots, job' = job, copy_mode' = copy_mode, file' = file,
         fast_num_files' \in {fast_num_files, 0}, missed \subseteq missed',
         \A s \in Slots : fl'[s] = 1 => fl[s] = 1 /\ len'[s] = len[s]
  PROVE  NewSlots'
<1>1. \A s \in Slots : s < fast_num_files' => s < fast_num_files
  BY Numbers
<1>2. ASSUME NEW s \in Slots, s < fast_num_files'
      PROVE  /\ job[file[s].ent].kind # "piece"
             /\ file[s].dbl <=> job[file[s].ent].frags[1] >= FILESIZE_MAX
             /\ file[s].size_mem <= FILESIZE_MAX
             /\ fl'[s] = 1 => len'[s] = job[file[s].ent].frags[1]
             /\ \/ file[s].mode = ModeOf(file[s].ent) \/ ~Fragmented(file[s].ent)
                \/ file[s].ent \in missed'
  BY <1>1, <1>2 DEF NewSlots
<1>m. \A e : ModeOf(e)' = ModeOf(e) /\ Fragmented(e)' = Fragmented(e)
  BY DEF ModeOf, Fragmented
<1>3. \A r, s \in Slots : r < s /\ s < fast_num_files' => file[r].ent < file[s].ent
  BY <1>1 DEF NewSlots
<1>4. QED BY <1>2, <1>m, <1>3 DEF NewSlots

\* The file that is queued is as long as its first fragment says, and follows the others.
LEMMA NewSlotsAdd ==
  ASSUME IInv, OwnInv, NewSlots, AddFile
  PROVE  NewSlots'
<1>1. PICK n \in Slots : n = fast_num_files
  BY SizesAssumption DEF IInv, TypeOK, EngineType, Slots, AddFile, QueueFull
<1>2. /\ next \in Int /\ next \in DOMAIN job /\ fast_num_files' = n + 1 /\ job' = job
      /\ job[next].kind # "piece" /\ n \in Nat /\ \A s \in Slots : s \in Nat
      /\ \A s \in Slots : file[s].ent \in Int
  BY <1>1, Numbers DEF AddFile
<1>3. /\ file'[n].ent = next /\ (file'[n].dbl <=> job[next].frags[1] >= FILESIZE_MAX)
      /\ file'[n].size_mem = IF job[next].frags[1] >= FILESIZE_MAX THEN FILESIZE_MAX
                             ELSE job[next].frags[1]
      /\ len'[n] = job[next].frags[1]
  <2>1. PICK mode : file' = [file EXCEPT ![n] =
            [ent |-> next, mode |-> mode, dbl |-> job[next].frags[1] >= FILESIZE_MAX,
             size_mem |-> IF job[next].frags[1] >= FILESIZE_MAX THEN FILESIZE_MAX
                          ELSE job[next].frags[1]]]
    BY <1>1, AddedMode
  <2>2. len' = [len EXCEPT ![n] = job[next].frags[1]]
    BY <1>1 DEF AddFile
  <2>3. QED BY <1>1, <2>1, <2>2 DEF IInv, TypeOK, QueueType
<1>m. /\ file'[n].mode = ModeOf(next) \/ ~Fragmented(next) \/ next \in missed'
      /\ missed \subseteq missed'
      /\ \A e : ModeOf(e)' = ModeOf(e) /\ Fragmented(e)' = Fragmented(e)
  <2>1. PICK mode \in ModesOf(next) :
            /\ file' = [file EXCEPT ![n] =
                  [ent |-> next, mode |-> mode, dbl |-> job[next].frags[1] >= FILESIZE_MAX,
                   size_mem |-> IF job[next].frags[1] >= FILESIZE_MAX THEN FILESIZE_MAX
                                ELSE job[next].frags[1]]]
            /\ missed' = IF mode # ModeOf(next) /\ Fragmented(next) THEN missed \cup {next}
                         ELSE missed
    BY <1>1, AddedMode
  <2>2. file'[n].mode = mode
    BY <1>1, <2>1 DEF IInv, TypeOK, QueueType
  <2>3. job' = job /\ copy_mode' = copy_mode
    BY DEF AddFile
  <2>4. QED BY <2>1, <2>2, <2>3 DEF ModeOf, Fragmented
<1>4. \A s \in Slots : s # n => file'[s] = file[s] /\ fl'[s] = fl[s] /\ len'[s] = len[s]
  <2>1. PICK slot : file' = [file EXCEPT ![n] = slot]
    BY <1>1, AddedMode
  <2>2. /\ fl' = [fl EXCEPT ![n] = 1] /\ len' = [len EXCEPT ![n] = job[next].frags[1]]
    BY <1>1 DEF AddFile
  <2>3. QED BY <1>1, <2>1, <2>2 DEF IInv, TypeOK, QueueType
<1>5. file'[n].size_mem <= FILESIZE_MAX
  <2>1. job[next].frags[1] \in Nat /\ FILESIZE_MAX \in Nat
    BY <1>2, JobFacts, SizesAssumption DEF IInv, TypeOK, ControlType
  <2>2. QED BY <1>3, <2>1
<1>6. \A s \in Slots : s < n + 1 => s = n \/ (s < n /\ s # n)
  BY <1>2
<1>7. ASSUME NEW s \in Slots, s < n + 1
      PROVE  /\ job[file'[s].ent].kind # "piece"
             /\ file'[s].dbl <=> job[file'[s].ent].frags[1] >= FILESIZE_MAX
             /\ file'[s].size_mem <= FILESIZE_MAX
             /\ fl'[s] = 1 => len'[s] = job[file'[s].ent].frags[1]
             /\ \/ file'[s].mode = ModeOf(file'[s].ent) \/ ~Fragmented(file'[s].ent)
                \/ file'[s].ent \in missed'
  <2>1. CASE s = n
    BY <1>2, <1>3, <1>m, <1>5, <2>1
  <2>2. CASE s < n /\ s # n
    BY <1>1, <1>4, <1>m, <2>2 DEF NewSlots
  <2>3. QED BY <1>6, <1>7, <2>1, <2>2
<1>8. ASSUME NEW r \in Slots, NEW s \in Slots, r < s, s < n + 1
      PROVE  file'[r].ent < file'[s].ent
  <2>0. r \in Nat /\ s \in Nat
    BY <1>2
  <2>1. r < n /\ r # n
    BY <1>2, <1>8, <2>0
  <2>2. file'[r] = file[r] /\ file[r].ent < next
    BY <1>1, <1>4, <2>1 DEF OwnInv
  <2>3. CASE s = n
    BY <1>3, <2>2, <2>3
  <2>4. CASE s < n /\ s # n
    BY <1>1, <1>4, <1>8, <2>2, <2>4 DEF NewSlots
  <2>5. QED BY <1>6, <1>8, <2>3, <2>4
<1>9. QED BY <1>2, <1>m, <1>7, <1>8 DEF NewSlots

\* Every step keeps what is known of the queued slots.
LEMMA NewSlotsStep ==
  ASSUME IInv, OwnInv, NewSlots, Next
  PROVE  NewSlots'
<1> USE DEF GoTo, Leave, CallProcess, walkUnchanged, walkVars, queueVars, slotVars, fragVars
<1>t. fl \in [Slots -> 0 .. 5] /\ len \in [Slots -> Int]
  BY DEF IInv, TypeOK, QueueType
<1>j. job' = job /\ copy_mode' = copy_mode /\ missed \subseteq missed'
  BY JobKept, MissedStep
<1>1. CASE AddFile
  BY <1>1, NewSlotsAdd
<1>2. CASE \/ AddFlush \/ AddPiece \/ AddEmpty \/ AddFails \/ EndWalk \/ LoopExit \/ LoopSkip
           \/ OpenReadFails \/ OpenWriteFails \/ ReadEndSkip \/ ReadEndFails \/ WriteEndSkip
           \/ WriteEndError \/ FinishCloseFails \/ SplitFile \/ SplitCloseFails \/ SplitOpenFails
           \/ WriteOn \/ Display \/ UserAbort \/ Cleanup \/ ReturnToAdd \/ ReturnFailed \/ Finish
           \/ Terminated
  <2>1. /\ file' = file /\ fl' = fl /\ len' = len
        /\ fast_num_files' \in {fast_num_files, 0}
    BY <1>2
      DEF AddFlush, AddPiece, AddEmpty, AddFails, EndWalk, LoopExit, LoopSkip, OpenReadFails,
          OpenWriteFails, NotOpened, ResetCounters, ReadEndSkip, ReadEndFails, WriteEndSkip,
          WriteEndError, WriteEnd, FinishCloseFails, SplitFile, SplitCloseFails, SplitOpenFails,
          SplitStep, WriteOn, Display, UserAbort, Cleanup, ReturnToAdd, ReturnFailed, Finish,
          Terminated, vars
  <2>2. QED BY <1>j, <2>1, NewSlotsSame
<1>3. CASE OpenFile \/ OpenFileAioFails \/ FinishFile
  <2>1. /\ file' = file /\ len' = len /\ fast_num_files' = fast_num_files
        /\ fl' = [fl EXCEPT ![cur_r] = 2] \/ fl' = [fl EXCEPT ![cur_w] = 4]
    BY <1>3 DEF OpenFile, OpenFileAioFails, OpenBoth, ResetCounters, FinishFile, WriteEnd
  <2>2. \A s \in Slots : fl'[s] = 1 => fl[s] = 1
    BY <1>t, <2>1
  <2>3. QED BY <1>j, <2>1, <2>2, NewSlotsSame
<1>4. CASE SingleWrite \/ ReadAhead \/ LastRead \/ JoinMissing \/ JoinNext \/ JoinOpenFails
           \/ JoinCloseFails
  <2>1. IssueWrite
    BY <1>4 DEF SingleWrite, ReadAhead, LastRead, JoinMissing, JoinNext, JoinOpenFails,
                JoinCloseFails, JoinStep
  <2>2. cur_r \in Slots /\ fl[cur_r] = 3
    BY <2>1, ReadEndSlot DEF IssueWrite, ReadEndGuard
  <2>3. /\ file' = file /\ fast_num_files' = fast_num_files
    BY <2>1 DEF IssueWrite
  <2>4. /\ fl'[cur_r] # 1
        /\ \A s \in Slots : s # cur_r => fl'[s] = fl[s] /\ len'[s] = len[s]
    BY <1>t, <1>4, <2>2
      DEF SingleWrite, ReadAhead, LastRead, JoinMissing, JoinNext, JoinOpenFails, JoinCloseFails,
          JoinStep, NoMoreReads
  <2>5. QED BY <1>j, <2>3, <2>4, NewSlotsSame
<1>5. CASE JoinSetFl
  <2>1. /\ file' = file /\ len' = len /\ fast_num_files' = fast_num_files
        /\ fl' = [fl EXCEPT ![cur_r] = 2]
    BY <1>5 DEF JoinSetFl
  <2>2. \A s \in Slots : fl'[s] = 1 => fl[s] = 1
    BY <1>t, <2>1
  <2>3. QED BY <1>j, <2>1, <2>2, NewSlotsSame
<1>6. ASSUME NEW s \in Slots, \/ ReadTransfer(s) \/ fast_func_read(s) \/ ReadError(s)
                              \/ WriteTransfer(s) \/ fast_func_write(s) \/ WriteError(s)
      PROVE  NewSlots'
  <2>1. /\ file' = file /\ len' = len /\ fast_num_files' = fast_num_files
        /\ fl' = fl \/ fl' = [fl EXCEPT ![s] = 3]
    BY <1>6 DEF ReadTransfer, fast_func_read, ReadError, WriteTransfer, fast_func_write,
                WriteError, copyUnchanged
  <2>2. \A r \in Slots : fl'[r] = 1 => fl[r] = 1
    BY <1>t, <2>1
  <2>3. QED BY <1>j, <2>1, <2>2, NewSlotsSame
<1>7. QED
  BY <1>1, <1>2, <1>3, <1>4, <1>5, <1>6
    DEF Next, CopyThread, Walk, OpenSection, ReadEndSection, WriteEndSection, Leaving, AioThread

\* Nothing is queued or finished, and no error is lost.
LEMMA OrderedSame ==
  ASSUME Ordered, UNCHANGED <<job, file, fast_num_files, cur_w>>,
         next \in Int, next' \in {next, next + 1},
         \A e \in DOMAIN job : /\ e \in Int /\ (Settled(e) => Settled(e)')
                               /\ e = next /\ next' = next + 1 => Settled(e)',
         failed' => caller' = "end",
         ~failed' /\ error' = 0 /\ ~abort_copy' => ~failed /\ error = 0 /\ ~abort_copy
  PROVE  Ordered'
<1>1. ASSUME fast_num_files' > 0 \/ (~failed' /\ error' = 0 /\ ~abort_copy'),
             NEW e \in DOMAIN job, e < next'
      PROVE  Settled(e)' \/ Queued(e)'
  <2>1. CASE e < next
    <3>1. Settled(e) \/ Queued(e)
      BY <1>1, <2>1 DEF Ordered
    <3>2. Queued(e)' <=> Queued(e)
      BY DEF Queued
    <3>3. QED BY <3>1, <3>2
  <2>2. CASE ~(e < next)
    <3>1. e = next /\ next' = next + 1
      BY <1>1, <2>2
    <3>2. QED BY <3>1
  <2>3. QED BY <2>1, <2>2
<1>2. QED BY <1>1 DEF Ordered

\* A file that is read to its end and all of which has been written is settled.
LEMMA FinishedWhole ==
  ASSUME IInv, CopyInv, FinishFile
  PROVE  Settled(file[cur_w].ent)
<1>1. PICK s \in Slots : s = cur_w /\ s < fast_num_files /\ ~Quiet(s)
  BY WriteEndSlot DEF FinishFile
<1>2. /\ aio_w[s] = "idle" /\ t_write[s].fd # -1 /\ writed[s] >= 0 /\ writed[s] >= len[s]
      /\ ~i_reading /\ pc \in LoopPcs
  BY <1>1, WriteEndSlot DEF FinishFile, FileComplete, WriteEnd, LoopPcs
<1>3. PICK e \in DOMAIN job : e = file[s].ent
  BY SlotNumbers
<1>4. len[s] = Length(e) \/ e \in missed
  BY <1>1, <1>2, <1>3 DEF CopyInv, ReadSides
<1>5. Total(e) = writed[s] + 0
  BY <1>2, <1>3 DEF CopyInv, WriteSides, WriteSide
<1>6. Total(e) <= Length(e)
  BY <1>3 DEF CopyInv, InPlace, Placed, Total, Length
<1>7. writed[s] \in Int /\ Length(e) \in Nat
  BY SlotNumbers, SourceFacts
<1>8. len[s] = Length(e) => Total(e) = Length(e)
  BY <1>2, <1>5, <1>6, <1>7
<1>9. QED BY <1>1, <1>3, <1>4, <1>8 DEF Settled, Complete

\* What the walk passes without queueing it is whole: a later fragment of a split
\* file, which is no file of its own, and an empty file.
LEMMA PassedWhole ==
  ASSUME IInv, CopyInv, InPlace', IInv', AddPiece \/ AddEmpty
  PROVE  \A e \in DOMAIN job : e = next => Settled(e)'
<1>1. SUFFICES ASSUME NEW e \in DOMAIN job, e = next PROVE Complete(e)'
  BY DEF Settled
<1>2. job' = job
  BY DEF AddPiece, AddEmpty
<1>3. Length(e) = 0
  <2>1. CASE AddPiece
    <3>1. job[e].kind = "piece"
      BY <1>1, <2>1 DEF AddPiece
    <3>2. QED BY <3>1, SourceFacts
  <2>2. CASE AddEmpty
    <3>1. job[e].kind # "piece" /\ job[e].frags[1] = 0
      BY <1>1, <2>2 DEF AddEmpty
    <3>2. job \in Jobs /\ job[e] \in Entry
      BY JobsAssumption DEF IInv, TypeOK, ControlType
    <3>3. job[e].kind = "plain"
      BY <3>1, <3>2, FragmentsAssumption DEF Entry
    <3>4. Len(job[e].frags) = 1
      BY <3>2, <3>3, FragmentsAssumption
    <3>5. /\ job[e].frags \in Seq(Nat) /\ StartOf(Parts(e), 1) = 0
          /\ \A g \in DOMAIN job[e].frags :
                StartOf(Parts(e), g + 1) = StartOf(Parts(e), g) + job[e].frags[g]
          /\ Length(e) = StartOf(Parts(e), Len(job[e].frags) + 1)
      BY <3>1, SourceFacts
    <3>6. 1 \in DOMAIN job[e].frags
      BY <3>4, <3>5
    <3>7. StartOf(Parts(e), 1 + 1) = 0 + 0
      BY <3>1, <3>5, <3>6
    <3>8. QED BY <3>4, <3>5, <3>7
  <2>3. QED BY <2>1, <2>2
<1>4. Length(e)' = 0 /\ Total(e)' <= Length(e)'
  <2>1. Placed(SourceOf(e), disk[e])'
    BY <1>2 DEF InPlace
  <2>2. QED BY <1>2, <1>3, <2>1, SourceKept DEF Placed, Total, Length
<1>5. Total(e)' \in Nat
  <2>1. disk'[e] \in Seq(Seq(Unit))
    BY <1>2 DEF IInv, TypeOK, KernelType
  <2>2. QED BY <2>1, PlacesFinite DEF Total
<1>6. QED BY <1>3, <1>4, <1>5 DEF Complete

\* The file that is queued joins those in the queue.
LEMMA OrderedAdd ==
  ASSUME IInv, CountInv, CopyInv, AddFile, \A e \in DOMAIN job : Settled(e) => Settled(e)'
  PROVE  Ordered'
<1>1. PICK n \in Slots : n = fast_num_files
  BY SizesAssumption DEF IInv, TypeOK, EngineType, Slots, AddFile, QueueFull
<1>2. /\ next' = next + 1 /\ fast_num_files' = n + 1 /\ job' = job /\ cur_w' = cur_w
      /\ failed' = failed /\ caller' = caller /\ pc = "walk" /\ next \in Int
      /\ n \in Nat /\ \A s \in Slots : s \in Nat
      /\ \A e \in DOMAIN job : e \in Int
  BY <1>1, Numbers DEF AddFile
<1>3. /\ cur_w = 0 /\ caller # "end" /\ error = 0 /\ ~failed /\ ~abort_copy
  BY <1>2 DEF CountInv, CopyInv, Ordered, IInv, RestInv
<1>4. /\ file'[n].ent = next /\ \A s \in Slots : s # n => file'[s] = file[s]
  BY <1>1 DEF AddFile, IInv, TypeOK, QueueType
<1>5. ASSUME NEW e \in DOMAIN job, e < next + 1
      PROVE  Settled(e)' \/ Queued(e)'
  <2>1. CASE e = next
    <3>1. n < n + 1 /\ 0 <= n
      BY <1>2
    <3>2. QED BY <1>2, <1>3, <1>4, <2>1, <3>1 DEF Queued
  <2>2. CASE e # next
    <3>1. e < next
      BY <1>2, <1>5, <2>2
    <3>2. CASE Settled(e)
      BY <3>2
    <3>3. CASE Queued(e)
      <4>1. PICK s \in Slots : s < n /\ cur_w <= s /\ file[s].ent = e
        BY <1>1, <3>3 DEF Queued
      <4>2. s \in Nat /\ n \in Nat
        BY <1>2
      <4>3. s < n + 1 /\ s # n
        BY <4>1, <4>2
      <4>4. QED BY <1>2, <1>4, <4>1, <4>3 DEF Queued
    <3>4. QED BY <1>3, <3>1, <3>2, <3>3 DEF CopyInv, Ordered
  <2>3. QED BY <2>1, <2>2
<1>6. QED BY <1>2, <1>3, <1>5 DEF Ordered

\* The file that is finished leaves the queue, and is whole.
LEMMA OrderedFinish ==
  ASSUME IInv, CopyInv, FinishFile, \A e \in DOMAIN job : Settled(e) => Settled(e)'
  PROVE  Ordered'
<1>1. /\ UNCHANGED <<job, next, file, fast_num_files, failed, caller, error, abort_copy>>
      /\ cur_w' = cur_w + 1 /\ cur_w \in Nat /\ \A s \in Slots : s \in Nat
  BY Numbers DEF FinishFile, WriteEnd, walkUnchanged, walkVars, queueVars
<1>2. ASSUME fast_num_files > 0 \/ (~failed /\ error = 0 /\ ~abort_copy),
             NEW e \in DOMAIN job, e < next
      PROVE  Settled(e)' \/ Queued(e)'
  <2>1. CASE Settled(e)
    BY <2>1
  <2>2. CASE ~Settled(e)
    <3>1. PICK s \in Slots : s < fast_num_files /\ cur_w <= s /\ file[s].ent = e
      BY <1>2, <2>2 DEF CopyInv, Ordered, Queued
    <3>2. s # cur_w
      BY <2>2, <3>1, FinishedWhole
    <3>3. cur_w + 1 <= s
      BY <1>1, <3>1, <3>2
    <3>4. QED BY <1>1, <3>1, <3>3 DEF Queued
  <2>3. QED BY <2>1, <2>2
<1>3. QED BY <1>1, <1>2 DEF Ordered, CopyInv

\* The queue is released: after a run without an error nothing was left in it.
LEMMA OrderedRelease ==
  ASSUME IInv, CountInv, CopyInv, Cleanup, \A e \in DOMAIN job : Settled(e) => Settled(e)'
  PROVE  Ordered'
<1>1. /\ UNCHANGED <<job, next, failed, caller, error>> /\ fast_num_files' = 0
      /\ abort_copy' = (abort_copy \/ error # 0) /\ pc = "cleanup"
      /\ cur_w \in Nat /\ fast_num_files \in Nat /\ \A s \in Slots : s \in Nat
  BY Numbers DEF Cleanup, walkVars
<1>2. ASSUME ~failed, error = 0, ~abort_copy, NEW e \in DOMAIN job, e < next
      PROVE  Settled(e)'
  <2>1. cur_w = fast_num_files
    BY <1>1, <1>2 DEF CountInv
  <2>2. ~Queued(e)
    BY <1>1, <2>1 DEF Queued
  <2>3. QED BY <1>2, <2>2 DEF CopyInv, Ordered
<1>3. failed' => caller' = "end"
  BY <1>1 DEF Ordered, CopyInv
<1>4. ASSUME fast_num_files' > 0 \/ (~failed' /\ error' = 0 /\ ~abort_copy'),
             NEW e \in DOMAIN job', e < next'
      PROVE  Settled(e)'
  <2>1. ~(0 > 0)
    OBVIOUS
  <2>2. ~failed /\ error = 0 /\ ~abort_copy
    BY <1>1, <1>4, <2>1
  <2>3. QED BY <1>1, <1>2, <1>4, <2>2
<1>5. QED BY <1>3, <1>4 DEF Ordered

\* Every step keeps the files that were passed whole or in the queue.
LEMMA OrderedStep ==
  ASSUME IInv, SplitInv, CountInv, CopyInv, Next, IInv'
  PROVE  Ordered'
<1> USE DEF GoTo, Leave, CallProcess, walkUnchanged, walkVars, queueVars
<1>j. job' = job /\ InPlace'
  BY JobKept, InPlaceStep
<1>w. \A e \in DOMAIN job : Settled(e) => Settled(e)'
  BY SettledKept
<1>n. next \in Int /\ next + 1 # next /\ \A e \in DOMAIN job : e \in Int
  BY Numbers
<1>o. Ordered
  BY DEF CopyInv
<1>f. failed => caller = "end"
  BY DEF CopyInv, Ordered
<1>s. ASSUME UNCHANGED <<file, fast_num_files, next>>, cur_w' = cur_w,
             failed' => caller' = "end",
             ~failed' /\ error' = 0 /\ ~abort_copy' => ~failed /\ error = 0 /\ ~abort_copy
      PROVE  Ordered'
  BY <1>j, <1>w, <1>n, <1>o, <1>s, OrderedSame
<1>1. CASE AddFlush \/ EndWalk
  <2>1. /\ UNCHANGED <<file, fast_num_files, next, failed>> /\ cur_w' = 0 /\ pc = "walk"
    BY <1>1 DEF AddFlush, EndWalk, slotVars
  <2>2. /\ cur_w = 0 /\ caller # "end" /\ error = 0 /\ ~abort_copy
    BY <2>1 DEF CountInv, IInv, RestInv
  <2>3. QED BY <1>f, <1>s, <2>1, <2>2
<1>2. CASE AddFails \/ ReturnFailed
  <2>1. /\ UNCHANGED <<file, fast_num_files, next>> /\ cur_w' = 0
        /\ failed' = TRUE /\ caller' = "end" /\ pc \in {"walk", "return"}
    BY <1>2 DEF AddFails, ReturnFailed, slotVars
  <2>2. cur_w = 0
    BY <2>1 DEF CountInv
  <2>3. QED BY <1>s, <2>1, <2>2
<1>3. CASE AddPiece \/ AddEmpty
  <2>1. /\ UNCHANGED <<file, fast_num_files, cur_w, failed, caller, error, abort_copy>>
        /\ next' = next + 1
    BY <1>3 DEF AddPiece, AddEmpty, slotVars
  <2>2. \A e \in DOMAIN job : e = next => Settled(e)'
    BY <1>3, <1>j, PassedWhole
  <2>3. QED BY <1>f, <1>j, <1>w, <1>n, <1>o, <2>1, <2>2, OrderedSame
<1>4. CASE AddFile
  BY <1>4, <1>w, OrderedAdd
<1>5. CASE LoopExit \/ LoopSkip \/ OpenReadFails \/ OpenWriteFails \/ OpenFile \/ OpenFileAioFails
           \/ ReadEndSkip \/ WriteEndSkip \/ WriteEndError \/ FinishCloseFails \/ SplitFile
           \/ SplitCloseFails \/ SplitOpenFails \/ WriteOn \/ JoinSetFl \/ Display \/ ReturnToAdd
  <2>1. /\ UNCHANGED <<file, fast_num_files, next, cur_w, failed, caller, abort_copy>>
        /\ error' = 0 => error' = error
    BY <1>5
      DEF LoopExit, LoopSkip, OpenReadFails, OpenWriteFails, NotOpened, ResetCounters, OpenFile,
          OpenFileAioFails, OpenBoth, ReadEndSkip, WriteEndSkip, WriteEndError, WriteEnd,
          FinishCloseFails, SplitFile, SplitCloseFails, SplitOpenFails, SplitStep, WriteOn,
          JoinSetFl, Display, ReturnToAdd, slotVars
  <2>2. QED BY <1>f, <1>s, <2>1
<1>6. CASE ReadEndFails
  <2>1. /\ UNCHANGED <<file, fast_num_files, next, failed, caller, abort_copy>>
        /\ cur_w' \in {cur_w, cur_r} /\ error' # 0 /\ ReadEndGuard
    BY <1>6 DEF ReadEndFails, slotVars
  <2>2. QED BY <1>f, <1>s, <2>1, ReadEndSlot
<1>7. CASE SingleWrite \/ ReadAhead \/ LastRead \/ JoinMissing \/ JoinNext \/ JoinOpenFails
           \/ JoinCloseFails
  <2>1. IssueWrite
    BY <1>7 DEF SingleWrite, ReadAhead, LastRead, JoinMissing, JoinNext, JoinOpenFails,
                JoinCloseFails, JoinStep
  <2>2. /\ UNCHANGED <<file, fast_num_files, next, failed, caller, abort_copy>>
        /\ cur_w' = cur_r /\ ReadEndGuard
    BY <2>1 DEF IssueWrite
  <2>3. error' = 0 => error' = error
    BY <1>7 DEF SingleWrite, ReadAhead, LastRead, JoinMissing, JoinNext, JoinOpenFails,
                JoinCloseFails, NoMoreReads, IssueRead
  <2>4. QED BY <1>f, <1>s, <2>2, <2>3, ReadEndSlot
<1>8. CASE UserAbort
  <2>1. /\ UNCHANGED <<file, fast_num_files, next, cur_w, failed, caller>> /\ abort_copy'
    BY <1>8 DEF UserAbort, slotVars
  <2>2. QED BY <1>f, <1>s, <2>1
<1>9. CASE FinishFile
  BY <1>9, <1>w, OrderedFinish
<1>10. CASE Cleanup
  BY <1>10, <1>w, OrderedRelease
<1>11. CASE Finish
  <2>1. /\ UNCHANGED <<file, fast_num_files, next, cur_w, caller, error, abort_copy>>
        /\ caller = "end" /\ failed' = (failed \/ error < 0)
    BY <1>11 DEF Finish, slotVars
  <2>2. QED BY <1>s, <2>1
<1>12. CASE AioThread
  <2>1. UNCHANGED <<file, fast_num_files, next, cur_w, failed, caller, error, abort_copy>>
    BY <1>12 DEF AioThread, ReadTransfer, fast_func_read, ReadError, WriteTransfer,
                 fast_func_write, WriteError, copyUnchanged
  <2>2. QED BY <1>f, <1>s, <2>1
<1>13. CASE Terminated
  <2>1. UNCHANGED <<file, fast_num_files, next, cur_w, failed, caller, error, abort_copy>>
    BY <1>13 DEF Terminated, vars, slotVars
  <2>2. QED BY <1>f, <1>s, <2>1
<1>14. QED
  BY <1>1, <1>2, <1>3, <1>4, <1>5, <1>6, <1>7, <1>8, <1>9, <1>10, <1>11, <1>12, <1>13
    DEF Next, CopyThread, Walk, OpenSection, ReadEndSection, WriteEndSection, Leaving

\* What the writing slot has written stays so while what it sends from is not changed.
LEMMA WriteSideKept ==
  ASSUME NEW s \in Slots, WriteSide(s), UNCHANGED <<job, disk, file, writed, aio_w>>,
         t_write'[s] = t_write[s], aio_w[s] = "issued" => BufferOf(s)' = BufferOf(s)
  PROVE  WriteSide(s)'
<1>1. /\ Length(file[s].ent)' = Length(file[s].ent) /\ Total(file[s].ent)' = Total(file[s].ent)
      /\ SourceOf(file[s].ent)' = SourceOf(file[s].ent)
  BY SourceKept
<1>2. aio_w[s] = "issued" =>
         (Carries(s, BufferOf(s), writed[s], t_write[s].size)'
             <=> Carries(s, BufferOf(s), writed[s], t_write[s].size))
  BY <1>1 DEF Carries, UnitAt
<1>3. QED BY <1>1, <1>2 DEF WriteSide

\* A file is opened for writing with one empty fragment.
LEMMA WriteOpened ==
  ASSUME IInv, SplitInv, CopyInv, OpenBoth, NEW s \in Slots, s = cur_r
  PROVE  WriteSide(s)'
<1>1. PICK e \in DOMAIN job : e = file[s].ent
  BY SlotNumbers
<1>2. /\ OutFrag(s) = 0 /\ disk[e] = << >> /\ disk'[e] = Append(disk[e], << >>)
      /\ \A x \in DOMAIN job : x # e => disk'[x] = disk[x]
  BY <1>1, OpenedFragments
<1>3. /\ job' = job /\ file' = file /\ aio_w' = aio_w /\ aio_w[s] = "idle"
  BY OpenSlot DEF OpenBoth, ResetCounters, walkUnchanged, walkVars, Quiet
<1>4. writed'[s] = 0 /\ t_write'[s].fd = 0
  BY <1>2 DEF OpenBoth, ResetCounters, Aio, IInv, TypeOK, QueueType
<1>5. Total(e)' = 0
  <2>1. Total(e)' = Total(e)
    BY <1>2, <1>3, OpenAdds DEF CopyInv
  <2>2. Places(<< >>) = {} /\ Cardinality({}) = 0
    BY FS_EmptySet DEF Places
  <2>3. QED BY <1>2, <2>1, <2>2 DEF Total
<1>6. Len(disk'[e]) = 0 + 1
  BY <1>2
<1>7. QED BY <1>1, <1>3, <1>4, <1>5, <1>6 DEF WriteSide

\* Where the next write goes: after what the last fragment holds.
LEMMA NextOffset ==
  ASSUME IInv, SplitInv, CopyInv, IssueWrite, NEW s \in Slots, s = cur_r, NEW e, e = file[s].ent
  PROVE  WriteOffset(s) = Len(disk[e][t_write[s].fd + 1])
<1>1. /\ aio_w[s] = "idle" /\ t_write[s].fd # -1 /\ s < fast_num_files /\ writed[s] >= 0
  BY ReadEndSlot, ReadEndData DEF IssueWrite
<1>2. WriteSide(s)
  BY <1>1 DEF CopyInv, WriteSides
<1>3. Len(disk[e]) = t_write[s].fd + 1 /\ Total(e) = writed[s] + 0
  BY <1>1, <1>2 DEF WriteSide
<1>4. CASE file[s].mode = 1
  <2>1. file[s].dbl /\ SplitSlot(s)
    BY <1>1, <1>4 DEF SplitInv, OwnInv, SplitSlots
  <2>2. t_write[s].fd = number_frag[s] /\ LastLen(s) = giga_counter[s] + 0
    BY <1>1, <2>1 DEF SplitSlot
  <2>3. QED BY <1>4, <2>1, <2>2, SlotNumbers DEF WriteOffset, LastLen
<1>5. CASE file[s].mode # 1
  <2>1. e \in DOMAIN job /\ ModeOf(e) # 1
    BY <1>1, <1>5, SlotNumbers DEF SplitInv, OwnInv
  <2>2. Len(disk[e]) <= 1
    BY <2>1 DEF SplitInv, SplitSizes
  <2>3. t_write[s].fd \in Nat
    <3>1. t_write[s].fd \in FdType
      BY SlotTypes DEF IInv, TypeOK
    <3>2. QED BY <1>1, <3>1 DEF FdType
  <2>4. Len(disk[e]) = 1 /\ t_write[s].fd + 1 = 1
    BY <1>3, <2>2, <2>3
  <2>5. PICK out \in Seq(Seq(Unit)) : out = disk[e]
    BY <2>1, TotalFacts
  <2>6. /\ StartOf(out, 1) = 0 /\ StartOf(out, Len(out) + 1) = Cardinality(Places(out))
        /\ \A k \in DOMAIN out : StartOf(out, k + 1) = StartOf(out, k) + Len(out[k])
    BY Starts
  <2>7. 1 \in DOMAIN out /\ Len(out[1]) \in Nat /\ Len(out) = 1
    BY <2>4, <2>5
  <2>8. Cardinality(Places(out)) = 0 + Len(out[1])
    BY <2>6, <2>7
  <2>9. Total(e) = Len(out[1])
    BY <2>5, <2>7, <2>8 DEF Total
  <2>10. writed[s] = Len(disk[e][1])
    BY <1>3, <2>5, <2>9, SlotNumbers
  <2>11. QED BY <1>5, <2>4, <2>10 DEF WriteOffset
<1>6. QED BY <1>4, <1>5

\* A write that is issued sends what comes next.
LEMMA WriteIssued ==
  ASSUME IInv, SplitInv, CopyInv, IssueWrite, NEW s \in Slots, s = cur_r
  PROVE  WriteSide(s)'
<1>1. PICK e \in DOMAIN job : e = file[s].ent
  BY SlotNumbers
<1>2. /\ ReadEndGuard /\ s < fast_num_files /\ i_reading /\ ~Quiet(s) /\ cur_w = s
      /\ aio_r[s] = "idle" /\ aio_w[s] = "idle" /\ t_write[s].fd # -1
      /\ pc = "readend" /\ fl[s] = 3
  BY ReadEndSlot DEF IssueWrite, ReadEndGuard
<1>3. /\ writed[s] >= 0 /\ readed[s] >= 0 /\ readed[s] <= len[s]
      /\ writed[s] = readed[s] - t_read[s].size /\ writed' = writed
      /\ readed[s] \in Int /\ len[s] \in Int /\ t_read[s].size \in Int
  BY ReadEndData
<1>4. t_read[s].size > 0
  BY <1>2 DEF IInv, DataInv, LoopPcs
<1>5. WriteSide(s) /\ ReadSide(s)
  BY <1>2 DEF CopyInv, WriteSides, ReadSides, LoopPcs
<1>6. Len(disk[e]) = t_write[s].fd + 1 /\ Total(e) = writed[s]
  <2>1. Total(e) = writed[s] + 0
    BY <1>1, <1>2, <1>3, <1>5 DEF WriteSide
  <2>2. QED BY <1>1, <1>3, <1>5, <2>1 DEF WriteSide
<1>7. /\ len[s] = StartOf(Parts(e), t_read[s].fd + 1 + 1) /\ t_read[s].size <= FILESIZE_MAX
      /\ Carries(s, mem[s].lo, readed[s] - t_read[s].size, t_read[s].size)
  BY <1>1, <1>2, <1>3, <1>5 DEF ReadSide
<1>8. len[s] <= Length(e) /\ Length(e) \in Nat
  <2>1. job[e].kind # "piece"
    BY <1>1, <1>2 DEF CopyInv, NewSlots
  <2>2. Length(e) \in Nat /\ \A g : StartOf(Parts(e), g) <= Length(e)
    BY <2>1, SourceFacts
  <2>3. QED BY <1>7, <2>2
<1>9. /\ job' = job /\ file' = file /\ disk' = disk /\ aio_w'[s] = "issued"
      /\ t_write'[s] = Aio(t_write[s].fd, WriteOffset(s), t_read[s].size)
  BY DEF IssueWrite, walkUnchanged, walkVars, IInv, TypeOK, QueueType, KernelType
<1>10. BufferOf(s)' = mem[s].lo
  BY <1>9 DEF IssueWrite, BufferOf, IInv, TypeOK, KernelType
<1>11. /\ t_write'[s].fd = t_write[s].fd /\ t_write'[s].offset = WriteOffset(s)
       /\ t_write'[s].size = t_read[s].size
  BY <1>9 DEF Aio
<1>12. Total(e)' = Total(e) /\ Length(e)' = Length(e) /\ SourceOf(e)' = SourceOf(e)
  BY <1>9, SourceKept
<1>13. Carries(s, BufferOf(s), writed[s], t_write[s].size)'
  <2>1. Carries(s, mem[s].lo, writed[s], t_read[s].size)
    BY <1>3, <1>7
  <2>2. QED BY <1>1, <1>3, <1>9, <1>10, <1>11, <1>12, <2>1 DEF Carries, UnitAt
<1>14. t_write'[s].offset = Len(disk'[e][t_write'[s].fd + 1])
  BY <1>1, <1>9, <1>11, NextOffset
<1>15. writed[s] + t_read[s].size <= Length(e)
  BY <1>3, <1>8
<1>16. file'[s].ent = e /\ writed'[s] = writed[s] /\ writed[s] + 0 = writed[s]
  BY <1>1, <1>3, <1>9, SlotNumbers
<1>17. QED
  BY <1>3, <1>4, <1>6, <1>7, <1>9, <1>11, <1>12, <1>13, <1>14, <1>15, <1>16 DEF WriteSide

\* The next output fragment is opened behind the full one.
LEMMA WriteSplit ==
  ASSUME IInv, SplitInv, CopyInv, SplitFile, NEW s \in Slots, s = cur_w
  PROVE  WriteSide(s)'
<1>1. PICK e \in DOMAIN job : e = file[s].ent
  BY SlotNumbers
<1>2. /\ t_write[s].fd = number_frag[s] /\ Len(disk[e]) = number_frag[s] + 1
      /\ disk'[e] = Append(disk[e], << >>)
      /\ \A x \in DOMAIN job : x # e => disk'[x] = disk[x]
  BY <1>1, OpenedFragments
<1>3. aio_w[s] = "idle" /\ t_write[s].fd # -1 /\ WriteSide(s)
  BY WriteEndSlot DEF SplitFile, SplitStep, CopyInv, WriteSides
<1>4. job' = job /\ file' = file /\ aio_w' = aio_w /\ writed' = writed
  BY DEF SplitFile, SplitStep, WriteEnd, walkUnchanged, walkVars, aioVars
<1>5. Total(e)' = Total(e)
  BY <1>2, <1>4, OpenAdds DEF CopyInv
<1>6. t_write'[s].fd = number_frag[s] + 1
  BY DEF SplitFile, IInv, TypeOK, QueueType
<1>7. Len(disk'[e]) = number_frag[s] + 1 + 1
  BY <1>1, <1>2, SlotNumbers
<1>8. writed[s] >= 0 => Total(e) = writed[s] + 0
  BY <1>1, <1>3 DEF WriteSide
<1>9. QED BY <1>1, <1>3, <1>4, <1>5, <1>6, <1>7, <1>8 DEF WriteSide

\* The AIO thread moves the units of a write, counts them, or marks the failure.
LEMMA WriteAnswered ==
  ASSUME IInv, SplitInv, CopyInv, NEW s \in Slots, t_write[s].fd # -1,
         WriteTransfer(s) \/ fast_func_write(s) \/ WriteError(s)
  PROVE  WriteSide(s)'
<1>1. PICK e \in DOMAIN job : e = file[s].ent
  BY SlotNumbers
<1>2. /\ job' = job /\ file' = file /\ t_write' = t_write
  BY DEF WriteTransfer, fast_func_write, WriteError, copyUnchanged, walkVars
<1>3. WriteSide(s)
  BY DEF CopyInv, WriteSides
<1>4. writed[s] \in Int /\ t_write[s].size \in Int /\ writed[s] + 0 = writed[s]
  BY SlotNumbers
<1>5. CASE WriteTransfer(s)
  <2>1. aio_w[s] = "issued" /\ disk' = Sent(s, t_write[s].size)
    BY <1>5, WriteStep
  <2>2. /\ t_write[s].size \in Nat /\ t_write[s].size > 0 /\ t_write[s].size <= t_write[s].size
        /\ writed[s] \in Nat /\ Total(e) = writed[s] /\ t_write[s].fd + 1 = Len(disk[e])
    BY <1>1, <2>1, WriterFacts
  <2>3. Len(disk'[e]) = Len(disk[e]) /\ Total(e)' = Total(e) + t_write[s].size
    BY <1>1, <1>2, <2>1, <2>2, WriteAdds
  <2>4. aio_w'[s] = "moved" /\ writed' = writed
    BY <1>5 DEF WriteTransfer, IInv, TypeOK, KernelType
  <2>5. QED BY <1>1, <1>2, <2>2, <2>3, <2>4 DEF WriteSide
<1>6. CASE fast_func_write(s)
  <2>1. aio_w[s] = "moved" /\ disk' = disk
    BY <1>6 DEF fast_func_write
  <2>2. aio_w'[s] = "idle" /\ writed'[s] = writed[s] + t_write[s].size
    BY <1>6 DEF fast_func_write, IInv, TypeOK, QueueType, KernelType
  <2>3. /\ Total(e) = writed[s] + t_write[s].size /\ Len(disk[e]) = t_write[s].fd + 1
    BY <1>1, <1>3, <2>1 DEF WriteSide
  <2>4. Total(e)' = Total(e)
    BY <1>2, <2>1, SourceKept
  <2>5. Total(e)' = writed'[s] + 0
    BY <1>4, <2>2, <2>3, <2>4
  <2>6. QED BY <1>1, <1>2, <2>1, <2>2, <2>3, <2>5 DEF WriteSide
<1>7. CASE WriteError(s)
  <2>1. PICK n \in Nat : n <= t_write[s].size /\ disk' = Sent(s, n)
    BY <1>7, WriteStep
  <2>2. aio_w[s] = "issued" /\ aio_w'[s] = "idle" /\ writed'[s] = -1
    BY <1>7 DEF WriteError, IInv, TypeOK, QueueType, KernelType
  <2>3. Len(disk'[e]) = Len(disk[e])
    BY <1>1, <1>2, <2>1, <2>2, WriteAdds
  <2>4. Len(disk[e]) = t_write[s].fd + 1 /\ ~(-1 >= 0)
    BY <1>1, <1>3 DEF WriteSide
  <2>5. QED BY <1>1, <1>2, <2>2, <2>3, <2>4 DEF WriteSide
<1>8. QED BY <1>5, <1>6, <1>7

\* Every step keeps what the slot that writes has written.
LEMMA WriteSidesStep ==
  ASSUME IInv, SplitInv, CopyInv, Next
  PROVE  WriteSides'
<1> USE DEF GoTo, Leave, CallProcess, walkUnchanged, walkVars, queueVars, slotVars, fragVars,
            kernVars, flagVars, aioVars
<1>t. /\ t_write \in [Slots -> AioType] /\ aio_w \in [Slots -> {"idle", "issued", "moved"}]
  BY DEF IInv, TypeOK, QueueType, KernelType
<1>w. WriteSides
  BY DEF CopyInv
<1>k. ASSUME UNCHANGED <<job, disk, file, writed, aio_w, t_write>> PROVE WriteSides'
  <2>1. \A s \in Slots : aio_w[s] = "issued" => BufferOf(s)' = BufferOf(s)
    BY <1>k, NextKeeps DEF BufferKept
  <2>2. \A s \in Slots : t_write'[s].fd # -1 => WriteSide(s)'
    BY <1>w, <1>k, <2>1, WriteSideKept DEF WriteSides
  <2>3. QED BY <2>2 DEF WriteSides
<1>1. CASE \A s \in Slots : t_write'[s].fd = -1
  BY <1>1 DEF WriteSides
<1>2. CASE Walk \/ ReturnToAdd \/ ReturnFailed \/ Finish
  <2>1. \A s \in Slots : t_write[s].fd = -1
    BY <1>2 DEF IInv, RestInv, Quiet, Walk, AddFlush, AddPiece, AddEmpty, AddFile, AddFails,
                EndWalk, ReturnToAdd, ReturnFailed, Finish
  <2>2. t_write' = t_write \/ t_write' = [t_write EXCEPT ![fast_num_files].fd = -1]
    BY <1>2 DEF Walk, AddFlush, AddPiece, AddEmpty, AddFile, AddFails,
                EndWalk, ReturnToAdd, ReturnFailed, Finish
  <2>3. \A s \in Slots : t_write'[s].fd = -1
    BY <1>t, <2>1, <2>2 DEF AioType
  <2>4. QED BY <1>1, <2>3
<1>3. CASE OpenReadFails \/ OpenWriteFails
  <2>1. \A s \in Slots : t_write[s].fd = -1
    BY <1>3, OpenSlot DEF OpenReadFails, OpenWriteFails, Quiet
  <2>2. t_write' = [t_write EXCEPT ![cur_r].fd = -1]
    BY <1>3 DEF OpenReadFails, OpenWriteFails, NotOpened
  <2>3. \A s \in Slots : t_write'[s].fd = -1
    BY <1>t, <2>1, <2>2 DEF AioType
  <2>4. QED BY <1>1, <2>3
<1>4. CASE FinishFile \/ SplitOpenFails
  <2>1. t_write' = [t_write EXCEPT ![cur_w].fd = -1]
    BY <1>4 DEF FinishFile, SplitOpenFails
  <2>2. \A s \in Slots : t_write'[s].fd = -1
    BY <1>t, <2>1, OneWriter DEF AioType
  <2>3. QED BY <1>1, <2>2
<1>5. CASE Cleanup
  <2>1. \A s \in Slots : t_write'[s].fd = -1
    BY <1>t, <1>5, OneWriter DEF Cleanup, Closed, AioType
  <2>2. QED BY <1>1, <2>1
<1>6. CASE LoopExit \/ LoopSkip \/ ReadEndSkip \/ ReadEndFails \/ WriteEndSkip \/ Display
           \/ UserAbort \/ WriteEndError \/ FinishCloseFails \/ SplitCloseFails \/ Terminated
           \/ JoinSetFl \/ WriteOn
  <2>1. UNCHANGED <<job, disk, file, writed, aio_w, t_write>>
    BY <1>6 DEF LoopExit, LoopSkip, ReadEndSkip, ReadEndFails, WriteEndSkip, Display, UserAbort,
                WriteEndError, FinishCloseFails, SplitCloseFails, SplitStep, WriteEnd, Terminated,
                vars, JoinSetFl, WriteOn
  <2>2. QED BY <1>k, <2>1
<1>7. CASE OpenFile \/ OpenFileAioFails
  <2>1. OpenBoth
    BY <1>7 DEF OpenFile, OpenFileAioFails
  <2>2. \A s \in Slots : s # cur_r => t_write'[s].fd = -1
    BY <1>t, <2>1, OpenSlot DEF OpenBoth, Quiet
  <2>3. QED BY <2>1, <2>2, WriteOpened DEF WriteSides
<1>8. CASE SingleWrite \/ ReadAhead \/ LastRead \/ JoinMissing \/ JoinNext \/ JoinOpenFails
           \/ JoinCloseFails
  <2>1. IssueWrite
    BY <1>8 DEF SingleWrite, ReadAhead, LastRead, JoinMissing, JoinNext, JoinOpenFails,
                JoinCloseFails, JoinStep, IssueWrite
  <2>2. cur_r = cur_w /\ cur_r \in Slots
    BY <2>1, ReadEndSlot DEF IssueWrite
  <2>3. \A s \in Slots : s # cur_r => t_write'[s].fd = -1
    BY <1>t, <2>1, <2>2, OneWriter DEF IssueWrite, AioType, FdType
  <2>4. QED BY <2>1, <2>3, WriteIssued DEF WriteSides
<1>9. CASE SplitFile
  <2>1. \A s \in Slots : s # cur_w => t_write'[s].fd = -1
    BY <1>t, <1>9, OneWriter DEF SplitFile
  <2>2. QED BY <1>9, <2>1, WriteSplit DEF WriteSides
<1>10. ASSUME NEW r \in Slots, ReadTransfer(r) \/ fast_func_read(r) \/ ReadError(r)
       PROVE  WriteSides'
  <2>1. UNCHANGED <<job, disk, file, writed, aio_w, t_write>>
    BY <1>10 DEF ReadTransfer, fast_func_read, ReadError, copyUnchanged
  <2>2. QED BY <1>k, <2>1
<1>11. ASSUME NEW r \in Slots, WriteTransfer(r) \/ fast_func_write(r) \/ WriteError(r)
       PROVE  WriteSides'
  <2>1. aio_w[r] # "idle" /\ t_write' = t_write
    BY <1>11 DEF WriteTransfer, fast_func_write, WriteError, copyUnchanged
  <2>2. t_write[r].fd # -1
    BY <2>1 DEF IInv, SlotInv
  <2>3. \A s \in Slots : t_write'[s].fd # -1 => s = r
    BY <2>1, <2>2, OneWriter
  <2>4. WriteSide(r)'
    BY <1>11, <2>2, WriteAnswered
  <2>5. QED BY <2>3, <2>4 DEF WriteSides
<1>12. QED
  BY <1>2, <1>3, <1>4, <1>5, <1>6, <1>7, <1>8, <1>9, <1>10, <1>11
    DEF Next, CopyThread, OpenSection, ReadEndSection, WriteEndSection, Leaving, AioThread

\* Nothing the reading slot is known by is changed.
LEMMA ReadSideKept ==
  ASSUME NEW s \in Slots, ReadSide(s), UNCHANGED <<job, file, off_readed, len, readed>>,
         file[s].mode \in {2, 3} => number_frag'[s] = number_frag[s],
         t_read'[s] = t_read[s], aio_r'[s] = aio_r[s], mem'[s].lo = mem[s].lo,
         fl'[s] = 3 /\ pc' # "joined" => fl[s] = 3 /\ pc # "joined",
         missed \subseteq missed'
  PROVE  ReadSide(s)'
<1>1. /\ Parts(file[s].ent)' = Parts(file[s].ent)
      /\ SourceOf(file[s].ent)' = SourceOf(file[s].ent)
  BY SourceKept
<1>2. \A g : StartOf(Parts(file[s].ent), g)' = StartOf(Parts(file[s].ent), g)
  BY <1>1
<1>3. /\ Carries(s, mem[s].lo, readed[s], t_read[s].size)'
             <=> Carries(s, mem[s].lo, readed[s], t_read[s].size)
      /\ Carries(s, mem[s].lo, readed[s] - t_read[s].size, t_read[s].size)'
             <=> Carries(s, mem[s].lo, readed[s] - t_read[s].size, t_read[s].size)
  BY <1>1 DEF Carries, UnitAt
<1>4. QED BY <1>2, <1>3 DEF ReadSide

\* A read is never longer than a buffer.
LEMMA ChunkFits ==
  ASSUME IInv, NewSlots, NEW s \in Slots, s < fast_num_files, NEW n \in Int
  PROVE  Chunk(s, n) <= FILESIZE_MAX
<1>1. file[s].size_mem \in Int /\ FILESIZE_MAX \in Nat
  BY SlotTypes, SlotNumbers DEF IInv, TypeOK
<1>2. file[s].size_mem <= FILESIZE_MAX
  BY DEF NewSlots
<1>3. QED BY <1>1, <1>2 DEF Chunk

\* Only a file that is joined has a second fragment, or one whose second was missed.
LEMMA ModeFragments ==
  ASSUME IInv, SplitInv, CopyInv, NEW s \in Slots, s < fast_num_files,
         file[s].mode \notin {2, 3}
  PROVE  Len(job[file[s].ent].frags) = 1 \/ file[s].ent \in missed
<1>0. SUFFICES ASSUME Fragmented(file[s].ent), file[s].ent \notin missed
               PROVE  Len(job[file[s].ent].frags) = 1
  <2>1. PICK e \in DOMAIN job : e = file[s].ent
    BY SlotNumbers
  <2>2. PICK n \in Nat : n = Len(job[e].frags) /\ n >= 1
    BY SourceFacts
  <2>3. CASE Fragmented(file[s].ent) /\ file[s].ent \notin missed
    BY <1>0, <2>3
  <2>4. CASE ~Fragmented(file[s].ent)
    <3>1. ~(n > 1)
      BY <2>1, <2>2, <2>4 DEF Fragmented
    <3>2. n = 1
      <4>1. n >= 1
        BY <2>2
      <4>2. QED BY <3>1, <4>1
    <3>3. Len(job[e].frags) = 1
      BY <2>2, <3>2
    <3>4. job[e].frags = job[file[s].ent].frags
      BY <2>1
    <3>5. QED BY ONLY <3>3, <3>4
  <2>5. QED BY <2>3, <2>4
<1>1. PICK e \in DOMAIN job : e = file[s].ent
  BY SlotNumbers
<1>2. ModeOf(e) \notin {2, 3} /\ job[e].kind # "piece"
  BY <1>0, <1>1 DEF CopyInv, NewSlots
<1>3. job \in Jobs /\ job[e].kind \in {"plain", "x666", "part", "piece"}
  <2>1. job \in Jobs /\ job \in Seq(Entry)
    BY JobsAssumption DEF IInv, TypeOK, ControlType
  <2>2. job[e] \in Entry
    BY <2>1
  <2>3. QED BY <2>1, <2>2 DEF Entry
<1>4. job[e].kind = "plain"
  <2>1. CASE copy_mode = 1 /\ job[e].frags[1] >= SPLIT_MIN
    <3>1. job[e].frags[1] \in Nat /\ SPLIT_MIN \in Nat
      BY SourceFacts, SizesAssumption
    <3>2. ~(job[e].frags[1] < SPLIT_MIN)
      BY <2>1, <3>1
    <3>3. job[e].kind \notin {"x666", "part"}
      BY <1>3, <3>2, FragmentsAssumption
    <3>4. QED BY <1>2, <1>3, <3>3
  <2>2. CASE ~(copy_mode = 1 /\ job[e].frags[1] >= SPLIT_MIN)
    BY <1>2, <1>3, <2>2 DEF ModeOf
  <2>3. QED BY <2>1, <2>2
<1>5. QED BY <1>1, <1>3, <1>4, FragmentsAssumption

\* The slot that reads, as numbers.
LEMMA ReaderFacts ==
  ASSUME IInv, CopyInv, NEW s \in Slots, pc \in LoopPcs, i_reading, ~Quiet(s)
  PROVE  LET e == file[s].ent  f == t_read[s].fd + 1 IN
         /\ e \in DOMAIN job /\ job[e].kind # "piece" /\ t_read[s].fd \in Nat /\ f \in Nat
         /\ s < fast_num_files /\ s = cur_w /\ s = cur_r
         /\ ReadSide(s) /\ off_readed[s] \in Nat /\ off_readed[s] \in Int
         /\ f \in DOMAIN job[e].frags /\ job[e].frags[f] \in Nat
         /\ off_readed[s] = StartOf(Parts(e), f)
         /\ len[s] = off_readed[s] + job[e].frags[f]
         /\ f = Len(job[e].frags) => len[s] = Length(e)
<1>1. PICK e \in DOMAIN job : e = file[s].ent
  BY SlotNumbers
<1>2. ReadSide(s)
  BY DEF CopyInv, ReadSides
<1>3. PICK f : f = t_read[s].fd + 1
  OBVIOUS
<1>4. s < fast_num_files /\ s = cur_w /\ s = cur_r /\ t_read[s].fd # -1
  BY DEF IInv, SlotInv, LoopInv, BusyInv, ReadingInv
<1>5. t_read[s].fd \in Nat /\ f \in Nat
  <2>1. t_read[s].fd \in FdType
    BY SlotTypes DEF IInv, TypeOK
  <2>2. t_read[s].fd \in Nat
    BY <1>4, <2>1 DEF FdType
  <2>3. QED BY <1>3, <2>2
<1>6. job[e].kind # "piece"
  BY <1>1, <1>4 DEF CopyInv, NewSlots
<1>7. /\ f \in DOMAIN job[e].frags
      /\ off_readed[s] = StartOf(Parts(e), f) /\ len[s] = StartOf(Parts(e), f + 1)
  BY <1>1, <1>2, <1>3 DEF ReadSide
<1>8. /\ StartOf(Parts(e), f) \in Nat
      /\ StartOf(Parts(e), f + 1) = StartOf(Parts(e), f) + job[e].frags[f]
      /\ job[e].frags[f] \in Nat
      /\ Length(e) = StartOf(Parts(e), Len(job[e].frags) + 1)
  BY <1>6, <1>7, SourceFacts
<1>9. QED BY <1>1, <1>2, <1>3, <1>4, <1>5, <1>6, <1>7, <1>8

\* The first fragment of a file is opened, and its first buffer asked for.
LEMMA ReadOpened ==
  ASSUME IInv, SplitInv, CopyInv, OpenFile, NEW s \in Slots, s = cur_r
  PROVE  ReadSide(s)'
<1>1. PICK e \in DOMAIN job : e = file[s].ent
  BY SlotNumbers
<1>2. OpenBoth /\ s < fast_num_files /\ fl[s] = 1 /\ number_frag[s] = 0
  BY OpenedFragments DEF OpenFile
<1>3. len[s] = job[e].frags[1] /\ len[s] \in Int /\ job[e].kind # "piece"
  BY <1>1, <1>2, SlotNumbers DEF CopyInv, NewSlots
<1>4. /\ job' = job /\ file' = file /\ len' = len /\ number_frag' = number_frag
  BY <1>2 DEF OpenBoth, ResetCounters, walkUnchanged, walkVars
<1>5. /\ off_readed'[s] = 0 /\ readed'[s] = 0 /\ aio_r'[s] = "issued" /\ fl'[s] = 2
      /\ t_read'[s] = Aio(0, 0, Chunk(s, len[s]))
  BY <1>2 DEF OpenFile, OpenBoth, ResetCounters, IInv, TypeOK, QueueType, KernelType
<1>6. t_read'[s].fd = 0 /\ t_read'[s].offset = 0 /\ t_read'[s].size <= FILESIZE_MAX
  BY <1>2, <1>3, <1>5, ChunkFits DEF Aio, CopyInv
<1>7. /\ 1 \in DOMAIN job[e].frags /\ StartOf(Parts(e), 1) = 0
      /\ StartOf(Parts(e), 1 + 1) = 0 + job[e].frags[1]
  <2>1. /\ job[e].frags \in Seq(Nat) /\ Len(job[e].frags) \in Nat /\ Len(job[e].frags) >= 1
        /\ StartOf(Parts(e), 1) = 0
        /\ \A g \in DOMAIN job[e].frags :
               StartOf(Parts(e), g + 1) = StartOf(Parts(e), g) + job[e].frags[g]
    BY SourceFacts
  <2>2. 1 \in DOMAIN job[e].frags
    BY <2>1
  <2>3. QED BY <2>1, <2>2
<1>8. file[s].mode \notin {2, 3} => Len(job[e].frags) = 1 \/ e \in missed'
  <2>1. missed \subseteq missed'
    BY <1>2 DEF OpenBoth, walkUnchanged, queueVars
  <2>2. QED BY <1>1, <1>2, <2>1, ModeFragments
<1>9. Parts(e)' = Parts(e) /\ 0 + 1 = 1 /\ 0 - 0 = 0 /\ 0 <= 0 /\ 0 + len[s] = len[s]
  BY <1>3, <1>4, SourceKept
<1>10. QED BY <1>1, <1>2, <1>3, <1>4, <1>5, <1>6, <1>7, <1>8, <1>9 DEF ReadSide

\* The next buffer of a fragment is asked for.
LEMMA ReadMore ==
  ASSUME IInv, SplitInv, CopyInv, ReadAhead, pc' \in LoopPcs, NEW s \in Slots, s = cur_r
  PROVE  ReadSide(s)'
<1>1. PICK e \in DOMAIN job : e = file[s].ent
  BY SlotNumbers
<1>2. /\ pc \in LoopPcs /\ i_reading /\ ~Quiet(s) /\ aio_r[s] = "idle" /\ fl[s] = 3
      /\ pc = "readend" /\ readed[s] >= 0
  BY ReadEndSlot DEF ReadAhead, IssueWrite, ReadEndGuard, LoopPcs
<1>3. ReadSide(s) /\ s < fast_num_files /\ t_read[s].fd \in Nat
  BY <1>2, ReaderFacts
<1>4. /\ job' = job /\ file' = file /\ readed' = readed /\ off_readed' = off_readed
      /\ len' = len /\ number_frag' = number_frag /\ missed' = missed
  BY DEF ReadAhead, IssueRead, IssueWrite, walkVars
<1>5. /\ aio_r'[s] = "issued"
      /\ t_read'[s] = Aio(t_read[s].fd, readed[s] - off_readed[s], Chunk(s, len[s] - readed[s]))
  BY DEF ReadAhead, IssueRead, Leave, LoopPcs, IInv, TypeOK, QueueType, KernelType
<1>6. /\ t_read'[s].fd = t_read[s].fd /\ t_read'[s].offset = readed[s] - off_readed[s]
      /\ t_read'[s].size <= FILESIZE_MAX
  <2>1. len[s] - readed[s] \in Int
    BY SlotNumbers
  <2>2. QED BY <1>3, <1>5, <2>1, ChunkFits DEF Aio, CopyInv
<1>7. off_readed[s] <= readed[s]
  BY <1>2, <1>3 DEF ReadSide
<1>8. Parts(e)' = Parts(e)
  BY <1>4, SourceKept
<1>9. QED BY <1>1, <1>3, <1>4, <1>5, <1>6, <1>7, <1>8 DEF ReadSide

\* The next fragment is joined behind the one that was read to its end.
LEMMA ReadJoined ==
  ASSUME IInv, SplitInv, CopyInv, JoinNext, pc' \in LoopPcs, NEW s \in Slots, s = cur_r
  PROVE  ReadSide(s)'
<1>1. PICK e \in DOMAIN job : e = file[s].ent
  BY SlotNumbers
<1>2. /\ IssueWrite /\ HasNext /\ pc \in LoopPcs /\ i_reading /\ ~Quiet(s)
      /\ file[s].mode \in {2, 3} /\ readed[s] >= len[s]
  BY ReadEndSlot DEF JoinNext, JoinStep, IssueWrite, ReadEndGuard, LoopPcs
<1>3. PICK f \in Nat : f = t_read[s].fd + 1
  BY <1>2, ReaderFacts
<1>4. /\ ReadSide(s) /\ s < fast_num_files /\ job[e].kind # "piece" /\ f \in DOMAIN job[e].frags
      /\ off_readed[s] = StartOf(Parts(e), f) /\ len[s] = off_readed[s] + job[e].frags[f]
      /\ t_read[s].fd \in Nat
  BY <1>1, <1>2, <1>3, ReaderFacts
<1>5. number_frag[s] + 1 = f /\ number_frag[s] + 2 = f + 1 /\ f + 1 \in DOMAIN job[e].frags
  <2>1. number_frag[s] = t_read[s].fd /\ number_frag[s] \in Nat
    BY <1>2, <1>4, SlotNumbers DEF ReadSide
  <2>2. number_frag[s] + 2 \in DOMAIN job[e].frags
    BY <1>1, <1>2 DEF HasNext
  <2>3. QED BY <1>3, <2>1, <2>2
<1>6. /\ StartOf(Parts(e), f) \in Nat /\ StartOf(Parts(e), f + 1) \in Nat
      /\ StartOf(Parts(e), f + 1) = StartOf(Parts(e), f) + job[e].frags[f]
      /\ StartOf(Parts(e), f + 1 + 1) = StartOf(Parts(e), f + 1) + job[e].frags[f + 1]
      /\ job[e].frags[f + 1] \in Nat
  <2>1. /\ job[e].frags \in Seq(Nat) /\ \A g : StartOf(Parts(e), g) \in Nat
        /\ \A g \in DOMAIN job[e].frags :
               StartOf(Parts(e), g + 1) = StartOf(Parts(e), g) + job[e].frags[g]
    BY SourceFacts
  <2>2. job[e].frags[f + 1] \in Nat
    BY <1>5, <2>1
  <2>3. QED BY <1>4, <1>5, <2>1, <2>2, Zenon
<1>7. readed[s] = len[s] /\ readed[s] = StartOf(Parts(e), f + 1) /\ readed[s] \in Int
  <2>1. readed[s] <= len[s] /\ readed[s] \in Int /\ len[s] \in Int
    BY <1>2, ReadEndData
  <2>2. readed[s] = len[s]
    BY <1>2, <2>1
  <2>3. QED BY <1>4, <1>6, <2>1, <2>2
<1>8. job' = job /\ file' = file /\ readed' = readed
  BY DEF JoinNext, JoinStep, IssueWrite, walkVars
<1>9. /\ number_frag'[s] = f /\ off_readed'[s] = readed[s]
      /\ len'[s] = len[s] + job[e].frags[f + 1]
  BY <1>1, <1>5 DEF JoinNext, JoinStep, IInv, TypeOK, QueueType
<1>10. /\ aio_r'[s] = "issued"
       /\ t_read'[s] = Aio(f, 0, Chunk(s, len[s] + job[e].frags[f + 1] - readed[s]))
  BY <1>1, <1>5 DEF JoinNext, IssueRead, Leave, LoopPcs, IInv, TypeOK, QueueType, KernelType
<1>11. t_read'[s].fd = f /\ t_read'[s].offset = 0 /\ t_read'[s].size <= FILESIZE_MAX
  <2>1. len[s] + job[e].frags[f + 1] - readed[s] \in Int
    BY <1>6, SlotNumbers
  <2>2. QED BY <1>4, <1>10, <2>1, ChunkFits DEF Aio, CopyInv
<1>12. Parts(e)' = Parts(e)
  BY <1>8, SourceKept
<1>13. len'[s] = StartOf(Parts(e), f + 1 + 1)
  BY <1>6, <1>7, <1>9
<1>14. readed[s] <= readed[s] /\ 0 = readed[s] - readed[s]
  BY <1>7
<1>15. QED
  BY <1>1, <1>2, <1>5, <1>7, <1>8, <1>9, <1>10, <1>11, <1>12, <1>13, <1>14 DEF ReadSide

\* What a transfer puts in the buffer.
LEMMA WriteAtStart ==
  ASSUME NEW S, NEW seq \in Seq(S), NEW n \in Nat, NEW data, Len(data) = n
  PROVE  \A i \in 1 .. n : UnitAt(WriteAt(seq, 0, data), i) = data[i]
<1>1. TAKE i \in 1 .. n
<1>2. PICK l \in Nat : l = Len(seq)
  OBVIOUS
<1>4. PICK m \in Nat : m = IF l >= n THEN l ELSE n
  BY <1>2
<1>5. WriteAt(seq, 0, data) = [j \in 1 .. m |->
          IF j > 0 /\ j <= n THEN data[j] ELSE IF j <= l THEN seq[j] ELSE Hole]
  <2>1. 0 + n = n /\ \A j \in 1 .. m : j - 0 = j
    BY <1>4
  <2>2. WriteAt(seq, 0, data) = [j \in 1 .. m |->
          IF j > 0 /\ j <= n THEN data[j - 0] ELSE IF j <= l THEN seq[j] ELSE Hole]
    BY <1>2, <1>4, <2>1 DEF WriteAt
  <2>3. QED BY <2>1, <2>2
<1>6. i \in 1 .. m /\ i > 0 /\ i <= n
  BY <1>1, <1>2, <1>4
<1>7. QED BY <1>5, <1>6 DEF UnitAt

\* The AIO thread reads the units that come next.
LEMMA ReadMoved ==
  ASSUME IInv, SplitInv, CopyInv, NEW s \in Slots, ReadTransfer(s), pc \in LoopPcs
  PROVE  ReadSide(s)'
<1>1. PICK e \in DOMAIN job : e = file[s].ent
  BY SlotNumbers
<1>2. aio_r[s] = "issued" /\ ~Quiet(s)
  BY DEF ReadTransfer, Quiet
<1>3. i_reading
  BY <1>2 DEF IInv, LoopInv, BusyInv
<1>4. PICK f \in Nat : f = t_read[s].fd + 1
  BY <1>2, <1>3, ReaderFacts
<1>5. /\ ReadSide(s) /\ s = cur_w /\ job[e].kind # "piece" /\ f \in DOMAIN job[e].frags
      /\ off_readed[s] = StartOf(Parts(e), f) /\ len[s] = off_readed[s] + job[e].frags[f]
      /\ job[e].frags[f] \in Nat /\ off_readed[s] \in Nat
  BY <1>1, <1>2, <1>3, <1>4, ReaderFacts
<1>6. off_readed[s] <= readed[s] /\ t_read[s].offset = readed[s] - off_readed[s]
  BY <1>2, <1>5 DEF ReadSide
<1>7. t_read[s].size > 0 /\ t_read[s].size <= len[s] - readed[s]
  BY <1>2, <1>3, <1>5 DEF IInv, DataInv
<1>8. PICK o \in Nat : o = t_read[s].offset
  BY <1>5, <1>6, SlotNumbers
<1>9. PICK n \in Nat : n = t_read[s].size
  BY <1>7, SlotNumbers
<1>10. readed[s] = off_readed[s] + o /\ o + n <= job[e].frags[f] /\ t_read[s].fd = f - 1
  <2>1. t_read[s].fd \in Nat
    BY <1>2, <1>3, ReaderFacts
  <2>2. t_read[s].fd = f - 1
    BY <1>4, <2>1
  <2>3. PICK r \in Int : r = readed[s]
    BY SlotNumbers
  <2>4. PICK off \in Nat : off = off_readed[s]
    BY <1>5
  <2>5. PICK k \in Nat : k = job[e].frags[f]
    BY <1>5
  <2>6. o = r - off /\ n <= (off + k) - r
    BY <1>5, <1>6, <1>7, <1>8, <1>9, <2>3, <2>4, <2>5
  <2>7. r = off + o /\ o + n <= k
    BY <2>6
  <2>8. QED BY <2>2, <2>3, <2>4, <2>5, <2>7
<1>11. \A i \in 1 .. n : SourceOf(e)[readed[s] + i] = <<f - 1, o + i - 1>>
  <2>1. TAKE i \in 1 .. n
  <2>2. o + i \in 1 .. job[e].frags[f] /\ readed[s] + i = off_readed[s] + (o + i)
    BY <1>5, <1>8, <1>9, <1>10
  <2>3. SourceOf(e)[StartOf(Parts(e), f) + (o + i)] = <<f - 1, (o + i) - 1>>
    BY <1>5, <2>2, SourceFacts
  <2>4. QED BY <1>5, <2>2, <2>3
<1>12. PICK data : data = [i \in 1 .. n |-> <<f - 1, o + i - 1>>]
  OBVIOUS
<1>c. Len(data) = n
  BY <1>12
<1>13. mem'[s].lo = WriteAt(mem[s].lo, 0, data) /\ mem[s].lo \in Seq(Unit)
  BY <1>8, <1>9, <1>10, <1>12 DEF ReadTransfer, IInv, TypeOK, KernelType
<1>14. \A i \in 1 .. n : UnitAt(mem'[s].lo, i) = SourceOf(e)[readed[s] + i]
  <2>1. \A i \in 1 .. n : data[i] = <<f - 1, o + i - 1>>
    BY <1>12
  <2>2. \A i \in 1 .. n : UnitAt(WriteAt(mem[s].lo, 0, data), i) = data[i]
    BY <1>c, <1>13, WriteAtStart
  <2>3. QED BY <1>11, <1>13, <2>1, <2>2
<1>15. /\ job' = job /\ file' = file /\ readed' = readed /\ off_readed' = off_readed
       /\ len' = len /\ number_frag' = number_frag /\ t_read' = t_read /\ missed' = missed
  BY DEF ReadTransfer, copyUnchanged, walkVars, queueVars
<1>16. aio_r'[s] = "moved"
  BY DEF ReadTransfer, IInv, TypeOK, KernelType
<1>17. Parts(e)' = Parts(e) /\ SourceOf(e)' = SourceOf(e)
  BY <1>15, SourceKept
<1>18. Carries(s, mem[s].lo, readed[s], t_read[s].size)'
  BY <1>1, <1>9, <1>14, <1>15, <1>17 DEF Carries, UnitAt
<1>19. QED BY <1>1, <1>2, <1>5, <1>15, <1>16, <1>17, <1>18 DEF ReadSide

\* The read is called back, or fails.
LEMMA ReadAnswered ==
  ASSUME IInv, SplitInv, CopyInv, NEW s \in Slots, fast_func_read(s) \/ ReadError(s),
         pc \in LoopPcs
  PROVE  ReadSide(s)'
<1>1. PICK e \in DOMAIN job : e = file[s].ent
  BY SlotNumbers
<1>2. aio_r[s] # "idle" /\ ~Quiet(s)
  BY DEF fast_func_read, ReadError, Quiet
<1>3. i_reading
  BY <1>2 DEF IInv, LoopInv, BusyInv
<1>4. ReadSide(s) /\ s = cur_w
  BY <1>2, <1>3, ReaderFacts
<1>5. /\ job' = job /\ file' = file /\ off_readed' = off_readed /\ mem' = mem
      /\ len' = len /\ number_frag' = number_frag /\ t_read' = t_read /\ missed' = missed
  BY DEF fast_func_read, ReadError, copyUnchanged, walkVars, queueVars
<1>6. aio_r'[s] = "idle"
  BY DEF fast_func_read, ReadError, IInv, TypeOK, KernelType
<1>7. Parts(e)' = Parts(e) /\ SourceOf(e)' = SourceOf(e)
  BY <1>5, SourceKept
<1>8. CASE ReadError(s)
  <2>1. readed'[s] = -1
    BY <1>8 DEF ReadError, IInv, TypeOK, QueueType
  <2>2. ~(readed'[s] >= 0)
    BY <2>1
  <2>3. QED BY <1>1, <1>4, <1>5, <1>6, <1>7, <2>2 DEF ReadSide
<1>9. CASE fast_func_read(s)
  <2>1. aio_r[s] = "moved" /\ readed'[s] = readed[s] + t_read[s].size
    BY <1>9 DEF fast_func_read, IInv, TypeOK, QueueType
  <2>2. off_readed[s] <= readed[s] /\ Carries(s, mem[s].lo, readed[s], t_read[s].size)
    BY <1>4, <2>1 DEF ReadSide
  <2>3. t_read[s].size > 0
    BY <1>2, <1>3, <1>4 DEF IInv, DataInv
  <2>4. /\ readed'[s] - t_read[s].size = readed[s] /\ off_readed[s] <= readed'[s]
    <3>1. off_readed[s] \in Int
      BY <1>2, <1>3, ReaderFacts
    <3>2. QED BY <2>1, <2>2, <2>3, <3>1, SlotNumbers
  <2>5. Carries(s, mem[s].lo, readed[s] - t_read[s].size, t_read[s].size)'
    BY <1>1, <1>5, <1>7, <2>2, <2>4 DEF Carries, UnitAt
  <2>6. QED BY <1>1, <1>4, <1>5, <1>6, <1>7, <2>4, <2>5 DEF ReadSide
<1>10. QED BY <1>8, <1>9

\* A step that leaves the reading slot as it is, or reads no more.
LEMMA ReadSidesKept ==
  ASSUME ReadSides, UNCHANGED <<job, file, off_readed, len, readed, i_reading>>,
         pc' \in LoopPcs => pc \in LoopPcs, missed \subseteq missed',
         \A s \in Slots : ~Quiet(s)' =>
            /\ ~Quiet(s)
            /\ file[s].mode \in {2, 3} => number_frag'[s] = number_frag[s]
            /\ t_read'[s] = t_read[s] /\ aio_r'[s] = aio_r[s] /\ mem'[s].lo = mem[s].lo
            /\ fl'[s] = 3 /\ pc' # "joined" => fl[s] = 3 /\ pc # "joined"
  PROVE  ReadSides'
<1>1. SUFFICES ASSUME pc' \in LoopPcs, NEW s \in Slots, ~Quiet(s)'
               PROVE  IF i_reading THEN ReadSide(s)'
                      ELSE len'[s] = Length(file[s].ent)' \/ file[s].ent \in missed'
  BY DEF ReadSides, LoopPcs
<1>2. pc \in LoopPcs /\ ~Quiet(s)
  BY <1>1
<1>3. CASE i_reading
  <2>1. ReadSide(s)
    BY <1>2, <1>3 DEF ReadSides
  <2>2. QED BY <1>1, <1>3, <2>1, ReadSideKept
<1>4. CASE ~i_reading
  <2>1. len[s] = Length(file[s].ent) \/ file[s].ent \in missed
    BY <1>2, <1>4 DEF ReadSides
  <2>2. Length(file[s].ent)' = Length(file[s].ent)
    BY SourceKept
  <2>3. QED BY <1>4, <2>1, <2>2
<1>5. QED BY <1>3, <1>4

\* The one slot that is busy reads.
LEMMA ReadSidesOne ==
  ASSUME NEW r, i_reading', ReadSide(r)', \A s \in Slots : ~Quiet(s)' => s = r
  PROVE  ReadSides'
  BY DEF ReadSides

\* When no more is read of a file, it is as long as its source or is cut short.
LEMMA ReadToEnd ==
  ASSUME JoinsAll, IInv, SplitInv, CopyInv, SingleWrite \/ LastRead \/ JoinMissing
  PROVE  len[cur_r] = Length(file[cur_r].ent) \/ file[cur_r].ent \in missed'
<1>1. IssueWrite
  BY DEF SingleWrite, LastRead, JoinMissing, JoinStep
<1>2. PICK s \in Slots : s = cur_r
  BY <1>1, ReadEndSlot DEF IssueWrite
<1>3. /\ pc \in LoopPcs /\ i_reading /\ ~Quiet(s) /\ s < fast_num_files
  BY <1>1, <1>2, ReadEndSlot DEF IssueWrite, ReadEndGuard, LoopPcs
<1>4. PICK e \in DOMAIN job : e = file[s].ent
  BY SlotNumbers
<1>5. PICK f \in Nat : f = t_read[s].fd + 1
  BY <1>3, ReaderFacts
<1>6. /\ ReadSide(s) /\ f \in DOMAIN job[e].frags /\ t_read[s].fd \in Nat
      /\ f = Len(job[e].frags) => len[s] = Length(e)
      /\ job[e].kind # "piece"
  BY <1>3, <1>4, <1>5, ReaderFacts
<1>7. /\ job[e].frags \in Seq(Nat) /\ Len(job[e].frags) \in Nat
      /\ DOMAIN job[e].frags = 1 .. Len(job[e].frags)
  <2>1. job[e].frags \in Seq(Nat)
    BY SourceFacts
  <2>2. QED BY <2>1
<1>8. f = Len(job[e].frags) \/ e \in missed'
  <2>1. CASE SingleWrite
    <3>1. ~file[s].dbl
      BY <1>2, <2>1 DEF SingleWrite
    <3>2. ~(job[e].frags[1] >= FILESIZE_MAX)
      BY <1>3, <1>4, <3>1 DEF CopyInv, NewSlots
    <3>3. job \in Jobs
      BY DEF IInv, TypeOK, ControlType
    <3>4. ~(Len(job[e].frags) > 1)
      BY <1>6, <3>2, <3>3 DEF JoinsAll
    <3>5. QED BY <1>5, <1>6, <1>7, <3>4
  <2>2. CASE LastRead
    BY <1>2, <1>4, <1>5, <1>6, <2>2 DEF LastRead, ReadSide
  <2>3. CASE JoinMissing /\ HasNext
    BY <1>2, <1>4, <2>3 DEF JoinMissing
  <2>4. CASE JoinMissing /\ ~HasNext
    <3>1. /\ file[s].mode \in {2, 3} /\ number_frag[s] + 2 \notin DOMAIN job[e].frags
      BY <1>2, <1>4, <2>4 DEF JoinMissing, JoinStep, HasNext
    <3>2. number_frag[s] = t_read[s].fd /\ number_frag[s] \in Nat
      BY <1>2, <1>6, <3>1, SlotNumbers DEF ReadSide
    <3>3. number_frag[s] + 2 = f + 1
      BY <1>5, <3>2
    <3>4. QED BY <1>5, <1>6, <1>7, <3>1, <3>3
  <2>5. QED BY <2>1, <2>2, <2>3, <2>4
<1>9. QED BY <1>2, <1>4, <1>6, <1>8

\* Every step keeps what the slot that reads has read.
LEMMA ReadSidesStep ==
  ASSUME JoinsAll, IInv, SplitInv, CopyInv, Next
  PROVE  ReadSides'
<1> USE DEF GoTo, Leave, CallProcess, walkUnchanged, walkVars, queueVars, slotVars, fragVars,
            kernVars, flagVars, aioVars
<1>t. /\ t_write \in [Slots -> AioType] /\ t_read \in [Slots -> AioType]
      /\ aio_w \in [Slots -> {"idle", "issued", "moved"}]
      /\ aio_r \in [Slots -> {"idle", "issued", "moved"}]
      /\ fl \in [Slots -> 0 .. 5]
  BY DEF IInv, TypeOK, QueueType, KernelType
<1>r. ReadSides /\ missed \subseteq missed'
  BY MissedStep DEF CopyInv
<1>b. \A s \in Slots : ~Quiet(s) => s = cur_w
  BY DEF IInv, SlotInv
<1>1. CASE pc' \notin LoopPcs
  BY <1>1 DEF ReadSides, LoopPcs
<1>2. CASE \A s \in Slots : Quiet(s)'
  BY <1>2 DEF ReadSides
<1>3. CASE \/ AddPiece \/ AddEmpty \/ AddFile \/ LoopExit \/ OpenReadFails \/ OpenWriteFails
           \/ OpenFileAioFails \/ ReadEndFails \/ JoinOpenFails \/ JoinCloseFails
           \/ WriteEndError \/ FinishCloseFails \/ SplitCloseFails \/ SplitOpenFails \/ Cleanup
           \/ ReturnToAdd \/ Finish \/ Terminated
  <2>1. pc' \notin LoopPcs
    BY <1>3
      DEF AddPiece, AddEmpty, AddFile, LoopExit, OpenReadFails, OpenWriteFails,
          OpenFileAioFails, ReadEndFails, JoinOpenFails, JoinCloseFails, WriteEndError,
          FinishCloseFails, SplitCloseFails, SplitOpenFails, Cleanup, ReturnToAdd, Finish,
          Terminated, vars, LoopPcs
  <2>2. QED BY <1>1, <2>1
<1>4. CASE AddFlush \/ AddFails \/ EndWalk \/ ReturnFailed
  <2>1. \A s \in Slots : Quiet(s)
    BY <1>4 DEF AddFlush, AddFails, EndWalk, ReturnFailed, IInv, RestInv
  <2>2. UNCHANGED <<t_read, t_write, aio_r, aio_w>>
    BY <1>4 DEF AddFlush, AddFails, EndWalk, ReturnFailed
  <2>3. QED BY <1>2, <2>1, <2>2 DEF Quiet
<1>5. CASE \/ LoopSkip \/ ReadEndSkip \/ WriteEndSkip \/ Display \/ UserAbort \/ WriteOn
  <2>1. UNCHANGED <<job, file, off_readed, len, readed, i_reading, number_frag, t_read, t_write,
                    aio_r, aio_w, mem, fl>>
    BY <1>5 DEF LoopSkip, ReadEndSkip, WriteEndSkip, Display, UserAbort, WriteOn, WriteEnd
  <2>2. pc \in LoopPcs /\ pc # "joined"
    BY <1>5 DEF LoopSkip, ReadEndSkip, WriteEndSkip, Display, UserAbort, WriteOn, WriteEnd,
                LoopPcs
  <2>3. \A s \in Slots : ~Quiet(s)' => ~Quiet(s)
    BY <2>1 DEF Quiet
  <2>4. QED BY <1>r, <2>1, <2>2, <2>3, ReadSidesKept
<1>6. CASE JoinSetFl
  <2>1. /\ UNCHANGED <<job, file, off_readed, len, readed, i_reading, number_frag, t_read,
                       t_write, aio_r, aio_w, mem>>
        /\ fl' = [fl EXCEPT ![cur_r] = 2] /\ pc = "joined"
    BY <1>6 DEF JoinSetFl
  <2>2. pc \in LoopPcs /\ cur_r = cur_w
    BY <2>1 DEF LoopPcs, IInv, LoopInv, ReadingInv
  <2>3. \A s \in Slots : ~Quiet(s)' => ~Quiet(s)
    BY <2>1 DEF Quiet
  <2>4. \A s \in Slots : ~Quiet(s)' => fl'[s] = 2
    BY <1>t, <1>b, <2>1, <2>2, <2>3
  <2>5. QED BY <1>r, <2>1, <2>2, <2>3, <2>4, ReadSidesKept
<1>7. CASE SplitFile
  <2>1. /\ UNCHANGED <<job, file, off_readed, len, readed, i_reading, t_read, aio_r, aio_w, mem,
                       fl>>
        /\ t_write' = [t_write EXCEPT ![cur_w].fd = number_frag[cur_w] + 1]
        /\ number_frag' = [number_frag EXCEPT ![cur_w] = @ + 1] /\ WriteEnd /\ SplitDue
    BY <1>7 DEF SplitFile, SplitStep, WriteEnd, NextFrag
  <2>2. cur_w \in Slots /\ ~Quiet(cur_w) /\ pc = "writeend" /\ pc \in LoopPcs
    BY <2>1, WriteEndSlot DEF WriteEnd, LoopPcs
  <2>3. file[cur_w].mode = 1
    BY <2>1 DEF SplitDue
  <2>4. \A s \in Slots : s # cur_w => t_write'[s] = t_write[s] /\ number_frag'[s] = number_frag[s]
    BY <1>t, <2>1 DEF IInv, TypeOK, QueueType
  <2>5. \A s \in Slots : ~Quiet(s)' => ~Quiet(s)
    BY <2>1, <2>2, <2>4 DEF Quiet
  <2>6. \A s \in Slots : file[s].mode \in {2, 3} => number_frag'[s] = number_frag[s]
    BY <2>3, <2>4
  <2>7. QED BY <1>r, <2>1, <2>2, <2>5, <2>6, ReadSidesKept
<1>8. CASE FinishFile
  <2>1. /\ t_read' = [t_read EXCEPT ![cur_w].fd = -1]
        /\ t_write' = [t_write EXCEPT ![cur_w].fd = -1]
        /\ aio_r' = aio_r /\ aio_w' = aio_w /\ WriteEnd /\ FileComplete
    BY <1>8 DEF FinishFile, WriteEnd
  <2>2. aio_r[cur_w] = "idle" /\ aio_w[cur_w] = "idle"
    BY <2>1, WriteEndSlot DEF FileComplete
  <2>3. \A s \in Slots : Quiet(s)'
    BY <1>t, <1>b, <2>1, <2>2 DEF Quiet, AioType
  <2>4. QED BY <1>2, <2>3
<1>9. CASE OpenFile
  <2>1. /\ cur_r \in Slots /\ \A s \in Slots : Quiet(s)
    BY <1>9, OpenSlot DEF OpenFile, OpenBoth
  <2>2. /\ t_read' = [t_read EXCEPT ![cur_r] = t_read'[cur_r]]
        /\ t_write' = [t_write EXCEPT ![cur_r] = t_write'[cur_r]]
        /\ aio_r' = [aio_r EXCEPT ![cur_r] = "issued"] /\ aio_w' = aio_w /\ i_reading'
    BY <1>t, <1>9, <2>1 DEF OpenFile, OpenBoth
  <2>3. \A s \in Slots : s # cur_r => Quiet(s)'
    BY <1>t, <2>1, <2>2 DEF Quiet
  <2>4. PICK r \in Slots : r = cur_r
    BY <2>1
  <2>5. ReadSide(r)'
    BY <1>9, <2>4, ReadOpened
  <2>6. \A s \in Slots : ~Quiet(s)' => s = r
    BY <2>3, <2>4
  <2>7. QED BY <2>2, <2>5, <2>6, ReadSidesOne
<1>10. CASE SingleWrite \/ LastRead \/ JoinMissing
  <2>1. IssueWrite /\ NoMoreReads
    BY <1>10 DEF SingleWrite, LastRead, JoinMissing, JoinStep
  <2>2. cur_r \in Slots /\ ~Quiet(cur_r) /\ cur_r = cur_w
    BY <2>1, ReadEndSlot DEF IssueWrite
  <2>3. /\ ~i_reading' /\ len' = len /\ file' = file /\ job' = job /\ t_read' = t_read
        /\ aio_r' = aio_r
    BY <2>1 DEF IssueWrite, NoMoreReads, NextSlot
  <2>4. \A s \in Slots : s # cur_r => t_write'[s] = t_write[s] /\ aio_w'[s] = aio_w[s]
    BY <1>t, <2>1, <2>2 DEF IssueWrite
  <2>5. \A s \in Slots : ~Quiet(s)' => s = cur_r
    BY <1>b, <2>2, <2>3, <2>4 DEF Quiet
  <2>6. len[cur_r] = Length(file[cur_r].ent) \/ file[cur_r].ent \in missed'
    BY <1>10, ReadToEnd
  <2>7. \A s \in Slots : ~Quiet(s)' =>
           len'[s] = Length(file[s].ent)' \/ file'[s].ent \in missed'
    BY <2>3, <2>5, <2>6, SourceKept
  <2>8. QED BY <2>3, <2>7 DEF ReadSides
<1>11. CASE (ReadAhead \/ JoinNext) /\ pc' \in LoopPcs
  <2>1. IssueWrite
    BY <1>11 DEF ReadAhead, JoinNext, JoinStep
  <2>2. cur_r \in Slots /\ ~Quiet(cur_r) /\ cur_r = cur_w /\ i_reading
    BY <2>1, ReadEndSlot DEF IssueWrite
  <2>3. /\ i_reading' /\ t_read' = [t_read EXCEPT ![cur_r] = t_read'[cur_r]]
        /\ aio_r' = [aio_r EXCEPT ![cur_r] = "issued"]
    BY <1>t, <1>11, <2>2 DEF ReadAhead, JoinNext, IssueRead, LoopPcs
  <2>4. \A s \in Slots : s # cur_r => t_write'[s] = t_write[s] /\ aio_w'[s] = aio_w[s]
    BY <1>t, <2>1, <2>2 DEF IssueWrite
  <2>5. \A s \in Slots : s # cur_r => t_read'[s] = t_read[s] /\ aio_r'[s] = aio_r[s]
    BY <1>t, <2>2, <2>3
  <2>6. \A s \in Slots : ~Quiet(s)' => s = cur_r
    BY <1>b, <2>2, <2>4, <2>5 DEF Quiet
  <2>7. PICK r \in Slots : r = cur_r
    BY <2>2
  <2>8. ReadSide(r)'
    BY <1>11, <2>7, ReadMore, ReadJoined
  <2>9. \A s \in Slots : ~Quiet(s)' => s = r
    BY <2>6, <2>7
  <2>10. QED BY <2>3, <2>8, <2>9, ReadSidesOne
<1>12. ASSUME NEW r \in Slots, WriteTransfer(r) \/ fast_func_write(r) \/ WriteError(r)
       PROVE  ReadSides'
  <2>1. /\ UNCHANGED <<job, file, off_readed, len, readed, i_reading, number_frag, t_read,
                       t_write, aio_r, mem, fl, pc>>
        /\ aio_w[r] # "idle" /\ aio_w' = [aio_w EXCEPT ![r] = aio_w'[r]]
    BY <1>t, <1>12 DEF WriteTransfer, fast_func_write, WriteError, copyUnchanged
  <2>2. \A s \in Slots : s # r => aio_w'[s] = aio_w[s]
    BY <1>t, <2>1
  <2>3. \A s \in Slots : ~Quiet(s)' => ~Quiet(s)
    BY <2>1, <2>2 DEF Quiet
  <2>4. QED BY <1>r, <2>1, <2>3, ReadSidesKept
<1>13. ASSUME NEW r \in Slots, ReadTransfer(r) \/ fast_func_read(r) \/ ReadError(r)
       PROVE  ReadSides'
  <2>1. /\ UNCHANGED <<i_reading, t_read, t_write, aio_w, pc>>
        /\ aio_r[r] # "idle" /\ aio_r' = [aio_r EXCEPT ![r] = aio_r'[r]]
    BY <1>t, <1>13 DEF ReadTransfer, fast_func_read, ReadError, copyUnchanged
  <2>2. ~Quiet(r) /\ r = cur_w
    BY <1>b, <2>1 DEF Quiet
  <2>3. CASE pc \in LoopPcs
    <3>1. i_reading
      BY <2>1, <2>2, <2>3 DEF IInv, LoopInv, BusyInv
    <3>2. \A s \in Slots : s # r => aio_r'[s] = aio_r[s]
      BY <1>t, <2>1
    <3>3. \A s \in Slots : ~Quiet(s)' => s = r
      BY <1>b, <2>1, <2>2, <3>2 DEF Quiet
    <3>4. ReadSide(r)'
      BY <1>13, <2>3, ReadMoved, ReadAnswered
    <3>5. QED BY <2>1, <3>1, <3>3, <3>4, ReadSidesOne
  <2>4. CASE pc \notin LoopPcs
    BY <1>1, <2>1, <2>4 DEF LoopPcs
  <2>5. QED BY <2>3, <2>4
<1>14. QED
  BY <1>1, <1>3, <1>4, <1>5, <1>6, <1>7, <1>8, <1>9, <1>10, <1>11, <1>12, <1>13
    DEF Next, CopyThread, Walk, OpenSection, ReadEndSection, WriteEndSection, Leaving, AioThread

\* A step that changes nothing keeps all of it.
LEMMA StutterCopy ==
  ASSUME CopyInv, UNCHANGED vars
  PROVE  CopyInv'
<1>1. /\ UNCHANGED <<job, next, file, disk, number_frag, fast_num_files, off_readed, cur_w,
                     t_write, t_read, fl, aio_r, aio_w, writed, readed, len, pc, i_reading, mem,
                     failed, caller, error, abort_copy, copy_mode, missed>>
  BY DEF vars, walkVars, queueVars, slotVars, fragVars, aioVars, kernVars, flagVars
<1>2. NewSlots'
  <2>1. \A e : ModeOf(e)' = ModeOf(e) /\ Fragmented(e)' = Fragmented(e)
    BY <1>1 DEF ModeOf, Fragmented
  <2>2. QED BY <1>1, <2>1 DEF CopyInv, NewSlots
<1>3. InPlace'
  BY <1>1, SourceKept DEF CopyInv, InPlace
<1>4. WriteSides'
  <2>1. \A s \in Slots : BufferOf(s)' = BufferOf(s)
    BY <1>1 DEF BufferOf
  <2>2. \A s \in Slots : t_write[s].fd # -1 => WriteSide(s)
    BY DEF CopyInv, WriteSides
  <2>3. QED BY <1>1, <2>1, <2>2, WriteSideKept DEF WriteSides
<1>5. ReadSides'
  <2>1. ReadSides
    BY DEF CopyInv
  <2>2. \A s \in Slots : Quiet(s)' <=> Quiet(s)
    BY <1>1 DEF Quiet
  <2>3. QED BY <1>1, <2>1, <2>2, ReadSidesKept
<1>6. Ordered'
  <2>1. \A e : (Settled(e)' <=> Settled(e)) /\ (Queued(e)' <=> Queued(e))
    BY <1>1, SourceKept DEF Settled, Complete, Queued
  <2>2. Ordered
    BY DEF CopyInv
  <2>3. QED BY <1>1, <2>1, <2>2 DEF Ordered
<1>7. QED BY <1>2, <1>3, <1>4, <1>5, <1>6 DEF CopyInv

\* Nothing is queued, written or read yet.
LEMMA InitCopy ==
  ASSUME Init, IInv
  PROVE  CopyInv
<1>1. /\ fast_num_files = 0 /\ next = 1 /\ ~failed /\ pc = "walk"
      /\ \A e \in DOMAIN job : disk[e] = << >>
      /\ \A s \in Slots : t_write[s].fd = -1
  BY DEF Init, Aio
<1>2. \A s \in Slots : ~(s < fast_num_files)
  BY <1>1, Numbers
<1>3. NewSlots
  BY <1>2 DEF NewSlots
<1>4. InPlace
  <2>1. ASSUME NEW e \in DOMAIN job PROVE Placed(SourceOf(e), disk[e])
    <3>1. SourceOf(e) \in Seq(Int \X Int)
      BY SourceFacts
    <3>2. Placed(SourceOf(e), << >>)
      BY <3>1, PlacedEmpty
    <3>3. QED BY <1>1, <3>2
  <2>2. QED BY <2>1 DEF InPlace
<1>5. WriteSides
  BY <1>1 DEF WriteSides
<1>6. ReadSides
  BY <1>1 DEF ReadSides, LoopPcs
<1>7. Ordered
  <2>1. \A e \in DOMAIN job : ~(e < next)
    <3>1. DOMAIN job = 1 .. Len(job)
      BY JobFacts DEF IInv, TypeOK, ControlType
    <3>2. QED BY <1>1, <3>1
  <2>2. QED BY <1>1, <2>1 DEF Ordered
<1>8. QED BY <1>3, <1>4, <1>5, <1>6, <1>7 DEF CopyInv

\* Every step keeps what makes the engine copy.
LEMMA CopyStep ==
  ASSUME JoinsAll, IInv, SplitInv, CountInv, CopyInv, [Next]_vars, IInv'
  PROVE  CopyInv'
<1>1. CASE Next
  <2>1. NewSlots'
    BY <1>1, NewSlotsStep DEF SplitInv, CopyInv
  <2>2. InPlace'
    BY <1>1, InPlaceStep
  <2>3. WriteSides'
    BY <1>1, WriteSidesStep
  <2>4. ReadSides'
    BY <1>1, ReadSidesStep
  <2>5. Ordered'
    BY <1>1, OrderedStep
  <2>6. QED BY <2>1, <2>2, <2>3, <2>4, <2>5 DEF CopyInv
<1>2. CASE UNCHANGED vars
  BY <1>2, StutterCopy
<1>3. QED BY <1>1, <1>2

\* The engine copies in every state of a job it joins all fragments of.
LEMMA CopyInductive ==
  ASSUME JoinsAll
  PROVE  Spec => []CopyInv
<1>1. Init => IInv
  BY InitIInv
<1>2. Init /\ IInv => CopyInv
  BY InitCopy
<1>3. IInv /\ SplitInv /\ CountInv /\ CopyInv /\ [Next]_vars /\ IInv' => CopyInv'
  BY CopyStep
<1>4. QED
  BY <1>1, <1>2, <1>3, Inductive, SplitInductive, CountInductive, PTL DEF Spec

-----------------------------------------------------------------------------
(* The engine implements the copy that CopySpec specifies. *)

\* What has been delivered of each file is the beginning of it.
LEMMA DeliveredFacts ==
  ASSUME IInv, InPlace
  PROVE  \A e \in DOMAIN job :
            /\ Sources[e] = SourceOf(e) /\ Delivered[e] = SubSeq(SourceOf(e), 1, Total(e))
            /\ Len(Delivered[e]) = Total(e) /\ Len(Sources[e]) = Length(e)
            /\ Total(e) \in Nat /\ Length(e) \in Nat /\ Total(e) <= Length(e)
            /\ Complete(e) => Delivered[e] = Sources[e]
<1>1. TAKE e \in DOMAIN job
<1>2. PICK src \in Seq(Int \X Int) : src = SourceOf(e)
  BY SourceFacts
<1>3. PICK out \in Seq(Seq(Unit)) : out = disk[e]
  BY TotalFacts
<1>4. PICK t \in Nat : t = Total(e)
  BY TotalFacts
<1>5. Placed(src, out) /\ Cardinality(Places(out)) = t
  BY <1>2, <1>3, <1>4 DEF InPlace, Total
<1>6. EndToEnd(out) = SubSeq(src, 1, t) /\ t <= Len(src)
  <2>1. EndToEnd(out) = SubSeq(src, 1, Cardinality(Places(out)))
    BY <1>5, PlacedPrefix
  <2>2. QED BY <1>5, <2>1 DEF Placed
<1>7. Len(SubSeq(src, 1, t)) = t /\ (t = Len(src) => SubSeq(src, 1, t) = src)
  BY <1>6
<1>8. Sources[e] = src /\ Delivered[e] = EndToEnd(out) /\ Length(e) = Len(src)
  BY <1>2, <1>3 DEF Sources, Delivered, Length
<1>9. Len(src) \in Nat
  OBVIOUS
<1>10. QED BY <1>2, <1>4, <1>6, <1>7, <1>8, <1>9 DEF Complete

\* The same of the next state.
LEMMA DeliveredNext ==
  ASSUME IInv, IInv', InPlace', job' = job
  PROVE  /\ Sources' = Sources
         /\ DOMAIN Delivered' = DOMAIN job
         /\ Delivered' = [e \in DOMAIN job |-> Delivered'[e]]
         /\ Delivered = [e \in DOMAIN job |-> Delivered[e]]
         /\ \A e \in DOMAIN job : Delivered'[e] = SubSeq(SourceOf(e), 1, Total(e)')
<1>1. Sources' = Sources
  BY SourceKept DEF Sources
<1>2. ASSUME NEW e \in DOMAIN job PROVE Delivered'[e] = SubSeq(SourceOf(e), 1, Total(e)')
  <2>1. PICK src \in Seq(Int \X Int) : src = SourceOf(e)
    BY SourceFacts
  <2>2. PICK out : out = disk'[e]
    OBVIOUS
  <2>3. out \in Seq(Seq(Unit))
    BY <2>2 DEF IInv, TypeOK, KernelType
  <2>4. Placed(src, out)
    BY <2>1, <2>2, SourceKept DEF InPlace
  <2>5. EndToEnd(out) = SubSeq(src, 1, Cardinality(Places(out)))
    BY <2>3, <2>4, PlacedPrefix
  <2>6. Delivered'[e] = EndToEnd(out) /\ Total(e)' = Cardinality(Places(out))
    BY <2>2 DEF Delivered, Total
  <2>7. QED BY <2>1, <2>5, <2>6
<1>3. Delivered' = [e \in DOMAIN job |-> Delivered'[e]]
  BY DEF Delivered
<1>4. Delivered = [e \in DOMAIN job |-> Delivered[e]]
  BY DEF Delivered
<1> HIDE DEF Delivered
<1>5. QED BY <1>1, <1>2, <1>3, <1>4

\* Nothing is delivered by a step that adds no unit.
LEMMA NothingDelivered ==
  ASSUME IInv, IInv', InPlace, InPlace', job' = job,
         \A e \in DOMAIN job : Total(e)' = Total(e)
  PROVE  Sources' = Sources /\ Delivered' = Delivered
<1>1. \A e \in DOMAIN job : Delivered'[e] = Delivered[e]
  BY DeliveredFacts, DeliveredNext
<1>2. QED BY <1>1, DeliveredNext

\* A file is cut short while some of it has not been written.
LEMMA MissedEarly ==
  ASSUME IInv, SplitInv, CopyInv, AddFile \/ JoinMissing, missed' # missed
  PROVE  /\ "stat" \in Faults /\ pc # "done"
         /\ \E e \in DOMAIN job : Total(e) # Length(e) /\ missed' = missed \cup {e}
<1>1. CASE AddFile
  <2>1. /\ pc = "walk" /\ next \in DOMAIN job /\ job[next].kind # "piece"
        /\ job[next].frags[1] > 0
    BY <1>1 DEF AddFile
  <2>2. "stat" \in Faults /\ missed' = missed \cup {next}
    <3>1. PICK mode \in ModesOf(next) :
              missed' = IF mode # ModeOf(next) /\ Fragmented(next) THEN missed \cup {next}
                        ELSE missed
      BY <1>1, AddedMode
    <3>2. mode # ModeOf(next) /\ missed' = missed \cup {next}
      BY <3>1
    <3>3. QED BY <3>1, <3>2 DEF ModesOf
  <2>3. Total(next) = 0
    <3>1. disk[next] = << >>
      BY <2>1, Numbers DEF SplitInv, OwnInv
    <3>2. Cardinality(Places(<< >>)) = 0
      <4>1. << >> \in Seq(Int)
        OBVIOUS
      <4>2. QED BY <4>1, PlacedEmpty
    <3>3. QED BY <3>1, <3>2 DEF Total
  <2>4. Length(next) > 0
    <3>1. PICK fs \in Seq(Nat) : fs = job[next].frags
      BY <2>1, SourceFacts
    <3>2. 1 \in DOMAIN fs /\ fs[1] \in Nat
      BY <2>1, <3>1, SourceFacts
    <3>3. /\ StartOf(Parts(next), 1) = 0 /\ StartOf(Parts(next), 2) <= Length(next)
          /\ StartOf(Parts(next), 1 + 1) = StartOf(Parts(next), 1) + fs[1]
          /\ Length(next) \in Nat /\ StartOf(Parts(next), 2) \in Nat
      BY <2>1, <3>1, <3>2, SourceFacts
    <3>4. QED BY <2>1, <3>1, <3>2, <3>3
  <2>5. QED BY <2>1, <2>2, <2>3, <2>4
<1>2. CASE JoinMissing
  <2>1. /\ IssueWrite /\ HasNext /\ "stat" \in Faults /\ file[cur_r].mode \in {2, 3}
        /\ missed' = missed \cup {file[cur_r].ent}
    BY <1>2 DEF JoinMissing, JoinStep
  <2>2. PICK s \in Slots : s = cur_r
    BY <2>1, ReadEndSlot DEF IssueWrite
  <2>3. /\ pc = "readend" /\ pc \in LoopPcs /\ i_reading /\ ~Quiet(s) /\ aio_w[s] = "idle"
        /\ t_write[s].fd # -1
    BY <2>1, <2>2, ReadEndSlot DEF IssueWrite, ReadEndGuard, LoopPcs
  <2>4. PICK e \in DOMAIN job : e = file[s].ent
    BY SlotNumbers
  <2>5. PICK f \in Nat : f = t_read[s].fd + 1
    BY <2>3, ReaderFacts
  <2>6. /\ ReadSide(s) /\ t_read[s].fd \in Nat /\ job[e].kind # "piece"
        /\ off_readed[s] = StartOf(Parts(e), f) /\ len[s] = off_readed[s] + job[e].frags[f]
        /\ f \in DOMAIN job[e].frags
    BY <2>3, <2>4, <2>5, ReaderFacts
  <2>7. f + 1 \in DOMAIN job[e].frags
    <3>1. number_frag[s] = t_read[s].fd /\ number_frag[s] \in Nat
      BY <2>1, <2>2, <2>6, SlotNumbers DEF ReadSide
    <3>2. number_frag[s] + 2 \in DOMAIN job[e].frags
      BY <2>1, <2>2, <2>4 DEF HasNext
    <3>3. number_frag[s] + 2 = f + 1
      BY <2>5, <3>1
    <3>4. QED BY <3>2, <3>3
  <2>8. job[e].frags[f + 1] > 0 /\ job[e].frags[f + 1] \in Nat
    <3>1. job \in Jobs /\ job[e].frags \in Seq(Nat)
      BY SourceFacts DEF IInv, TypeOK, ControlType
    <3>2. f + 1 \in 2 .. Len(job[e].frags)
      <4>1. f >= 1 /\ f + 1 \in 1 .. Len(job[e].frags)
        BY <2>6, <2>7, <3>1
      <4>2. Len(job[e].frags) \in Nat
        BY SourceFacts
      <4>3. QED BY <4>1, <4>2
    <3>3. job[e].frags[f + 1] > 0
      BY <3>1, <3>2, FragmentsAssumption
    <3>4. QED BY <2>7, <3>1, <3>3
  <2>9. /\ len[s] = StartOf(Parts(e), f + 1)
        /\ StartOf(Parts(e), f + 1 + 1) = StartOf(Parts(e), f + 1) + job[e].frags[f + 1]
        /\ StartOf(Parts(e), f + 1 + 1) <= Length(e)
        /\ StartOf(Parts(e), f + 1 + 1) \in Nat /\ StartOf(Parts(e), f + 1) \in Nat
        /\ Length(e) \in Nat
    <3>1. StartOf(Parts(e), f + 1) = StartOf(Parts(e), f) + job[e].frags[f]
      BY <2>6, SourceFacts
    <3>2. StartOf(Parts(e), f + 1 + 1) = StartOf(Parts(e), f + 1) + job[e].frags[f + 1]
      BY <2>7, SourceFacts
    <3>3. /\ StartOf(Parts(e), f + 1 + 1) <= Length(e) /\ Length(e) \in Nat
          /\ StartOf(Parts(e), f + 1 + 1) \in Nat /\ StartOf(Parts(e), f + 1) \in Nat
      BY <2>6, SourceFacts
    <3>4. QED BY <2>6, <3>1, <3>2, <3>3
  <2>10. len[s] < Length(e)
    BY <2>8, <2>9
  <2>11. writed[s] >= 0 /\ writed[s] <= len[s]
    <3>1. /\ writed[s] >= 0 /\ readed[s] <= len[s] /\ writed[s] = readed[s] - t_read[s].size
          /\ readed[s] \in Int /\ len[s] \in Int /\ t_read[s].size \in Int
      BY <2>1, <2>2, ReadEndData
    <3>2. cur_w = s /\ aio_r[s] = "idle" /\ fl[s] = 3
      BY <2>1, <2>2, ReadEndSlot DEF IssueWrite, ReadEndGuard
    <3>3. t_read[s].size > 0
      BY <2>3, <3>2 DEF IInv, DataInv, LoopPcs
    <3>4. QED BY <3>1, <3>3
  <2>12. Total(e) = writed[s] + 0
    BY <2>3, <2>4, <2>11 DEF CopyInv, WriteSides, WriteSide
  <2>13. Total(e) # Length(e)
    BY <2>9, <2>10, <2>11, <2>12, SlotNumbers
  <2>14. QED BY <2>1, <2>2, <2>3, <2>4, <2>13
<1>3. QED BY <1>1, <1>2

\* A file that is cut short is not whole.
LEMMA MissMaps ==
  ASSUME IInv, SplitInv, CopyInv, Next, missed' # missed,
         Sources' = Sources, Delivered' = Delivered, Status' = Status
  PROVE  Copy!Miss
<1>1. AddFile \/ JoinMissing
  BY MissedStep
<1>2. /\ "stat" \in Faults /\ Status = "copying"
  BY <1>1, MissedEarly DEF Status
<1>3. PICK e \in DOMAIN job : Total(e) # Length(e) /\ missed' = missed \cup {e}
  BY <1>1, MissedEarly
<1>4. Len(Delivered[e]) # Len(Sources[e])
  BY <1>3, DeliveredFacts DEF CopyInv
<1>5. e \in DOMAIN Sources
  BY DEF Sources
<1>6. QED BY <1>2, <1>3, <1>4, <1>5 DEF Copy!Miss, Copy!Whole

\* A write delivers units of the first file that is not over, or of one cut short.
LEMMA WriteDelivers ==
  ASSUME IInv, SplitInv, CopyInv, IInv', NEW s \in Slots, WriteTransfer(s) \/ WriteError(s)
  PROVE  Copy!Deliver \/ UNCHANGED Copy!specVars
<1>1. /\ aio_w[s] = "issued" /\ job' = job /\ pc' = pc /\ failed' = failed /\ missed' = missed
  BY DEF WriteTransfer, WriteError, copyUnchanged, walkVars, queueVars
<1>2. pc # "done" /\ s < fast_num_files /\ s = cur_w
  BY <1>1 DEF IInv, RestInv, SlotInv, Quiet
<1>3. Status' = Status /\ Status = "copying"
  BY <1>1, <1>2 DEF Status
<1>4. PICK n \in Nat : n <= t_write[s].size /\ disk' = Sent(s, n)
  BY WriteStep
<1>5. PICK e : e = file[s].ent
  OBVIOUS
<1>6. /\ e \in DOMAIN job /\ Total(e)' = Total(e) + n /\ Total(e) + n <= Length(e) /\ InPlace'
      /\ \A x \in DOMAIN job : x # e => Total(x)' = Total(x)
  BY <1>1, <1>4, <1>5, WriteAdds
<1>7. InPlace
  BY DEF CopyInv
<1>8. CASE n = 0
  <2>1. Total(e)' = Total(e)
    BY <1>6, <1>8, TotalFacts
  <2>2. \A x \in DOMAIN job : Total(x)' = Total(x)
    BY <1>6, <2>1
  <2>3. Sources' = Sources /\ Delivered' = Delivered
    BY <1>1, <1>6, <1>7, <2>2, NothingDelivered
  <2>4. QED BY <1>1, <1>3, <2>3 DEF Copy!specVars
<1>9. CASE n # 0
  <2>1. PICK t \in Nat : t = Total(e)
    BY <1>6, TotalFacts
  <2>2. n <= FILESIZE_MAX /\ FILESIZE_MAX \in Nat
    BY <1>1, <1>4, WriterFacts, SlotNumbers
  <2>3. /\ t + n \in t + 1 .. t + FILESIZE_MAX /\ t + n <= Len(Sources[e])
        /\ Len(Delivered[e]) = t
    <3>1. Len(Delivered[e]) = t /\ Len(Sources[e]) = Length(e)
      BY <1>6, <1>7, <2>1, DeliveredFacts
    <3>2. QED BY <1>6, <1>9, <2>1, <2>2, <3>1
  <2>4. Delivered' = [Delivered EXCEPT ![e] = SubSeq(Sources[e], 1, t + n)]
    <3>1. \A x \in DOMAIN job : x # e => Delivered'[x] = Delivered[x]
      BY <1>1, <1>6, <1>7, DeliveredFacts, DeliveredNext
    <3>2. Delivered'[e] = SubSeq(Sources[e], 1, t + n)
      BY <1>1, <1>6, <1>7, <2>1, DeliveredFacts, DeliveredNext
    <3>3. /\ Delivered' = [x \in DOMAIN job |-> Delivered'[x]]
          /\ Delivered = [x \in DOMAIN job |-> Delivered[x]]
      BY <1>1, <1>6, DeliveredNext
    <3>4. DOMAIN Delivered = DOMAIN job
      BY DEF Delivered
    <3>5. Delivered' = [x \in DOMAIN job |->
              IF x = e THEN SubSeq(Sources[e], 1, t + n) ELSE Delivered[x]]
      BY <3>1, <3>2, <3>3
    <3>6. QED BY <3>4, <3>5
  <2>5. ASSUME NEW d \in 1 .. e - 1 PROVE Copy!Over(d)
    <3>1. d \in DOMAIN job /\ d \in Int /\ d < e
      <4>1. DOMAIN job = 1 .. Len(job) /\ Len(job) \in Nat
        BY JobFacts DEF IInv, TypeOK, ControlType
      <4>2. e \in 1 .. Len(job)
        BY <1>6, <4>1
      <4>3. QED BY <2>5, <4>1, <4>2
    <3>2. d < next /\ fast_num_files > 0
      <4>1. e < next /\ next \in Int /\ e \in Int /\ s \in Nat /\ fast_num_files \in Nat
        BY <1>2, <1>5, <1>6, Numbers DEF SplitInv, OwnInv
      <4>2. QED BY <1>2, <3>1, <4>1
    <3>3. ~Queued(d)
      <4>1. ASSUME NEW r \in Slots, r < fast_num_files, cur_w <= r, file[r].ent = d PROVE FALSE
        <5>1. r # s /\ r \in Nat /\ s \in Nat /\ e \in Int
          BY <1>5, <1>6, <3>1, <4>1, Numbers
        <5>2. s < r
          BY <1>2, <4>1, <5>1
        <5>3. e < d
          BY <1>5, <4>1, <5>2 DEF CopyInv, NewSlots
        <5>4. QED BY <3>1, <5>1, <5>3
      <4>2. QED BY <4>1 DEF Queued
    <3>4. Settled(d)
      BY <3>1, <3>2, <3>3 DEF CopyInv, Ordered
    <3>5. Complete(d) => Delivered[d] = Sources[d]
      BY <1>7, <3>1, DeliveredFacts
    <3>6. QED BY <3>4, <3>5 DEF Settled, Copy!Over, Copy!Whole
  <2>6. Sources' = Sources /\ DOMAIN Sources = DOMAIN job
    BY <1>1, SourceKept DEF Sources
  <2>7. Copy!Deliver
    BY <1>1, <1>3, <1>6, <2>3, <2>4, <2>5, <2>6 DEF Copy!Deliver
  <2>8. QED BY <2>7
<1>10. QED BY <1>8, <1>9

\* The engine returns well only when every file is whole or was cut short.
LEMMA FinishMaps ==
  ASSUME IInv, CountInv, CopyInv, Finish
  PROVE  Copy!Succeed \/ Copy!Fail
<1>1. /\ pc = "return" /\ caller = "end" /\ pc' = "done" /\ failed' = (failed \/ error < 0)
      /\ job' = job /\ disk' = disk /\ missed' = missed
  BY DEF Finish, kernVars, queueVars
<1>2. Status = "copying" /\ Status' = IF failed' THEN "failed" ELSE "ok"
  BY <1>1 DEF Status
<1>3. Sources' = Sources /\ Delivered' = Delivered /\ DOMAIN Sources = DOMAIN job
  BY <1>1, SourceKept DEF Sources, Delivered
<1>4. CASE failed'
  <2>1. Status' = "failed"
    BY <1>2, <1>4
  <2>2. QED BY <1>1, <1>2, <1>3, <2>1 DEF Copy!Fail
<1>5. CASE ~failed'
  <2>1. ~failed /\ error = 0
    <3>1. error \in {0, -1, -2, -3, -4, -666}
      BY DEF IInv, TypeOK, ControlType
    <3>2. ~failed /\ ~(error < 0)
      BY <1>1, <1>5, Zenon
    <3>3. error = 0
      BY <3>1, <3>2
    <3>4. QED BY <3>2, <3>3
  <2>2. ~abort_copy /\ next = Len(job) + 1 /\ fast_num_files = 0
    BY <1>1, <2>1 DEF CountInv, IInv, RestInv
  <2>3. ASSUME NEW e \in DOMAIN job PROVE Copy!Over(e)
    <3>1. e < next
      <4>1. DOMAIN job = 1 .. Len(job) /\ Len(job) \in Nat
        BY JobFacts DEF IInv, TypeOK, ControlType
      <4>2. QED BY <2>2, <4>1
    <3>2. ~Queued(e)
      BY <2>2, Numbers DEF Queued
    <3>3. Settled(e)
      BY <2>1, <2>2, <3>1, <3>2 DEF CopyInv, Ordered
    <3>4. Complete(e) => Delivered[e] = Sources[e]
      BY DeliveredFacts DEF CopyInv
    <3>5. QED BY <3>3, <3>4 DEF Settled, Copy!Over, Copy!Whole
  <2>4. Status' = "ok"
    BY <1>2, <1>5
  <2>5. QED BY <1>1, <1>2, <1>3, <2>3, <2>4 DEF Copy!Succeed
<1>6. QED BY <1>4, <1>5

\* No other step ends the copy.
LEMMA StatusKept ==
  ASSUME IInv, Next, ~Finish
  PROVE  Status' = Status
<1> USE DEF GoTo, Leave, CallProcess, walkUnchanged, walkVars
<1>1. CASE \/ Walk \/ OpenSection \/ WriteEndSection \/ Display \/ UserAbort \/ Cleanup
           \/ ReturnToAdd \/ ReturnFailed
  <2>1. pc # "done" /\ pc' # "done"
    BY <1>1
      DEF Walk, AddFlush, AddPiece, AddEmpty, AddFile, AddFails, EndWalk, OpenSection, LoopExit,
          LoopSkip, OpenReadFails, OpenWriteFails, OpenFile, OpenFileAioFails, OpenBoth, OpenGuard,
          WriteEndSection, WriteEndSkip, WriteEndError, FinishFile, FinishCloseFails, SplitFile,
          SplitCloseFails, SplitOpenFails, SplitStep, WriteOn, WriteEnd, Display, UserAbort,
          Cleanup, ReturnToAdd, ReturnFailed
  <2>2. QED BY <2>1 DEF Status
<1>2. CASE ReadEndSection
  <2>1. pc # "done" /\ pc' # "done"
    BY <1>2
      DEF ReadEndSection, ReadEndSkip, ReadEndFails, SingleWrite, ReadAhead, LastRead, JoinMissing,
          JoinNext, JoinOpenFails, JoinCloseFails, JoinStep, IssueWrite, IssueRead, ReadEndGuard,
          NoMoreReads, NextSlot, JoinSetFl
  <2>2. QED BY <2>1 DEF Status
<1>3. CASE AioThread \/ Terminated
  <2>1. pc' = pc /\ failed' = failed
    BY <1>3 DEF AioThread, ReadTransfer, fast_func_read, ReadError, WriteTransfer,
                fast_func_write, WriteError, copyUnchanged, Terminated, vars
  <2>2. QED BY <2>1 DEF Status
<1>4. QED BY <1>1, <1>2, <1>3 DEF Next, CopyThread, Leaving

\* Every write extends the right file by the right units, in order, and success is
\* reported only when each file is whole or was cut short by a stat that failed
\* (fast_copy.h:201, :610; with no such fault, only for a complete copy): whatever the
\* listing, the sizes and the faults the engine implements CopySpec, for every job it
\* joins all fragments of.
THEOREM CopyImplemented ==
  ASSUME JoinsAll
  PROVE  Spec => ImplementsCopy
<1>1. Init => Copy!SpecInit
  <2>1. SUFFICES ASSUME Init PROVE Copy!SpecInit
    OBVIOUS
  <2>2. pc = "walk" /\ disk = [e \in DOMAIN job |-> << >>] /\ missed = {}
    BY <2>1 DEF Init
  <2>3. Status = "copying" /\ DOMAIN Sources = DOMAIN job
    BY <2>2 DEF Status, Sources
  <2>4. EndToEnd(<< >>) = << >>
    BY NoFragments
  <2>5. Delivered = [e \in DOMAIN job |-> << >>]
    BY <2>2, <2>4 DEF Delivered
  <2>6. QED BY <2>2, <2>3, <2>5 DEF Copy!SpecInit
<1>2. IInv /\ SplitInv /\ CountInv /\ CopyInv /\ [Next]_vars /\ IInv' /\ CopyInv'
         => [Copy!SpecNext]_(Copy!specVars)
  <2>1. SUFFICES ASSUME IInv, SplitInv, CountInv, CopyInv, [Next]_vars, IInv', CopyInv'
                 PROVE  [Copy!SpecNext]_(Copy!specVars)
    OBVIOUS
  <2>2. CASE UNCHANGED vars
    <3>1. job' = job /\ disk' = disk /\ pc' = pc /\ failed' = failed /\ missed' = missed
      BY <2>2 DEF vars, walkVars, kernVars, queueVars
    <3>2. Sources' = Sources /\ Delivered' = Delivered /\ Status' = Status
      BY <3>1, SourceKept DEF Sources, Delivered, Status
    <3>3. QED BY <3>1, <3>2 DEF Copy!specVars
  <2>3. ASSUME NEW s \in Slots, WriteTransfer(s) \/ WriteError(s)
        PROVE  [Copy!SpecNext]_(Copy!specVars)
    <3>1. Copy!Deliver \/ UNCHANGED Copy!specVars
      BY <2>1, <2>3, WriteDelivers
    <3>2. QED BY <3>1 DEF Copy!SpecNext
  <2>4. CASE Finish
    <3>1. Copy!Succeed \/ Copy!Fail
      BY <2>1, <2>4, FinishMaps
    <3>2. QED BY <3>1 DEF Copy!SpecNext
  <2>5. CASE Next /\ ~Finish /\ \A s \in Slots : ~WriteTransfer(s) /\ ~WriteError(s)
    <3>1. job' = job /\ InPlace /\ InPlace' /\ \A e \in DOMAIN job : Total(e)' = Total(e)
      BY <2>1, <2>5, JobKept, UnitsKept DEF CopyInv
    <3>2. Sources' = Sources /\ Delivered' = Delivered
      BY <2>1, <3>1, NothingDelivered
    <3>3. Status' = Status
      BY <2>1, <2>5, StatusKept
    <3>4. CASE missed' = missed
      BY <3>2, <3>3, <3>4 DEF Copy!specVars
    <3>5. CASE missed' # missed
      <4>1. Copy!Miss
        BY <2>1, <2>5, <3>2, <3>3, <3>5, MissMaps
      <4>2. QED BY <4>1 DEF Copy!SpecNext
    <3>6. QED BY <3>4, <3>5
  <2>6. QED BY <2>1, <2>2, <2>3, <2>4, <2>5
<1>3. QED
  BY <1>1, <1>2, Inductive, SplitInductive, CountInductive, CopyInductive, PTL
    DEF Spec, ImplementsCopy, Copy!CopySpec
=============================================================================
