-------------------------- MODULE AsyncCopyProofs --------------------------
(***************************************************************************)
(* The hand-over of the slot and the files, for every task, number of      *)
(* fragments and set of faults.                                            *)
(*                                                                         *)
(* Handover is not inductive: that the first chunk of a session may be     *)
(* sent without looking at the slot rests on how the session before ended, *)
(* and that on the job having been received before the end was tested.     *)
(*                                                                         *)
(* NoEarlyClose and OpenAtEnd rest on that, and on what the slot can name: *)
(* an output that is closed by a job is one whose last chunk the job has,  *)
(* or one that met an error, which the copy thread sees before it sends    *)
(* the next chunk.                                                         *)
(*                                                                         *)
(* Contiguous holds of the outputs as they are and as they will be with    *)
(* the slot's chunk: after a failed write these are the same, and the copy *)
(* thread sends no more.  MoveKeeps follows from how far they reach.       *)
(*                                                                         *)
(* The last part proves that the first session implements CopySpec, where  *)
(* no fault hides the loss of a chunk (Seen).  UnitInv says that the       *)
(* chunks of each output are in place, as it is and with the slot's chunk  *)
(* (PlacedInv), that the slot's chunk is one of the current session        *)
(* (SlotNow), that what is written or in the slot is what the copy thread  *)
(* has passed (CameInv), and that the files it has left are whole          *)
(* (PassedInv).  A chunk that leaves the slot for a file is then a         *)
(* Deliver, the end of the session a Succeed or Fail, the rest a stutter.  *)
(***************************************************************************)
EXTENDS AsyncCopy, EndToEndProofs

Job == {"func", "null", "exit"}
Ended == {"idle", "joining", "over"}

QueueType == queue \in Seq(Job) /\ DOMAIN slot = {"flags", "fd", "mem"}

\* What the waits look at is what they mean by it.
WorkingInv == /\ event_thread_working <=> ev \in {"run", "wrote", "ran"}
              /\ ev = "wrote" => job = "func"
EndWaitInv == pc = "endwait" => Received

\* A session uses the slot from its first chunk on, and leaves it free.
SessionInv == pc \notin Ended => use_async_fd \in {1, 128}
FreeInv    == pc \in Ended \/ use_async_fd = 128 => SlotFree

HandInv == QueueType /\ WorkingInv /\ EndWaitInv /\ SessionInv /\ FreeInv /\ Handover

-----------------------------------------------------------------------------
(* The event queue. *)

\* The state of the hand-over as a function of the queue.
FuncAt(q, i) == i \in DOMAIN q /\ q[i] = "func"
HasFunc(q)   == \E i \in DOMAIN q : FuncAt(q, i)
OneFunc(q)   == \A i, j \in DOMAIN q : FuncAt(q, i) /\ FuncAt(q, j) => i = j

\* A job sent leaves a queue of jobs.
LEMMA AppendType ==
    ASSUME NEW q \in Seq(Job), NEW x \in Job
    PROVE  Append(q, x) \in Seq(Job)
  OBVIOUS

\* Sending an empty job or the exit leaves the jobs as they are.
LEMMA AppendOther ==
    ASSUME NEW q \in Seq(Job), NEW x \in Job, x # "func"
    PROVE  (HasFunc(Append(q, x)) <=> HasFunc(q)) /\ (OneFunc(q) => OneFunc(Append(q, x)))
  <1> DEFINE r == Append(q, x)
  <1>1. DOMAIN q = 1 .. Len(q) /\ DOMAIN r = 1 .. Len(q) + 1 /\ Len(q) \in Nat
    OBVIOUS
  <1>2. \A i \in 1 .. Len(q) : r[i] = q[i]
    OBVIOUS
  <1>3. r[Len(q) + 1] = x
    OBVIOUS
  <1>4. \A i : FuncAt(r, i) <=> FuncAt(q, i)
    BY <1>1, <1>2, <1>3 DEF FuncAt
  <1> QED BY <1>1, <1>4 DEF HasFunc, OneFunc, FuncAt

\* The job sent to a queue without one is the only one.
LEMMA AppendFunc ==
    ASSUME NEW q \in Seq(Job), ~HasFunc(q)
    PROVE  HasFunc(Append(q, "func")) /\ OneFunc(Append(q, "func"))
  <1> DEFINE r == Append(q, "func")
  <1>1. DOMAIN q = 1 .. Len(q) /\ DOMAIN r = 1 .. Len(q) + 1 /\ Len(q) \in Nat
    OBVIOUS
  <1>2. \A i \in 1 .. Len(q) : r[i] = q[i]
    OBVIOUS
  <1>3. r[Len(q) + 1] = "func"
    OBVIOUS
  <1>4. \A i : FuncAt(r, i) <=> i = Len(q) + 1
    BY <1>1, <1>2, <1>3 DEF FuncAt, HasFunc
  <1>5. Len(q) + 1 \in DOMAIN r
    BY <1>1
  <1>6. HasFunc(r)
    BY <1>4, <1>5 DEF HasFunc
  <1>7. OneFunc(r)
    BY <1>4 DEF OneFunc
  <1> QED BY <1>6, <1>7

\* Receiving takes the job away when it is the head, and only then.
LEMMA TailFunc ==
    ASSUME NEW q \in Seq(Job), q # << >>, OneFunc(q)
    PROVE  /\ Tail(q) \in Seq(Job) /\ Head(q) \in Job
           /\ OneFunc(Tail(q))
           /\ Head(q) = "func" => HasFunc(q) /\ ~HasFunc(Tail(q))
           /\ Head(q) # "func" => (HasFunc(Tail(q)) <=> HasFunc(q))
  <1> DEFINE r == Tail(q)
  <1>1. /\ DOMAIN q = 1 .. Len(q) /\ Len(q) \in Nat /\ Len(q) >= 1
        /\ r \in Seq(Job) /\ DOMAIN r = 1 .. Len(q) - 1 /\ Head(q) = q[1]
    OBVIOUS
  <1>2. \A i \in 1 .. Len(q) - 1 : r[i] = q[i + 1]
    OBVIOUS
  <1>3. \A i \in 1 .. Len(q) - 1 : FuncAt(r, i) <=> FuncAt(q, i + 1)
    BY <1>1, <1>2 DEF FuncAt
  <1>4. OneFunc(r)
    BY <1>1, <1>3 DEF OneFunc
  <1>5. q[1] = "func" => HasFunc(q) /\ ~HasFunc(r)
    BY <1>1, <1>3 DEF OneFunc, HasFunc, FuncAt
  <1>6. q[1] # "func" => (HasFunc(r) <=> HasFunc(q))
    <2> SUFFICES ASSUME q[1] # "func" PROVE HasFunc(r) <=> HasFunc(q)
      OBVIOUS
    <2>1. HasFunc(r) => HasFunc(q)
      BY <1>1, <1>3 DEF HasFunc
    <2>2. ASSUME NEW i \in DOMAIN q, FuncAt(q, i) PROVE HasFunc(r)
      <3>1. i \in 2 .. Len(q)
        BY <1>1, <2>2 DEF FuncAt
      <3>2. i - 1 \in 1 .. Len(q) - 1 /\ (i - 1) + 1 = i
        BY <1>1, <3>1
      <3> QED BY <1>1, <1>3, <2>2, <3>2 DEF HasFunc
    <2> QED BY <2>1, <2>2 DEF HasFunc
  <1>7. q[1] \in Job
    BY <1>1
  <1> QED BY <1>1, <1>4, <1>5, <1>6, <1>7

\* Handover in terms of the queue.
LEMMA HandoverDef ==
    /\ JobQueued <=> HasFunc(queue)
    /\ Handover <=> /\ ~SlotFree <=> HasFunc(queue) \/ JobRunning
                    /\ JobRunning => ~HasFunc(queue)
                    /\ OneFunc(queue)
  BY DEF Handover, SlotFree, JobQueued, Queued, HasFunc, OneFunc, FuncAt

-----------------------------------------------------------------------------
(* The hand-over is inductive, given that a job is received in time. *)

\* The slot is free and the queue empty before the first session.
LEMMA HandInit == Init => HandInv
  BY
    DEF Init, HandInv, QueueType, WorkingInv, EndWaitInv, SessionInv, FreeInv, Handover, SlotFree,
        Ended, Job, JobQueued, JobRunning, Queued, None

\* Steps that leave the slot's flags, the queue and the event thread alone.
LEMMA QuietStep ==
    ASSUME HandInv, UNCHANGED <<queue, job, ev, event_thread_working, slot, use_async_fd>>,
           pc' \in Ended => pc \in Ended,
           pc \in Ended => pc' \in Ended,
           pc' # "endwait"
    PROVE  HandInv'
  BY DEF HandInv, QueueType, WorkingInv, EndWaitInv, SessionInv, FreeInv, Handover, SlotFree,
         Ended, JobQueued, JobRunning, Queued

\* A stuttering step keeps the invariant.
LEMMA HandStutter == HandInv /\ UNCHANGED vars => HandInv'
  BY DEF vars, evVars, HandInv, QueueType, WorkingInv, EndWaitInv, SessionInv, FreeInv, Handover,
         SlotFree, Ended, JobQueued, JobRunning, Queued, Received

\* Sending anything but a job, between sessions or at the end of one.
LEMMA SendOther ==
    ASSUME HandInv, SlotFree, NEW x \in Job, x # "func", queue' = Append(queue, x), pc' \in Ended,
           UNCHANGED <<slot, job, ev, event_thread_working>>
    PROVE  HandInv'
  <1>1. queue \in Seq(Job) /\ OneFunc(queue)
    BY HandoverDef DEF HandInv, QueueType
  <1>2. queue' \in Seq(Job) /\ (HasFunc(queue') <=> HasFunc(queue)) /\ OneFunc(queue')
    BY <1>1, AppendType, AppendOther
  <1>3. Handover'
    BY <1>2, HandoverDef
      DEF HandInv, Handover, SlotFree, JobQueued, JobRunning, Queued, HasFunc, OneFunc, FuncAt
  <1>4. QueueType' /\ WorkingInv'
    BY <1>2 DEF HandInv, QueueType, WorkingInv
  <1>5. SlotFree'
    BY DEF SlotFree
  <1> QED BY <1>3, <1>4, <1>5 DEF HandInv, EndWaitInv, SessionInv, FreeInv, Ended

\* A session that ends with the slot free keeps the invariant, whatever it returns.
LEMMA EndStep ==
    ASSUME HandInv, SlotFree, NEW r, EndSession(r)
    PROVE  HandInv'
  BY SendOther DEF EndSession, evVars, Job, Ended

\* Every step keeps the invariant: the copy thread outside the slot's hand-over,
\* its sends and waits, then the event thread.
LEMMA HandStep ==
    ASSUME Prompt, HandInv, Next
    PROVE  HandInv'
  <1>1. CASE OpenFile
    BY <1>1, QuietStep DEF OpenFile, Opening, evVars, Ended
  <1>2. CASE StatFails
    BY <1>2, QuietStep DEF StatFails, Opening, SkipWith, evVars, Ended
  <1>3. CASE OpenReadFails
    BY <1>3, QuietStep DEF OpenReadFails, Opening, Skip, SkipWith, evVars, Ended
  <1>4. CASE OpenWriteFails
    BY <1>4, QuietStep DEF OpenWriteFails, Opening, Skip, SkipWith, evVars, Ended
  <1>5. CASE MemFails
    BY <1>5, QuietStep DEF MemFails, Opening, Skip, SkipWith, evVars, Ended
  <1>6. CASE NextPart
    BY <1>6, QuietStep DEF NextPart, Copied, evVars, Ended
  <1>7. CASE LastPart
    BY <1>7, QuietStep DEF LastPart, Copied, evVars, Ended
  <1>8. CASE LastFragment
    BY <1>8, QuietStep DEF LastFragment, Copied, evVars, Ended
  <1>9. CASE JoinWait
    BY <1>9, QuietStep DEF JoinWait, evVars, Ended
  <1>10. CASE CloseSource
    BY <1>10, QuietStep DEF CloseSource, evVars, Ended
  <1>11. CASE AbortWait
    BY <1>11, QuietStep DEF AbortWait, evVars, Ended
  <1>12. CASE UnlinkOutput
    BY <1>12, QuietStep DEF UnlinkOutput, evVars, Ended
  <1>13. CASE ReadChunk
    BY <1>13, QuietStep DEF ReadChunk, Copying, evVars, Ended
  <1>14. CASE ReadFails
    BY <1>14, QuietStep DEF ReadFails, Copying, Skip, SkipWith, evVars, Ended
  <1>15. CASE SeeError
    BY <1>15, QuietStep DEF SeeError, Skip, SkipWith, evVars, Ended
  <1>16. CASE UserAbort
    BY <1>16, QuietStep DEF UserAbort, evVars, Ended
  <1>17. CASE NextFile
    BY <1>17, QuietStep DEF NextFile, evVars, Ended
  <1>18. CASE FileFailed
    BY <1>18, QuietStep DEF FileFailed, ToEnd, evVars, Ended
  <1>19. CASE RemoveFails
    BY <1>19, QuietStep DEF RemoveFails, ToEnd, evVars, Ended
  <1>20. CASE NoMoreFiles
    BY <1>20, QuietStep DEF NoMoreFiles, ToEnd, evVars, Ended
  <1>21. CASE Join
    BY <1>21, QuietStep DEF Join, evVars, Ended
  <1>22. CASE StartSession
    BY <1>22
      DEF StartSession, evVars, HandInv, QueueType, WorkingInv, EndWaitInv, SessionInv, FreeInv,
          Handover, SlotFree, Ended, JobQueued, JobRunning, Queued
  <1>23. CASE SendChunk
    <2>1. SlotFree
      BY <1>23 DEF SendChunk, HandInv, SessionInv, FreeInv, Ended
    <2>2. queue' = Append(queue, "func") /\ ~HasFunc(queue) /\ queue \in Seq(Job)
      BY <1>23, <2>1, HandoverDef DEF SendChunk, HandInv, QueueType
    <2>3. HasFunc(queue') /\ OneFunc(queue')
      BY <2>2, AppendFunc
    <2>4. ~JobRunning'
      BY <1>23, <2>1, HandoverDef DEF SendChunk, HandInv, JobRunning, evVars
    <2>5. ~SlotFree' /\ DOMAIN slot' = {"flags", "fd", "mem"}
      BY <1>23 DEF SendChunk, SlotFree
    <2>6. QueueType'
      BY <2>2, <2>5, AppendType DEF QueueType, Job
    <2>7. Handover'
      BY <2>3, <2>4, <2>5 DEF Handover, SlotFree, JobQueued, Queued, HasFunc, OneFunc, FuncAt
    <2>8. pc' \in {"close", "copy"} /\ use_async_fd' = 1
      BY <1>23 DEF SendChunk
    <2>9. WorkingInv'
      BY <1>23 DEF SendChunk, HandInv, WorkingInv, evVars
    <2> QED BY <2>6, <2>7, <2>8, <2>9 DEF HandInv, EndWaitInv, SessionInv, FreeInv, Ended
  <1>24. CASE End
    <2>1. SlotFree
      BY <1>24 DEF End, LastPending, SlotFree
    <2> QED BY <1>24, <2>1, EndStep DEF End
  <1>25. CASE EndPending
    <2>1. Received
      BY <1>25 DEF EndPending
    <2> QED
      BY <1>25, <2>1
        DEF EndPending, evVars, HandInv, QueueType, WorkingInv, EndWaitInv, SessionInv, FreeInv,
            Handover, SlotFree, Ended, JobQueued, JobRunning, Queued, Received
  <1>26. CASE EndWait
    <2>1. SlotFree
      BY <1>26, HandoverDef DEF EndWait, HandInv, EndWaitInv, WorkingInv, Received, JobRunning
    <2> QED BY <1>26, <2>1, EndStep DEF EndWait
  <1>27. CASE Quit
    <2>1. queue' = Append(queue, "exit") /\ queue \in Seq(Job) /\ pc \in Ended
      BY <1>27 DEF Quit, HandInv, QueueType, Ended
    <2> QED BY <1>27, <2>1, SendOther DEF Quit, evVars, Job, Ended, HandInv, SessionInv, FreeInv
  <1>28. CASE Receive
    <2>1. queue # << >> /\ queue' = Tail(queue) /\ job' = Head(queue) /\ queue \in Seq(Job)
      BY <1>28 DEF Receive, HandInv, QueueType
    <2>2. OneFunc(queue) /\ ~JobRunning /\ (~SlotFree <=> HasFunc(queue))
      BY <1>28, HandoverDef DEF Receive, HandInv, JobRunning
    <2>3. /\ queue' \in Seq(Job) /\ OneFunc(queue')
          /\ job' = "func" => HasFunc(queue) /\ ~HasFunc(queue')
          /\ job' # "func" => (HasFunc(queue') <=> HasFunc(queue))
      BY <2>1, <2>2, TailFunc
    <2>4. JobRunning' <=> job' = "func"
      BY <1>28 DEF Receive, JobRunning
    <2>5. UNCHANGED <<pc, use_async_fd, slot, event_thread_working>>
      BY <1>28 DEF Receive, copyUnchanged
    <2>6. Handover'
      BY <2>2, <2>3, <2>4, <2>5
        DEF Handover, SlotFree, JobQueued, Queued, HasFunc, OneFunc, FuncAt
    <2>7. QueueType' /\ WorkingInv' /\ SessionInv' /\ FreeInv'
      BY <1>28, <2>3, <2>5
        DEF Receive, HandInv, QueueType, WorkingInv, SessionInv, FreeInv, SlotFree
    <2>8. EndWaitInv'
      <3> SUFFICES ASSUME pc = "endwait" PROVE Received'
        BY <2>5 DEF EndWaitInv
      <3>1. ~HasFunc(queue)
        BY HandoverDef DEF HandInv, EndWaitInv, Received
      <3>2. ~HasFunc(queue') /\ job' # "func"
        BY <2>3, <3>1
      <3> QED BY <3>2 DEF Received, JobQueued, Queued, HasFunc, FuncAt
    <2> QED BY <2>6, <2>7, <2>8 DEF HandInv
  <1>29. CASE Start
    BY <1>29
      DEF Start, copyUnchanged, HandInv, QueueType, WorkingInv, EndWaitInv, SessionInv, FreeInv,
          Handover, SlotFree, Ended, JobQueued, JobRunning, Queued, Received
  <1>30. CASE Write
    BY <1>30
      DEF Write, Enabled, copyUnchanged, HandInv, QueueType, WorkingInv, EndWaitInv, SessionInv,
          FreeInv, Handover, SlotFree, Ended, JobQueued, JobRunning, Queued, Received
  <1>31. CASE WriteFails
    BY <1>31
      DEF WriteFails, Enabled, copyUnchanged, HandInv, QueueType, WorkingInv, EndWaitInv,
          SessionInv, FreeInv, Handover, SlotFree, Ended, JobQueued, JobRunning, Queued, Received
  <1>32. CASE Finish
    <2>1. /\ ev = "wrote" /\ ev' = "ran" /\ UNCHANGED <<pc, use_async_fd, queue, job>>
          /\ UNCHANGED event_thread_working
      BY <1>32 DEF Finish, copyUnchanged
    <2>2. SlotFree' /\ DOMAIN slot' = {"flags", "fd", "mem"}
      BY <1>32 DEF Finish, FlagsAfter, SlotFree, HandInv, QueueType
    <2>3. ~HasFunc(queue) /\ OneFunc(queue)
      BY <2>1, HandoverDef DEF HandInv, WorkingInv, JobRunning
    <2>4. Handover'
      BY <2>1, <2>2, <2>3
        DEF Handover, SlotFree, JobRunning, JobQueued, Queued, HasFunc, OneFunc, FuncAt
    <2> QED BY <2>1, <2>2, <2>4
      DEF HandInv, QueueType, WorkingInv, EndWaitInv, SessionInv, FreeInv, Received, JobQueued,
          Queued
  <1>33. CASE NoJob
    BY <1>33
      DEF NoJob, Enabled, copyUnchanged, HandInv, QueueType, WorkingInv, EndWaitInv, SessionInv,
          FreeInv, Handover, SlotFree, Ended, JobQueued, JobRunning, Queued, Received
  <1>34. CASE Idle
    BY <1>34
      DEF Idle, copyUnchanged, HandInv, QueueType, WorkingInv, EndWaitInv, SessionInv, FreeInv,
          Handover, SlotFree, Ended, JobQueued, JobRunning, Queued, Received
  <1>35. CASE Terminated
    BY <1>35, HandStutter DEF Terminated
  <1> QED
    BY <1>1, <1>2, <1>3, <1>4, <1>5, <1>6, <1>7, <1>8, <1>9, <1>10, <1>11, <1>12, <1>13, <1>14,
       <1>15, <1>16, <1>17, <1>18, <1>19, <1>20, <1>21, <1>22, <1>23, <1>24, <1>25, <1>26, <1>27,
       <1>28, <1>29, <1>30, <1>31, <1>32, <1>33, <1>34, <1>35
      DEF Next, CopyThread, CopyFile, CopyFd, Manager, EventThread

-----------------------------------------------------------------------------
(* The theorem. *)

\* The slot is handed over one job at a time when a job is received before the
\* end of a session is tested (file_copy.h:93, event_threads.c:31).
THEOREM HandedOver == ASSUME Prompt PROVE Spec => []Handover
  <1>1. HandInv /\ [Next]_vars => HandInv'
    BY HandStep, HandStutter
  <1>2. HandInv => Handover
    BY DEF HandInv
  <1> QED BY HandInit, <1>1, <1>2, PTL DEF Spec

-----------------------------------------------------------------------------
(* The files: what closes them.                                            *)
(*                                                                         *)
(* An output is closed by the job of its last chunk, on an error by the    *)
(* job that met it, and by the copy thread when a joined file has all its  *)
(* fragments.  NoEarlyClose and OpenAtEnd follow from where the copy       *)
(* thread is in its task and from which output the slot names.             *)

InFile == {"copy", "send", "joinwait", "close", "abortwait", "unlink", "return"}

\* Where the copy thread is in the task.
PlaceInv ==
    /\ task \in Tasks /\ sess \in Nat /\ fi \in Nat \ {0} /\ n \in Nat /\ pos \in Nat
    /\ sess \in 1 .. Len(task) + 1
    /\ pc \notin Ended => sess \in DOMAIN task
    /\ pc \in InFile \/ (pc = "open" /\ n > 0) => fi \in DOMAIN task[sess].files
    /\ pc \in {"copy", "send"} \/ (pc = "open" /\ fi \in DOMAIN task[sess].files) =>
           n + 1 \in DOMAIN File.parts
    /\ pc \in {"copy", "send"} => pos <= Length
    /\ pc = "send" => pos < Length
    /\ pc = "open" /\ n > 0 => File.kind # "plain"

\* The results of the sessions that ended.
ResultInv == ret \in {0, -1} /\ result \in Seq({0, -1}) /\ Len(result) = sess - 1

\* The event thread closes the slot's file with the chunk it has or will have.
WillClose == IF ev = "wrote" THEN "FCLOSE" \in evflags
                             ELSE "ENABLE" \in slot.flags /\ "FCLOSE" \in slot.flags

\* The slot names an output, and none that comes after the one being written.
SlotPast == slot.fd # None =>
    /\ slot.fd[1] = "w" /\ slot.fd[2] \in Nat /\ slot.fd[3] \in Nat /\ slot.fd[4] \in Nat
    /\ slot.fd[2] <= sess
    /\ pc \in Ended => slot.fd[2] < sess
    /\ pc \notin Ended /\ slot.fd[2] = sess =>
           slot.fd[3] <= fi /\ (slot.fd[3] = fi => slot.fd[4] <= n)
    /\ pc = "open" /\ n = 0 /\ slot.fd[2] = sess => slot.fd[3] < fi
    /\ pc = "open" /\ n > 0 /\ slot.fd[2] = sess /\ slot.fd[3] = fi /\ slot.fd[4] = n =>
           File.kind = "joined"

\* More chunks may go to the output.
Writing == \/ pc = "send"
           \/ pc = "copy" /\ (pos < Length \/ File.kind = "joined")
           \/ pc = "open" /\ n > 0 /\ File.kind = "joined"
\* The next chunk will not be sent.
SlotBroken == use_async_fd = 1 /\ "ERROR" \in slot.flags

\* The event thread's copy of the flags keeps an error.
ErrorKept == ev = "wrote" /\ "ERROR" \in slot.flags => "ERROR" \in evflags

\* While more chunks may go to an output it is open, or an error will be seen
\* before the next one is sent.
OutputOpen == Writing => Dst \in fds \/ SlotBroken

\* The job that closes an output has its last chunk.
LastIsLast == Writing /\ WillClose => slot.fd # Dst

\* The only source open is that of the file being copied.
SourceInv == \A d \in fds : d[1] # "w" =>
    d = Src /\ pc \in {"open", "copy", "send", "close"} /\ (pc = "open" => n > 0)

\* An output that is open is one that nothing closes, or its session failed, or
\* a job will close it, or more chunks will be sent to it.
Excused(d) == \/ task[d[2]].files[d[3]].parts = <<0>>
              \/ task[d[2]].files[d[3]].kind = "joined"
Doomed(d)  == IF d[2] < sess THEN result[d[2]] < 0 ELSE ret < 0
Closing(d) == slot.fd = d /\ WillClose
Current(d) == d = Dst /\ pc \in {"copy", "send"} /\ pos < Length
Accounted(d) ==
    /\ d[2] \in 1 .. sess
    /\ pc \in Ended => d[2] < sess
    /\ Excused(d) \/ Doomed(d) \/ Closing(d) \/ Current(d)
OutputInv == \A d \in fds : d[1] = "w" => Accounted(d)

CopyInv == /\ HandInv /\ PlaceInv /\ ResultInv /\ SlotPast /\ LastIsLast /\ ErrorKept
           /\ OutputOpen /\ SourceInv /\ OutputInv /\ NoEarlyClose

\* What these need to know of the hand-over.
HandFacts ==
    /\ DOMAIN slot = {"flags", "fd", "mem"}
    /\ ev = "wrote" => job = "func" /\ ~SlotFree
    /\ pc \in Ended \/ use_async_fd = 128 => SlotFree
    /\ pc \notin Ended => use_async_fd \in {1, 128}
    /\ pc = "endwait" /\ ~event_thread_working => SlotFree

-----------------------------------------------------------------------------
(* The types. *)

ControlType ==
    /\ pc \in {"idle", "open", "copy", "send", "joinwait", "close", "abortwait", "unlink", "return",
              "end", "endwait", "joining", "over"}
    /\ use_async_fd \in {0, 1, 128}
    /\ ev \in {"receive", "got", "run", "wrote", "ran", "exit"} /\ job \in Job
    /\ queue \in Seq(Job)

\* The Boolean variables.
SwitchType == aborted \in BOOLEAN /\ event_thread_working \in BOOLEAN

SlotType == /\ slot \in [flags : SUBSET Flags, fd : Descriptor \cup {None},
                         mem : (Nat \X Nat) \cup {None}]
            /\ evflags \in SUBSET Flags

FilesType == /\ fds \in SUBSET Descriptor /\ unlinked \in SUBSET Descriptor
             /\ removed \in SUBSET (Nat \X Nat \X Nat)

\* Each file has a list of outputs, and each output the chunks written to it.
Outputs == Seq(Seq(Nat \X Nat))
DiskType == /\ DOMAIN disk = DOMAIN task
            /\ \A s \in DOMAIN task : /\ DOMAIN disk[s] = DOMAIN task[s].files
                                      /\ \A f \in DOMAIN task[s].files : disk[s][f] \in Outputs

TypeInv == ControlType /\ SwitchType /\ SlotType /\ FilesType /\ DiskType

\* What a task and its files are.
LEMMA TaskFacts ==
    ASSUME NEW t \in Tasks
    PROVE  /\ DOMAIN t = 1 .. Len(t) /\ Len(t) \in Nat
           /\ \A s \in DOMAIN t : t[s].op \in {"copy", "move"}
           /\ \A s \in DOMAIN t : \A f \in DOMAIN t[s].files : f \in Nat \ {0}
           /\ \A s \in DOMAIN t : \A f \in DOMAIN t[s].files :
                LET file == t[s].files[f] IN
                /\ file.kind \in {"plain", "joined", "split"}
                /\ DOMAIN file.parts = 1 .. Len(file.parts) /\ Len(file.parts) \in Nat
                /\ Len(file.parts) >= 1
                /\ \A p \in DOMAIN file.parts : file.parts[p] \in Nat
                /\ file.kind = "plain" => Len(file.parts) = 1
                /\ file.kind # "plain" => \A p \in DOMAIN file.parts : file.parts[p] > 0
                /\ file.kind = "joined" => Len(file.parts) <= MAX_FRAGS
  <1>1. t \in Seq(Session)
    BY TasksAssumption
  <1>2. DOMAIN t = 1 .. Len(t) /\ Len(t) \in Nat
    BY <1>1
  <1>3. ASSUME NEW s \in DOMAIN t PROVE t[s].op \in {"copy", "move"} /\ t[s].files \in Seq(FileKind)
    <2>1. t[s] \in Session
      BY <1>1, <1>3
    <2> QED
      BY <2>1 DEF Session
  <1>4. ASSUME NEW s \in DOMAIN t, NEW f \in DOMAIN t[s].files
        PROVE  f \in Nat \ {0} /\ t[s].files[f] \in FileKind
    BY <1>3
  <1>5. ASSUME NEW s \in DOMAIN t, NEW f \in DOMAIN t[s].files
        PROVE  /\ t[s].files[f].kind \in {"plain", "joined", "split"}
               /\ t[s].files[f].parts \in Seq(Nat)
    BY <1>4 DEF FileKind
  <1> QED
    BY <1>2, <1>3, <1>4, <1>5, PartsAssumption, SMTT(40)

\* What the hand-over gives to the proofs about the files.
LEMMA FromHand == HandInv => HandFacts
  <1> SUFFICES ASSUME HandInv PROVE HandFacts
    OBVIOUS
  <1>1. DOMAIN slot = {"flags", "fd", "mem"}
    BY DEF HandInv, QueueType
  <1>2. ev = "wrote" => job = "func" /\ ~SlotFree
    BY HandoverDef DEF HandInv, WorkingInv, JobRunning
  <1>3. pc = "endwait" /\ ~event_thread_working => SlotFree
    BY HandoverDef DEF HandInv, EndWaitInv, WorkingInv, Received, JobRunning
  <1> QED
    BY <1>1, <1>2, <1>3 DEF HandInv, HandFacts, SessionInv, FreeInv

\* The event thread leaves the place of the copy thread alone.
LEMMA EventUnchanged ==
    ASSUME EventThread \/ Terminated
    PROVE  UNCHANGED <<task, sess, fi, n, pos, pc, ret, aborted, use_async_fd, result, unlinked,
                       removed>>
  BY DEF EventThread, Receive, Start, Write, WriteFails, Finish, NoJob, Idle, Terminated,
         copyUnchanged, placeVars, outVars, vars

\* What the event thread leaves alone outside a write.
LEMMA EventFrame ==
    ASSUME Receive \/ Start \/ NoJob \/ Idle \/ Terminated
    PROVE  /\ UNCHANGED <<task, sess, fi, n, pos, pc, ret, aborted, use_async_fd, slot, result,
                          evflags, fds, outVars>>
           /\ ev' = "wrote" <=> ev = "wrote"
  BY DEF Receive, Start, NoJob, Idle, Terminated, copyUnchanged, placeVars, evVars, outVars, vars

\* A write, or one that fails, takes the chunk from the slot.
LEMMA WriteFrame ==
    ASSUME HandFacts, Write \/ WriteFails
    PROVE  /\ UNCHANGED <<task, sess, fi, n, pos, pc, ret, aborted, use_async_fd, result, fds>>
           /\ DOMAIN slot' = DOMAIN slot /\ slot'.fd = slot.fd /\ slot'.flags = slot.flags
           /\ ev # "wrote" /\ ev' = "wrote" /\ "ENABLE" \in slot.flags
           /\ "FCLOSE" \in evflags' <=> "FCLOSE" \in slot.flags
           /\ "ERROR" \in slot.flags => "ERROR" \in evflags'
  BY DEF Write, WriteFails, Enabled, copyUnchanged, placeVars, HandFacts

\* The end of a job frees the slot and may close its file.
LEMMA FinishFrame ==
    ASSUME HandFacts, Finish
    PROVE  /\ UNCHANGED <<task, sess, fi, n, pos, pc, ret, aborted, use_async_fd, result>>
           /\ DOMAIN slot' = DOMAIN slot /\ slot'.fd = slot.fd
           /\ slot'.flags = evflags \ {"ENABLE"}
           /\ ev = "wrote" /\ ev' = "ran"
           /\ fds' = IF Closes(evflags) THEN fds \ {slot.fd} ELSE fds
  BY DEF Finish, FlagsAfter, copyUnchanged, placeVars, HandFacts

\* A list of which one element changes stays a list.
LEMMA PutIn ==
    ASSUME NEW S, NEW q \in Seq(S), NEW k, NEW x, k \in DOMAIN q => x \in S
    PROVE  [q EXCEPT ![k] = x] \in Seq(S)
  <1> DEFINE r == [q EXCEPT ![k] = x]
  <1>1. DOMAIN r = 1 .. Len(q) /\ Len(q) \in Nat
    OBVIOUS
  <1>2. \A i \in 1 .. Len(q) : r[i] \in S
    OBVIOUS
  <1>3. r = [i \in 1 .. Len(q) |-> r[i]]
    OBVIOUS
  <1> HIDE DEF r
  <1>4. r \in [1 .. Len(q) -> S]
    BY <1>2, <1>3
  <1>5. r \in Seq(S)
    BY <1>1, <1>4
  <1> QED
    BY <1>5 DEF r

\* New outputs of one file leave the disk well typed.
LEMMA DiskPut ==
    ASSUME DiskType, NEW s \in DOMAIN task, NEW f \in DOMAIN task[s].files, NEW q \in Outputs,
           task' = task, disk' = [disk EXCEPT ![s][f] = q]
    PROVE  DiskType'
  <1>1. DOMAIN disk' = DOMAIN task /\ \A t \in DOMAIN task : DOMAIN disk'[t] = DOMAIN disk[t]
    BY DEF DiskType
  <1>2. ASSUME NEW t \in DOMAIN task, NEW g \in DOMAIN task[t].files
        PROVE  disk'[t][g] \in Outputs
    BY <1>2 DEF DiskType
  <1> QED
    BY <1>1, <1>2 DEF DiskType

\* A chunk at the end of an output, if there is such an output, leaves the disk well typed.
LEMMA DiskAppend ==
    ASSUME DiskType, NEW a, NEW b, NEW c, NEW m \in Nat \X Nat,
           task' = task, disk' = [disk EXCEPT ![a][b][c] = Append(@, m)]
    PROVE  DiskType'
  <1> DEFINE Added(q) == [q EXCEPT ![c] = Append(@, m)]
  <1>1. disk' = [disk EXCEPT ![a] = [disk[a] EXCEPT ![b] = Added(disk[a][b])]]
    OBVIOUS
  <1>2. \A q \in Outputs : Added(q) \in Outputs
    <2> SUFFICES ASSUME NEW q \in Outputs PROVE Added(q) \in Outputs
      OBVIOUS
    <2>1. c \in DOMAIN q => Append(q[c], m) \in Seq(Nat \X Nat)
      BY DEF Outputs
    <2> QED
      BY <2>1, PutIn DEF Outputs
  <1> HIDE DEF Added
  <1>3. CASE a \in DOMAIN task /\ b \in DOMAIN task[a].files
    <2>1. PICK q \in Outputs : disk' = [disk EXCEPT ![a][b] = q]
      BY <1>1, <1>2, <1>3 DEF DiskType
    <2> QED
      BY <1>3, <2>1, DiskPut, ZenonT(60)
  <1>4. CASE a \in DOMAIN task /\ b \notin DOMAIN task[a].files
    BY <1>1, <1>4 DEF DiskType
  <1>5. CASE a \notin DOMAIN task
    BY <1>1, <1>5 DEF DiskType
  <1> QED
    BY <1>3, <1>4, <1>5

-----------------------------------------------------------------------------
(* Each part of the invariant is kept. *)

\* The copy thread stays in its task.
LEMMA PlaceStep ==
    ASSUME PlaceInv, Next
    PROVE  PlaceInv'
  <1>1. CASE StartSession
    BY <1>1, TaskFacts DEF StartSession, evVars, outVars, PlaceInv, Ended, InFile, File, Length
  <1>2. CASE OpenFile
    BY <1>2, TaskFacts, SMTT(40)
      DEF OpenFile, Opening, NewOutput, Src, Dst, Created, evVars, File, piece, PlaceInv, Ended,
          InFile, Length
  <1>3. CASE StatFails
    BY <1>3 DEF StatFails, Opening, SkipWith, placeVars, evVars, PlaceInv, Ended, InFile
  <1>4. CASE OpenReadFails
    BY <1>4 DEF OpenReadFails, Opening, Skip, SkipWith, placeVars, evVars, PlaceInv, Ended, InFile
  <1>5. CASE OpenWriteFails
    BY <1>5
      DEF OpenWriteFails, Opening, Skip, SkipWith, placeVars, evVars, PlaceInv, Ended, InFile
  <1>6. CASE MemFails
    BY <1>6 DEF MemFails, Opening, Skip, SkipWith, placeVars, evVars, PlaceInv, Ended, InFile
  <1>7. CASE NextPart
    BY <1>7, TaskFacts
      DEF NextPart, Copied, File, HasMore, Src, evVars, outVars, Length, PlaceInv, Ended, InFile
  <1>8. CASE LastPart
    BY <1>8 DEF LastPart, Copied, placeVars, evVars, outVars, PlaceInv, Ended, InFile
  <1>9. CASE LastFragment
    BY <1>9 DEF LastFragment, Copied, evVars, outVars, PlaceInv, Ended, InFile
  <1>10. CASE JoinWait
    BY <1>10 DEF JoinWait, placeVars, evVars, outVars, PlaceInv, SlotFree, Ended, InFile
  <1>11. CASE CloseSource
    BY <1>11 DEF CloseSource, placeVars, evVars, outVars, PlaceInv, SlotFree, Ended, InFile
  <1>12. CASE AbortWait
    BY <1>12 DEF AbortWait, placeVars, evVars, outVars, PlaceInv, Ended, InFile
  <1>13. CASE UnlinkOutput
    BY <1>13 DEF UnlinkOutput, placeVars, evVars, PlaceInv, Ended, InFile
  <1>14. CASE ReadChunk
    BY <1>14
      DEF ReadChunk, Copying, placeVars, evVars, outVars, PlaceInv, Length, File, Ended, InFile
  <1>15. CASE ReadFails
    BY <1>15 DEF ReadFails, Copying, Skip, SkipWith, placeVars, evVars, PlaceInv, Ended, InFile
  <1>16. CASE SendChunk
    <2>1. pc = "send" /\ pos' = pos + 1 /\ UNCHANGED <<task, sess, fi, n>>
      BY <1>16 DEF SendChunk, Advance
    <2>2. pc' \in {"close", "copy"}
      BY <1>16 DEF SendChunk
    <2>3. /\ sess \in DOMAIN task /\ fi \in DOMAIN task[sess].files
          /\ n + 1 \in DOMAIN File.parts /\ pos < Length /\ pos \in Nat /\ task \in Tasks
      BY <2>1 DEF PlaceInv, InFile, Ended
    <2>4. Length \in Nat
      BY <2>3, TaskFacts DEF Length, File
    <2>5. pos + 1 \in Nat /\ pos + 1 <= Length
      BY <2>3, <2>4
    <2>6. Length' = Length /\ File' = File
      BY <2>1 DEF Length, File
    <2> QED
      BY <2>1, <2>2, <2>3, <2>5, <2>6 DEF PlaceInv, InFile, Ended
  <1>17. CASE SeeError
    BY <1>17 DEF SeeError, Skip, SkipWith, placeVars, evVars, PlaceInv, SlotFree, Ended, InFile
  <1>18. CASE UserAbort
    BY <1>18 DEF UserAbort, placeVars, evVars, outVars, PlaceInv, Length, File, Ended, InFile
  <1>19. CASE NextFile
    BY <1>19, TaskFacts, SMTT(40)
      DEF NextFile, MayRemove, PathExists, PathPart, evVars, File, PlaceInv, Ended, InFile,
          Length
  <1>20. CASE FileFailed
    BY <1>20 DEF FileFailed, ToEnd, placeVars, evVars, outVars, PlaceInv, Ended, InFile
  <1>21. CASE RemoveFails
    BY <1>21 DEF RemoveFails, ToEnd, placeVars, evVars, outVars, PlaceInv, Ended, InFile
  <1>22. CASE NoMoreFiles
    BY <1>22 DEF NoMoreFiles, ToEnd, placeVars, evVars, outVars, PlaceInv, Ended, InFile
  <1>23. CASE End
    BY <1>23 DEF End, EndSession, evVars, outVars, PlaceInv, Ended, InFile
  <1>24. CASE EndPending
    BY <1>24 DEF EndPending, placeVars, evVars, outVars, PlaceInv, Ended, InFile
  <1>25. CASE EndWait
    BY <1>25 DEF EndWait, EndSession, evVars, outVars, PlaceInv, Ended, InFile
  <1>26. CASE Quit
    BY <1>26 DEF Quit, placeVars, evVars, outVars, PlaceInv, Ended, InFile
  <1>27. CASE Join
    BY <1>27 DEF Join, placeVars, evVars, outVars, PlaceInv, Ended, InFile
  <1>28. CASE EventThread \/ Terminated
    BY <1>28, EventUnchanged DEF PlaceInv, Ended, InFile, File, Length
  <1> QED
    BY <1>1, <1>2, <1>3, <1>4, <1>5, <1>6, <1>7, <1>8, <1>9, <1>10, <1>11, <1>12, <1>13, <1>14,
       <1>15, <1>16, <1>17, <1>18, <1>19, <1>20, <1>21, <1>22, <1>23, <1>24, <1>25, <1>26, <1>27,
       <1>28
      DEF Next, CopyThread, CopyFile, CopyFd, Manager

\* Every session that ends adds its result.
LEMMA ResultStep ==
    ASSUME PlaceInv, ResultInv, Next
    PROVE  ResultInv'
  <1>1. CASE StartSession
    BY <1>1 DEF StartSession, evVars, outVars, ResultInv
  <1>2. CASE OpenFile
    BY <1>2 DEF OpenFile, Opening, evVars, ResultInv
  <1>3. CASE StatFails
    BY <1>3 DEF StatFails, Opening, SkipWith, placeVars, evVars, ResultInv
  <1>4. CASE OpenReadFails
    BY <1>4 DEF OpenReadFails, Opening, Skip, SkipWith, placeVars, evVars, ResultInv
  <1>5. CASE OpenWriteFails
    BY <1>5 DEF OpenWriteFails, Opening, Skip, SkipWith, placeVars, evVars, ResultInv
  <1>6. CASE MemFails
    BY <1>6 DEF MemFails, Opening, Skip, SkipWith, placeVars, evVars, ResultInv
  <1>7. CASE NextPart
    BY <1>7 DEF NextPart, Copied, evVars, outVars, ResultInv
  <1>8. CASE LastPart
    BY <1>8 DEF LastPart, Copied, placeVars, evVars, outVars, ResultInv
  <1>9. CASE LastFragment
    BY <1>9 DEF LastFragment, Copied, evVars, outVars, ResultInv
  <1>10. CASE JoinWait
    BY <1>10 DEF JoinWait, placeVars, evVars, outVars, ResultInv
  <1>11. CASE CloseSource
    BY <1>11 DEF CloseSource, placeVars, evVars, outVars, ResultInv
  <1>12. CASE AbortWait
    BY <1>12 DEF AbortWait, placeVars, evVars, outVars, ResultInv
  <1>13. CASE UnlinkOutput
    BY <1>13 DEF UnlinkOutput, placeVars, evVars, ResultInv
  <1>14. CASE ReadChunk
    BY <1>14 DEF ReadChunk, Copying, placeVars, evVars, outVars, ResultInv
  <1>15. CASE ReadFails
    BY <1>15 DEF ReadFails, Copying, Skip, SkipWith, placeVars, evVars, ResultInv
  <1>16. CASE SendChunk
    BY <1>16 DEF SendChunk, Advance, evVars, outVars, ResultInv
  <1>17. CASE SeeError
    BY <1>17 DEF SeeError, Skip, SkipWith, placeVars, evVars, ResultInv
  <1>18. CASE UserAbort
    BY <1>18 DEF UserAbort, placeVars, evVars, outVars, ResultInv
  <1>19. CASE NextFile
    BY <1>19 DEF NextFile, evVars, ResultInv
  <1>20. CASE FileFailed
    BY <1>20 DEF FileFailed, ToEnd, placeVars, evVars, outVars, ResultInv
  <1>21. CASE RemoveFails
    BY <1>21 DEF RemoveFails, ToEnd, placeVars, evVars, outVars, ResultInv
  <1>22. CASE NoMoreFiles
    BY <1>22 DEF NoMoreFiles, ToEnd, placeVars, evVars, outVars, ResultInv
  <1>23. CASE End
    BY <1>23 DEF End, EndSession, evVars, outVars, PlaceInv, ResultInv, Ended, InFile
  <1>24. CASE EndPending
    BY <1>24 DEF EndPending, placeVars, evVars, outVars, ResultInv
  <1>25. CASE EndWait
    BY <1>25 DEF EndWait, EndSession, evVars, outVars, PlaceInv, ResultInv, Ended, InFile
  <1>26. CASE Quit
    BY <1>26 DEF Quit, placeVars, evVars, outVars, ResultInv
  <1>27. CASE Join
    BY <1>27 DEF Join, placeVars, evVars, outVars, ResultInv
  <1>28. CASE EventThread \/ Terminated
    BY <1>28, EventUnchanged DEF ResultInv
  <1> QED
    BY <1>1, <1>2, <1>3, <1>4, <1>5, <1>6, <1>7, <1>8, <1>9, <1>10, <1>11, <1>12, <1>13, <1>14,
       <1>15, <1>16, <1>17, <1>18, <1>19, <1>20, <1>21, <1>22, <1>23, <1>24, <1>25, <1>26, <1>27,
       <1>28
      DEF Next, CopyThread, CopyFile, CopyFd, Manager

\* The slot never names an output that comes later.
LEMMA PastStep ==
    ASSUME PlaceInv, HandFacts, SlotPast, Next
    PROVE  SlotPast'
  <1>1. CASE StartSession
    BY <1>1 DEF StartSession, SlotPast, Ended
  <1>2. CASE OpenFile
    BY <1>2 DEF OpenFile, SlotPast, Ended
  <1>3. CASE StatFails
    BY <1>3 DEF StatFails, SkipWith, placeVars, SlotPast, Ended
  <1>4. CASE OpenReadFails
    BY <1>4 DEF OpenReadFails, Skip, SkipWith, placeVars, SlotPast, Ended
  <1>5. CASE OpenWriteFails
    BY <1>5 DEF OpenWriteFails, Skip, SkipWith, placeVars, SlotPast, Ended
  <1>6. CASE MemFails
    BY <1>6 DEF MemFails, Skip, SkipWith, placeVars, SlotPast, Ended
  <1>7. CASE NextPart
    BY <1>7 DEF NextPart, PlaceInv, SlotPast, Ended
  <1>8. CASE LastPart
    BY <1>8 DEF LastPart, placeVars, SlotPast, Ended
  <1>9. CASE LastFragment
    BY <1>9 DEF LastFragment, Copied, PlaceInv, HandFacts, SlotPast, Ended
  <1>10. CASE JoinWait
    BY <1>10 DEF JoinWait, placeVars, SlotPast, Ended
  <1>11. CASE CloseSource
    BY <1>11 DEF CloseSource, placeVars, SlotPast, Ended
  <1>12. CASE AbortWait
    BY <1>12 DEF AbortWait, placeVars, SlotPast, Ended
  <1>13. CASE UnlinkOutput
    BY <1>13 DEF UnlinkOutput, placeVars, SlotPast, Ended
  <1>14. CASE ReadChunk
    BY <1>14 DEF ReadChunk, placeVars, SlotPast, Ended
  <1>15. CASE ReadFails
    BY <1>15 DEF ReadFails, Skip, SkipWith, placeVars, SlotPast, Ended
  <1>16. CASE SendChunk
    BY <1>16 DEF SendChunk, PlaceInv, HandFacts, SlotPast, Dst, piece, Ended
  <1>17. CASE SeeError
    BY <1>17 DEF SeeError, Skip, SkipWith, placeVars, SlotPast, Ended
  <1>18. CASE UserAbort
    BY <1>18 DEF UserAbort, placeVars, SlotPast
  <1>19. CASE NextFile
    BY <1>19 DEF NextFile, PlaceInv, SlotPast, Ended
  <1>20. CASE FileFailed
    BY <1>20 DEF FileFailed, ToEnd, placeVars, SlotPast, Ended
  <1>21. CASE RemoveFails
    BY <1>21 DEF RemoveFails, ToEnd, placeVars, SlotPast, Ended
  <1>22. CASE NoMoreFiles
    BY <1>22 DEF NoMoreFiles, ToEnd, placeVars, SlotPast, Ended
  <1>23. CASE End
    BY <1>23 DEF End, EndSession, PlaceInv, SlotPast
  <1>24. CASE EndPending
    BY <1>24 DEF EndPending, placeVars, SlotPast, Ended
  <1>25. CASE EndWait
    BY <1>25 DEF EndWait, EndSession, PlaceInv, SlotPast, Ended
  <1>26. CASE Quit
    BY <1>26 DEF Quit, placeVars, SlotPast, Ended
  <1>27. CASE Join
    BY <1>27 DEF Join, placeVars, SlotPast, Ended
  <1>28. CASE Write \/ WriteFails
    BY <1>28, WriteFrame DEF SlotPast, File
  <1>29. CASE Finish
    BY <1>29, FinishFrame DEF SlotPast, File
  <1>30. CASE Receive \/ Start \/ NoJob \/ Idle \/ Terminated
    BY <1>30, EventFrame DEF SlotPast, File
  <1> QED
    BY <1>1, <1>2, <1>3, <1>4, <1>5, <1>6, <1>7, <1>8, <1>9, <1>10, <1>11, <1>12, <1>13, <1>14,
       <1>15, <1>16, <1>17, <1>18, <1>19, <1>20, <1>21, <1>22, <1>23, <1>24, <1>25, <1>26, <1>27,
       <1>28, <1>29, <1>30
      DEF Next, CopyThread, CopyFile, CopyFd, Manager, EventThread

\* The last chunk of an output is sent last.
LEMMA LastStep ==
    ASSUME PlaceInv, HandFacts, SlotPast, LastIsLast, Next
    PROVE  LastIsLast'
  <1>1. CASE StartSession
    BY <1>1
      DEF StartSession, evVars, outVars, PlaceInv, HandFacts, SlotPast, LastIsLast, Ended, InFile,
          File, Length, SlotFree, None, Writing, WillClose, Dst, piece
  <1>2. CASE OpenFile
    BY <1>2, TaskFacts, SMTT(40)
      DEF OpenFile, Opening, NewOutput, Src, Dst, Created, evVars, File, piece, PlaceInv,
          HandFacts, SlotPast, LastIsLast, Ended, InFile, Length, SlotFree, None, Writing,
          WillClose
  <1>3. CASE StatFails
    BY <1>3
      DEF StatFails, Opening, SkipWith, placeVars, evVars, PlaceInv, HandFacts, SlotPast,
          LastIsLast, File, Ended, InFile, Length, SlotFree, None, Writing, WillClose, Dst, piece
  <1>4. CASE OpenReadFails
    BY <1>4
      DEF OpenReadFails, Opening, Skip, SkipWith, placeVars, evVars, PlaceInv, HandFacts,
          SlotPast, LastIsLast, File, Ended, InFile, Length, SlotFree, None, Writing, WillClose,
          Dst, piece
  <1>5. CASE OpenWriteFails
    BY <1>5
      DEF OpenWriteFails, Opening, Skip, SkipWith, placeVars, evVars, PlaceInv, HandFacts,
          SlotPast, LastIsLast, Src, File, Ended, InFile, Length, SlotFree, None, Writing,
          WillClose, Dst, piece
  <1>6. CASE MemFails
    BY <1>6
      DEF MemFails, Opening, Skip, SkipWith, placeVars, evVars, PlaceInv, HandFacts, SlotPast,
          LastIsLast, File, Src, Dst, piece, Ended, InFile, Length, SlotFree, None, Writing,
          WillClose
  <1>7. CASE NextPart
    BY <1>7
      DEF NextPart, Copied, evVars, outVars, PlaceInv, HandFacts, SlotPast, LastIsLast, File, Src,
          Length, Ended, InFile, SlotFree, None, Writing, WillClose, Dst, piece
  <1>8. CASE LastPart
    BY <1>8
      DEF LastPart, Copied, placeVars, evVars, outVars, PlaceInv, HandFacts, SlotPast, LastIsLast,
          File, Length, Ended, InFile, SlotFree, None, Writing, WillClose, Dst, piece
  <1>9. CASE LastFragment
    BY <1>9
      DEF LastFragment, Copied, evVars, outVars, PlaceInv, HandFacts, SlotPast, LastIsLast, File,
          Src, Length, Ended, InFile, SlotFree, None, Writing, WillClose, Dst, piece
  <1>10. CASE JoinWait
    BY <1>10
      DEF JoinWait, placeVars, evVars, outVars, PlaceInv, HandFacts, SlotPast, LastIsLast,
          SlotFree, Dst, piece, File, Ended, InFile, Length, None, Writing, WillClose
  <1>11. CASE CloseSource
    BY <1>11
      DEF CloseSource, placeVars, evVars, outVars, PlaceInv, HandFacts, SlotPast, LastIsLast, Src,
          SlotFree, Ended, InFile, File, Length, None, Writing, WillClose, Dst, piece
  <1>12. CASE AbortWait
    BY <1>12
      DEF AbortWait, placeVars, evVars, outVars, PlaceInv, HandFacts, SlotPast, LastIsLast, Ended,
          InFile, File, Length, SlotFree, None, Writing, WillClose, Dst, piece
  <1>13. CASE UnlinkOutput
    BY <1>13
      DEF UnlinkOutput, placeVars, evVars, PlaceInv, HandFacts, SlotPast, LastIsLast, piece, Dst,
          File, Ended, InFile, Length, SlotFree, None, Writing, WillClose
  <1>14. CASE ReadChunk
    BY <1>14
      DEF ReadChunk, Copying, placeVars, evVars, outVars, PlaceInv, HandFacts, SlotPast,
          LastIsLast, Length, File, Ended, InFile, SlotFree, None, Writing, WillClose, Dst, piece
  <1>15. CASE ReadFails
    BY <1>15
      DEF ReadFails, Copying, Skip, SkipWith, placeVars, evVars, PlaceInv, HandFacts, SlotPast,
          LastIsLast, Length, File, Ended, InFile, SlotFree, None, Writing, WillClose, Dst, piece
  <1>16. CASE SendChunk
    BY <1>16, TaskFacts, SMTT(40)
      DEF SendChunk, SlotFree, SlotError, None, LastChunk, Dst, Advance, evVars, outVars, Length,
          File, piece, PlaceInv, HandFacts, SlotPast, LastIsLast, Ended, InFile, Writing,
          WillClose
  <1>17. CASE SeeError
    BY <1>17
      DEF SeeError, Skip, SkipWith, placeVars, evVars, PlaceInv, HandFacts, SlotPast, LastIsLast,
          SlotFree, Ended, InFile, File, Length, None, Writing, WillClose, Dst, piece
  <1>18. CASE UserAbort
    BY <1>18
      DEF UserAbort, placeVars, evVars, outVars, PlaceInv, HandFacts, SlotPast, LastIsLast,
          Length, File, Ended, InFile, SlotFree, None, Writing, WillClose, Dst, piece
  <1>19. CASE NextFile
    BY <1>19
      DEF NextFile, evVars, PlaceInv, HandFacts, SlotPast, LastIsLast, File, Ended, InFile,
          Length, SlotFree, None, Writing, WillClose, Dst, piece
  <1>20. CASE FileFailed
    BY <1>20
      DEF FileFailed, ToEnd, placeVars, evVars, outVars, PlaceInv, HandFacts, SlotPast,
          LastIsLast, Ended, InFile, File, Length, SlotFree, None, Writing, WillClose, Dst, piece
  <1>21. CASE RemoveFails
    BY <1>21
      DEF RemoveFails, ToEnd, placeVars, evVars, outVars, PlaceInv, HandFacts, SlotPast,
          LastIsLast, File, Ended, InFile, Length, SlotFree, None, Writing, WillClose, Dst, piece
  <1>22. CASE NoMoreFiles
    BY <1>22
      DEF NoMoreFiles, ToEnd, placeVars, evVars, outVars, PlaceInv, HandFacts, SlotPast,
          LastIsLast, Ended, InFile, File, Length, SlotFree, None, Writing, WillClose, Dst, piece
  <1>23. CASE End
    BY <1>23
      DEF End, EndSession, evVars, outVars, PlaceInv, HandFacts, SlotPast, LastIsLast, Ended,
          InFile, File, Length, SlotFree, None, Writing, WillClose, Dst, piece
  <1>24. CASE EndPending
    BY <1>24
      DEF EndPending, placeVars, evVars, outVars, PlaceInv, HandFacts, SlotPast, LastIsLast,
          Ended, InFile, File, Length, SlotFree, None, Writing, WillClose, Dst, piece
  <1>25. CASE EndWait
    BY <1>25
      DEF EndWait, EndSession, evVars, outVars, PlaceInv, HandFacts, SlotPast, LastIsLast, Ended,
          InFile, File, Length, SlotFree, None, Writing, WillClose, Dst, piece
  <1>26. CASE Quit
    BY <1>26
      DEF Quit, placeVars, evVars, outVars, PlaceInv, HandFacts, SlotPast, LastIsLast, Ended,
          InFile, File, Length, SlotFree, None, Writing, WillClose, Dst, piece
  <1>27. CASE Join
    BY <1>27
      DEF Join, placeVars, evVars, outVars, PlaceInv, HandFacts, SlotPast, LastIsLast, Ended,
          InFile, File, Length, SlotFree, None, Writing, WillClose, Dst, piece
  <1>28. CASE Write \/ WriteFails
    BY <1>28, WriteFrame
      DEF PlaceInv, HandFacts, SlotPast, LastIsLast, Ended, InFile, File, Length, SlotFree, None,
          Writing, WillClose, Dst, piece
  <1>29. CASE Finish
    BY <1>29, FinishFrame
      DEF PlaceInv, HandFacts, SlotPast, LastIsLast, Ended, InFile, File, Length, SlotFree, None,
          Writing, WillClose, Dst, piece
  <1>30. CASE Receive \/ Start \/ NoJob \/ Idle \/ Terminated
    BY <1>30, EventFrame
      DEF PlaceInv, HandFacts, SlotPast, LastIsLast, outVars, Ended, InFile, File, Length,
          SlotFree, None, Writing, WillClose, Dst, piece
  <1> QED
    BY <1>1, <1>2, <1>3, <1>4, <1>5, <1>6, <1>7, <1>8, <1>9, <1>10, <1>11, <1>12, <1>13, <1>14,
       <1>15, <1>16, <1>17, <1>18, <1>19, <1>20, <1>21, <1>22, <1>23, <1>24, <1>25, <1>26, <1>27,
       <1>28, <1>29, <1>30
      DEF Next, CopyThread, CopyFile, CopyFd, Manager, EventThread

\* An error in the slot is in the event thread's copy of the flags.
LEMMA KeptStep ==
    ASSUME HandFacts, ErrorKept, Next
    PROVE  ErrorKept'
  <1>1. CASE StartSession
    BY <1>1 DEF StartSession, evVars, ErrorKept
  <1>2. CASE OpenFile
    BY <1>2 DEF OpenFile, evVars, ErrorKept
  <1>3. CASE StatFails
    BY <1>3 DEF StatFails, SkipWith, evVars, ErrorKept
  <1>4. CASE OpenReadFails
    BY <1>4 DEF OpenReadFails, Skip, SkipWith, evVars, ErrorKept
  <1>5. CASE OpenWriteFails
    BY <1>5 DEF OpenWriteFails, Skip, SkipWith, evVars, ErrorKept
  <1>6. CASE MemFails
    BY <1>6 DEF MemFails, Skip, SkipWith, evVars, ErrorKept
  <1>7. CASE NextPart
    BY <1>7 DEF NextPart, evVars, ErrorKept
  <1>8. CASE LastPart
    BY <1>8 DEF LastPart, evVars, ErrorKept
  <1>9. CASE LastFragment
    BY <1>9 DEF LastFragment, evVars, ErrorKept
  <1>10. CASE JoinWait
    BY <1>10 DEF JoinWait, evVars, ErrorKept
  <1>11. CASE CloseSource
    BY <1>11 DEF CloseSource, evVars, ErrorKept
  <1>12. CASE AbortWait
    BY <1>12 DEF AbortWait, evVars, ErrorKept
  <1>13. CASE UnlinkOutput
    BY <1>13 DEF UnlinkOutput, evVars, ErrorKept
  <1>14. CASE ReadChunk
    BY <1>14 DEF ReadChunk, evVars, ErrorKept
  <1>15. CASE ReadFails
    BY <1>15 DEF ReadFails, Skip, SkipWith, evVars, ErrorKept
  <1>16. CASE SendChunk
    BY <1>16 DEF SendChunk, ErrorKept
  <1>17. CASE SeeError
    BY <1>17 DEF SeeError, Skip, SkipWith, evVars, ErrorKept
  <1>18. CASE UserAbort
    BY <1>18 DEF UserAbort, evVars, ErrorKept
  <1>19. CASE NextFile
    BY <1>19 DEF NextFile, evVars, ErrorKept
  <1>20. CASE FileFailed
    BY <1>20 DEF FileFailed, ToEnd, evVars, ErrorKept
  <1>21. CASE RemoveFails
    BY <1>21 DEF RemoveFails, ToEnd, evVars, ErrorKept
  <1>22. CASE NoMoreFiles
    BY <1>22 DEF NoMoreFiles, ToEnd, evVars, ErrorKept
  <1>23. CASE End
    BY <1>23 DEF End, EndSession, evVars, ErrorKept
  <1>24. CASE EndPending
    BY <1>24 DEF EndPending, evVars, ErrorKept
  <1>25. CASE EndWait
    BY <1>25 DEF EndWait, EndSession, evVars, ErrorKept
  <1>26. CASE Quit
    BY <1>26 DEF Quit, evVars, ErrorKept
  <1>27. CASE Join
    BY <1>27 DEF Join, evVars, ErrorKept
  <1>28. CASE Write \/ WriteFails
    BY <1>28, WriteFrame DEF ErrorKept
  <1>29. CASE Finish
    BY <1>29, FinishFrame DEF ErrorKept
  <1>30. CASE Receive \/ Start \/ NoJob \/ Idle \/ Terminated
    BY <1>30, EventFrame DEF ErrorKept
  <1> QED
    BY <1>1, <1>2, <1>3, <1>4, <1>5, <1>6, <1>7, <1>8, <1>9, <1>10, <1>11, <1>12, <1>13, <1>14,
       <1>15, <1>16, <1>17, <1>18, <1>19, <1>20, <1>21, <1>22, <1>23, <1>24, <1>25, <1>26, <1>27,
       <1>28, <1>29, <1>30
      DEF Next, CopyThread, CopyFile, CopyFd, Manager, EventThread

\* An output stays open until its last chunk is sent or an error is met.
LEMMA OpenStep ==
    ASSUME PlaceInv, HandFacts, SlotPast, LastIsLast, ErrorKept, OutputOpen, Next
    PROVE  OutputOpen'
  <1>1. CASE StartSession
    BY <1>1
      DEF StartSession, evVars, outVars, PlaceInv, HandFacts, SlotPast, LastIsLast, ErrorKept,
          OutputOpen, Ended, InFile, File, Length, SlotFree, None, Writing, WillClose, Dst,
          SlotBroken, piece
  <1>2. CASE OpenFile
    BY <1>2, TaskFacts, SMTT(40)
      DEF OpenFile, Opening, NewOutput, Src, Dst, Created, evVars, File, piece, PlaceInv,
          HandFacts, SlotPast, LastIsLast, ErrorKept, OutputOpen, Ended, InFile, Length, SlotFree,
          None, Writing, WillClose, SlotBroken
  <1>3. CASE StatFails
    BY <1>3
      DEF StatFails, Opening, SkipWith, placeVars, evVars, PlaceInv, HandFacts, SlotPast,
          LastIsLast, ErrorKept, OutputOpen, File, Ended, InFile, Length, SlotFree, None, Writing,
          WillClose, Dst, SlotBroken, piece
  <1>4. CASE OpenReadFails
    BY <1>4
      DEF OpenReadFails, Opening, Skip, SkipWith, placeVars, evVars, PlaceInv, HandFacts,
          SlotPast, LastIsLast, ErrorKept, OutputOpen, File, Ended, InFile, Length, SlotFree,
          None, Writing, WillClose, Dst, SlotBroken, piece
  <1>5. CASE OpenWriteFails
    BY <1>5
      DEF OpenWriteFails, Opening, Skip, SkipWith, placeVars, evVars, PlaceInv, HandFacts,
          SlotPast, LastIsLast, ErrorKept, OutputOpen, Src, File, Ended, InFile, Length, SlotFree,
          None, Writing, WillClose, Dst, SlotBroken, piece
  <1>6. CASE MemFails
    BY <1>6
      DEF MemFails, Opening, Skip, SkipWith, placeVars, evVars, PlaceInv, HandFacts, SlotPast,
          LastIsLast, ErrorKept, OutputOpen, File, Src, Dst, piece, Ended, InFile, Length,
          SlotFree, None, Writing, WillClose, SlotBroken
  <1>7. CASE NextPart
    BY <1>7
      DEF NextPart, Copied, evVars, outVars, PlaceInv, HandFacts, SlotPast, LastIsLast, ErrorKept,
          OutputOpen, File, Src, Length, Ended, InFile, SlotFree, None, Writing, WillClose, Dst,
          SlotBroken, piece
  <1>8. CASE LastPart
    BY <1>8
      DEF LastPart, Copied, placeVars, evVars, outVars, PlaceInv, HandFacts, SlotPast, LastIsLast,
          ErrorKept, OutputOpen, File, Length, Ended, InFile, SlotFree, None, Writing, WillClose,
          Dst, SlotBroken, piece
  <1>9. CASE LastFragment
    BY <1>9
      DEF LastFragment, Copied, evVars, outVars, PlaceInv, HandFacts, SlotPast, LastIsLast,
          ErrorKept, OutputOpen, File, Src, Length, Ended, InFile, SlotFree, None, Writing,
          WillClose, Dst, SlotBroken, piece
  <1>10. CASE JoinWait
    BY <1>10
      DEF JoinWait, placeVars, evVars, outVars, PlaceInv, HandFacts, SlotPast, LastIsLast,
          ErrorKept, OutputOpen, SlotFree, Dst, piece, File, Ended, InFile, Length, None, Writing,
          WillClose, SlotBroken
  <1>11. CASE CloseSource
    BY <1>11
      DEF CloseSource, placeVars, evVars, outVars, PlaceInv, HandFacts, SlotPast, LastIsLast,
          ErrorKept, OutputOpen, Src, SlotFree, Ended, InFile, File, Length, None, Writing,
          WillClose, Dst, SlotBroken, piece
  <1>12. CASE AbortWait
    BY <1>12
      DEF AbortWait, placeVars, evVars, outVars, PlaceInv, HandFacts, SlotPast, LastIsLast,
          ErrorKept, OutputOpen, Ended, InFile, File, Length, SlotFree, None, Writing, WillClose,
          Dst, SlotBroken, piece
  <1>13. CASE UnlinkOutput
    BY <1>13
      DEF UnlinkOutput, placeVars, evVars, PlaceInv, HandFacts, SlotPast, LastIsLast, ErrorKept,
          OutputOpen, piece, Dst, File, Ended, InFile, Length, SlotFree, None, Writing, WillClose,
          SlotBroken
  <1>14. CASE ReadChunk
    BY <1>14
      DEF ReadChunk, Copying, placeVars, evVars, outVars, PlaceInv, HandFacts, SlotPast,
          LastIsLast, ErrorKept, OutputOpen, Length, File, Ended, InFile, SlotFree, None, Writing,
          WillClose, Dst, SlotBroken, piece
  <1>15. CASE ReadFails
    BY <1>15
      DEF ReadFails, Copying, Skip, SkipWith, placeVars, evVars, PlaceInv, HandFacts, SlotPast,
          LastIsLast, ErrorKept, OutputOpen, Length, File, Ended, InFile, SlotFree, None, Writing,
          WillClose, Dst, SlotBroken, piece
  <1>16. CASE SendChunk
    BY <1>16, TaskFacts
      DEF SendChunk, SlotFree, SlotError, None, LastChunk, Dst, Advance, evVars, outVars, Length,
          File, piece, PlaceInv, HandFacts, SlotPast, LastIsLast, ErrorKept, OutputOpen, Ended,
          InFile, Writing, WillClose, SlotBroken
  <1>17. CASE SeeError
    BY <1>17
      DEF SeeError, Skip, SkipWith, placeVars, evVars, PlaceInv, HandFacts, SlotPast, LastIsLast,
          ErrorKept, OutputOpen, SlotFree, Ended, InFile, File, Length, None, Writing, WillClose,
          Dst, SlotBroken, piece
  <1>18. CASE UserAbort
    BY <1>18
      DEF UserAbort, placeVars, evVars, outVars, PlaceInv, HandFacts, SlotPast, LastIsLast,
          ErrorKept, OutputOpen, Length, File, Ended, InFile, SlotFree, None, Writing, WillClose,
          Dst, SlotBroken, piece
  <1>19. CASE NextFile
    BY <1>19
      DEF NextFile, evVars, PlaceInv, HandFacts, SlotPast, LastIsLast, ErrorKept, OutputOpen,
          File, Ended, InFile, Length, SlotFree, None, Writing, WillClose, Dst, SlotBroken, piece
  <1>20. CASE FileFailed
    BY <1>20
      DEF FileFailed, ToEnd, placeVars, evVars, outVars, PlaceInv, HandFacts, SlotPast,
          LastIsLast, ErrorKept, OutputOpen, Ended, InFile, File, Length, SlotFree, None, Writing,
          WillClose, Dst, SlotBroken, piece
  <1>21. CASE RemoveFails
    BY <1>21
      DEF RemoveFails, ToEnd, placeVars, evVars, outVars, PlaceInv, HandFacts, SlotPast,
          LastIsLast, ErrorKept, OutputOpen, File, Ended, InFile, Length, SlotFree, None, Writing,
          WillClose, Dst, SlotBroken, piece
  <1>22. CASE NoMoreFiles
    BY <1>22
      DEF NoMoreFiles, ToEnd, placeVars, evVars, outVars, PlaceInv, HandFacts, SlotPast,
          LastIsLast, ErrorKept, OutputOpen, Ended, InFile, File, Length, SlotFree, None, Writing,
          WillClose, Dst, SlotBroken, piece
  <1>23. CASE End
    BY <1>23
      DEF End, EndSession, evVars, outVars, PlaceInv, HandFacts, SlotPast, LastIsLast, ErrorKept,
          OutputOpen, Ended, InFile, File, Length, SlotFree, None, Writing, WillClose, Dst,
          SlotBroken, piece
  <1>24. CASE EndPending
    BY <1>24
      DEF EndPending, placeVars, evVars, outVars, PlaceInv, HandFacts, SlotPast, LastIsLast,
          ErrorKept, OutputOpen, Ended, InFile, File, Length, SlotFree, None, Writing, WillClose,
          Dst, SlotBroken, piece
  <1>25. CASE EndWait
    BY <1>25
      DEF EndWait, EndSession, evVars, outVars, PlaceInv, HandFacts, SlotPast, LastIsLast,
          ErrorKept, OutputOpen, Ended, InFile, File, Length, SlotFree, None, Writing, WillClose,
          Dst, SlotBroken, piece
  <1>26. CASE Quit
    BY <1>26
      DEF Quit, placeVars, evVars, outVars, PlaceInv, HandFacts, SlotPast, LastIsLast, ErrorKept,
          OutputOpen, Ended, InFile, File, Length, SlotFree, None, Writing, WillClose, Dst,
          SlotBroken, piece
  <1>27. CASE Join
    BY <1>27
      DEF Join, placeVars, evVars, outVars, PlaceInv, HandFacts, SlotPast, LastIsLast, ErrorKept,
          OutputOpen, Ended, InFile, File, Length, SlotFree, None, Writing, WillClose, Dst,
          SlotBroken, piece
  <1>28. CASE Write \/ WriteFails
    BY <1>28, WriteFrame
      DEF PlaceInv, HandFacts, SlotPast, LastIsLast, ErrorKept, OutputOpen, Ended, InFile, File,
          Length, SlotFree, None, Writing, WillClose, Dst, SlotBroken, piece
  <1>29. CASE Finish
    <2>1. Writing' <=> Writing
      BY <1>29, FinishFrame DEF Writing, Length, File
    <2>2. Dst' = Dst
      BY <1>29, FinishFrame DEF Dst, piece, File
    <2>3. CASE "ERROR" \in evflags
      <3>1. Writing => use_async_fd = 1
        BY <1>29, FinishFrame DEF Writing, HandFacts, Ended
      <3> QED
        BY <1>29, <2>1, <2>3, <3>1, FinishFrame DEF OutputOpen, SlotBroken
    <2>4. CASE "ERROR" \notin evflags /\ "FCLOSE" \in evflags
      <3>1. Writing => slot.fd # Dst
        BY <1>29, <2>4, FinishFrame DEF LastIsLast, WillClose
      <3>2. Writing => use_async_fd = 1
        BY <1>29, FinishFrame DEF Writing, HandFacts, Ended
      <3> QED
        BY <1>29, <2>1, <2>2, <3>1, <3>2, FinishFrame DEF OutputOpen, SlotBroken, ErrorKept, Closes
    <2>5. CASE ~Closes(evflags)
      BY <1>29, <2>1, <2>2, <2>5, FinishFrame DEF OutputOpen, SlotBroken, ErrorKept, Closes
    <2> QED
      BY <2>3, <2>4, <2>5 DEF Closes
  <1>30. CASE Receive \/ Start \/ NoJob \/ Idle \/ Terminated
    BY <1>30, EventFrame
      DEF PlaceInv, HandFacts, SlotPast, LastIsLast, ErrorKept, OutputOpen, outVars, Ended,
          InFile, File, Length, SlotFree, None, Writing, WillClose, Dst, SlotBroken, piece
  <1> QED
    BY <1>1, <1>2, <1>3, <1>4, <1>5, <1>6, <1>7, <1>8, <1>9, <1>10, <1>11, <1>12, <1>13, <1>14,
       <1>15, <1>16, <1>17, <1>18, <1>19, <1>20, <1>21, <1>22, <1>23, <1>24, <1>25, <1>26, <1>27,
       <1>28, <1>29, <1>30
      DEF Next, CopyThread, CopyFile, CopyFd, Manager, EventThread

\* The source of a file is closed before the next one is opened.
LEMMA SourceStep ==
    ASSUME PlaceInv, HandFacts, SourceInv, Next
    PROVE  SourceInv'
  <1>1. CASE StartSession
    BY <1>1 DEF StartSession, evVars, outVars, SourceInv
  <1>2. CASE OpenFile
    BY <1>2
      DEF OpenFile, Opening, evVars, PlaceInv, HandFacts, SourceInv, Src, Dst, File, piece, Ended,
          InFile, Length, SlotFree
  <1>3. CASE StatFails
    BY <1>3
      DEF StatFails, Opening, SkipWith, placeVars, evVars, PlaceInv, HandFacts, SourceInv, File,
          Ended, InFile, Length, SlotFree, Src
  <1>4. CASE OpenReadFails
    BY <1>4
      DEF OpenReadFails, Opening, Skip, SkipWith, placeVars, evVars, PlaceInv, HandFacts,
          SourceInv, File, Ended, InFile, Length, SlotFree, Src
  <1>5. CASE OpenWriteFails
    BY <1>5
      DEF OpenWriteFails, Opening, Skip, SkipWith, placeVars, evVars, PlaceInv, HandFacts,
          SourceInv, Src, File, Ended, InFile, Length, SlotFree
  <1>6. CASE MemFails
    BY <1>6
      DEF MemFails, Opening, Skip, SkipWith, placeVars, evVars, PlaceInv, HandFacts, SourceInv,
          File, Src, Dst, piece, Ended, InFile, Length, SlotFree
  <1>7. CASE NextPart
    BY <1>7
      DEF NextPart, Copied, evVars, outVars, PlaceInv, HandFacts, SourceInv, File, Src, Length,
          Ended, InFile, SlotFree
  <1>8. CASE LastPart
    BY <1>8
      DEF LastPart, Copied, placeVars, evVars, outVars, PlaceInv, HandFacts, SourceInv, File,
          Length, Ended, InFile, SlotFree, Src
  <1>9. CASE LastFragment
    BY <1>9 DEF LastFragment, Copied, evVars, outVars, SourceInv
  <1>10. CASE JoinWait
    BY <1>10 DEF JoinWait, placeVars, evVars, outVars, SourceInv
  <1>11. CASE CloseSource
    BY <1>11 DEF CloseSource, placeVars, evVars, outVars, SourceInv
  <1>12. CASE AbortWait
    BY <1>12 DEF AbortWait, placeVars, evVars, outVars, SourceInv
  <1>13. CASE UnlinkOutput
    BY <1>13 DEF UnlinkOutput, placeVars, evVars, SourceInv
  <1>14. CASE ReadChunk
    BY <1>14
      DEF ReadChunk, Copying, placeVars, evVars, outVars, PlaceInv, HandFacts, SourceInv, Length,
          File, Ended, InFile, SlotFree, Src
  <1>15. CASE ReadFails
    BY <1>15
      DEF ReadFails, Copying, Skip, SkipWith, placeVars, evVars, PlaceInv, HandFacts, SourceInv,
          Length, File, Ended, InFile, SlotFree, Src
  <1>16. CASE SendChunk
    BY <1>16
      DEF SendChunk, Advance, evVars, outVars, PlaceInv, HandFacts, SourceInv, SlotFree, None,
          Dst, Length, File, piece, Ended, InFile, Src
  <1>17. CASE SeeError
    BY <1>17
      DEF SeeError, Skip, SkipWith, placeVars, evVars, PlaceInv, HandFacts, SourceInv, SlotFree,
          Ended, InFile, File, Length, Src
  <1>18. CASE UserAbort
    BY <1>18
      DEF UserAbort, placeVars, evVars, outVars, PlaceInv, HandFacts, SourceInv, Length, File,
          Ended, InFile, SlotFree, Src
  <1>19. CASE NextFile
    BY <1>19 DEF NextFile, evVars, SourceInv
  <1>20. CASE FileFailed
    BY <1>20 DEF FileFailed, ToEnd, placeVars, evVars, outVars, SourceInv
  <1>21. CASE RemoveFails
    BY <1>21 DEF RemoveFails, ToEnd, placeVars, evVars, outVars, SourceInv
  <1>22. CASE NoMoreFiles
    BY <1>22
      DEF NoMoreFiles, ToEnd, placeVars, evVars, outVars, PlaceInv, HandFacts, SourceInv, Ended,
          InFile, SlotFree
  <1>23. CASE End
    BY <1>23 DEF End, EndSession, evVars, outVars, SourceInv
  <1>24. CASE EndPending
    BY <1>24 DEF EndPending, placeVars, evVars, outVars, SourceInv
  <1>25. CASE EndWait
    BY <1>25 DEF EndWait, EndSession, evVars, outVars, SourceInv
  <1>26. CASE Quit
    BY <1>26 DEF Quit, placeVars, evVars, outVars, SourceInv
  <1>27. CASE Join
    BY <1>27 DEF Join, placeVars, evVars, outVars, SourceInv
  <1>28. CASE Write \/ WriteFails
    BY <1>28, WriteFrame
      DEF PlaceInv, HandFacts, SourceInv, Ended, InFile, File, Length, SlotFree, Src
  <1>29. CASE Finish
    BY <1>29, FinishFrame
      DEF PlaceInv, HandFacts, SourceInv, Ended, InFile, File, Length, SlotFree, Src
  <1>30. CASE Receive \/ Start \/ NoJob \/ Idle \/ Terminated
    BY <1>30, EventFrame
      DEF PlaceInv, HandFacts, SourceInv, outVars, Ended, InFile, File, Length, SlotFree, Src
  <1> QED
    BY <1>1, <1>2, <1>3, <1>4, <1>5, <1>6, <1>7, <1>8, <1>9, <1>10, <1>11, <1>12, <1>13, <1>14,
       <1>15, <1>16, <1>17, <1>18, <1>19, <1>20, <1>21, <1>22, <1>23, <1>24, <1>25, <1>26, <1>27,
       <1>28, <1>29, <1>30
      DEF Next, CopyThread, CopyFile, CopyFd, Manager, EventThread

\* No job finds its file closed.
LEMMA EarlyStep ==
    ASSUME HandFacts, SlotPast, OutputOpen, NoEarlyClose, Next
    PROVE  NoEarlyClose'
  <1>1. CASE StartSession
    BY <1>1 DEF StartSession, evVars, NoEarlyClose
  <1>2. CASE OpenFile
    BY <1>2 DEF OpenFile, evVars, NoEarlyClose
  <1>3. CASE StatFails
    BY <1>3 DEF StatFails, SkipWith, evVars, NoEarlyClose
  <1>4. CASE OpenReadFails
    BY <1>4 DEF OpenReadFails, Skip, SkipWith, evVars, NoEarlyClose
  <1>5. CASE OpenWriteFails
    BY <1>5 DEF OpenWriteFails, Skip, SkipWith, evVars, NoEarlyClose
  <1>6. CASE MemFails
    BY <1>6 DEF MemFails, Skip, SkipWith, evVars, NoEarlyClose
  <1>7. CASE NextPart
    BY <1>7 DEF NextPart, evVars, SlotPast, OutputOpen, NoEarlyClose, Src, None
  <1>8. CASE LastPart
    BY <1>8 DEF LastPart, evVars, NoEarlyClose
  <1>9. CASE LastFragment
    BY <1>9 DEF LastFragment, evVars, SlotPast, NoEarlyClose, File, Src, None
  <1>10. CASE JoinWait
    BY <1>10 DEF JoinWait, NoEarlyClose, SlotFree
  <1>11. CASE CloseSource
    <2>1. UNCHANGED <<slot, ev>> /\ fds' = fds \ {Src}
      BY <1>11 DEF CloseSource, evVars
    <2>2. slot.fd # Src
      BY DEF SlotPast, Src, None
    <2> QED
      BY <2>1, <2>2 DEF NoEarlyClose
  <1>12. CASE AbortWait
    BY <1>12 DEF AbortWait, evVars, NoEarlyClose
  <1>13. CASE UnlinkOutput
    BY <1>13 DEF UnlinkOutput, evVars, NoEarlyClose
  <1>14. CASE ReadChunk
    BY <1>14 DEF ReadChunk, evVars, NoEarlyClose
  <1>15. CASE ReadFails
    BY <1>15 DEF ReadFails, Skip, SkipWith, evVars, NoEarlyClose
  <1>16. CASE SendChunk
    BY <1>16 DEF SendChunk, SlotError, OutputOpen, NoEarlyClose, Writing, SlotBroken
  <1>17. CASE SeeError
    BY <1>17 DEF SeeError, Skip, SkipWith, evVars, NoEarlyClose
  <1>18. CASE UserAbort
    BY <1>18 DEF UserAbort, evVars, NoEarlyClose
  <1>19. CASE NextFile
    BY <1>19 DEF NextFile, evVars, NoEarlyClose
  <1>20. CASE FileFailed
    BY <1>20 DEF FileFailed, ToEnd, evVars, NoEarlyClose
  <1>21. CASE RemoveFails
    BY <1>21 DEF RemoveFails, ToEnd, evVars, NoEarlyClose
  <1>22. CASE NoMoreFiles
    BY <1>22 DEF NoMoreFiles, ToEnd, evVars, NoEarlyClose
  <1>23. CASE End
    BY <1>23 DEF End, EndSession, evVars, NoEarlyClose
  <1>24. CASE EndPending
    BY <1>24 DEF EndPending, evVars, NoEarlyClose
  <1>25. CASE EndWait
    BY <1>25 DEF EndWait, EndSession, evVars, NoEarlyClose
  <1>26. CASE Quit
    BY <1>26 DEF Quit, evVars, NoEarlyClose
  <1>27. CASE Join
    BY <1>27 DEF Join, NoEarlyClose
  <1>28. CASE Write \/ WriteFails
    BY <1>28, WriteFrame DEF NoEarlyClose
  <1>29. CASE Finish
    BY <1>29, FinishFrame DEF NoEarlyClose
  <1>30. CASE Receive \/ Start \/ NoJob \/ Idle \/ Terminated
    BY <1>30, EventFrame DEF NoEarlyClose
  <1> QED
    BY <1>1, <1>2, <1>3, <1>4, <1>5, <1>6, <1>7, <1>8, <1>9, <1>10, <1>11, <1>12, <1>13, <1>14,
       <1>15, <1>16, <1>17, <1>18, <1>19, <1>20, <1>21, <1>22, <1>23, <1>24, <1>25, <1>26, <1>27,
       <1>28, <1>29, <1>30
      DEF Next, CopyThread, CopyFile, CopyFd, Manager, EventThread

\* An output stays accounted for when the copy thread goes on in its session and
\* keeps off the slot.
LEMMA AccountedInSession ==
    ASSUME NEW d, Accounted(d), UNCHANGED <<task, sess, result, slot, evVars>>,
           ret' = ret \/ ret' = -1, pc \notin Ended, pc' \notin Ended,
           ret \in {0, -1}, sess \in Nat,
           Current(d) => Current(d)' \/ (ret' = -1 /\ d[2] = sess)
    PROVE  Accounted(d)'
  <1>1. Excused(d)' <=> Excused(d)
    BY DEF Excused
  <1>2. Closing(d)' <=> Closing(d)
    BY DEF Closing, WillClose, evVars
  <1>3. Doomed(d) => Doomed(d)'
    BY DEF Doomed
  <1>4. ret' = -1 /\ d[2] = sess => Doomed(d)'
    BY DEF Doomed
  <1>5. Excused(d)' \/ Doomed(d)' \/ Closing(d)' \/ Current(d)'
    BY <1>1, <1>2, <1>3, <1>4 DEF Accounted
  <1> QED
    BY <1>5 DEF Accounted

\* It stays accounted for at the start of a session and when the program ends.
LEMMA AccountedOutside ==
    ASSUME NEW d, Accounted(d), UNCHANGED <<task, sess, result, slot, evVars>>, pc \in Ended
    PROVE  Accounted(d)'
  <1>1. Excused(d)' <=> Excused(d)
    BY DEF Excused
  <1>2. Closing(d)' <=> Closing(d)
    BY DEF Closing, WillClose, evVars
  <1>3. d[2] \in 1 .. sess /\ d[2] < sess
    BY DEF Accounted
  <1>4. Doomed(d)' <=> Doomed(d)
    BY <1>3 DEF Doomed
  <1>5. ~Current(d)
    BY DEF Current, Ended
  <1> QED
    BY <1>1, <1>2, <1>3, <1>4, <1>5 DEF Accounted

\* It stays accounted for when the event thread goes on and keeps the slot's close.
LEMMA AccountedInEvent ==
    ASSUME NEW d, Accounted(d), UNCHANGED <<task, placeVars, pc, ret, result>>,
           Closing(d) => Closing(d)'
    PROVE  Accounted(d)'
  <1>1. Excused(d)' <=> Excused(d)
    BY DEF Excused
  <1>2. Doomed(d)' <=> Doomed(d)
    BY DEF Doomed, placeVars
  <1>3. Current(d)' <=> Current(d)
    BY DEF Current, Dst, piece, Length, File, placeVars
  <1> QED
    BY <1>1, <1>2, <1>3 DEF Accounted, placeVars

\* At the end of a session the slot is free: what is open is excused, or failed.
LEMMA AccountedAtEnd ==
    ASSUME NEW d, Accounted(d), NEW r, EndSession(r), pc \notin Ended, pc \notin {"copy", "send"},
           ~WillClose, ret < 0 => r < 0, result \in Seq({0, -1}), Len(result) = sess - 1,
           sess \in Nat
    PROVE  Accounted(d)'
  <1>1. Excused(d)' <=> Excused(d)
    BY DEF Excused, EndSession
  <1>2. ~Closing(d) /\ ~Current(d)
    BY DEF Closing, Current
  <1>3. result' = Append(result, r) /\ sess' = sess + 1
    BY DEF EndSession
  <1>4. d[2] \in 1 .. sess
    BY DEF Accounted
  <1>5. CASE d[2] < sess
    <2>1. result'[d[2]] = result[d[2]]
      BY <1>3, <1>4, <1>5
    <2>2. Doomed(d)' <=> Doomed(d)
      BY <2>1, <1>3, <1>4, <1>5 DEF Doomed
    <2> QED
      BY <1>1, <1>2, <1>3, <1>4, <1>5, <2>2 DEF Accounted
  <1>6. CASE d[2] = sess
    <2>1. result'[d[2]] = r
      BY <1>3, <1>6
    <2>2. Doomed(d) => Doomed(d)'
      BY <2>1, <1>3, <1>6 DEF Doomed
    <2> QED
      BY <1>1, <1>2, <1>3, <1>4, <2>2 DEF Accounted
  <1> QED
    BY <1>4, <1>5, <1>6

\* Every output that is open stays accounted for.
LEMMA OutputStep ==
    ASSUME PlaceInv, HandFacts, SlotPast, OutputInv, ResultInv, Next
    PROVE  OutputInv'
  <1> SUFFICES ASSUME NEW d \in fds', d[1] = "w" PROVE Accounted(d)'
    BY DEF OutputInv
  <1> USE DEF placeVars, evVars, outVars
  <1>0. d \in fds => Accounted(d)
    BY DEF OutputInv
  <1>c. /\ pc \notin Ended /\ Current(d) => d[2] = sess
        /\ ret \in {0, -1} /\ result \in Seq({0, -1}) /\ Len(result) = sess - 1 /\ sess \in Nat
    BY DEF Current, Dst, ResultInv, PlaceInv
  <1>d. pc \in {"copy", "send"} => pos \in Nat /\ Length \in Nat
    <2>1. pc \in {"copy", "send"} => /\ sess \in DOMAIN task /\ fi \in DOMAIN task[sess].files
                                    /\ n + 1 \in DOMAIN File.parts /\ task \in Tasks /\ pos \in Nat
      BY DEF PlaceInv, InFile, Ended
    <2> QED
      BY <2>1, TaskFacts DEF File, Length
  <1>1. CASE StartSession
    BY <1>1, <1>0, AccountedOutside DEF StartSession, Ended
  <1>2. CASE OpenFile
    <2>1. CASE d \in fds
      BY <1>2, <1>0, <1>c, <2>1, AccountedInSession DEF OpenFile, Opening, Ended, Current
    <2>2. CASE d \notin fds
      <3>1. d = Dst /\ pos' = 0 /\ pc' = "copy" /\ UNCHANGED <<task, sess, fi, n>>
        BY <1>2, <2>2 DEF OpenFile, Opening, Dst, Src, piece, File
      <3>2. Dst' = Dst /\ Length' = Length
        BY <3>1 DEF Dst, piece, Length, File
      <3>3. pc = "open" /\ sess \in DOMAIN task /\ fi \in DOMAIN task[sess].files
        BY <1>2 DEF OpenFile, Opening, PlaceInv, Ended
      <3>4. /\ n + 1 \in DOMAIN File.parts /\ task \in Tasks /\ n \in Nat
            /\ n > 0 => File.kind # "plain"
        BY <3>3 DEF PlaceInv
      <3>5. /\ Length \in Nat /\ DOMAIN File.parts = 1 .. Len(File.parts)
            /\ Len(File.parts) \in Nat
            /\ IF File.kind = "plain" THEN Len(File.parts) = 1 ELSE Length > 0
        BY <3>3, <3>4, TaskFacts DEF File, Length
      <3>6. d[2] = sess /\ d[3] = fi /\ sess \in 1 .. sess' /\ pc' \notin Ended
        BY <3>1, <3>3 DEF Dst, PlaceInv, Ended
      <3>7. CASE Length > 0
        BY <3>1, <3>2, <3>6, <3>7 DEF Accounted, Current, Ended
      <3>8. CASE Length = 0
        <4>1. File.kind = "plain" /\ n = 0 /\ Length = File.parts[1]
          BY <3>4, <3>5, <3>8 DEF Length
        <4>2. ASSUME NEW t \in Tasks, NEW s \in DOMAIN t, NEW f \in DOMAIN t[s].files,
                     Len(t[s].files[f].parts) = 1, t[s].files[f].parts[1] = 0
              PROVE  t[s].files[f].parts = <<0>>
          <5>1. t[s] \in Session
            BY <4>2, TasksAssumption
          <5>2. t[s].files \in Seq(FileKind)
            BY <5>1 DEF Session
          <5>3. t[s].files[f] \in FileKind
            BY <4>2, <5>2
          <5>4. t[s].files[f].parts \in Seq(Nat)
            BY <5>3 DEF FileKind
          <5> QED
            BY <4>2, <5>4
        <4>3. File.parts = <<0>>
          BY <3>3, <3>4, <3>5, <3>8, <4>1, <4>2 DEF File
        <4> QED
          BY <3>1, <3>6, <4>3 DEF Accounted, Excused, File
      <3> QED
        BY <3>5, <3>7, <3>8
    <2> QED
      BY <2>1, <2>2
  <1>3. CASE StatFails
    BY <1>3, <1>0, <1>c, AccountedInSession DEF StatFails, Opening, SkipWith, Ended, Current
  <1>4. CASE OpenReadFails
    BY <1>4, <1>0, <1>c, AccountedInSession
      DEF OpenReadFails, Opening, Skip, SkipWith, Ended, Current
  <1>5. CASE OpenWriteFails
    BY <1>5, <1>0, <1>c, AccountedInSession
      DEF OpenWriteFails, Opening, Skip, SkipWith, Ended, Current, Src
  <1>6. CASE MemFails
    <2>1. CASE d \in fds
      BY <1>6, <2>1, <1>0, <1>c, AccountedInSession
        DEF MemFails, Opening, Skip, SkipWith, Ended, Current
    <2>2. CASE d \notin fds
      <3>1. d = Dst /\ pc' = "close" /\ sess' = sess /\ ret' = -1 /\ sess \in DOMAIN task
        BY <1>6, <2>2 DEF MemFails, Opening, Skip, SkipWith, Src, PlaceInv, Ended
      <3> QED
        BY <3>1, TaskFacts DEF Accounted, Doomed, Dst, PlaceInv, Ended
    <2> QED
      BY <2>1, <2>2
  <1>7. CASE NextPart
    <2>1. ~Current(d) /\ pc = "copy" /\ pc' \notin Ended /\ d \in fds
      BY <1>7, <1>d DEF NextPart, Copied, Current, Ended
    <2> QED
      BY <1>7, <1>0, <1>c, <2>1, AccountedInSession DEF NextPart, Ended
  <1>8. CASE LastPart
    <2>1. ~Current(d) /\ pc = "copy" /\ pc' \notin Ended /\ d \in fds
      BY <1>8, <1>d DEF LastPart, Copied, Current, Ended
    <2> QED
      BY <1>8, <1>0, <1>c, <2>1, AccountedInSession DEF LastPart, Ended
  <1>9. CASE LastFragment
    <2>1. ~Current(d) /\ pc = "copy" /\ pc' \notin Ended /\ d \in fds
      BY <1>9, <1>d DEF LastFragment, Copied, Current, Ended
    <2> QED
      BY <1>9, <1>0, <1>c, <2>1, AccountedInSession DEF LastFragment, Ended
  <1>10. CASE JoinWait
    BY <1>10, <1>0, <1>c, AccountedInSession DEF JoinWait, Ended, Current
  <1>11. CASE CloseSource
    BY <1>11, <1>0, <1>c, AccountedInSession DEF CloseSource, Ended, Current
  <1>12. CASE AbortWait
    BY <1>12, <1>0, <1>c, AccountedInSession DEF AbortWait, Ended, Current
  <1>13. CASE UnlinkOutput
    BY <1>13, <1>0, <1>c, AccountedInSession DEF UnlinkOutput, Ended, Current
  <1>14. CASE ReadChunk
    BY <1>14, <1>0, <1>c, AccountedInSession
      DEF ReadChunk, Copying, Ended, Current, Dst, piece, Length, File
  <1>15. CASE ReadFails
    BY <1>15, <1>0, <1>c, AccountedInSession DEF ReadFails, Copying, Skip, SkipWith, Ended
  <1>16. CASE SeeError
    BY <1>16, <1>0, <1>c, AccountedInSession DEF SeeError, Skip, SkipWith, Ended
  <1>17. CASE UserAbort
    BY <1>17, <1>0, <1>c, AccountedInSession
      DEF UserAbort, Ended, Current, Dst, piece, Length, File
  <1>18. CASE NextFile
    BY <1>18, <1>0, <1>c, AccountedInSession DEF NextFile, Ended, Current
  <1>19. CASE FileFailed
    BY <1>19, <1>0, <1>c, AccountedInSession DEF FileFailed, ToEnd, Ended, Current
  <1>20. CASE RemoveFails
    BY <1>20, <1>0, <1>c, AccountedInSession DEF RemoveFails, ToEnd, Ended, Current
  <1>21. CASE NoMoreFiles
    BY <1>21, <1>0, <1>c, AccountedInSession DEF NoMoreFiles, ToEnd, Ended, Current
  <1>22. CASE Join
    BY <1>22, <1>0, AccountedOutside DEF Join, Ended
  <1>23. CASE Quit
    BY <1>23, <1>0, AccountedOutside DEF Quit, Ended
  <1>24. CASE EndPending
    BY <1>24, <1>0, <1>c, AccountedInSession DEF EndPending, Ended, Current
  <1>25. CASE End
    <2>1. ~WillClose
      BY <1>25 DEF End, LastPending, WillClose, HandFacts, SlotFree
    <2> QED
      BY <1>25, <1>0, <1>c, <2>1, AccountedAtEnd DEF End, EndSession, Ended
  <1>26. CASE EndWait
    <2>1. ~WillClose
      BY <1>26 DEF EndWait, WillClose, HandFacts, SlotFree
    <2> DEFINE r == IF "ERROR" \in slot.flags THEN -1 ELSE ret
    <2>2. EndSession(r) /\ (ret < 0 => r < 0) /\ pc = "endwait" /\ d \in fds
      BY <1>26 DEF EndWait, EndSession
    <2> HIDE DEF r
    <2> QED
      BY <1>0, <1>c, <2>1, <2>2, AccountedAtEnd DEF Ended
  <1>27. CASE SendChunk
    <2>1. pc = "send" /\ pos' = pos + 1 /\ UNCHANGED <<task, sess, fi, n, result, ev, evflags, fds>>
      BY <1>27 DEF SendChunk, Advance
    <2>2. slot'.fd = Dst /\ "ENABLE" \in slot'.flags /\ (LastChunk => "FCLOSE" \in slot'.flags)
      <3>1. PICK m : slot' = [flags |-> {"ENABLE"} \cup (IF LastChunk THEN {"FCLOSE"} ELSE {}),
                              fd |-> Dst, mem |-> m]
        BY <1>27 DEF SendChunk
      <3> QED
        BY <3>1
    <2>3. (pc' = "close" /\ ret' = -1) \/ (pc' = "copy" /\ ret' = ret)
      BY <1>27 DEF SendChunk
    <2>4. SlotFree /\ ev # "wrote"
      BY <1>27 DEF SendChunk, HandFacts, Ended
    <2>5. Excused(d)' <=> Excused(d)
      BY <2>1 DEF Excused
    <2>6. d \in fds /\ ~Closing(d) /\ Accounted(d)
      BY <2>1, <2>4, <1>0 DEF Closing, WillClose, SlotFree
    <2>7. Doomed(d) => Doomed(d)'
      BY <2>1, <2>3, <1>c DEF Doomed
    <2>8. d[2] \in 1 .. sess' /\ pc' \notin Ended
      BY <2>1, <2>3, <2>6 DEF Accounted, Ended
    <2>9. CASE Current(d)
      <3>1. d = Dst /\ d[2] = sess /\ d[3] = fi /\ pos \in Nat /\ Length \in Nat /\ sess \in Nat
        BY <2>1, <2>9, <1>c, <1>d DEF Current, Dst
      <3>2. Dst' = Dst /\ Length' = Length
        BY <2>1 DEF Dst, piece, Length, File
      <3>3. CASE pc' = "close"
        <4>1. Doomed(d)'
          BY <2>1, <2>3, <3>1, <3>3 DEF Doomed
        <4> QED
          BY <2>8, <4>1 DEF Accounted
      <3>4. CASE pc' = "copy" /\ pos + 1 < Length
        <4>1. Current(d)'
          BY <2>1, <3>1, <3>2, <3>4 DEF Current
        <4> QED
          BY <2>8, <4>1 DEF Accounted
      <3>5. CASE pos + 1 >= Length /\ File.kind = "joined"
        <4>1. Excused(d)'
          BY <2>5, <3>1, <3>5 DEF Excused, File
        <4> QED
          BY <2>8, <4>1 DEF Accounted
      <3>6. CASE pos + 1 >= Length /\ File.kind # "joined"
        <4>1. Closing(d)'
          BY <2>1, <2>2, <2>4, <3>1, <3>6 DEF Closing, WillClose, LastChunk
        <4> QED
          BY <2>8, <4>1 DEF Accounted
      <3> QED
        BY <2>3, <3>1, <3>3, <3>4, <3>5, <3>6
    <2>10. CASE ~Current(d)
      <3>1. Excused(d)' \/ Doomed(d)'
        BY <2>5, <2>6, <2>7, <2>10 DEF Accounted
      <3> QED
        BY <2>8, <3>1 DEF Accounted
    <2> QED
      BY <2>9, <2>10
  <1>28. CASE Receive
    BY <1>28, <1>0, AccountedInEvent DEF Receive, copyUnchanged, Closing, WillClose
  <1>29. CASE Start
    BY <1>29, <1>0, AccountedInEvent DEF Start, copyUnchanged, Closing, WillClose
  <1>30. CASE Write
    <2>1. /\ ev = "run" /\ ev' = "wrote" /\ evflags' = slot.flags
          /\ slot' = [slot EXCEPT !.mem = None]
          /\ UNCHANGED <<task, placeVars, pc, ret, result, fds>>
      BY <1>30 DEF Write, copyUnchanged
    <2> QED
      BY <2>1, <1>0, AccountedInEvent DEF Closing, WillClose, HandFacts
  <1>31. CASE WriteFails
    BY <1>31, <1>0, AccountedInEvent DEF WriteFails, copyUnchanged, Closing, WillClose, HandFacts
  <1>32. CASE Finish
    BY <1>32, <1>0, AccountedInEvent DEF Finish, copyUnchanged, Closing, WillClose, Closes
  <1>33. CASE NoJob
    BY <1>33, <1>0, AccountedInEvent DEF NoJob, copyUnchanged, Closing, WillClose
  <1>34. CASE Idle
    BY <1>34, <1>0, AccountedInEvent DEF Idle, copyUnchanged, Closing, WillClose
  <1>35. CASE Terminated
    <2>1. d \in fds /\ Accounted(d) /\ UNCHANGED vars
      BY <1>35, <1>0 DEF Terminated, vars
    <2> QED
      BY <2>1, AccountedInEvent DEF vars, Closing, WillClose
  <1> QED
    BY <1>1, <1>2, <1>3, <1>4, <1>5, <1>6, <1>7, <1>8, <1>9, <1>10, <1>11, <1>12, <1>13, <1>14,
       <1>15, <1>16, <1>17, <1>18, <1>19, <1>20, <1>21, <1>22, <1>23, <1>24, <1>25, <1>26, <1>27,
       <1>28, <1>29, <1>30, <1>31, <1>32, <1>33, <1>34, <1>35
      DEF Next, CopyThread, CopyFile, CopyFd, Manager, EventThread

\* The places of the threads.
LEMMA ControlStep ==
    ASSUME ControlType, Next
    PROVE  ControlType'
  <1>1. CASE StartSession
    BY <1>1 DEF StartSession, evVars, outVars, ControlType
  <1>2. CASE OpenFile
    BY <1>2, AppendType DEF OpenFile, Opening, evVars, ControlType
  <1>3. CASE StatFails
    BY <1>3 DEF StatFails, Opening, SkipWith, placeVars, evVars, ControlType
  <1>4. CASE OpenReadFails
    BY <1>4 DEF OpenReadFails, Opening, Skip, SkipWith, placeVars, evVars, ControlType
  <1>5. CASE OpenWriteFails
    BY <1>5 DEF OpenWriteFails, Opening, Skip, SkipWith, placeVars, evVars, ControlType
  <1>6. CASE MemFails
    BY <1>6, AppendType DEF MemFails, Opening, Skip, SkipWith, placeVars, evVars, ControlType
  <1>7. CASE NextPart
    BY <1>7 DEF NextPart, Copied, evVars, outVars, ControlType
  <1>8. CASE LastPart
    BY <1>8 DEF LastPart, Copied, placeVars, evVars, outVars, ControlType
  <1>9. CASE LastFragment
    BY <1>9 DEF LastFragment, Copied, evVars, outVars, ControlType
  <1>10. CASE JoinWait
    BY <1>10 DEF JoinWait, placeVars, evVars, outVars, ControlType
  <1>11. CASE CloseSource
    BY <1>11 DEF CloseSource, placeVars, evVars, outVars, ControlType
  <1>12. CASE AbortWait
    BY <1>12 DEF AbortWait, placeVars, evVars, outVars, ControlType
  <1>13. CASE UnlinkOutput
    BY <1>13 DEF UnlinkOutput, placeVars, evVars, ControlType
  <1>14. CASE ReadChunk
    BY <1>14 DEF ReadChunk, Copying, placeVars, evVars, outVars, ControlType
  <1>15. CASE ReadFails
    BY <1>15 DEF ReadFails, Copying, Skip, SkipWith, placeVars, evVars, ControlType
  <1>16. CASE SendChunk
    BY <1>16, AppendType
      DEF SendChunk, Advance, evVars, outVars, ControlType, SlotFree, None, Dst, Length, File,
          piece, Job
  <1>17. CASE SeeError
    BY <1>17 DEF SeeError, Skip, SkipWith, placeVars, evVars, ControlType
  <1>18. CASE UserAbort
    BY <1>18 DEF UserAbort, placeVars, evVars, outVars, ControlType
  <1>19. CASE NextFile
    BY <1>19 DEF NextFile, evVars, ControlType
  <1>20. CASE FileFailed
    BY <1>20 DEF FileFailed, ToEnd, placeVars, evVars, outVars, ControlType
  <1>21. CASE RemoveFails
    BY <1>21 DEF RemoveFails, ToEnd, placeVars, evVars, outVars, ControlType
  <1>22. CASE NoMoreFiles
    BY <1>22 DEF NoMoreFiles, ToEnd, placeVars, evVars, outVars, ControlType
  <1>23. CASE End
    BY <1>23, AppendType DEF End, EndSession, evVars, outVars, ControlType, Job
  <1>24. CASE EndPending
    BY <1>24 DEF EndPending, placeVars, evVars, outVars, ControlType
  <1>25. CASE EndWait
    BY <1>25, AppendType DEF EndWait, EndSession, evVars, outVars, ControlType, Job
  <1>26. CASE Quit
    BY <1>26, AppendType DEF Quit, placeVars, evVars, outVars, ControlType, Job
  <1>27. CASE Join
    BY <1>27 DEF Join, placeVars, evVars, outVars, ControlType
  <1>28. CASE Write \/ WriteFails
    <2>1. UNCHANGED <<pc, use_async_fd, job, queue>> /\ ev' = "wrote"
      BY <1>28 DEF Write, WriteFails, copyUnchanged
    <2> QED
      BY <2>1 DEF ControlType
  <1>29. CASE Finish
    BY <1>29 DEF Finish, copyUnchanged, placeVars, ControlType
  <1>30. CASE Receive \/ Start \/ NoJob \/ Idle \/ Terminated
    BY <1>30
      DEF Receive, Start, NoJob, Idle, Terminated, copyUnchanged, Enabled, vars, placeVars,
          evVars, outVars, ControlType
  <1> QED
    BY <1>1, <1>2, <1>3, <1>4, <1>5, <1>6, <1>7, <1>8, <1>9, <1>10, <1>11, <1>12, <1>13, <1>14,
       <1>15, <1>16, <1>17, <1>18, <1>19, <1>20, <1>21, <1>22, <1>23, <1>24, <1>25, <1>26, <1>27,
       <1>28, <1>29, <1>30
      DEF Next, CopyThread, CopyFile, CopyFd, Manager, EventThread

\* The Boolean variables.
LEMMA SwitchStep ==
    ASSUME SwitchType, Next
    PROVE  SwitchType'
  <1>1. CASE StartSession
    BY <1>1 DEF StartSession, evVars, outVars, SwitchType
  <1>2. CASE OpenFile
    BY <1>2 DEF OpenFile, Opening, evVars, SwitchType
  <1>3. CASE StatFails
    BY <1>3 DEF StatFails, Opening, SkipWith, placeVars, evVars, SwitchType
  <1>4. CASE OpenReadFails
    BY <1>4 DEF OpenReadFails, Opening, Skip, SkipWith, placeVars, evVars, SwitchType
  <1>5. CASE OpenWriteFails
    BY <1>5 DEF OpenWriteFails, Opening, Skip, SkipWith, placeVars, evVars, SwitchType
  <1>6. CASE MemFails
    BY <1>6 DEF MemFails, Opening, Skip, SkipWith, placeVars, evVars, SwitchType
  <1>7. CASE NextPart
    BY <1>7 DEF NextPart, Copied, evVars, outVars, SwitchType
  <1>8. CASE LastPart
    BY <1>8 DEF LastPart, Copied, placeVars, evVars, outVars, SwitchType
  <1>9. CASE LastFragment
    BY <1>9 DEF LastFragment, Copied, evVars, outVars, SwitchType
  <1>10. CASE JoinWait
    BY <1>10 DEF JoinWait, placeVars, evVars, outVars, SwitchType
  <1>11. CASE CloseSource
    BY <1>11 DEF CloseSource, placeVars, evVars, outVars, SwitchType
  <1>12. CASE AbortWait
    BY <1>12 DEF AbortWait, placeVars, evVars, outVars, SwitchType
  <1>13. CASE UnlinkOutput
    BY <1>13 DEF UnlinkOutput, placeVars, evVars, SwitchType
  <1>14. CASE ReadChunk
    BY <1>14 DEF ReadChunk, Copying, placeVars, evVars, outVars, SwitchType
  <1>15. CASE ReadFails
    BY <1>15 DEF ReadFails, Copying, Skip, SkipWith, placeVars, evVars, SwitchType
  <1>16. CASE SendChunk
    BY <1>16 DEF SendChunk, Advance, evVars, outVars, SwitchType
  <1>17. CASE SeeError
    BY <1>17 DEF SeeError, Skip, SkipWith, placeVars, evVars, SwitchType
  <1>18. CASE UserAbort
    BY <1>18 DEF UserAbort, placeVars, evVars, outVars, SwitchType
  <1>19. CASE NextFile
    BY <1>19 DEF NextFile, evVars, SwitchType
  <1>20. CASE FileFailed
    BY <1>20 DEF FileFailed, ToEnd, placeVars, evVars, outVars, SwitchType
  <1>21. CASE RemoveFails
    BY <1>21 DEF RemoveFails, ToEnd, placeVars, evVars, outVars, SwitchType
  <1>22. CASE NoMoreFiles
    BY <1>22 DEF NoMoreFiles, ToEnd, placeVars, evVars, outVars, SwitchType
  <1>23. CASE End
    BY <1>23 DEF End, EndSession, evVars, outVars, SwitchType
  <1>24. CASE EndPending
    BY <1>24 DEF EndPending, placeVars, evVars, outVars, SwitchType
  <1>25. CASE EndWait
    BY <1>25 DEF EndWait, EndSession, evVars, outVars, SwitchType
  <1>26. CASE Quit
    BY <1>26 DEF Quit, placeVars, evVars, outVars, SwitchType
  <1>27. CASE Join
    BY <1>27 DEF Join, placeVars, evVars, outVars, SwitchType
  <1>28. CASE Write \/ WriteFails
    <2>1. UNCHANGED <<aborted, event_thread_working>>
      BY <1>28 DEF Write, WriteFails, copyUnchanged
    <2> QED
      BY <2>1 DEF SwitchType
  <1>29. CASE Finish
    BY <1>29 DEF Finish, copyUnchanged, placeVars, SwitchType
  <1>30. CASE Receive \/ Start \/ NoJob \/ Idle \/ Terminated
    BY <1>30
      DEF Receive, Start, NoJob, Idle, Terminated, copyUnchanged, Enabled, vars, placeVars,
          evVars, outVars, SwitchType
  <1> QED
    BY <1>1, <1>2, <1>3, <1>4, <1>5, <1>6, <1>7, <1>8, <1>9, <1>10, <1>11, <1>12, <1>13, <1>14,
       <1>15, <1>16, <1>17, <1>18, <1>19, <1>20, <1>21, <1>22, <1>23, <1>24, <1>25, <1>26, <1>27,
       <1>28, <1>29, <1>30
      DEF Next, CopyThread, CopyFile, CopyFd, Manager, EventThread

\* What the slot holds.
LEMMA SlotTypeStep ==
    ASSUME PlaceInv, SlotType, Next
    PROVE  SlotType'
  <1>1. CASE StartSession
    BY <1>1 DEF StartSession, evVars, outVars, SlotType
  <1>2. CASE OpenFile
    BY <1>2 DEF OpenFile, Opening, evVars, SlotType
  <1>3. CASE StatFails
    BY <1>3 DEF StatFails, Opening, SkipWith, placeVars, evVars, SlotType
  <1>4. CASE OpenReadFails
    BY <1>4 DEF OpenReadFails, Opening, Skip, SkipWith, placeVars, evVars, SlotType
  <1>5. CASE OpenWriteFails
    BY <1>5 DEF OpenWriteFails, Opening, Skip, SkipWith, placeVars, evVars, SlotType
  <1>6. CASE MemFails
    BY <1>6 DEF MemFails, Opening, Skip, SkipWith, placeVars, evVars, SlotType
  <1>7. CASE NextPart
    BY <1>7 DEF NextPart, Copied, evVars, outVars, SlotType
  <1>8. CASE LastPart
    BY <1>8 DEF LastPart, Copied, placeVars, evVars, outVars, SlotType
  <1>9. CASE LastFragment
    BY <1>9 DEF LastFragment, Copied, evVars, outVars, SlotType
  <1>10. CASE JoinWait
    BY <1>10 DEF JoinWait, placeVars, evVars, outVars, SlotType
  <1>11. CASE CloseSource
    BY <1>11 DEF CloseSource, placeVars, evVars, outVars, SlotType
  <1>12. CASE AbortWait
    BY <1>12 DEF AbortWait, placeVars, evVars, outVars, SlotType
  <1>13. CASE UnlinkOutput
    BY <1>13 DEF UnlinkOutput, placeVars, evVars, SlotType
  <1>14. CASE ReadChunk
    BY <1>14 DEF ReadChunk, Copying, placeVars, evVars, outVars, SlotType
  <1>15. CASE ReadFails
    BY <1>15 DEF ReadFails, Copying, Skip, SkipWith, placeVars, evVars, SlotType
  <1>16. CASE SendChunk
    <2>1. PICK m \in {<<n, pos>>, None} :
             slot' = [flags |-> {"ENABLE"} \cup (IF LastChunk THEN {"FCLOSE"} ELSE {}),
                      fd |-> Dst, mem |-> m]
      BY <1>16 DEF SendChunk
    <2>2. m \in (Nat \X Nat) \cup {None} /\ Dst \in Descriptor
      BY DEF PlaceInv, Dst, piece, Descriptor
    <2>3. {"ENABLE"} \cup (IF LastChunk THEN {"FCLOSE"} ELSE {}) \in SUBSET Flags
      BY DEF Flags
    <2>4. UNCHANGED evflags
      BY <1>16 DEF SendChunk, evVars
    <2> QED
      BY <2>1, <2>2, <2>3, <2>4 DEF SlotType
  <1>17. CASE SeeError
    BY <1>17 DEF SeeError, Skip, SkipWith, placeVars, evVars, SlotType
  <1>18. CASE UserAbort
    BY <1>18 DEF UserAbort, placeVars, evVars, outVars, SlotType
  <1>19. CASE NextFile
    BY <1>19 DEF NextFile, evVars, SlotType
  <1>20. CASE FileFailed
    BY <1>20 DEF FileFailed, ToEnd, placeVars, evVars, outVars, SlotType
  <1>21. CASE RemoveFails
    BY <1>21 DEF RemoveFails, ToEnd, placeVars, evVars, outVars, SlotType
  <1>22. CASE NoMoreFiles
    BY <1>22 DEF NoMoreFiles, ToEnd, placeVars, evVars, outVars, SlotType
  <1>23. CASE End
    BY <1>23 DEF End, EndSession, evVars, outVars, SlotType
  <1>24. CASE EndPending
    BY <1>24 DEF EndPending, placeVars, evVars, outVars, SlotType
  <1>25. CASE EndWait
    BY <1>25 DEF EndWait, EndSession, evVars, outVars, SlotType
  <1>26. CASE Quit
    BY <1>26 DEF Quit, placeVars, evVars, outVars, SlotType
  <1>27. CASE Join
    BY <1>27 DEF Join, placeVars, evVars, outVars, SlotType
  <1>28. CASE Write \/ WriteFails
    <2>1. slot' = [slot EXCEPT !.mem = None]
      BY <1>28 DEF Write, WriteFails
    <2>2. evflags' \in {slot.flags, slot.flags \cup {"ERROR"}}
      BY <1>28 DEF Write, WriteFails
    <2>3. slot.flags \in SUBSET Flags
      BY DEF SlotType
    <2>4. evflags' \in SUBSET Flags
      BY <2>2, <2>3 DEF Flags
    <2> QED
      BY <2>1, <2>4 DEF SlotType
  <1>29. CASE Finish
    BY <1>29, TaskFacts
      DEF Finish, Closes, FlagsAfter, copyUnchanged, placeVars, PlaceInv, SlotType, Ended, InFile,
          File, Length, Flags, Descriptor, None
  <1>30. CASE Receive \/ Start \/ NoJob \/ Idle \/ Terminated
    BY <1>30
      DEF Receive, Start, NoJob, Idle, Terminated, copyUnchanged, Enabled, vars, placeVars,
          evVars, outVars, SlotType
  <1> QED
    BY <1>1, <1>2, <1>3, <1>4, <1>5, <1>6, <1>7, <1>8, <1>9, <1>10, <1>11, <1>12, <1>13, <1>14,
       <1>15, <1>16, <1>17, <1>18, <1>19, <1>20, <1>21, <1>22, <1>23, <1>24, <1>25, <1>26, <1>27,
       <1>28, <1>29, <1>30
      DEF Next, CopyThread, CopyFile, CopyFd, Manager, EventThread

\* The files open, deleted and removed.
LEMMA FilesStep ==
    ASSUME PlaceInv, FilesType, Next
    PROVE  FilesType'
  <1>1. CASE StartSession
    BY <1>1 DEF StartSession, evVars, outVars, FilesType
  <1>2. CASE OpenFile
    <2>1. fds' \subseteq fds \cup {Src, Dst} /\ UNCHANGED <<unlinked, removed>>
      BY <1>2 DEF OpenFile
    <2>2. Src \in Descriptor /\ Dst \in Descriptor
      BY DEF PlaceInv, Src, Dst, piece, Descriptor
    <2> QED
      BY <2>1, <2>2 DEF FilesType
  <1>3. CASE StatFails
    BY <1>3 DEF StatFails, Opening, SkipWith, placeVars, evVars, FilesType
  <1>4. CASE OpenReadFails
    BY <1>4 DEF OpenReadFails, Opening, Skip, SkipWith, placeVars, evVars, FilesType
  <1>5. CASE OpenWriteFails
    BY <1>5
      DEF OpenWriteFails, Opening, Skip, SkipWith, placeVars, evVars, PlaceInv, FilesType, Src,
          File, Ended, InFile, Length, Descriptor
  <1>6. CASE MemFails
    BY <1>6
      DEF MemFails, Opening, Skip, SkipWith, placeVars, evVars, PlaceInv, FilesType, File, Src,
          Dst, piece, Ended, InFile, Length, Descriptor
  <1>7. CASE NextPart
    BY <1>7 DEF NextPart, Copied, evVars, outVars, FilesType
  <1>8. CASE LastPart
    BY <1>8 DEF LastPart, Copied, placeVars, evVars, outVars, FilesType
  <1>9. CASE LastFragment
    BY <1>9 DEF LastFragment, Copied, evVars, outVars, FilesType
  <1>10. CASE JoinWait
    BY <1>10 DEF JoinWait, placeVars, evVars, outVars, FilesType
  <1>11. CASE CloseSource
    BY <1>11 DEF CloseSource, placeVars, evVars, outVars, FilesType
  <1>12. CASE AbortWait
    BY <1>12 DEF AbortWait, placeVars, evVars, outVars, FilesType
  <1>13. CASE UnlinkOutput
    BY <1>13
      DEF UnlinkOutput, placeVars, evVars, PlaceInv, FilesType, piece, Dst, File, Ended, InFile,
          Length, Descriptor
  <1>14. CASE ReadChunk
    BY <1>14 DEF ReadChunk, Copying, placeVars, evVars, outVars, FilesType
  <1>15. CASE ReadFails
    BY <1>15 DEF ReadFails, Copying, Skip, SkipWith, placeVars, evVars, FilesType
  <1>16. CASE SendChunk
    BY <1>16 DEF SendChunk, Advance, evVars, outVars, FilesType
  <1>17. CASE SeeError
    BY <1>17 DEF SeeError, Skip, SkipWith, placeVars, evVars, FilesType
  <1>18. CASE UserAbort
    BY <1>18 DEF UserAbort, placeVars, evVars, outVars, FilesType
  <1>19. CASE NextFile
    BY <1>19, TaskFacts, SMTT(40)
      DEF NextFile, MayRemove, PathExists, PathPart, evVars, File, PlaceInv, FilesType, Ended,
          InFile, Length, Descriptor
  <1>20. CASE FileFailed
    BY <1>20 DEF FileFailed, ToEnd, placeVars, evVars, outVars, FilesType
  <1>21. CASE RemoveFails
    BY <1>21 DEF RemoveFails, ToEnd, placeVars, evVars, outVars, FilesType
  <1>22. CASE NoMoreFiles
    BY <1>22 DEF NoMoreFiles, ToEnd, placeVars, evVars, outVars, FilesType
  <1>23. CASE End
    BY <1>23 DEF End, EndSession, evVars, outVars, FilesType
  <1>24. CASE EndPending
    BY <1>24 DEF EndPending, placeVars, evVars, outVars, FilesType
  <1>25. CASE EndWait
    BY <1>25 DEF EndWait, EndSession, evVars, outVars, FilesType
  <1>26. CASE Quit
    BY <1>26 DEF Quit, placeVars, evVars, outVars, FilesType
  <1>27. CASE Join
    BY <1>27 DEF Join, placeVars, evVars, outVars, FilesType
  <1>28. CASE Write \/ WriteFails
    <2>1. UNCHANGED <<fds, unlinked, removed>>
      BY <1>28 DEF Write, WriteFails, copyUnchanged
    <2> QED
      BY <2>1 DEF FilesType
  <1>29. CASE Finish
    BY <1>29 DEF Finish, copyUnchanged, placeVars, FilesType
  <1>30. CASE Receive \/ Start \/ NoJob \/ Idle \/ Terminated
    BY <1>30
      DEF Receive, Start, NoJob, Idle, Terminated, copyUnchanged, Enabled, vars, placeVars,
          evVars, outVars, FilesType
  <1> QED
    BY <1>1, <1>2, <1>3, <1>4, <1>5, <1>6, <1>7, <1>8, <1>9, <1>10, <1>11, <1>12, <1>13, <1>14,
       <1>15, <1>16, <1>17, <1>18, <1>19, <1>20, <1>21, <1>22, <1>23, <1>24, <1>25, <1>26, <1>27,
       <1>28, <1>29, <1>30
      DEF Next, CopyThread, CopyFile, CopyFd, Manager, EventThread

\* The outputs on the disk.
LEMMA DiskStep ==
    ASSUME PlaceInv, SlotType, DiskType, Next
    PROVE  DiskType'
  <1>1. CASE StartSession
    BY <1>1 DEF StartSession, evVars, outVars, DiskType
  <1>2. CASE OpenFile
    <2>1. task' = task /\ disk' \in {disk, Created}
      BY <1>2 DEF OpenFile
    <2>2. CASE disk' = disk
      BY <2>1, <2>2 DEF DiskType
    <2>3. CASE disk' = Created
      <3>1. sess \in DOMAIN task /\ fi \in DOMAIN task[sess].files
        BY <1>2 DEF OpenFile, Opening, PlaceInv, Ended
      <3>2. Append(disk[sess][fi], << >>) \in Outputs
        BY <3>1 DEF DiskType, Outputs
      <3> QED
        BY <2>1, <2>3, <3>1, <3>2, DiskPut DEF Created
    <2> QED
      BY <2>1, <2>2, <2>3
  <1>3. CASE StatFails
    BY <1>3 DEF StatFails, Opening, SkipWith, placeVars, evVars, DiskType
  <1>4. CASE OpenReadFails
    BY <1>4 DEF OpenReadFails, Opening, Skip, SkipWith, placeVars, evVars, DiskType
  <1>5. CASE OpenWriteFails
    BY <1>5 DEF OpenWriteFails, Opening, Skip, SkipWith, placeVars, evVars, DiskType
  <1>6. CASE MemFails
    <2>1. task' = task /\ disk' \in {disk, Created}
      BY <1>6 DEF MemFails, Skip, SkipWith
    <2>2. CASE disk' = disk
      BY <2>1, <2>2 DEF DiskType
    <2>3. CASE disk' = Created
      <3>1. sess \in DOMAIN task /\ fi \in DOMAIN task[sess].files
        BY <1>6 DEF MemFails, Opening, PlaceInv, Ended
      <3>2. Append(disk[sess][fi], << >>) \in Outputs
        BY <3>1 DEF DiskType, Outputs
      <3> QED
        BY <2>1, <2>3, <3>1, <3>2, DiskPut DEF Created
    <2> QED
      BY <2>1, <2>2, <2>3
  <1>7. CASE NextPart
    BY <1>7 DEF NextPart, Copied, evVars, outVars, DiskType
  <1>8. CASE LastPart
    BY <1>8 DEF LastPart, Copied, placeVars, evVars, outVars, DiskType
  <1>9. CASE LastFragment
    BY <1>9 DEF LastFragment, Copied, evVars, outVars, DiskType
  <1>10. CASE JoinWait
    BY <1>10 DEF JoinWait, placeVars, evVars, outVars, DiskType
  <1>11. CASE CloseSource
    BY <1>11 DEF CloseSource, placeVars, evVars, outVars, DiskType
  <1>12. CASE AbortWait
    BY <1>12 DEF AbortWait, placeVars, evVars, outVars, DiskType
  <1>13. CASE UnlinkOutput
    <2>1. task' = task /\ sess \in DOMAIN task /\ fi \in DOMAIN task[sess].files
      BY <1>13 DEF UnlinkOutput, placeVars, PlaceInv, InFile, Ended
    <2>2. CASE piece + 1 \in DOMAIN disk[sess][fi]
      <3>1. disk' = [disk EXCEPT ![sess][fi] = [disk[sess][fi] EXCEPT ![piece + 1] = << >>]]
        BY <1>13, <2>2 DEF UnlinkOutput
      <3>2. disk[sess][fi] \in Outputs /\ << >> \in Seq(Nat \X Nat)
        BY <2>1 DEF DiskType
      <3>3. [disk[sess][fi] EXCEPT ![piece + 1] = << >>] \in Outputs
        BY <2>2, <3>2 DEF Outputs
      <3> QED
        BY <2>1, <3>1, <3>3, DiskPut
    <2>3. CASE piece + 1 \notin DOMAIN disk[sess][fi]
      BY <1>13, <2>1, <2>3 DEF UnlinkOutput, DiskType
    <2> QED
      BY <2>2, <2>3
  <1>14. CASE ReadChunk
    BY <1>14 DEF ReadChunk, Copying, placeVars, evVars, outVars, DiskType
  <1>15. CASE ReadFails
    BY <1>15 DEF ReadFails, Copying, Skip, SkipWith, placeVars, evVars, DiskType
  <1>16. CASE SendChunk
    BY <1>16 DEF SendChunk, Advance, evVars, outVars, DiskType
  <1>17. CASE SeeError
    BY <1>17 DEF SeeError, Skip, SkipWith, placeVars, evVars, DiskType
  <1>18. CASE UserAbort
    BY <1>18 DEF UserAbort, placeVars, evVars, outVars, DiskType
  <1>19. CASE NextFile
    BY <1>19 DEF NextFile, evVars, DiskType
  <1>20. CASE FileFailed
    BY <1>20 DEF FileFailed, ToEnd, placeVars, evVars, outVars, DiskType
  <1>21. CASE RemoveFails
    BY <1>21 DEF RemoveFails, ToEnd, placeVars, evVars, outVars, DiskType
  <1>22. CASE NoMoreFiles
    BY <1>22 DEF NoMoreFiles, ToEnd, placeVars, evVars, outVars, DiskType
  <1>23. CASE End
    BY <1>23 DEF End, EndSession, evVars, outVars, DiskType
  <1>24. CASE EndPending
    BY <1>24 DEF EndPending, placeVars, evVars, outVars, DiskType
  <1>25. CASE EndWait
    BY <1>25 DEF EndWait, EndSession, evVars, outVars, DiskType
  <1>26. CASE Quit
    BY <1>26 DEF Quit, placeVars, evVars, outVars, DiskType
  <1>27. CASE Join
    BY <1>27 DEF Join, placeVars, evVars, outVars, DiskType
  <1>28. CASE Write \/ WriteFails
    <2>1. task' = task
      BY <1>28 DEF Write, WriteFails, copyUnchanged
    <2>2. CASE Write
      <3>1. slot.mem \in Nat \X Nat /\ disk' = Written
        BY <2>2 DEF Write, SlotType
      <3>2. CASE slot.fd \in unlinked
        BY <2>1, <3>1, <3>2 DEF Written, DiskType
      <3>3. CASE slot.fd \notin unlinked
        <4>1. Written = [disk EXCEPT ![slot.fd[2]][slot.fd[3]][slot.fd[4] + 1] =
                                       Append(@, slot.mem)]
          BY <3>3 DEF Written
        <4> QED
          BY <2>1, <3>1, <4>1, DiskAppend
      <3> QED
        BY <3>2, <3>3
    <2>3. CASE WriteFails
      BY <2>1, <2>3 DEF WriteFails, DiskType
    <2> QED
      BY <1>28, <2>2, <2>3
  <1>29. CASE Finish
    BY <1>29 DEF Finish, copyUnchanged, placeVars, DiskType
  <1>30. CASE Receive \/ Start \/ NoJob \/ Idle \/ Terminated
    BY <1>30
      DEF Receive, Start, NoJob, Idle, Terminated, copyUnchanged, Enabled, vars, placeVars,
          evVars, outVars, DiskType
  <1> QED
    BY <1>1, <1>2, <1>3, <1>4, <1>5, <1>6, <1>7, <1>8, <1>9, <1>10, <1>11, <1>12, <1>13, <1>14,
       <1>15, <1>16, <1>17, <1>18, <1>19, <1>20, <1>21, <1>22, <1>23, <1>24, <1>25, <1>26, <1>27,
       <1>28, <1>29, <1>30
      DEF Next, CopyThread, CopyFile, CopyFd, Manager, EventThread

-----------------------------------------------------------------------------
(* The theorems. *)

\* The invariant holds at the start, ...
LEMMA CopyInit == Init => CopyInv
  <1> SUFFICES ASSUME Init PROVE CopyInv
    OBVIOUS
  <1>1. HandInv
    BY HandInit
  <1>2. PlaceInv
    <2>1. Len(task) \in Nat
      BY TaskFacts DEF Init
    <2> QED
      BY <2>1 DEF Init, PlaceInv, Ended, InFile
  <1>3. ResultInv
    BY DEF Init, ResultInv
  <1>4. SlotPast /\ LastIsLast /\ ErrorKept /\ OutputOpen
    BY DEF Init, SlotPast, LastIsLast, ErrorKept, OutputOpen, Writing, None
  <1>5. SourceInv /\ OutputInv /\ NoEarlyClose
    BY DEF Init, SourceInv, OutputInv, NoEarlyClose
  <1> QED
    BY <1>1, <1>2, <1>3, <1>4, <1>5 DEF CopyInv

\* ... and every step keeps it, given that a job is received in time.
LEMMA CopyStep == ASSUME Prompt, CopyInv, Next PROVE CopyInv'
  <1>1. HandInv' /\ HandFacts
    BY HandStep, FromHand DEF CopyInv
  <1>2. PlaceInv' /\ ResultInv'
    BY PlaceStep, ResultStep DEF CopyInv
  <1>3. SlotPast' /\ LastIsLast' /\ ErrorKept' /\ OutputOpen'
    BY <1>1, PastStep, LastStep, KeptStep, OpenStep DEF CopyInv
  <1>4. SourceInv' /\ OutputInv' /\ NoEarlyClose'
    BY <1>1, SourceStep, OutputStep, EarlyStep DEF CopyInv
  <1> QED
    BY <1>1, <1>2, <1>3, <1>4 DEF CopyInv

\* A step that changes nothing keeps it.
LEMMA CopyStutter == CopyInv /\ UNCHANGED vars => CopyInv'
  <1> SUFFICES ASSUME CopyInv, UNCHANGED vars PROVE CopyInv'
    OBVIOUS
  <1> USE DEF vars, placeVars, evVars, outVars
  <1>1. HandInv'
    BY HandStutter DEF CopyInv
  <1>2. PlaceInv' /\ ResultInv'
    BY DEF CopyInv, PlaceInv, ResultInv, Length, File
  <1>3. SlotPast' /\ LastIsLast' /\ ErrorKept' /\ OutputOpen'
    BY DEF CopyInv, SlotPast, LastIsLast, ErrorKept, OutputOpen, Writing, WillClose, SlotBroken,
           Length, File, Dst, piece
  <1>4. SourceInv' /\ NoEarlyClose'
    BY DEF CopyInv, SourceInv, Src, NoEarlyClose
  <1>5. OutputInv'
    BY DEF CopyInv, OutputInv, Accounted, Excused, Doomed, Closing, Current, WillClose, Dst, piece,
           Length, File
  <1> QED
    BY <1>1, <1>2, <1>3, <1>4, <1>5 DEF CopyInv

\* The invariant of the copy.
LEMMA CopyAlways == ASSUME Prompt PROVE Spec => []CopyInv
  <1>1. CopyInv /\ [Next]_vars => CopyInv'
    BY CopyStep, CopyStutter
  <1> QED
    BY CopyInit, <1>1, PTL DEF Spec

\* No job finds its file closed, when a job is received before the end of a
\* session is tested (file_copy.h:88 and :103).
THEOREM OpenForItsJob == ASSUME Prompt PROVE Spec => []NoEarlyClose
  <1>1. CopyInv => NoEarlyClose
    BY DEF CopyInv
  <1> QED
    BY CopyAlways, <1>1, PTL

\* Between sessions only the named outputs are open: those of an empty file, of a
\* joined one, and of a session that failed (file_copy.h:477).
THEOREM ClosedAtEnd == ASSUME Prompt PROVE Spec => []OpenAtEnd
  <1>1. ASSUME CopyInv, pc \in Ended, NEW d \in fds
        PROVE  /\ d[1] = "w"
               /\ \/ task[d[2]].files[d[3]].parts = <<0>>
                  \/ task[d[2]].files[d[3]].kind = "joined"
                  \/ result[d[2]] < 0
    <2>1. d[1] = "w"
      BY <1>1 DEF CopyInv, SourceInv, Ended
    <2>2. Accounted(d) /\ d[2] < sess
      BY <1>1, <2>1 DEF CopyInv, OutputInv, Accounted
    <2>3. HandFacts
      BY <1>1, FromHand DEF CopyInv
    <2>4. ~Closing(d)
      BY <1>1, <2>3 DEF Closing, WillClose, HandFacts, SlotFree
    <2>5. ~Current(d)
      BY <1>1 DEF Current, Ended
    <2>6. Excused(d) \/ Doomed(d)
      BY <2>2, <2>4, <2>5 DEF Accounted
    <2>7. Doomed(d) => result[d[2]] < 0
      BY <2>2 DEF Doomed
    <2> QED
      BY <2>1, <2>6, <2>7, Zenon DEF Excused
  <1>2. CopyInv => OpenAtEnd
    BY <1>1 DEF OpenAtEnd, Ended
  <1> QED
    BY CopyAlways, <1>2, PTL

\* The types hold at the start, ...
LEMMA TypeInit == Init => PlaceInv /\ ResultInv /\ TypeInv
  <1> SUFFICES ASSUME Init PROVE PlaceInv /\ ResultInv /\ TypeInv
    OBVIOUS
  <1>1. PlaceInv /\ ResultInv
    BY CopyInit DEF CopyInv
  <1>2. ControlType /\ SwitchType
    <2>1. << >> \in Seq(Job)
      OBVIOUS
    <2>2. ControlType
      BY <2>1 DEF Init, ControlType, Job
    <2> QED
      BY <2>2 DEF Init, SwitchType
  <1>3. SlotType
    BY DEF Init, SlotType, Flags
  <1>4. FilesType
    BY DEF Init, FilesType
  <1>5. DiskType
    <2>1. << >> \in Outputs
      BY DEF Outputs
    <2> QED
      BY <2>1 DEF Init, DiskType
  <1> QED
    BY <1>1, <1>2, <1>3, <1>4, <1>5 DEF TypeInv

\* ... and at every step that changes nothing.
LEMMA TypeStutter ==
    PlaceInv /\ ResultInv /\ TypeInv /\ UNCHANGED vars => PlaceInv' /\ ResultInv' /\ TypeInv'
  <1> SUFFICES ASSUME PlaceInv, ResultInv, TypeInv, UNCHANGED vars
               PROVE  PlaceInv' /\ ResultInv' /\ TypeInv'
    OBVIOUS
  <1> USE DEF vars, placeVars, evVars, outVars
  <1>1. PlaceInv' /\ ResultInv'
    BY DEF PlaceInv, ResultInv, Length, File
  <1>2. ControlType' /\ SwitchType' /\ SlotType' /\ FilesType' /\ DiskType'
    BY DEF TypeInv, ControlType, SwitchType, SlotType, FilesType, DiskType
  <1> QED
    BY <1>1, <1>2 DEF TypeInv

\* Every variable keeps to its type, for any tasks and faults and whether or not
\* a job is received in time.
THEOREM TypeCorrect == Spec => []TypeOK
  <1> DEFINE Inv == PlaceInv /\ ResultInv /\ TypeInv
  <1>1. ASSUME Inv, Next PROVE Inv'
    BY <1>1, PlaceStep, ResultStep, ControlStep, SwitchStep, SlotTypeStep, FilesStep, DiskStep
      DEF TypeInv
  <1>2. Inv /\ UNCHANGED vars => Inv'
    BY TypeStutter
  <1>3. Inv => TypeOK
    <2> SUFFICES ASSUME Inv PROVE TypeOK
      OBVIOUS
    <2>1. PlaceType
      BY DEF PlaceInv, ResultInv, TypeInv, ControlType, SwitchType, PlaceType
    <2>2. EventType
      BY DEF TypeInv, ControlType, SwitchType, SlotType, EventType, Job
    <2>3. OutType
      BY DEF TypeInv, FilesType, DiskType, Outputs, OutType
    <2> QED
      BY <2>1, <2>2, <2>3 DEF TypeOK
  <1>4. Init => Inv
    BY TypeInit
  <1> HIDE DEF Inv
  <1> QED
    BY <1>1, <1>2, <1>3, <1>4, PTL DEF Spec

-----------------------------------------------------------------------------
(* What is in the outputs.                                                 *)
(*                                                                         *)
(* Contiguous holds of the outputs as they will be once the chunk in the   *)
(* slot is written, which reach as far as the copy thread has come, unless *)
(* a write has failed: then no chunk is sent before the session ends.      *)

\* The chunk in the slot is still to be written.
MemInv == slot.mem # None => ~SlotFree /\ ev # "wrote"

\* A write has failed, or will without memory.
WriteFailed ==
    /\ use_async_fd = 1
    /\ \/ "ERROR" \in slot.flags
       \/ ev = "wrote" /\ "ERROR" \in evflags
       \/ ~SlotFree /\ ev # "wrote" /\ slot.mem = None

\* What was deleted is not being written.
UnlinkedPast == \A d \in unlinked :
    \/ d[2] < sess
    \/ pc \notin Ended /\ d[2] = sess /\ d[3] < fi
    \/ pc \in {"return", "end", "endwait"} /\ d[2] = sess /\ d[3] = fi

\* The outputs of the files to come, and of the one that is being copied.
Untouched(s, f) == \/ s > sess
                   \/ s = sess /\ pc \in Ended
                   \/ s = sess /\ f > fi
                   \/ s = sess /\ f = fi /\ pc = "open" /\ n = 0
ShapeInv ==
    /\ \A s \in DOMAIN task : \A f \in DOMAIN task[s].files :
           Untouched(s, f) => disk[s][f] = << >>
    /\ pc \in {"copy", "send"} => DOMAIN disk[sess][fi] = 1 .. piece + 1
    /\ pc = "open" /\ n > 0 => DOMAIN disk[sess][fi] = 1 .. (IF File.kind = "joined" THEN 1 ELSE n)

\* An output has the chunks before the one at position k of fragment or piece p.
UpTo(file, out, p, k) ==
    IF k > 0 THEN out # << >> /\ out[Len(out)] = <<p, k - 1>>
    ELSE IF file.kind = "joined" /\ p > 0
         THEN out # << >> /\ out[Len(out)] = <<p - 1, file.parts[p] - 1>>
    ELSE out = << >>

EarlierReach(file, out, k) == \A p \in 1 .. k : ReachesEnd(file, p, out[p])

\* The outputs reach as far as the copy thread has come.
ReachedSoFar ==
    /\ pc \in {"copy", "send"} =>
           /\ EarlierReach(File, Ahead[sess][fi], piece)
           /\ UpTo(File, Ahead[sess][fi][piece + 1], n, pos)
    /\ pc = "open" /\ n > 0 =>
           IF File.kind = "joined" THEN UpTo(File, Ahead[sess][fi][1], n, 0)
                                   ELSE EarlierReach(File, Ahead[sess][fi], n)
ReachInv == ~WriteFailed => ReachedSoFar

AheadInv == \A s \in DOMAIN task : \A f \in DOMAIN task[s].files :
    InSequence(task[s].files[f], Ahead[s][f], Gone(s, f))

OrderInv == Contiguous /\ AheadInv /\ MemInv /\ UnlinkedPast /\ ShapeInv /\ ReachInv

\* The calls that fail out of the copy thread's sight, or before all fragments are found.
Unseen == {"stat", "malloc", "write", "user"}

\* Without them no write fails and nothing is deleted.
NoFailure ==
    /\ aborted = FALSE /\ unlinked = {}
    /\ pc \notin {"abortwait", "unlink"}
    /\ "ERROR" \notin slot.flags /\ "ERROR" \notin evflags
    /\ ~SlotFree /\ ev # "wrote" => slot.mem # None

\* A file that was copied without an error is complete, and so is what was removed.
CopiedInv == pc \in {"joinwait", "close", "return"} /\ ret = 0 => Complete(File, Ahead[sess][fi])
RemovedInv == \A m \in removed :
    /\ m[1] \in DOMAIN task /\ m[2] \in DOMAIN task[m[1]].files
    /\ m[1] < sess \/ (pc \notin Ended /\ m[1] = sess /\ m[2] < fi)
    /\ Complete(task[m[1]].files[m[2]], Ahead[m[1]][m[2]])

MoveInv == NoFailure /\ CopiedInv /\ RemovedInv

\* What the lemmas know of a file.
FileOK(file) ==
    /\ file.kind \in {"plain", "joined", "split"}
    /\ DOMAIN file.parts = 1 .. Len(file.parts) /\ Len(file.parts) \in Nat
    /\ \A p \in DOMAIN file.parts : file.parts[p] \in Nat
    /\ file.kind = "plain" => Len(file.parts) = 1
    /\ file.kind = "joined" => \A p \in DOMAIN file.parts : file.parts[p] > 0

\* Where the chunks of fragment or piece p of a file go.
PieceOf(file, p) == IF file.kind = "split" THEN p ELSE 0

Chunks == Seq(Nat \X Nat)

\* The files of a task are such files.
LEMMA FilesOK ==
    ASSUME NEW t \in Tasks, NEW s \in DOMAIN t, NEW f \in DOMAIN t[s].files
    PROVE  FileOK(t[s].files[f])
  BY TaskFacts DEF FileOK

\* A list with an element more.
LEMMA AppendFacts ==
    ASSUME NEW S, NEW out \in Seq(S), NEW x \in S
    PROVE  /\ Len(out) \in Nat /\ DOMAIN out = 1 .. Len(out)
           /\ Len(Append(out, x)) = Len(out) + 1 /\ DOMAIN Append(out, x) = 1 .. Len(out) + 1
           /\ Append(out, x) # << >> /\ Append(out, x)[Len(out) + 1] = x
           /\ \A i \in 1 .. Len(out) : Append(out, x)[i] = out[i]
           /\ Append(out, x) \in Seq(S) /\ (out # << >> => Len(out) >= 1)
  OBVIOUS

\* With a chunk more an output reaches one chunk further.
LEMMA ChunkReached ==
    ASSUME NEW file, NEW p \in Nat, NEW k \in Nat, NEW out \in Chunks
    PROVE  UpTo(file, Append(out, <<p, k>>), p, k + 1)
  <1> DEFINE new == Append(out, <<p, k>>)
  <1>1. <<p, k>> \in Nat \X Nat
    OBVIOUS
  <1>2. Len(new) = Len(out) + 1 /\ new # << >> /\ new[Len(out) + 1] = <<p, k>>
    BY <1>1, AppendFacts, SMTT(40) DEF Chunks
  <1> HIDE DEF new
  <1>3. UpTo(file, new, p, k + 1)
    BY <1>2, k + 1 > 0, (k + 1) - 1 = k DEF UpTo
  <1> QED
    BY <1>3 DEF new

\* A chunk put after those before it keeps an output in order ...
LEMMA ChunkInOrder ==
    ASSUME NEW file, FileOK(file), NEW p \in Nat, p + 1 \in DOMAIN file.parts,
           NEW k \in Nat, k < file.parts[p + 1], NEW out \in Chunks, UpTo(file, out, p, k),
           InOrder(file, PieceOf(file, p) + 1, out)
    PROVE  /\ InOrder(file, PieceOf(file, p) + 1, Append(out, <<p, k>>))
           /\ UpTo(file, Append(out, <<p, k>>), p, k + 1)
  <1> DEFINE new == Append(out, <<p, k>>)
             q == PieceOf(file, p) + 1
  <1>1. /\ Len(out) \in Nat /\ Len(new) = Len(out) + 1 /\ new # << >>
        /\ new[Len(out) + 1] = <<p, k>>
        /\ \A i \in 1 .. Len(out) : new[i] = out[i]
    <2>1. <<p, k>> \in Nat \X Nat
      OBVIOUS
    <2> QED
      BY <2>1, AppendFacts, SMTT(40) DEF Chunks
  <1> HIDE DEF new
  <1>2. UpTo(file, new, p, k + 1)
    BY ChunkReached DEF new
  <1>3. file.kind # "joined" \/ p = 0 => q = p + 1
    BY DEF PieceOf, FileOK
  <1>0. q \in Nat /\ InOrder(file, q, out)
    BY DEF PieceOf
  <1> HIDE DEF q
  <1>4. CASE out = << >>
    <2>1. k = 0 /\ q = p + 1 /\ Len(out) = 0
      BY <1>3, <1>4 DEF UpTo
    <2> QED
      <3>1. file.parts[q] > 0 /\ new[1] = <<q - 1, 0>> /\ Len(new) = 1
        BY <1>0, <1>1, <2>1
      <3>2. InOrder(file, q, new)
        BY <3>1 DEF InOrder
      <3> QED
        BY <1>2, <3>2 DEF new, q
  <1>5. CASE out # << >>
    <2>1. Len(out) >= 1
      BY <1>5 DEF Chunks
    <2>2. file.parts[q] > 0 /\ new[1] = <<q - 1, 0>>
      BY <1>0, <1>1, <1>5, <2>1 DEF InOrder
    <2>3. Follows(file, out[Len(out)], <<p, k>>)
      <3>1. CASE k > 0
        <4>1. out[Len(out)] = <<p, k - 1>>
          BY <3>1 DEF UpTo
        <4> QED
          BY <4>1 DEF Follows
      <3>2. CASE k = 0
        <4>1. file.kind = "joined" /\ p > 0 /\ out[Len(out)] = <<p - 1, file.parts[p] - 1>>
          BY <1>5, <3>2 DEF UpTo
        <4>2. file.parts[p] \in Nat /\ p < Len(file.parts)
          BY <4>1 DEF FileOK
        <4> QED
          BY <3>2, <4>1, <4>2 DEF Follows
      <3> QED
        BY <3>1, <3>2
    <2>4. ASSUME NEW i \in 1 .. Len(new) - 1 PROVE Follows(file, new[i], new[i + 1])
      <3>1. CASE i = Len(out)
        BY <1>1, <2>1, <2>3, <3>1
      <3>2. CASE i # Len(out)
        <4>1. i \in 1 .. Len(out) - 1 /\ i + 1 \in 1 .. Len(out)
          BY <1>1, <3>2
        <4>2. new[i] = out[i] /\ new[i + 1] = out[i + 1]
          BY <1>1, <4>1
        <4> QED
          BY <1>0, <1>5, <4>1, <4>2 DEF InOrder
      <3> QED
        BY <3>1, <3>2
    <2> QED
      <3>1. InOrder(file, q, new)
        BY <2>2, <2>4 DEF InOrder
      <3> QED
        BY <1>2, <3>1 DEF new, q
  <1> QED
    BY <1>4, <1>5

\* ... and the last of them makes it complete.
LEMMA LastReaches ==
    ASSUME NEW file, FileOK(file), NEW p \in Nat, p + 1 \in DOMAIN file.parts,
           file.kind = "joined" => p + 1 = Len(file.parts),
           NEW out \in Chunks, UpTo(file, out, p, file.parts[p + 1])
    PROVE  ReachesEnd(file, PieceOf(file, p) + 1, out)
  <1>1. file.parts[p + 1] \in Nat /\ (file.kind = "joined" => file.parts[p + 1] > 0)
    BY DEF FileOK
  <1>2. file.kind # "joined" => PieceOf(file, p) = p
    BY DEF PieceOf, FileOK
  <1> QED
    BY <1>1, <1>2 DEF UpTo, ReachesEnd

\* A joined file of which a fragment is complete goes on with the next one.
LEMMA NextFragment ==
    ASSUME NEW file, FileOK(file), file.kind = "joined", NEW p \in Nat, p + 1 \in DOMAIN file.parts,
           NEW out, UpTo(file, out, p, file.parts[p + 1])
    PROVE  UpTo(file, out, p + 1, 0)
  BY DEF FileOK, UpTo

\* The outputs of a file stay in sequence when a piece is added, ...
LEMMA SequenceCreated ==
    ASSUME NEW file, NEW out \in Seq(Chunks), NEW gone, InSequence(file, out, gone),
           NEW now, gone \subseteq now
    PROVE  InSequence(file, Append(out, << >>), now)
  <1> DEFINE new == Append(out, << >>)
  <1>1. /\ DOMAIN new = 1 .. Len(out) + 1 /\ DOMAIN out = 1 .. Len(out) /\ Len(out) \in Nat
        /\ new[Len(out) + 1] = << >> /\ \A i \in 1 .. Len(out) : new[i] = out[i]
    OBVIOUS
  <1> HIDE DEF new
  <1>2. ASSUME NEW q \in DOMAIN new
        PROVE  /\ InOrder(file, q, new[q])
               /\ new[q] # << >> =>
                    \A p \in 1 .. q - 1 : p \in now \/ ReachesEnd(file, p, new[p])
    <2>1. CASE q = Len(out) + 1
      BY <1>1, <2>1 DEF InOrder
    <2>2. CASE q # Len(out) + 1
      <3>1. q \in DOMAIN out /\ \A p \in 1 .. q - 1 : p \in 1 .. Len(out)
        BY <1>1, <2>2
      <3> QED
        BY <1>1, <3>1 DEF InSequence
    <2> QED
      BY <2>1, <2>2
  <1> QED
    BY <1>2 DEF InSequence, new

\* ... or deleted, ...
LEMMA SequenceGone ==
    ASSUME NEW file, NEW out, NEW gone, InSequence(file, out, gone), NEW now, gone \subseteq now
    PROVE  InSequence(file, out, now)
  BY DEF InSequence

\* ... when one is emptied that is deleted, ...
LEMMA SequenceDeleted ==
    ASSUME NEW file, NEW out \in Seq(Chunks), NEW gone, InSequence(file, out, gone),
           NEW c \in DOMAIN out, NEW now, gone \subseteq now, c \in now
    PROVE  InSequence(file, [out EXCEPT ![c] = << >>], now)
  BY DEF InSequence, InOrder

\* ... and when a chunk is put in the last one, the others being complete.
LEMMA SequenceExtended ==
    ASSUME NEW file, NEW k \in Nat, NEW out, DOMAIN out = 1 .. k + 1, NEW gone,
           InSequence(file, out, gone),
           NEW new, DOMAIN new = DOMAIN out, \A q \in 1 .. k : new[q] = out[q],
           EarlierReach(file, out, k), InOrder(file, k + 1, new[k + 1])
    PROVE  InSequence(file, new, gone)
  <1>1. ASSUME NEW q \in 1 .. k + 1
        PROVE  InOrder(file, q, new[q]) /\ \A p \in 1 .. q - 1 : ReachesEnd(file, p, new[p])
    <2>1. \A p \in 1 .. q - 1 : p \in 1 .. k
      OBVIOUS
    <2>2. \A p \in 1 .. q - 1 : ReachesEnd(file, p, new[p])
      BY <2>1 DEF EarlierReach
    <2>3. InOrder(file, q, new[q])
      <3>1. q = k + 1 \/ q \in 1 .. k
        OBVIOUS
      <3> QED
        BY <3>1 DEF InSequence
    <2> QED
      BY <2>2, <2>3
  <1> QED
    BY <1>1 DEF InSequence

-----------------------------------------------------------------------------
(* The steps that put nothing in the slot or the outputs. *)

\* The copy thread leaves a file, or the files of a session.
LeaveFile == StatFails \/ OpenReadFails \/ OpenWriteFails \/ LastPart \/ LastFragment \/ JoinWait
             \/ CloseSource \/ AbortWait \/ ReadFails \/ SeeError
LeaveFiles == FileFailed \/ RemoveFails \/ NoMoreFiles \/ EndPending
EndOfSession == End \/ EndWait

Outside == {"joinwait", "close", "abortwait", "unlink", "return"}

\* What they leave alone, and where they go to.
LEMMA LeaveFrame ==
    ASSUME LeaveFile
    PROVE  /\ UNCHANGED <<task, sess, fi, disk, slot, unlinked, removed, aborted, ev, evflags>>
           /\ UNCHANGED use_async_fd
           /\ pc \in {"open", "copy", "send", "joinwait", "close", "abortwait"} /\ pc' \in Outside
  BY DEF LeaveFile, StatFails, OpenReadFails, OpenWriteFails, LastPart, LastFragment, JoinWait,
         CloseSource, AbortWait, ReadFails, SeeError, Opening, Copying, Copied, Skip, SkipWith,
         placeVars, evVars, outVars, Outside

\* Leaving the file: its descriptors are closed, or the session ends.
LEMMA LeaveFilesFrame ==
    ASSUME LeaveFiles
    PROVE  /\ UNCHANGED <<task, sess, fi, disk, slot, unlinked, removed, aborted, ev, evflags>>
           /\ UNCHANGED use_async_fd
           /\ pc \in {"return", "open", "end"} /\ pc' \in {"end", "endwait"}
  BY DEF LeaveFiles, FileFailed, RemoveFails, NoMoreFiles, EndPending, ToEnd, placeVars, evVars,
         outVars

\* The end of a session.
LEMMA EndFrame ==
    ASSUME EndOfSession
    PROVE  /\ UNCHANGED <<task, fi, disk, slot, unlinked, removed, aborted, ev, evflags>>
           /\ pc \in {"end", "endwait"} /\ pc' = "idle" /\ sess' = sess + 1 /\ use_async_fd' = 0
  BY DEF EndOfSession, End, EndWait, EndSession, evVars, outVars

\* The end of the event thread.
LEMMA QuitFrame ==
    ASSUME Quit \/ Join
    PROVE  /\ UNCHANGED <<task, sess, fi, disk, slot, unlinked, removed, aborted, ev, evflags>>
           /\ UNCHANGED use_async_fd
           /\ pc \in Ended /\ pc' \in {"joining", "over"}
  BY DEF Quit, Join, placeVars, evVars, outVars, Ended

\* A new session.
LEMMA StartFrame ==
    ASSUME StartSession
    PROVE  /\ UNCHANGED <<task, sess, disk, slot, unlinked, removed, ev, evflags>>
           /\ pc = "idle" /\ pc' = "open" /\ n' = 0 /\ fi' = 1 /\ use_async_fd' = 128
           /\ aborted' = FALSE
  BY DEF StartSession, evVars, outVars

\* The next file: the one that was copied may be removed.
LEMMA NextFileFrame ==
    ASSUME NextFile
    PROVE  /\ UNCHANGED <<task, sess, disk, slot, unlinked, aborted, ev, evflags, use_async_fd>>
           /\ pc = "return" /\ pc' = "open" /\ n' = 0 /\ fi' = fi + 1 /\ ret = 0
           /\ removed' \subseteq removed \cup {<<sess, fi, PathPart>>}
  BY DEF NextFile, MayRemove, evVars

\* The next fragment or piece.
LEMMA NextPartFrame ==
    ASSUME NextPart
    PROVE  /\ UNCHANGED <<task, sess, fi, disk, slot, unlinked, removed, aborted, ev, evflags>>
           /\ UNCHANGED use_async_fd
           /\ pc = "copy" /\ pos >= Length /\ pc' = "open" /\ n' = n + 1
           /\ File.kind # "plain" /\ n + 2 \in DOMAIN File.parts
  BY DEF NextPart, Copied, HasMore, evVars, outVars

\* The steps that stay in the file.
LEMMA StayFrame ==
    ASSUME ReadChunk \/ UserAbort
    PROVE  /\ UNCHANGED <<task, sess, fi, n, pos, disk, slot, unlinked, removed, ev, evflags>>
           /\ UNCHANGED use_async_fd
           /\ pc = "copy" /\ pc' \in {"copy", "send"}
  BY DEF ReadChunk, UserAbort, Copying, placeVars, evVars, outVars

\* The steps of the copy thread and of the event thread.
LEMMA NextCases ==
    ASSUME Next
    PROVE  \/ LeaveFile \/ LeaveFiles \/ EndOfSession \/ Quit \/ Join \/ StartSession \/ NextFile
           \/ NextPart \/ ReadChunk \/ UserAbort
           \/ OpenFile \/ MemFails \/ SendChunk \/ UnlinkOutput
           \/ Receive \/ Start \/ NoJob \/ Idle \/ Terminated \/ Write \/ WriteFails \/ Finish
  BY DEF Next, CopyThread, CopyFile, CopyFd, Manager, EventThread, LeaveFile, LeaveFiles,
         EndOfSession

-----------------------------------------------------------------------------
(* The outputs once the slot's chunk is written. *)

\* The slot's chunk goes to an output that is there.
Coming(s, f, q) == slot.mem # None /\ slot.fd = <<"w", s, f, q - 1>> /\ slot.fd \notin unlinked

IsFun(g) == g = [q \in DOMAIN g |-> g[q]]

\* Functions that agree everywhere are the same.
LEMMA SameFun ==
    ASSUME NEW g, NEW h, IsFun(g), IsFun(h), DOMAIN g = DOMAIN h, \A q \in DOMAIN g : g[q] = h[q]
    PROVE  g = h
  BY DEF IsFun

\* Each output with the chunk of the slot, if it is for it.
LEMMA AheadIs ==
    ASSUME DiskType, SlotType, NEW s \in DOMAIN task, NEW f \in DOMAIN task[s].files
    PROVE  /\ DOMAIN Ahead[s][f] = DOMAIN disk[s][f]
           /\ disk[s][f] \in Seq(Chunks)
           /\ IsFun(Ahead[s][f]) /\ IsFun(disk[s][f])
           /\ \A q \in DOMAIN disk[s][f] :
                /\ Coming(s, f, q) => Ahead[s][f][q] = Append(disk[s][f][q], slot.mem)
                /\ ~Coming(s, f, q) => Ahead[s][f][q] = disk[s][f][q]
                /\ disk[s][f][q] \in Chunks /\ Ahead[s][f][q] \in Chunks
  <1>1. disk[s][f] \in Seq(Chunks)
    BY DEF DiskType, Outputs, Chunks
  <1>2. \A q \in DOMAIN disk[s][f] : disk[s][f][q] \in Chunks
    BY <1>1
  <1>3. /\ DOMAIN Ahead[s][f] = DOMAIN disk[s][f]
        /\ \A q \in DOMAIN disk[s][f] :
             /\ Coming(s, f, q) => Ahead[s][f][q] = Append(disk[s][f][q], slot.mem)
             /\ ~Coming(s, f, q) => Ahead[s][f][q] = disk[s][f][q]
    BY DEF Ahead, Coming
  <1>4. ASSUME NEW q \in DOMAIN disk[s][f] PROVE Ahead[s][f][q] \in Chunks
    <2>1. Coming(s, f, q) => slot.mem \in Nat \X Nat
      BY DEF Coming, SlotType
    <2>2. Coming(s, f, q) => Append(disk[s][f][q], slot.mem) \in Chunks
      BY <1>2, <2>1, AppendFacts DEF Chunks
    <2> QED
      BY <1>2, <1>3, <2>2
  <1>5. IsFun(disk[s][f])
    BY <1>1 DEF IsFun
  <1>6. IsFun(Ahead[s][f])
    <2>1. Ahead[s][f] = [q \in DOMAIN disk[s][f] |-> IF Coming(s, f, q)
                                THEN Append(disk[s][f][q], slot.mem) ELSE disk[s][f][q]]
      BY DEF Ahead, Coming
    <2> QED
      BY <2>1, Zenon DEF IsFun
  <1> QED
    BY <1>1, <1>2, <1>3, <1>4, <1>5, <1>6

\* They are lists of chunks, as the outputs are.
LEMMA AheadList ==
    ASSUME DiskType, SlotType, NEW s \in DOMAIN task, NEW f \in DOMAIN task[s].files
    PROVE  /\ disk[s][f] \in Seq(Chunks) /\ Ahead[s][f] \in Seq(Chunks)
           /\ DOMAIN Ahead[s][f] = DOMAIN disk[s][f]
  <1>1. /\ DOMAIN Ahead[s][f] = DOMAIN disk[s][f] /\ IsFun(Ahead[s][f])
        /\ disk[s][f] \in Seq(Chunks)
        /\ \A q \in DOMAIN disk[s][f] : Ahead[s][f][q] \in Chunks
    BY AheadIs
  <1>2. DOMAIN disk[s][f] = 1 .. Len(disk[s][f]) /\ Len(disk[s][f]) \in Nat
    BY <1>1
  <1>3. Ahead[s][f] \in [1 .. Len(disk[s][f]) -> Chunks]
    BY <1>1, <1>2 DEF IsFun
  <1> QED
    BY <1>1, <1>2, <1>3

\* They are a function of the outputs, the slot and what was deleted.
LEMMA AheadSame ==
    ASSUME UNCHANGED <<task, disk, slot, unlinked>>
    PROVE  /\ Ahead' = Ahead
           /\ Contiguous <=> Contiguous'
           /\ AheadInv <=> AheadInv'
  <1>1. Ahead' = Ahead
    BY DEF Ahead
  <1>2. \A s, f : Gone(s, f)' = Gone(s, f)
    BY DEF Gone
  <1> QED
    BY <1>1, <1>2 DEF Contiguous, AheadInv

\* The same after a step.
LEMMA AheadNext ==
    ASSUME task' = task, NEW s \in DOMAIN task, NEW f \in DOMAIN task[s].files
    PROVE  /\ DOMAIN Ahead'[s][f] = DOMAIN disk'[s][f] /\ IsFun(Ahead'[s][f])
           /\ \A q \in DOMAIN disk'[s][f] :
                /\ Coming(s, f, q)' => Ahead'[s][f][q] = Append(disk'[s][f][q], slot'.mem)
                /\ ~Coming(s, f, q)' => Ahead'[s][f][q] = disk'[s][f][q]
  <1>1. Ahead'[s][f] = [q \in DOMAIN disk'[s][f] |-> IF Coming(s, f, q)'
                              THEN Append(disk'[s][f][q], slot'.mem) ELSE disk'[s][f][q]]
    BY DEF Ahead, Coming
  <1>2. DOMAIN Ahead'[s][f] = DOMAIN disk'[s][f] /\ IsFun(Ahead'[s][f])
    BY <1>1, Zenon DEF IsFun
  <1> QED
    BY <1>1, <1>2

-----------------------------------------------------------------------------
(* Each part of the invariant is kept. *)

\* Sending a chunk, and opening and deleting an output.
LEMMA SendFrame ==
    ASSUME SendChunk, CopyInv
    PROVE  /\ UNCHANGED <<task, sess, fi, n, aborted, ev, evflags, disk, unlinked, removed>>
           /\ pc = "send" /\ pos' = pos + 1 /\ use_async_fd' = 1
           /\ pc' \in {"copy", "close"} /\ (pc' = "close" => ret' = -1)
           /\ slot'.fd = Dst /\ slot'.mem \in {<<n, pos>>, None} /\ "ENABLE" \in slot'.flags
           /\ "ERROR" \notin slot'.flags
           /\ SlotFree /\ ~WriteFailed /\ ev # "wrote"
           /\ sess \in DOMAIN task /\ fi \in DOMAIN task[sess].files /\ pc \notin Ended
           /\ ("malloc" \notin Faults => slot'.mem = <<n, pos>>)
           /\ (aborted = FALSE => pc' = "copy")
  <1>1. HandFacts /\ PlaceInv
    BY FromHand DEF CopyInv
  <1>2. pc = "send" /\ sess \in DOMAIN task /\ fi \in DOMAIN task[sess].files /\ pc \notin Ended
    BY <1>1 DEF SendChunk, PlaceInv, InFile, Ended
  <1>3. SlotFree
    BY <1>1, <1>2 DEF SendChunk, HandFacts
  <1>4. ev # "wrote"
    BY <1>1, <1>3 DEF HandFacts
  <1>5. ~WriteFailed
    BY <1>3, <1>4 DEF SendChunk, WriteFailed, SlotError
  <1>6. /\ slot'.fd = Dst /\ slot'.mem \in {<<n, pos>>, None} /\ "ENABLE" \in slot'.flags
        /\ "ERROR" \notin slot'.flags
        /\ ("malloc" \notin Faults => slot'.mem = <<n, pos>>)
    BY DEF SendChunk
  <1>7. /\ UNCHANGED <<task, sess, fi, n, aborted, ev, evflags, disk, unlinked, removed>>
        /\ pos' = pos + 1 /\ use_async_fd' = 1
        /\ pc' \in {"copy", "close"} /\ (pc' = "close" => ret' = -1)
        /\ (aborted = FALSE => pc' = "copy")
    BY DEF SendChunk, Advance, evVars, outVars
  <1> QED
    BY <1>2, <1>3, <1>4, <1>5, <1>6, <1>7

\* Opening a file, with or without memory for it.
LEMMA OpenFrame ==
    ASSUME OpenFile \/ MemFails, PlaceInv
    PROVE  /\ UNCHANGED <<task, sess, fi, n, aborted, slot, ev, evflags, unlinked, removed>>
           /\ UNCHANGED use_async_fd
           /\ pc = "open" /\ sess \in DOMAIN task /\ fi \in DOMAIN task[sess].files
           /\ OpenFile => /\ pc' = "copy" /\ pos' = 0
                          /\ disk' = IF NewOutput THEN Created ELSE disk
           /\ MemFails => pc' = "close" /\ ret' = -1 /\ n = 0 /\ disk' \in {disk, Created}
  BY DEF OpenFile, MemFails, Opening, Skip, SkipWith, placeVars, evVars, PlaceInv, Ended

\* Deleting an output that could not be written.
LEMMA UnlinkFrame ==
    ASSUME UnlinkOutput, PlaceInv
    PROVE  /\ UNCHANGED <<task, sess, fi, n, aborted, slot, ev, evflags, removed, use_async_fd>>
           /\ pc = "unlink" /\ pc' = "return"
           /\ sess \in DOMAIN task /\ fi \in DOMAIN task[sess].files
           /\ IF piece + 1 \in DOMAIN disk[sess][fi]
              THEN /\ unlinked' = unlinked \cup {Dst}
                   /\ disk' = [disk EXCEPT ![sess][fi][piece + 1] = << >>]
              ELSE UNCHANGED <<unlinked, disk>>
  BY DEF UnlinkOutput, placeVars, evVars, PlaceInv, Ended, InFile

\* The chunk in the slot is written by the job that has it.
LEMMA MemStep ==
    ASSUME CopyInv, MemInv, Next
    PROVE  MemInv'
  <1>0. HandFacts /\ PlaceInv
    BY FromHand DEF CopyInv
  <1>1. CASE UNCHANGED <<slot, ev>>
    BY <1>1 DEF MemInv, SlotFree
  <1>2. CASE SendChunk
    BY <1>2, SendFrame DEF MemInv, SlotFree
  <1>3. CASE Receive \/ Start \/ NoJob \/ Idle \/ Terminated
    BY <1>3, EventFrame DEF MemInv, SlotFree
  <1>4. CASE Write \/ WriteFails
    <2>1. slot'.mem = None
      BY <1>0, <1>4 DEF Write, WriteFails, HandFacts
    <2> QED
      BY <2>1 DEF MemInv
  <1>5. CASE Finish
    <2>1. slot.mem = None
      BY <1>5 DEF MemInv, Finish
    <2>2. slot'.mem = slot.mem
      BY <1>0, <1>5 DEF Finish, HandFacts
    <2> QED
      BY <2>1, <2>2 DEF MemInv
  <1> QED
    BY <1>0, <1>1, <1>2, <1>3, <1>4, <1>5, NextCases, LeaveFrame, LeaveFilesFrame, EndFrame,
       QuitFrame, StartFrame, NextFileFrame, NextPartFrame, StayFrame, OpenFrame, UnlinkFrame

\* What is deleted is of the file that is left, or of one before it.
LEMMA UnlinkedStep ==
    ASSUME PlaceInv, FilesType, UnlinkedPast, CopyInv, Next
    PROVE  UnlinkedPast'
  <1>0. /\ sess \in Nat /\ fi \in Nat /\ n \in Nat
        /\ \A d \in unlinked : d[2] \in Nat /\ d[3] \in Nat
    BY DEF PlaceInv, FilesType, Descriptor
  <1>1. CASE LeaveFile
    BY <1>0, <1>1, LeaveFrame DEF UnlinkedPast, Outside, Ended
  <1>2. CASE LeaveFiles
    BY <1>0, <1>2, LeaveFilesFrame DEF UnlinkedPast, Ended
  <1>3. CASE EndOfSession
    BY <1>0, <1>3, EndFrame DEF UnlinkedPast, Ended
  <1>4. CASE Quit \/ Join
    BY <1>0, <1>4, QuitFrame DEF UnlinkedPast, Ended
  <1>5. CASE StartSession
    BY <1>0, <1>5, StartFrame DEF UnlinkedPast, Ended
  <1>6. CASE NextFile
    BY <1>0, <1>6, NextFileFrame DEF UnlinkedPast, Ended
  <1>7. CASE NextPart
    BY <1>0, <1>7, NextPartFrame DEF UnlinkedPast, Ended
  <1>8. CASE ReadChunk \/ UserAbort
    BY <1>0, <1>8, StayFrame DEF UnlinkedPast, Ended
  <1>9. CASE OpenFile \/ MemFails
    BY <1>0, <1>9, OpenFrame DEF UnlinkedPast, Ended
  <1>10. CASE SendChunk
    BY <1>0, <1>10, SendFrame DEF UnlinkedPast, Ended
  <1>11. CASE UnlinkOutput
    BY <1>0, <1>11, UnlinkFrame DEF UnlinkedPast, Ended, Dst
  <1>12. CASE EventThread \/ Terminated
    BY <1>12, EventUnchanged DEF UnlinkedPast
  <1> QED
    BY <1>1, <1>2, <1>3, <1>4, <1>5, <1>6, <1>7, <1>8, <1>9, <1>10, <1>11, <1>12, NextCases
      DEF EventThread

\* A write makes the outputs what they were to be.
LEMMA WriteIs ==
    ASSUME Write, SlotPast, DiskType, SlotType, FilesType, PlaceInv,
           DOMAIN slot = {"flags", "fd", "mem"},
           NEW s \in DOMAIN task, NEW f \in DOMAIN task[s].files
    PROVE  /\ DOMAIN disk'[s][f] = DOMAIN disk[s][f]
           /\ \A q \in DOMAIN disk[s][f] : disk'[s][f][q] = Ahead[s][f][q]
           /\ disk[s][f] = << >> => disk'[s][f] = << >>
  <1>1. /\ slot.mem # None /\ slot.mem \in Nat \X Nat /\ slot.fd \in Descriptor /\ disk' = Written
        /\ task' = task
    BY DEF Write, SlotType, FilesType, copyUnchanged
  <1>2. PICK a \in Nat, b \in Nat, c \in Nat : slot.fd = <<"w", a, b, c>>
    <2>1. slot.fd # None /\ slot.fd[1] = "w"
      BY <1>1 DEF SlotPast, Descriptor, None
    <2> QED
      BY <1>1, <2>1 DEF Descriptor
  <1>3. \A q \in DOMAIN disk[s][f] :
            Coming(s, f, q) <=> s = a /\ f = b /\ q = c + 1 /\ slot.fd \notin unlinked
    <2>1. DOMAIN disk[s][f] \subseteq Nat
      BY AheadIs, AppendFacts
    <2> QED
      BY <1>1, <1>2, <2>1 DEF Coming
  <1>4. CASE slot.fd \in unlinked
    <2>1. disk' = disk
      BY <1>1, <1>4 DEF Written
    <2> QED
      BY <1>3, <1>4, <2>1, AheadIs
  <1>5. CASE slot.fd \notin unlinked
    <2>1. disk' = [disk EXCEPT ![a][b][c + 1] = Append(@, slot.mem)]
      BY <1>1, <1>2, <1>5 DEF Written
    <2>2. s \in DOMAIN disk /\ f \in DOMAIN disk[s]
      BY DEF DiskType
    <2>3. DOMAIN disk'[s][f] = DOMAIN disk[s][f]
      BY <2>1, <2>2
    <2>4. ASSUME NEW q \in DOMAIN disk[s][f] PROVE disk'[s][f][q] = Ahead[s][f][q]
      <3>1. CASE s = a /\ f = b /\ q = c + 1
        <4>1. disk'[s][f][q] = Append(disk[s][f][q], slot.mem)
          BY <2>1, <2>2, <3>1
        <4>2. Coming(s, f, q)
          BY <1>3, <1>5, <3>1
        <4> QED
          BY <4>1, <4>2, AheadIs
      <3>2. CASE ~(s = a /\ f = b /\ q = c + 1)
        <4>1. disk'[s][f][q] = disk[s][f][q]
          BY <2>1, <2>2, <3>2
        <4>2. ~Coming(s, f, q)
          BY <1>3, <3>2
        <4> QED
          BY <4>1, <4>2, AheadIs
      <3> QED
        BY <3>1, <3>2
    <2>5. disk[s][f] = << >> => disk'[s][f] = << >>
      BY <2>1, <2>2
    <2> QED
      BY <2>3, <2>4, <2>5
  <1> QED
    BY <1>4, <1>5

\* Opening an output adds an empty one to the file that is being copied.
LEMMA CreatedIs ==
    ASSUME disk' = Created, DiskType, sess \in DOMAIN task, fi \in DOMAIN task[sess].files,
           NEW s \in DOMAIN task, NEW f \in DOMAIN task[s].files
    PROVE  IF s = sess /\ f = fi THEN disk'[s][f] = Append(disk[s][f], << >>)
                                 ELSE disk'[s][f] = disk[s][f]
  BY DEF Created, DiskType

\* Deleting one empties it.
LEMMA DeletedIs ==
    ASSUME disk' = [disk EXCEPT ![sess][fi][piece + 1] = << >>], DiskType,
           NEW s \in DOMAIN task, NEW f \in DOMAIN task[s].files
    PROVE  IF s = sess /\ f = fi THEN disk'[s][f] = [disk[s][f] EXCEPT ![piece + 1] = << >>]
                                 ELSE disk'[s][f] = disk[s][f]
  BY DEF DiskType

\* The outputs there are follow the place of the copy thread.
LEMMA ShapeStep ==
    ASSUME CopyInv, TypeInv, ShapeInv, Next
    PROVE  ShapeInv'
  <1>0. /\ HandFacts /\ PlaceInv /\ SlotPast /\ DiskType /\ SlotType /\ FilesType
        /\ sess \in Nat /\ fi \in Nat \ {0} /\ n \in Nat /\ task \in Tasks
    BY FromHand DEF CopyInv, TypeInv, PlaceInv
  <1>a. /\ \A s \in DOMAIN task : s \in Nat
        /\ \A s \in DOMAIN task : \A f \in DOMAIN task[s].files : f \in Nat \ {0}
    BY <1>0, TaskFacts
  <1>1. CASE LeaveFile
    BY <1>0, <1>1, <1>a, LeaveFrame DEF ShapeInv, Untouched, Outside, Ended
  <1>2. CASE LeaveFiles
    BY <1>0, <1>2, <1>a, LeaveFilesFrame DEF ShapeInv, Untouched, Ended
  <1>3. CASE EndOfSession
    BY <1>0, <1>3, <1>a, EndFrame DEF ShapeInv, Untouched, Ended
  <1>4. CASE Quit \/ Join
    BY <1>0, <1>4, <1>a, QuitFrame DEF ShapeInv, Untouched, Ended
  <1>5. CASE StartSession
    BY <1>0, <1>5, <1>a, StartFrame DEF ShapeInv, Untouched, Ended
  <1>6. CASE NextFile
    BY <1>0, <1>6, <1>a, NextFileFrame DEF ShapeInv, Untouched, Ended
  <1>7. CASE NextPart
    <2>1. File.kind \in {"plain", "joined", "split"}
      <3>1. sess \in DOMAIN task /\ fi \in DOMAIN task[sess].files
        BY <1>0, <1>7, NextPartFrame DEF PlaceInv, Ended, InFile
      <3> QED
        BY <1>0, <3>1, TaskFacts DEF File
    <2>2. UNCHANGED <<task, sess, fi, disk>> /\ pc = "copy" /\ pc' = "open" /\ n' = n + 1
          /\ File.kind # "plain"
      BY <1>7, NextPartFrame
    <2>3. DOMAIN disk[sess][fi] = 1 .. (IF File.kind = "joined" THEN 1 ELSE n')
      BY <2>1, <2>2 DEF ShapeInv, piece
    <2>4. \A s \in DOMAIN task : \A f \in DOMAIN task[s].files :
              Untouched(s, f)' => disk[s][f] = << >>
      BY <1>0, <1>a, <2>2 DEF ShapeInv, Untouched, Ended
    <2>5. File' = File
      BY <2>2 DEF File
    <2> QED
      BY <2>2, <2>3, <2>4, <2>5 DEF ShapeInv
  <1>8. CASE ReadChunk \/ UserAbort
    BY <1>0, <1>8, <1>a, StayFrame DEF ShapeInv, Untouched, Ended, piece, File
  <1>9. CASE MemFails
    <2>1. UNCHANGED <<task, sess, fi, n>> /\ pc = "open" /\ pc' = "close" /\ n = 0
          /\ sess \in DOMAIN task /\ fi \in DOMAIN task[sess].files /\ disk' \in {disk, Created}
      BY <1>0, <1>9, OpenFrame
    <2>2. ASSUME NEW s \in DOMAIN task, NEW f \in DOMAIN task[s].files, Untouched(s, f)'
          PROVE  disk'[s][f] = << >>
      <3>1. Untouched(s, f) /\ ~(s = sess /\ f = fi)
        BY <1>0, <1>a, <2>1, <2>2 DEF Untouched, Ended
      <3>2. disk'[s][f] = disk[s][f]
        BY <1>0, <2>1, <3>1, CreatedIs
      <3> QED
        BY <3>1, <3>2 DEF ShapeInv
    <2> QED
      BY <2>1, <2>2 DEF ShapeInv
  <1>10. CASE OpenFile
    <2>1. UNCHANGED <<task, sess, fi, n>> /\ pc = "open" /\ pc' = "copy"
          /\ sess \in DOMAIN task /\ fi \in DOMAIN task[sess].files
          /\ disk' = IF NewOutput THEN Created ELSE disk
      BY <1>0, <1>10, OpenFrame
    <2>2. ASSUME NEW s \in DOMAIN task, NEW f \in DOMAIN task[s].files, Untouched(s, f)'
          PROVE  disk'[s][f] = << >>
      <3>1. Untouched(s, f) /\ ~(s = sess /\ f = fi)
        BY <1>0, <1>a, <2>1, <2>2 DEF Untouched, Ended
      <3>2. disk'[s][f] = disk[s][f]
        BY <1>0, <2>1, <3>1, CreatedIs
      <3> QED
        BY <3>1, <3>2 DEF ShapeInv
    <2>3. DOMAIN disk'[sess][fi] = 1 .. piece + 1
      <3>1. CASE NewOutput
        <4>1. disk'[sess][fi] = Append(disk[sess][fi], << >>)
          BY <1>0, <2>1, <3>1, CreatedIs
        <4>2. Len(disk[sess][fi]) = piece
          <5>1. n = 0 => disk[sess][fi] = << >> /\ piece = 0
            BY <2>1 DEF ShapeInv, Untouched, piece
          <5>2. n > 0 => DOMAIN disk[sess][fi] = 1 .. n /\ piece = n
            <6>1. n > 0 => File.kind = "split"
              <7>1. File.kind \in {"plain", "joined", "split"}
                BY <1>0, <2>1, TaskFacts DEF File
              <7> QED
                BY <1>0, <2>1, <3>1, <7>1 DEF PlaceInv, NewOutput
            <6> QED
              BY <2>1, <6>1 DEF ShapeInv, piece
          <5>3. disk[sess][fi] \in Seq(Chunks)
            BY <1>0, <2>1, AheadIs
          <5>4. DOMAIN disk[sess][fi] = 1 .. Len(disk[sess][fi]) /\ Len(disk[sess][fi]) \in Nat
            BY <5>3
          <5> QED
            BY <1>0, <5>1, <5>2, <5>4
        <4>3. disk[sess][fi] \in Seq(Chunks) /\ << >> \in Chunks
          BY <1>0, <2>1, AheadIs DEF Chunks
        <4> QED
          BY <4>1, <4>2, <4>3, AppendFacts
      <3>2. CASE ~NewOutput
        BY <1>0, <2>1, <3>2 DEF NewOutput, ShapeInv, piece
      <3> QED
        BY <3>1, <3>2
    <2>4. piece' = piece
      BY <2>1 DEF piece, File
    <2> QED
      BY <2>1, <2>2, <2>3, <2>4 DEF ShapeInv
  <1>11. CASE SendChunk
    BY <1>0, <1>11, <1>a, SendFrame DEF ShapeInv, Untouched, Ended, piece, File
  <1>12. CASE UnlinkOutput
    <2>1. UNCHANGED <<task, sess, fi, n>> /\ pc = "unlink" /\ pc' = "return"
          /\ sess \in DOMAIN task /\ fi \in DOMAIN task[sess].files
          /\ disk' \in {disk, [disk EXCEPT ![sess][fi][piece + 1] = << >>]}
      BY <1>0, <1>12, UnlinkFrame
    <2>2. ASSUME NEW s \in DOMAIN task, NEW f \in DOMAIN task[s].files, Untouched(s, f)'
          PROVE  disk'[s][f] = << >>
      <3>1. Untouched(s, f) /\ ~(s = sess /\ f = fi)
        BY <1>0, <1>a, <2>1, <2>2 DEF Untouched, Ended
      <3>2. disk'[s][f] = disk[s][f]
        BY <1>0, <2>1, <3>1, DeletedIs
      <3> QED
        BY <3>1, <3>2 DEF ShapeInv
    <2> QED
      BY <2>1, <2>2 DEF ShapeInv
  <1>13. CASE Write
    <2>1. UNCHANGED <<task, sess, fi, n, pc>>
      BY <1>0, <1>13, WriteFrame
    <2>2. \A s \in DOMAIN task : \A f \in DOMAIN task[s].files :
            /\ DOMAIN disk'[s][f] = DOMAIN disk[s][f]
            /\ disk[s][f] = << >> => disk'[s][f] = << >>
      BY <1>0, <1>13, WriteIs DEF HandFacts
    <2>3. \A s, f : Untouched(s, f)' <=> Untouched(s, f)
      BY <2>1 DEF Untouched
    <2>4. pc \in {"copy", "send"} \/ (pc = "open" /\ n > 0) =>
              sess \in DOMAIN task /\ fi \in DOMAIN task[sess].files
      BY <1>0 DEF PlaceInv, Ended, InFile
    <2>5. piece' = piece /\ File' = File
      BY <2>1 DEF piece, File
    <2> QED
      BY <2>1, <2>2, <2>3, <2>4, <2>5 DEF ShapeInv
  <1>14. CASE WriteFails \/ Finish \/ Receive \/ Start \/ NoJob \/ Idle \/ Terminated
    <2>1. UNCHANGED <<task, sess, fi, n, pc, disk>>
      BY <1>0, <1>14, WriteFrame, FinishFrame, EventFrame DEF WriteFails, Finish, outVars
    <2> QED
      BY <2>1 DEF ShapeInv, Untouched, piece, File
  <1> QED
    BY <1>1, <1>2, <1>3, <1>4, <1>5, <1>6, <1>7, <1>8, <1>9, <1>10, <1>11, <1>12, <1>13, <1>14,
       NextCases

-----------------------------------------------------------------------------
(* What each step does to the outputs that are to be. *)

Known == CopyInv /\ TypeInv /\ MemInv /\ ShapeInv /\ UnlinkedPast

\* The facts these proofs use.
LEMMA KnownFacts ==
    ASSUME Known
    PROVE  /\ HandFacts /\ PlaceInv /\ SlotPast /\ DiskType /\ SlotType /\ FilesType
           /\ sess \in Nat /\ fi \in Nat \ {0} /\ n \in Nat /\ pos \in Nat /\ task \in Tasks
           /\ DOMAIN slot = {"flags", "fd", "mem"}
  BY FromHand DEF Known, CopyInv, TypeInv, PlaceInv, HandFacts

\* Of the event thread's steps a write makes the outputs what they were to be, ...
LEMMA WriteEffect ==
    ASSUME Known, Write, NEW s \in DOMAIN task, NEW f \in DOMAIN task[s].files
    PROVE  disk'[s][f] = Ahead[s][f] /\ Ahead'[s][f] = Ahead[s][f]
  <1>1. task' = task /\ slot'.mem = None
    BY KnownFacts DEF Write, copyUnchanged
  <1>2. IsFun(disk'[s][f])
    <2>1. DiskType'
      BY KnownFacts, DiskStep DEF Next, EventThread
    <2>2. disk'[s][f] \in Seq(Chunks)
      BY <1>1, <2>1 DEF DiskType, Outputs, Chunks
    <2> QED
      BY <2>2 DEF IsFun
  <1>3. DOMAIN disk'[s][f] = DOMAIN disk[s][f]
        /\ \A q \in DOMAIN disk[s][f] : disk'[s][f][q] = Ahead[s][f][q]
    BY KnownFacts, WriteIs
  <1>4. IsFun(Ahead[s][f]) /\ DOMAIN Ahead[s][f] = DOMAIN disk[s][f]
    BY KnownFacts, AheadIs
  <1>5. disk'[s][f] = Ahead[s][f]
    BY <1>2, <1>3, <1>4, SameFun
  <1>6. /\ IsFun(Ahead'[s][f]) /\ DOMAIN Ahead'[s][f] = DOMAIN disk'[s][f]
        /\ \A q \in DOMAIN disk'[s][f] : Ahead'[s][f][q] = disk'[s][f][q]
    BY <1>1, AheadNext DEF Coming
  <1>7. Ahead'[s][f] = disk'[s][f]
    BY <1>2, <1>6, SameFun
  <1> QED
    BY <1>5, <1>7

\* ... one that fails leaves them as they are, ...
LEMMA WriteFailsEffect ==
    ASSUME Known, WriteFails, NEW s \in DOMAIN task, NEW f \in DOMAIN task[s].files
    PROVE  Ahead'[s][f] = disk[s][f]
  <1>1. task' = task /\ disk' = disk /\ slot'.mem = None
    BY KnownFacts DEF WriteFails, copyUnchanged
  <1>2. /\ IsFun(Ahead'[s][f]) /\ DOMAIN Ahead'[s][f] = DOMAIN disk[s][f]
        /\ \A q \in DOMAIN disk[s][f] : Ahead'[s][f][q] = disk[s][f][q]
    BY <1>1, AheadNext DEF Coming
  <1>3. IsFun(disk[s][f])
    BY KnownFacts, AheadIs
  <1> QED
    BY <1>2, <1>3, SameFun

\* ... and the other steps do not change them.
LEMMA FinishEffect ==
    ASSUME Known, Finish
    PROVE  Ahead' = Ahead /\ UNCHANGED <<task, disk, unlinked>>
  <1>1. UNCHANGED <<task, disk, unlinked>> /\ slot'.fd = slot.fd /\ slot'.mem = slot.mem
    BY KnownFacts DEF Finish, copyUnchanged
  <1> QED
    BY <1>1 DEF Ahead

\* The slot's chunk does not go to an output that is yet to be opened.
LEMMA NotComing ==
    ASSUME Known, OpenFile \/ MemFails, NewOutput
    PROVE  /\ Len(disk[sess][fi]) = piece
           /\ ~Coming(sess, fi, piece + 1)
  <1>1. pc = "open" /\ sess \in DOMAIN task /\ fi \in DOMAIN task[sess].files
    BY KnownFacts, OpenFrame
  <1>2. File.kind \in {"plain", "joined", "split"} /\ (pc = "open" /\ n > 0 => File.kind # "plain")
    BY <1>1, KnownFacts, TaskFacts DEF File, PlaceInv
  <1>3. CASE n = 0
    <2>1. disk[sess][fi] = << >> /\ piece = 0
      BY <1>1, <1>3 DEF Known, ShapeInv, Untouched, piece
    <2>2. slot.fd # None /\ slot.fd[2] = sess => slot.fd[3] < fi
      BY <1>1, <1>3, KnownFacts DEF SlotPast
    <2>3. slot.fd # <<"w", sess, fi, piece + 1 - 1>>
      BY <2>1, <2>2, KnownFacts DEF None
    <2> QED
      BY <2>1, <2>3 DEF Coming
  <1>4. CASE n > 0
    <2>1. File.kind = "split" /\ piece = n /\ DOMAIN disk[sess][fi] = 1 .. n
      BY <1>1, <1>2, <1>4, KnownFacts DEF NewOutput, Known, ShapeInv, piece
    <2>2. disk[sess][fi] \in Seq(Chunks)
      BY <1>1, KnownFacts, AheadIs
    <2>3. Len(disk[sess][fi]) = n
      <3>1. DOMAIN disk[sess][fi] = 1 .. Len(disk[sess][fi]) /\ Len(disk[sess][fi]) \in Nat
        BY <2>2
      <3> QED
        BY <2>1, <3>1, KnownFacts
    <2>4. slot.fd # <<"w", sess, fi, n>>
      BY <1>1, <1>4, <2>1, KnownFacts DEF SlotPast, None, Ended
    <2>5. piece + 1 - 1 = n
      BY <2>1, KnownFacts
    <2> QED
      BY <2>1, <2>3, <2>4, <2>5 DEF Coming
  <1> QED
    BY <1>3, <1>4, KnownFacts

\* A list that agrees with another one but for an empty element more.
LEMMA AppendSame ==
    ASSUME NEW d \in Seq(Chunks), NEW a, IsFun(a), DOMAIN a = DOMAIN d,
           \A q \in DOMAIN d : a[q] \in Chunks,
           NEW b, IsFun(b), DOMAIN b = 1 .. Len(d) + 1, b[Len(d) + 1] = << >>,
           \A q \in DOMAIN d : b[q] = a[q]
    PROVE  b = Append(a, << >>)
  <1>1. DOMAIN d = 1 .. Len(d) /\ Len(d) \in Nat
    OBVIOUS
  <1>2. a \in Seq(Chunks) /\ Len(a) = Len(d)
    <2>1. a = [q \in 1 .. Len(d) |-> a[q]]
      BY <1>1 DEF IsFun
    <2>2. \A q \in 1 .. Len(d) : a[q] \in Chunks
      BY <1>1
    <2>3. a \in [1 .. Len(d) -> Chunks]
      BY <2>1, <2>2
    <2> QED
      BY <1>1, <2>3
  <1>3. << >> \in Chunks
    BY DEF Chunks
  <1> DEFINE c == Append(a, << >>)
  <1>4. /\ DOMAIN c = 1 .. Len(d) + 1 /\ c[Len(d) + 1] = << >> /\ c \in Seq(Chunks)
        /\ \A i \in 1 .. Len(d) : c[i] = a[i]
    BY <1>2, <1>3, AppendFacts
  <1> HIDE DEF c
  <1>5. IsFun(c)
    BY <1>4 DEF IsFun
  <1>6. ASSUME NEW q \in 1 .. Len(d) + 1 PROVE b[q] = c[q]
    <2>1. q = Len(d) + 1 \/ q \in 1 .. Len(d)
      BY <1>1
    <2> QED
      BY <1>1, <1>4, <2>1
  <1>7. b = c
    BY <1>4, <1>5, <1>6, SameFun
  <1> QED
    BY <1>7 DEF c

\* Opening an output adds an empty one to the file.
LEMMA OpenEffect ==
    ASSUME Known, OpenFile \/ MemFails, NewOutput, disk' = Created,
           NEW s \in DOMAIN task, NEW f \in DOMAIN task[s].files
    PROVE  IF s = sess /\ f = fi
           THEN disk'[s][f] = Append(disk[s][f], << >>) /\ Ahead'[s][f] = Append(Ahead[s][f], << >>)
           ELSE disk'[s][f] = disk[s][f] /\ Ahead'[s][f] = Ahead[s][f]
  <1>1. UNCHANGED <<task, slot, unlinked>> /\ sess \in DOMAIN task /\ fi \in DOMAIN task[sess].files
    BY KnownFacts, OpenFrame
  <1>2. IF s = sess /\ f = fi THEN disk'[s][f] = Append(disk[s][f], << >>)
                              ELSE disk'[s][f] = disk[s][f]
    BY <1>1, KnownFacts, CreatedIs
  <1>3. \A q : Coming(s, f, q)' <=> Coming(s, f, q)
    BY <1>1 DEF Coming
  <1>4. /\ DOMAIN Ahead[s][f] = DOMAIN disk[s][f] /\ IsFun(Ahead[s][f])
        /\ disk[s][f] \in Seq(Chunks)
        /\ \A q \in DOMAIN disk[s][f] :
             /\ Coming(s, f, q) => Ahead[s][f][q] = Append(disk[s][f][q], slot.mem)
             /\ ~Coming(s, f, q) => Ahead[s][f][q] = disk[s][f][q]
             /\ Ahead[s][f][q] \in Chunks
    BY KnownFacts, AheadIs
  <1>5. /\ DOMAIN Ahead'[s][f] = DOMAIN disk'[s][f] /\ IsFun(Ahead'[s][f])
        /\ \A q \in DOMAIN disk'[s][f] :
             /\ Coming(s, f, q) => Ahead'[s][f][q] = Append(disk'[s][f][q], slot.mem)
             /\ ~Coming(s, f, q) => Ahead'[s][f][q] = disk'[s][f][q]
    BY <1>1, <1>3, AheadNext
  <1>6. CASE ~(s = sess /\ f = fi)
    <2>1. disk'[s][f] = disk[s][f]
      BY <1>2, <1>6
    <2>2. \A q \in DOMAIN disk[s][f] : Ahead'[s][f][q] = Ahead[s][f][q]
      BY <1>4, <1>5, <2>1
    <2>3. Ahead'[s][f] = Ahead[s][f]
      BY <1>4, <1>5, <2>1, <2>2, SameFun
    <2> QED
      BY <1>6, <2>1, <2>3
  <1>7. CASE s = sess /\ f = fi
    <2>1. disk'[s][f] = Append(disk[s][f], << >>)
      BY <1>2, <1>7
    <2>2. disk[s][f] \in Seq(Chunks) /\ << >> \in Chunks
      BY <1>4 DEF Chunks
    <2>3. /\ DOMAIN disk[s][f] = 1 .. Len(disk[s][f]) /\ Len(disk[s][f]) \in Nat
          /\ DOMAIN disk'[s][f] = 1 .. Len(disk[s][f]) + 1
          /\ disk'[s][f][Len(disk[s][f]) + 1] = << >>
          /\ \A q \in DOMAIN disk[s][f] : disk'[s][f][q] = disk[s][f][q]
      BY <2>1, <2>2, AppendFacts
    <2>4. ~Coming(s, f, Len(disk[s][f]) + 1)
      BY <1>7, NotComing
    <2>5. Ahead'[s][f][Len(disk[s][f]) + 1] = << >>
      BY <1>5, <2>3, <2>4, SMTT(40)
    <2>6. ASSUME NEW q \in DOMAIN disk[s][f] PROVE Ahead'[s][f][q] = Ahead[s][f][q]
      <3>1. q \in DOMAIN disk'[s][f] /\ disk'[s][f][q] = disk[s][f][q]
        BY <2>3, <2>6
      <3> QED
        BY <1>4, <1>5, <2>6, <3>1
    <2>7. Ahead'[s][f] = Append(Ahead[s][f], << >>)
      BY <1>4, <1>5, <2>2, <2>3, <2>5, <2>6, AppendSame
    <2> QED
      BY <1>7, <2>1, <2>7
  <1> QED
    BY <1>6, <1>7

\* Sending a chunk finds the slot empty and puts the chunk in the output that is open.
LEMMA SendEffect ==
    ASSUME Known, SendChunk
    PROVE  /\ \A s \in DOMAIN task : \A f \in DOMAIN task[s].files :
                /\ Ahead[s][f] = disk[s][f]
                /\ ~(s = sess /\ f = fi) \/ slot'.mem = None => Ahead'[s][f] = Ahead[s][f]
           /\ slot'.mem # None =>
                /\ Ahead'[sess][fi][piece + 1] = Append(Ahead[sess][fi][piece + 1], <<n, pos>>)
                /\ DOMAIN Ahead'[sess][fi] = DOMAIN Ahead[sess][fi]
                /\ \A q \in 1 .. piece : Ahead'[sess][fi][q] = Ahead[sess][fi][q]
           /\ DOMAIN Ahead[sess][fi] = 1 .. piece + 1
  <1>1. /\ UNCHANGED <<task, disk, unlinked>> /\ SlotFree /\ slot'.fd = Dst
        /\ slot'.mem \in {<<n, pos>>, None} /\ pc = "send"
        /\ sess \in DOMAIN task /\ fi \in DOMAIN task[sess].files
    BY SendFrame DEF Known
  <1>2. slot.mem = None
    BY <1>1 DEF Known, MemInv
  <1>3. ASSUME NEW s \in DOMAIN task, NEW f \in DOMAIN task[s].files
        PROVE  /\ Ahead[s][f] = disk[s][f]
               /\ IsFun(Ahead'[s][f]) /\ DOMAIN Ahead'[s][f] = DOMAIN disk[s][f]
               /\ IsFun(disk[s][f])
               /\ \A q \in DOMAIN disk[s][f] :
                    /\ Coming(s, f, q)' => Ahead'[s][f][q] = Append(disk[s][f][q], slot'.mem)
                    /\ ~Coming(s, f, q)' => Ahead'[s][f][q] = disk[s][f][q]
    <2>1. /\ IsFun(Ahead[s][f]) /\ IsFun(disk[s][f]) /\ DOMAIN Ahead[s][f] = DOMAIN disk[s][f]
          /\ \A q \in DOMAIN disk[s][f] : Ahead[s][f][q] = disk[s][f][q]
      BY <1>2, KnownFacts, AheadIs DEF Coming
    <2>2. Ahead[s][f] = disk[s][f]
      BY <2>1, SameFun
    <2> QED
      BY <1>1, <2>1, <2>2, AheadNext
  <1>4. ASSUME NEW s \in DOMAIN task, NEW f \in DOMAIN task[s].files,
               ~(s = sess /\ f = fi) \/ slot'.mem = None
        PROVE  Ahead'[s][f] = Ahead[s][f]
    <2>1. \A q \in DOMAIN disk[s][f] : ~Coming(s, f, q)'
      BY <1>1, <1>4 DEF Coming, Dst
    <2>2. \A q \in DOMAIN disk[s][f] : Ahead'[s][f][q] = disk[s][f][q]
      BY <1>3, <2>1
    <2>3. /\ IsFun(Ahead'[s][f]) /\ IsFun(disk[s][f]) /\ DOMAIN Ahead'[s][f] = DOMAIN disk[s][f]
          /\ Ahead[s][f] = disk[s][f]
      BY <1>3
    <2> QED
      BY <2>2, <2>3, SameFun
  <1>5. DOMAIN disk[sess][fi] = 1 .. piece + 1 /\ piece \in Nat
    BY <1>1, KnownFacts DEF Known, ShapeInv, piece
  <1>6. Dst \notin unlinked
    BY <1>1, KnownFacts DEF Known, UnlinkedPast, Dst
  <1>7. ASSUME slot'.mem # None, NEW s \in DOMAIN task, NEW f \in DOMAIN task[s].files,
               s = sess, f = fi
        PROVE  /\ Ahead'[s][f][piece + 1] = Append(Ahead[s][f][piece + 1], <<n, pos>>)
               /\ \A q \in 1 .. piece : Ahead'[s][f][q] = Ahead[s][f][q]
    <2>1. slot'.mem = <<n, pos>>
      BY <1>1, <1>7
    <2>2. Dst = <<"w", s, f, piece>>
      BY <1>7 DEF Dst
    <2>3. \A q \in 1 .. piece + 1 : Coming(s, f, q)' <=> q = piece + 1
      BY <1>1, <1>5, <1>6, <1>7, <2>2 DEF Coming
    <2>4. \A q \in 1 .. piece + 1 :
            /\ Coming(s, f, q)' => Ahead'[s][f][q] = Append(Ahead[s][f][q], slot'.mem)
            /\ ~Coming(s, f, q)' => Ahead'[s][f][q] = Ahead[s][f][q]
      <3>1. DOMAIN disk[s][f] = 1 .. piece + 1
        BY <1>5, <1>7
      <3>2. /\ Ahead[s][f] = disk[s][f]
            /\ \A q \in DOMAIN disk[s][f] :
                 /\ Coming(s, f, q)' => Ahead'[s][f][q] = Append(disk[s][f][q], slot'.mem)
                 /\ ~Coming(s, f, q)' => Ahead'[s][f][q] = disk[s][f][q]
        BY <1>3
      <3> QED
        BY <3>1, <3>2
    <2>5. 1 .. piece \subseteq 1 .. piece + 1 /\ piece + 1 \in 1 .. piece + 1
          /\ \A q \in 1 .. piece : q # piece + 1
      BY <1>5
    <2> QED
      BY <2>1, <2>3, <2>4, <2>5
  <1> QED
    BY <1>1, <1>3, <1>4, <1>5, <1>7

\* Deleting an output empties it, whatever the slot has for it.
LEMMA UnlinkEffect ==
    ASSUME Known, UnlinkOutput, piece + 1 \in DOMAIN disk[sess][fi],
           NEW s \in DOMAIN task, NEW f \in DOMAIN task[s].files
    PROVE  IF s = sess /\ f = fi
           THEN /\ disk'[s][f] = [disk[s][f] EXCEPT ![piece + 1] = << >>]
                /\ Ahead'[s][f] = [Ahead[s][f] EXCEPT ![piece + 1] = << >>]
           ELSE disk'[s][f] = disk[s][f] /\ Ahead'[s][f] = Ahead[s][f]
  <1>1. /\ UNCHANGED <<task, slot>> /\ unlinked' = unlinked \cup {Dst}
        /\ disk' = [disk EXCEPT ![sess][fi][piece + 1] = << >>]
    BY KnownFacts, UnlinkFrame
  <1>2. IF s = sess /\ f = fi THEN disk'[s][f] = [disk[s][f] EXCEPT ![piece + 1] = << >>]
                              ELSE disk'[s][f] = disk[s][f]
    BY <1>1, KnownFacts, DeletedIs
  <1>3. /\ DOMAIN Ahead[s][f] = DOMAIN disk[s][f] /\ IsFun(Ahead[s][f])
        /\ disk[s][f] \in Seq(Chunks)
        /\ \A q \in DOMAIN disk[s][f] :
             /\ Coming(s, f, q) => Ahead[s][f][q] = Append(disk[s][f][q], slot.mem)
             /\ ~Coming(s, f, q) => Ahead[s][f][q] = disk[s][f][q]
    BY KnownFacts, AheadIs
  <1>4. /\ DOMAIN Ahead'[s][f] = DOMAIN disk'[s][f] /\ IsFun(Ahead'[s][f])
        /\ \A q \in DOMAIN disk'[s][f] :
             /\ Coming(s, f, q)' => Ahead'[s][f][q] = Append(disk'[s][f][q], slot.mem)
             /\ ~Coming(s, f, q)' => Ahead'[s][f][q] = disk'[s][f][q]
    <2>1. task' = task /\ slot'.mem = slot.mem
      BY <1>1
    <2>2. /\ DOMAIN Ahead'[s][f] = DOMAIN disk'[s][f] /\ IsFun(Ahead'[s][f])
          /\ \A q \in DOMAIN disk'[s][f] :
               /\ Coming(s, f, q)' => Ahead'[s][f][q] = Append(disk'[s][f][q], slot'.mem)
               /\ ~Coming(s, f, q)' => Ahead'[s][f][q] = disk'[s][f][q]
      BY <2>1, AheadNext
    <2> QED
      BY <2>1, <2>2, Zenon
  <1>5. DOMAIN disk[s][f] = 1 .. Len(disk[s][f]) /\ Len(disk[s][f]) \in Nat /\ piece \in Nat
    BY <1>3, KnownFacts DEF piece
  <1>6. \A q \in DOMAIN disk[s][f] : IF s = sess /\ f = fi /\ q = piece + 1
                                     THEN ~Coming(s, f, q)'
                                     ELSE Coming(s, f, q)' <=> Coming(s, f, q)
    <2>1. Dst = <<"w", sess, fi, piece>>
      BY DEF Dst
    <2> QED
      BY <1>1, <1>5, <2>1 DEF Coming
  <1>7. CASE ~(s = sess /\ f = fi)
    <2>1. disk'[s][f] = disk[s][f]
      BY <1>2, <1>7
    <2>2. \A q \in DOMAIN disk[s][f] : Ahead'[s][f][q] = Ahead[s][f][q]
      BY <1>3, <1>4, <1>6, <1>7, <2>1
    <2>3. Ahead'[s][f] = Ahead[s][f]
      BY <1>3, <1>4, <2>1, <2>2, SameFun
    <2> QED
      BY <1>7, <2>1, <2>3
  <1>8. CASE s = sess /\ f = fi
    <2> DEFINE b == [Ahead[s][f] EXCEPT ![piece + 1] = << >>]
    <2>1. /\ DOMAIN disk'[s][f] = DOMAIN disk[s][f]
          /\ disk'[s][f][piece + 1] = << >>
          /\ \A q \in DOMAIN disk[s][f] : q # piece + 1 => disk'[s][f][q] = disk[s][f][q]
      BY <1>2, <1>8
    <2>2. /\ DOMAIN b = DOMAIN disk[s][f] /\ b[piece + 1] = << >> /\ IsFun(b)
          /\ \A q \in DOMAIN disk[s][f] : q # piece + 1 => b[q] = Ahead[s][f][q]
      BY <1>3, <1>8 DEF IsFun
    <2> HIDE DEF b
    <2>3. Ahead'[s][f][piece + 1] = << >>
      BY <1>4, <1>6, <1>8, <2>1
    <2>4. ASSUME NEW q \in DOMAIN disk[s][f], q # piece + 1
          PROVE  Ahead'[s][f][q] = Ahead[s][f][q]
      BY <1>3, <1>4, <1>6, <2>1, <2>4
    <2>5. \A q \in DOMAIN disk[s][f] : Ahead'[s][f][q] = b[q]
      BY <2>2, <2>3, <2>4
    <2>6. Ahead'[s][f] = b
      BY <1>4, <2>1, <2>2, <2>5, SameFun
    <2> QED
      BY <1>2, <1>8, <2>6 DEF b
  <1> QED
    BY <1>7, <1>8

-----------------------------------------------------------------------------
(* The order of the chunks, and how far they reach. *)

\* What is deleted changes with the unlinked outputs only.
LEMMA GoneSame ==
    ASSUME UNCHANGED <<task, unlinked>>, NEW s, NEW f, DOMAIN disk'[s][f] = DOMAIN disk[s][f]
    PROVE  Gone(s, f)' = Gone(s, f)
  BY DEF Gone

\* What is deleted stays deleted.
LEMMA GoneMore ==
    ASSUME task' = task, unlinked \subseteq unlinked', NEW s, NEW f,
           DOMAIN disk[s][f] \subseteq DOMAIN disk'[s][f]
    PROVE  Gone(s, f) \subseteq Gone(s, f)'
  BY DEF Gone

\* A piece is gone once its output is unlinked.
LEMMA GoneNow ==
    ASSUME NEW s, NEW f, NEW q \in DOMAIN disk'[s][f], <<"w", s, f, q - 1>> \in unlinked'
    PROVE  q \in Gone(s, f)'
  BY DEF Gone

\* The steps that put nothing in the slot or the outputs, and do not delete one.
Still == \/ LeaveFile \/ LeaveFiles \/ EndOfSession \/ Quit \/ Join \/ StartSession \/ NextFile
         \/ NextPart \/ ReadChunk \/ UserAbort \/ Receive \/ Start \/ NoJob \/ Idle \/ Terminated

\* The steps that send, write, open and delete nothing.
LEMMA StillFrame ==
    ASSUME Still
    PROVE  UNCHANGED <<task, disk, slot, unlinked, evflags>> /\ (ev' = "wrote" <=> ev = "wrote")
  BY LeaveFrame, LeaveFilesFrame, EndFrame, QuitFrame, StartFrame, NextFileFrame, NextPartFrame,
     StayFrame, EventFrame DEF Still, outVars

\* The steps are these and those that do.
LEMMA StillCases ==
    ASSUME Next
    PROVE  \/ Still \/ OpenFile \/ MemFails \/ SendChunk \/ UnlinkOutput
           \/ Write \/ WriteFails \/ Finish
  BY NextCases DEF Still

\* Where the copy thread is in a file.
LEMMA PieceFacts ==
    ASSUME Known, sess \in DOMAIN task, fi \in DOMAIN task[sess].files,
           (pc = "open" /\ n > 0) \/ pc = "copy" \/ pc = "send"
    PROVE  /\ FileOK(File) /\ piece = PieceOf(File, n) /\ n + 1 \in DOMAIN File.parts
           /\ File.kind \in {"plain", "joined", "split"}
  BY KnownFacts, FilesOK DEF File, piece, PieceOf, PlaceInv, FileOK

\* Every step leaves the outputs in order, with the slot's chunk and without it.
LEMMA OrderStep ==
    ASSUME Known, Contiguous, AheadInv, ReachInv, Next
    PROVE  Contiguous' /\ AheadInv'
  <1>1. CASE Still
    BY <1>1, StillFrame, AheadSame
  <1>2. task' = task
    BY KnownFacts, StillCases, StillFrame, OpenFrame, SendFrame, UnlinkFrame, WriteFrame,
       FinishFrame DEF Known
  <1>3. SUFFICES ASSUME ~Still, NEW s \in DOMAIN task, NEW f \in DOMAIN task[s].files
                 PROVE  /\ InSequence(task[s].files[f], disk'[s][f], Gone(s, f)')
                        /\ InSequence(task[s].files[f], Ahead'[s][f], Gone(s, f)')
    BY <1>1, <1>2 DEF Contiguous, AheadInv
  <1> DEFINE file == task[s].files[f]
  <1>4. /\ InSequence(file, disk[s][f], Gone(s, f))
        /\ InSequence(file, Ahead[s][f], Gone(s, f))
    BY DEF Contiguous, AheadInv
  <1>5. /\ disk[s][f] \in Seq(Chunks) /\ Ahead[s][f] \in Seq(Chunks)
        /\ DOMAIN Ahead[s][f] = DOMAIN disk[s][f]
    BY KnownFacts, AheadList
  <1> HIDE DEF file
  <1>6. CASE OpenFile \/ MemFails
    <2>1. UNCHANGED <<task, slot, unlinked>> /\ disk' \in {disk, Created}
          /\ (disk' # disk => NewOutput)
      BY <1>6, KnownFacts, OpenFrame DEF NewOutput
    <2>2. CASE disk' = disk
      BY <1>4, <2>1, <2>2, AheadSame, GoneSame DEF file
    <2>3. CASE disk' # disk
      <3>1. IF s = sess /\ f = fi
            THEN /\ disk'[s][f] = Append(disk[s][f], << >>)
                 /\ Ahead'[s][f] = Append(Ahead[s][f], << >>)
            ELSE disk'[s][f] = disk[s][f] /\ Ahead'[s][f] = Ahead[s][f]
        BY <1>6, <2>1, <2>3, OpenEffect
      <3>2. CASE s = sess /\ f = fi
        <4>1. << >> \in Chunks
          BY DEF Chunks
        <4>2. DOMAIN disk[s][f] \subseteq DOMAIN disk'[s][f]
          BY <1>5, <3>1, <3>2, <4>1, AppendFacts
        <4>3. Gone(s, f) \subseteq Gone(s, f)'
          BY <2>1, <4>2, GoneMore
        <4> QED
          BY <1>4, <1>5, <3>1, <3>2, <4>3, SequenceCreated DEF file
      <3>3. CASE ~(s = sess /\ f = fi)
        BY <1>4, <2>1, <3>1, <3>3, GoneSame DEF file
      <3> QED
        BY <3>2, <3>3
    <2> QED
      BY <2>2, <2>3
  <1>7. CASE SendChunk
    <2>1. /\ UNCHANGED <<task, disk, unlinked>> /\ ~WriteFailed /\ pc = "send"
          /\ sess \in DOMAIN task /\ fi \in DOMAIN task[sess].files
      BY <1>7, SendFrame DEF Known
    <2>2. Gone(s, f)' = Gone(s, f) /\ disk'[s][f] = disk[s][f]
      BY <2>1, GoneSame
    <2>3. /\ ~(s = sess /\ f = fi) \/ slot'.mem = None => Ahead'[s][f] = Ahead[s][f]
          /\ slot'.mem # None =>
                /\ Ahead'[sess][fi][piece + 1] = Append(Ahead[sess][fi][piece + 1], <<n, pos>>)
                /\ DOMAIN Ahead'[sess][fi] = DOMAIN Ahead[sess][fi]
                /\ \A q \in 1 .. piece : Ahead'[sess][fi][q] = Ahead[sess][fi][q]
          /\ DOMAIN Ahead[sess][fi] = 1 .. piece + 1
      BY <1>7, SendEffect
    <2>4. CASE ~(s = sess /\ f = fi) \/ slot'.mem = None
      BY <1>4, <2>2, <2>3, <2>4 DEF file
    <2>5. CASE s = sess /\ f = fi /\ slot'.mem # None
      <3>1. /\ FileOK(File) /\ piece = PieceOf(File, n) /\ n + 1 \in DOMAIN File.parts
            /\ piece \in Nat /\ n \in Nat /\ pos \in Nat /\ pos < File.parts[n + 1]
        BY <2>1, PieceFacts, KnownFacts DEF piece, PlaceInv, Length
      <3>2. /\ EarlierReach(File, Ahead[sess][fi], piece)
            /\ UpTo(File, Ahead[sess][fi][piece + 1], n, pos)
        BY <2>1 DEF ReachInv, ReachedSoFar
      <3>3. File = file
        BY <2>5 DEF File, file
      <3>4. piece + 1 \in DOMAIN Ahead[s][f] /\ Ahead[s][f][piece + 1] \in Chunks
        <4>1. DOMAIN Ahead[s][f] = 1 .. piece + 1 /\ Ahead[s][f] \in Seq(Chunks)
          BY <1>5, <2>3, <2>5
        <4>2. piece + 1 \in 1 .. piece + 1
          BY <3>1
        <4>3. piece + 1 \in DOMAIN Ahead[s][f]
          BY <4>1, <4>2, Zenon
        <4> QED
          BY <4>1, <4>3
      <3>5. InOrder(file, piece + 1, Ahead[s][f][piece + 1])
        BY <1>4, <3>4 DEF InSequence
      <3>6. InOrder(file, piece + 1, Ahead'[s][f][piece + 1])
        BY <2>3, <2>5, <3>1, <3>2, <3>3, <3>4, <3>5, ChunkInOrder
      <3>7. /\ DOMAIN Ahead[s][f] = 1 .. piece + 1 /\ DOMAIN Ahead'[s][f] = DOMAIN Ahead[s][f]
            /\ \A q \in 1 .. piece : Ahead'[s][f][q] = Ahead[s][f][q]
            /\ EarlierReach(file, Ahead[s][f], piece)
        BY <2>3, <2>5, <3>2, <3>3
      <3>8. InSequence(file, Ahead'[s][f], Gone(s, f))
        BY <1>4, <3>1, <3>6, <3>7, SequenceExtended
      <3> QED
        BY <1>4, <2>2, <3>8 DEF file
    <2> QED
      BY <2>4, <2>5
  <1>8. CASE UnlinkOutput
    <2>1. /\ UNCHANGED <<task, slot>> /\ unlinked \subseteq unlinked'
          /\ sess \in DOMAIN task /\ fi \in DOMAIN task[sess].files
          /\ IF piece + 1 \in DOMAIN disk[sess][fi]
              THEN unlinked' = unlinked \cup {Dst}
              ELSE UNCHANGED <<unlinked, disk>>
      BY <1>8, KnownFacts, UnlinkFrame
    <2>2. CASE piece + 1 \notin DOMAIN disk[sess][fi]
      BY <1>4, <2>1, <2>2, AheadSame, GoneSame DEF file
    <2>3. CASE piece + 1 \in DOMAIN disk[sess][fi]
      <3>1. IF s = sess /\ f = fi
            THEN /\ disk'[s][f] = [disk[s][f] EXCEPT ![piece + 1] = << >>]
                 /\ Ahead'[s][f] = [Ahead[s][f] EXCEPT ![piece + 1] = << >>]
            ELSE disk'[s][f] = disk[s][f] /\ Ahead'[s][f] = Ahead[s][f]
        BY <1>8, <2>3, UnlinkEffect
      <3>2. DOMAIN disk'[s][f] = DOMAIN disk[s][f]
        BY <3>1
      <3>3. Gone(s, f) \subseteq Gone(s, f)'
        BY <2>1, <3>2, GoneMore
      <3>4. CASE s = sess /\ f = fi
        <4>1. piece + 1 \in Gone(s, f)'
          <5>1. PICK q \in DOMAIN disk'[s][f] : q = piece + 1
            BY <2>3, <3>2, <3>4
          <5>2. q - 1 = piece
            BY <5>1, KnownFacts DEF piece
          <5>3. <<"w", s, f, q - 1>> \in unlinked'
            BY <2>1, <2>3, <3>4, <5>2 DEF Dst
          <5>4. q \in Gone(s, f)'
            BY <5>3, GoneNow
          <5> QED
            BY <5>1, <5>4
        <4> QED
          BY <1>4, <1>5, <2>3, <3>1, <3>3, <3>4, <4>1, SequenceDeleted DEF file
      <3>5. CASE ~(s = sess /\ f = fi)
        BY <1>4, <3>1, <3>3, <3>5, SequenceGone DEF file
      <3> QED
        BY <3>4, <3>5
    <2> QED
      BY <2>2, <2>3
  <1>9. CASE Write
    <2>1. disk'[s][f] = Ahead[s][f] /\ Ahead'[s][f] = Ahead[s][f]
      BY <1>9, WriteEffect
    <2>2. Gone(s, f)' = Gone(s, f)
      BY <1>5, <1>9, <2>1, GoneSame DEF Write, copyUnchanged
    <2> QED
      BY <1>4, <2>1, <2>2 DEF file
  <1>10. CASE WriteFails
    <2>1. disk'[s][f] = disk[s][f] /\ Ahead'[s][f] = disk[s][f] /\ UNCHANGED <<task, unlinked>>
      BY <1>10, WriteFailsEffect DEF WriteFails, copyUnchanged
    <2>2. Gone(s, f)' = Gone(s, f)
      BY <2>1, GoneSame
    <2> QED
      BY <1>4, <2>1, <2>2 DEF file
  <1>11. CASE Finish
    BY <1>4, <1>11, FinishEffect, GoneSame DEF file
  <1> QED
    BY <1>3, <1>6, <1>7, <1>8, <1>9, <1>10, <1>11, StillCases

\* A failed write stays one until the session ends, and only without one does the
\* copy thread come further.
LEMMA ReachStep ==
    ASSUME Known, ReachInv, Next
    PROVE  ReachInv'
  <1>1. CASE pc' \notin {"open", "copy", "send"} \/ (pc' = "open" /\ n' = 0)
    BY <1>1 DEF ReachInv, ReachedSoFar
  <1>2. CASE ReadChunk \/ UserAbort \/ Receive \/ Start \/ NoJob \/ Idle \/ Terminated
    <2>1. /\ UNCHANGED <<task, disk, slot, unlinked, evflags, use_async_fd, sess, fi, n, pos>>
          /\ ev' = "wrote" <=> ev = "wrote"
          /\ pc' = pc \/ (pc = "copy" /\ pc' = "send")
      BY <1>2, StayFrame, EventFrame DEF outVars
    <2>2. Ahead' = Ahead
      BY <2>1, AheadSame
    <2> QED
      BY <2>1, <2>2 DEF ReachInv, ReachedSoFar, WriteFailed, SlotFree, File, piece
  <1>3. CASE NextPart
    <2>1. /\ UNCHANGED <<task, sess, fi, disk, slot, unlinked, ev, evflags, use_async_fd>>
          /\ pc = "copy" /\ pos >= Length /\ pc' = "open" /\ n' = n + 1
          /\ File.kind # "plain"
      BY <1>3, NextPartFrame
    <2>2. sess \in DOMAIN task /\ fi \in DOMAIN task[sess].files /\ pos <= Length
      BY <2>1, KnownFacts DEF PlaceInv, Ended, InFile
    <2>3. /\ FileOK(File) /\ piece = PieceOf(File, n) /\ n + 1 \in DOMAIN File.parts /\ n \in Nat
          /\ File.kind \in {"joined", "split"}
      BY <2>1, <2>2, PieceFacts, KnownFacts
    <2>4. pos = File.parts[n + 1]
      BY <2>1, <2>2, <2>3, KnownFacts DEF Length, FileOK
    <2>5. Ahead' = Ahead /\ File' = File /\ (WriteFailed' <=> WriteFailed)
      BY <2>1, AheadSame DEF File, WriteFailed, SlotFree
    <2> SUFFICES ASSUME ~WriteFailed
                 PROVE  IF File.kind = "joined" THEN UpTo(File, Ahead[sess][fi][1], n + 1, 0)
                                                ELSE EarlierReach(File, Ahead[sess][fi], n + 1)
      BY <2>1, <2>5 DEF ReachInv, ReachedSoFar
    <2>6. /\ EarlierReach(File, Ahead[sess][fi], piece)
          /\ UpTo(File, Ahead[sess][fi][piece + 1], n, File.parts[n + 1])
      BY <2>1, <2>4 DEF ReachInv, ReachedSoFar
    <2>7. CASE File.kind = "joined"
      <3>1. piece + 1 = 1
        BY <2>3, <2>7 DEF PieceOf
      <3> QED
        BY <2>3, <2>6, <2>7, <3>1, NextFragment
    <2>8. CASE File.kind = "split"
      <3>1. piece = n
        BY <2>3, <2>8 DEF PieceOf
      <3>2. Ahead[sess][fi][n + 1] \in Chunks
        <4>1. DOMAIN disk[sess][fi] = 1 .. n + 1
          BY <2>1, <3>1 DEF Known, ShapeInv
        <4>2. n + 1 \in DOMAIN disk[sess][fi]
          BY <2>3, <4>1
        <4> QED
          BY <2>2, <4>2, KnownFacts, AheadIs
      <3>3. ReachesEnd(File, n + 1, Ahead[sess][fi][n + 1])
        BY <2>3, <2>6, <2>8, <3>1, <3>2, LastReaches
      <3>4. \A p \in 1 .. n + 1 : p = n + 1 \/ p \in 1 .. n
        BY <2>3
      <3> QED
        BY <2>6, <2>8, <3>1, <3>3, <3>4 DEF EarlierReach
    <2> QED
      BY <2>3, <2>7, <2>8
  <1>4. CASE OpenFile
    <2>1. /\ UNCHANGED <<task, sess, fi, n, slot, ev, evflags, unlinked, use_async_fd>>
          /\ pc = "open" /\ sess \in DOMAIN task /\ fi \in DOMAIN task[sess].files
          /\ pc' = "copy" /\ pos' = 0 /\ disk' = IF NewOutput THEN Created ELSE disk
      BY <1>4, KnownFacts, OpenFrame
    <2>2. File' = File /\ piece' = piece /\ (WriteFailed' <=> WriteFailed)
      BY <2>1 DEF File, piece, WriteFailed, SlotFree
    <2>3. piece \in Nat /\ n \in Nat
      BY KnownFacts DEF piece
    <2> SUFFICES ASSUME ~WriteFailed
                 PROVE  /\ EarlierReach(File, Ahead'[sess][fi], piece)
                        /\ UpTo(File, Ahead'[sess][fi][piece + 1], n, 0)
      BY <2>1, <2>2 DEF ReachInv, ReachedSoFar
    <2>4. CASE NewOutput
      <3>1. Ahead'[sess][fi] = Append(Ahead[sess][fi], << >>) /\ Len(disk[sess][fi]) = piece
        BY <1>4, <2>1, <2>4, OpenEffect, NotComing
      <3>2. Ahead[sess][fi] \in Seq(Chunks) /\ << >> \in Chunks /\ Len(Ahead[sess][fi]) = piece
        <4>1. /\ Ahead[sess][fi] \in Seq(Chunks) /\ disk[sess][fi] \in Seq(Chunks)
              /\ DOMAIN Ahead[sess][fi] = DOMAIN disk[sess][fi]
          BY <2>1, KnownFacts, AheadList
        <4>2. Len(Ahead[sess][fi]) = Len(disk[sess][fi])
          BY <4>1
        <4>3. << >> \in Chunks
          BY DEF Chunks
        <4> QED
          BY <3>1, <4>1, <4>2, <4>3
      <3>3. /\ Ahead'[sess][fi][piece + 1] = << >>
            /\ \A q \in 1 .. piece : Ahead'[sess][fi][q] = Ahead[sess][fi][q]
        BY <3>1, <3>2, AppendFacts
      <3>4. UpTo(File, << >>, n, 0)
        BY <2>4 DEF NewOutput, UpTo
      <3>5. EarlierReach(File, Ahead[sess][fi], piece)
        <4>1. CASE piece = 0
          BY <4>1 DEF EarlierReach
        <4>2. CASE piece # 0
          <5>1. n > 0 /\ piece = n /\ File.kind # "joined"
            BY <2>3, <4>2 DEF piece
          <5> QED
            BY <2>1, <5>1 DEF ReachInv, ReachedSoFar
        <4> QED
          BY <4>1, <4>2
      <3> QED
        BY <3>3, <3>4, <3>5 DEF EarlierReach
    <2>5. CASE ~NewOutput
      <3>1. disk' = disk /\ File.kind = "joined" /\ n > 0 /\ piece = 0
        BY <2>1, <2>3, <2>5 DEF NewOutput, piece
      <3>2. Ahead' = Ahead
        BY <2>1, <3>1, AheadSame
      <3>3. UpTo(File, Ahead[sess][fi][1], n, 0)
        BY <2>1, <3>1 DEF ReachInv, ReachedSoFar
      <3> QED
        BY <3>1, <3>2, <3>3 DEF EarlierReach
    <2> QED
      BY <2>4, <2>5
  <1>5. CASE SendChunk /\ pc' = "copy"
    <2>1. /\ UNCHANGED <<task, sess, fi, n, ev>> /\ pc = "send" /\ pos' = pos + 1 /\ ~WriteFailed
          /\ use_async_fd' = 1 /\ ev # "wrote" /\ "ENABLE" \in slot'.flags
          /\ sess \in DOMAIN task /\ fi \in DOMAIN task[sess].files
      BY <1>5, SendFrame DEF Known
    <2> SUFFICES ASSUME slot'.mem # None PROVE ReachedSoFar'
      BY <2>1 DEF ReachInv, WriteFailed, SlotFree
    <2>2. /\ FileOK(File) /\ piece = PieceOf(File, n) /\ n + 1 \in DOMAIN File.parts
          /\ piece \in Nat /\ n \in Nat /\ pos \in Nat /\ pos < File.parts[n + 1]
      BY <2>1, PieceFacts, KnownFacts DEF piece, PlaceInv, Length
    <2>3. /\ EarlierReach(File, Ahead[sess][fi], piece)
          /\ UpTo(File, Ahead[sess][fi][piece + 1], n, pos)
      BY <2>1 DEF ReachInv, ReachedSoFar
    <2>4. /\ Ahead'[sess][fi][piece + 1] = Append(Ahead[sess][fi][piece + 1], <<n, pos>>)
          /\ \A q \in 1 .. piece : Ahead'[sess][fi][q] = Ahead[sess][fi][q]
          /\ DOMAIN Ahead[sess][fi] = 1 .. piece + 1
      BY <1>5, SendEffect
    <2>5. Ahead[sess][fi][piece + 1] \in Chunks
      <3>1. piece + 1 \in DOMAIN Ahead[sess][fi]
        <4>1. piece \in Nat
          BY <2>2
        <4>2. piece + 1 \in 1 .. piece + 1
          BY <4>1
        <4>3. DOMAIN Ahead[sess][fi] = 1 .. piece + 1
          BY <2>4
        <4> QED
          BY <4>2, <4>3, Zenon
      <3>2. Ahead[sess][fi] \in Seq(Chunks)
        BY <2>1, KnownFacts, AheadList
      <3> QED
        BY <3>1, <3>2
    <2>6. UpTo(File, Append(Ahead[sess][fi][piece + 1], <<n, pos>>), n, pos + 1)
      BY <2>2, <2>5, ChunkReached
    <2>7. EarlierReach(File, Ahead'[sess][fi], piece)
      BY <2>3, <2>4 DEF EarlierReach
    <2>8. File' = File /\ piece' = piece
      BY <2>1 DEF File, piece
    <2> QED
      BY <1>5, <2>1, <2>4, <2>6, <2>7, <2>8 DEF ReachedSoFar
  <1>6. CASE (Write \/ Finish) /\ pc' \in {"open", "copy", "send"}
                               /\ ~(pc' = "open" /\ n' = 0)
    <2>1. UNCHANGED <<task, sess, fi, n, pos, pc, use_async_fd>>
      BY <1>6, KnownFacts, WriteFrame, FinishFrame
    <2>2. sess \in DOMAIN task /\ fi \in DOMAIN task[sess].files
      BY <1>6, <2>1, KnownFacts DEF PlaceInv, Ended, InFile
    <2>3. Ahead'[sess][fi] = Ahead[sess][fi]
      BY <1>6, <2>2, WriteEffect, FinishEffect
    <2>4. WriteFailed => WriteFailed'
      <3>1. CASE Write
        <4>1. /\ slot.mem # None /\ ev' = "wrote" /\ evflags' = slot.flags /\ ev = "run"
              /\ slot'.flags = slot.flags /\ use_async_fd' = use_async_fd
          BY <2>1, <3>1, KnownFacts DEF Write
        <4> QED
          BY <4>1 DEF WriteFailed
      <3>2. CASE Finish
        <4>1. slot'.flags = evflags \ {"ENABLE"} /\ ev = "wrote" /\ use_async_fd' = use_async_fd
          BY <2>1, <3>2, KnownFacts, FinishFrame
        <4>2. "ERROR" \in slot.flags => "ERROR" \in evflags
          BY <4>1 DEF Known, CopyInv, ErrorKept
        <4> QED
          BY <4>1, <4>2 DEF WriteFailed
      <3> QED
        BY <1>6, <3>1, <3>2
    <2>5. File' = File /\ piece' = piece
      BY <2>1 DEF File, piece
    <2> QED
      BY <2>1, <2>3, <2>4, <2>5 DEF ReachInv, ReachedSoFar
  <1>7. CASE WriteFails /\ pc' \in {"open", "copy", "send"}
    <2>1. UNCHANGED <<pc, use_async_fd>> /\ ~SlotFree
      BY <1>7, KnownFacts, WriteFrame DEF WriteFails, Enabled, SlotFree
    <2>2. use_async_fd = 1
      BY <1>7, <2>1, KnownFacts DEF HandFacts, Ended
    <2>3. ev' = "wrote" /\ "ERROR" \in evflags'
      BY <1>7 DEF WriteFails
    <2> QED
      BY <2>1, <2>2, <2>3 DEF ReachInv, WriteFailed
  <1>8. MemFails => pc' = "close"
    BY KnownFacts, OpenFrame
  <1>9. SendChunk => pc' \in {"copy", "close"}
    BY SendFrame DEF Known
  <1>10. UnlinkOutput => pc' = "return"
    BY KnownFacts, UnlinkFrame
  <1>11. LeaveFile \/ LeaveFiles \/ EndOfSession \/ Quit \/ Join =>
             pc' \notin {"open", "copy", "send"}
    BY LeaveFrame, LeaveFilesFrame, EndFrame, QuitFrame DEF Outside
  <1>12. StartSession \/ NextFile => pc' = "open" /\ n' = 0
    BY StartFrame, NextFileFrame
  <1> QED
    BY <1>1, <1>2, <1>3, <1>4, <1>5, <1>6, <1>7, <1>8, <1>9, <1>10, <1>11, <1>12, NextCases

-----------------------------------------------------------------------------
(* The outputs have no holes. *)

\* At first there are no outputs.
LEMMA OrderInit == Init => OrderInv
  <1> SUFFICES ASSUME Init PROVE OrderInv
    OBVIOUS
  <1>1. MemInv /\ UnlinkedPast /\ ReachInv
    BY DEF Init, MemInv, UnlinkedPast, ReachInv, ReachedSoFar
  <1>2. ASSUME NEW s \in DOMAIN task, NEW f \in DOMAIN task[s].files
        PROVE  disk[s][f] = << >> /\ Ahead[s][f] = << >>
    <2>1. disk[s][f] = << >>
      BY DEF Init
    <2>2. Ahead[s][f] = [q \in DOMAIN << >> |-> IF Coming(s, f, q)
                                THEN Append(disk[s][f][q], slot.mem) ELSE disk[s][f][q]]
      BY <2>1 DEF Ahead, Coming
    <2> QED
      BY <2>1, <2>2
  <1>3. Contiguous /\ AheadInv
    BY <1>2 DEF Contiguous, AheadInv, InSequence
  <1>4. ShapeInv
    BY <1>2 DEF Init, ShapeInv
  <1> QED
    BY <1>1, <1>3, <1>4 DEF OrderInv

\* Stuttering steps keep the order.
LEMMA OrderStutter == OrderInv /\ UNCHANGED vars => OrderInv'
  <1> SUFFICES ASSUME OrderInv, UNCHANGED vars PROVE OrderInv'
    OBVIOUS
  <1> USE DEF vars, placeVars, evVars, outVars
  <1>1. Contiguous' /\ AheadInv' /\ Ahead' = Ahead
    BY AheadSame DEF OrderInv
  <1>2. MemInv' /\ UnlinkedPast' /\ ShapeInv'
    BY DEF OrderInv, MemInv, SlotFree, UnlinkedPast, ShapeInv, Untouched, piece, File
  <1>3. ReachInv'
    BY <1>1 DEF OrderInv, ReachInv, ReachedSoFar, WriteFailed, SlotFree, piece, File
  <1> QED
    BY <1>1, <1>2, <1>3 DEF OrderInv

\* All that is known of a state of the copy.
AllInv == CopyInv /\ TypeInv /\ OrderInv

\* The order, on top of the hand-over and of the files.
LEMMA AllStep ==
    ASSUME Prompt, AllInv, Next
    PROVE  AllInv'
  <1>1. CopyInv'
    BY CopyStep DEF AllInv
  <1>2. TypeInv'
    BY ControlStep, SwitchStep, SlotTypeStep, FilesStep, DiskStep DEF AllInv, TypeInv, CopyInv
  <1>3. Known
    BY DEF Known, AllInv, OrderInv
  <1>4. MemInv' /\ UnlinkedPast' /\ ShapeInv'
    BY MemStep, UnlinkedStep, ShapeStep DEF AllInv, OrderInv, CopyInv, TypeInv
  <1>5. Contiguous' /\ AheadInv' /\ ReachInv'
    BY <1>3, OrderStep, ReachStep DEF AllInv, OrderInv
  <1> QED
    BY <1>1, <1>2, <1>4, <1>5 DEF AllInv, OrderInv

\* All of it holds throughout.
LEMMA AllAlways == ASSUME Prompt PROVE Spec => []AllInv
  <1>1. Init => AllInv
    BY CopyInit, TypeInit, OrderInit DEF AllInv
  <1>2. AllInv /\ UNCHANGED vars => AllInv'
    BY CopyStutter, TypeStutter, OrderStutter DEF AllInv, CopyInv
  <1>3. AllInv /\ [Next]_vars => AllInv'
    BY <1>2, AllStep
  <1> QED
    BY <1>1, <1>3, PTL DEF Spec

\* Outputs have no holes: each holds its chunks in order from the first, and no
\* piece has any while an earlier one is incomplete, whatever fails
\* (file_copy.h:95).
THEOREM NoHoles == ASSUME Prompt PROVE Spec => []Contiguous
  <1>1. AllInv => Contiguous
    BY DEF AllInv, OrderInv
  <1> QED
    BY AllAlways, <1>1, PTL

-----------------------------------------------------------------------------
(* What a move deletes. *)

\* The faults of the theorem: those that the copy thread sees.
Seen == Faults \cap Unseen = {}

\* Then some of the steps are never taken.
LEMMA NeverTaken ==
    ASSUME Seen, AllInv, NoFailure
    PROVE  /\ ~WriteFails /\ ~UserAbort /\ ~StatFails /\ ~UnlinkOutput /\ ~AbortWait
           /\ ~WriteFailed
  <1>1. "write" \notin Faults /\ "user" \notin Faults /\ "stat" \notin Faults
    BY DEF Seen, Unseen
  <1>2. ~WriteFails
    <2> SUFFICES ASSUME WriteFails PROVE FALSE
      OBVIOUS
    <2>1. ev = "run" /\ "ENABLE" \in slot.flags
      BY DEF WriteFails, Enabled
    <2>2. slot.mem # None
      BY <2>1 DEF NoFailure, SlotFree
    <2>3. slot.fd \in fds
      BY <2>1 DEF AllInv, CopyInv, NoEarlyClose
    <2> QED
      BY <1>1, <2>2, <2>3 DEF WriteFails
  <1>3. ~UserAbort /\ ~StatFails
    BY <1>1 DEF UserAbort, StatFails
  <1>4. ~UnlinkOutput /\ ~AbortWait
    BY DEF UnlinkOutput, AbortWait, NoFailure
  <1>5. ~WriteFailed
    BY DEF NoFailure, WriteFailed
  <1> QED
    BY <1>2, <1>3, <1>4, <1>5

\* A file is left on its way to the end of its copy.
LEMMA LeaveTo ==
    ASSUME Seen, AllInv, NoFailure, LeaveFile
    PROVE  /\ pc' \in {"joinwait", "close", "return"}
           /\ ret' = 0 => LastPart \/ LastFragment \/ (pc \in {"joinwait", "close"} /\ ret = 0)
  <1>1. LastPart \/ LastFragment \/ JoinWait \/ CloseSource \/ OpenReadFails \/ OpenWriteFails
        \/ ReadFails \/ SeeError
    BY NeverTaken DEF LeaveFile
  <1>2. CASE LastPart \/ LastFragment
    BY <1>2 DEF LastPart, LastFragment
  <1>3. CASE JoinWait
    BY <1>3 DEF JoinWait, NoFailure
  <1>4. CASE CloseSource
    BY <1>4 DEF CloseSource, NoFailure
  <1>5. CASE OpenReadFails \/ OpenWriteFails \/ ReadFails \/ SeeError
    BY <1>5 DEF OpenReadFails, OpenWriteFails, ReadFails, SeeError, Skip, SkipWith
  <1> QED
    BY <1>1, <1>2, <1>3, <1>4, <1>5

\* Nothing fails behind the copy thread.
LEMMA NoFailureStep ==
    ASSUME Seen, AllInv, NoFailure, Next
    PROVE  NoFailure'
  <1>0. Known /\ HandFacts /\ PlaceInv
    BY KnownFacts DEF Known, AllInv, OrderInv
  <1>1. CASE LeaveFile
    BY <1>1, LeaveFrame, LeaveTo DEF NoFailure, SlotFree
  <1>2. CASE LeaveFiles \/ EndOfSession \/ Quit \/ Join \/ StartSession \/ NextFile \/ NextPart
    BY <1>2, LeaveFilesFrame, EndFrame, QuitFrame, StartFrame, NextFileFrame, NextPartFrame
      DEF NoFailure, SlotFree
  <1>3. CASE ReadChunk
    BY <1>3 DEF ReadChunk, placeVars, evVars, outVars, NoFailure, SlotFree
  <1>4. CASE OpenFile \/ MemFails
    BY <1>0, <1>4, OpenFrame DEF NoFailure, SlotFree
  <1>5. CASE SendChunk
    <2>1. slot'.mem = <<n, pos>> /\ "ERROR" \notin slot'.flags /\ pc' = "copy"
          /\ UNCHANGED <<aborted, unlinked, evflags>>
      BY <1>5, SendFrame DEF Seen, Unseen, AllInv, NoFailure
    <2>2. slot'.mem # None
      BY <2>1 DEF None
    <2> QED
      BY <2>1, <2>2 DEF NoFailure
  <1>6. CASE Receive \/ Start \/ NoJob \/ Idle \/ Terminated
    BY <1>6, EventFrame DEF NoFailure, SlotFree, outVars
  <1>7. CASE Write
    <2>1. /\ evflags' = slot.flags /\ slot'.flags = slot.flags /\ ev' = "wrote"
          /\ UNCHANGED <<aborted, unlinked, pc>>
      BY <1>0, <1>7, WriteFrame DEF Write, copyUnchanged
    <2> QED
      BY <2>1 DEF NoFailure
  <1>8. CASE Finish
    <2>1. /\ evflags' = evflags /\ slot'.flags = evflags \ {"ENABLE"}
          /\ UNCHANGED <<aborted, unlinked, pc>>
      BY <1>0, <1>8, FinishFrame DEF Finish, copyUnchanged
    <2> QED
      BY <2>1 DEF NoFailure, SlotFree
  <1> QED
    BY <1>1, <1>2, <1>3, <1>4, <1>5, <1>6, <1>7, <1>8, NeverTaken, NextCases

\* All chunks of a file have been sent when its last part has.
LEMMA LastCompletes ==
    ASSUME AllInv, ~WriteFailed, LastPart \/ LastFragment
    PROVE  Complete(File, Ahead[sess][fi])
  <1>1. Known /\ PlaceInv /\ n \in Nat /\ pos \in Nat
    BY KnownFacts DEF Known, AllInv, OrderInv
  <1>2. pc = "copy" /\ pos >= Length /\ n + 2 \notin DOMAIN File.parts
    BY DEF LastPart, LastFragment, Copied, HasMore
  <1>3. sess \in DOMAIN task /\ fi \in DOMAIN task[sess].files /\ pos <= Length
    BY <1>1, <1>2 DEF PlaceInv, InFile, Ended
  <1>4. /\ FileOK(File) /\ piece = PieceOf(File, n) /\ n + 1 \in DOMAIN File.parts
        /\ File.kind \in {"plain", "joined", "split"}
    BY <1>1, <1>2, <1>3, PieceFacts
  <1>5. pos = File.parts[n + 1] /\ n + 1 = Len(File.parts)
    BY <1>1, <1>2, <1>3, <1>4 DEF Length, FileOK
  <1>6. /\ EarlierReach(File, Ahead[sess][fi], piece)
        /\ UpTo(File, Ahead[sess][fi][piece + 1], n, File.parts[n + 1])
    BY <1>2, <1>5 DEF AllInv, OrderInv, ReachInv, ReachedSoFar
  <1>7. DOMAIN Ahead[sess][fi] = 1 .. piece + 1 /\ Ahead[sess][fi] \in Seq(Chunks)
    <2>1. DOMAIN disk[sess][fi] = 1 .. piece + 1
      BY <1>1, <1>2 DEF Known, ShapeInv
    <2> QED
      BY <1>1, <1>3, <2>1, KnownFacts, AheadList
  <1>8. piece \in Nat /\ piece + 1 = IF File.kind = "joined" THEN 1 ELSE Len(File.parts)
    BY <1>1, <1>4, <1>5 DEF PieceOf, FileOK
  <1>9. ReachesEnd(File, piece + 1, Ahead[sess][fi][piece + 1])
    <2>1. Ahead[sess][fi][piece + 1] \in Chunks
      BY <1>7, <1>8
    <2> QED
      BY <1>1, <1>4, <1>5, <1>6, <2>1, LastReaches
  <1>10. InSequence(File, Ahead[sess][fi], Gone(sess, fi))
    BY <1>3 DEF AllInv, OrderInv, AheadInv, File
  <1>11. ASSUME NEW q \in 1 .. piece + 1
         PROVE  InOrder(File, q, Ahead[sess][fi][q]) /\ ReachesEnd(File, q, Ahead[sess][fi][q])
    <2>1. q = piece + 1 \/ q \in 1 .. piece
      BY <1>8
    <2> QED
      BY <1>6, <1>7, <1>9, <1>10, <2>1 DEF EarlierReach, InSequence
  <1> QED
    BY <1>7, <1>8, <1>11 DEF Complete

\* A file whose copy returns without an error is complete.
LEMMA CopiedStep ==
    ASSUME Seen, AllInv, NoFailure, CopiedInv, Next
    PROVE  CopiedInv'
  <1>0. Known /\ HandFacts /\ PlaceInv
    BY KnownFacts DEF Known, AllInv, OrderInv
  <1>1. CASE LeaveFile
    <2>1. UNCHANGED <<task, sess, fi, disk, slot, unlinked>>
      BY <1>1, LeaveFrame
    <2>2. Ahead' = Ahead /\ File' = File
      BY <2>1, AheadSame DEF File
    <2>3. ret' = 0 => Complete(File, Ahead[sess][fi])
      BY <1>1, LeaveTo, NeverTaken, LastCompletes DEF CopiedInv
    <2> QED
      BY <2>1, <2>2, <2>3 DEF CopiedInv
  <1>2. CASE Receive \/ Start \/ NoJob \/ Idle \/ Terminated
    <2>1. UNCHANGED <<task, sess, fi, pc, ret, disk, slot, unlinked>>
      BY <1>2, EventFrame DEF outVars
    <2>2. Ahead' = Ahead /\ File' = File
      BY <2>1, AheadSame DEF File
    <2> QED
      BY <2>1, <2>2 DEF CopiedInv
  <1>3. CASE Write \/ Finish
    <2>1. UNCHANGED <<task, sess, fi, pc, ret>>
      BY <1>0, <1>3, WriteFrame, FinishFrame
    <2>2. pc \in {"joinwait", "close", "return"} =>
              sess \in DOMAIN task /\ fi \in DOMAIN task[sess].files
      BY <1>0 DEF PlaceInv, InFile, Ended
    <2>3. pc \in {"joinwait", "close", "return"} => Ahead'[sess][fi] = Ahead[sess][fi]
      BY <1>0, <1>3, <2>2, WriteEffect, FinishEffect
    <2>4. File' = File
      BY <2>1 DEF File
    <2> QED
      BY <2>1, <2>3, <2>4 DEF CopiedInv
  <1>4. CASE MemFails
    BY <1>0, <1>4, OpenFrame DEF CopiedInv
  <1>5. CASE pc' \notin {"joinwait", "close", "return"}
    BY <1>5 DEF CopiedInv
  <1>6. SendChunk => pc' = "copy"
    BY SendFrame DEF AllInv, NoFailure
  <1>7. OpenFile => pc' = "copy"
    BY DEF OpenFile
  <1>8. LeaveFiles \/ EndOfSession \/ Quit \/ Join \/ StartSession \/ NextFile \/ NextPart
        \/ ReadChunk => pc' \notin {"joinwait", "close", "return"}
    BY LeaveFilesFrame, EndFrame, QuitFrame, StartFrame, NextFileFrame, NextPartFrame, StayFrame
  <1> QED
    BY <1>1, <1>2, <1>3, <1>4, <1>5, <1>6, <1>7, <1>8, NeverTaken, NextCases

\* The outputs of a file that was left are not touched again.
LEMMA PastKept ==
    ASSUME Seen, AllInv, NoFailure, Next, NEW s \in DOMAIN task, NEW f \in DOMAIN task[s].files,
           s < sess \/ (pc \notin Ended /\ s = sess /\ f < fi)
    PROVE  /\ Ahead'[s][f] = Ahead[s][f] /\ task' = task
           /\ s < sess' \/ (pc' \notin Ended /\ s = sess' /\ f < fi')
  <1>0. Known /\ HandFacts /\ PlaceInv
    BY KnownFacts DEF Known, AllInv, OrderInv
  <1>1. /\ s \in Nat /\ f \in Nat /\ sess \in Nat /\ fi \in Nat
        /\ ~(s = sess /\ f = fi)
    BY <1>0, KnownFacts, TaskFacts
  <1>2. CASE Still
    <2>1. Ahead' = Ahead /\ task' = task
      BY <1>2, StillFrame, AheadSame
    <2>2. s < sess' \/ (pc' \notin Ended /\ s = sess' /\ f < fi')
      <3>1. CASE LeaveFile \/ LeaveFiles
        BY <1>1, <3>1, LeaveFrame, LeaveFilesFrame DEF Ended, Outside
      <3>2. CASE EndOfSession
        BY <1>1, <3>2, EndFrame
      <3>3. CASE Quit \/ Join
        BY <1>1, <3>3, QuitFrame
      <3>4. CASE StartSession
        BY <1>1, <3>4, StartFrame DEF Ended
      <3>5. CASE NextFile
        BY <1>1, <3>5, NextFileFrame DEF Ended
      <3>6. CASE NextPart \/ ReadChunk \/ UserAbort
        BY <1>1, <3>6, NextPartFrame, StayFrame DEF Ended
      <3>7. CASE Receive \/ Start \/ NoJob \/ Idle \/ Terminated
        BY <1>1, <3>7, EventFrame
      <3> QED
        BY <1>2, <3>1, <3>2, <3>3, <3>4, <3>5, <3>6, <3>7 DEF Still
    <2> QED
      BY <2>1, <2>2
  <1>3. CASE OpenFile \/ MemFails
    <2>1. /\ UNCHANGED <<task, sess, fi, slot, unlinked>> /\ disk' \in {disk, Created}
          /\ (disk' # disk => NewOutput) /\ pc' \notin Ended
      BY <1>0, <1>3, OpenFrame DEF NewOutput, Ended
    <2>2. Ahead'[s][f] = Ahead[s][f]
      BY <1>0, <1>1, <1>3, <2>1, AheadSame, OpenEffect
    <2>3. pc = "open"
      BY <1>0, <1>3, OpenFrame
    <2> QED
      BY <1>1, <2>1, <2>2
  <1>4. CASE SendChunk
    <2>1. UNCHANGED <<task, sess, fi>> /\ pc' = "copy"
      BY <1>4, SendFrame DEF AllInv, NoFailure
    <2>2. Ahead'[s][f] = Ahead[s][f]
      BY <1>0, <1>1, <1>4, SendEffect
    <2> QED
      BY <2>1, <2>2 DEF Ended
  <1>5. CASE Write \/ Finish
    <2>1. UNCHANGED <<task, sess, fi, pc>>
      BY <1>0, <1>5, WriteFrame, FinishFrame
    <2>2. Ahead'[s][f] = Ahead[s][f]
      BY <1>0, <1>5, WriteEffect, FinishEffect
    <2> QED
      BY <2>1, <2>2
  <1> QED
    BY <1>2, <1>3, <1>4, <1>5, NeverTaken, StillCases

\* What was removed is, and stays, complete.
LEMMA RemovedStep ==
    ASSUME Seen, AllInv, NoFailure, CopiedInv, RemovedInv, Next
    PROVE  RemovedInv'
  <1>0. Known /\ HandFacts /\ PlaceInv
    BY KnownFacts DEF Known, AllInv, OrderInv
  <1>1. ASSUME NEW m \in removed
        PROVE  /\ m[1] \in DOMAIN task' /\ m[2] \in DOMAIN task'[m[1]].files
               /\ m[1] < sess' \/ (pc' \notin Ended /\ m[1] = sess' /\ m[2] < fi')
               /\ Complete(task'[m[1]].files[m[2]], Ahead'[m[1]][m[2]])
    BY <1>1, PastKept DEF RemovedInv
  <1>2. CASE NextFile
    <2>1. UNCHANGED <<task, sess, disk, slot, unlinked>> /\ pc = "return" /\ pc' = "open"
          /\ fi' = fi + 1 /\ ret = 0 /\ removed' \subseteq removed \cup {<<sess, fi, PathPart>>}
      BY <1>2, NextFileFrame
    <2>2. Ahead' = Ahead
      BY <2>1, AheadSame
    <2>3. /\ sess \in DOMAIN task /\ fi \in DOMAIN task[sess].files /\ fi \in Nat
          /\ Complete(File, Ahead[sess][fi])
      BY <1>0, <2>1 DEF PlaceInv, InFile, Ended, CopiedInv
    <2>4. ASSUME NEW m, m = <<sess, fi, PathPart>>
          PROVE  /\ m[1] \in DOMAIN task' /\ m[2] \in DOMAIN task'[m[1]].files
                 /\ m[1] < sess' \/ (pc' \notin Ended /\ m[1] = sess' /\ m[2] < fi')
                 /\ Complete(task'[m[1]].files[m[2]], Ahead'[m[1]][m[2]])
      BY <2>1, <2>2, <2>3, <2>4 DEF File, Ended
    <2> QED
      BY <1>1, <2>1, <2>4 DEF RemovedInv
  <1>3. CASE ~NextFile
    <2>1. removed' = removed
      BY <1>0, <1>3, NextCases, NeverTaken, LeaveFrame, LeaveFilesFrame, EndFrame, QuitFrame,
         StartFrame, NextPartFrame, StayFrame, OpenFrame, SendFrame, EventUnchanged
        DEF AllInv, EventThread
    <2> QED
      BY <1>1, <2>1 DEF RemovedInv
  <1> QED
    BY <1>2, <1>3

\* At first nothing was removed.
LEMMA MoveInit == Init => MoveInv
  BY DEF Init, MoveInv, NoFailure, CopiedInv, RemovedInv, SlotFree

\* Stuttering steps keep it.
LEMMA MoveStutter == MoveInv /\ UNCHANGED vars => MoveInv'
  <1> SUFFICES ASSUME MoveInv, UNCHANGED vars PROVE MoveInv'
    OBVIOUS
  <1> USE DEF vars, placeVars, evVars, outVars
  <1>1. Ahead' = Ahead
    BY AheadSame
  <1> QED
    BY <1>1 DEF MoveInv, NoFailure, CopiedInv, RemovedInv, SlotFree, File, Ended

\* When no write fails, the user does not abort and all fragments are found, a
\* move deletes a source only when its chunks are written or in the slot
\* (file_copy.h:964 and :1038).
THEOREM DeletedIsCopied == ASSUME Prompt, Seen PROVE Spec => []MoveKeeps
  <1>1. AllInv /\ MoveInv /\ [Next]_vars => MoveInv'
    BY NoFailureStep, CopiedStep, RemovedStep, MoveStutter DEF MoveInv
  <1>2. MoveInv => MoveKeeps
    BY DEF MoveInv, RemovedInv, MoveKeeps
  <1> QED
    BY AllAlways, MoveInit, <1>1, <1>2, PTL DEF Spec

-----------------------------------------------------------------------------
(* What the outputs hold, unit by unit. *)

Stored(s, f) == Cardinality(Places(disk[s][f]))
Held(s, f)    == Cardinality(Places(Ahead[s][f]))
Units(s, f)   == Len(SourceOf(s, f))
Pending(s, f) == slot.mem # None /\ slot.fd[2] = s /\ slot.fd[3] = f

\* Every chunk is where it is in the source, with the slot's chunk and without it.
InPlace(src, out, ahead, pending) ==
    /\ Placed(src, out) /\ Placed(src, ahead)
    /\ IF pending THEN Cardinality(Places(ahead)) = Cardinality(Places(out)) + 1 ELSE ahead = out
PlacedInv == \A s \in DOMAIN task : \A f \in DOMAIN task[s].files :
    InPlace(SourceOf(s, f), disk[s][f], Ahead[s][f], Pending(s, f))

\* The slot's chunk is of the session.
SlotNow == slot.mem # None => slot.fd[2] = sess

\* The chunks that are held are those the copy thread has passed.
CameInv ==
    /\ pc \in {"copy", "send"} => Held(sess, fi) = StartOf(Numbered(File.parts), n + 1) + pos
    /\ pc = "open" /\ n > 0 => Held(sess, fi) = StartOf(Numbered(File.parts), n + 1)
    /\ pc \in {"joinwait", "close", "return"} /\ ret = 0 => Held(sess, fi) = Units(sess, fi)

\* The files that were passed are complete, and those of the sessions that returned 0.
PassedInv ==
    /\ pc \notin Ended =>
           \A f \in DOMAIN task[sess].files : f < fi => Held(sess, f) = Units(sess, f)
    /\ pc \in {"end", "endwait"} /\ ret = 0 => fi \notin DOMAIN task[sess].files
    /\ \A s \in DOMAIN task : s < sess /\ result[s] = 0 =>
           \A f \in DOMAIN task[s].files : Held(s, f) = Units(s, f)

UnitInv == PlacedInv /\ SlotNow /\ CameInv /\ PassedInv

\* A source, as a sequence of chunks.
LEMMA SourceUnits ==
    ASSUME PlaceInv, NEW s \in DOMAIN task, NEW f \in DOMAIN task[s].files
    PROVE  LET fs == task[s].files[f].parts IN
           /\ fs \in Seq(Nat) /\ FileOK(task[s].files[f])
           /\ SourceOf(s, f) \in Seq(Int \X Int) /\ Units(s, f) \in Nat
           /\ \A g : StartOf(Numbered(fs), g) \in Nat
           /\ StartOf(Numbered(fs), 1) = 0
           /\ Units(s, f) = StartOf(Numbered(fs), Len(fs) + 1)
           /\ \A g : StartOf(Numbered(fs), g) <= Units(s, f)
           /\ \A g \in DOMAIN fs : StartOf(Numbered(fs), g + 1) = StartOf(Numbered(fs), g) + fs[g]
           /\ \A g \in DOMAIN fs : \A o \in 1 .. fs[g] :
                 SourceOf(s, f)[StartOf(Numbered(fs), g) + o] = <<g - 1, o - 1>>
  <1> DEFINE fs == task[s].files[f].parts
  <1>1. task \in Tasks
    BY DEF PlaceInv
  <1>2. fs \in Seq(Nat)
    <2>1. task \in Seq(Session)
      BY <1>1, TasksAssumption
    <2>2. task[s] \in Session
      BY <2>1
    <2>3. task[s].files \in Seq(FileKind)
      BY <2>2 DEF Session
    <2>4. task[s].files[f] \in FileKind
      BY <2>3
    <2> QED
      BY <2>4 DEF FileKind
  <1>3. FileOK(task[s].files[f])
    BY <1>1, FilesOK
  <1>4. SourceOf(s, f) = EndToEnd(Numbered(fs)) /\ Units(s, f) = Len(EndToEnd(Numbered(fs)))
    BY DEF SourceOf, Units
  <1> HIDE DEF fs
  <1>5. /\ EndToEnd(Numbered(fs)) \in Seq(Int \X Int)
        /\ \A g : StartOf(Numbered(fs), g) \in Nat
        /\ \A g : StartOf(Numbered(fs), g) <= Len(EndToEnd(Numbered(fs)))
        /\ StartOf(Numbered(fs), 1) = 0
        /\ Len(EndToEnd(Numbered(fs))) = StartOf(Numbered(fs), Len(fs) + 1)
        /\ \A g \in DOMAIN fs : StartOf(Numbered(fs), g + 1) = StartOf(Numbered(fs), g) + fs[g]
        /\ \A g \in DOMAIN fs : \A o \in 1 .. fs[g] :
               EndToEnd(Numbered(fs))[StartOf(Numbered(fs), g) + o] = <<g - 1, o - 1>>
    BY <1>2, NumberedUnits
  <1>6. Units(s, f) \in Nat
    BY <1>4, <1>5
  <1> QED
    BY <1>2, <1>3, <1>4, <1>5, <1>6, Zenon DEF fs

\* The outputs of a file are lists of lists, with so many chunks.
LEMMA HeldFacts ==
    ASSUME DiskType, SlotType, NEW s \in DOMAIN task, NEW f \in DOMAIN task[s].files
    PROVE  /\ disk[s][f] \in Seq(Seq(Nat \X Nat)) /\ Ahead[s][f] \in Seq(Seq(Nat \X Nat))
           /\ Stored(s, f) \in Nat /\ Held(s, f) \in Nat
  <1>1. disk[s][f] \in Seq(Seq(Nat \X Nat)) /\ Ahead[s][f] \in Seq(Seq(Nat \X Nat))
    BY AheadList DEF Chunks
  <1> QED
    BY <1>1, PlacesFinite DEF Stored, Held

\* An output more, with nothing in it.
LEMMA CreatedUnits ==
    ASSUME NEW S, NEW T, NEW src \in Seq(T), NEW out \in Seq(Seq(S)), Placed(src, out)
    PROVE  /\ Placed(src, Append(out, << >>))
           /\ Cardinality(Places(Append(out, << >>))) = Cardinality(Places(out))
  <1>1. Placed(src, Append(out, << >>))
    BY PlacedEmpty
  <1>2. Places(Append(out, << >>)) = Places(out)
    BY EmptyFragment
  <1> QED
    BY <1>1, <1>2

\* What follows in the source is put behind all that is there, as chunk c of output m.
Follow(src, out, new, m, c) ==
    /\ m >= 1 /\ Len(out) = m /\ Len(new) = m
    /\ \A q \in 1 .. m - 1 : new[q] = out[q]
    /\ new[m] = Append(out[m], c)
    /\ Cardinality(Places(out)) + 1 <= Len(src) /\ src[Cardinality(Places(out)) + 1] = c

\* The outputs are in place then, too.
LEMMA SentUnits ==
    ASSUME NEW src \in Seq(Int \X Int), NEW out \in Seq(Seq(Nat \X Nat)),
           NEW new \in Seq(Seq(Nat \X Nat)), NEW m \in Nat, NEW c \in Nat \X Nat,
           Placed(src, out), Follow(src, out, new, m, c)
    PROVE  /\ Placed(src, new)
           /\ Cardinality(Places(new)) = Cardinality(Places(out)) + 1
  <1> USE DEF Follow
  <1>1. DOMAIN out = 1 .. m /\ m \in DOMAIN out /\ out[m] \in Seq(Nat \X Nat)
    OBVIOUS
  <1>2. PICK old \in Seq(Nat \X Nat) : old = out[m]
    BY <1>1
  <1>3. /\ Len(Append(old, c)) = Len(old) + 1 /\ Len(old) \in Nat
        /\ \A i \in 1 .. Len(old) : Append(old, c)[i] = old[i]
        /\ Append(old, c)[Len(old) + 1] = c
    BY AppendFacts
  <1>4. /\ \A k \in DOMAIN out : k # m => new[k] = out[k]
        /\ \A k \in DOMAIN out : k > m => out[k] = << >>
    <2>1. \A k \in 1 .. m : (k # m => k \in 1 .. m - 1) /\ ~(k > m)
      OBVIOUS
    <2> QED
      BY <1>1, <2>1
  <1>5. \A i \in 1 .. 1 : new[m][Len(out[m]) + i] = src[Cardinality(Places(out)) + i]
    BY <1>2, <1>3
  <1>6. Extends(src, out, new, m, 1)
    BY <1>1, <1>2, <1>3, <1>4, <1>5 DEF Extends
  <1> QED
    BY <1>6, PlacedMore

\* What sending does, when the slot has memory: the next chunk is held.
LEMMA SendUnits ==
    ASSUME Seen, AllInv, NoFailure, PlacedInv, CameInv, SendChunk
    PROVE  /\ sess \in DOMAIN task /\ fi \in DOMAIN task[sess].files
           /\ UNCHANGED <<task, sess, fi, n, disk>> /\ slot.mem = None
           /\ slot'.mem # None /\ slot'.fd = Dst /\ pc = "send" /\ pc' = "copy" /\ pos' = pos + 1
           /\ \A s \in DOMAIN task : \A f \in DOMAIN task[s].files :
                Ahead[s][f] = disk[s][f] /\ (~(s = sess /\ f = fi) => Ahead'[s][f] = Ahead[s][f])
           /\ Placed(SourceOf(sess, fi), Ahead'[sess][fi])
           /\ Cardinality(Places(Ahead'[sess][fi])) = Held(sess, fi) + 1
           /\ Ahead'[sess][fi] \in Seq(Seq(Nat \X Nat))
  <1>0. Known /\ HandFacts /\ PlaceInv /\ DiskType /\ SlotType /\ n \in Nat /\ pos \in Nat
    BY KnownFacts DEF Known, AllInv, OrderInv
  <1>1. /\ UNCHANGED <<task, sess, fi, n, disk>> /\ slot'.fd = Dst /\ pc = "send" /\ pc' = "copy"
        /\ pos' = pos + 1 /\ slot'.mem = <<n, pos>>
        /\ sess \in DOMAIN task /\ fi \in DOMAIN task[sess].files /\ SlotFree
    BY SendFrame DEF Seen, Unseen, AllInv, NoFailure
  <1>2. slot.mem = None /\ slot'.mem # None
    BY <1>0, <1>1 DEF Known, MemInv, None
  <1>3. /\ \A s \in DOMAIN task : \A f \in DOMAIN task[s].files :
              Ahead[s][f] = disk[s][f] /\ (~(s = sess /\ f = fi) => Ahead'[s][f] = Ahead[s][f])
        /\ Ahead'[sess][fi][piece + 1] = Append(Ahead[sess][fi][piece + 1], <<n, pos>>)
        /\ DOMAIN Ahead'[sess][fi] = DOMAIN Ahead[sess][fi]
        /\ \A q \in 1 .. piece : Ahead'[sess][fi][q] = Ahead[sess][fi][q]
        /\ DOMAIN Ahead[sess][fi] = 1 .. piece + 1
    BY <1>0, <1>2, SendEffect
  <1>4. piece \in Nat
    BY <1>0 DEF piece
  <1>5. Ahead'[sess][fi] \in Seq(Seq(Nat \X Nat))
    <2>1. IsFun(Ahead'[sess][fi])
      BY <1>1, AheadNext
    <2>2. Ahead[sess][fi] \in Seq(Chunks)
      BY <1>0, <1>1, AheadList
    <2>3. PICK old \in Seq(Chunks) : old = Ahead[sess][fi]
      BY <2>2
    <2>4. PICK new : new = Ahead'[sess][fi]
      OBVIOUS
    <2>5. PICK c \in Nat \X Nat : c = <<n, pos>>
      BY <1>0
    <2>6. /\ IsFun(new) /\ DOMAIN old = 1 .. piece + 1 /\ DOMAIN new = 1 .. piece + 1
          /\ new[piece + 1] = Append(old[piece + 1], c) /\ \A q \in 1 .. piece : new[q] = old[q]
      BY <1>3, <2>1, <2>3, <2>4, <2>5
    <2>7. \A q \in 1 .. piece + 1 : new[q] \in Chunks
      <3>1. \A q \in 1 .. piece + 1 : q \in 1 .. piece \/ q = piece + 1
        BY <1>4
      <3>2. \A q \in 1 .. piece + 1 : old[q] \in Chunks
        <4>1. \A q \in DOMAIN old : old[q] \in Chunks
          OBVIOUS
        <4> QED
          BY <2>6, <4>1
      <3>3. piece + 1 \in 1 .. piece + 1 /\ 1 .. piece \subseteq 1 .. piece + 1
        BY <1>4
      <3>4. PICK e \in Chunks : e = old[piece + 1]
        BY <3>2, <3>3
      <3>5. Append(e, c) \in Chunks
        BY DEF Chunks
      <3> QED
        BY <2>6, <3>1, <3>2, <3>3, <3>4, <3>5
    <2>8. [q \in 1 .. piece + 1 |-> new[q]] \in Seq(Chunks)
      BY <1>4, <2>7
    <2> QED
      BY <2>4, <2>6, <2>8 DEF IsFun, Chunks
  <1>6. PICK out \in Seq(Seq(Nat \X Nat)) : out = Ahead[sess][fi]
    BY <1>0, <1>1, HeldFacts
  <1>7. PICK new \in Seq(Seq(Nat \X Nat)) : new = Ahead'[sess][fi]
    BY <1>5
  <1>8. PICK src \in Seq(Int \X Int) : src = SourceOf(sess, fi)
    BY <1>0, <1>1, SourceUnits
  <1>9. Placed(src, out) /\ Cardinality(Places(out)) = Held(sess, fi) /\ Held(sess, fi) \in Nat
    BY <1>0, <1>1, <1>6, <1>8, HeldFacts DEF PlacedInv, InPlace, Held
  <1>10. PICK fs \in Seq(Nat) : fs = File.parts
    BY <1>0, <1>1, SourceUnits DEF File
  <1>11. n + 1 \in DOMAIN fs /\ fs[n + 1] \in Nat /\ pos < fs[n + 1]
    <2>1. n + 1 \in DOMAIN File.parts /\ pos < Length
      BY <1>0, <1>1 DEF PlaceInv
    <2> QED
      BY <1>10, <2>1 DEF Length
  <1>12. PICK k \in Nat : k = StartOf(Numbered(fs), n + 1)
    BY <1>0, <1>1, <1>10, SourceUnits DEF File
  <1>13. /\ StartOf(Numbered(fs), n + 2) = k + fs[n + 1] /\ StartOf(Numbered(fs), n + 2) <= Len(src)
         /\ \A o \in 1 .. fs[n + 1] : src[k + o] = <<n, o - 1>>
    <2>1. /\ \A g : StartOf(Numbered(fs), g) <= Len(src)
          /\ \A g \in DOMAIN fs : StartOf(Numbered(fs), g + 1) = StartOf(Numbered(fs), g) + fs[g]
          /\ \A g \in DOMAIN fs : \A o \in 1 .. fs[g] :
                src[StartOf(Numbered(fs), g) + o] = <<g - 1, o - 1>>
      BY <1>0, <1>1, <1>8, <1>10, SourceUnits, Zenon DEF File, Units
    <2>2. (n + 1) + 1 = n + 2 /\ (n + 1) - 1 = n
      BY <1>0
    <2>3. StartOf(Numbered(fs), (n + 1) + 1) = k + fs[n + 1]
      BY <1>11, <1>12, <2>1
    <2>4. \A o \in 1 .. fs[n + 1] : src[k + o] = <<(n + 1) - 1, o - 1>>
      BY <1>11, <1>12, <2>1
    <2> QED
      BY <2>1, <2>2, <2>3, <2>4
  <1>14. Held(sess, fi) = k + pos
    BY <1>1, <1>10, <1>12 DEF CameInv
  <1>15. /\ Cardinality(Places(out)) + 1 <= Len(src)
         /\ src[Cardinality(Places(out)) + 1] = <<n, pos>>
    <2>1. pos + 1 \in 1 .. fs[n + 1] /\ k + pos + 1 = k + (pos + 1) /\ (pos + 1) - 1 = pos
      BY <1>0, <1>11
    <2>2. src[k + (pos + 1)] = <<n, (pos + 1) - 1>>
      BY <1>13, <2>1
    <2>3. Len(src) \in Nat /\ k + pos + 1 <= Len(src)
      <3>1. Len(src) \in Nat /\ k + fs[n + 1] <= Len(src)
        BY <1>13
      <3>2. PICK l \in Nat : l = Len(src)
        BY <3>1
      <3>3. PICK h \in Nat : h = fs[n + 1]
        BY <1>11
      <3>4. k + h <= l /\ pos < h /\ pos \in Nat
        BY <1>0, <1>11, <3>1, <3>2, <3>3
      <3>5. k + pos + 1 <= l
        BY <3>4
      <3> QED
        BY <3>1, <3>2, <3>5
    <2> QED
      BY <1>9, <1>14, <2>1, <2>2, <2>3
  <1>16. Placed(src, new) /\ Cardinality(Places(new)) = Cardinality(Places(out)) + 1
    <2>1. PICK m \in Nat : m = piece + 1
      BY <1>4
    <2>2. PICK c \in Nat \X Nat : c = <<n, pos>>
      BY <1>0
    <2>3. Len(out) = m /\ Len(new) = m /\ m >= 1 /\ m - 1 = piece
      <3>1. DOMAIN out = 1 .. m /\ DOMAIN new = 1 .. m
        BY <1>3, <1>6, <1>7, <2>1
      <3> QED
        BY <1>4, <2>1, <3>1
    <2>4. \A q \in 1 .. m - 1 : new[q] = out[q]
      BY <1>3, <1>6, <1>7, <2>3
    <2>5. new[m] = Append(out[m], c)
      BY <1>3, <1>6, <1>7, <2>1, <2>2
    <2>6. Follow(src, out, new, m, c)
      BY <1>15, <2>2, <2>3, <2>4, <2>5 DEF Follow
    <2> QED
      BY <1>9, <2>6, SentUnits
  <1> QED
    BY <1>1, <1>2, <1>3, <1>5, <1>7, <1>8, <1>9, <1>16

\* What a step does with the chunks of a file.
LEMMA UnitsStep ==
    ASSUME Seen, AllInv, NoFailure, PlacedInv, CameInv, Next,
           NEW s \in DOMAIN task, NEW f \in DOMAIN task[s].files
    PROVE  /\ task' = task
           /\ InPlace(SourceOf(s, f), disk'[s][f], Ahead'[s][f], Pending(s, f)')
           /\ Cardinality(Places(Ahead'[s][f])) =
                  IF SendChunk /\ s = sess /\ f = fi THEN Held(s, f) + 1 ELSE Held(s, f)
           /\ Pending(s, f)' /\ ~SendChunk => Pending(s, f)
  <1>0. Known /\ HandFacts /\ PlaceInv /\ DiskType /\ SlotType
    BY KnownFacts DEF Known, AllInv, OrderInv
  <1>1. InPlace(SourceOf(s, f), disk[s][f], Ahead[s][f], Pending(s, f))
    BY DEF PlacedInv
  <1>2. PICK src \in Seq(Int \X Int) : src = SourceOf(s, f)
    BY <1>0, SourceUnits
  <1>3. PICK out \in Seq(Seq(Nat \X Nat)) : out = disk[s][f]
    BY <1>0, HeldFacts
  <1>4. PICK ahead \in Seq(Seq(Nat \X Nat)) : ahead = Ahead[s][f]
    BY <1>0, HeldFacts
  <1>5. CASE Still
    <2>1. UNCHANGED <<task, disk, slot, unlinked>>
      BY <1>5, StillFrame
    <2>2. Ahead' = Ahead
      BY <2>1, AheadSame
    <2>3. Pending(s, f)' <=> Pending(s, f)
      BY <2>1 DEF Pending
    <2>4. ~SendChunk
      <3>1. SendChunk => slot'.mem # None /\ slot.mem = None
        BY SendUnits
      <3> QED
        BY <2>1, <3>1
    <2> QED
      BY <1>1, <2>1, <2>2, <2>3, <2>4, Zenon DEF Held, InPlace
  <1>6. CASE OpenFile \/ MemFails
    <2>1. /\ UNCHANGED <<task, slot, unlinked>> /\ disk' \in {disk, Created}
          /\ (disk' # disk => NewOutput) /\ pc = "open"
      BY <1>0, <1>6, OpenFrame DEF NewOutput
    <2>2. ~SendChunk
      BY <2>1 DEF SendChunk
    <2>3. Pending(s, f)' <=> Pending(s, f)
      BY <2>1 DEF Pending
    <2>4. CASE disk' = disk
      <3>1. Ahead' = Ahead
        BY <2>1, <2>4, AheadSame
      <3> QED
        BY <1>1, <2>1, <2>2, <2>3, <2>4, <3>1, Zenon DEF Held, InPlace
    <2>5. CASE disk' # disk
      <3>1. IF s = sess /\ f = fi
            THEN /\ disk'[s][f] = Append(disk[s][f], << >>)
                 /\ Ahead'[s][f] = Append(Ahead[s][f], << >>)
            ELSE disk'[s][f] = disk[s][f] /\ Ahead'[s][f] = Ahead[s][f]
        BY <1>0, <1>6, <2>1, <2>5, OpenEffect
      <3>2. CASE s = sess /\ f = fi
        <4>1. Placed(src, out) /\ Placed(src, ahead)
          BY <1>1, <1>2, <1>3, <1>4 DEF InPlace
        <4>2. /\ Placed(src, Append(out, << >>)) /\ Placed(src, Append(ahead, << >>))
              /\ Cardinality(Places(Append(out, << >>))) = Cardinality(Places(out))
              /\ Cardinality(Places(Append(ahead, << >>))) = Cardinality(Places(ahead))
          BY <4>1, CreatedUnits
        <4>3. InPlace(src, Append(out, << >>), Append(ahead, << >>), Pending(s, f))
          BY <1>1, <1>2, <1>3, <1>4, <4>2, Zenon DEF InPlace
        <4>4. disk'[s][f] = Append(out, << >>) /\ Ahead'[s][f] = Append(ahead, << >>)
          BY <1>3, <1>4, <3>1, <3>2
        <4>5. InPlace(SourceOf(s, f), disk'[s][f], Ahead'[s][f], Pending(s, f)')
          BY <1>2, <2>3, <4>3, <4>4, Zenon DEF InPlace
        <4>6. Cardinality(Places(Ahead'[s][f])) = Held(s, f)
          BY <1>4, <4>2, <4>4 DEF Held
        <4> QED
          BY <2>1, <2>2, <2>3, <4>5, <4>6
      <3>3. CASE ~(s = sess /\ f = fi)
        BY <1>1, <2>1, <2>2, <2>3, <3>1, <3>3, Zenon DEF Held, InPlace
      <3> QED
        BY <3>2, <3>3
    <2> QED
      BY <2>4, <2>5
  <1>7. CASE SendChunk
    <2>1. /\ sess \in DOMAIN task /\ fi \in DOMAIN task[sess].files
          /\ UNCHANGED <<task, sess, fi, n, disk>> /\ slot.mem = None
          /\ slot'.mem # None /\ slot'.fd = Dst
          /\ Ahead[s][f] = disk[s][f] /\ (~(s = sess /\ f = fi) => Ahead'[s][f] = Ahead[s][f])
          /\ Placed(SourceOf(sess, fi), Ahead'[sess][fi])
          /\ Cardinality(Places(Ahead'[sess][fi])) = Held(sess, fi) + 1
      BY <1>7, SendUnits
    <2>2. Pending(s, f)' <=> s = sess /\ f = fi
      BY <2>1 DEF Pending, Dst
    <2>3. CASE s = sess /\ f = fi
      BY <1>1, <1>7, <2>1, <2>2, <2>3 DEF InPlace, Held
    <2>4. CASE ~(s = sess /\ f = fi)
      BY <1>1, <1>7, <2>1, <2>2, <2>4, Zenon DEF InPlace, Held
    <2> QED
      BY <2>3, <2>4
  <1>8. CASE Write
    <2>1. disk'[s][f] = Ahead[s][f] /\ Ahead'[s][f] = Ahead[s][f]
      BY <1>0, <1>8, WriteEffect
    <2>2. task' = task /\ slot'.mem = None /\ ~SendChunk
      <3>1. task' = task /\ slot' = [slot EXCEPT !.mem = None] /\ UNCHANGED pc
        BY <1>8 DEF Write, copyUnchanged
      <3>2. SendChunk => UNCHANGED ev
        BY DEF SendChunk, evVars
      <3>3. Write => ev # "wrote" /\ ev' = "wrote"
        BY DEF Write
      <3> QED
        BY <1>0, <1>8, <3>1, <3>2, <3>3 DEF HandFacts
    <2>3. ~Pending(s, f)'
      BY <2>2 DEF Pending
    <2> QED
      BY <1>1, <2>1, <2>2, <2>3, Zenon DEF InPlace, Held
  <1>9. CASE Finish
    <2>1. Ahead' = Ahead /\ UNCHANGED <<task, disk, unlinked>>
      BY <1>0, <1>9, FinishEffect
    <2>2. ev = "wrote" /\ ev' = "ran" /\ slot'.mem = slot.mem /\ slot'.fd = slot.fd
      BY <1>9 DEF Finish
    <2>3. Pending(s, f)' <=> Pending(s, f)
      BY <2>2 DEF Pending
    <2>4. ~SendChunk
      BY <2>2 DEF SendChunk, evVars
    <2> QED
      BY <1>1, <2>1, <2>3, <2>4, Zenon DEF InPlace, Held
  <1> QED
    BY <1>5, <1>6, <1>7, <1>8, <1>9, NeverTaken, StillCases

\* A task is not changed by carrying it out.
LEMMA SameTask ==
    ASSUME Seen, AllInv, NoFailure, Next
    PROVE  task' = task
  <1>0. Known /\ HandFacts /\ PlaceInv
    BY KnownFacts DEF Known, AllInv, OrderInv
  <1>1. OpenFile \/ MemFails \/ SendChunk => task' = task
    BY <1>0, OpenFrame, SendFrame DEF AllInv
  <1>2. Write \/ Finish => task' = task
    BY <1>0, WriteFrame, FinishFrame
  <1> QED
    BY <1>1, <1>2, StillFrame, NeverTaken, StillCases

\* Chunks stay in place.
LEMMA PlacedStep ==
    ASSUME Seen, AllInv, NoFailure, PlacedInv, CameInv, Next
    PROVE  PlacedInv'
  <1>1. \A s \in DOMAIN task : \A f \in DOMAIN task[s].files :
            InPlace(SourceOf(s, f), disk'[s][f], Ahead'[s][f], Pending(s, f)')
    BY UnitsStep
  <1>2. task' = task
    BY SameTask
  <1>3. ASSUME NEW s \in DOMAIN task', NEW f \in DOMAIN task'[s].files
        PROVE  InPlace(SourceOf(s, f), disk[s][f], Ahead[s][f], Pending(s, f))'
    <2>1. InPlace(SourceOf(s, f), disk'[s][f], Ahead'[s][f], Pending(s, f)')
      BY <1>1, <1>2
    <2>2. SourceOf(s, f)' = SourceOf(s, f)
      BY <1>2 DEF SourceOf
    <2> QED
      BY <2>1, <2>2, Zenon DEF InPlace
  <1> QED
    BY <1>3, Zenon DEF PlacedInv

\* The slot is empty when a session ends.
LEMMA NowStep ==
    ASSUME Prompt, Seen, AllInv, NoFailure, SlotNow, Next
    PROVE  SlotNow'
  <1>0. Known /\ HandFacts /\ PlaceInv
    BY KnownFacts DEF Known, AllInv, OrderInv
  <1>1. AllInv'
    BY AllStep
  <1>2. CASE EndOfSession
    <2>1. pc' \in Ended
      BY <1>2, EndFrame DEF Ended
    <2>2. SlotFree'
      BY <1>1, <2>1 DEF AllInv, CopyInv, HandInv, FreeInv
    <2>3. slot'.mem = None
      BY <1>1, <2>2 DEF AllInv, OrderInv, MemInv
    <2> QED
      BY <2>3 DEF SlotNow
  <1>3. CASE Still /\ ~EndOfSession
    <2>1. UNCHANGED slot
      BY <1>3, StillFrame
    <2>2. sess' = sess
      BY <1>3, LeaveFrame, LeaveFilesFrame, QuitFrame, StartFrame, NextFileFrame, NextPartFrame,
         StayFrame, EventFrame DEF Still
    <2> QED
      BY <2>1, <2>2 DEF SlotNow
  <1>4. CASE OpenFile \/ MemFails
    BY <1>0, <1>4, OpenFrame DEF SlotNow
  <1>5. CASE SendChunk
    <2>1. slot'.fd = Dst /\ sess' = sess
      BY <1>5, SendFrame DEF AllInv
    <2> QED
      BY <2>1 DEF SlotNow, Dst
  <1>6. CASE Write
    <2>1. slot'.mem = None
      BY <1>0, <1>6 DEF Write, HandFacts
    <2> QED
      BY <2>1 DEF SlotNow
  <1>7. CASE Finish
    <2>1. slot'.mem = slot.mem /\ slot'.fd = slot.fd /\ sess' = sess
      BY <1>0, <1>7, FinishFrame DEF Finish
    <2> QED
      BY <2>1 DEF SlotNow
  <1> QED
    BY <1>2, <1>3, <1>4, <1>5, <1>6, <1>7, NeverTaken, StillCases

\* The place of the copy thread in the source, after its step.
LEMMA CameStep ==
    ASSUME Prompt, Seen, AllInv, NoFailure, PlacedInv, CameInv, Next
    PROVE  CameInv'
  <1>0. /\ Known /\ HandFacts /\ PlaceInv /\ DiskType /\ SlotType /\ n \in Nat /\ pos \in Nat
        /\ sess \in Nat /\ fi \in Nat
    BY KnownFacts DEF Known, AllInv, OrderInv
  <1>1. task' = task
    BY SameTask
  <1> DEFINE At(k) == StartOf(Numbered(File.parts), k)
  <1>2. ASSUME sess \in DOMAIN task, fi \in DOMAIN task[sess].files, sess' = sess, fi' = fi
        PROVE  /\ File' = File /\ Units(sess, fi)' = Units(sess, fi)
               /\ Held(sess, fi)' = IF SendChunk THEN Held(sess, fi) + 1 ELSE Held(sess, fi)
    <2>1. File' = File /\ Units(sess, fi)' = Units(sess, fi)
      BY <1>1, <1>2 DEF File, Units, SourceOf
    <2>2. \A s \in DOMAIN task : \A f \in DOMAIN task[s].files :
             Cardinality(Places(Ahead'[s][f])) =
                  IF SendChunk /\ s = sess /\ f = fi THEN Held(s, f) + 1 ELSE Held(s, f)
      BY UnitsStep
    <2>3. Cardinality(Places(Ahead'[sess][fi])) =
              IF SendChunk THEN Held(sess, fi) + 1 ELSE Held(sess, fi)
      BY <1>2, <2>2
    <2>4. Held(sess, fi)' = Cardinality(Places(Ahead'[sess][fi]))
      BY <1>2 DEF Held
    <2> QED
      BY <2>1, <2>3, <2>4
  <1>3. pc \in {"copy", "send", "open"} => sess \in DOMAIN task
    BY <1>0 DEF PlaceInv, Ended
  <1>4. CASE OpenFile
    <2>1. /\ UNCHANGED <<sess, fi, n>> /\ pc = "open" /\ pc' = "copy" /\ pos' = 0
          /\ sess \in DOMAIN task /\ fi \in DOMAIN task[sess].files
      BY <1>0, <1>4, OpenFrame
    <2>2. File' = File /\ Held(sess, fi)' = Held(sess, fi)
      BY <1>2, <2>1 DEF SendChunk
    <2>3. Held(sess, fi) = At(n + 1)
      <3>1. CASE n = 0
        <4>1. disk[sess][fi] = << >>
          BY <1>0, <2>1, <3>1 DEF Known, ShapeInv, Untouched
        <4>2. Ahead[sess][fi] \in Seq(Chunks) /\ DOMAIN Ahead[sess][fi] = DOMAIN disk[sess][fi]
          BY <1>0, <2>1, AheadList
        <4>3. PICK ahead \in Seq(Chunks) : ahead = Ahead[sess][fi]
          BY <4>2
        <4>4. ahead = << >>
          <5>1. DOMAIN ahead = {}
            BY <4>1, <4>2, <4>3
          <5>2. Len(ahead) = 0
            BY <5>1
          <5> QED
            BY <5>2
        <4>5. Places(<< >>) = {} /\ Cardinality({}) = 0
          BY FS_EmptySet DEF Places
        <4>6. Held(sess, fi) = 0
          BY <4>3, <4>4, <4>5 DEF Held
        <4>7. At(1) = 0
          BY <1>0, <2>1, SourceUnits DEF File
        <4> QED
          BY <3>1, <4>6, <4>7
      <3>2. CASE n # 0
        BY <1>0, <2>1, <3>2 DEF CameInv
      <3> QED
        BY <3>1, <3>2
    <2>4. At(n + 1) \in Nat
      BY <1>0, <2>1, SourceUnits DEF File
    <2>5. Held(sess, fi)' = StartOf(Numbered(File.parts), n + 1) + pos'
      BY <2>1, <2>2, <2>3, <2>4
    <2> QED
      BY <2>1, <2>2, <2>5 DEF CameInv
  <1>5. CASE SendChunk
    <2>1. /\ sess \in DOMAIN task /\ fi \in DOMAIN task[sess].files
          /\ UNCHANGED <<sess, fi, n>> /\ pc = "send" /\ pc' = "copy" /\ pos' = pos + 1
      BY <1>5, SendUnits
    <2>2. File' = File /\ Held(sess, fi)' = Held(sess, fi) + 1
      BY <1>2, <1>5, <2>1
    <2>3. Held(sess, fi) = At(n + 1) + pos
      BY <2>1 DEF CameInv
    <2>4. At(n + 1) \in Nat
      BY <1>0, <2>1, SourceUnits DEF File
    <2>5. Held(sess, fi)' = StartOf(Numbered(File.parts), n + 1) + pos'
      BY <1>0, <2>1, <2>2, <2>3, <2>4
    <2> QED
      BY <2>1, <2>2, <2>5 DEF CameInv
  <1>6. CASE NextPart
    <2>1. /\ UNCHANGED <<sess, fi>> /\ pc = "copy" /\ pc' = "open" /\ n' = n + 1
          /\ pos >= Length /\ n + 2 \in DOMAIN File.parts
      BY <1>6, NextPartFrame
    <2>2. sess \in DOMAIN task /\ fi \in DOMAIN task[sess].files /\ n + 1 \in DOMAIN File.parts
      BY <1>0, <2>1 DEF PlaceInv, InFile, Ended
    <2>3. File' = File /\ Held(sess, fi)' = Held(sess, fi)
      BY <1>2, <2>1, <2>2 DEF SendChunk
    <2>4. Held(sess, fi) = At(n + 1) + pos
      BY <2>1 DEF CameInv
    <2>5. At((n + 1) + 1) = At(n + 1) + File.parts[n + 1]
      BY <1>0, <2>2, SourceUnits DEF File
    <2>6. pos = Length
      <3>1. Length \in Nat /\ pos <= Length
        <4>1. PICK fs \in Seq(Nat) : fs = File.parts
          BY <1>0, <2>2, SourceUnits DEF File
        <4>2. fs[n + 1] \in Nat
          BY <2>2, <4>1
        <4>3. pos <= Length
          BY <1>0, <2>1 DEF PlaceInv
        <4> QED
          BY <4>1, <4>2, <4>3 DEF Length
      <3> QED
        BY <1>0, <2>1, <3>1
    <2>7. Held(sess, fi)' = StartOf(Numbered(File.parts), n' + 1)
      BY <2>1, <2>3, <2>4, <2>5, <2>6 DEF Length
    <2> QED
      BY <2>1, <2>3, <2>7 DEF CameInv
  <1>7. CASE LastPart \/ LastFragment
    <2>1. /\ UNCHANGED <<sess, fi>> /\ pc = "copy" /\ pos >= Length /\ n + 2 \notin DOMAIN File.parts
          /\ pc' \in {"joinwait", "close"}
      BY <1>7, LeaveFrame DEF LastPart, LastFragment, Copied, HasMore, LeaveFile
    <2>2. sess \in DOMAIN task /\ fi \in DOMAIN task[sess].files /\ n + 1 \in DOMAIN File.parts
      BY <1>0, <2>1 DEF PlaceInv, InFile, Ended
    <2>3. Units(sess, fi)' = Units(sess, fi) /\ Held(sess, fi)' = Held(sess, fi)
      BY <1>2, <2>1, <2>2 DEF SendChunk
    <2>4. Held(sess, fi) = At(n + 1) + pos
      BY <2>1 DEF CameInv
    <2>5. At((n + 1) + 1) = At(n + 1) + File.parts[n + 1]
          /\ Units(sess, fi) = At(Len(File.parts) + 1) /\ FileOK(File)
      BY <1>0, <2>2, SourceUnits DEF File
    <2>6. pos = Length /\ n + 1 = Len(File.parts)
      <3>1. Length \in Nat /\ pos <= Length
        <4>1. PICK fs \in Seq(Nat) : fs = File.parts
          BY <1>0, <2>2, SourceUnits DEF File
        <4>2. fs[n + 1] \in Nat
          BY <2>2, <4>1
        <4>3. pos <= Length
          BY <1>0, <2>1 DEF PlaceInv
        <4> QED
          BY <4>1, <4>2, <4>3 DEF Length
      <3>2. n + 1 = Len(File.parts)
        BY <1>0, <2>1, <2>2, <2>5 DEF FileOK
      <3> QED
        BY <1>0, <2>1, <3>1, <3>2
    <2>7. Held(sess, fi)' = Units(sess, fi)'
      BY <2>3, <2>4, <2>5, <2>6 DEF Length
    <2> QED
      BY <2>1, <2>7 DEF CameInv
  <1>8. CASE LeaveFile /\ ~LastPart /\ ~LastFragment
    <2>1. UNCHANGED <<sess, fi>> /\ pc' \in {"joinwait", "close", "return"}
          /\ (ret' = 0 => pc \in {"joinwait", "close"} /\ ret = 0)
      BY <1>8, LeaveFrame, LeaveTo
    <2>2. ret' = 0 => sess \in DOMAIN task /\ fi \in DOMAIN task[sess].files
      BY <1>0, <2>1 DEF PlaceInv, InFile, Ended
    <2>3. ret' = 0 => Units(sess, fi)' = Units(sess, fi) /\ Held(sess, fi)' = Held(sess, fi)
      BY <1>2, <2>1, <2>2 DEF SendChunk
    <2> QED
      BY <2>1, <2>3 DEF CameInv
  <1>9. CASE ReadChunk
    <2>1. UNCHANGED <<sess, fi, n, pos>> /\ pc = "copy" /\ pc' = "send"
      BY <1>9 DEF ReadChunk, Copying, placeVars
    <2>2. sess \in DOMAIN task /\ fi \in DOMAIN task[sess].files
      BY <1>0, <2>1 DEF PlaceInv, InFile, Ended
    <2>3. File' = File /\ Held(sess, fi)' = Held(sess, fi)
      BY <1>2, <2>1, <2>2 DEF SendChunk
    <2>4. Held(sess, fi)' = StartOf(Numbered(File.parts), n + 1) + pos
      BY <2>1, <2>3 DEF CameInv
    <2> QED
      BY <2>1, <2>3, <2>4 DEF CameInv
  <1>10. CASE Receive \/ Start \/ NoJob \/ Idle \/ Terminated \/ Write \/ Finish
    <2>1. UNCHANGED <<sess, fi, n, pos, pc, ret>>
      BY <1>0, <1>10, EventFrame, WriteFrame, FinishFrame
    <2>2. pc \in {"copy", "send", "joinwait", "close", "return"} \/ (pc = "open" /\ n > 0) =>
              sess \in DOMAIN task /\ fi \in DOMAIN task[sess].files
      BY <1>0 DEF PlaceInv, InFile, Ended
    <2>3. ~SendChunk
      <3>1. SendChunk => pc = "send" /\ pc' = "copy"
        BY SendUnits
      <3> QED
        BY <2>1, <3>1
    <2>4. sess \in DOMAIN task /\ fi \in DOMAIN task[sess].files =>
              File' = File /\ Units(sess, fi)' = Units(sess, fi) /\ Held(sess, fi)' = Held(sess, fi)
      BY <1>2, <2>1, <2>3
    <2> QED
      BY <2>1, <2>2, <2>4 DEF CameInv
  <1>11. CASE MemFails
    BY <1>0, <1>11, OpenFrame DEF CameInv
  <1>12. CASE LeaveFiles \/ EndOfSession \/ Quit \/ Join
    <2>1. pc' \in {"end", "endwait", "idle", "joining", "over"}
      BY <1>12, LeaveFilesFrame, EndFrame, QuitFrame
    <2> QED
      BY <2>1 DEF CameInv
  <1>13. CASE StartSession \/ NextFile
    <2>1. pc' = "open" /\ n' = 0
      BY <1>13, StartFrame, NextFileFrame
    <2> QED
      BY <2>1 DEF CameInv
  <1> QED
    BY <1>4, <1>5, <1>6, <1>7, <1>8, <1>9, <1>10, <1>11, <1>12, <1>13, NeverTaken, NextCases

\* The files that were passed, after the step.
LEMMA PassedStep ==
    ASSUME Prompt, Seen, AllInv, NoFailure, PlacedInv, CameInv, PassedInv, Next
    PROVE  PassedInv'
  <1>0. /\ Known /\ HandFacts /\ PlaceInv /\ ResultInv /\ sess \in Nat /\ fi \in Nat \ {0}
        /\ task \in Tasks
    BY KnownFacts DEF Known, AllInv, OrderInv, CopyInv
  <1>1. task' = task
    BY SameTask
  <1>2. \A s \in DOMAIN task : s \in Nat /\ \A f \in DOMAIN task[s].files : f \in Nat
    BY <1>0, TaskFacts
  <1> DEFINE Whole(s, f) == Held(s, f) = Units(s, f)
  <1>3. ASSUME NEW s \in DOMAIN task, NEW f \in DOMAIN task[s].files, Whole(s, f),
               ~SendChunk \/ ~(s = sess /\ f = fi)
        PROVE  Held(s, f)' = Units(s, f)'
    <2>1. Cardinality(Places(Ahead'[s][f])) = Held(s, f)
      <3>1. Cardinality(Places(Ahead'[s][f])) =
                IF SendChunk /\ s = sess /\ f = fi THEN Held(s, f) + 1 ELSE Held(s, f)
        BY UnitsStep
      <3> QED
        BY <1>3, <3>1
    <2>2. Held(s, f)' = Cardinality(Places(Ahead'[s][f]))
      BY DEF Held
    <2>3. Units(s, f)' = Units(s, f)
      BY <1>1 DEF Units, SourceOf
    <2> QED
      BY <1>3, <2>1, <2>2, <2>3
  <1> HIDE DEF Whole
  <1>4. ASSUME sess' = sess, fi' = fi, result' = result, pc' \in Ended => pc \in Ended,
               pc \in Ended => pc' \in Ended,
               pc' \in {"end", "endwait"} /\ ret' = 0 => fi \notin DOMAIN task[sess].files
        PROVE  PassedInv'
    <2>1. ASSUME pc' \notin Ended, NEW f \in DOMAIN task'[sess'].files, f < fi'
          PROVE  Held(sess, f)' = Units(sess, f)'
      <3>1. sess \in DOMAIN task /\ f \in DOMAIN task[sess].files /\ f < fi /\ f # fi
        BY <1>0, <1>1, <1>2, <1>4, <2>1 DEF PlaceInv
      <3>2. Whole(sess, f)
        BY <1>4, <2>1, <3>1 DEF PassedInv, Whole
      <3>3. PICK s : s = sess /\ s = sess'
        BY <1>4
      <3>4. Held(s, f)' = Units(s, f)'
        BY <1>3, <3>1, <3>2, <3>3
      <3> QED
        BY <3>3, <3>4 DEF Held, Units, SourceOf
    <2>2. ASSUME NEW s \in DOMAIN task', s < sess', result'[s] = 0, NEW f \in DOMAIN task'[s].files
          PROVE  Held(s, f)' = Units(s, f)'
      <3>1. s \in DOMAIN task /\ f \in DOMAIN task[s].files /\ s # sess /\ s < sess
        BY <1>0, <1>1, <1>2, <1>4, <2>2
      <3>2. Whole(s, f)
        BY <1>4, <2>2, <3>1 DEF PassedInv, Whole
      <3> QED
        BY <1>3, <3>1, <3>2
    <2>3. pc' \in {"end", "endwait"} /\ ret' = 0 => fi' \notin DOMAIN task'[sess'].files
      BY <1>1, <1>4
    <2> QED
      BY <2>1, <2>2, <2>3 DEF PassedInv
  <1>5. CASE LeaveFile
    <2>1. UNCHANGED <<sess, fi>> /\ pc \notin Ended /\ pc' \in Outside
      BY <1>5, LeaveFrame DEF Ended
    <2>2. result' = result
      BY <1>5 DEF LeaveFile, StatFails, OpenReadFails, OpenWriteFails, LastPart, LastFragment,
        JoinWait, CloseSource, AbortWait, ReadFails, SeeError, Skip, SkipWith
    <2> QED
      BY <1>4, <2>1, <2>2 DEF Outside, Ended
  <1>6. CASE LeaveFiles
    <2>1. UNCHANGED <<sess, fi>> /\ pc \notin Ended /\ pc' \in {"end", "endwait"} /\ result' = result
      BY <1>6, LeaveFilesFrame DEF Ended, LeaveFiles, FileFailed, RemoveFails, NoMoreFiles,
         EndPending, ToEnd
    <2>2. ret' = 0 => fi \notin DOMAIN task[sess].files
      BY <1>6 DEF LeaveFiles, FileFailed, RemoveFails, NoMoreFiles, EndPending, ToEnd, PassedInv
    <2> QED
      BY <1>4, <2>1, <2>2 DEF Ended
  <1>7. CASE EndOfSession
    <2>1. /\ pc \in {"end", "endwait"} /\ pc' = "idle" /\ sess' = sess + 1
          /\ \E r : result' = Append(result, r) /\ (r = 0 => ret = 0) /\ r \in {0, -1}
      BY <1>0, <1>7, EndFrame
        DEF EndOfSession, End, EndWait, EndSession, NoFailure, ResultInv
    <2>2. PICK r : result' = Append(result, r) /\ (r = 0 => ret = 0) /\ r \in {0, -1}
      BY <2>1
    <2>3. result \in Seq({0, -1}) /\ Len(result) = sess - 1
      BY <1>0 DEF ResultInv
    <2>4. sess \in DOMAIN task
      BY <1>0, <2>1 DEF PlaceInv, Ended
    <2>5. ASSUME NEW s \in DOMAIN task', s < sess', result'[s] = 0, NEW f \in DOMAIN task'[s].files
          PROVE  Held(s, f)' = Units(s, f)'
      <3>0. s \in DOMAIN task /\ f \in DOMAIN task[s].files /\ s \in Nat /\ f \in Nat
            /\ (s < sess \/ s = sess) /\ s >= 1
        BY <1>0, <1>1, <1>2, <2>1, <2>5, TaskFacts
      <3>1. Whole(s, f)
        <4>1. CASE s < sess
          <5>1. s \in 1 .. Len(result)
            BY <1>0, <2>3, <3>0, <4>1
          <5>2. Append(result, r)[s] = result[s]
            BY <2>2, <2>3, <5>1
          <5>3. result[s] = 0
            BY <2>2, <2>5, <5>2
          <5> QED
            BY <3>0, <4>1, <5>3 DEF PassedInv, Whole
        <4>2. CASE s = sess
          <5>1. Append(result, r)[Len(result) + 1] = r /\ Len(result) + 1 = sess
            BY <1>0, <2>2, <2>3, AppendFacts
          <5>2. ret = 0
            BY <2>2, <2>5, <4>2, <5>1
          <5>3. fi \notin DOMAIN task[sess].files
            BY <2>1, <5>2 DEF PassedInv
          <5>4. f < fi
            <6>1. task[sess].files \in Seq(FileKind)
              <7>1. task \in Seq(Session)
                BY <1>0, TasksAssumption
              <7>2. task[sess] \in Session
                BY <2>4, <7>1
              <7> QED
                BY <7>2 DEF Session
            <6>2. PICK fs \in Seq(FileKind) : fs = task[sess].files
              BY <6>1
            <6>3. f \in 1 .. Len(fs) /\ fi \notin 1 .. Len(fs) /\ Len(fs) \in Nat
              BY <3>0, <4>2, <5>3, <6>2
            <6> QED
              BY <1>0, <6>3
          <5> QED
            BY <2>1, <3>0, <4>2, <5>4 DEF PassedInv, Whole, Ended
        <4> QED
          BY <3>0, <4>1, <4>2
      <3>2. ~SendChunk
        BY <2>1 DEF SendChunk
      <3> QED
        BY <1>3, <3>0, <3>1, <3>2
    <2> QED
      BY <2>1, <2>5 DEF PassedInv, Ended
  <1>8. CASE Quit \/ Join
    <2>1. UNCHANGED <<sess, fi>> /\ pc \in Ended /\ pc' \in Ended /\ result' = result
      BY <1>8 DEF Quit, Join, placeVars, Ended
    <2> QED
      BY <1>4, <2>1 DEF Ended
  <1>9. CASE StartSession
    <2>1. sess' = sess /\ fi' = 1 /\ pc' = "open" /\ result' = result /\ pc = "idle"
      BY <1>9 DEF StartSession
    <2>2. ASSUME NEW s \in DOMAIN task', s < sess', result'[s] = 0, NEW f \in DOMAIN task'[s].files
          PROVE  Held(s, f)' = Units(s, f)'
      <3>1. s \in DOMAIN task /\ f \in DOMAIN task[s].files /\ s # sess /\ s < sess /\ result[s] = 0
        BY <1>0, <1>1, <1>2, <2>1, <2>2
      <3>2. Whole(s, f)
        BY <3>1 DEF PassedInv, Whole
      <3> QED
        BY <1>3, <3>1, <3>2
    <2>3. sess \in DOMAIN task
      BY <1>9 DEF StartSession
    <2>4. \A f \in DOMAIN task[sess].files : ~(f < 1)
      BY <1>0, <2>3, TaskFacts
    <2> QED
      BY <1>1, <2>1, <2>2, <2>4 DEF PassedInv
  <1>10. CASE NextFile
    <2>1. UNCHANGED <<sess, result>> /\ fi' = fi + 1 /\ pc = "return" /\ pc' = "open" /\ ret = 0
      BY <1>10 DEF NextFile, MayRemove
    <2>2. sess \in DOMAIN task /\ fi \in DOMAIN task[sess].files
      BY <1>0, <2>1 DEF PlaceInv, InFile, Ended
    <2>3. ~SendChunk
      BY <2>1 DEF SendChunk
    <2>4. ASSUME NEW f \in DOMAIN task'[sess'].files, f < fi'
          PROVE  Held(sess, f)' = Units(sess, f)'
      <3>1. f \in DOMAIN task[sess].files /\ (f = fi \/ f < fi)
        BY <1>0, <1>1, <1>2, <2>1, <2>2, <2>4
      <3>2. Whole(sess, f)
        BY <2>1, <3>1 DEF PassedInv, CameInv, Whole, Ended
      <3>3. PICK s : s = sess /\ s = sess'
        BY <2>1
      <3>4. Held(s, f)' = Units(s, f)'
        BY <1>3, <2>2, <2>3, <3>1, <3>2, <3>3
      <3> QED
        BY <3>3, <3>4 DEF Held, Units, SourceOf
    <2>5. ASSUME NEW s \in DOMAIN task', s < sess', result'[s] = 0, NEW f \in DOMAIN task'[s].files
          PROVE  Held(s, f)' = Units(s, f)'
      <3>1. s \in DOMAIN task /\ f \in DOMAIN task[s].files /\ s # sess /\ s < sess /\ result[s] = 0
        BY <1>0, <1>1, <1>2, <2>1, <2>5
      <3>2. Whole(s, f)
        BY <3>1 DEF PassedInv, Whole
      <3> QED
        BY <1>3, <2>3, <3>1, <3>2
    <2> QED
      BY <2>1, <2>4, <2>5 DEF PassedInv
  <1>11. CASE OpenFile \/ MemFails
    <2>1. UNCHANGED <<sess, fi, result>> /\ pc = "open" /\ pc' \in {"copy", "close"}
      BY <1>11 DEF OpenFile, MemFails, Opening, Skip, SkipWith, placeVars
    <2> QED
      BY <1>4, <2>1 DEF Ended
  <1>12. CASE SendChunk
    <2>1. UNCHANGED <<sess, fi, result>> /\ pc = "send" /\ pc' = "copy"
      BY <1>12, SendUnits DEF SendChunk
    <2> QED
      BY <1>4, <2>1 DEF Ended
  <1>13. CASE NextPart \/ ReadChunk
    <2>1. UNCHANGED <<sess, fi, result>> /\ pc = "copy" /\ pc' \in {"open", "send"}
      BY <1>13 DEF NextPart, ReadChunk, Copied, Copying, placeVars
    <2> QED
      BY <1>4, <2>1 DEF Ended
  <1>14. CASE Receive \/ Start \/ NoJob \/ Idle \/ Terminated \/ Write \/ Finish
    <2>1. UNCHANGED <<sess, fi, pc, ret, result>>
      BY <1>0, <1>14, EventFrame, WriteFrame, FinishFrame
    <2>2. pc' \in {"end", "endwait"} /\ ret' = 0 => fi \notin DOMAIN task[sess].files
      BY <2>1 DEF PassedInv
    <2> QED
      BY <1>4, <2>1, <2>2
  <1> QED
    BY <1>5, <1>6, <1>7, <1>8, <1>9, <1>10, <1>11, <1>12, <1>13, <1>14, NeverTaken, NextCases

\* At first nothing is sent.
LEMMA UnitInit == Init => UnitInv
  <1> SUFFICES ASSUME Init PROVE UnitInv
    OBVIOUS
  <1>1. /\ task \in Tasks /\ sess = 1 /\ pc = "idle" /\ slot.mem = None /\ unlinked = {}
        /\ disk = [s \in DOMAIN task |-> [f \in DOMAIN task[s].files |-> << >>]]
    BY DEF Init
  <1>2. PlaceInv /\ DiskType /\ SlotType
    BY TypeInit DEF TypeInv
  <1>3. ASSUME NEW s \in DOMAIN task, NEW f \in DOMAIN task[s].files
        PROVE  InPlace(SourceOf(s, f), disk[s][f], Ahead[s][f], Pending(s, f))
    <2>1. disk[s][f] = << >>
      BY <1>1
    <2>2. PICK ahead \in Seq(Chunks) : ahead = Ahead[s][f] /\ DOMAIN ahead = DOMAIN disk[s][f]
      BY <1>2, AheadList
    <2>3. ahead = << >>
      <3>1. DOMAIN ahead = {}
        BY <2>1, <2>2
      <3>2. Len(ahead) = 0
        BY <3>1
      <3> QED
        BY <3>2
    <2>4. PICK src \in Seq(Int \X Int) : src = SourceOf(s, f)
      BY <1>2, SourceUnits
    <2>5. Placed(src, << >>)
      BY PlacedEmpty
    <2>6. ~Pending(s, f)
      BY <1>1 DEF Pending
    <2> QED
      BY <2>1, <2>2, <2>3, <2>4, <2>5, <2>6 DEF InPlace
  <1>4. \A s \in DOMAIN task : ~(s < sess)
    BY <1>1, TaskFacts
  <1> QED
    BY <1>1, <1>3, <1>4 DEF UnitInv, PlacedInv, SlotNow, CameInv, PassedInv, Ended

\* Stuttering steps keep it.
LEMMA UnitStutter == UnitInv /\ UNCHANGED vars => UnitInv'
  <1> SUFFICES ASSUME UnitInv, UNCHANGED vars PROVE UnitInv'
    OBVIOUS
  <1>1. UNCHANGED <<task, sess, fi, n, pos, pc, ret, slot, result, disk, unlinked>>
    BY DEF vars, placeVars, outVars
  <1>2. Ahead' = Ahead /\ File' = File
    BY <1>1, AheadSame DEF File
  <1>3. \A s, f : /\ SourceOf(s, f)' = SourceOf(s, f) /\ Units(s, f)' = Units(s, f)
                  /\ Held(s, f)' = Held(s, f) /\ (Pending(s, f)' <=> Pending(s, f))
    BY <1>1, <1>2 DEF SourceOf, Units, Held, Pending
  <1>4. PlacedInv'
    <2>1. ASSUME NEW s \in DOMAIN task', NEW f \in DOMAIN task'[s].files
          PROVE  InPlace(SourceOf(s, f), disk[s][f], Ahead[s][f], Pending(s, f))'
      <3>1. InPlace(SourceOf(s, f), disk[s][f], Ahead[s][f], Pending(s, f))
        BY <1>1, <2>1 DEF UnitInv, PlacedInv
      <3> QED
        BY <1>1, <1>2, <1>3, <3>1, Zenon DEF InPlace
    <2> QED
      BY <2>1, Zenon DEF PlacedInv
  <1>5. SlotNow'
    BY <1>1 DEF UnitInv, SlotNow
  <1>6. CameInv'
    <2>1. Held(sess, fi)' = Held(sess, fi) /\ Units(sess, fi)' = Units(sess, fi)
      BY <1>1, <1>2 DEF Held, Units, SourceOf
    <2> QED
      BY <1>1, <1>2, <2>1 DEF UnitInv, CameInv
  <1>7. PassedInv'
    BY <1>1, <1>2 DEF UnitInv, PassedInv, Held, Units, SourceOf
  <1> QED
    BY <1>4, <1>5, <1>6, <1>7 DEF UnitInv

\* Chunks are in place, and held, throughout.
LEMMA UnitAlways ==
    ASSUME Prompt, Seen
    PROVE  Spec => [](AllInv /\ NoFailure /\ UnitInv)
  <1>1. Init => NoFailure /\ UnitInv
    BY MoveInit, UnitInit DEF MoveInv
  <1>2. AllInv /\ NoFailure /\ UnitInv /\ [Next]_vars => NoFailure' /\ UnitInv'
    <2>1. AllInv /\ NoFailure /\ UnitInv /\ Next => NoFailure' /\ UnitInv'
      BY NoFailureStep, PlacedStep, NowStep, CameStep, PassedStep DEF UnitInv
    <2>2. NoFailure /\ UnitInv /\ UNCHANGED vars => NoFailure' /\ UnitInv'
      <3>1. NoFailure /\ UNCHANGED vars => NoFailure'
        BY DEF vars, placeVars, evVars, outVars, NoFailure, SlotFree
      <3> QED
        BY <3>1, UnitStutter
    <2> QED
      BY <2>1, <2>2
  <1> QED
    BY AllAlways, <1>1, <1>2, PTL DEF Spec

-----------------------------------------------------------------------------
(* The copy that CopySpec specifies. *)

\* What is delivered of a file is the beginning of it.
LEMMA DeliveredFacts ==
    ASSUME AllInv, PlacedInv, NEW s \in DOMAIN task, NEW f \in DOMAIN task[s].files
    PROVE  /\ DeliveredOf(s, f) = SubSeq(SourceOf(s, f), 1, Stored(s, f))
           /\ Len(DeliveredOf(s, f)) = Stored(s, f)
           /\ Stored(s, f) \in Nat /\ Units(s, f) \in Nat /\ Stored(s, f) <= Units(s, f)
           /\ Stored(s, f) = Units(s, f) => DeliveredOf(s, f) = SourceOf(s, f)
           /\ Held(s, f) = IF Pending(s, f) THEN Stored(s, f) + 1 ELSE Stored(s, f)
  <1>0. PlaceInv /\ DiskType /\ SlotType
    BY DEF AllInv, CopyInv, TypeInv
  <1>1. PICK src \in Seq(Int \X Int) : src = SourceOf(s, f)
    BY <1>0, SourceUnits
  <1>2. PICK out \in Seq(Seq(Nat \X Nat)) : out = disk[s][f]
    BY <1>0, HeldFacts
  <1>3. PICK t \in Nat : t = Stored(s, f)
    BY <1>0, HeldFacts
  <1>4. Cardinality(Places(out)) = t /\ Units(s, f) = Len(src) /\ DeliveredOf(s, f) = EndToEnd(out)
    BY <1>1, <1>2, <1>3 DEF Stored, Units, DeliveredOf
  <1>5. InPlace(src, out, Ahead[s][f], Pending(s, f))
    BY <1>1, <1>2 DEF PlacedInv
  <1>6. Placed(src, out)
    BY <1>5 DEF InPlace
  <1>7. EndToEnd(out) = SubSeq(src, 1, t) /\ t <= Len(src)
    <2>1. EndToEnd(out) = SubSeq(src, 1, Cardinality(Places(out)))
      BY <1>6, PlacedPrefix
    <2> QED
      BY <1>4, <1>6, <2>1 DEF Placed
  <1>8. Len(SubSeq(src, 1, t)) = t /\ (t = Len(src) => SubSeq(src, 1, t) = src) /\ Len(src) \in Nat
    BY <1>7
  <1>9. Held(s, f) = IF Pending(s, f) THEN t + 1 ELSE t
    BY <1>2, <1>4, <1>5, Zenon DEF InPlace, Held
  <1> QED
    BY <1>1, <1>3, <1>4, <1>7, <1>8, <1>9

\* What a step delivers: a chunk that is no longer in the slot.
LEMMA StoredStep ==
    ASSUME Prompt, Seen, AllInv, NoFailure, PlacedInv, CameInv, Next,
           NEW s \in DOMAIN task, NEW f \in DOMAIN task[s].files
    PROVE  /\ DeliveredOf(s, f)' = SubSeq(SourceOf(s, f), 1, Stored(s, f)')
           /\ Stored(s, f)' <= Units(s, f)
           /\ Stored(s, f)' =
                IF Pending(s, f) /\ ~Pending(s, f)' THEN Stored(s, f) + 1 ELSE Stored(s, f)
  <1>0. PlaceInv /\ DiskType' /\ task' = task
    BY AllStep, SameTask DEF AllInv, CopyInv, TypeInv
  <1>1. PICK src \in Seq(Int \X Int) : src = SourceOf(s, f)
    BY <1>0, SourceUnits
  <1>2. PICK out : out = disk'[s][f]
    OBVIOUS
  <1>3. out \in Seq(Seq(Nat \X Nat))
    BY <1>0, <1>2 DEF DiskType, Outputs
  <1>4. PICK ahead : ahead = Ahead'[s][f]
    OBVIOUS
  <1>5. PICK t \in Nat : t = Stored(s, f)
    BY HeldFacts DEF AllInv, TypeInv
  <1>6. /\ InPlace(src, out, ahead, Pending(s, f)')
        /\ Cardinality(Places(ahead)) =
               IF SendChunk /\ s = sess /\ f = fi THEN Held(s, f) + 1 ELSE Held(s, f)
        /\ Pending(s, f)' /\ ~SendChunk => Pending(s, f)
    BY <1>1, <1>2, <1>4, UnitsStep, Zenon
  <1>7. Placed(src, out) /\ Cardinality(Places(out)) \in Nat
    BY <1>3, <1>6, PlacesFinite DEF InPlace
  <1>8. EndToEnd(out) = SubSeq(src, 1, Cardinality(Places(out)))
    BY <1>3, <1>7, PlacedPrefix
  <1>9. /\ Stored(s, f)' = Cardinality(Places(out)) /\ DeliveredOf(s, f)' = EndToEnd(out)
        /\ Units(s, f) = Len(src)
    BY <1>1, <1>2 DEF Stored, DeliveredOf, Units
  <1>10. Held(s, f) = IF Pending(s, f) THEN t + 1 ELSE t
    BY <1>5, DeliveredFacts
  <1>11. Cardinality(Places(ahead)) =
             IF Pending(s, f)' THEN Cardinality(Places(out)) + 1 ELSE Cardinality(Places(out))
    BY <1>6, Zenon DEF InPlace
  <1>12. SendChunk => ~Pending(s, f) /\ (Pending(s, f)' <=> s = sess /\ f = fi)
    <2>1. SendChunk => UNCHANGED <<sess, fi>> /\ slot.mem = None /\ slot'.mem # None /\ slot'.fd = Dst
      BY SendUnits
    <2> QED
      BY <2>1 DEF Pending, Dst
  <1>13. PICK u \in Nat : u = Cardinality(Places(out))
    BY <1>7
  <1>14. u = IF Pending(s, f) /\ ~Pending(s, f)' THEN t + 1 ELSE t
    <2>1. CASE SendChunk
      <3>1. CASE s = sess /\ f = fi
        <4>1. Cardinality(Places(ahead)) = t + 1 /\ Cardinality(Places(ahead)) = u + 1
          BY <1>6, <1>10, <1>11, <1>12, <1>13, <2>1, <3>1, Zenon
        <4>2. u = t
          BY <4>1
        <4> QED
          BY <1>12, <2>1, <4>2, Zenon
      <3>2. CASE ~(s = sess /\ f = fi)
        BY <1>6, <1>10, <1>11, <1>12, <1>13, <2>1, <3>2, Zenon
      <3> QED
        BY <3>1, <3>2
    <2>2. CASE ~SendChunk
      <3>1. CASE Pending(s, f)'
        <4>1. Cardinality(Places(ahead)) = t + 1 /\ Cardinality(Places(ahead)) = u + 1
          BY <1>6, <1>10, <1>11, <1>13, <2>2, <3>1, Zenon
        <4>2. u = t
          BY <4>1
        <4> QED
          BY <3>1, <4>2, Zenon
      <3>2. CASE ~Pending(s, f)'
        <4>1. Cardinality(Places(ahead)) = Held(s, f) /\ Cardinality(Places(ahead)) = u
          BY <1>6, <1>11, <1>13, <2>2, <3>2, Zenon
        <4> QED
          BY <1>10, <3>2, <4>1, Zenon
      <3> QED
        BY <3>1, <3>2
    <2> QED
      BY <2>1, <2>2
  <1>15. Cardinality(Places(out)) <= Len(src)
    BY <1>7 DEF Placed
  <1> QED
    BY <1>1, <1>5, <1>8, <1>9, <1>13, <1>14, <1>15, Zenon

\* What the sessions returned stays, but for the end of one.
LEMMA ResultKept ==
    ASSUME Seen, AllInv, NoFailure, Next, ~EndOfSession
    PROVE  result' = result
  <1>1. OpenFile \/ MemFails \/ NextPart \/ LeaveFile => result' = result
    BY DEF OpenFile, MemFails, NextPart, LeaveFile, StatFails, OpenReadFails, OpenWriteFails,
           LastPart, LastFragment, JoinWait, CloseSource, AbortWait, ReadFails, SeeError, Skip,
           SkipWith
  <1>2. ReadChunk \/ SendChunk => result' = result
    BY DEF ReadChunk, SendChunk
  <1>3. StartSession \/ NextFile \/ LeaveFiles \/ Quit \/ Join => result' = result
    BY DEF StartSession, NextFile, LeaveFiles, FileFailed, RemoveFails, NoMoreFiles, EndPending,
           ToEnd, Quit, Join
  <1>4. Receive \/ Start \/ NoJob \/ Idle \/ Terminated \/ Write \/ Finish => result' = result
    BY EventUnchanged DEF EventThread
  <1> QED
    BY <1>1, <1>2, <1>3, <1>4, NeverTaken, NextCases

\* While a chunk is in the slot, its session copies, and the files before its own are there.
LEMMA PendingFacts ==
    ASSUME AllInv, UnitInv, NEW s \in DOMAIN task, NEW f \in DOMAIN task[s].files, Pending(s, f)
    PROVE  /\ s = sess /\ f <= fi /\ pc \notin Ended
           /\ \A d \in DOMAIN task[s].files : d < f => DeliveredOf(s, d) = SourceOf(s, d)
  <1>0. /\ Known /\ HandFacts /\ PlaceInv /\ SlotPast /\ FilesType /\ fi \in Nat
        /\ task \in Tasks
    BY KnownFacts DEF Known, AllInv, OrderInv
  <1>1. slot.mem # None /\ slot.fd[2] = s /\ slot.fd[3] = f
    BY DEF Pending
  <1>2. ~SlotFree /\ ev # "wrote"
    BY <1>0, <1>1 DEF Known, MemInv
  <1>3. s = sess /\ pc \notin Ended
    BY <1>0, <1>1, <1>2 DEF UnitInv, SlotNow, HandFacts
  <1>4. slot.fd # None
    <2>1. slot.fd \in fds
      BY <1>2 DEF AllInv, CopyInv, NoEarlyClose, SlotFree
    <2>2. slot.fd \in Descriptor
      BY <1>0, <2>1 DEF FilesType
    <2>3. \E a, b, c, d : slot.fd = <<a, b, c, d>>
      BY <2>2 DEF Descriptor
    <2> QED
      BY <2>3 DEF None
  <1>5. f <= fi
    BY <1>0, <1>1, <1>3, <1>4 DEF SlotPast
  <1>6. ASSUME NEW d \in DOMAIN task[s].files, d < f PROVE DeliveredOf(s, d) = SourceOf(s, d)
    <2>1. d \in Nat /\ f \in Nat
      BY <1>0, TaskFacts
    <2>2. d < fi /\ d # f
      BY <1>0, <1>5, <1>6, <2>1
    <2>3. Held(s, d) = Units(s, d)
      BY <1>3, <1>6, <2>2 DEF UnitInv, PassedInv
    <2>4. ~Pending(s, d)
      BY <1>1, <2>2 DEF Pending
    <2> QED
      BY <2>3, <2>4, DeliveredFacts DEF UnitInv
  <1> QED
    BY <1>3, <1>5, <1>6

\* The parts of the mapping are functions on the files of the first session.
LEMMA Mapped ==
    /\ Sources = [f \in DOMAIN task[1].files |-> SourceOf(1, f)]
    /\ Delivered = [f \in DOMAIN task[1].files |-> DeliveredOf(1, f)]
    /\ task' = task =>
         /\ Sources' = Sources
         /\ Delivered' = [f \in DOMAIN task[1].files |-> DeliveredOf(1, f)']
  BY DEF Sources, Delivered, SourceOf, DeliveredOf

\* A chunk that leaves the slot is delivered, to the first file that is not whole.
LEMMA WriteDelivers ==
    ASSUME Prompt, Seen, AllInv, NoFailure, UnitInv, Next, 1 \in DOMAIN task,
           NEW e \in DOMAIN task[1].files, Pending(1, e), ~Pending(1, e)'
    PROVE  Copy!Deliver
  <1>0. PlacedInv /\ CameInv /\ task' = task /\ task \in Tasks /\ ResultInv /\ sess \in Nat
    BY SameTask DEF UnitInv, AllInv, CopyInv, PlaceInv
  <1>1. /\ 1 = sess /\ e <= fi /\ pc \notin Ended
        /\ \A d \in DOMAIN task[1].files : d < e => DeliveredOf(1, d) = SourceOf(1, d)
    BY PendingFacts
  <1>2. Status = "copying" /\ Status' = "copying"
    <2>1. result = << >>
      BY <1>0, <1>1 DEF ResultInv
    <2>2. ~EndOfSession
      <3>1. EndOfSession => UNCHANGED slot
        BY EndFrame
      <3> QED
        BY <3>1 DEF Pending
    <2>3. result' = result
      BY <2>2, ResultKept
    <2> QED
      BY <2>1, <2>3 DEF Status
  <1>3. PICK t \in Nat : t = Stored(1, e)
    BY <1>0, DeliveredFacts
  <1>4. /\ DeliveredOf(1, e)' = SubSeq(SourceOf(1, e), 1, Stored(1, e)')
        /\ Stored(1, e)' = t + 1 /\ Stored(1, e)' <= Units(1, e)
    BY <1>0, <1>3, StoredStep
  <1>5. ASSUME NEW f \in DOMAIN task[1].files, f # e
        PROVE  DeliveredOf(1, f)' = DeliveredOf(1, f)
    <2>1. ~Pending(1, f)
      BY <1>5 DEF Pending
    <2>2. Stored(1, f)' = Stored(1, f)
      BY <1>0, <2>1, StoredStep
    <2>3. DeliveredOf(1, f)' = SubSeq(SourceOf(1, f), 1, Stored(1, f)')
      BY <1>0, StoredStep
    <2> QED
      BY <1>0, <2>2, <2>3, DeliveredFacts
  <1>6. /\ Len(Delivered[e]) = t /\ Sources[e] = SourceOf(1, e)
        /\ t + 1 <= Len(Sources[e])
    BY <1>0, <1>3, <1>4, Mapped, DeliveredFacts DEF Units
  <1>7. Delivered' = [Delivered EXCEPT ![e] = SubSeq(Sources[e], 1, t + 1)]
    BY <1>0, <1>4, <1>5, <1>6, Mapped
  <1>8. ASSUME NEW d \in 1 .. e - 1 PROVE Delivered[d] = Sources[d]
    <2>1. PICK fs \in Seq(FileKind) : fs = task[1].files
      <3>1. task \in Seq(Session)
        BY <1>0, TasksAssumption
      <3>2. task[1] \in Session
        BY <3>1
      <3> QED
        BY <3>2 DEF Session
    <2>2. d \in DOMAIN task[1].files /\ d < e
      <3>1. e \in 1 .. Len(fs) /\ Len(fs) \in Nat
        BY <2>1
      <3>2. d \in 1 .. Len(fs) /\ d < e
        BY <3>1
      <3> QED
        BY <2>1, <3>2
    <2> QED
      BY <1>1, <2>2, Mapped
  <1>9. Sources' = Sources /\ DOMAIN Sources = DOMAIN task[1].files
    BY <1>0, Mapped
  <1>10. t + 1 \in t + 1 .. t + 1
    OBVIOUS
  <1> QED
    BY <1>2, <1>6, <1>7, <1>8, <1>9, <1>10 DEF Copy!Deliver, Copy!Over, Copy!Whole

\* The first session returns well only when all its files are whole.
LEMMA EndMaps ==
    ASSUME Prompt, Seen, AllInv, NoFailure, UnitInv, Next, 1 \in DOMAIN task, EndOfSession
    PROVE  Copy!Succeed \/ Copy!Fail \/ UNCHANGED Copy!specVars
  <1>0. /\ PlacedInv /\ CameInv /\ PassedInv /\ task' = task /\ task \in Tasks /\ ResultInv
        /\ sess \in Nat /\ AllInv' /\ PassedInv' /\ PlaceInv
    BY AllStep, PassedStep, SameTask DEF UnitInv, AllInv, CopyInv, PlaceInv
  <1>1. UNCHANGED <<disk, slot>> /\ pc \in {"end", "endwait"} /\ pc' = "idle" /\ sess' = sess + 1
    BY EndFrame
  <1>2. slot.mem = None
    <2>1. SlotFree'
      BY <1>0, <1>1 DEF AllInv, CopyInv, HandInv, FreeInv, Ended
    <2> QED
      BY <1>0, <1>1, <2>1 DEF AllInv, OrderInv, MemInv
  <1>3. Sources' = Sources /\ Delivered' = Delivered
    BY <1>0, <1>1, Mapped DEF DeliveredOf
  <1>4. PICK r \in {0, -1} : result' = Append(result, r)
    BY <1>0 DEF EndOfSession, End, EndWait, EndSession, ResultInv
  <1>5. result \in Seq({0, -1}) /\ Len(result) = sess - 1
    BY <1>0 DEF ResultInv
  <1>6. CASE result # << >>
    <2>1. result'[1] = result[1] /\ result' # << >>
      BY <1>4, <1>5, <1>6
    <2>2. Status' = Status
      BY <1>6, <2>1 DEF Status
    <2> QED
      BY <1>3, <2>2 DEF Copy!specVars
  <1>7. CASE result = << >>
    <2>1. sess = 1 /\ result' = <<r>>
      BY <1>0, <1>4, <1>5, <1>7
    <2>2. Status = "copying" /\ Status' = IF r = 0 THEN "ok" ELSE "failed"
      BY <1>7, <2>1 DEF Status
    <2>3. CASE r # 0
      BY <1>3, <2>2, <2>3 DEF Copy!Fail
    <2>4. CASE r = 0
      <3>1. ASSUME NEW f \in DOMAIN task[1].files PROVE Delivered[f] = Sources[f]
        <4>1. Held(1, f)' = Units(1, f)'
          <5>1. 1 \in DOMAIN task' /\ 1 < sess' /\ result'[1] = 0 /\ f \in DOMAIN task'[1].files
            BY <1>0, <1>1, <2>1, <2>4
          <5> QED
            BY <1>0, <5>1 DEF PassedInv
        <4>2. Units(1, f)' = Units(1, f)
          BY <1>0 DEF Units, SourceOf
        <4>3. ~SendChunk
          BY <1>1 DEF SendChunk
        <4>4. Held(1, f)' = Held(1, f)
          <5>1. Cardinality(Places(Ahead'[1][f])) = Held(1, f)
            <6>1. Cardinality(Places(Ahead'[1][f])) =
                      IF SendChunk /\ 1 = sess /\ f = fi THEN Held(1, f) + 1 ELSE Held(1, f)
              BY <1>0, UnitsStep
            <6> QED
              BY <4>3, <6>1
          <5> QED
            BY <5>1 DEF Held
        <4>5. ~Pending(1, f)
          BY <1>2 DEF Pending
        <4>6. DeliveredOf(1, f) = SourceOf(1, f)
          BY <1>0, <4>1, <4>2, <4>4, <4>5, DeliveredFacts
        <4> QED
          BY <4>6, Mapped
      <3>2. DOMAIN Sources = DOMAIN task[1].files
        BY Mapped
      <3> QED
        BY <1>3, <2>2, <2>4, <3>1, <3>2 DEF Copy!Succeed, Copy!Over, Copy!Whole
    <2> QED
      BY <2>3, <2>4
  <1> QED
    BY <1>6, <1>7

\* Every other step delivers nothing.
LEMMA QuietMaps ==
    ASSUME Prompt, Seen, AllInv, NoFailure, UnitInv, Next, ~EndOfSession,
           \A f \in DOMAIN task[1].files : Pending(1, f) => Pending(1, f)', 1 \in DOMAIN task
    PROVE  UNCHANGED Copy!specVars
  <1>0. PlacedInv /\ CameInv /\ task' = task
    BY SameTask DEF UnitInv
  <1>1. ASSUME NEW f \in DOMAIN task[1].files
        PROVE  DeliveredOf(1, f)' = DeliveredOf(1, f)
    <2>1. Stored(1, f)' = Stored(1, f)
      BY <1>0, StoredStep
    <2>2. DeliveredOf(1, f)' = SubSeq(SourceOf(1, f), 1, Stored(1, f)')
      BY <1>0, StoredStep
    <2> QED
      BY <1>0, <2>1, <2>2, DeliveredFacts
  <1>2. Sources' = Sources /\ Delivered' = Delivered
    BY <1>0, <1>1, Mapped
  <1>3. Status' = Status
    BY ResultKept DEF Status
  <1> QED
    BY <1>2, <1>3 DEF Copy!specVars

\* When no write fails, the user does not abort and all fragments are found, chunks
\* reach the files in order, none is lost or repeated, and a session succeeds only
\* when all of them are written: the copy implements CopySpec for every task that
\* has a session (file_copy.h:93 and :727).
THEOREM CopyImplemented ==
    ASSUME Prompt, Seen, << >> \notin Tasks
    PROVE  Spec => ImplementsCopy
  <1>1. ASSUME task \in Tasks PROVE 1 \in DOMAIN task
    <2>1. task \in Seq(Session) /\ task # << >>
      BY <1>1, TasksAssumption
    <2> QED
      BY <2>1
  <1>2. Init => Copy!SpecInit
    <2> SUFFICES ASSUME Init PROVE Copy!SpecInit
      OBVIOUS
    <2>1. 1 \in DOMAIN task /\ result = << >>
          /\ disk = [s \in DOMAIN task |-> [f \in DOMAIN task[s].files |-> << >>]]
      BY <1>1 DEF Init
    <2>2. EndToEnd(<< >>) = << >>
      BY NoFragments
    <2>3. \A f \in DOMAIN task[1].files : DeliveredOf(1, f) = << >>
      BY <2>1, <2>2 DEF DeliveredOf
    <2>4. Delivered = [f \in DOMAIN Sources |-> << >>]
      BY <2>3, Mapped
    <2>5. Status = "copying"
      BY <2>1 DEF Status
    <2> QED
      BY <2>4, <2>5 DEF Copy!SpecInit
  <1>3. AllInv /\ NoFailure /\ UnitInv /\ [Next]_vars => [Copy!SpecNext]_(Copy!specVars)
    <2> SUFFICES ASSUME AllInv, NoFailure, UnitInv, [Next]_vars
                 PROVE  [Copy!SpecNext]_(Copy!specVars)
      OBVIOUS
    <2>1. 1 \in DOMAIN task
      BY <1>1 DEF AllInv, CopyInv, PlaceInv
    <2>2. CASE UNCHANGED vars
      <3>1. task' = task /\ disk' = disk /\ result' = result
        BY <2>2 DEF vars, outVars
      <3>2. Sources' = Sources /\ Delivered' = Delivered /\ Status' = Status
        BY <3>1, Mapped DEF DeliveredOf, Status
      <3> QED
        BY <3>2 DEF Copy!specVars
    <2>3. ASSUME Next, NEW e \in DOMAIN task[1].files, Pending(1, e), ~Pending(1, e)'
          PROVE  [Copy!SpecNext]_(Copy!specVars)
      <3>1. Copy!Deliver
        BY <2>1, <2>3, WriteDelivers
      <3> QED
        BY <3>1 DEF Copy!SpecNext
    <2>4. CASE Next /\ EndOfSession
      <3>1. Copy!Succeed \/ Copy!Fail \/ UNCHANGED Copy!specVars
        BY <2>1, <2>4, EndMaps
      <3> QED
        BY <3>1 DEF Copy!SpecNext
    <2>5. CASE /\ Next /\ ~EndOfSession
               /\ \A f \in DOMAIN task[1].files : Pending(1, f) => Pending(1, f)'
      <3>1. UNCHANGED Copy!specVars
        BY <2>1, <2>5, QuietMaps
      <3> QED
        BY <3>1
    <2> QED
      BY <2>2, <2>3, <2>4, <2>5
  <1> QED
    BY <1>2, <1>3, UnitAlways, PTL DEF Spec, ImplementsCopy, Copy!CopySpec

=============================================================================
