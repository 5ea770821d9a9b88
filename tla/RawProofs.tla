----------------------------- MODULE RawProofs ------------------------------
(***************************************************************************)
(* The raw ISO plugin, for any images, discs, devices, commands and moves  *)
(* of the tray, and with no bound on what happens after a hazard.          *)
(*                                                                         *)
(* The threads (RawSecIso) share command_queue, do_run, ntfs_running and   *)
(* eject_running with no lock.  A swap is safe because it goes through     *)
(* fixed stages: the image is taken down before the queue goes             *)
(* (ImageDown), the queue goes before the wait for do_run (QueueNamed,     *)
(* SwapInOrder), so that after the wait there is no command and none can   *)
(* come (ReadAlone), and only then does the disc change.  The rest follows *)
(* the command (OneCommand), the disc of its data (RightDisc) and the      *)
(* queues that are left at a stop (QueuesGone).                            *)
(*                                                                         *)
(* The reads (RawDisc) turn a command into a list of jobs: reads into the  *)
(* buffer, the raw sectors of a 2048 command, the moves that close the     *)
(* gaps between their data, and the fill of the CD cache.  Each job reads  *)
(* what its part of the answer needs (PlanInv); each unit of the answer is *)
(* there, or a job is yet to bring it (DataInv); the CD cache has the new  *)
(* sectors up to where its fill has come and the old ones behind           *)
(* (CacheInv).  With no job left, the answer is the image.                 *)
(***************************************************************************)
EXTENDS RawSecIso, RawDisc, EndToEndProofs

(***************************************************************************)
(* RawSecIso.  The invariant.                                              *)
(***************************************************************************)
Idle    == stp = "idle"
Serving == main \in {"got", "flag", "reopen", "read", "send"}
NoMid   == "early" \notin slips /\ "late" \notin slips /\ "silent" \notin slips

\* The types, group by group.
Flags == ntfs_running \in BOOLEAN /\ do_run \in BOOLEAN /\ ejected \in BOOLEAN
Threads ==
    /\ main \in MainStates /\ ejt \in EjectStates
    /\ stp \in {"idle", "destroy", "join", "joineject", "done"}
Ranges ==
    /\ mode \in Modes /\ eject_running \in 0 .. 2
    /\ ret \in Values /\ tries \in 0 .. MaxTries - 1
    /\ port \in {"none", "open", "gone"} /\ handle \in {"none", "open", "closed"}
    /\ tray \in {"in", "out"} /\ moves \in 0 .. MaxMoves
SlipsTyped == slips \subseteq SlipKinds
QueuesTyped ==
    /\ created \in 0 .. MaxMoves + 1 /\ command_queue \in {0, created}
    /\ alive \subseteq 1 .. created /\ inbox \subseteq 1 .. created
    /\ rq \in 0 .. created /\ cmd \in 0 .. created
    /\ mounted \in 0 .. created /\ asked \in 0 .. created
DiscsTyped ==
    /\ src \in Discs \cup {NONE} /\ mdisc \in Discs \cup {NONE}
    /\ discfd \in Discs \cup {NONE, Dangling}
    /\ psx_indx \in Discs /\ tracks \in Discs
ResultsTyped == results \subseteq [cmd : Queues, disc : Discs \cup {NONE}, value : Values]

\* A queue is created for a move of the tray that no other queue was created for.
QueuesCounted ==
    (IF created = 0 THEN 1 ELSE created) + (IF ejt \in {"tracks", "create"} THEN 1 ELSE 0)
        + (IF ejected THEN 1 ELSE 0) + (IF ~ejected /\ tray = "out" THEN 1 ELSE 0) <= moves + 1

\* Before the first mount.
Started ==
    /\ main = "setup" => slips = {} /\ created = 0 /\ alive = {} /\ command_queue = 0
    /\ created = 0 => main \in {"setup", "done"} /\ ejt = "none" /\ mounted = 0
    /\ main \in {"setup", "spawn", "mount"} => discfd = NONE /\ cmd = 0
    /\ main \in {"setup", "spawn"} => ejt = "none" /\ tracks = psx_indx /\ ~ejected
    /\ main = "spawn" \/ ejt # "none" => Multi
    /\ eject_running = 0 => main \in {"cleanup", "done"}
    /\ ntfs_running <=> Idle

\* The queue that command_queue names is alive until a stop, and only a live queue holds
\* commands.
QueueNamed ==
    /\ inbox \subseteq alive
    /\ ejt = "destroy" => command_queue = 0
    /\ ejt \in {"revive", "mount"} => command_queue # 0
    /\ Idle /\ command_queue # 0 => command_queue \in alive

\* Main finds no queue only while a swap is on, and before the next poll.
QueueMissed ==
    /\ Idle => main # "shutdown"
    /\ Idle /\ ((main = "receive" /\ command_queue = 0) \/ (main = "failed" /\ ret = "ESRCH"))
         => command_queue = 0 /\ ejt \in {"destroy", "wait", "next", "poll"}

\* A command is served from its receipt to its answer.
CommandKept ==
    /\ mounted = 0 => asked = 0 /\ results = {}
    /\ Serving => cmd # 0
    /\ cmd # 0 /\ Idle => Serving

\* The image is down, and no read of it is left.
TakenDown == ejt \in {"closefd", "closehandle", "queue", "destroy", "wait"}
Swapped   == ejt \in {"next", "tracks", "create", "revive", "mount"} \/ (ejt = "poll" /\ ejected)

CleanQueues ==
    /\ alive \subseteq {created}
    /\ command_queue = 0 /\ ejt # "destroy" => alive = {}

\* A swap goes from an eject to an insertion, and leaves one queue at most.
SwapInOrder == "silent" \notin slips =>
    /\ ejt \in {"umount", "closefd", "closehandle", "queue", "destroy", "wait", "next"} => ejected
    /\ ejt \in {"tracks", "create", "revive", "mount"} => ~ejected
    /\ ejt \in {"destroy", "wait", "next", "tracks", "create"} \/ (ejt = "poll" /\ ejected)
         => command_queue = 0
    /\ Idle => CleanQueues

\* The image is taken down first, and put up last.
ImageDown == NoMid =>
    /\ main \in {"setup", "spawn", "mount"} =>
         ejt \in {"none", "poll"} /\ ~ejected /\ tracks = psx_indx /\ mounted = 0 /\ inbox = {}
    /\ TakenDown \/ Swapped => mounted = 0

\* While the read of a command goes on do_run is up, and the swap waits.
ReadAlone == NoMid /\ Idle =>
    /\ main \in {"reopen", "read", "send"} => do_run
    /\ Swapped => ~Serving /\ inbox = {}

\* There is at most one command or result for an image.
OneCommand == NoMid =>
    /\ Idle /\ cmd # 0 => inbox = {} /\ (mounted # 0 => asked = cmd)
    /\ Idle /\ mounted # 0 => inbox \subseteq {asked}
    /\ results # {} => inbox = {} /\ cmd = 0
    /\ asked = 0 => results = {}
    /\ \A r, s \in results : r = s
    /\ \A r \in results : r.cmd = asked

\* What is open is the disc in turn, and an image that is mounted is of it.
RightDisc == NoMid /\ "reopened" \notin slips =>
    /\ Idle => discfd \in {NONE, psx_indx, Dangling}
    /\ Idle /\ (TakenDown \/ Swapped) /\ ejt # "closefd" => discfd \in {NONE, Dangling}
    /\ Idle /\ mounted # 0 => mdisc = psx_indx /\ tracks = psx_indx
    /\ ejt \in {"create", "revive", "mount"} => tracks = psx_indx
    /\ Idle /\ main = "send" /\ mounted # 0 /\ ret = "ok" => src = mdisc
    /\ \A r \in results : r.value = "ok" => r.disc = mdisc

\* The stop thread waits for the end of the others.
StopJoins ==
    /\ stp \in {"joineject", "done"} => main = "done"
    /\ stp = "done" => ejt \in {"none", "done"}

\* Once the stop thread has destroyed the queue, none is left but one the eject thread
\* is about to destroy.
QueuesGone == "silent" \notin slips /\ "orphan" \notin slips =>
    /\ stp = "destroy" => CleanQueues
    /\ stp \in {"join", "joineject", "done"} =>
        alive \subseteq {created} /\ (ejt # "destroy" => alive = {})

\* What main closes when it ends stays closed.
MainClosed == "unserved" \notin slips /\ main = "done" =>
    port # "open" /\ handle # "open" /\ discfd \notin Discs

Types == Flags /\ Threads /\ Ranges /\ SlipsTyped /\ QueuesTyped /\ DiscsTyped /\ ResultsTyped
Swap  == QueuesCounted /\ Started /\ QueueNamed /\ QueueMissed /\ CommandKept /\ SwapInOrder
         /\ ImageDown /\ ReadAlone /\ OneCommand /\ RightDisc
End   == StopJoins /\ QueuesGone /\ MainClosed
IInv  == Types /\ Swap /\ End

(***************************************************************************)
(* The steps.                                                              *)
(***************************************************************************)
KernelSteps == Ask \/ TakeResult \/ MoveTray
StartSteps == SetupFails \/ Setup \/ Spawn \/ MountFirst \/ MountFirstFails
LoopSteps == Loop \/ Check \/ Receive \/ Received \/ Cancelled \/ ReceiveFailed \/ Got \/ Flag
ReadSteps == AlreadyOpen \/ Reopen \/ GiveUpReopen \/ FileRead \/ RawRetry \/ RawFails
             \/ MultiFails \/ DeviceLost \/ FileReadFails \/ ShortRead
SendSteps == Send \/ SendBusy \/ SendFails \/ SendStopped \/ Exit \/ Cleanup
PollSteps == EjectEnds \/ SeeEject \/ SeeError \/ SeeInsert \/ SeeInsertFails
TakeSteps == TakeDown \/ CloseFile \/ CloseHandle \/ ForgetQueue \/ DestroyQueue \/ WaitRead
             \/ NextDisc
PutSteps == LoadTracks \/ CreateQueue \/ CreateFails \/ Revive \/ Remount \/ RemountFails
StopSteps == Stop \/ StopQueue \/ JoinMain \/ JoinEject

\* Every step is one of these.
LEMMA StepCases ==
    ASSUME Next
    PROVE  \/ KernelSteps \/ StartSteps \/ LoopSteps \/ ReadSteps \/ SendSteps
           \/ PollSteps \/ TakeSteps \/ PutSteps \/ StopSteps
  BY DEF Next, MainNext, MainFault, MainGood, ReadFault, ReadGood, EjectNext, EjectFault, EjectGood,
         StopGood, KernelSteps, StartSteps, LoopSteps, ReadSteps, SendSteps, PollSteps, TakeSteps,
         PutSteps, StopSteps

\* In the proofs below the tuples of variables and what actions share are always expanded.
USE DEF threadVars, queueVars, serveVars, fileVars, discVars, kernelVars, trayVars, Multi, goMain,
        Usb, Mount, QueueReplaced, readUnchanged, BackAgain, SwapUnderWay, ReadDone, CanRead,
        DataDisc, ReadFails, CommandOver, sendUnchanged, Closed, Unmount, goEject, ejectUnchanged,
        CanPoll, MainIsBusy, ServesNobody, Revives, DestroyForce, PreviousDisc, goStop,
        stopUnchanged, Idle, Serving, NoMid, TakenDown, Swapped, CleanQueues

(***************************************************************************)
(* Every step keeps every part of the invariant.                           *)
(***************************************************************************)

\* The flags stay Booleans.
LEMMA FlagsStep ==
    ASSUME Flags, Next
    PROVE  Flags'
<1>1. CASE KernelSteps
  BY <1>1 DEF KernelSteps, Ask, TakeResult, MoveTray, Flags
<1>2. CASE StartSteps
  BY <1>2 DEF StartSteps, SetupFails, Setup, Spawn, MountFirst, MountFirstFails, Flags
<1>3. CASE LoopSteps
  BY <1>3 DEF LoopSteps, Loop, Check, Receive, Received, Cancelled, ReceiveFailed, Got, Flag,
              Flags
<1>4. CASE ReadSteps
  BY <1>4 DEF ReadSteps, AlreadyOpen, Reopen, GiveUpReopen, FileRead, RawRetry, RawFails,
              MultiFails, DeviceLost, FileReadFails, ShortRead, Flags
<1>5. CASE SendSteps
  BY <1>5 DEF SendSteps, Send, SendBusy, SendFails, SendStopped, Exit, Cleanup, Flags
<1>6. CASE PollSteps
  BY <1>6 DEF PollSteps, EjectEnds, SeeEject, SeeError, SeeInsert, SeeInsertFails, Flags
<1>7. CASE TakeSteps
  BY <1>7 DEF TakeSteps, TakeDown, CloseFile, CloseHandle, ForgetQueue, DestroyQueue, WaitRead,
              NextDisc, Flags
<1>8. CASE PutSteps
  BY <1>8 DEF PutSteps, LoadTracks, CreateQueue, CreateFails, Revive, Remount, RemountFails, Flags
<1>9. CASE StopSteps
  BY <1>9 DEF StopSteps, Stop, StopQueue, JoinMain, JoinEject, Flags
<1> QED
  BY <1>1, <1>2, <1>3, <1>4, <1>5, <1>6, <1>7, <1>8, <1>9, StepCases

\* Each thread stays in one of its places.
LEMMA ThreadsStep ==
    ASSUME Threads, Next
    PROVE  Threads'
<1>1. CASE KernelSteps
  BY <1>1 DEF KernelSteps, Ask, TakeResult, MoveTray, Threads, MainStates, EjectStates
<1>2. CASE StartSteps
  BY <1>2 DEF StartSteps, SetupFails, Setup, Spawn, MountFirst, MountFirstFails, Threads,
              MainStates, EjectStates
<1>3. CASE LoopSteps
  BY <1>3 DEF LoopSteps, Loop, Check, Receive, Received, Cancelled, ReceiveFailed, Got, Flag,
              Threads, MainStates, EjectStates
<1>4. CASE ReadSteps
  BY <1>4 DEF ReadSteps, AlreadyOpen, Reopen, GiveUpReopen, FileRead, RawRetry, RawFails,
              MultiFails, DeviceLost, FileReadFails, ShortRead, Threads, MainStates, EjectStates
<1>5. CASE SendSteps
  BY <1>5 DEF SendSteps, Send, SendBusy, SendFails, SendStopped, Exit, Cleanup, Threads,
              MainStates, EjectStates
<1>6. CASE PollSteps
  BY <1>6 DEF PollSteps, EjectEnds, SeeEject, SeeError, SeeInsert, SeeInsertFails, Threads,
              MainStates, EjectStates
<1>7. CASE TakeSteps
  BY <1>7 DEF TakeSteps, TakeDown, CloseFile, CloseHandle, ForgetQueue, DestroyQueue, WaitRead,
              NextDisc, Threads, MainStates, EjectStates
<1>8. CASE PutSteps
  BY <1>8 DEF PutSteps, LoadTracks, CreateQueue, CreateFails, Revive, Remount, RemountFails,
              Threads, MainStates, EjectStates
<1>9. CASE StopSteps
  BY <1>9 DEF StopSteps, Stop, StopQueue, JoinMain, JoinEject, Threads, MainStates, EjectStates
<1> QED
  BY <1>1, <1>2, <1>3, <1>4, <1>5, <1>6, <1>7, <1>8, <1>9, StepCases

\* The mode, the device, the port and the counts keep their types.
LEMMA PlacesStep ==
    ASSUME Ranges, Next
    PROVE  Ranges'
<1>1. CASE KernelSteps
  BY <1>1, BoundsAssumption DEF KernelSteps, Ask, TakeResult, MoveTray, Ranges, Values
<1>2. CASE StartSteps
  BY <1>2, BoundsAssumption DEF StartSteps, SetupFails, Setup, Spawn, MountFirst, MountFirstFails,
                                Ranges, Values
<1>3. CASE LoopSteps
  BY <1>3, BoundsAssumption DEF LoopSteps, Loop, Check, Receive, Received, Cancelled,
                                ReceiveFailed, Got, Flag, Ranges, Values
<1>4. CASE ReadSteps
  BY <1>4, BoundsAssumption DEF ReadSteps, AlreadyOpen, Reopen, GiveUpReopen, FileRead, RawRetry,
                                RawFails, MultiFails, DeviceLost, FileReadFails, ShortRead,
                                Ranges, Values
<1>5. CASE SendSteps
  BY <1>5, BoundsAssumption DEF SendSteps, Send, SendBusy, SendFails, SendStopped, Exit, Cleanup,
                                Ranges, Values
<1>6. CASE PollSteps
  BY <1>6, BoundsAssumption DEF PollSteps, EjectEnds, SeeEject, SeeError, SeeInsert,
                                SeeInsertFails, Ranges, Values
<1>7. CASE TakeSteps
  BY <1>7, BoundsAssumption DEF TakeSteps, TakeDown, CloseFile, CloseHandle, ForgetQueue,
                                DestroyQueue, WaitRead, NextDisc, Ranges, Values
<1>8. CASE PutSteps
  BY <1>8, BoundsAssumption DEF PutSteps, LoadTracks, CreateQueue, CreateFails, Revive, Remount,
                                RemountFails, Ranges, Values
<1>9. CASE StopSteps
  BY <1>9, BoundsAssumption DEF StopSteps, Stop, StopQueue, JoinMain, JoinEject, Ranges, Values
<1> QED
  BY <1>1, <1>2, <1>3, <1>4, <1>5, <1>6, <1>7, <1>8, <1>9, StepCases

\* A hazard that is noted is one of those that are known.
LEMMA SlipsTypedStep ==
    ASSUME SlipsTyped, Next
    PROVE  SlipsTyped'
<1>0. ASSUME UNCHANGED <<slips>>
      PROVE  SlipsTyped'
  BY <1>0 DEF SlipsTyped, SlipKinds
<1>1. CASE KernelSteps
  BY <1>1, <1>0 DEF KernelSteps, Ask, TakeResult, MoveTray
<1>2. CASE StartSteps
  <2>1. CASE SetupFails \/ Spawn \/ MountFirst \/ MountFirstFails
    BY <2>1, <1>0 DEF SetupFails, Spawn, MountFirst, MountFirstFails
  <2>2. CASE Setup
    BY <2>2 DEF Setup, SlipsTyped, SlipKinds
  <2> QED
    BY <1>2, <2>1, <2>2 DEF StartSteps
<1>3. CASE LoopSteps
  BY <1>3, <1>0 DEF LoopSteps, Loop, Check, Receive, Received, Cancelled, ReceiveFailed, Got, Flag
<1>4. CASE ReadSteps
  <2>1. CASE AlreadyOpen \/ GiveUpReopen \/ FileRead \/ RawRetry \/ RawFails \/ MultiFails
             \/ ShortRead
    BY <2>1, <1>0 DEF AlreadyOpen, GiveUpReopen, FileRead, RawRetry, RawFails, MultiFails,
                      ShortRead
  <2>2. CASE Reopen
    BY <2>2 DEF Reopen, SlipsTyped, SlipKinds
  <2>3. CASE DeviceLost
    BY <2>3 DEF DeviceLost, SlipsTyped, SlipKinds
  <2>4. CASE FileReadFails
    BY <2>4 DEF FileReadFails, SlipsTyped, SlipKinds
  <2> QED
    BY <1>4, <2>1, <2>2, <2>3, <2>4 DEF ReadSteps
<1>5. CASE SendSteps
  BY <1>5, <1>0 DEF SendSteps, Send, SendBusy, SendFails, SendStopped, Exit, Cleanup
<1>6. CASE PollSteps
  <2>1. CASE EjectEnds \/ SeeInsertFails
    BY <2>1, <1>0 DEF EjectEnds, SeeInsertFails
  <2>2. CASE SeeEject
    BY <2>2 DEF SeeEject, SlipsTyped, SlipKinds
  <2>3. CASE SeeError
    BY <2>3 DEF SeeError, SlipsTyped, SlipKinds
  <2>4. CASE SeeInsert
    BY <2>4 DEF SeeInsert, SlipsTyped, SlipKinds
  <2> QED
    BY <1>6, <2>1, <2>2, <2>3, <2>4 DEF PollSteps
<1>7. CASE TakeSteps
  <2>1. CASE TakeDown \/ CloseFile \/ CloseHandle \/ DestroyQueue \/ NextDisc
    BY <2>1, <1>0 DEF TakeDown, CloseFile, CloseHandle, DestroyQueue, NextDisc
  <2>2. CASE ForgetQueue
    BY <2>2 DEF ForgetQueue, SlipsTyped, SlipKinds
  <2>3. CASE WaitRead
    BY <2>3 DEF WaitRead, SlipsTyped, SlipKinds
  <2> QED
    BY <1>7, <2>1, <2>2, <2>3 DEF TakeSteps
<1>8. CASE PutSteps
  <2>1. CASE LoadTracks \/ CreateFails \/ RemountFails
    BY <2>1, <1>0 DEF LoadTracks, CreateFails, RemountFails
  <2>2. CASE CreateQueue
    BY <2>2 DEF CreateQueue, SlipsTyped, SlipKinds
  <2>3. CASE Revive
    BY <2>3 DEF Revive, SlipsTyped, SlipKinds
  <2>4. CASE Remount
    BY <2>4 DEF Remount, SlipsTyped, SlipKinds
  <2> QED
    BY <1>8, <2>1, <2>2, <2>3, <2>4 DEF PutSteps
<1>9. CASE StopSteps
  BY <1>9, <1>0 DEF StopSteps, Stop, StopQueue, JoinMain, JoinEject
<1> QED
  BY <1>1, <1>2, <1>3, <1>4, <1>5, <1>6, <1>7, <1>8, <1>9, StepCases

\* Queues are numbered as they are created, MaxMoves + 1 at most.
LEMMA QueuesTypedStep ==
    ASSUME QueuesTyped, Ranges, QueuesCounted, Started, Next
    PROVE  QueuesTyped'
<1>0. ASSUME UNCHANGED <<command_queue, alive, created, inbox, rq, cmd, mounted, asked>>
      PROVE  QueuesTyped'
  BY <1>0 DEF QueuesTyped
<1>1. CASE KernelSteps
  <2>1. CASE Ask
    BY <2>1, BoundsAssumption DEF Ask, QueuesTyped, Ranges, QueuesCounted, Started
  <2>2. CASE TakeResult
    BY <2>2, BoundsAssumption DEF TakeResult, QueuesTyped, Ranges, QueuesCounted, Started
  <2>3. CASE MoveTray
    BY <2>3, <1>0 DEF MoveTray
  <2> QED
    BY <1>1, <2>1, <2>2, <2>3 DEF KernelSteps
<1>2. CASE StartSteps
  <2>1. CASE SetupFails \/ Spawn \/ MountFirstFails
    BY <2>1, <1>0 DEF SetupFails, Spawn, MountFirstFails
  <2>2. CASE Setup
    BY <2>2, BoundsAssumption DEF Setup, QueuesTyped, Ranges, QueuesCounted, Started
  <2>3. CASE MountFirst
    BY <2>3, BoundsAssumption DEF MountFirst, QueuesTyped, Ranges, QueuesCounted, Started
  <2> QED
    BY <1>2, <2>1, <2>2, <2>3 DEF StartSteps
<1>3. CASE LoopSteps
  <2>1. CASE Loop \/ Check \/ ReceiveFailed \/ Got \/ Flag
    BY <2>1, <1>0 DEF Loop, Check, ReceiveFailed, Got, Flag
  <2>2. CASE Receive
    BY <2>2, BoundsAssumption DEF Receive, QueuesTyped, Ranges, QueuesCounted, Started
  <2>3. CASE Received
    BY <2>3, BoundsAssumption DEF Received, QueuesTyped, Ranges, QueuesCounted, Started
  <2>4. CASE Cancelled
    BY <2>4, BoundsAssumption DEF Cancelled, QueuesTyped, Ranges, QueuesCounted, Started
  <2> QED
    BY <1>3, <2>1, <2>2, <2>3, <2>4 DEF LoopSteps
<1>4. CASE ReadSteps
  BY <1>4, <1>0 DEF ReadSteps, AlreadyOpen, Reopen, GiveUpReopen, FileRead, RawRetry, RawFails,
                    MultiFails, DeviceLost, FileReadFails, ShortRead
<1>5. CASE SendSteps
  <2>1. CASE Send
    BY <2>1, BoundsAssumption DEF Send, QueuesTyped, Ranges, QueuesCounted, Started
  <2>2. CASE SendBusy \/ Exit
    BY <2>2, <1>0 DEF SendBusy, Exit
  <2>3. CASE SendFails
    BY <2>3, BoundsAssumption DEF SendFails, QueuesTyped, Ranges, QueuesCounted, Started
  <2>4. CASE SendStopped
    BY <2>4, BoundsAssumption DEF SendStopped, QueuesTyped, Ranges, QueuesCounted, Started
  <2>5. CASE Cleanup
    BY <2>5, BoundsAssumption DEF Cleanup, QueuesTyped, Ranges, QueuesCounted, Started
  <2> QED
    BY <1>5, <2>1, <2>2, <2>3, <2>4, <2>5 DEF SendSteps
<1>6. CASE PollSteps
  BY <1>6, <1>0 DEF PollSteps, EjectEnds, SeeEject, SeeError, SeeInsert, SeeInsertFails
<1>7. CASE TakeSteps
  <2>1. CASE TakeDown
    BY <2>1, BoundsAssumption DEF TakeDown, QueuesTyped, Ranges, QueuesCounted, Started
  <2>2. CASE CloseFile \/ CloseHandle \/ WaitRead \/ NextDisc
    BY <2>2, <1>0 DEF CloseFile, CloseHandle, WaitRead, NextDisc
  <2>3. CASE ForgetQueue
    BY <2>3, BoundsAssumption DEF ForgetQueue, QueuesTyped, Ranges, QueuesCounted, Started
  <2>4. CASE DestroyQueue
    BY <2>4, BoundsAssumption DEF DestroyQueue, QueuesTyped, Ranges, QueuesCounted, Started
  <2> QED
    BY <1>7, <2>1, <2>2, <2>3, <2>4 DEF TakeSteps
<1>8. CASE PutSteps
  <2>1. CASE LoadTracks \/ CreateFails \/ Revive \/ RemountFails
    BY <2>1, <1>0 DEF LoadTracks, CreateFails, Revive, RemountFails
  <2>2. CASE CreateQueue
    BY <2>2, BoundsAssumption DEF CreateQueue, QueuesTyped, Ranges, QueuesCounted, Started
  <2>3. CASE Remount
    BY <2>3, BoundsAssumption DEF Remount, QueuesTyped, Ranges, QueuesCounted, Started
  <2> QED
    BY <1>8, <2>1, <2>2, <2>3 DEF PutSteps
<1>9. CASE StopSteps
  <2>1. CASE Stop \/ JoinMain \/ JoinEject
    BY <2>1, <1>0 DEF Stop, JoinMain, JoinEject
  <2>2. CASE StopQueue
    BY <2>2, BoundsAssumption DEF StopQueue, QueuesTyped, Ranges, QueuesCounted, Started
  <2> QED
    BY <1>9, <2>1, <2>2 DEF StopSteps
<1> QED
  BY <1>1, <1>2, <1>3, <1>4, <1>5, <1>6, <1>7, <1>8, <1>9, StepCases

\* The numbers of discs stay in their range, through the counting up and back.
LEMMA DiscsTypedStep ==
    ASSUME DiscsTyped, Next
    PROVE  DiscsTyped'
<1>1. CASE KernelSteps
  BY <1>1, BoundsAssumption DEF KernelSteps, Ask, TakeResult, MoveTray, DiscsTyped, Discs
<1>2. CASE StartSteps
  BY <1>2, BoundsAssumption DEF StartSteps, SetupFails, Setup, Spawn, MountFirst, MountFirstFails,
                                DiscsTyped, Discs
<1>3. CASE LoopSteps
  BY <1>3, BoundsAssumption DEF LoopSteps, Loop, Check, Receive, Received, Cancelled,
                                ReceiveFailed, Got, Flag, DiscsTyped, Discs
<1>4. CASE ReadSteps
  BY <1>4, BoundsAssumption DEF ReadSteps, AlreadyOpen, Reopen, GiveUpReopen, FileRead, RawRetry,
                                RawFails, MultiFails, DeviceLost, FileReadFails, ShortRead,
                                DiscsTyped, Discs
<1>5. CASE SendSteps
  BY <1>5, BoundsAssumption DEF SendSteps, Send, SendBusy, SendFails, SendStopped, Exit, Cleanup,
                                DiscsTyped, Discs
<1>6. CASE PollSteps
  BY <1>6, BoundsAssumption DEF PollSteps, EjectEnds, SeeEject, SeeError, SeeInsert,
                                SeeInsertFails, DiscsTyped, Discs
<1>7. CASE TakeSteps
  BY <1>7, BoundsAssumption DEF TakeSteps, TakeDown, CloseFile, CloseHandle, ForgetQueue,
                                DestroyQueue, WaitRead, NextDisc, DiscsTyped, Discs
<1>8. CASE PutSteps
  BY <1>8, BoundsAssumption DEF PutSteps, LoadTracks, CreateQueue, CreateFails, Revive, Remount,
                                RemountFails, DiscsTyped, Discs
<1>9. CASE StopSteps
  BY <1>9, BoundsAssumption DEF StopSteps, Stop, StopQueue, JoinMain, JoinEject, DiscsTyped, Discs
<1> QED
  BY <1>1, <1>2, <1>3, <1>4, <1>5, <1>6, <1>7, <1>8, <1>9, StepCases

\* What is sent is a result: main sends only for a command.
LEMMA ResultsTypedStep ==
    ASSUME ResultsTyped, Ranges, QueuesTyped, DiscsTyped, CommandKept, Next
    PROVE  ResultsTyped'
<1>1. CASE KernelSteps
  BY <1>1, BoundsAssumption DEF KernelSteps, Ask, TakeResult, MoveTray, ResultsTyped, Ranges,
                                QueuesTyped, DiscsTyped, CommandKept, Queues
<1>2. CASE StartSteps
  BY <1>2, BoundsAssumption DEF StartSteps, SetupFails, Setup, Spawn, MountFirst, MountFirstFails,
                                ResultsTyped, Ranges, QueuesTyped, DiscsTyped, CommandKept, Queues
<1>3. CASE LoopSteps
  BY <1>3, BoundsAssumption DEF LoopSteps, Loop, Check, Receive, Received, Cancelled,
                                ReceiveFailed, Got, Flag, ResultsTyped, Ranges, QueuesTyped,
                                DiscsTyped, CommandKept, Queues
<1>4. CASE ReadSteps
  BY <1>4, BoundsAssumption DEF ReadSteps, AlreadyOpen, Reopen, GiveUpReopen, FileRead, RawRetry,
                                RawFails, MultiFails, DeviceLost, FileReadFails, ShortRead,
                                ResultsTyped, Ranges, QueuesTyped, DiscsTyped, CommandKept, Queues
<1>5. CASE SendSteps
  BY <1>5, BoundsAssumption DEF SendSteps, Send, SendBusy, SendFails, SendStopped, Exit, Cleanup,
                                ResultsTyped, Ranges, QueuesTyped, DiscsTyped, CommandKept, Queues
<1>6. CASE PollSteps
  BY <1>6, BoundsAssumption DEF PollSteps, EjectEnds, SeeEject, SeeError, SeeInsert,
                                SeeInsertFails, ResultsTyped, Ranges, QueuesTyped, DiscsTyped,
                                CommandKept, Queues
<1>7. CASE TakeSteps
  BY <1>7, BoundsAssumption DEF TakeSteps, TakeDown, CloseFile, CloseHandle, ForgetQueue,
                                DestroyQueue, WaitRead, NextDisc, ResultsTyped, Ranges,
                                QueuesTyped, DiscsTyped, CommandKept, Queues
<1>8. CASE PutSteps
  BY <1>8, BoundsAssumption DEF PutSteps, LoadTracks, CreateQueue, CreateFails, Revive, Remount,
                                RemountFails, ResultsTyped, Ranges, QueuesTyped, DiscsTyped,
                                CommandKept, Queues
<1>9. CASE StopSteps
  BY <1>9, BoundsAssumption DEF StopSteps, Stop, StopQueue, JoinMain, JoinEject, ResultsTyped,
                                Ranges, QueuesTyped, DiscsTyped, CommandKept, Queues
<1> QED
  BY <1>1, <1>2, <1>3, <1>4, <1>5, <1>6, <1>7, <1>8, <1>9, StepCases

\* Each queue but the first is paid for by a move of the tray.
LEMMA QueuesCountedStep ==
    ASSUME QueuesCounted, Ranges, QueuesTyped, Next
    PROVE  QueuesCounted'
<1>1. CASE KernelSteps
  BY <1>1 DEF KernelSteps, Ask, TakeResult, MoveTray, QueuesCounted, Ranges, QueuesTyped
<1>2. CASE StartSteps
  BY <1>2 DEF StartSteps, SetupFails, Setup, Spawn, MountFirst, MountFirstFails, QueuesCounted,
              Ranges, QueuesTyped
<1>3. CASE LoopSteps
  BY <1>3 DEF LoopSteps, Loop, Check, Receive, Received, Cancelled, ReceiveFailed, Got, Flag,
              QueuesCounted, Ranges, QueuesTyped
<1>4. CASE ReadSteps
  BY <1>4 DEF ReadSteps, AlreadyOpen, Reopen, GiveUpReopen, FileRead, RawRetry, RawFails,
              MultiFails, DeviceLost, FileReadFails, ShortRead, QueuesCounted, Ranges, QueuesTyped
<1>5. CASE SendSteps
  BY <1>5 DEF SendSteps, Send, SendBusy, SendFails, SendStopped, Exit, Cleanup, QueuesCounted,
              Ranges, QueuesTyped
<1>6. CASE PollSteps
  BY <1>6 DEF PollSteps, EjectEnds, SeeEject, SeeError, SeeInsert, SeeInsertFails, QueuesCounted,
              Ranges, QueuesTyped
<1>7. CASE TakeSteps
  BY <1>7 DEF TakeSteps, TakeDown, CloseFile, CloseHandle, ForgetQueue, DestroyQueue, WaitRead,
              NextDisc, QueuesCounted, Ranges, QueuesTyped
<1>8. CASE PutSteps
  BY <1>8 DEF PutSteps, LoadTracks, CreateQueue, CreateFails, Revive, Remount, RemountFails,
              QueuesCounted, Ranges, QueuesTyped
<1>9. CASE StopSteps
  BY <1>9 DEF StopSteps, Stop, StopQueue, JoinMain, JoinEject, QueuesCounted, Ranges, QueuesTyped
<1> QED
  BY <1>1, <1>2, <1>3, <1>4, <1>5, <1>6, <1>7, <1>8, <1>9, StepCases

\* What is true before the first mount, and which threads there are.
LEMMA StartedStep ==
    ASSUME Started, QueuesTyped, Next
    PROVE  Started'
<1>0. ASSUME UNCHANGED <<mode, main, ejt, stp, ntfs_running, eject_running, command_queue, alive,
                          created, cmd, discfd, psx_indx, tracks, mounted, ejected, slips>>
      PROVE  Started'
  BY <1>0 DEF Started, NONE
<1>1. CASE KernelSteps
  BY <1>1, <1>0 DEF KernelSteps, Ask, TakeResult, MoveTray
<1>2. CASE StartSteps
  BY <1>2 DEF StartSteps, SetupFails, Setup, Spawn, MountFirst, MountFirstFails, Started,
              QueuesTyped
<1>3. CASE LoopSteps
  BY <1>3 DEF LoopSteps, Loop, Check, Receive, Received, Cancelled, ReceiveFailed, Got, Flag,
              Started, QueuesTyped
<1>4. CASE ReadSteps
  BY <1>4 DEF ReadSteps, AlreadyOpen, Reopen, GiveUpReopen, FileRead, RawRetry, RawFails,
              MultiFails, DeviceLost, FileReadFails, ShortRead, Started, QueuesTyped
<1>5. CASE SendSteps
  BY <1>5 DEF SendSteps, Send, SendBusy, SendFails, SendStopped, Exit, Cleanup, Started,
              QueuesTyped
<1>6. CASE PollSteps
  BY <1>6 DEF PollSteps, EjectEnds, SeeEject, SeeError, SeeInsert, SeeInsertFails, Started,
              QueuesTyped
<1>7. CASE TakeSteps
  BY <1>7 DEF TakeSteps, TakeDown, CloseFile, CloseHandle, ForgetQueue, DestroyQueue, WaitRead,
              NextDisc, Started, QueuesTyped
<1>8. CASE PutSteps
  BY <1>8 DEF PutSteps, LoadTracks, CreateQueue, CreateFails, Revive, Remount, RemountFails,
              Started, QueuesTyped
<1>9. CASE StopSteps
  <2>1. CASE Stop
    BY <2>1 DEF Stop, Started, QueuesTyped
  <2>2. CASE StopQueue
    BY <2>2 DEF StopQueue, Started, QueuesTyped
  <2>3. CASE JoinMain
    BY <2>3 DEF JoinMain, Started, QueuesTyped
  <2>4. CASE JoinEject
    BY <2>4 DEF JoinEject, Started, QueuesTyped
  <2> QED
    BY <1>9, <2>1, <2>2, <2>3, <2>4 DEF StopSteps
<1> QED
  BY <1>1, <1>2, <1>3, <1>4, <1>5, <1>6, <1>7, <1>8, <1>9, StepCases

\* The queue that command_queue names lives until the eject thread has forgotten it.
LEMMA QueueNamedStep ==
    ASSUME QueueNamed, QueuesTyped, Started, Next
    PROVE  QueueNamed'
<1>0. ASSUME UNCHANGED <<ejt, stp, command_queue, alive, inbox>>
      PROVE  QueueNamed'
  BY <1>0 DEF QueueNamed
<1>1. CASE KernelSteps
  <2>1. CASE Ask
    BY <2>1 DEF Ask, QueueNamed, QueuesTyped, Started
  <2>2. CASE TakeResult \/ MoveTray
    BY <2>2, <1>0 DEF TakeResult, MoveTray
  <2> QED
    BY <1>1, <2>1, <2>2 DEF KernelSteps
<1>2. CASE StartSteps
  <2>1. CASE SetupFails \/ MountFirst \/ MountFirstFails
    BY <2>1, <1>0 DEF SetupFails, MountFirst, MountFirstFails
  <2>2. CASE Setup
    BY <2>2 DEF Setup, QueueNamed, QueuesTyped, Started
  <2>3. CASE Spawn
    BY <2>3 DEF Spawn, QueueNamed, QueuesTyped, Started
  <2> QED
    BY <1>2, <2>1, <2>2, <2>3 DEF StartSteps
<1>3. CASE LoopSteps
  <2>1. CASE Loop \/ Check \/ Receive \/ Cancelled \/ ReceiveFailed \/ Got \/ Flag
    BY <2>1, <1>0 DEF Loop, Check, Receive, Cancelled, ReceiveFailed, Got, Flag
  <2>2. CASE Received
    BY <2>2 DEF Received, QueueNamed, QueuesTyped, Started
  <2> QED
    BY <1>3, <2>1, <2>2 DEF LoopSteps
<1>4. CASE ReadSteps
  BY <1>4, <1>0 DEF ReadSteps, AlreadyOpen, Reopen, GiveUpReopen, FileRead, RawRetry, RawFails,
                    MultiFails, DeviceLost, FileReadFails, ShortRead
<1>5. CASE SendSteps
  BY <1>5, <1>0 DEF SendSteps, Send, SendBusy, SendFails, SendStopped, Exit, Cleanup
<1>6. CASE PollSteps
  <2>1. CASE EjectEnds
    BY <2>1 DEF EjectEnds, QueueNamed, QueuesTyped, Started
  <2>2. CASE SeeEject
    BY <2>2 DEF SeeEject, QueueNamed, QueuesTyped, Started
  <2>3. CASE SeeError \/ SeeInsertFails
    BY <2>3, <1>0 DEF SeeError, SeeInsertFails
  <2>4. CASE SeeInsert
    BY <2>4 DEF SeeInsert, QueueNamed, QueuesTyped, Started
  <2> QED
    BY <1>6, <2>1, <2>2, <2>3, <2>4 DEF PollSteps
<1>7. CASE TakeSteps
  <2>1. CASE TakeDown
    BY <2>1 DEF TakeDown, QueueNamed, QueuesTyped, Started
  <2>2. CASE CloseFile
    BY <2>2 DEF CloseFile, QueueNamed, QueuesTyped, Started
  <2>3. CASE CloseHandle
    BY <2>3 DEF CloseHandle, QueueNamed, QueuesTyped, Started
  <2>4. CASE ForgetQueue
    BY <2>4 DEF ForgetQueue, QueueNamed, QueuesTyped, Started
  <2>5. CASE DestroyQueue
    BY <2>5 DEF DestroyQueue, QueueNamed, QueuesTyped, Started
  <2>6. CASE WaitRead
    BY <2>6 DEF WaitRead, QueueNamed, QueuesTyped, Started
  <2>7. CASE NextDisc
    BY <2>7 DEF NextDisc, QueueNamed, QueuesTyped, Started
  <2> QED
    BY <1>7, <2>1, <2>2, <2>3, <2>4, <2>5, <2>6, <2>7 DEF TakeSteps
<1>8. CASE PutSteps
  <2>1. CASE LoadTracks
    BY <2>1 DEF LoadTracks, QueueNamed, QueuesTyped, Started
  <2>2. CASE CreateQueue
    BY <2>2 DEF CreateQueue, QueueNamed, QueuesTyped, Started
  <2>3. CASE CreateFails
    BY <2>3 DEF CreateFails, QueueNamed, QueuesTyped, Started
  <2>4. CASE Revive
    BY <2>4 DEF Revive, QueueNamed, QueuesTyped, Started
  <2>5. CASE Remount
    BY <2>5 DEF Remount, QueueNamed, QueuesTyped, Started
  <2>6. CASE RemountFails
    BY <2>6 DEF RemountFails, QueueNamed, QueuesTyped, Started
  <2> QED
    BY <1>8, <2>1, <2>2, <2>3, <2>4, <2>5, <2>6 DEF PutSteps
<1>9. CASE StopSteps
  <2>1. CASE Stop
    BY <2>1 DEF Stop, QueueNamed, QueuesTyped, Started
  <2>2. CASE StopQueue
    BY <2>2 DEF StopQueue, QueueNamed, QueuesTyped, Started
  <2>3. CASE JoinMain
    BY <2>3 DEF JoinMain, QueueNamed, QueuesTyped, Started
  <2>4. CASE JoinEject
    BY <2>4 DEF JoinEject, QueueNamed, QueuesTyped, Started
  <2> QED
    BY <1>9, <2>1, <2>2, <2>3, <2>4 DEF StopSteps
<1> QED
  BY <1>1, <1>2, <1>3, <1>4, <1>5, <1>6, <1>7, <1>8, <1>9, StepCases

\* Main meets a missing queue only while the eject thread is between two of them.
LEMMA QueueMissedStep ==
    ASSUME QueueMissed, QueuesTyped, Started, QueueNamed, Next
    PROVE  QueueMissed'
<1>1. CASE KernelSteps
  BY <1>1 DEF KernelSteps, Ask, TakeResult, MoveTray, QueueMissed, QueuesTyped, Started,
              QueueNamed
<1>2. CASE StartSteps
  BY <1>2 DEF StartSteps, SetupFails, Setup, Spawn, MountFirst, MountFirstFails, QueueMissed,
              QueuesTyped, Started, QueueNamed
<1>3. CASE LoopSteps
  BY <1>3 DEF LoopSteps, Loop, Check, Receive, Received, Cancelled, ReceiveFailed, Got, Flag,
              QueueMissed, QueuesTyped, Started, QueueNamed
<1>4. CASE ReadSteps
  BY <1>4 DEF ReadSteps, AlreadyOpen, Reopen, GiveUpReopen, FileRead, RawRetry, RawFails,
              MultiFails, DeviceLost, FileReadFails, ShortRead, QueueMissed, QueuesTyped, Started,
              QueueNamed
<1>5. CASE SendSteps
  BY <1>5 DEF SendSteps, Send, SendBusy, SendFails, SendStopped, Exit, Cleanup, QueueMissed,
              QueuesTyped, Started, QueueNamed
<1>6. CASE PollSteps
  BY <1>6 DEF PollSteps, EjectEnds, SeeEject, SeeError, SeeInsert, SeeInsertFails, QueueMissed,
              QueuesTyped, Started, QueueNamed
<1>7. CASE TakeSteps
  BY <1>7 DEF TakeSteps, TakeDown, CloseFile, CloseHandle, ForgetQueue, DestroyQueue, WaitRead,
              NextDisc, QueueMissed, QueuesTyped, Started, QueueNamed
<1>8. CASE PutSteps
  BY <1>8 DEF PutSteps, LoadTracks, CreateQueue, CreateFails, Revive, Remount, RemountFails,
              QueueMissed, QueuesTyped, Started, QueueNamed
<1>9. CASE StopSteps
  BY <1>9 DEF StopSteps, Stop, StopQueue, JoinMain, JoinEject, QueueMissed, QueuesTyped, Started,
              QueueNamed
<1> QED
  BY <1>1, <1>2, <1>3, <1>4, <1>5, <1>6, <1>7, <1>8, <1>9, StepCases

\* Main serves a command from its receipt to its answer, and only then.
LEMMA CommandKeptStep ==
    ASSUME CommandKept, QueuesTyped, Started, Next
    PROVE  CommandKept'
<1>1. CASE KernelSteps
  BY <1>1 DEF KernelSteps, Ask, TakeResult, MoveTray, CommandKept, QueuesTyped, Started
<1>2. CASE StartSteps
  BY <1>2 DEF StartSteps, SetupFails, Setup, Spawn, MountFirst, MountFirstFails, CommandKept,
              QueuesTyped, Started
<1>3. CASE LoopSteps
  BY <1>3 DEF LoopSteps, Loop, Check, Receive, Received, Cancelled, ReceiveFailed, Got, Flag,
              CommandKept, QueuesTyped, Started
<1>4. CASE ReadSteps
  BY <1>4 DEF ReadSteps, AlreadyOpen, Reopen, GiveUpReopen, FileRead, RawRetry, RawFails,
              MultiFails, DeviceLost, FileReadFails, ShortRead, CommandKept, QueuesTyped, Started
<1>5. CASE SendSteps
  BY <1>5 DEF SendSteps, Send, SendBusy, SendFails, SendStopped, Exit, Cleanup, CommandKept,
              QueuesTyped, Started
<1>6. CASE PollSteps
  BY <1>6 DEF PollSteps, EjectEnds, SeeEject, SeeError, SeeInsert, SeeInsertFails, CommandKept,
              QueuesTyped, Started
<1>7. CASE TakeSteps
  BY <1>7 DEF TakeSteps, TakeDown, CloseFile, CloseHandle, ForgetQueue, DestroyQueue, WaitRead,
              NextDisc, CommandKept, QueuesTyped, Started
<1>8. CASE PutSteps
  BY <1>8 DEF PutSteps, LoadTracks, CreateQueue, CreateFails, Revive, Remount, RemountFails,
              CommandKept, QueuesTyped, Started
<1>9. CASE StopSteps
  BY <1>9 DEF StopSteps, Stop, StopQueue, JoinMain, JoinEject, CommandKept, QueuesTyped, Started
<1> QED
  BY <1>1, <1>2, <1>3, <1>4, <1>5, <1>6, <1>7, <1>8, <1>9, StepCases

\* A swap goes through its stages and leaves one queue at most.
LEMMA SwapInOrderStep ==
    ASSUME SwapInOrder, QueuesTyped, Started, Next
    PROVE  SwapInOrder'
<1>0. ASSUME UNCHANGED <<ejt, stp, command_queue, alive, created, ejected, slips>>
      PROVE  SwapInOrder'
  BY <1>0 DEF SwapInOrder
<1>1. CASE KernelSteps
  BY <1>1, <1>0 DEF KernelSteps, Ask, TakeResult, MoveTray
<1>2. CASE StartSteps
  <2>1. CASE SetupFails \/ MountFirst \/ MountFirstFails
    BY <2>1, <1>0 DEF SetupFails, MountFirst, MountFirstFails
  <2>2. CASE Setup
    BY <2>2 DEF Setup, SwapInOrder, QueuesTyped, Started
  <2>3. CASE Spawn
    BY <2>3 DEF Spawn, SwapInOrder, QueuesTyped, Started
  <2> QED
    BY <1>2, <2>1, <2>2, <2>3 DEF StartSteps
<1>3. CASE LoopSteps
  BY <1>3, <1>0 DEF LoopSteps, Loop, Check, Receive, Received, Cancelled, ReceiveFailed, Got, Flag
<1>4. CASE ReadSteps
  <2>1. CASE AlreadyOpen \/ GiveUpReopen \/ FileRead \/ RawRetry \/ RawFails \/ MultiFails
             \/ ShortRead
    BY <2>1, <1>0 DEF AlreadyOpen, GiveUpReopen, FileRead, RawRetry, RawFails, MultiFails,
                      ShortRead
  <2>2. CASE Reopen
    BY <2>2 DEF Reopen, SwapInOrder, QueuesTyped, Started
  <2>3. CASE DeviceLost
    BY <2>3 DEF DeviceLost, SwapInOrder, QueuesTyped, Started
  <2>4. CASE FileReadFails
    BY <2>4 DEF FileReadFails, SwapInOrder, QueuesTyped, Started
  <2> QED
    BY <1>4, <2>1, <2>2, <2>3, <2>4 DEF ReadSteps
<1>5. CASE SendSteps
  BY <1>5, <1>0 DEF SendSteps, Send, SendBusy, SendFails, SendStopped, Exit, Cleanup
<1>6. CASE PollSteps
  <2>1. CASE EjectEnds
    BY <2>1 DEF EjectEnds, SwapInOrder, QueuesTyped, Started
  <2>2. CASE SeeEject
    BY <2>2 DEF SeeEject, SwapInOrder, QueuesTyped, Started
  <2>3. CASE SeeError
    BY <2>3 DEF SeeError, SwapInOrder, QueuesTyped, Started
  <2>4. CASE SeeInsert
    BY <2>4 DEF SeeInsert, SwapInOrder, QueuesTyped, Started
  <2>5. CASE SeeInsertFails
    BY <2>5, <1>0 DEF SeeInsertFails
  <2> QED
    BY <1>6, <2>1, <2>2, <2>3, <2>4, <2>5 DEF PollSteps
<1>7. CASE TakeSteps
  <2>1. CASE TakeDown
    BY <2>1 DEF TakeDown, SwapInOrder, QueuesTyped, Started
  <2>2. CASE CloseFile
    BY <2>2 DEF CloseFile, SwapInOrder, QueuesTyped, Started
  <2>3. CASE CloseHandle
    BY <2>3 DEF CloseHandle, SwapInOrder, QueuesTyped, Started
  <2>4. CASE ForgetQueue
    BY <2>4 DEF ForgetQueue, SwapInOrder, QueuesTyped, Started
  <2>5. CASE DestroyQueue
    BY <2>5 DEF DestroyQueue, SwapInOrder, QueuesTyped, Started
  <2>6. CASE WaitRead
    BY <2>6 DEF WaitRead, SwapInOrder, QueuesTyped, Started
  <2>7. CASE NextDisc
    BY <2>7 DEF NextDisc, SwapInOrder, QueuesTyped, Started
  <2> QED
    BY <1>7, <2>1, <2>2, <2>3, <2>4, <2>5, <2>6, <2>7 DEF TakeSteps
<1>8. CASE PutSteps
  <2>1. CASE LoadTracks
    BY <2>1 DEF LoadTracks, SwapInOrder, QueuesTyped, Started
  <2>2. CASE CreateQueue
    BY <2>2 DEF CreateQueue, SwapInOrder, QueuesTyped, Started
  <2>3. CASE CreateFails
    BY <2>3 DEF CreateFails, SwapInOrder, QueuesTyped, Started
  <2>4. CASE Revive
    BY <2>4 DEF Revive, SwapInOrder, QueuesTyped, Started
  <2>5. CASE Remount
    BY <2>5 DEF Remount, SwapInOrder, QueuesTyped, Started
  <2>6. CASE RemountFails
    BY <2>6 DEF RemountFails, SwapInOrder, QueuesTyped, Started
  <2> QED
    BY <1>8, <2>1, <2>2, <2>3, <2>4, <2>5, <2>6 DEF PutSteps
<1>9. CASE StopSteps
  BY <1>9 DEF StopSteps, Stop, StopQueue, JoinMain, JoinEject, SwapInOrder, QueuesTyped, Started
<1> QED
  BY <1>1, <1>2, <1>3, <1>4, <1>5, <1>6, <1>7, <1>8, <1>9, StepCases

\* From TakeDown to Remount no image is mounted.
LEMMA ImageDownStep ==
    ASSUME ImageDown, QueuesTyped, Started, SwapInOrder, Next
    PROVE  ImageDown'
<1>0. ASSUME UNCHANGED <<main, ejt, inbox, psx_indx, tracks, mounted, ejected, slips>>
      PROVE  ImageDown'
  BY <1>0 DEF ImageDown
<1>1. CASE KernelSteps
  <2>1. CASE Ask
    BY <2>1 DEF Ask, ImageDown, QueuesTyped, Started, SwapInOrder
  <2>2. CASE TakeResult \/ MoveTray
    BY <2>2, <1>0 DEF TakeResult, MoveTray
  <2> QED
    BY <1>1, <2>1, <2>2 DEF KernelSteps
<1>2. CASE StartSteps
  <2>1. CASE SetupFails
    BY <2>1 DEF SetupFails, ImageDown, QueuesTyped, Started, SwapInOrder
  <2>2. CASE Setup
    BY <2>2 DEF Setup, ImageDown, QueuesTyped, Started, SwapInOrder
  <2>3. CASE Spawn
    BY <2>3 DEF Spawn, ImageDown, QueuesTyped, Started, SwapInOrder
  <2>4. CASE MountFirst \/ MountFirstFails
    BY <2>4 DEF MountFirst, MountFirstFails, ImageDown, QueuesTyped, Started, SwapInOrder
  <2> QED
    BY <1>2, <2>1, <2>2, <2>3, <2>4 DEF StartSteps
<1>3. CASE LoopSteps
  BY <1>3 DEF LoopSteps, Loop, Check, Receive, Received, Cancelled, ReceiveFailed, Got, Flag,
              ImageDown, QueuesTyped, Started, SwapInOrder
<1>4. CASE ReadSteps
  BY <1>4 DEF ReadSteps, AlreadyOpen, Reopen, GiveUpReopen, FileRead, RawRetry, RawFails,
              MultiFails, DeviceLost, FileReadFails, ShortRead, ImageDown, QueuesTyped, Started,
              SwapInOrder
<1>5. CASE SendSteps
  BY <1>5 DEF SendSteps, Send, SendBusy, SendFails, SendStopped, Exit, Cleanup, ImageDown,
              QueuesTyped, Started, SwapInOrder
<1>6. CASE PollSteps
  BY <1>6 DEF PollSteps, EjectEnds, SeeEject, SeeError, SeeInsert, SeeInsertFails, ImageDown,
              QueuesTyped, Started, SwapInOrder
<1>7. CASE TakeSteps
  BY <1>7 DEF TakeSteps, TakeDown, CloseFile, CloseHandle, ForgetQueue, DestroyQueue, WaitRead,
              NextDisc, ImageDown, QueuesTyped, Started, SwapInOrder
<1>8. CASE PutSteps
  BY <1>8 DEF PutSteps, LoadTracks, CreateQueue, CreateFails, Revive, Remount, RemountFails,
              ImageDown, QueuesTyped, Started, SwapInOrder
<1>9. CASE StopSteps
  <2>1. CASE Stop \/ JoinMain \/ JoinEject
    BY <2>1, <1>0 DEF Stop, JoinMain, JoinEject
  <2>2. CASE StopQueue
    BY <2>2 DEF StopQueue, ImageDown, QueuesTyped, Started, SwapInOrder
  <2> QED
    BY <1>9, <2>1, <2>2 DEF StopSteps
<1> QED
  BY <1>1, <1>2, <1>3, <1>4, <1>5, <1>6, <1>7, <1>8, <1>9, StepCases

\* After the wait for do_run no command is served and none is waiting.
LEMMA ReadAloneStep ==
    ASSUME ReadAlone, Started, QueueNamed, SwapInOrder, ImageDown, Next
    PROVE  ReadAlone'
<1>1. CASE KernelSteps
  BY <1>1 DEF KernelSteps, Ask, TakeResult, MoveTray, ReadAlone, Started, QueueNamed, SwapInOrder,
              ImageDown
<1>2. CASE StartSteps
  BY <1>2 DEF StartSteps, SetupFails, Setup, Spawn, MountFirst, MountFirstFails, ReadAlone,
              Started, QueueNamed, SwapInOrder, ImageDown
<1>3. CASE LoopSteps
  BY <1>3 DEF LoopSteps, Loop, Check, Receive, Received, Cancelled, ReceiveFailed, Got, Flag,
              ReadAlone, Started, QueueNamed, SwapInOrder, ImageDown
<1>4. CASE ReadSteps
  BY <1>4 DEF ReadSteps, AlreadyOpen, Reopen, GiveUpReopen, FileRead, RawRetry, RawFails,
              MultiFails, DeviceLost, FileReadFails, ShortRead, ReadAlone, Started, QueueNamed,
              SwapInOrder, ImageDown
<1>5. CASE SendSteps
  BY <1>5 DEF SendSteps, Send, SendBusy, SendFails, SendStopped, Exit, Cleanup, ReadAlone,
              Started, QueueNamed, SwapInOrder, ImageDown
<1>6. CASE PollSteps
  BY <1>6 DEF PollSteps, EjectEnds, SeeEject, SeeError, SeeInsert, SeeInsertFails, ReadAlone,
              Started, QueueNamed, SwapInOrder, ImageDown
<1>7. CASE TakeSteps
  BY <1>7 DEF TakeSteps, TakeDown, CloseFile, CloseHandle, ForgetQueue, DestroyQueue, WaitRead,
              NextDisc, ReadAlone, Started, QueueNamed, SwapInOrder, ImageDown
<1>8. CASE PutSteps
  BY <1>8 DEF PutSteps, LoadTracks, CreateQueue, CreateFails, Revive, Remount, RemountFails,
              ReadAlone, Started, QueueNamed, SwapInOrder, ImageDown
<1>9. CASE StopSteps
  BY <1>9 DEF StopSteps, Stop, StopQueue, JoinMain, JoinEject, ReadAlone, Started, QueueNamed,
              SwapInOrder, ImageDown
<1> QED
  BY <1>1, <1>2, <1>3, <1>4, <1>5, <1>6, <1>7, <1>8, <1>9, StepCases

\* One command or result at a time, and it is of the image that is mounted.
LEMMA OneCommandStep ==
    ASSUME OneCommand, Started, QueueNamed, CommandKept, SwapInOrder, ReadAlone, ImageDown, Next
    PROVE  OneCommand'
<1>1. CASE KernelSteps
  BY <1>1 DEF KernelSteps, Ask, TakeResult, MoveTray, OneCommand, Started, QueueNamed,
              CommandKept, SwapInOrder, ReadAlone, ImageDown
<1>2. CASE StartSteps
  BY <1>2 DEF StartSteps, SetupFails, Setup, Spawn, MountFirst, MountFirstFails, OneCommand,
              Started, QueueNamed, CommandKept, SwapInOrder, ReadAlone, ImageDown
<1>3. CASE LoopSteps
  BY <1>3 DEF LoopSteps, Loop, Check, Receive, Received, Cancelled, ReceiveFailed, Got, Flag,
              OneCommand, Started, QueueNamed, CommandKept, SwapInOrder, ReadAlone, ImageDown
<1>4. CASE ReadSteps
  BY <1>4 DEF ReadSteps, AlreadyOpen, Reopen, GiveUpReopen, FileRead, RawRetry, RawFails,
              MultiFails, DeviceLost, FileReadFails, ShortRead, OneCommand, Started, QueueNamed,
              CommandKept, SwapInOrder, ReadAlone, ImageDown
<1>5. CASE SendSteps
  BY <1>5 DEF SendSteps, Send, SendBusy, SendFails, SendStopped, Exit, Cleanup, OneCommand,
              Started, QueueNamed, CommandKept, SwapInOrder, ReadAlone, ImageDown
<1>6. CASE PollSteps
  BY <1>6 DEF PollSteps, EjectEnds, SeeEject, SeeError, SeeInsert, SeeInsertFails, OneCommand,
              Started, QueueNamed, CommandKept, SwapInOrder, ReadAlone, ImageDown
<1>7. CASE TakeSteps
  BY <1>7 DEF TakeSteps, TakeDown, CloseFile, CloseHandle, ForgetQueue, DestroyQueue, WaitRead,
              NextDisc, OneCommand, Started, QueueNamed, CommandKept, SwapInOrder, ReadAlone,
              ImageDown
<1>8. CASE PutSteps
  BY <1>8 DEF PutSteps, LoadTracks, CreateQueue, CreateFails, Revive, Remount, RemountFails,
              OneCommand, Started, QueueNamed, CommandKept, SwapInOrder, ReadAlone, ImageDown
<1>9. CASE StopSteps
  BY <1>9 DEF StopSteps, Stop, StopQueue, JoinMain, JoinEject, OneCommand, Started, QueueNamed,
              CommandKept, SwapInOrder, ReadAlone, ImageDown
<1> QED
  BY <1>1, <1>2, <1>3, <1>4, <1>5, <1>6, <1>7, <1>8, <1>9, StepCases

\* Data comes from the disc in turn, which is the one that is mounted.
LEMMA RightDiscStep ==
    ASSUME RightDisc, Started, ReadAlone, ImageDown, Next
    PROVE  RightDisc'
<1>1. CASE KernelSteps
  BY <1>1 DEF KernelSteps, Ask, TakeResult, MoveTray, RightDisc, Started, ReadAlone, ImageDown,
              NONE, Dangling
<1>2. CASE StartSteps
  BY <1>2 DEF StartSteps, SetupFails, Setup, Spawn, MountFirst, MountFirstFails, RightDisc,
              Started, ReadAlone, ImageDown, NONE, Dangling
<1>3. CASE LoopSteps
  BY <1>3 DEF LoopSteps, Loop, Check, Receive, Received, Cancelled, ReceiveFailed, Got, Flag,
              RightDisc, Started, ReadAlone, ImageDown, NONE, Dangling
<1>4. CASE ReadSteps
  BY <1>4 DEF ReadSteps, AlreadyOpen, Reopen, GiveUpReopen, FileRead, RawRetry, RawFails,
              MultiFails, DeviceLost, FileReadFails, ShortRead, RightDisc, Started, ReadAlone,
              ImageDown, NONE, Dangling, Discs
<1>5. CASE SendSteps
  BY <1>5 DEF SendSteps, Send, SendBusy, SendFails, SendStopped, Exit, Cleanup, RightDisc,
              Started, ReadAlone, ImageDown, NONE, Dangling
<1>6. CASE PollSteps
  BY <1>6 DEF PollSteps, EjectEnds, SeeEject, SeeError, SeeInsert, SeeInsertFails, RightDisc,
              Started, ReadAlone, ImageDown, NONE, Dangling
<1>7. CASE TakeSteps
  BY <1>7 DEF TakeSteps, TakeDown, CloseFile, CloseHandle, ForgetQueue, DestroyQueue, WaitRead,
              NextDisc, RightDisc, Started, ReadAlone, ImageDown, NONE, Dangling
<1>8. CASE PutSteps
  BY <1>8 DEF PutSteps, LoadTracks, CreateQueue, CreateFails, Revive, Remount, RemountFails,
              RightDisc, Started, ReadAlone, ImageDown, NONE, Dangling
<1>9. CASE StopSteps
  BY <1>9 DEF StopSteps, Stop, StopQueue, JoinMain, JoinEject, RightDisc, Started, ReadAlone,
              ImageDown, NONE, Dangling
<1> QED
  BY <1>1, <1>2, <1>3, <1>4, <1>5, <1>6, <1>7, <1>8, <1>9, StepCases

\* The stop thread goes on when main, then the eject thread, has ended.
LEMMA StopJoinsStep ==
    ASSUME StopJoins, Next
    PROVE  StopJoins'
<1>1. CASE KernelSteps
  BY <1>1 DEF KernelSteps, Ask, TakeResult, MoveTray, StopJoins
<1>2. CASE StartSteps
  BY <1>2 DEF StartSteps, SetupFails, Setup, Spawn, MountFirst, MountFirstFails, StopJoins
<1>3. CASE LoopSteps
  BY <1>3 DEF LoopSteps, Loop, Check, Receive, Received, Cancelled, ReceiveFailed, Got, Flag,
              StopJoins
<1>4. CASE ReadSteps
  BY <1>4 DEF ReadSteps, AlreadyOpen, Reopen, GiveUpReopen, FileRead, RawRetry, RawFails,
              MultiFails, DeviceLost, FileReadFails, ShortRead, StopJoins
<1>5. CASE SendSteps
  BY <1>5 DEF SendSteps, Send, SendBusy, SendFails, SendStopped, Exit, Cleanup, StopJoins
<1>6. CASE PollSteps
  BY <1>6 DEF PollSteps, EjectEnds, SeeEject, SeeError, SeeInsert, SeeInsertFails, StopJoins
<1>7. CASE TakeSteps
  BY <1>7 DEF TakeSteps, TakeDown, CloseFile, CloseHandle, ForgetQueue, DestroyQueue, WaitRead,
              NextDisc, StopJoins
<1>8. CASE PutSteps
  BY <1>8 DEF PutSteps, LoadTracks, CreateQueue, CreateFails, Revive, Remount, RemountFails,
              StopJoins
<1>9. CASE StopSteps
  BY <1>9 DEF StopSteps, Stop, StopQueue, JoinMain, JoinEject, StopJoins
<1> QED
  BY <1>1, <1>2, <1>3, <1>4, <1>5, <1>6, <1>7, <1>8, <1>9, StepCases

\* No queue outlives the stop, but one that is about to be destroyed.
LEMMA QueuesGoneStep ==
    ASSUME QueuesGone, QueuesTyped, Started, SwapInOrder, Next
    PROVE  QueuesGone'
<1>0. ASSUME UNCHANGED <<ejt, stp, command_queue, alive, created, slips>>
      PROVE  QueuesGone'
  BY <1>0 DEF QueuesGone
<1>1. CASE KernelSteps
  BY <1>1, <1>0 DEF KernelSteps, Ask, TakeResult, MoveTray
<1>2. CASE StartSteps
  <2>1. CASE SetupFails \/ MountFirst \/ MountFirstFails
    BY <2>1, <1>0 DEF SetupFails, MountFirst, MountFirstFails
  <2>2. CASE Setup
    BY <2>2 DEF Setup, QueuesGone, QueuesTyped, Started, SwapInOrder
  <2>3. CASE Spawn
    BY <2>3 DEF Spawn, QueuesGone, QueuesTyped, Started, SwapInOrder
  <2> QED
    BY <1>2, <2>1, <2>2, <2>3 DEF StartSteps
<1>3. CASE LoopSteps
  BY <1>3, <1>0 DEF LoopSteps, Loop, Check, Receive, Received, Cancelled, ReceiveFailed, Got, Flag
<1>4. CASE ReadSteps
  <2>1. CASE AlreadyOpen \/ GiveUpReopen \/ FileRead \/ RawRetry \/ RawFails \/ MultiFails
             \/ ShortRead
    BY <2>1, <1>0 DEF AlreadyOpen, GiveUpReopen, FileRead, RawRetry, RawFails, MultiFails,
                      ShortRead
  <2>2. CASE Reopen
    BY <2>2 DEF Reopen, QueuesGone, QueuesTyped, Started, SwapInOrder
  <2>3. CASE DeviceLost
    BY <2>3 DEF DeviceLost, QueuesGone, QueuesTyped, Started, SwapInOrder
  <2>4. CASE FileReadFails
    BY <2>4 DEF FileReadFails, QueuesGone, QueuesTyped, Started, SwapInOrder
  <2> QED
    BY <1>4, <2>1, <2>2, <2>3, <2>4 DEF ReadSteps
<1>5. CASE SendSteps
  BY <1>5, <1>0 DEF SendSteps, Send, SendBusy, SendFails, SendStopped, Exit, Cleanup
<1>6. CASE PollSteps
  <2>1. CASE EjectEnds
    BY <2>1 DEF EjectEnds, QueuesGone, QueuesTyped, Started, SwapInOrder
  <2>2. CASE SeeEject
    BY <2>2 DEF SeeEject, QueuesGone, QueuesTyped, Started, SwapInOrder
  <2>3. CASE SeeError
    BY <2>3 DEF SeeError, QueuesGone, QueuesTyped, Started, SwapInOrder
  <2>4. CASE SeeInsert
    BY <2>4 DEF SeeInsert, QueuesGone, QueuesTyped, Started, SwapInOrder
  <2>5. CASE SeeInsertFails
    BY <2>5, <1>0 DEF SeeInsertFails
  <2> QED
    BY <1>6, <2>1, <2>2, <2>3, <2>4, <2>5 DEF PollSteps
<1>7. CASE TakeSteps
  <2>1. CASE TakeDown
    BY <2>1 DEF TakeDown, QueuesGone, QueuesTyped, Started, SwapInOrder
  <2>2. CASE CloseFile
    BY <2>2 DEF CloseFile, QueuesGone, QueuesTyped, Started, SwapInOrder
  <2>3. CASE CloseHandle
    BY <2>3 DEF CloseHandle, QueuesGone, QueuesTyped, Started, SwapInOrder
  <2>4. CASE ForgetQueue
    BY <2>4 DEF ForgetQueue, QueuesGone, QueuesTyped, Started, SwapInOrder
  <2>5. CASE DestroyQueue
    BY <2>5 DEF DestroyQueue, QueuesGone, QueuesTyped, Started, SwapInOrder
  <2>6. CASE WaitRead
    BY <2>6 DEF WaitRead, QueuesGone, QueuesTyped, Started, SwapInOrder
  <2>7. CASE NextDisc
    BY <2>7 DEF NextDisc, QueuesGone, QueuesTyped, Started, SwapInOrder
  <2> QED
    BY <1>7, <2>1, <2>2, <2>3, <2>4, <2>5, <2>6, <2>7 DEF TakeSteps
<1>8. CASE PutSteps
  <2>1. CASE LoadTracks
    BY <2>1 DEF LoadTracks, QueuesGone, QueuesTyped, Started, SwapInOrder
  <2>2. CASE CreateQueue
    BY <2>2 DEF CreateQueue, QueuesGone, QueuesTyped, Started, SwapInOrder
  <2>3. CASE CreateFails
    BY <2>3 DEF CreateFails, QueuesGone, QueuesTyped, Started, SwapInOrder
  <2>4. CASE Revive
    BY <2>4 DEF Revive, QueuesGone, QueuesTyped, Started, SwapInOrder
  <2>5. CASE Remount
    BY <2>5 DEF Remount, QueuesGone, QueuesTyped, Started, SwapInOrder
  <2>6. CASE RemountFails
    BY <2>6 DEF RemountFails, QueuesGone, QueuesTyped, Started, SwapInOrder
  <2> QED
    BY <1>8, <2>1, <2>2, <2>3, <2>4, <2>5, <2>6 DEF PutSteps
<1>9. CASE StopSteps
  <2>1. CASE Stop
    BY <2>1 DEF Stop, QueuesGone, QueuesTyped, Started, SwapInOrder
  <2>2. CASE StopQueue
    BY <2>2 DEF StopQueue, QueuesGone, QueuesTyped, Started, SwapInOrder
  <2>3. CASE JoinMain
    BY <2>3 DEF JoinMain, QueuesGone, QueuesTyped, Started, SwapInOrder
  <2>4. CASE JoinEject
    BY <2>4 DEF JoinEject, QueuesGone, QueuesTyped, Started, SwapInOrder
  <2> QED
    BY <1>9, <2>1, <2>2, <2>3, <2>4 DEF StopSteps
<1> QED
  BY <1>1, <1>2, <1>3, <1>4, <1>5, <1>6, <1>7, <1>8, <1>9, StepCases

\* Nothing that main has closed is opened again.
LEMMA MainClosedStep ==
    ASSUME MainClosed, Started, Next
    PROVE  MainClosed'
<1>1. CASE KernelSteps
  BY <1>1 DEF KernelSteps, Ask, TakeResult, MoveTray, MainClosed, Started, Discs, NONE
<1>2. CASE StartSteps
  BY <1>2 DEF StartSteps, SetupFails, Setup, Spawn, MountFirst, MountFirstFails, MainClosed,
              Started, Discs, NONE
<1>3. CASE LoopSteps
  BY <1>3 DEF LoopSteps, Loop, Check, Receive, Received, Cancelled, ReceiveFailed, Got, Flag,
              MainClosed, Started, Discs, NONE
<1>4. CASE ReadSteps
  BY <1>4 DEF ReadSteps, AlreadyOpen, Reopen, GiveUpReopen, FileRead, RawRetry, RawFails,
              MultiFails, DeviceLost, FileReadFails, ShortRead, MainClosed, Started, NONE,
              Dangling, Discs
<1>5. CASE SendSteps
  BY <1>5 DEF SendSteps, Send, SendBusy, SendFails, SendStopped, Exit, Cleanup, MainClosed,
              Started, NONE, Dangling, Discs
<1>6. CASE PollSteps
  BY <1>6 DEF PollSteps, EjectEnds, SeeEject, SeeError, SeeInsert, SeeInsertFails, MainClosed,
              Started, Discs, NONE
<1>7. CASE TakeSteps
  BY <1>7 DEF TakeSteps, TakeDown, CloseFile, CloseHandle, ForgetQueue, DestroyQueue, WaitRead,
              NextDisc, MainClosed, Started, NONE, Discs
<1>8. CASE PutSteps
  BY <1>8 DEF PutSteps, LoadTracks, CreateQueue, CreateFails, Revive, Remount, RemountFails,
              MainClosed, Started, Discs, NONE
<1>9. CASE StopSteps
  BY <1>9 DEF StopSteps, Stop, StopQueue, JoinMain, JoinEject, MainClosed, Started, Discs, NONE
<1> QED
  BY <1>1, <1>2, <1>3, <1>4, <1>5, <1>6, <1>7, <1>8, <1>9, StepCases

(***************************************************************************)
(* The invariant, and what follows from it.                                *)
(***************************************************************************)

\* The plugin starts within the invariant.
LEMMA InitInv == Init => IInv
<1> SUFFICES ASSUME Init PROVE IInv
  OBVIOUS
<1>1. Flags /\ Threads
  BY DEF Init, Flags, Threads, MainStates, EjectStates
<1>2. Ranges
  BY BoundsAssumption DEF Init, Ranges, Values
<1>3. SlipsTyped
  BY DEF Init, SlipsTyped
<1>4. DiscsTyped
  BY BoundsAssumption DEF Init, DiscsTyped, Discs, NONE
<1>5. QueuesTyped /\ ResultsTyped
  BY BoundsAssumption DEF Init, QueuesTyped, ResultsTyped
<1>6. Swap
  BY DEF Init, Swap, QueuesCounted, Started, QueueNamed, QueueMissed, CommandKept, SwapInOrder,
         ImageDown, ReadAlone, OneCommand, RightDisc
<1>7. End
  BY DEF Init, End, StopJoins, QueuesGone, MainClosed
<1> QED
  BY <1>1, <1>2, <1>3, <1>4, <1>5, <1>6, <1>7 DEF IInv, Types

\* Every action of a thread keeps the invariant.
LEMMA StepInv == IInv /\ Next => IInv'
<1> SUFFICES ASSUME IInv, Next PROVE IInv'
  OBVIOUS
<1>1. Types'
  BY FlagsStep, ThreadsStep, PlacesStep, SlipsTypedStep, QueuesTypedStep, DiscsTypedStep,
     ResultsTypedStep DEF IInv, Types, Swap
<1>2. Swap'
  BY QueuesCountedStep, StartedStep, QueueNamedStep, QueueMissedStep, CommandKeptStep,
     SwapInOrderStep, ImageDownStep, ReadAloneStep, OneCommandStep, RightDiscStep
  DEF IInv, Types, Swap
<1>3. End'
  BY StopJoinsStep, QueuesGoneStep, MainClosedStep DEF IInv, Types, Swap, End
<1> QED
  BY <1>1, <1>2, <1>3 DEF IInv

\* So does a step that changes nothing.
LEMMA StutterInv == IInv /\ UNCHANGED vars => IInv'
<1> SUFFICES ASSUME IInv, UNCHANGED vars PROVE IInv'
  OBVIOUS
<1>1. Types'
  BY DEF IInv, vars, Types, Flags, Threads, Ranges, SlipsTyped, QueuesTyped, DiscsTyped,
         ResultsTyped
<1>2. Swap'
  BY DEF IInv, vars, Swap, QueuesCounted, Started, QueueNamed, QueueMissed, CommandKept,
         SwapInOrder, ImageDown, ReadAlone, OneCommand, RightDisc
<1>3. End'
  BY DEF IInv, vars, End, StopJoins, QueuesGone, MainClosed
<1> QED
  BY <1>1, <1>2, <1>3 DEF IInv

\* Hence the invariant always holds.
LEMMA Inductive == Spec => []IInv
<1>1. IInv /\ [Next]_vars => IInv'
  BY StepInv, StutterInv
<1> QED
  BY InitInv, <1>1, PTL DEF Spec

\* The types, and that command_queue (main.c:1024-1032, 1242) is NONE or the last queue:
\* the queues are as many as the tray has moved, and one, however the threads interleave.
THEOREM TypeCorrect == Spec => []TypeOK
<1>1. IInv => TypeOK
  BY DEF IInv, Types, Flags, Threads, Ranges, SlipsTyped, QueuesTyped, DiscsTyped, ResultsTyped,
         TypeOK
<1> QED
  BY Inductive, <1>1, PTL

\* The emulation is handed the answer to its command, with data of the disc it was mounted
\* for, and never two of them: the swap of main.c:982-1016 lets no read and no result through.
THEOREM AnswersAreRight == Spec => []RightAnswer
<1>1. IInv => RightAnswer
  <2> SUFFICES ASSUME IInv, "early" \notin slips, "late" \notin slips, "reopened" \notin slips,
                      "silent" \notin slips
               PROVE  /\ \A r \in results : r.cmd = asked /\ (r.value = "ok" => r.disc = mdisc)
                      /\ main = "send" /\ mounted # 0 => results = {}
    BY DEF RightAnswer
  <2>1. \A r \in results : r.cmd = asked /\ (r.value = "ok" => r.disc = mdisc)
    BY DEF IInv, Swap, OneCommand, RightDisc
  <2>2. main = "send" => results = {}
    BY DEF IInv, Swap, OneCommand, CommandKept
  <2> QED
    BY <2>1, <2>2
<1> QED
  BY Inductive, <1>1, PTL

\* Whatever happens to the tray, the device and the reads, main takes a queue that was
\* replaced for what it is (main.c:1257-1268) and never powers the console off for it.
THEOREM PowerIsKept == Spec => []PowerStaysOn
<1>1. IInv => PowerStaysOn
  BY DEF IInv, Swap, QueueMissed, PowerStaysOn
<1> QED
  BY Inductive, <1>1, PTL

\* When the stop thread has ended (main.c:1400-1437) no queue, port, device or file is left.
THEOREM NothingIsLeft == Spec => []NothingLeft
<1>1. IInv => NothingLeft
  <2> SUFFICES ASSUME IInv, stp = "done", "silent" \notin slips, "orphan" \notin slips,
                      "unserved" \notin slips
               PROVE  alive = {} /\ port # "open" /\ handle # "open" /\ discfd \notin Discs
    BY DEF NothingLeft
  <2>1. main = "done" /\ ejt # "destroy"
    BY DEF IInv, End, StopJoins
  <2> QED
    BY <2>1 DEF IInv, End, QueuesGone, MainClosed
<1> QED
  BY Inductive, <1>1, PTL

\* No step changes the disc in turn, or the description that is loaded, under a read: at the
\* stages that do (main.c:1014-1016 and the mount after an insertion) the swap is over do_run.
THEOREM SwapsWait == Spec => SwapBetweenReads
<1>1. ASSUME IInv, Next, psx_indx' # psx_indx \/ tracks' # tracks
      PROVE  /\ main = "spawn" \/ ejt \in {"next", "tracks", "create", "mount"}
             /\ slips' = slips
  <2>1. CASE StartSteps
    BY <1>1, <2>1 DEF StartSteps, SetupFails, Setup, Spawn, MountFirst, MountFirstFails
  <2>2. CASE PutSteps
    BY <1>1, <2>2 DEF PutSteps, LoadTracks, CreateQueue, CreateFails, Revive, Remount, RemountFails
  <2>3. CASE TakeSteps
    BY <1>1, <2>3 DEF TakeSteps, TakeDown, CloseFile, CloseHandle, ForgetQueue, DestroyQueue,
       WaitRead, NextDisc
  <2>4. CASE KernelSteps \/ StopSteps \/ PollSteps
    BY <1>1, <2>4 DEF KernelSteps, Ask, TakeResult, MoveTray, StopSteps, Stop, StopQueue, JoinMain,
       JoinEject, PollSteps, EjectEnds, SeeEject, SeeError, SeeInsert, SeeInsertFails
  <2>5. CASE LoopSteps \/ SendSteps
    BY <1>1, <2>5 DEF LoopSteps, Loop, Check, Receive, Received, Cancelled, ReceiveFailed, Got,
       Flag, SendSteps, Send, SendBusy, SendFails, SendStopped, Exit, Cleanup
  <2>6. CASE ReadSteps
    BY <1>1, <2>6 DEF ReadSteps, AlreadyOpen, Reopen, GiveUpReopen, FileRead, RawRetry, RawFails,
       MultiFails, DeviceLost, FileReadFails, ShortRead
  <2> QED
    BY <1>1, <2>1, <2>2, <2>3, <2>4, <2>5, <2>6, StepCases
<1>2. IInv /\ [Next]_vars =>
        [<<psx_indx, tracks>>' # <<psx_indx, tracks>> /\ stp = "idle"
            /\ slips' \cap {"early", "late", "silent"} = {} =>
            main \notin {"flag", "reopen", "read"}]_vars
  <2> SUFFICES ASSUME IInv, Next, psx_indx' # psx_indx \/ tracks' # tracks, stp = "idle",
                      slips' \cap {"early", "late", "silent"} = {}
               PROVE  main \notin {"flag", "reopen", "read"}
    OBVIOUS
  <2>1. "early" \notin slips /\ "late" \notin slips /\ "silent" \notin slips
    BY <1>1
  <2>2. CASE ejt \in {"next", "tracks", "create", "mount"}
    BY <2>1, <2>2 DEF IInv, Swap, ReadAlone
  <2> QED
    BY <1>1, <2>2
<1> QED
  BY Inductive, <1>2, PTL DEF Spec, SwapBetweenReads

(***************************************************************************)
(* RawDisc.  Arithmetic: the lesser of two, and division by a constant.    *)
(***************************************************************************)

\* The lesser of two numbers.
LEMMA MinOfTwo ==
    ASSUME NEW a \in Int, NEW b \in Int
    PROVE  Min({a, b}) = IF a <= b THEN a ELSE b
  BY DEF Min

\* Quotient and remainder of a size by a unit.
LEMMA Division ==
    ASSUME NEW a \in Nat, NEW d \in Nat \ {0}
    PROVE  /\ a \div d \in Nat /\ a % d \in 0 .. d - 1
           /\ a = (a \div d) * d + (a % d)
  OBVIOUS

\* They are the only numbers that make up the size.
LEMMA DivisionIs ==
    ASSUME NEW q \in Nat, NEW d \in Nat \ {0}, NEW r \in 0 .. d - 1, NEW n, n = q * d + r
    PROVE  n \div d = q /\ n % d = r
  OBVIOUS

\* Units within one sector have the same sector number.
LEMMA SameQuotient ==
    ASSUME NEW a \in Nat, NEW d \in Nat \ {0}, NEW i \in Nat, (a % d) + i < d
    PROVE  (a + i) \div d = a \div d /\ (a + i) % d = (a % d) + i
  <1>1. PICK q \in Nat, r \in 0 .. d - 1 : a \div d = q /\ (a % d) + i = r /\ a + i = q * d + r
    BY Division
  <1>2. \A n : n = q * d + r => n \div d = q /\ n % d = r
    BY DivisionIs
  <1> QED
    BY <1>1, <1>2

\* Units behind a sector's start are counted from that sector on.
LEMMA QuotientsAdd ==
    ASSUME NEW a \in Nat, NEW d \in Nat \ {0}, NEW i \in Nat, a % d = 0
    PROVE  (a + i) \div d = a \div d + i \div d /\ (a + i) % d = i % d
  <1>1. PICK p \in Nat : a \div d = p /\ a = p * d
    BY Division
  <1>2. PICK q \in Nat, r \in 0 .. d - 1 : i \div d = q /\ i % d = r /\ i = q * d + r
    BY Division
  <1>3. p + q \in Nat /\ a + i = (p + q) * d + r
    BY <1>1, <1>2
  <1>4. \A m \in Nat : \A n : n = m * d + r => n \div d = m /\ n % d = r
    BY DivisionIs
  <1> QED
    BY <1>1, <1>2, <1>3, <1>4

(***************************************************************************)
(* The image: what a sector of it holds, and what a read of it returns.    *)
(***************************************************************************)

\* The sizes of the code, as numbers.
LEMMA Sizes ==
    /\ {SectorSize, CdSize, DataSize, CD_CACHE_SIZE} \subseteq Nat \ {0}
    /\ {Header, DetectSize} \subseteq Nat /\ Header + DataSize <= CdSize
  BY SizesAssumption

\* Sections have no units in common, and behind the last of them there is none.
LEMMA SectionsApart ==
    /\ \A s \in DOMAIN sections : s \in Int /\ Base[s] \in Nat /\ SizeOf(s) \in Nat
    /\ \A s, t \in DOMAIN sections : s < t => Base[s] + SizeOf(s) <= Base[t]
    /\ \A off, n \in Nat : SectionsAt(off) = {} => SectionsAt(off + n) = {}
  <1> DEFINE ss == Numbered(Lengths)
  <1>1. Lengths \in Seq(Nat) /\ DOMAIN Lengths = DOMAIN sections
    <2>1. \A s \in DOMAIN sections : sections[s][2] \in Nat
      BY SectionsAssumption
    <2>2. DOMAIN sections = 1 .. Len(sections) /\ Len(sections) \in Nat
      BY SectionsAssumption
    <2> QED
      BY <2>1, <2>2 DEF Lengths
  <1>2. ss \in Seq(Seq(Int \X Int)) /\ \A s : StartOf(ss, s) \in Nat
    BY <1>1, NumberedUnits
  <1>3. \A s \in DOMAIN Lengths : StartOf(ss, s + 1) = StartOf(ss, s) + Lengths[s]
    BY <1>1, NumberedUnits
  <1>4. /\ \A s, t \in Int : s <= t => StartOf(ss, s) <= StartOf(ss, t)
        /\ \A s : StartOf(ss, s) <= Cardinality(Places(ss))
    BY <1>2, Starts
  <1>5. DOMAIN ss = DOMAIN sections /\ \A s \in DOMAIN ss : DOMAIN ss[s] = 1 .. Lengths[s]
    BY <1>1 DEF Numbered
  <1>6. SectorSize \in Nat /\ SectorSize > 0
    BY Sizes
  <1>7. ASSUME NEW s \in DOMAIN sections
        PROVE  /\ s \in Int /\ Base[s] = StartOf(ss, s) * SectorSize /\ Base[s] \in Nat
               /\ SizeOf(s) \in Nat
               /\ Base[s] + SizeOf(s) = StartOf(ss, s + 1) * SectorSize
    <2>1. s \in Int /\ Base[s] = StartOf(ss, s) * SectorSize
      BY SectionsAssumption DEF Base
    <2>2. SizeOf(s) = Lengths[s] * SectorSize /\ Lengths[s] \in Nat
      BY <1>1 DEF SizeOf, Lengths
    <2>3. PICK b \in Nat, l \in Nat : b = StartOf(ss, s) /\ l = Lengths[s]
      BY <1>2, <2>2
    <2>4. StartOf(ss, s + 1) = b + l
      BY <1>1, <1>3, <2>3
    <2>5. b * SectorSize + l * SectorSize = (b + l) * SectorSize
      BY <1>6
    <2> QED
      BY <1>6, <2>1, <2>2, <2>3, <2>4, <2>5
  <1>8. ASSUME NEW s \in DOMAIN sections, NEW t \in DOMAIN sections, s < t
        PROVE  Base[s] + SizeOf(s) <= Base[t]
    <2>1. s \in Int /\ t \in Int /\ s + 1 <= t
      BY <1>7, <1>8
    <2>2. PICK a \in Nat, b \in Nat : a = StartOf(ss, s + 1) /\ b = StartOf(ss, t) /\ a <= b
      BY <1>2, <1>4, <2>1
    <2>3. a * SectorSize <= b * SectorSize
      BY <1>6, <2>2
    <2> QED
      BY <1>7, <2>2, <2>3
  <1>9. ASSUME NEW off \in Nat, NEW n \in Nat, NEW s \in SectionsAt(off + n)
        PROVE  SectionsAt(off) # {}
    <2>1. s \in DOMAIN sections /\ off < Base[s] + SizeOf(s)
      BY <1>7, <1>9 DEF SectionsAt
    <2>2. PICK q \in Nat, r \in 0 .. SectorSize - 1 : off = q * SectorSize + r
      <3>1. /\ off \div SectorSize \in Nat /\ off % SectorSize \in 0 .. SectorSize - 1
            /\ off = (off \div SectorSize) * SectorSize + (off % SectorSize)
        <4>1. SectorSize \in Nat \ {0}
          BY <1>6
        <4> QED
          BY <4>1, Division, Zenon
      <3> QED
        BY <3>1
    <2>3. PICK c \in Nat : c = StartOf(ss, s + 1) /\ c <= Cardinality(Places(ss))
      BY <1>2, <1>4
    <2>4. q < c
      <3>1. q * SectorSize + r < c * SectorSize
        BY <1>7, <2>1, <2>2, <2>3
      <3>2. SUFFICES ASSUME c <= q PROVE FALSE
        OBVIOUS
      <3>3. c * SectorSize <= q * SectorSize
        BY <1>6, <3>2
      <3> QED
        BY <1>6, <3>1, <3>3
    <2>5. PICK p \in Places(ss) : StartOf(ss, p[1]) + p[2] = q + 1
      <3>1. Cardinality(Places(ss)) \in Nat
        BY <1>2, PlacesFinite
      <3>2. q + 1 \in 1 .. Cardinality(Places(ss))
        BY <2>3, <2>4, <3>1
      <3> QED
        BY <1>2, <3>2, Positions
    <2>11. PICK k \in DOMAIN ss : \E i \in DOMAIN ss[k] : p = <<k, i>>
      BY <1>2, PlacesFinite
    <2>6. PICK i \in DOMAIN ss[k] : p = <<k, i>>
      BY <2>11
    <2>7. PICK b \in Nat, l \in Nat, j \in Nat :
              b = StartOf(ss, k) /\ l = Lengths[k] /\ j = i /\ 1 <= j /\ j <= l /\ b + j = q + 1
      <3>1. Lengths[k] \in Nat /\ i \in 1 .. Lengths[k]
        BY <1>1, <1>5
      <3>2. StartOf(ss, k) \in Nat /\ StartOf(ss, k) + i = q + 1
        BY <1>2, <2>5, <2>6
      <3> QED
        BY <3>1, <3>2
    <2>8. StartOf(ss, k + 1) = b + l
      BY <1>1, <1>3, <1>5, <2>7
    <2>9. b * SectorSize <= off /\ off < (b + l) * SectorSize
      <3>1. b <= q /\ q + 1 <= b + l
        BY <2>7
      <3>2. b * SectorSize <= q * SectorSize /\ (q + 1) * SectorSize <= (b + l) * SectorSize
        BY <1>6, <3>1
      <3>3. (q + 1) * SectorSize = q * SectorSize + SectorSize
        BY <1>6
      <3> QED
        BY <1>6, <2>2, <3>2, <3>3
    <2>10. k \in DOMAIN sections
      BY <1>5
    <2> QED
      BY <1>7, <2>7, <2>8, <2>9, <2>10 DEF SectionsAt
  <1> QED
    BY <1>7, <1>8, <1>9

\* The section of a unit is the only one.
LEMMA OneSection ==
    ASSUME NEW off \in Nat, NEW s \in SectionsAt(off)
    PROVE  SectionsAt(off) = {s}
  <1>1. ASSUME NEW t \in SectionsAt(off), t # s PROVE FALSE
    <2>1. /\ s \in DOMAIN sections /\ t \in DOMAIN sections /\ s \in Int /\ t \in Int
          /\ Base[s] \in Nat /\ Base[t] \in Nat /\ SizeOf(s) \in Nat /\ SizeOf(t) \in Nat
          /\ Base[s] <= off /\ off < Base[s] + SizeOf(s)
          /\ Base[t] <= off /\ off < Base[t] + SizeOf(t)
      BY <1>1, SectionsApart DEF SectionsAt
    <2>2. s < t \/ t < s
      BY <1>1, <2>1
    <2>3. Base[s] + SizeOf(s) <= Base[t] \/ Base[t] + SizeOf(t) <= Base[s]
      BY <2>1, <2>2, SectionsApart
    <2> QED
      BY <2>1, <2>3
  <1> QED
    BY <1>1

\* The unit of the image at a place of a section.
UnitAt(g, s, pos) ==
    IF sections[s][1] = Hole THEN Zero
    ELSE Value(g, sections[s][1] + pos \div SectorSize, pos % SectorSize)

\* A unit of the disc is the one its section holds there, and zero where no section is.
LEMMA ImageIs ==
    ASSUME NEW g, NEW off \in Nat
    PROVE  /\ SectionsAt(off) = {} => Image(g, off) = Zero
           /\ \A s \in SectionsAt(off) : Image(g, off) = UnitAt(g, s, off - Base[s])
  <1> DEFINE in == {i \in SectionsAt(off) : sections[i][1] # Hole}
  <1>1. in = {} => Image(g, off) = Zero
    BY DEF Image
  <1>2. ASSUME NEW s \in SectionsAt(off), sections[s][1] # Hole
        PROVE  Image(g, off) = UnitAt(g, s, off - Base[s])
    <2>1. in = {s}
      BY <1>2, OneSection
    <2>2. in # {} /\ (CHOOSE i \in in : TRUE) = s
      BY <2>1
    <2> HIDE DEF in
    <2>3. Image(g, off) = LET i == CHOOSE i \in in : TRUE
                              pos == off - Base[i]
                          IN Value(g, sections[i][1] + pos \div SectorSize, pos % SectorSize)
      BY <2>2 DEF Image, in
    <2> QED
      BY <1>2, <2>2, <2>3 DEF UnitAt
  <1>3. ASSUME NEW s \in SectionsAt(off), sections[s][1] = Hole PROVE in = {}
    BY <1>3, OneSection
  <1> QED
    BY <1>1, <1>2, <1>3 DEF UnitAt

\* What get_next_read returns: nothing, where the image has no section, or a part of one.
LEMMA NextReadIs ==
    ASSUME NEW off \in Nat, NEW size \in Nat, size > 0, NEW at, at = NextRead(off, size)
    PROVE  \/ /\ SectionsAt(off) = {} /\ Past(at) /\ at.readsize = size
           \/ \E s \in SectionsAt(off) :
                 /\ at.idx = s /\ at.pos = off - Base[s] /\ at.pos \in Nat
                 /\ s \in DOMAIN sections /\ (Past(at) <=> sections[s][1] = Hole)
                 /\ at.readsize \in 1 .. size /\ off + at.readsize <= Base[s] + SizeOf(s)
  <1>1. CASE SectionsAt(off) = {}
    BY <1>1 DEF NextRead, Past
  <1>2. ASSUME NEW s \in SectionsAt(off)
        PROVE  /\ at.idx = s /\ at.pos = off - Base[s] /\ at.pos \in Nat
               /\ s \in DOMAIN sections /\ (Past(at) <=> sections[s][1] = Hole)
               /\ at.readsize \in 1 .. size /\ off + at.readsize <= Base[s] + SizeOf(s)
    <2>1. SectionsAt(off) = {s}
      BY OneSection
    <2>2. /\ s \in DOMAIN sections /\ s \in Int /\ Base[s] \in Nat /\ SizeOf(s) \in Nat
          /\ Base[s] <= off /\ off < Base[s] + SizeOf(s)
      BY SectionsApart DEF SectionsAt
    <2>3. Min(SectionsAt(off)) = s
      BY <2>1, <2>2 DEF Min
    <2>4. PICK m : m = Min({size, Base[s] + SizeOf(s) - off})
      OBVIOUS
    <2>5. m \in {size, Base[s] + SizeOf(s) - off} /\ m <= size /\ m <= Base[s] + SizeOf(s) - off
      BY <2>2, <2>4 DEF Min
    <2>6. at = [idx |-> s, pos |-> off - Base[s], readsize |-> m]
      BY <2>1, <2>3, <2>4 DEF NextRead
    <2>7. s # None
      BY <2>2, SectionsAssumption DEF None
    <2> QED
      BY <2>2, <2>5, <2>6, <2>7 DEF Past
  <1> QED
    BY <1>1, <1>2

\* In the section of a read the units follow each other.
LEMMA InSection ==
    ASSUME NEW g, NEW off \in Nat, NEW s \in SectionsAt(off), NEW j \in Nat,
           off + j < Base[s] + SizeOf(s)
    PROVE  Image(g, off + j) = UnitAt(g, s, off - Base[s] + j)
  <1>1. /\ s \in DOMAIN sections /\ Base[s] \in Nat /\ SizeOf(s) \in Nat /\ Base[s] <= off
    BY SectionsApart DEF SectionsAt
  <1>2. PICK o \in Nat : o = off + j
    OBVIOUS
  <1>3. s \in SectionsAt(o)
    BY <1>1, <1>2 DEF SectionsAt
  <1>4. off - Base[s] + j = o - Base[s]
    BY <1>1, <1>2
  <1>5. Image(g, o) = UnitAt(g, s, o - Base[s])
    BY <1>3, ImageIs
  <1> QED
    BY <1>2, <1>4, <1>5

\* The three kinds of read deliver the image.
NothingRight(off, at) ==
    at.readsize \in Nat /\ \A g : \A j \in 0 .. at.readsize - 1 : Image(g, off + j) = Zero
PartialRight(off, at) ==
    /\ PartSize(at) \in 1 .. at.readsize
    /\ \A g : \A j \in 0 .. PartSize(at) - 1 :
           Image(g, off + j) = Value(g, Sector(at), Skew(at) + j)
WholeRight(off, at) ==
    LET n == at.readsize \div SectorSize IN
    /\ n \in Nat /\ n * SectorSize \in 1 .. at.readsize
    /\ \A g : \A j \in 0 .. n * SectorSize - 1 :
           Image(g, off + j) = Value(g, Sector(at) + j \div SectorSize, j % SectorSize)

\* What get_next_read finds covers the units it says, and these are the units of the disc.
LEMMA ReadsImage ==
    ASSUME NEW off \in Nat, NEW size \in Nat, size > 0, NEW at, at = NextRead(off, size)
    PROVE  /\ at.readsize \in 1 .. size
           /\ Past(at) => NothingRight(off, at)
           /\ Partial(at) => PartialRight(off, at)
           /\ Whole(at) => WholeRight(off, at)
  <1>1. CASE SectionsAt(off) = {} /\ Past(at) /\ at.readsize = size
    <2>1. \A j \in Nat : off + j \in Nat /\ SectionsAt(off + j) = {}
      BY <1>1, SectionsApart
    <2>2. \A g : \A j \in Nat : Image(g, off + j) = Zero
      BY <2>1, ImageIs
    <2> QED
      BY <1>1, <2>2 DEF NothingRight, Partial, Whole
  <1>2. ASSUME NEW s \in SectionsAt(off),
               at.idx = s /\ at.pos = off - Base[s] /\ at.pos \in Nat,
               s \in DOMAIN sections /\ (Past(at) <=> sections[s][1] = Hole),
               at.readsize \in 1 .. size /\ off + at.readsize <= Base[s] + SizeOf(s)
        PROVE  /\ Past(at) => NothingRight(off, at)
               /\ Partial(at) => PartialRight(off, at)
               /\ Whole(at) => WholeRight(off, at)
    <2>1. PICK pos \in Nat, len \in Nat : at.pos = pos /\ at.readsize = len /\ 0 < len
      BY <1>2
    <2>2. SectorSize \in Nat \ {0} /\ Base[s] \in Nat /\ SizeOf(s) \in Nat
      BY <1>2, Sizes, SectionsApart
    <2>3. \A j \in 0 .. len - 1 : j \in Nat /\ off + j < Base[s] + SizeOf(s)
      BY <1>2, <2>1, <2>2
    <2>4. \A g : \A j \in 0 .. len - 1 : Image(g, off + j) = UnitAt(g, s, pos + j)
      <3>1. off - Base[s] = pos
        BY <1>2, <2>1
      <3>2. ASSUME NEW g, NEW j \in 0 .. len - 1
            PROVE  Image(g, off + j) = UnitAt(g, s, off - Base[s] + j)
        <4>1. j \in Nat /\ off + j < Base[s] + SizeOf(s)
          BY <2>3
        <4> QED
          BY <4>1, InSection
      <3> QED
        BY <3>1, <3>2
    <2>5. Past(at) => NothingRight(off, at)
      BY <1>2, <2>1, <2>4 DEF NothingRight, UnitAt
    <2>6. ASSUME Partial(at) PROVE PartialRight(off, at)
      <3>1. sections[s][1] # Hole /\ Sector(at) = sections[s][1] + pos \div SectorSize
            /\ Skew(at) = pos % SectorSize
        BY <1>2, <2>1, <2>6 DEF Partial, Sector, Skew
      <3>2. PICK k \in 0 .. SectorSize - 1 : k = pos % SectorSize
        BY <2>1, <2>2, Division, Zenon
      <3>3. PICK n : n = PartSize(at)
        OBVIOUS
      <3>4. n \in {SectorSize - k, len} /\ n <= SectorSize - k /\ n <= len
        <4>1. n = Min({SectorSize - k, len})
          BY <2>1, <3>1, <3>2, <3>3 DEF PartSize
        <4>2. SectorSize - k \in Int /\ len \in Int
          BY <2>1, <2>2, <3>2
        <4>3. n = IF SectorSize - k <= len THEN SectorSize - k ELSE len
          BY <4>1, <4>2, MinOfTwo
        <4> QED
          BY <4>2, <4>3
      <3>5. n \in 1 .. len /\ k + n <= SectorSize
        BY <2>1, <2>2, <3>2, <3>4
      <3>6. ASSUME NEW j \in 0 .. n - 1
            PROVE  (pos + j) \div SectorSize = pos \div SectorSize
                   /\ (pos + j) % SectorSize = k + j
        <4>1. j \in Nat /\ (pos % SectorSize) + j < SectorSize
          BY <2>2, <3>2, <3>5
        <4>2. /\ (pos + j) \div SectorSize = pos \div SectorSize
              /\ (pos + j) % SectorSize = (pos % SectorSize) + j
          BY <2>2, <4>1, SameQuotient, Zenon
        <4> QED
          BY <3>2, <4>2, Zenon
      <3>7. \A j \in 0 .. n - 1 : j \in 0 .. len - 1
        BY <3>5
      <3>8. \A g : \A j \in 0 .. n - 1 : Image(g, off + j) = Value(g, Sector(at), Skew(at) + j)
        BY <2>4, <3>1, <3>2, <3>6, <3>7 DEF UnitAt
      <3> QED
        BY <2>1, <3>3, <3>5, <3>8 DEF PartialRight
    <2>7. ASSUME Whole(at) PROVE WholeRight(off, at)
      <3>1. sections[s][1] # Hole /\ Sector(at) = sections[s][1] + pos \div SectorSize
            /\ pos % SectorSize = 0 /\ len >= SectorSize
        BY <1>2, <2>1, <2>7 DEF Whole, Sector, Skew
      <3>2. PICK n \in Nat, r \in 0 .. SectorSize - 1 :
                n = len \div SectorSize /\ len = n * SectorSize + r
        <4>1. /\ len \div SectorSize \in Nat /\ len % SectorSize \in 0 .. SectorSize - 1
              /\ len = (len \div SectorSize) * SectorSize + (len % SectorSize)
          BY <2>1, <2>2, Division, Zenon
        <4> QED
          BY <4>1
      <3>3. n * SectorSize \in 1 .. len
        <4>1. n # 0
          BY <2>2, <3>1, <3>2
        <4> QED
          BY <2>2, <3>2, <4>1
      <3>4. sections[s][1] \in Nat /\ pos \div SectorSize \in Nat
        <4>1. sections[s][1] \in Nat
          BY <1>2, <3>1, SectionsAssumption
        <4> QED
          BY <2>1, <2>2, <4>1, Division, Zenon
      <3>5. ASSUME NEW j \in 0 .. n * SectorSize - 1
            PROVE  /\ sections[s][1] + (pos + j) \div SectorSize = Sector(at) + j \div SectorSize
                   /\ (pos + j) % SectorSize = j % SectorSize
        <4>1. j \in Nat
          BY <3>3
        <4>2. /\ (pos + j) \div SectorSize = pos \div SectorSize + j \div SectorSize
              /\ (pos + j) % SectorSize = j % SectorSize
          <5>1. pos \in Nat /\ SectorSize \in Nat \ {0} /\ pos % SectorSize = 0
            BY <2>1, <2>2, <3>1
          <5> QED
            BY <4>1, <5>1, QuotientsAdd, Zenon
        <4>4. j \div SectorSize \in Nat
          BY <2>2, <4>1, Division, Zenon
        <4>3. PICK a \in Nat, b \in Nat, c \in Nat :
                  a = sections[s][1] /\ b = pos \div SectorSize /\ c = j \div SectorSize
          BY <3>4, <4>4
        <4> QED
          BY <3>1, <4>2, <4>3
      <3>6. \A j \in 0 .. n * SectorSize - 1 : j \in 0 .. len - 1
        BY <3>3
      <3>7. \A g : \A j \in 0 .. n * SectorSize - 1 :
                Image(g, off + j) = Value(g, Sector(at) + j \div SectorSize, j % SectorSize)
        BY <2>4, <3>1, <3>5, <3>6 DEF UnitAt
      <3> QED
        BY <2>1, <3>2, <3>3, <3>7 DEF WholeRight
    <2> QED
      BY <2>5, <2>6, <2>7
  <1> QED
    BY <1>1, <1>2, NextReadIs

(***************************************************************************)
(* The invariant.  A job reads size units of the image from off on, or of  *)
(* the raw sectors if it is a move, and puts them at dst of the buffer it  *)
(* is for.                                                                 *)
(***************************************************************************)
\* The jobs.
Job  == [off : Nat, size : Nat, dst : Nat, to : {"buf", "raw", "cache", "move"}]
Jobs == Seq(Job)

\* The command, the units it wants, and the units of its raw sectors.
First == request[2]
Count == request[3]
Wants(i) == Wanted(request[1], First, i)
Raw(i)   == Image(gen, First * CdSize + i)

\* What a job is yet to bring, and what the fill of the CD cache is.
Covers(r, i) == r.dst <= i /\ i < r.dst + r.size
Filling == todo # << >> /\ todo[1].to = "cache"
Gap(i)  == LET m == Missing(First, Count) IN m[3] * CdSize <= i /\ i < (m[3] + m[2]) * CdSize

\* The command is one of the kind, and the buffer has its size.
RequestOK ==
    /\ kind \in Kinds /\ status \in {"detect", "idle", "busy", "ok", "failed", "crashed"}
    /\ status \in {"busy", "ok"} =>
         /\ request \in {"iso", "2048", "2352"} \X Nat \X Nat /\ request[1] \in OpsOf[kind]
         /\ DOMAIN buf = 0 .. Count * UnitOf(request[1]) - 1

\* What is left to do is known from its kind.
TodoType ==
    /\ todo \in Jobs
    /\ status \in {"idle", "ok", "failed", "crashed"} => todo = << >>
    /\ status = "detect" => \A t \in DOMAIN todo : todo[t].to = "buf"

\* Sector 0 was found in a CD cache without a number.
Wrapped == "wrapped" \in faults

\* A job reads what its part of the answer needs, according to its kind.
BufRead(r) == \A j \in 0 .. r.size - 1 : Wants(r.dst + j) = Image(gen, r.off + j)
RawRead(r) == kind = "cd" /\ request[1] = "2048" /\ r.off = First * CdSize + r.dst
CacheRead(r) ==
    /\ kind = "cd" /\ request[1] = "2352" /\ Count <= CD_CACHE_SIZE
    /\ ~Wrapped => r.off = Missing(First, Count)[1] * CdSize + r.dst
    /\ r.dst + r.size = CD_CACHE_SIZE * CdSize
MoveOf(r) ==
    /\ kind = "cd" /\ request[1] = "2048"
    /\ \A j \in 0 .. r.size - 1 : Wants(r.dst + j) = Raw(r.off + j)
JobRight(r) ==
    /\ r.to = "buf" => BufRead(r)
    /\ r.to = "raw" => RawRead(r)
    /\ r.to = "cache" => CacheRead(r)
    /\ r.to = "move" => MoveOf(r)

\* Raw sectors come first, and no move writes over what a later one moves.
Before(r, m) == r.to = "raw" \/ (r.to = "move" /\ r.dst + r.size <= m.off)
Order ==
    \A t \in DOMAIN todo :
        /\ todo[t].to = "raw" => t = 1
        /\ todo[t].to = "cache" => Len(todo) = 1
        /\ todo[t].to = "move" => \A s \in 1 .. t - 1 : Before(todo[s], todo[t])
PlanInv == status = "busy" => (\A t \in DOMAIN todo : JobRight(todo[t])) /\ Order

\* A unit of the answer is there, or a job is yet to bring it; so is a unit to be moved.
NoRaw == \A t \in DOMAIN todo : todo[t].to # "raw"
Has(i) ==
    \/ \E t \in DOMAIN todo : todo[t].to \in {"buf", "move"} /\ Covers(todo[t], i)
    \/ NoRaw /\ buf[i] = Wants(i)
    \/ Filling /\ Gap(i)
Source(i) == buf[i] = Raw(i) \/ \E t \in DOMAIN todo : todo[t].to = "raw" /\ Covers(todo[t], i)
DataInv ==
    faults = {} /\ status \in {"busy", "ok"} =>
        /\ \A i \in DOMAIN buf : Has(i)
        /\ \A t \in DOMAIN todo : todo[t].to = "move" =>
              \A j \in 0 .. todo[t].size - 1 : Source(todo[t].off + j)

\* The CD cache: new sectors up to where its fill has come, those of its number behind.
CacheInv ==
    /\ DOMAIN cd_cache = 0 .. CD_CACHE_SIZE * CdSize - 1
    /\ cached_cd_sector \in Nat \cup {None, WrappedNumber}
    /\ ~Wrapped => cached_cd_sector \in Nat \cup {None}
    /\ cached_cd_sector # None => kind = "cd"
    /\ faults = {} =>
         \A i \in DOMAIN cd_cache :
             /\ cached_cd_sector # None /\ (Filling => todo[1].dst <= i) =>
                   cd_cache[i] = Image(gen, cached_cd_sector * CdSize + i)
             /\ Filling /\ i < todo[1].dst =>
                   cd_cache[i] = Image(gen, Missing(First, Count)[1] * CdSize + i)

\* What is read and what is moved is in the buffers.
Span(from, n) == from .. from + n - 1
RoomInv ==
    /\ Within
    /\ \A t \in DOMAIN todo :
          todo[t].to = "move" => Span(todo[t].off, todo[t].size) \subseteq DOMAIN buf

DiscInv == RequestOK /\ TodoType /\ PlanInv /\ DataInv /\ CacheInv /\ RoomInv

(***************************************************************************)
(* The buffers and the list of jobs that are left.                         *)
(***************************************************************************)

\* What a buffer holds once data is copied into it.
LEMMA PutIs ==
    ASSUME NEW b, NEW at \in Nat, NEW data
    PROVE  /\ DOMAIN Put(b, at, data) = DOMAIN b
           /\ \A i \in DOMAIN b :
                 Put(b, at, data)[i] = IF i - at \in DOMAIN data THEN data[i - at] ELSE b[i]
  BY DEF Put

\* The fields of a job.
LEMMA JobFields ==
    ASSUME NEW r \in Job
    PROVE  /\ r.off \in Nat /\ r.size \in Nat /\ r.dst \in Nat
           /\ r.to \in {"buf", "raw", "cache", "move"}
           /\ r = [off |-> r.off, size |-> r.size, dst |-> r.dst, to |-> r.to]
  BY DEF Job

\* A job to read, field by field.
LEMMA ReadingIs ==
    ASSUME NEW off \in Nat, NEW size \in Nat, NEW dst \in Nat,
           NEW to \in {"buf", "raw", "cache", "move"}
    PROVE  /\ Reading(off, size, dst, to) \in Job
           /\ Reading(off, size, dst, to).off = off /\ Reading(off, size, dst, to).size = size
           /\ Reading(off, size, dst, to).dst = dst /\ Reading(off, size, dst, to).to = to
  BY DEF Reading, Job

\* The jobs left, and the one at work.
LEMMA TodoIs ==
    ASSUME todo \in Jobs
    PROVE  /\ Len(todo) \in Nat /\ DOMAIN todo = 1 .. Len(todo)
           /\ \A t \in DOMAIN todo : todo[t] \in Job /\ t \in Nat
           /\ todo # << >> => 1 \in DOMAIN todo /\ Cur = todo[1]
  <1>1. todo \in Seq(Job)
    BY DEF Jobs
  <1>2. Len(todo) \in Nat /\ DOMAIN todo = 1 .. Len(todo)
    BY <1>1
  <1>3. \A t \in DOMAIN todo : todo[t] \in Job /\ t \in Nat
    BY <1>1, <1>2
  <1>4. todo # << >> => Len(todo) > 0 /\ Head(todo) = todo[1]
    BY <1>1
  <1> QED
    BY <1>2, <1>3, <1>4 DEF Cur

\* A read is put in the place of the first.
LEMMA FirstIs ==
    ASSUME todo \in Jobs, todo # << >>, NEW r \in Job, todo' = [todo EXCEPT ![1] = r]
    PROVE  /\ todo' \in Jobs /\ todo' # << >> /\ DOMAIN todo' = DOMAIN todo
           /\ Len(todo') = Len(todo)
           /\ todo'[1] = r
           /\ \A t \in DOMAIN todo : t # 1 => todo'[t] = todo[t]
  <1>1. todo \in Seq(Job) /\ 1 \in DOMAIN todo
    BY TodoIs DEF Jobs
  <1>2. todo' \in Seq(Job) /\ Len(todo') = Len(todo) /\ DOMAIN todo' = DOMAIN todo
    BY <1>1
  <1>3. todo' # << >>
    BY <1>1, <1>2
  <1>4. todo'[1] = r /\ \A t \in DOMAIN todo : t # 1 => todo'[t] = todo[t]
    BY <1>1
  <1> QED
    BY <1>2, <1>3, <1>4 DEF Jobs

\* A read that is done for n units leaves the rest of its job and every other job.
LEMMA AdvanceIs ==
    ASSUME todo \in Jobs, todo # << >>, NEW n \in 0 .. todo[1].size, Advance(n)
    PROVE  /\ todo' \in Jobs /\ todo' # << >> /\ DOMAIN todo' = DOMAIN todo
           /\ Len(todo') = Len(todo)
           /\ todo'[1] = Further(todo[1], n)
           /\ \A t \in DOMAIN todo : t # 1 => todo'[t] = todo[t]
  <1>1. 1 \in DOMAIN todo /\ todo[1] \in Job /\ Cur = todo[1]
    BY TodoIs
  <1>2. Further(todo[1], n) \in Job
    <2>1. PICK r \in Job : r = todo[1]
      BY <1>1
    <2>2. r.off + n \in Nat /\ r.size - n \in Nat /\ r.dst + n \in Nat
      BY <2>1, JobFields
    <2> QED
      BY <2>1, <2>2, JobFields DEF Further, Reading, Job
  <1> QED
    BY <1>1, <1>2, FirstIs DEF Advance

\* A job that is done leaves the others, one place ahead.
LEMMA TailIs ==
    ASSUME todo \in Jobs, todo # << >>, todo' = Tail(todo)
    PROVE  /\ todo' \in Jobs /\ Len(todo') = Len(todo) - 1
           /\ \A t \in DOMAIN todo' : t + 1 \in DOMAIN todo /\ todo'[t] = todo[t + 1]
           /\ \A t \in DOMAIN todo : t # 1 => t - 1 \in DOMAIN todo'
  <1>1. todo \in Seq(Job) /\ DOMAIN todo = 1 .. Len(todo) /\ Len(todo) \in Nat /\ Len(todo) > 0
    BY DEF Jobs
  <1>2. todo' \in Seq(Job) /\ Len(todo') = Len(todo) - 1 /\ DOMAIN todo' = 1 .. Len(todo')
    BY <1>1
  <1>3. \A t \in 1 .. Len(todo) - 1 : todo'[t] = todo[t + 1]
    BY <1>1
  <1> QED
    BY <1>1, <1>2, <1>3 DEF Jobs

(***************************************************************************)
(* A turn of the loop: the three kinds of read are one, Fetch, by which n  *)
(* units of the image are put where the job at work says.                  *)
(***************************************************************************)

Fetch(n, data) ==
    /\ todo # << >> /\ status \in {"busy", "detect"} /\ todo[1].to # "move"
    /\ n \in 1 .. todo[1].size /\ DOMAIN data = 0 .. n - 1
    /\ PutTo(todo[1], data) /\ Advance(n)
    /\ UNCHANGED <<kind, gen, request, cached_cd_sector, status>>
    /\ Wrapped' <=> Wrapped
    /\ faults' = {} => faults = {} /\ \A j \in 0 .. n - 1 : data[j] = Image(gen, todo[1].off + j)

\* What a read of the job at work may return, one case of get_next_read after the other.
LEMMA ReadsAre ==
    ASSUME todo \in Jobs, NEW at \in Reads
    PROVE  /\ todo # << >> /\ status \in {"busy", "detect"} /\ todo[1].to # "move" /\ Cur = todo[1]
           /\ at.readsize \in 1 .. todo[1].size
           /\ Past(at) => NothingRight(todo[1].off, at)
           /\ Partial(at) => PartialRight(todo[1].off, at)
           /\ Whole(at) => WholeRight(todo[1].off, at)
  <1>1. /\ todo # << >> /\ status \in {"busy", "detect"} /\ Cur.to # "move" /\ Cur.size > 0
        /\ at = NextRead(Cur.off, Cur.size)
    BY DEF Reads
  <1>2. Cur = todo[1] /\ todo[1] \in Job
    BY <1>1, TodoIs
  <1>3. PICK off \in Nat, size \in Nat : off = todo[1].off /\ size = todo[1].size
    BY <1>2, JobFields
  <1>4. /\ at.readsize \in 1 .. size
        /\ Past(at) => NothingRight(off, at)
        /\ Partial(at) => PartialRight(off, at)
        /\ Whole(at) => WholeRight(off, at)
    BY <1>1, <1>2, <1>3, ReadsImage
  <1> QED
    BY <1>1, <1>2, <1>3, <1>4

\* A cached sector that is taken without a fault is the one that is wanted.
LEMMA NoMisread == \A held, sector : Misread(held, sector) = {} => held = <<gen, sector>>
  BY DEF Misread

\* A pair is not empty.
LEMMA PairIsNot == \A a, b : <<a, b>> # << >> /\ <<a, b>>[1] = a /\ <<a, b>>[2] = b
  OBVIOUS

\* Each of the three reads puts units of the disc where the job says.
LEMMA ReadsFetch ==
    ASSUME todo \in Jobs, Nothing \/ ReadPartial \/ ReadWhole
    PROVE  \E n, data : Fetch(n, data)
  <1>1. CASE Nothing
    <2>1. PICK at \in Reads : /\ Past(at)
                              /\ PutTo(Cur, [i \in 0 .. at.readsize - 1 |-> Zero])
                              /\ Advance(at.readsize)
      BY <1>1 DEF Nothing
    <2>2. PICK n : n = at.readsize
      OBVIOUS
    <2> DEFINE data == [i \in 0 .. n - 1 |-> Zero]
    <2>3. n \in 1 .. todo[1].size /\ \A j \in 0 .. n - 1 : Image(gen, todo[1].off + j) = Zero
      BY <2>1, <2>2, ReadsAre DEF NothingRight
    <2>4. Fetch(n, data)
      BY <1>1, <2>1, <2>2, <2>3, ReadsAre DEF Fetch, Nothing, cacheVars, Wrapped
    <2> QED
      BY <2>4
  <1>2. CASE ReadPartial
    <2>1. PICK at \in Reads :
              /\ Partial(at)
              /\ \E sector \in {Sector(at)}, skew \in {Skew(at)}, n \in {PartSize(at)} :
                   /\ \E held \in {SectorHeld(sector)} :
                        /\ PutTo(Cur, [i \in 0 .. n - 1 |->
                              IF held = << >> THEN Junk ELSE Value(held[1], held[2], skew + i)])
                        /\ faults' = faults \cup Misread(held, sector)
                   /\ Advance(n)
      BY <1>2 DEF ReadPartial
    <2>2. PICK n, held :
              /\ n = PartSize(at)
              /\ PutTo(Cur, [i \in 0 .. n - 1 |->
                    IF held = << >> THEN Junk ELSE Value(held[1], held[2], Skew(at) + i)])
              /\ faults' = faults \cup Misread(held, Sector(at))
              /\ Advance(n)
      BY <2>1
    <2> DEFINE data == [i \in 0 .. n - 1 |->
                           IF held = << >> THEN Junk ELSE Value(held[1], held[2], Skew(at) + i)]
    <2>3. n \in 1 .. at.readsize /\ at.readsize \in 1 .. todo[1].size
          /\ \A j \in 0 .. n - 1 :
                 Image(gen, todo[1].off + j) = Value(gen, Sector(at), Skew(at) + j)
      BY <2>1, <2>2, ReadsAre DEF PartialRight
    <2>4. n \in 1 .. todo[1].size
      <3>1. todo[1].size \in Nat
        BY <2>1, ReadsAre, TodoIs, JobFields
      <3> QED
        BY <2>3, <3>1
    <2>5. ASSUME faults' = {}
          PROVE  faults = {} /\ \A j \in 0 .. n - 1 : data[j] = Image(gen, todo[1].off + j)
      <3>1. held = <<gen, Sector(at)>> /\ faults = {}
        BY <2>2, <2>5, NoMisread
      <3>2. held # << >> /\ held[1] = gen /\ held[2] = Sector(at)
        BY <3>1, PairIsNot
      <3> QED
        BY <2>3, <3>1, <3>2
    <2>6. UNCHANGED <<kind, gen, request, cached_cd_sector, status>>
      BY <1>2 DEF ReadPartial
    <2>7. Wrapped' <=> Wrapped
      BY <2>2 DEF Wrapped, Misread
    <2>8. Fetch(n, data)
      BY <2>1, <2>2, <2>4, <2>5, <2>6, <2>7, ReadsAre DEF Fetch
    <2> QED
      BY <2>8
  <1>3. CASE ReadWhole
    <2>1. PICK at \in Reads :
              /\ Whole(at)
              /\ \E sector \in {Sector(at)}, n \in {at.readsize \div SectorSize} :
                   /\ PutTo(Cur, [i \in 0 .. n * SectorSize - 1 |->
                         Value(gen, sector + i \div SectorSize, i % SectorSize)])
                   /\ Advance(n * SectorSize)
      BY <1>3 DEF ReadWhole, Content
    <2>2. PICK n : n = (at.readsize \div SectorSize) * SectorSize
      OBVIOUS
    <2> DEFINE data == [i \in 0 .. n - 1 |->
                           Value(gen, Sector(at) + i \div SectorSize, i % SectorSize)]
    <2>3. PutTo(Cur, data) /\ Advance(n)
      BY <2>1, <2>2
    <2>4. n \in 1 .. at.readsize /\ at.readsize \in 1 .. todo[1].size
          /\ \A j \in 0 .. n - 1 : Image(gen, todo[1].off + j)
                                       = Value(gen, Sector(at) + j \div SectorSize, j % SectorSize)
      BY <2>1, <2>2, ReadsAre DEF WholeRight
    <2>5. n \in 1 .. todo[1].size
      <3>1. todo[1].size \in Nat
        BY <2>1, ReadsAre, TodoIs, JobFields
      <3> QED
        BY <2>4, <3>1
    <2>6. UNCHANGED <<kind, gen, request, cached_cd_sector, status, faults>>
      BY <1>3 DEF ReadWhole, Content
    <2>7. Wrapped' <=> Wrapped
      BY <2>6 DEF Wrapped
    <2>8. Fetch(n, data)
      BY <2>1, <2>3, <2>4, <2>5, <2>6, <2>7, ReadsAre DEF Fetch
    <2> QED
      BY <2>8
  <1> QED
    BY <1>1, <1>2, <1>3

\* What the plan is made from stays.
PlanKept == /\ UNCHANGED <<kind, gen, request, cached_cd_sector>>
            /\ Wrapped' <=> Wrapped

\* What a job must read depends only on the command, the disc and the cached sector.
LEMMA PlanSame ==
    ASSUME PlanKept
    PROVE  /\ \A r : JobRight(r)' <=> JobRight(r)
           /\ \A i : Wants(i)' = Wants(i) /\ Raw(i)' = Raw(i) /\ (Gap(i)' <=> Gap(i))
           /\ First' = First /\ Count' = Count /\ Missing(First, Count)' = Missing(First, Count)
  BY DEF PlanKept, JobRight, BufRead, RawRead, CacheRead, MoveOf, Wants, Raw, Gap, First, Count,
         Wanted, Missing, InCache, Overlap

\* A fetch leaves the jobs and what they are for.
LEMMA FetchTodo ==
    ASSUME TodoType, NEW n, NEW data, Fetch(n, data)
    PROVE  /\ todo' \in Jobs /\ todo' # << >> /\ DOMAIN todo' = DOMAIN todo
           /\ Len(todo') = Len(todo)
           /\ todo[1] \in Job /\ 1 \in DOMAIN todo
           /\ todo'[1] = Further(todo[1], n) /\ todo'[1].to = todo[1].to
           /\ \A t \in DOMAIN todo : t # 1 => todo'[t] = todo[t]
           /\ \A t \in DOMAIN todo : todo'[t].to = todo[t].to
           /\ n \in Nat /\ n <= todo[1].size
  <1>1. todo \in Jobs /\ todo # << >> /\ n \in 1 .. todo[1].size /\ Advance(n)
    BY DEF TodoType, Fetch
  <1>2. 1 \in DOMAIN todo /\ todo[1] \in Job
    BY <1>1, TodoIs
  <1>3. n \in Nat /\ n <= todo[1].size /\ n \in 0 .. todo[1].size
    BY <1>1, <1>2, JobFields
  <1>4. /\ todo' \in Jobs /\ todo' # << >> /\ DOMAIN todo' = DOMAIN todo /\ Len(todo') = Len(todo)
        /\ todo'[1] = Further(todo[1], n)
        /\ \A t \in DOMAIN todo : t # 1 => todo'[t] = todo[t]
    BY <1>1, <1>3, AdvanceIs
  <1>5. todo'[1].to = todo[1].to
    BY <1>4 DEF Further, Reading
  <1> QED
    BY <1>2, <1>3, <1>4, <1>5

\* A job of which n units are done, field by field.
LEMMA FurtherIs ==
    ASSUME NEW r \in Job, NEW n \in Nat, n <= r.size
    PROVE  /\ Further(r, n).off = r.off + n /\ Further(r, n).dst = r.dst + n
           /\ Further(r, n).size = r.size - n /\ Further(r, n).to = r.to
           /\ Further(r, n) \in Job
  <1>1. r.off + n \in Nat /\ r.dst + n \in Nat /\ r.size - n \in Nat
        /\ r.to \in {"buf", "raw", "cache", "move"}
    BY JobFields
  <1> QED
    BY <1>1 DEF Further, Reading, Job

\* A job that is right stays right when it has gone on.
LEMMA FurtherRight ==
    ASSUME NEW r \in Job, NEW n \in Nat, n <= r.size, JobRight(r), r.to # "move",
           First \in Nat, ~Wrapped => cached_cd_sector \in Nat \cup {None}
    PROVE  JobRight(Further(r, n))
  <1> DEFINE f == Further(r, n)
  <1>1. /\ f.off = r.off + n /\ f.dst = r.dst + n /\ f.size = r.size - n /\ f.to = r.to
        /\ r.off \in Nat /\ r.dst \in Nat /\ r.size \in Nat
    BY FurtherIs, JobFields
  <1> HIDE DEF f
  <1>2. ASSUME BufRead(r) PROVE BufRead(f)
    <2>1. ASSUME NEW j \in 0 .. f.size - 1 PROVE Wants(f.dst + j) = Image(gen, f.off + j)
      <3>1. PICK k \in 0 .. r.size - 1 : k = n + j
        BY <1>1
      <3>2. f.dst + j = r.dst + k /\ f.off + j = r.off + k
        BY <1>1, <3>1
      <3>3. Wants(r.dst + k) = Image(gen, r.off + k)
        BY <1>2 DEF BufRead
      <3> QED
        BY <3>2, <3>3
    <2> QED
      BY <2>1 DEF BufRead
  <1>3. CdSize \in Nat
    BY Sizes
  <1>4. ASSUME RawRead(r) PROVE RawRead(f)
    <2>1. PICK c \in Nat : c = First * CdSize
      BY <1>3
    <2> QED
      BY <1>1, <1>4, <2>1 DEF RawRead
  <1>5. ASSUME CacheRead(r) PROVE CacheRead(f)
    <2>1. PICK c : c = Missing(First, Count)[1] * CdSize
      OBVIOUS
    <2>2. /\ ~Wrapped => r.off = c + r.dst
          /\ r.dst + r.size = CD_CACHE_SIZE * CdSize
          /\ kind = "cd" /\ request[1] = "2352" /\ Count <= CD_CACHE_SIZE
      BY <1>5, <2>1 DEF CacheRead
    <2>3. ASSUME ~Wrapped PROVE f.off = c + f.dst
      <3>1. c \in Int
        <4>1. cached_cd_sector \in Nat \cup {None}
          BY <2>3
        <4>2. Missing(First, Count)[1] \in Int
          BY <4>1, Sizes DEF Missing, InCache
        <4> QED
          BY <1>3, <2>1, <4>2
      <3>2. r.off = c + r.dst
        BY <2>2, <2>3
      <3> QED
        BY <1>1, <3>1, <3>2
    <2>4. f.dst + f.size = CD_CACHE_SIZE * CdSize
      BY <1>1, <2>2
    <2> QED
      BY <2>1, <2>2, <2>3, <2>4 DEF CacheRead
  <1> QED
    BY <1>1, <1>2, <1>4, <1>5 DEF JobRight, f

\* A read leaves right jobs: the rest of a job reads the rest of what it should.
LEMMA FetchPlan ==
    ASSUME DiscInv, NEW n, NEW data, Fetch(n, data)
    PROVE  TodoType' /\ PlanInv'
  <1>1. TodoType /\ PlanInv /\ RequestOK /\ CacheInv
    BY DEF DiscInv
  <1>2. PlanKept /\ UNCHANGED status /\ status \in {"busy", "detect"}
        /\ todo[1].to # "move"
    BY DEF Fetch, PlanKept, Wrapped
  <1>3. TodoType'
    BY <1>1, <1>2, FetchTodo DEF TodoType
  <1>4. SUFFICES ASSUME status = "busy" PROVE PlanInv'
    BY <1>2, <1>3 DEF PlanInv
  <1>5. First \in Nat /\ (~Wrapped => cached_cd_sector \in Nat \cup {None})
    BY <1>1, <1>4 DEF RequestOK, First, CacheInv
  <1>6. JobRight(todo'[1])
    BY <1>1, <1>2, <1>4, <1>5, FetchTodo, FurtherRight DEF PlanInv
  <1>7. \A t \in DOMAIN todo' : JobRight(todo'[t])
    BY <1>1, <1>4, <1>6, FetchTodo DEF PlanInv
  <1>8. \A t \in DOMAIN todo' : JobRight(todo[t])'
    BY <1>2, <1>7, PlanSame
  <1>9. Order'
    <2>1. Order
      BY <1>1, <1>4 DEF PlanInv
    <2>2. ASSUME NEW t \in DOMAIN todo', todo'[t].to = "move"
          PROVE  \A s \in 1 .. t - 1 : Before(todo'[s], todo'[t])
      <3>1. t \in DOMAIN todo /\ t # 1 /\ todo'[t] = todo[t]
        BY <1>1, <1>2, <2>2, FetchTodo
      <3>2. \A s \in 1 .. t - 1 : s \in DOMAIN todo /\ Before(todo[s], todo[t])
        BY <1>1, <2>1, <2>2, <3>1, FetchTodo, TodoIs DEF Order, TodoType
      <3>3. ASSUME 1 \in 1 .. t - 1 PROVE Before(todo'[1], todo'[t])
        BY <1>1, <1>2, <3>2, <3>3, FetchTodo DEF Before
      <3> QED
        BY <1>1, <3>1, <3>2, <3>3, FetchTodo
    <2> QED
      BY <1>1, <2>1, <2>2, FetchTodo DEF Order
  <1> QED
    BY <1>8, <1>9 DEF PlanInv

\* The units a fetch puts in the buffer.
LEMMA FetchData ==
    ASSUME DiscInv, NEW n, NEW data, Fetch(n, data)
    PROVE  DataInv'
  <1>1. TodoType /\ PlanInv /\ RequestOK /\ DataInv /\ TodoType' /\ RoomInv
    BY FetchPlan DEF DiscInv
  <1>2. PlanKept /\ UNCHANGED status /\ status \in {"busy", "detect"}
        /\ todo[1].to # "move"
        /\ (faults' = {} => faults = {} /\ \A j \in 0 .. n - 1 :
               data[j] = Image(gen, todo[1].off + j))
        /\ DOMAIN data = 0 .. n - 1
    BY DEF Fetch, PlanKept, Wrapped
  <1>3. SUFFICES ASSUME faults' = {}, status = "busy" PROVE DataInv'
    BY <1>2 DEF DataInv
  <1>4. /\ \A i \in DOMAIN buf : Has(i)
        /\ \A t \in DOMAIN todo : todo[t].to = "move" =>
              \A j \in 0 .. todo[t].size - 1 : Source(todo[t].off + j)
        /\ \A t \in DOMAIN todo : JobRight(todo[t])
        /\ Order
        /\ \A i \in DOMAIN buf : i \in Nat
    BY <1>1, <1>2, <1>3 DEF DataInv, PlanInv, RequestOK
  <1>5. PICK r \in Job : r = todo[1]
    BY <1>1, FetchTodo
  <1>6. /\ r.off \in Nat /\ r.size \in Nat /\ r.dst \in Nat /\ n \in Nat /\ n <= r.size
        /\ r.to \in {"buf", "raw", "cache"}
    BY <1>1, <1>2, <1>5, FetchTodo, JobFields
  <1> DEFINE f == Further(r, n)
  <1>7. f = todo'[1] /\ f.dst = r.dst + n /\ f.size = r.size - n /\ f.to = r.to
    BY <1>1, <1>5, <1>6, FetchTodo, FurtherIs
  <1> HIDE DEF f
  <1>8. \A i \in Nat : Covers(r, i) => Covers(f, i) \/ i - r.dst \in 0 .. n - 1
    BY <1>6, <1>7 DEF Covers
  <1>9. NoRaw' <=> NoRaw
    BY <1>1, FetchTodo DEF NoRaw
  <1>10. /\ DOMAIN buf' = DOMAIN buf
         /\ \A i \in DOMAIN buf :
               buf'[i] = IF r.to # "cache" /\ i - r.dst \in 0 .. n - 1
                         THEN data[i - r.dst] ELSE buf[i]
    BY <1>2, <1>5, <1>6, PutIs DEF Fetch, PutTo
  <1>11. \A i \in DOMAIN buf : r.to # "cache" /\ i - r.dst \in 0 .. n - 1 =>
            buf'[i] = Image(gen, r.off + (i - r.dst))
    BY <1>2, <1>3, <1>5, <1>10
  <1>12. JobRight(r)
    BY <1>1, <1>4, <1>5, FetchTodo
  \* A unit that was to come is there, or is to come still.
  <1>13. ASSUME NEW i \in DOMAIN buf PROVE Has(i)'
    <2>1. CASE \E t \in DOMAIN todo : t # 1 /\ todo[t].to \in {"buf", "move"} /\ Covers(todo[t], i)
      <3>1. PICK t \in DOMAIN todo : t # 1 /\ todo[t].to \in {"buf", "move"} /\ Covers(todo[t], i)
        BY <2>1
      <3>2. t \in DOMAIN todo' /\ todo'[t] = todo[t]
        BY <1>1, <3>1, FetchTodo
      <3>3. todo'[t].to \in {"buf", "move"} /\ Covers(todo'[t], i)
        BY <3>1, <3>2
      <3>4. \E u \in DOMAIN todo' : todo'[u].to \in {"buf", "move"} /\ Covers(todo'[u], i)
        BY <3>2, <3>3
      <3> QED
        BY <3>4 DEF Has, Covers
    <2>2. CASE r.to = "buf"
      <3>1. NoRaw
        BY <1>1, <1>4, <1>5, <2>2, FetchTodo DEF NoRaw, Order
      <3>2. CASE Covers(f, i)
        <4>1. 1 \in DOMAIN todo' /\ todo'[1].to \in {"buf", "move"} /\ Covers(todo'[1], i)
          BY <1>1, <1>7, <2>2, <3>2, FetchTodo
        <4>2. \E u \in DOMAIN todo' : todo'[u].to \in {"buf", "move"} /\ Covers(todo'[u], i)
          BY <4>1
        <4> QED
          BY <4>2 DEF Has, Covers
      <3>3. CASE i - r.dst \in 0 .. n - 1
        <4>1. PICK j \in 0 .. n - 1 : j = i - r.dst
          BY <3>3
        <4>2. buf'[i] = Image(gen, r.off + j)
          BY <1>11, <2>2, <4>1
        <4>3. j \in 0 .. r.size - 1 /\ i = r.dst + j
          BY <1>4, <1>6, <4>1
        <4>4. Wants(i) = Image(gen, r.off + j)
          BY <1>12, <2>2, <4>3 DEF JobRight, BufRead
        <4>5. Wants(i)' = Wants(i)
          BY <1>2, PlanSame
        <4> QED
          BY <1>9, <3>1, <4>2, <4>4, <4>5 DEF Has
      <3>4. CASE ~Covers(f, i) /\ i - r.dst \notin 0 .. n - 1
        <4>1. ~Covers(r, i) /\ buf'[i] = buf[i]
          BY <1>4, <1>8, <1>10, <3>4
        <4>2. CASE buf[i] = Wants(i)
          BY <1>2, <1>9, <3>1, <4>1, <4>2, PlanSame DEF Has
        <4>3. CASE Filling
          BY <1>5, <2>2, <4>3 DEF Filling
        <4>4. CASE \E t \in DOMAIN todo : todo[t].to \in {"buf", "move"} /\ Covers(todo[t], i)
          BY <1>5, <2>1, <4>1, <4>4
        <4> QED
          BY <1>4, <4>2, <4>3, <4>4 DEF Has
      <3> QED
        BY <3>2, <3>3, <3>4
    <2>3. CASE r.to = "raw"
      <3>1. ~NoRaw /\ ~Filling
        BY <1>1, <1>5, <2>3, FetchTodo DEF NoRaw, Filling
      <3>2. \E t \in DOMAIN todo : todo[t].to \in {"buf", "move"} /\ Covers(todo[t], i)
        BY <1>4, <3>1 DEF Has
      <3> QED
        BY <1>5, <2>1, <2>3, <3>2
    <2>4. CASE r.to = "cache"
      <3>1. buf'[i] = buf[i]
        BY <1>10, <2>4
      <3>2. Filling /\ Filling' /\ NoRaw
        BY <1>1, <1>4, <1>5, <2>4, FetchTodo, TodoIs DEF Filling, NoRaw, Order, TodoType
      <3>3. Gap(i)' <=> Gap(i)
        BY <1>2, PlanSame
      <3>4. Wants(i)' = Wants(i)
        BY <1>2, PlanSame
      <3>5. CASE \E t \in DOMAIN todo : todo[t].to \in {"buf", "move"} /\ Covers(todo[t], i)
        BY <1>5, <2>1, <2>4, <3>5
      <3>6. CASE (NoRaw /\ buf[i] = Wants(i)) \/ (Filling /\ Gap(i))
        BY <1>9, <3>1, <3>2, <3>3, <3>4, <3>6 DEF Has
      <3> QED
        BY <1>4, <3>5, <3>6 DEF Has
    <2> QED
      BY <1>6, <2>2, <2>3, <2>4
  \* What is to be moved is there, or is to come still.
  <1>14. ASSUME NEW t \in DOMAIN todo', todo'[t].to = "move", NEW j \in 0 .. todo'[t].size - 1
         PROVE  Source(todo[t].off + j)'
    <2>1. t \in DOMAIN todo /\ t # 1 /\ todo'[t] = todo[t] /\ todo[t] \in Job /\ t \in Nat /\ t >= 1
      BY <1>1, <1>2, <1>14, FetchTodo, TodoIs DEF TodoType
    <2>2. PICK i \in Nat : i = todo[t].off + j /\ i = todo'[t].off + j
      BY <2>1, JobFields
    <2>3. Source(i)
      BY <1>4, <1>14, <2>1, <2>2
    <2>4. r.to = "raw"
      <3>1. 1 \in 1 .. t - 1
        BY <2>1
      <3> QED
        BY <1>2, <1>4, <1>5, <1>14, <2>1, <3>1 DEF Order, Before
    <2>5. RawRead(r)
      BY <1>12, <2>4 DEF JobRight
    <2>6. i \in DOMAIN buf
      <3>1. i \in Span(todo[t].off, todo[t].size)
        BY <1>14, <2>1, <2>2, JobFields DEF Span
      <3> QED
        BY <1>1, <1>14, <2>1, <3>1 DEF RoomInv
    <2>7. CASE Covers(f, i)
      <3>1. 1 \in DOMAIN todo' /\ todo'[1].to = "raw" /\ Covers(todo'[1], i)
        BY <1>1, <1>7, <2>4, <2>7, FetchTodo
      <3>2. \E u \in DOMAIN todo' : todo'[u].to = "raw" /\ Covers(todo'[u], i)
        BY <3>1
      <3>3. Source(i)'
        BY <3>2 DEF Source, Covers
      <3> QED
        BY <2>2, <3>3 DEF Source, Raw, Covers, First
    <2>8. CASE i - r.dst \in 0 .. n - 1
      <3>1. buf'[i] = Image(gen, r.off + (i - r.dst))
        BY <1>11, <2>4, <2>6, <2>8
      <3>2. r.off + (i - r.dst) = First * CdSize + i
        <4>1. PICK c \in Nat : c = First * CdSize
          BY <1>1, <1>3, Sizes DEF RequestOK, First
        <4> QED
          BY <1>6, <2>5, <4>1 DEF RawRead
      <3>3. Source(i)'
        BY <1>2, <3>1, <3>2, PlanSame DEF Source, Raw
      <3> QED
        BY <2>2, <3>3 DEF Source, Raw, Covers, First
    <2>9. CASE ~Covers(f, i) /\ i - r.dst \notin 0 .. n - 1
      <3>1. ~Covers(r, i) /\ buf'[i] = buf[i]
        BY <1>8, <1>10, <2>6, <2>9
      <3>2. ~(\E u \in DOMAIN todo : todo[u].to = "raw" /\ Covers(todo[u], i))
        BY <1>4, <1>5, <3>1 DEF Order
      <3>3. buf[i] = Raw(i)
        BY <2>3, <3>2 DEF Source
      <3>4. Source(i)'
        BY <1>2, <3>1, <3>3, PlanSame DEF Source
      <3> QED
        BY <2>2, <3>4 DEF Source, Raw, Covers, First
    <2> QED
      BY <2>7, <2>8, <2>9
  <1> QED
    BY <1>10, <1>13, <1>14 DEF DataInv

\* A read leaves the CD cache right up to where the fill has come.
LEMMA FetchCache ==
    ASSUME DiscInv, NEW n, NEW data, Fetch(n, data)
    PROVE  CacheInv'
  <1>1. TodoType /\ PlanInv /\ RequestOK /\ CacheInv /\ TodoType'
    BY FetchPlan DEF DiscInv
  <1>2. PlanKept /\ UNCHANGED status /\ status \in {"busy", "detect"}
        /\ todo[1].to # "move"
        /\ (faults' = {} => faults = {} /\ \A j \in 0 .. n - 1 :
               data[j] = Image(gen, todo[1].off + j))
        /\ DOMAIN data = 0 .. n - 1
    BY DEF Fetch, PlanKept, Wrapped
  <1>3. PICK r \in Job : r = todo[1]
    BY <1>1, FetchTodo
  <1>4. /\ r.off \in Nat /\ r.size \in Nat /\ r.dst \in Nat /\ n \in Nat /\ n <= r.size
    BY <1>1, <1>2, <1>3, FetchTodo, JobFields
  <1>5. todo'[1].dst = r.dst + n /\ todo'[1].to = r.to /\ todo' # << >> /\ todo # << >>
    <2>1. todo # << >>
      BY DEF Fetch
    <2>2. todo'[1] = Further(r, n) /\ todo' # << >>
      BY <1>1, <1>3, FetchTodo
    <2>3. Further(r, n).dst = r.dst + n /\ Further(r, n).to = r.to
      BY <1>4, FurtherIs
    <2> QED
      BY <2>1, <2>2, <2>3
  <1>6. CASE r.to # "cache"
    <2>1. cd_cache' = cd_cache
      BY <1>3, <1>6 DEF Fetch, PutTo
    <2>2. ~Filling /\ ~Filling'
      BY <1>3, <1>5, <1>6 DEF Filling
    <2> QED
      BY <1>1, <1>2, <2>1, <2>2 DEF CacheInv, PlanKept, Wrapped
  <1>7. CASE r.to = "cache"
    <2>1. Filling /\ Filling'
      BY <1>3, <1>5, <1>7 DEF Filling
    <2>2. CacheRead(r) /\ status = "busy"
      <3>1. 1 \in DOMAIN todo
        BY <1>1, FetchTodo
      <3>2. status = "busy"
        BY <1>1, <1>2, <1>3, <1>7, <3>1 DEF TodoType
      <3> QED
        BY <1>1, <1>3, <1>7, <3>1, <3>2 DEF PlanInv, JobRight
    <2>3. DOMAIN cd_cache' = DOMAIN cd_cache
          /\ \A i \in DOMAIN cd_cache :
               cd_cache'[i] = IF i - r.dst \in 0 .. n - 1 THEN data[i - r.dst] ELSE cd_cache[i]
      BY <1>2, <1>3, <1>4, <1>7, PutIs DEF Fetch, PutTo
    <2>4. SUFFICES ASSUME faults' = {}, NEW i \in DOMAIN cd_cache
                   PROVE  /\ cached_cd_sector # None /\ r.dst + n <= i =>
                                cd_cache'[i] = Image(gen, cached_cd_sector * CdSize + i)
                          /\ i < r.dst + n =>
                                cd_cache'[i] = Image(gen, Missing(First, Count)[1] * CdSize + i)
      BY <1>1, <1>2, <1>5, <2>1, <2>3, PlanSame DEF CacheInv, PlanKept, Wrapped
    <2>5. i \in Nat /\ (cached_cd_sector # None /\ r.dst <= i =>
                            cd_cache[i] = Image(gen, cached_cd_sector * CdSize + i))
          /\ (i < r.dst => cd_cache[i] = Image(gen, Missing(First, Count)[1] * CdSize + i))
      BY <1>1, <1>2, <1>3, <2>1, <2>4 DEF CacheInv
    <2>6. CASE r.dst + n <= i
      <3>1. i - r.dst \notin 0 .. n - 1 /\ r.dst <= i /\ ~(i < r.dst + n)
        BY <1>4, <2>5, <2>6
      <3> QED
        BY <2>3, <2>5, <3>1
    <2>7. CASE i < r.dst
      <3>1. i - r.dst \notin 0 .. n - 1 /\ ~(r.dst + n <= i)
        BY <1>4, <2>5, <2>7
      <3> QED
        BY <2>3, <2>5, <2>7, <3>1
    <2>8. CASE r.dst <= i /\ i < r.dst + n
      <3>1. PICK j \in 0 .. n - 1 : j = i - r.dst
        BY <1>4, <2>5, <2>8
      <3>2. cd_cache'[i] = Image(gen, r.off + j)
        BY <1>2, <1>3, <2>3, <2>4, <3>1
      <3>3. PICK c : c = Missing(First, Count)[1] * CdSize
        OBVIOUS
      <3>4. r.off = c + r.dst /\ c \in Int
        <4>3. ~Wrapped
          BY <1>2, <2>4 DEF Wrapped
        <4>1. r.off = c + r.dst
          BY <2>2, <3>3, <4>3 DEF CacheRead
        <4>2. First \in Nat /\ Count \in Nat /\ cached_cd_sector \in Int /\ CdSize \in Nat
              /\ CD_CACHE_SIZE \in Nat
          BY <1>1, <2>2, <4>3, Sizes DEF RequestOK, First, Count, CacheInv, None
        <4> QED
          BY <3>3, <4>1, <4>2 DEF Missing, Overlap
      <3>5. r.off + j = c + i
        BY <1>4, <2>5, <3>1, <3>4
      <3>6. ~(r.dst + n <= i)
        BY <1>4, <2>5, <2>8
      <3> QED
        BY <3>2, <3>3, <3>5, <3>6
    <2> QED
      BY <1>4, <2>5, <2>6, <2>7, <2>8
  <1> QED
    BY <1>6, <1>7

\* A fetch leaves the buffers' sizes, and what is to come in them.
LEMMA FetchRoom ==
    ASSUME DiscInv, NEW n, NEW data, Fetch(n, data)
    PROVE  RequestOK' /\ RoomInv'
  <1>1. TodoType /\ RequestOK /\ RoomInv
    BY DEF DiscInv
  <1>2. PlanKept /\ UNCHANGED status /\ todo[1].to # "move" /\ PutTo(todo[1], data)
    BY DEF Fetch, PlanKept, Wrapped
  <1>3. DOMAIN buf' = DOMAIN buf /\ DOMAIN cd_cache' = DOMAIN cd_cache
    <2>1. todo[1].dst \in Nat
      BY <1>1, FetchTodo, JobFields
    <2> QED
      BY <1>2, <2>1, PutIs DEF PutTo
  <1>4. RequestOK'
    BY <1>1, <1>2, <1>3 DEF RequestOK, PlanKept, Wrapped, Count
  <1>5. ASSUME NEW t \in DOMAIN todo'
        PROVE  /\ (todo'[t].dst .. todo'[t].dst + todo'[t].size - 1)
                     \subseteq DOMAIN (IF todo'[t].to = "cache" THEN cd_cache' ELSE buf')
               /\ todo'[t].to = "move" =>
                     Span(todo'[t].off, todo'[t].size) \subseteq DOMAIN buf'
    <2>1. t \in DOMAIN todo /\ todo'[t].to = todo[t].to /\ todo[t] \in Job
      BY <1>1, <1>5, FetchTodo, TodoIs DEF TodoType
    <2>2. /\ (todo[t].dst .. todo[t].dst + todo[t].size - 1)
                \subseteq DOMAIN (IF todo[t].to = "cache" THEN cd_cache ELSE buf)
          /\ todo[t].to = "move" => Span(todo[t].off, todo[t].size) \subseteq DOMAIN buf
      BY <1>1, <2>1 DEF RoomInv, Within
    <2>3. CASE t # 1
      BY <1>1, <1>3, <2>1, <2>2, <2>3, FetchTodo
    <2>4. CASE t = 1
      <3>1. PICK r \in Job : r = todo[1]
        BY <2>1, <2>4
      <3>2. todo'[1].dst = r.dst + n /\ todo'[1].size = r.size - n /\ n \in Nat /\ n <= r.size
        BY <1>1, <3>1, FetchTodo, FurtherIs
      <3>3. (r.dst + n) .. (r.dst + n) + (r.size - n) - 1 \subseteq r.dst .. r.dst + r.size - 1
        BY <3>2, JobFields
      <3> QED
        BY <1>2, <1>3, <2>1, <2>2, <2>4, <3>1, <3>2, <3>3
    <2> QED
      BY <2>3, <2>4
  <1> QED
    BY <1>4, <1>5 DEF RoomInv, Within, Span

\* A read keeps the invariant.
LEMMA ReadsKeep == ASSUME DiscInv, Nothing \/ ReadPartial \/ ReadWhole PROVE DiscInv'
  <1>1. PICK n, data : Fetch(n, data)
    BY ReadsFetch DEF DiscInv, TodoType
  <1>2. TodoType' /\ PlanInv'
    BY <1>1, FetchPlan
  <1>3. DataInv'
    BY <1>1, FetchData
  <1>4. CacheInv'
    BY <1>1, FetchCache
  <1>5. RequestOK' /\ RoomInv'
    BY <1>1, FetchRoom
  <1> QED
    BY <1>2, <1>3, <1>4, <1>5 DEF DiscInv

(***************************************************************************)
(* The other steps, but for those of the CD cache and the commands.        *)
(***************************************************************************)

\* Where nothing is left to do, an answer is to be the image already.
LEMMA NothingToDo ==
    ASSUME TodoType, todo = << >>
    PROVE  DOMAIN todo = {} /\ NoRaw /\ ~Filling
  BY DEF NoRaw, Filling

\* The answer of a command keeps the invariant.
LEMMA AnswerKeeps == ASSUME DiscInv, Answer PROVE DiscInv'
  <1>1. /\ todo = << >> /\ todo' = << >> /\ PlanKept /\ UNCHANGED <<buf, cd_cache, faults>>
        /\ status = "busy" => status' = "ok"
        /\ status = "detect" => status' = "idle"
        /\ status \in {"busy", "detect"}
    BY DEF Answer, PlanKept, Wrapped, cacheVars
  <1>2. TodoType' /\ RequestOK'
    BY <1>1 DEF DiscInv, TodoType, RequestOK, PlanKept, Wrapped, Count
  <1>3. PlanInv'
    BY <1>1 DEF PlanInv
  <1>4. DataInv'
    <2>1. SUFFICES ASSUME faults = {}, status = "busy" PROVE DataInv'
      BY <1>1 DEF DataInv
    <2>2. ASSUME NEW i \in DOMAIN buf PROVE Has(i)'
      <3>1. Has(i) /\ DOMAIN todo = {} /\ ~Filling /\ NoRaw'
        BY <1>1, <2>1, NothingToDo DEF DiscInv, DataInv, NoRaw
      <3>2. buf[i] = Wants(i)
        BY <3>1 DEF Has
      <3>3. Wants(i)' = Wants(i)
        BY <1>1, PlanSame
      <3> QED
        BY <1>1, <3>1, <3>2, <3>3 DEF Has
    <2> QED
      BY <1>1, <2>2 DEF DataInv
  <1>5. CacheInv' /\ RoomInv'
    BY <1>1 DEF DiscInv, CacheInv, RoomInv, Within, Filling, PlanKept, Wrapped
  <1> QED
    BY <1>2, <1>3, <1>4, <1>5 DEF DiscInv

\* So does the end of the command.
LEMMA OverKeeps == ASSUME DiscInv, Over PROVE DiscInv'
  <1>1. /\ todo = << >> /\ todo' = << >> /\ status' = "idle"
        /\ UNCHANGED <<kind, gen, cached_cd_sector, cd_cache, faults>>
    BY DEF Over, DiscInv, TodoType, cacheVars
  <1>2. TodoType' /\ RequestOK' /\ PlanInv' /\ DataInv' /\ RoomInv'
    BY <1>1 DEF DiscInv, TodoType, RequestOK, PlanInv, DataInv, RoomInv, Within
  <1>3. CacheInv'
    BY <1>1 DEF DiscInv, CacheInv, Filling, Wrapped
  <1> QED
    BY <1>2, <1>3 DEF DiscInv

\* So does another device, which the eject thread opens between commands.
LEMMA ReplaceKeeps == ASSUME DiscInv, Replace PROVE DiscInv'
  <1>1. /\ kind \in {"psx2352", "psx2048"} /\ status' = "idle" /\ status = "idle"
        /\ UNCHANGED <<kind, todo, buf, cached_cd_sector, cd_cache, faults>>
    BY DEF Replace, cacheVars
  <1>2. todo = << >> /\ todo' = << >> /\ cached_cd_sector = None /\ cached_cd_sector' = None
    BY <1>1 DEF DiscInv, TodoType, CacheInv
  <1>3. TodoType' /\ RequestOK' /\ PlanInv' /\ DataInv' /\ RoomInv'
    BY <1>1, <1>2 DEF DiscInv, TodoType, RequestOK, PlanInv, DataInv, RoomInv, Within
  <1>4. CacheInv'
    BY <1>1, <1>2 DEF DiscInv, CacheInv, Filling
  <1> QED
    BY <1>3, <1>4 DEF DiscInv

\* A new buffer has the units asked for.
LEMMA BufferIs == ASSUME NEW n PROVE DOMAIN Buffer(n) = 0 .. n - 1
  BY DEF Buffer

\* What the plugin starts with.
Begins == /\ kind \in Kinds /\ faults = {} /\ cached_cd_sector = None
          /\ cd_cache = Buffer(CD_CACHE_SIZE * CdSize) /\ Start(kind, status, buf, todo)

\* The invariant holds where the plugin starts, whatever the image's kind.
LEMMA BeginsRight == Begins => DiscInv
  <1>1. SUFFICES ASSUME Begins PROVE DiscInv
    OBVIOUS
  <1>2. /\ status \in {"detect", "idle"} /\ kind \in Kinds /\ cached_cd_sector = None
        /\ DOMAIN cd_cache = 0 .. CD_CACHE_SIZE * CdSize - 1
    BY <1>1, BufferIs DEF Begins, Start
  <1>3. \/ todo = << >> /\ status = "idle"
        \/ /\ todo = <<Reading(0, DetectSize, 0, "buf")>> /\ buf = Buffer(DetectSize)
           /\ status = "detect"
    BY <1>1 DEF Begins, Start
  <1>4. /\ todo \in Jobs
        /\ \A t \in DOMAIN todo : todo[t] = Reading(0, DetectSize, 0, "buf")
        /\ todo # << >> => buf = Buffer(DetectSize) /\ status = "detect"
    <2>1. Reading(0, DetectSize, 0, "buf") \in Job
      BY Sizes DEF Job, Reading
    <2>2. CASE todo = << >>
      BY <2>2 DEF Jobs
    <2>3. CASE todo # << >>
      <3>1. PICK r \in Job : r = Reading(0, DetectSize, 0, "buf")
        BY <2>1
      <3>2. todo = <<r>>
        BY <1>3, <2>3, <3>1
      <3>3. <<r>> \in Seq(Job) /\ DOMAIN <<r>> = {1} /\ <<r>>[1] = r
        OBVIOUS
      <3> QED
        BY <1>3, <2>3, <3>1, <3>2, <3>3 DEF Jobs
    <2> QED
      BY <2>2, <2>3
  <1>5. \A t \in DOMAIN todo : todo[t].to = "buf" /\ todo[t].dst = 0 /\ todo[t].size = DetectSize
    BY <1>4 DEF Reading
  <1>6. TodoType
    BY <1>2, <1>3, <1>4, <1>5 DEF TodoType
  <1>7. RequestOK /\ PlanInv /\ DataInv
    BY <1>2 DEF RequestOK, PlanInv, DataInv
  <1>8. ~Filling
    BY <1>4, <1>5 DEF Filling, Jobs
  <1>9. CacheInv
    BY <1>2, <1>8 DEF CacheInv
  <1>10. RoomInv
    <2>1. ASSUME NEW t \in DOMAIN todo
          PROVE  /\ (todo[t].dst .. todo[t].dst + todo[t].size - 1)
                       \subseteq DOMAIN (IF todo[t].to = "cache" THEN cd_cache ELSE buf)
                 /\ todo[t].to # "move"
      <3>1. todo # << >>
        BY <2>1
      <3>2. DOMAIN buf = 0 .. DetectSize - 1
        BY <1>4, <3>1, BufferIs
      <3> QED
        BY <1>5, <2>1, <3>2, Sizes
    <2> QED
      BY <2>1 DEF RoomInv, Within
  <1> QED
    BY <1>6, <1>7, <1>9, <1>10 DEF DiscInv

\* A plugin that is loaded again starts within the invariant.
LEMMA ReloadKeeps == ASSUME DiscInv, Reload PROVE DiscInv'
  <1>1. Begins'
    BY DEF Reload, Begins, DiscInv, RequestOK, Start
  <1>2. Begins' => DiscInv'
    BY BeginsRight, PTL
  <1> QED
    BY <1>1, <1>2

\* What a failed read of the device leaves behind is the answer of no command without
\* a hazard of faults, and a CD cache that is right: one it has written to has a hazard.
LEMMA DeviceFailsKeeps == ASSUME DiscInv, DeviceFails PROVE DiscInv'
  <1>1. /\ TodoType /\ RequestOK /\ PlanInv /\ CacheInv /\ RoomInv
        /\ todo \in Jobs
    BY DEF DiscInv, TodoType
  <1>2. PICK at \in Reads : \E n \in Arrived(at) :
            /\ Whole(at) \/ Partial(at)
            /\ PutTo(Cur, Content(Sector(at), n))
            /\ faults' = faults \cup (IF Ignored THEN {"ignored"} ELSE {})
                                \cup (IF Torn(n) THEN {"torn"} ELSE {})
    BY DEF DeviceFails
  <1>3. /\ todo # << >> /\ status \in {"busy", "detect"} /\ todo[1].to # "move" /\ Cur = todo[1]
    BY <1>1, <1>2, ReadsAre
  <1>7. PICK n \in Nat :
            /\ PutTo(todo[1], Content(Sector(at), n))
            /\ faults' = faults \cup (IF Ignored THEN {"ignored"} ELSE {})
                                \cup (IF Torn(n) THEN {"torn"} ELSE {})
    <2>1. \A n \in Arrived(at) : n \in Nat
      BY DEF Arrived
    <2> QED
      BY <1>2, <1>3, <2>1
  <1>8. todo[1].dst \in Nat
    BY <1>1, <1>3, TodoIs, JobFields
  <1>9. /\ DOMAIN buf' = DOMAIN buf /\ DOMAIN cd_cache' = DOMAIN cd_cache
        /\ todo[1].to # "cache" => cd_cache' = cd_cache
        /\ todo[1].to = "cache" => cd_cache' = Put(cd_cache, todo[1].dst, Content(Sector(at), n))
    BY <1>7, <1>8, PutIs DEF PutTo
  <1>4. /\ todo' = IF Ignored THEN
                    [todo EXCEPT ![1] = Reading(todo[1].off, 0, todo[1].dst, todo[1].to)]
                   ELSE << >>
        /\ status' = CASE Ignored -> "busy" [] status = "detect" -> "idle" [] OTHER -> "failed"
        /\ UNCHANGED <<kind, gen, request, cached_cd_sector>>
    BY <1>3 DEF DeviceFails
  <1>10. PlanKept
    BY <1>4, <1>7 DEF PlanKept, Wrapped
  <1>5. CASE ~Ignored
    <2>1. todo' = << >> /\ status' \in {"idle", "failed"}
      BY <1>3, <1>4, <1>5
    <2>2. TodoType' /\ RequestOK'
      <3>1. << >> \in Jobs
        BY DEF Jobs
      <3> QED
        BY <1>1, <1>4, <2>1, <3>1 DEF TodoType, RequestOK
    <2>4. PlanInv' /\ DataInv' /\ RoomInv'
      BY <2>1 DEF PlanInv, DataInv, RoomInv, Within
    <2>3. CacheInv'
      <3>1. SUFFICES ASSUME faults' = {}, cached_cd_sector # None, NEW i \in DOMAIN cd_cache
                     PROVE  cd_cache'[i] = Image(gen, cached_cd_sector * CdSize + i)
        BY <1>1, <1>4, <1>9, <1>10, <2>1 DEF CacheInv, Filling, PlanKept
      <3>2. faults = {} /\ ~(todo[1].to = "cache" /\ (todo[1].dst > 0 \/ n > 0))
        BY <1>3, <1>7, <3>1 DEF Torn
      <3>3. i \in Nat
        BY <1>1, <3>1 DEF CacheInv
      <3>4. Filling => todo[1].dst <= i
        BY <1>8, <3>2, <3>3 DEF Filling
      <3>5. cd_cache'[i] = cd_cache[i]
        <4>1. CASE todo[1].to = "cache"
          <5>1. n = 0 /\ SectorSize \in Nat
            BY <1>7, <3>2, <4>1, Sizes
          <5>2. DOMAIN Content(Sector(at), n) = {}
            BY <5>1 DEF Content
          <5> QED
            BY <1>8, <1>9, <3>1, <4>1, <5>2, PutIs
        <4>2. CASE todo[1].to # "cache"
          BY <1>9, <4>2
        <4> QED
          BY <4>1, <4>2
      <3> QED
        BY <1>1, <3>1, <3>2, <3>4, <3>5 DEF CacheInv
    <2> QED
      BY <2>2, <2>3, <2>4 DEF DiscInv
  \* process_read_cd_2048_cmd goes on, and the command is no longer without a fault.
  <1>6. CASE Ignored
    <2>1. status = "busy" /\ status' = "busy" /\ faults' # {} /\ kind = "cd" /\ request[1] = "2048"
      BY <1>4, <1>6, <1>7 DEF Ignored
    <2>2. PICK r \in Job : r = todo[1]
      BY <1>1, <1>3, TodoIs
    <2>3. PICK f \in Job : f = Reading(r.off, 0, r.dst, r.to)
      <3>1. r.off \in Nat /\ 0 \in Nat /\ r.dst \in Nat /\ r.to \in {"buf", "raw", "cache", "move"}
        BY <2>2, JobFields
      <3> QED
        BY <3>1, ReadingIs
    <2>4. /\ todo' \in Jobs /\ todo' # << >> /\ DOMAIN todo' = DOMAIN todo /\ todo'[1] = f
          /\ Len(todo') = Len(todo) /\ \A t \in DOMAIN todo : t # 1 => todo'[t] = todo[t]
      BY <1>1, <1>3, <1>4, <1>6, <2>2, <2>3, FirstIs
    <2>5. f.off = r.off /\ f.size = 0 /\ f.dst = r.dst /\ f.to = r.to /\ r.to # "move"
      BY <1>3, <2>2, <2>3 DEF Reading
    <2>6. TodoType' /\ RequestOK'
      BY <1>1, <1>4, <1>9, <2>1, <2>4 DEF TodoType, RequestOK, Count
    <2>7. DataInv'
      BY <2>1 DEF DataInv
    <2>8. todo[1].to # "cache"
      BY <1>1, <1>3, <2>1, TodoIs DEF PlanInv, JobRight, CacheRead
    <2>9. CacheInv'
      BY <1>1, <1>4, <1>9, <1>10, <2>1, <2>8 DEF CacheInv, PlanKept
    <2>10. \A t \in DOMAIN todo : todo'[t].to = todo[t].to /\ t \in Nat
      BY <1>1, <2>2, <2>4, <2>5, TodoIs
    <2>11. PlanInv'
      <3>1. (\A t \in DOMAIN todo : JobRight(todo[t])) /\ Order
        BY <1>1, <2>1 DEF PlanInv
      <3>2. JobRight(f)
        <4>1. JobRight(r)
          BY <1>1, <1>3, <2>2, <3>1, TodoIs
        <4>2. r.to # "cache"
          BY <2>2, <2>8
        <4> QED
          BY <2>5, <4>1, <4>2 DEF JobRight, BufRead, RawRead
      <3>3. \A t \in DOMAIN todo' : JobRight(todo'[t])
        BY <2>2, <2>4, <3>1, <3>2
      <3>4. \A t \in DOMAIN todo' : JobRight(todo[t])'
        BY <1>10, <3>3, PlanSame
      <3>5. ASSUME NEW t \in DOMAIN todo'
            PROVE  /\ todo'[t].to = "raw" => t = 1
                   /\ todo'[t].to = "cache" => Len(todo') = 1
                   /\ todo'[t].to = "move" => \A s \in 1 .. t - 1 : Before(todo'[s], todo'[t])
        <4>1. CASE todo'[t].to = "move"
          <5>1. t # 1 /\ todo'[t] = todo[t] /\ t \in DOMAIN todo
            BY <2>2, <2>4, <2>5, <3>5, <4>1
          <5>2. ASSUME NEW s \in 1 .. t - 1 PROVE Before(todo'[s], todo'[t])
            <6>1. s \in DOMAIN todo /\ Before(todo[s], todo[t])
              BY <1>1, <3>1, <4>1, <5>1, <5>2, TodoIs DEF Order
            <6>2. s # 1 => todo'[s] = todo[s]
              BY <2>4, <6>1
            <6>3. s = 1 => Before(f, todo[t])
              BY <2>2, <2>5, <6>1 DEF Before
            <6> QED
              BY <2>4, <5>1, <6>1, <6>2, <6>3
          <5> QED
            BY <4>1, <5>2
        <4>2. CASE todo'[t].to # "move"
          BY <2>4, <2>10, <3>1, <3>5, <4>2 DEF Order
        <4> QED
          BY <4>1, <4>2
      <3>6. Order'
        BY <3>5 DEF Order, Before
      <3> QED
        BY <3>4, <3>6 DEF PlanInv
    <2>12. RoomInv'
      <3>1. ASSUME NEW t \in DOMAIN todo'
            PROVE  /\ (todo'[t].dst .. todo'[t].dst + todo'[t].size - 1)
                         \subseteq DOMAIN (IF todo'[t].to = "cache" THEN cd_cache' ELSE buf')
                   /\ todo'[t].to = "move" =>
                         Span(todo'[t].off, todo'[t].size) \subseteq DOMAIN buf'
        <4>1. CASE t # 1
          BY <1>1, <1>9, <2>4, <3>1, <4>1 DEF RoomInv, Within
        <4>2. CASE t = 1
          <5>1. todo'[t].to # "move" /\ todo'[t].dst \in Nat /\ todo'[t].size = 0
            BY <2>4, <2>5, <4>2, JobFields
          <5>2. todo'[t].dst .. todo'[t].dst + 0 - 1 = {}
            BY <5>1
          <5> QED
            BY <5>1, <5>2
        <4> QED
          BY <4>1, <4>2
      <3> QED
        BY <3>1 DEF RoomInv, Within, Span
    <2> QED
      BY <2>6, <2>7, <2>9, <2>11, <2>12 DEF DiscInv
  <1> QED
    BY <1>5, <1>6

\* A job is done, and the next comes up.
LEMMA JobOver ==
    ASSUME DiscInv, todo # << >>, todo' = Tail(todo), PlanKept, UNCHANGED status,
           DOMAIN buf' = DOMAIN buf, DOMAIN cd_cache' = DOMAIN cd_cache
    PROVE  TodoType' /\ RequestOK' /\ PlanInv' /\ RoomInv' /\ ~Filling'
           /\ status \in {"busy", "detect"}
  <1>1. TodoType /\ RequestOK /\ PlanInv /\ RoomInv /\ todo \in Jobs
    BY DEF DiscInv, TodoType
  <1>2. /\ todo' \in Jobs /\ Len(todo') = Len(todo) - 1 /\ Len(todo) \in Nat
        /\ \A t \in DOMAIN todo' :
               t \in Nat /\ t >= 1 /\ t + 1 \in DOMAIN todo /\ todo'[t] = todo[t + 1]
        /\ DOMAIN todo' = 1 .. Len(todo')
        /\ todo' # << >> => 1 \in DOMAIN todo'
    <2>1. todo' \in Jobs /\ Len(todo') = Len(todo) - 1
          /\ \A t \in DOMAIN todo' : t + 1 \in DOMAIN todo /\ todo'[t] = todo[t + 1]
      BY <1>1, TailIs
    <2>2. DOMAIN todo' = 1 .. Len(todo') /\ Len(todo') \in Nat
      BY <2>1 DEF Jobs
    <2>3. todo' # << >> => Len(todo') # 0
      BY <2>1 DEF Jobs
    <2> QED
      BY <1>1, <2>1, <2>2, <2>3, TodoIs
  <1>3. status \in {"busy", "detect"}
    BY <1>1 DEF DiscInv, TodoType, RequestOK
  <1>4. TodoType' /\ RequestOK'
    BY <1>1, <1>2, <1>3 DEF TodoType, RequestOK, PlanKept, Wrapped, Count
  <1>5. \A t \in DOMAIN todo' : todo'[t].to # "cache" /\ (status = "busy" => todo'[t].to # "raw")
    BY <1>1, <1>2, <1>3 DEF TodoType, PlanInv, Order
  <1>6. ~Filling'
    BY <1>2, <1>5 DEF Filling
  <1>7. ASSUME status = "busy" PROVE (\A t \in DOMAIN todo' : JobRight(todo[t])') /\ Order'
    <2>1. (\A t \in DOMAIN todo : JobRight(todo[t])) /\ Order
      BY <1>1, <1>7 DEF PlanInv
    <2>2. \A t \in DOMAIN todo' : JobRight(todo'[t])
      BY <1>2, <2>1
    <2>3. ASSUME NEW t \in DOMAIN todo', todo'[t].to = "move", NEW s \in 1 .. t - 1
          PROVE  Before(todo'[s], todo'[t])
      <3>1. s \in DOMAIN todo' /\ t + 1 \in DOMAIN todo /\ todo'[t] = todo[t + 1]
        BY <1>2, <2>3
      <3>2. todo'[s] = todo[s + 1] /\ s + 1 \in 1 .. (t + 1) - 1
        BY <1>2, <2>3, <3>1
      <3>3. Before(todo[s + 1], todo[t + 1])
        BY <2>1, <2>3, <3>1, <3>2 DEF Order
      <3> QED
        BY <3>1, <3>2, <3>3
    <2>4. Order'
      BY <1>5, <1>7, <2>3 DEF Order, Before
    <2> QED
      BY <2>2, <2>4, PlanSame
  <1>8. PlanInv'
    BY <1>7 DEF PlanInv
  <1>9. RoomInv'
    <2>1. ASSUME NEW t \in DOMAIN todo'
          PROVE  /\ (todo'[t].dst .. todo'[t].dst + todo'[t].size - 1)
                       \subseteq DOMAIN (IF todo'[t].to = "cache" THEN cd_cache' ELSE buf')
                 /\ todo'[t].to = "move" =>
                       Span(todo'[t].off, todo'[t].size) \subseteq DOMAIN buf'
      BY <1>1, <1>2, <2>1 DEF RoomInv, Within
    <2> QED
      BY <2>1 DEF RoomInv, Within, Span
  <1> QED
    BY <1>3, <1>4, <1>6, <1>8, <1>9

\* A job that is done, other than a fill of the CD cache, keeps the invariant.
LEMMA ReadOverKeeps == ASSUME DiscInv, ReadOver, todo[1].to # "cache" PROVE DiscInv'
  <1>1. /\ TodoType /\ RequestOK /\ PlanInv /\ CacheInv /\ DataInv /\ todo \in Jobs
        /\ todo # << >>
    BY DEF DiscInv, TodoType, ReadOver
  <1>2. 1 \in DOMAIN todo /\ Cur = todo[1] /\ todo[1] \in Job
    BY <1>1, TodoIs
  <1>3. /\ todo[1].to # "move" /\ todo[1].size = 0 /\ todo' = Tail(todo)
        /\ PlanKept /\ UNCHANGED <<status, buf, cd_cache, faults>>
    BY <1>2 DEF ReadOver, PlanKept, Wrapped
  <1>4. TodoType' /\ RequestOK' /\ PlanInv' /\ RoomInv' /\ ~Filling'
        /\ status \in {"busy", "detect"}
    BY <1>1, <1>3, JobOver
  <1>5. ~Filling
    BY DEF Filling
  <1>6. CacheInv'
    BY <1>1, <1>3, <1>4, <1>5 DEF CacheInv, PlanKept, Wrapped
  <1>7. DataInv'
    <2>1. SUFFICES ASSUME faults = {}, status = "busy" PROVE DataInv'
      BY <1>3, <1>4 DEF DataInv
    <2>2. /\ \A i \in DOMAIN buf : Has(i) /\ i \in Nat
          /\ \A t \in DOMAIN todo : todo[t].to = "move" =>
                \A j \in 0 .. todo[t].size - 1 : Source(todo[t].off + j)
          /\ Order
      BY <1>1, <2>1 DEF DataInv, PlanInv, RequestOK
    <2>3. \A i \in Nat : ~Covers(todo[1], i)
      BY <1>2, <1>3, JobFields DEF Covers
    <2>4. /\ \A t \in DOMAIN todo' : t + 1 \in DOMAIN todo /\ todo'[t] = todo[t + 1]
          /\ \A t \in DOMAIN todo :
                 t # 1 => t - 1 \in DOMAIN todo' /\ t \in Nat /\ todo'[t - 1] = todo[t]
      <3>1. /\ todo' \in Jobs
            /\ \A t \in DOMAIN todo' : t + 1 \in DOMAIN todo /\ todo'[t] = todo[t + 1]
            /\ \A t \in DOMAIN todo : t # 1 => t - 1 \in DOMAIN todo'
        BY <1>1, <1>3, TailIs
      <3>2. \A t \in DOMAIN todo : t \in Nat
        BY <1>1, TodoIs
      <3>3. \A t \in Nat : (t - 1) + 1 = t
        OBVIOUS
      <3> QED
        BY <3>1, <3>2, <3>3
    <2>5. ASSUME NEW i \in DOMAIN buf PROVE Has(i)'
      <3>1. CASE \E t \in DOMAIN todo : todo[t].to \in {"buf", "move"} /\ Covers(todo[t], i)
        <4>1. PICK t \in DOMAIN todo : todo[t].to \in {"buf", "move"} /\ Covers(todo[t], i)
          BY <3>1
        <4>2. t # 1
          BY <2>2, <2>3, <2>5, <4>1
        <4>3. PICK u \in DOMAIN todo' : todo'[u] = todo[t]
          BY <2>4, <4>2
        <4>4. \E v \in DOMAIN todo' : todo'[v].to \in {"buf", "move"} /\ Covers(todo'[v], i)
          BY <4>1, <4>3
        <4> QED
          BY <4>4 DEF Has, Covers
      <3>2. CASE NoRaw /\ buf[i] = Wants(i)
        <4>1. NoRaw'
          BY <2>4, <3>2 DEF NoRaw
        <4> QED
          BY <1>3, <3>2, <4>1, PlanSame DEF Has
      <3> QED
        BY <1>5, <2>2, <3>1, <3>2 DEF Has
    <2>6. ASSUME NEW t \in DOMAIN todo', todo'[t].to = "move", NEW j \in 0 .. todo'[t].size - 1
          PROVE  Source(todo[t].off + j)'
      <3>1. t + 1 \in DOMAIN todo /\ todo'[t] = todo[t + 1] /\ todo[t + 1] \in Job
        BY <1>1, <2>4, <2>6, TodoIs
      <3>2. PICK i \in Nat : i = todo[t + 1].off + j /\ i = todo'[t].off + j
        BY <2>6, <3>1, JobFields
      <3>3. Source(i)
        BY <2>2, <2>6, <3>1, <3>2
      <3>4. buf[i] = Raw(i)
        BY <1>2, <2>2, <2>3, <3>2, <3>3 DEF Source, Order
      <3>5. buf'[i] = Raw(i)'
        BY <1>3, <3>4, PlanSame
      <3> QED
        BY <3>2, <3>5 DEF Source, Raw, First
    <2> QED
      BY <1>3, <2>5, <2>6 DEF DataInv
  <1> QED
    BY <1>4, <1>6, <1>7 DEF DiscInv

\* A move takes what is in its place in the raw sectors to where the answer wants it, and
\* leaves alone what the moves after it take.
LEMMA MoveKeeps == ASSUME DiscInv, Move PROVE DiscInv'
  <1>1. /\ TodoType /\ RequestOK /\ PlanInv /\ CacheInv /\ DataInv /\ RoomInv /\ todo \in Jobs
        /\ todo # << >>
    BY DEF DiscInv, TodoType, Move
  <1>2. 1 \in DOMAIN todo /\ Cur = todo[1] /\ todo[1] \in Job
    BY <1>1, TodoIs
  <1>3. PICK r \in Job : r = todo[1]
    BY <1>2
  <1>4. /\ r.to = "move" /\ todo' = Tail(todo)
        /\ buf' = Put(buf, r.dst, [i \in 0 .. r.size - 1 |-> buf[r.off + i]])
        /\ PlanKept /\ UNCHANGED <<status, cd_cache, faults>>
    BY <1>2, <1>3 DEF Move, PlanKept, Wrapped, cacheVars
  <1>5. /\ r.off \in Nat /\ r.size \in Nat /\ r.dst \in Nat
    BY JobFields
  <1>6. /\ DOMAIN buf' = DOMAIN buf
        /\ \A i \in DOMAIN buf :
              buf'[i] = IF i - r.dst \in 0 .. r.size - 1 THEN buf[r.off + (i - r.dst)] ELSE buf[i]
    BY <1>4, <1>5, PutIs
  <1>7. TodoType' /\ RequestOK' /\ PlanInv' /\ RoomInv' /\ ~Filling'
        /\ status \in {"busy", "detect"}
    BY <1>1, <1>4, <1>6, JobOver
  <1>8. ~Filling /\ status = "busy"
    BY <1>1, <1>2, <1>3, <1>4, <1>7 DEF Filling, TodoType
  <1>9. CacheInv'
    BY <1>1, <1>4, <1>7, <1>8 DEF CacheInv, PlanKept, Wrapped
  <1>10. DataInv'
    <2>1. SUFFICES ASSUME faults = {} PROVE DataInv'
      BY <1>4 DEF DataInv
    <2>2. /\ \A i \in DOMAIN buf : Has(i) /\ i \in Nat
          /\ \A t \in DOMAIN todo : todo[t].to = "move" =>
                \A j \in 0 .. todo[t].size - 1 : Source(todo[t].off + j)
          /\ Order /\ JobRight(r)
      BY <1>1, <1>2, <1>3, <1>8, <2>1 DEF DataInv, PlanInv, RequestOK
    <2>3. NoRaw
      BY <1>3, <1>4, <2>2 DEF NoRaw, Order
    <2>4. /\ \A t \in DOMAIN todo' : t + 1 \in DOMAIN todo /\ todo'[t] = todo[t + 1]
          /\ \A t \in DOMAIN todo' : 1 \in 1 .. (t + 1) - 1
          /\ \A t \in DOMAIN todo :
                 t # 1 => t - 1 \in DOMAIN todo' /\ t \in Nat /\ todo'[t - 1] = todo[t]
      <3>1. /\ todo' \in Jobs
            /\ \A t \in DOMAIN todo' : t + 1 \in DOMAIN todo /\ todo'[t] = todo[t + 1]
            /\ \A t \in DOMAIN todo : t # 1 => t - 1 \in DOMAIN todo'
        BY <1>1, <1>4, TailIs
      <3>2. \A t \in DOMAIN todo : t \in Nat
        BY <1>1, TodoIs
      <3>3. \A t \in Nat : (t - 1) + 1 = t
        OBVIOUS
      <3>4. \A t \in DOMAIN todo' : t \in Nat /\ t >= 1
        BY <3>1 DEF Jobs
      <3> QED
        BY <3>1, <3>2, <3>3, <3>4
    <2>5. NoRaw'
      BY <2>3, <2>4 DEF NoRaw
    <2>6. \A i \in Nat : Source(i) => buf[i] = Raw(i)
      BY <2>3 DEF Source, NoRaw
    <2>7. \A j \in 0 .. r.size - 1 :
              buf[r.off + j] = Raw(r.off + j) /\ Wants(r.dst + j) = Raw(r.off + j)
      <3>1. ASSUME NEW j \in 0 .. r.size - 1
            PROVE  buf[r.off + j] = Raw(r.off + j) /\ Wants(r.dst + j) = Raw(r.off + j)
        <4>1. Source(r.off + j) /\ r.off + j \in Nat
          BY <1>2, <1>3, <1>4, <1>5, <2>2, <3>1
        <4>2. Wants(r.dst + j) = Raw(r.off + j)
          BY <1>4, <2>2, <3>1 DEF JobRight, MoveOf
        <4> QED
          BY <2>6, <4>1, <4>2
      <3> QED
        BY <3>1
    <2>8. ASSUME NEW i \in DOMAIN buf PROVE Has(i)'
      <3>1. CASE i - r.dst \in 0 .. r.size - 1
        <4>1. PICK j \in 0 .. r.size - 1 : j = i - r.dst
          BY <3>1
        <4>2. i = r.dst + j
          BY <1>5, <2>2, <2>8, <4>1
        <4>3. buf'[i] = buf[r.off + j]
          BY <1>6, <3>1, <4>1
        <4>4. buf'[i] = Wants(i)
          BY <2>7, <4>2, <4>3
        <4> QED
          BY <1>4, <2>5, <4>4, PlanSame DEF Has
      <3>2. CASE i - r.dst \notin 0 .. r.size - 1
        <4>1. buf'[i] = buf[i] /\ ~Covers(r, i)
          BY <1>5, <1>6, <2>2, <3>2 DEF Covers
        <4>2. CASE \E t \in DOMAIN todo : todo[t].to \in {"buf", "move"} /\ Covers(todo[t], i)
          <5>1. PICK t \in DOMAIN todo : todo[t].to \in {"buf", "move"} /\ Covers(todo[t], i)
            BY <4>2
          <5>2. t # 1
            BY <1>3, <4>1, <5>1
          <5>3. PICK u \in DOMAIN todo' : todo'[u] = todo[t]
            BY <2>4, <5>2
          <5>4. \E v \in DOMAIN todo' : todo'[v].to \in {"buf", "move"} /\ Covers(todo'[v], i)
            BY <5>1, <5>3
          <5> QED
            BY <5>4 DEF Has, Covers
        <4>3. CASE buf[i] = Wants(i)
          BY <1>4, <2>5, <4>1, <4>3, PlanSame DEF Has
        <4> QED
          BY <1>8, <2>2, <4>2, <4>3 DEF Has
      <3> QED
        BY <3>1, <3>2
    <2>9. ASSUME NEW t \in DOMAIN todo', todo'[t].to = "move", NEW j \in 0 .. todo'[t].size - 1
          PROVE  Source(todo[t].off + j)'
      <3>1. t + 1 \in DOMAIN todo /\ todo'[t] = todo[t + 1] /\ todo[t + 1] \in Job
        BY <1>1, <2>4, <2>9, TodoIs
      <3>2. PICK i \in Nat : i = todo[t + 1].off + j /\ i = todo'[t].off + j /\ i >= todo[t + 1].off
        BY <2>9, <3>1, JobFields
      <3>3. buf[i] = Raw(i)
        BY <2>2, <2>6, <2>9, <3>1, <3>2
      <3>4. i \in DOMAIN buf
        <4>1. i \in Span(todo[t + 1].off, todo[t + 1].size)
          BY <2>9, <3>1, <3>2, JobFields DEF Span
        <4> QED
          BY <1>1, <2>9, <3>1, <4>1 DEF RoomInv
      <3>5. i - r.dst \notin 0 .. r.size - 1
        <4>1. Before(r, todo[t + 1])
          BY <1>3, <2>2, <2>4, <2>9, <3>1 DEF Order
        <4>2. r.dst + r.size <= i
          BY <1>4, <1>5, <3>1, <3>2, <4>1, JobFields DEF Before
        <4> QED
          BY <1>5, <3>2, <4>2
      <3>6. buf'[i] = Raw(i)'
        BY <1>4, <1>6, <3>3, <3>4, <3>5, PlanSame
      <3> QED
        BY <3>2, <3>6 DEF Source, Raw, First
    <2> QED
      BY <1>6, <2>8, <2>9 DEF DataInv
  <1> QED
    BY <1>7, <1>9, <1>10 DEF DiscInv

(***************************************************************************)
(* The CD cache once it has been filled.                                   *)
(***************************************************************************)

\* What is missing of a command is a part of it: m[2] sectors from its sector m[3] on.
LEMMA MissingIs ==
    ASSUME NEW sector \in Nat, NEW count \in Nat, cached_cd_sector \in Nat \cup {None},
           NEW m, m = Missing(sector, count)
    PROVE  m[1] \in Nat /\ m[2] \in Nat /\ m[3] \in Nat /\ m[1] = sector + m[3] /\ m[2] <= count
  <1>1. CASE ~InCache(sector, count)
    BY <1>1 DEF Missing
  <1>2. CASE InCache(sector, count)
    <2>1. PICK c \in Nat, C \in Nat, d \in Int :
            /\ c = cached_cd_sector /\ C = CD_CACHE_SIZE /\ d = c - sector
            /\ count <= C /\ d < C /\ -d < C
      BY <1>2, Sizes DEF InCache
    <2>2. PICK o : o = Overlap(sector, count)
      OBVIOUS
    <2>3. o = IF d > 0
              THEN [to |-> d, from |-> 0, size |-> IF d < count THEN count - d ELSE 0]
              ELSE [to |-> 0, from |-> -d, size |-> Min({count, C + d})]
      BY <2>1, <2>2 DEF Overlap
    <2>4. m = IF o.to > 0 THEN <<sector, count - o.size, 0>>
              ELSE <<c + C, count - o.size, (c + C) - sector>>
      BY <1>2, <2>1, <2>2 DEF Missing
    <2>5. CASE d > 0
      BY <2>1, <2>3, <2>4, <2>5
    <2>6. CASE d <= 0
      <3>1. Min({count, C + d}) \in Nat /\ Min({count, C + d}) <= count
        BY <2>1, <2>6, MinOfTwo
      <3>2. o.to = 0 /\ o.size \in Nat /\ o.size <= count
        BY <2>1, <2>3, <2>6, <3>1
      <3>3. m[1] = c + C /\ m[2] = count - o.size /\ m[3] = (c + C) - sector
        BY <2>4, <3>2
      <3> QED
        BY <2>1, <2>6, <3>2, <3>3
    <2> QED
      BY <2>1, <2>5, <2>6
  <1> QED
    BY <1>1, <1>2

\* The units of a command that wants raw sectors are those of the image from its first on.
LEMMA RawUnits ==
    ASSUME NEW first \in Nat, NEW i \in Nat, kind = "cd"
    PROVE  Wanted("2352", first, i) = Image(gen, first * CdSize + i)
  <1>1. PICK d \in Nat \ {0} : d = CdSize
    BY Sizes
  <1>2. i \div d \in Nat /\ i % d \in Nat /\ i = (i \div d) * d + (i % d)
    BY Division
  <1>3. (first + i \div d) * d + (i % d) = first * d + i
    <2>1. PICK q \in Nat, k \in Nat : q = i \div d /\ k = i % d
      BY <1>2
    <2>2. (first + q) * d = first * d + q * d
      OBVIOUS
    <2>3. i = q * d + k
      BY <1>2, <2>1
    <2>4. PICK x \in Nat, y \in Nat : x = first * d /\ y = q * d
      OBVIOUS
    <2>5. (first + q) * d + k = first * d + i
      BY <2>2, <2>3, <2>4
    <2> QED
      BY <2>1, <2>5
  <1>4. Wanted("2352", first, i) = Image(gen, (first + i \div d) * d + (i % d))
    BY <1>1 DEF Wanted, UnitOf
  <1> QED
    BY <1>1, <1>3, <1>4

\* The CD cache goes to the buffer from its first sector on, and no further than it reaches.
RefillFits ==
    \E at, n \in Nat : /\ buf' = Put(buf, at, [i \in 0 .. n - 1 |-> cd_cache[i]])
                       /\ 0 .. n - 1 \subseteq DOMAIN cd_cache

\* The fill of the CD cache, once done, has what the command lacks, and keeps the invariant.
LEMMA RefilledKeeps ==
    ASSUME DiscInv, ReadOver, todo[1].to = "cache", ~Wrapped
    PROVE  DiscInv' /\ RefillFits
  <1>1. /\ TodoType /\ RequestOK /\ PlanInv /\ CacheInv /\ DataInv /\ todo \in Jobs
        /\ todo # << >>
    BY DEF DiscInv, TodoType, ReadOver
  <1>2. 1 \in DOMAIN todo /\ Cur = todo[1]
    BY <1>1, TodoIs
  <1>3. PICK r \in Job : r = todo[1]
    BY <1>1, TodoIs
  <1>4. /\ r.to = "cache" /\ r.size = 0 /\ todo' = Tail(todo) /\ Refilled
        /\ UNCHANGED <<kind, gen, request, status, cd_cache, faults>>
    BY <1>2, <1>3 DEF ReadOver, Wrapped
  <1>5. status = "busy" /\ CacheRead(r) /\ Len(todo) = 1
    <2>1. status \in {"busy", "detect"}
      BY <1>1 DEF TodoType, RequestOK
    <2>2. status = "busy"
      BY <1>1, <1>2, <1>3, <1>4, <2>1 DEF TodoType
    <2> QED
      BY <1>1, <1>2, <1>3, <1>4, <2>2 DEF PlanInv, Order, JobRight
  <1>6. todo' = << >> /\ DOMAIN todo' = {}
    <2>1. todo' \in Jobs /\ Len(todo') = 0
      BY <1>1, <1>4, <1>5, TailIs
    <2> QED
      BY <2>1 DEF Jobs
  <1>7. /\ First \in Nat /\ Count \in Nat /\ Count <= CD_CACHE_SIZE /\ kind = "cd"
        /\ request[1] = "2352"
        /\ cached_cd_sector \in Nat \cup {None}
        /\ DOMAIN buf = 0 .. Count * CdSize - 1
    <2>1. UnitOf("2352") = CdSize
      BY DEF UnitOf
    <2> QED
      BY <1>1, <1>5, <2>1 DEF RequestOK, CacheRead, First, Count, CacheInv
  <1>8. PICK m : m = Missing(First, Count)
    OBVIOUS
  <1>9. m[1] \in Nat /\ m[2] \in Nat /\ m[3] \in Nat /\ m[1] = First + m[3] /\ m[2] <= Count
    BY <1>7, <1>8, MissingIs
  <1>10. PICK d \in Nat : d = CdSize
    BY Sizes
  <1>11. /\ buf' = Put(buf, m[3] * d, [i \in 0 .. m[2] * d - 1 |-> cd_cache[i]])
         /\ cached_cd_sector' = m[1]
    BY <1>4, <1>8, <1>10 DEF Refilled, First, Count
  <1>12. PICK a \in Nat : a = m[3] * d
    BY <1>9
  <1>13. PICK n \in Nat : n = m[2] * d
    BY <1>9
  <1>14. /\ DOMAIN buf' = DOMAIN buf
         /\ \A i \in DOMAIN buf : buf'[i] = IF i - a \in 0 .. n - 1 THEN cd_cache[i - a] ELSE buf[i]
    BY <1>11, <1>12, <1>13, PutIs
  \* The whole CD cache is what it has been filled with.
  <1>15. PICK total \in Nat : total = CD_CACHE_SIZE * d /\ n <= total /\ r.dst = total
    <2>1. PICK C \in Nat : C = CD_CACHE_SIZE /\ m[2] <= C
      <3>1. PICK C \in Nat : C = CD_CACHE_SIZE
        BY Sizes
      <3>2. m[2] <= C
        BY <1>7, <1>9, <3>1
      <3> QED
        BY <3>1, <3>2
    <2>2. m[2] * d <= C * d
      BY <1>9, <2>1
    <2>3. r.dst = C * d
      BY <1>4, <1>5, <1>10, <2>1, JobFields DEF CacheRead
    <2> QED
      BY <1>13, <2>1, <2>2, <2>3
  <1>16. faults = {} => \A i \in 0 .. total - 1 : cd_cache[i] = Image(gen, m[1] * d + i)
    <2>1. Filling /\ DOMAIN cd_cache = 0 .. total - 1
      BY <1>1, <1>3, <1>4, <1>10, <1>15 DEF Filling, CacheInv
    <2>2. ASSUME faults = {}, NEW i \in 0 .. total - 1 PROVE cd_cache[i] = Image(gen, m[1] * d + i)
      <3>1. i < todo[1].dst
        BY <1>3, <1>15
      <3> QED
        BY <1>1, <1>8, <1>10, <2>1, <2>2, <3>1 DEF CacheInv
    <2> QED
      BY <2>2
  <1>17. CacheInv'
    <2>1. DOMAIN cd_cache' = 0 .. CD_CACHE_SIZE * CdSize - 1 /\ kind' = "cd" /\ ~Filling'
          /\ cached_cd_sector' \in Nat
      BY <1>1, <1>4, <1>6, <1>7, <1>9, <1>11 DEF CacheInv, Filling
    <2>2. \A i \in DOMAIN cd_cache : i \in 0 .. total - 1
      BY <1>1, <1>10, <1>15 DEF CacheInv
    <2> QED
      BY <1>4, <1>10, <1>11, <1>16, <2>1, <2>2 DEF CacheInv
  <1>18. TodoType' /\ RequestOK' /\ PlanInv' /\ RoomInv'
    <2>1. << >> \in Jobs
      BY DEF Jobs
    <2>2. TodoType'
      BY <1>4, <1>5, <1>6, <2>1 DEF TodoType
    <2>3. RequestOK'
      BY <1>1, <1>4, <1>14 DEF RequestOK, Count
    <2>4. PlanInv' /\ RoomInv'
      BY <1>6 DEF PlanInv, Order, RoomInv, Within
    <2> QED
      BY <2>2, <2>3, <2>4
  <1>19. DataInv'
    <2>1. SUFFICES ASSUME faults = {}, NEW i \in DOMAIN buf PROVE buf'[i] = Wanted("2352", First, i)
      <3>1. NoRaw'
        BY <1>6 DEF NoRaw
      <3>2. \A i \in DOMAIN buf : Wants(i)' = Wanted("2352", First, i)
        BY <1>4, <1>7 DEF Wants, Wanted, First
      <3>3. SUFFICES ASSUME faults = {} PROVE DataInv'
        BY <1>4 DEF DataInv
      <3>4. ASSUME \A i \in DOMAIN buf : buf'[i] = Wanted("2352", First, i) PROVE DataInv'
        BY <1>6, <1>14, <3>1, <3>2, <3>4 DEF DataInv, Has
      <3> QED
        BY <3>3, <3>4
    <2>2. i \in Nat
      BY <1>7, <2>1
    <2>3. Wanted("2352", First, i) = Image(gen, First * d + i)
      BY <1>7, <1>10, <2>2, RawUnits
    <2>4. CASE i - a \in 0 .. n - 1
      <3>1. PICK j \in 0 .. total - 1 : j = i - a
        BY <1>15, <2>4
      <3>2. buf'[i] = Image(gen, m[1] * d + j)
        BY <1>14, <1>16, <2>1, <2>4, <3>1
      <3>3. m[1] * d + j = First * d + i
        <4>1. (First + m[3]) * d = First * d + m[3] * d
          BY <1>7, <1>9
        <4>2. PICK x \in Nat : x = First * d
          BY <1>7
        <4>3. m[1] * d = x + a
          BY <1>9, <1>12, <4>1, <4>2
        <4> QED
          BY <2>2, <3>1, <4>2, <4>3
      <3> QED
        BY <2>3, <3>2, <3>3
    <2>5. CASE i - a \notin 0 .. n - 1
      <3>1. buf'[i] = buf[i]
        BY <1>14, <2>1, <2>5
      <3>2. ~Gap(i)
        <4>1. (m[3] + m[2]) * d = a + n
          BY <1>9, <1>12, <1>13
        <4>2. ~(a <= i /\ i < a + n)
          BY <2>2, <2>5
        <4> QED
          BY <1>8, <1>10, <1>12, <4>1, <4>2 DEF Gap
      <3>3. Has(i)
        BY <1>1, <1>5, <2>1 DEF DataInv
      <3>4. \A t \in DOMAIN todo : todo[t].to = "cache"
        BY <1>1, <1>3, <1>4, <1>5, TodoIs
      <3>5. buf[i] = Wants(i)
        BY <3>2, <3>3, <3>4 DEF Has
      <3> QED
        BY <1>7, <3>1, <3>5 DEF Wants
    <2> QED
      BY <2>4, <2>5
  <1>20. RefillFits
    <2>1. 0 .. n - 1 \subseteq 0 .. total - 1
      BY <1>15
    <2>2. DOMAIN cd_cache = 0 .. total - 1
      BY <1>1, <1>10, <1>15 DEF CacheInv
    <2>3. buf' = Put(buf, a, [i \in 0 .. n - 1 |-> cd_cache[i]])
      BY <1>11, <1>12, <1>13
    <2> QED
      BY <2>1, <2>2, <2>3 DEF RefillFits
  <1> QED
    BY <1>17, <1>18, <1>19, <1>20 DEF DiscInv

\* The fill after sector 0 was found in a CD cache without a number keeps the invariant: the
\* answer is not the image, and a hazard says so.
LEMMA WrappedKeeps ==
    ASSUME DiscInv, ReadOver, todo[1].to = "cache", Wrapped
    PROVE  DiscInv' /\ UNCHANGED buf
  <1>1. /\ TodoType /\ RequestOK /\ PlanInv /\ CacheInv /\ todo \in Jobs
        /\ todo # << >>
    BY DEF DiscInv, TodoType, ReadOver
  <1>2. 1 \in DOMAIN todo /\ Cur = todo[1]
    BY <1>1, TodoIs
  <1>3. PICK r \in Job : r = todo[1]
    BY <1>1, TodoIs
  <1>4. /\ r.to = "cache" /\ todo' = Tail(todo) /\ RefilledWrapped
        /\ UNCHANGED <<kind, gen, request, cd_cache, faults>>
    BY <1>2, <1>3 DEF ReadOver, Wrapped
  <1>5. status = "busy" /\ CacheRead(r) /\ Len(todo) = 1
    <2>1. status \in {"busy", "detect"}
      BY <1>1 DEF TodoType, RequestOK
    <2>2. status = "busy"
      BY <1>1, <1>2, <1>3, <1>4, <2>1 DEF TodoType
    <2> QED
      BY <1>1, <1>2, <1>3, <1>4, <2>2 DEF PlanInv, Order, JobRight
  <1>6. todo' = << >> /\ DOMAIN todo' = {} /\ << >> \in Jobs
    <2>1. todo' \in Jobs /\ Len(todo') = 0
      BY <1>1, <1>4, <1>5, TailIs
    <2> QED
      BY <2>1 DEF Jobs
  <1>7. buf' = buf /\ status' \in {"busy", "crashed"} /\ cached_cd_sector' = WrappedNumber
    BY <1>4, <1>5 DEF RefilledWrapped
  <1>8. faults' # {} /\ Wrapped'
    BY <1>4 DEF Wrapped
  <1>9. TodoType'
    BY <1>6, <1>7 DEF TodoType
  <1>10. RequestOK'
    BY <1>1, <1>4, <1>5, <1>7 DEF RequestOK, Count
  <1>11. PlanInv' /\ RoomInv' /\ DataInv'
    BY <1>6, <1>8 DEF PlanInv, Order, RoomInv, Within, DataInv
  <1>12. CacheInv'
    BY <1>1, <1>4, <1>5, <1>7, <1>8 DEF CacheInv, CacheRead
  <1> QED
    BY <1>7, <1>9, <1>10, <1>11, <1>12 DEF DiscInv

(***************************************************************************)
(* The commands: the jobs that each comes to make up its answer.           *)
(***************************************************************************)

Given(op, first, count) ==
    /\ Begin(op, first, count)
    /\ op \in {"iso", "2048", "2352"} /\ first \in Nat /\ count \in Nat
    /\ UNCHANGED <<kind, gen, cd_cache, cacheVars, faults>>

\* A command that is given starts with no job left and nothing gone wrong.
LEMMA GivenIs ==
    ASSUME DiscInv, NEW op, NEW first, NEW count, Given(op, first, count)
    PROVE  /\ todo = << >> /\ faults = {} /\ faults' = {} /\ status = "idle" /\ status' = "busy"
           /\ op \in OpsOf[kind] /\ request' = <<op, first, count>>
           /\ UNCHANGED <<kind, gen, cd_cache, cached_cd_sector>>
           /\ First' = first /\ Count' = count /\ request'[1] = op /\ kind \in Kinds
           /\ \A i : Wants(i)' = Wanted(op, first, i) /\ Raw(i)' = Image(gen, first * CdSize + i)
           /\ Missing(First, Count)' = Missing(first, count)
           /\ cached_cd_sector \in Nat \cup {None} /\ (cached_cd_sector # None => kind = "cd")
           /\ DOMAIN cd_cache = 0 .. CD_CACHE_SIZE * CdSize - 1
           /\ cached_cd_sector # None =>
                 \A i \in DOMAIN cd_cache : cd_cache[i] = Image(gen, cached_cd_sector * CdSize + i)
  <1>1. /\ faults = {} /\ faults' = {} /\ status = "idle" /\ status' = "busy"
        /\ op \in OpsOf[kind] /\ request' = <<op, first, count>>
        /\ UNCHANGED <<kind, gen, cd_cache, cached_cd_sector>>
    BY DEF Given, Begin, cacheVars
  <1>2. todo = << >> /\ kind \in Kinds
    BY <1>1 DEF DiscInv, TodoType, RequestOK
  <1>3. First' = first /\ Count' = count /\ request'[1] = op
    BY <1>1 DEF First, Count
  <1>4. \A i : Wants(i)' = Wanted(op, first, i) /\ Raw(i)' = Image(gen, first * CdSize + i)
    BY <1>1, <1>3 DEF Wants, Raw, Wanted
  <1>5. Missing(First, Count)' = Missing(first, count)
    BY <1>1, <1>3 DEF Missing, InCache, Overlap
  <1>6. CacheInv /\ ~Filling /\ ~Wrapped
    BY <1>1, <1>2 DEF DiscInv, Filling, Wrapped
  <1> QED
    BY <1>1, <1>2, <1>3, <1>4, <1>5, <1>6 DEF CacheInv

\* The answer of a command is planned where each job is right, and the jobs and the CD cache
\* leave nothing of it out.
Planned(op, count) ==
    /\ todo' \in Jobs
    /\ DOMAIN buf' = 0 .. count * UnitOf(op) - 1
    /\ \A t \in DOMAIN todo' : JobRight(todo[t])'
    /\ Order'
    /\ \A i \in DOMAIN buf' : Has(i)'
    /\ \A t \in DOMAIN todo' : todo'[t].to = "move" =>
          \A j \in 0 .. todo'[t].size - 1 : Source(todo[t].off + j)'
    /\ RoomInv'
    /\ Filling' => todo'[1].dst = 0

\* A command whose jobs are right and make up its buffer keeps the invariant.
LEMMA Commanded ==
    ASSUME DiscInv, NEW op, NEW first, NEW count, Given(op, first, count), Planned(op, count)
    PROVE  DiscInv'
  <1>1. /\ faults = {} /\ faults' = {} /\ status' = "busy"
        /\ op \in OpsOf[kind] /\ request' = <<op, first, count>> /\ kind \in Kinds
        /\ UNCHANGED <<kind, gen, cd_cache, cached_cd_sector>>
        /\ cached_cd_sector \in Nat \cup {None} /\ (cached_cd_sector # None => kind = "cd")
        /\ DOMAIN cd_cache = 0 .. CD_CACHE_SIZE * CdSize - 1
        /\ cached_cd_sector # None =>
              \A i \in DOMAIN cd_cache : cd_cache[i] = Image(gen, cached_cd_sector * CdSize + i)
        /\ op \in {"iso", "2048", "2352"} /\ first \in Nat /\ count \in Nat
    BY GivenIs DEF Given
  <1>2. TodoType'
    BY <1>1 DEF Planned, TodoType
  <1>3. RequestOK'
    BY <1>1 DEF Planned, RequestOK, Count
  <1>4. PlanInv' /\ DataInv' /\ RoomInv'
    BY <1>1 DEF Planned, PlanInv, DataInv
  <1>5. CacheInv'
    <2>1. \A i \in DOMAIN cd_cache : Filling' => ~(i < todo'[1].dst)
      BY <1>1 DEF Planned
    <2> QED
      BY <1>1, <2>1 DEF CacheInv
  <1> QED
    BY <1>2, <1>3, <1>4, <1>5 DEF DiscInv

\* A command that comes to one read of as much as it wants.
LEMMA OneRead ==
    ASSUME DiscInv, NEW op, NEW first, NEW count, Given(op, first, count),
           NEW off \in Nat, NEW n \in Nat, n = count * UnitOf(op),
           todo' = <<Reading(off, n, 0, "buf")>>, DOMAIN buf' = 0 .. n - 1,
           \A j \in 0 .. n - 1 : Wanted(op, first, j) = Image(gen, off + j)
    PROVE  Planned(op, count)
  <1>1. PICK r \in Job : r = Reading(off, n, 0, "buf") /\ r.off = off /\ r.size = n /\ r.dst = 0
                         /\ r.to = "buf"
    <2>1. 0 \in Nat
      OBVIOUS
    <2> QED
      BY <2>1, ReadingIs
  <1>2. /\ todo' = <<r>> /\ <<r>> \in Seq(Job) /\ DOMAIN todo' = {1} /\ todo'[1] = r
        /\ Len(todo') = 1
    BY <1>1
  <1>3. JobRight(r)'
    BY <1>1, GivenIs DEF JobRight, BufRead
  <1>4. Order'
    BY <1>1, <1>2 DEF Order
  <1>5. \A i \in DOMAIN buf' : Covers(todo'[1], i)
    BY <1>1, <1>2 DEF Covers
  <1>6. \A i \in DOMAIN buf' : Has(i)'
    BY <1>1, <1>2, <1>5 DEF Has, Covers
  <1>7. RoomInv'
    BY <1>1, <1>2 DEF RoomInv, Within
  <1>8. ~Filling'
    BY <1>1, <1>2 DEF Filling
  <1> QED
    BY <1>1, <1>2, <1>3, <1>4, <1>6, <1>7, <1>8 DEF Planned, Jobs

\* process_read_iso_cmd_iso plans what is asked.
LEMMA ReadIsoKeeps ==
    ASSUME DiscInv, NEW first \in Nat, NEW count \in Nat, ReadIso(first, count)
    PROVE  DiscInv'
  <1>1. Given("iso", first, count)
    BY DEF ReadIso, Given
  <1>2. count = count * UnitOf("iso") /\ UnitOf("iso") = 1
    BY DEF UnitOf
  <1>3. todo' = <<Reading(first, count, 0, "buf")>> /\ DOMAIN buf' = 0 .. count - 1
    BY BufferIs DEF ReadIso
  <1>4. \A j \in 0 .. count - 1 : Wanted("iso", first, j) = Image(gen, first + j)
    BY DEF Wanted
  <1>5. Planned("iso", count)
    BY <1>1, <1>2, <1>3, <1>4, OneRead
  <1> QED
    BY <1>1, <1>5, Commanded

\* The parts of an answer lie in it one after the other.
LEMMA PartIs ==
    ASSUME NEW count \in Nat, NEW u \in Nat \ {0}
    PROVE  /\ \A k \in 0 .. count - 1 : k * u \in Nat /\ k * u + u <= count * u
           /\ \A i \in 0 .. count * u - 1 :
                 \E k \in 0 .. count - 1, j \in 0 .. u - 1 : i = k * u + j
  <1>1. ASSUME NEW k \in 0 .. count - 1 PROVE k * u \in Nat /\ k * u + u <= count * u
    <2>1. PICK e \in Nat : count = k + 1 + e
      <3>1. count - (k + 1) \in Nat /\ count = k + 1 + (count - (k + 1))
        OBVIOUS
      <3> QED
        BY <3>1
    <2>2. (k + 1 + e) * u = k * u + u + e * u /\ e * u \in Nat /\ k * u \in Nat
      BY <2>1
    <2> QED
      BY <2>1, <2>2
  <1>2. ASSUME NEW i \in 0 .. count * u - 1
        PROVE  \E k \in 0 .. count - 1, j \in 0 .. u - 1 : i = k * u + j
    <2>1. PICK q \in Nat, j \in 0 .. u - 1 : i = q * u + j
      <3>1. i \in Nat
        BY <1>2
      <3>2. i \div u \in Nat /\ i % u \in 0 .. u - 1 /\ i = (i \div u) * u + (i % u)
        BY <3>1, Division, Zenon
      <3> QED
        BY <3>2
    <2>2. q < count
      <3>1. SUFFICES ASSUME count <= q PROVE FALSE
        BY <2>1
      <3>2. PICK e \in Nat : q = count + e
        <4>1. q - count \in Nat /\ q = count + (q - count)
          BY <2>1, <3>1
        <4> QED
          BY <4>1
      <3>3. (count + e) * u = count * u + e * u /\ e * u \in Nat /\ count * u \in Nat
        BY <3>2
      <3> QED
        BY <1>2, <2>1, <3>2, <3>3
    <2> QED
      BY <2>1, <2>2
  <1> QED
    BY <1>1, <1>2

\* What is wanted of unit j of the part k.
LEMMA WantedIs ==
    ASSUME NEW op \in {"2048", "2352"}, NEW first \in Nat, NEW k \in Nat, NEW u, u = UnitOf(op),
           NEW j \in 0 .. u - 1
    PROVE  /\ op = "2048" /\ kind # "psx2048" =>
                 Wanted(op, first, k * u + j) = Image(gen, (first + k) * CdSize + Header + j)
           /\ op = "2048" /\ kind = "psx2048" =>
                 Wanted(op, first, k * u + j) = Image(gen, (first + k) * DataSize + j)
           /\ op = "2352" /\ kind # "psx2048" =>
                 Wanted(op, first, k * u + j) = Image(gen, (first + k) * CdSize + j)
           /\ op = "2352" /\ kind = "psx2048" =>
                 Wanted(op, first, k * u + j) =
                     IF Header <= j /\ j < Header + DataSize
                     THEN Image(gen, (first + k) * DataSize + j - Header) ELSE Junk
  <1>1. u \in Nat \ {0}
    BY Sizes DEF UnitOf
  <1>2. PICK i : i = k * u + j
    OBVIOUS
  <1>3. i \div u = k /\ i % u = j
    BY <1>1, <1>2, DivisionIs
  <1>4. op = "2048" \/ op = "2352"
    OBVIOUS
  <1> QED
    BY <1>2, <1>3, <1>4 DEF Wanted

\* The PS1 commands plan what is asked: a read for each sector.
LEMMA ReadPsxKeeps ==
    ASSUME DiscInv, NEW op \in {"iso", "2048", "2352"}, NEW first \in Nat, NEW count \in Nat,
           ReadPsx(op, first, count)
    PROVE  DiscInv'
  <1>1. Given(op, first, count)
    BY DEF ReadPsx, Given
  <1>2. /\ todo = << >> /\ op \in OpsOf[kind] /\ kind \in Kinds /\ request'[1] = op /\ kind' = kind
        /\ gen' = gen /\ \A i : Wants(i)' = Wanted(op, first, i)
    BY <1>1, GivenIs
  <1>3. kind \in {"psx2352", "psx2048"} /\ op \in {"2048", "2352"}
    BY <1>2 DEF ReadPsx, OpsOf
  <1>4. PICK unit \in Nat, size \in Nat, skip \in Nat, rel \in Nat, u \in Nat \ {0} :
          /\ unit = IF kind = "psx2352" THEN CdSize ELSE DataSize
          /\ size = IF kind = "psx2352" /\ op = "2352" THEN CdSize ELSE DataSize
          /\ skip = IF kind = "psx2352" /\ op = "2048" THEN Header ELSE 0
          /\ rel  = IF ~(kind = "psx2352") /\ op = "2352" THEN Header ELSE 0
          /\ u = UnitOf(op) /\ u = IF op = "2048" THEN DataSize ELSE CdSize
    BY <1>3, Sizes DEF UnitOf
  <1>17. \A k \in Nat : \A j \in 0 .. u - 1 :
            /\ op = "2048" /\ kind # "psx2048" =>
                  Wanted(op, first, k * u + j) = Image(gen, (first + k) * CdSize + Header + j)
            /\ op = "2048" /\ kind = "psx2048" =>
                  Wanted(op, first, k * u + j) = Image(gen, (first + k) * DataSize + j)
            /\ op = "2352" /\ kind # "psx2048" =>
                  Wanted(op, first, k * u + j) = Image(gen, (first + k) * CdSize + j)
            /\ op = "2352" /\ kind = "psx2048" =>
                  Wanted(op, first, k * u + j) =
                      IF Header <= j /\ j < Header + DataSize
                      THEN Image(gen, (first + k) * DataSize + j - Header) ELSE Junk
    <2>1. u = UnitOf(op)
      BY <1>4
    <2>2. op \in {"2048", "2352"}
      BY <1>3
    <2> QED
      BY <2>1, <2>2, WantedIs
  <1>18. /\ kind = "psx2048" => kind # "psx2352"
         /\ kind = "psx2352" => kind # "psx2048"
    OBVIOUS
  <1>5. /\ todo' = [i \in 1 .. count |->
              Reading((first + i - 1) * unit + skip, size, (i - 1) * u + rel, "buf")]
        /\ buf' = Buffer(count * u)
    BY <1>4 DEF ReadPsx
  <1>6. DOMAIN buf' = 0 .. count * u - 1 /\ \A i \in DOMAIN buf' : buf'[i] = Junk
    BY <1>5 DEF Buffer
  <1>7. rel + size <= u
    BY <1>3, <1>4, Sizes
  <1>8. /\ \A k \in 0 .. count - 1 : k * u \in Nat /\ k * u + u <= count * u
        /\ \A i \in 0 .. count * u - 1 :
              \E k \in 0 .. count - 1, j \in 0 .. u - 1 : i = k * u + j
    BY PartIs
  <1>9. ASSUME NEW t \in 1 .. count
        PROVE  /\ (first + t - 1) * unit + skip \in Nat /\ (t - 1) * u + rel \in Nat
               /\ todo'[t] = Reading((first + t - 1) * unit + skip, size, (t - 1) * u + rel, "buf")
               /\ todo'[t] \in Job
               /\ todo'[t].off = (first + t - 1) * unit + skip /\ todo'[t].size = size
               /\ todo'[t].dst = (t - 1) * u + rel /\ todo'[t].to = "buf"
    <2>1. first + t - 1 \in Nat /\ t - 1 \in 0 .. count - 1
      BY <1>9
    <2>2. (first + t - 1) * unit \in Nat /\ (t - 1) * u \in Nat
      BY <1>8, <2>1
    <2>3. PICK off \in Nat, dst \in Nat :
            off = (first + t - 1) * unit + skip /\ dst = (t - 1) * u + rel
      BY <2>2
    <2>4. todo'[t] = Reading(off, size, dst, "buf")
      BY <1>5, <1>9, <2>3
    <2>6. /\ todo'[t] \in Job /\ todo'[t].off = off /\ todo'[t].size = size
          /\ todo'[t].dst = dst /\ todo'[t].to = "buf"
      BY <2>4 DEF Reading, Job
    <2> QED
      BY <2>3, <2>4, <2>6
  <1>10. todo' \in Jobs /\ DOMAIN todo' = 1 .. count
    <2>1. DOMAIN todo' = 1 .. count /\ todo' = [t \in 1 .. count |-> todo'[t]]
      BY <1>5
    <2>2. \A t \in 1 .. count : todo'[t] \in Job
      BY <1>9
    <2> QED
      BY <2>1, <2>2 DEF Jobs
  <1>11. ASSUME NEW t \in DOMAIN todo' PROVE JobRight(todo[t])'
    <2>1. PICK k \in Nat : k = t - 1 /\ t \in 1 .. count
      BY <1>10, <1>11
    <2>2. PICK x \in Nat, y \in Nat : x = (first + k) * unit /\ y = k * u
      BY <2>1
    <2>3. first + t - 1 = first + k
      BY <1>10, <2>1
    <2>4. todo'[t].off = x + skip /\ todo'[t].size = size /\ todo'[t].dst = y + rel
          /\ todo'[t].to = "buf"
      BY <1>9, <2>1, <2>2, <2>3
    <2>5. ASSUME NEW j \in 0 .. size - 1
          PROVE  Wanted(op, first, (y + rel) + j) = Image(gen, (x + skip) + j)
      <3>1. PICK e \in 0 .. u - 1 : e = rel + j
        BY <1>7, <2>5
      <3>2. (y + rel) + j = y + e /\ y + e = k * u + e
        BY <2>2, <3>1
      <3>3. CASE op = "2048" /\ kind = "psx2352"
        <4>1. Wanted(op, first, k * u + e) = Image(gen, (first + k) * CdSize + Header + e)
          BY <1>17, <1>18, <2>1, <3>1, <3>3, Zenon
        <4>2. (first + k) * CdSize + Header + e = (x + skip) + j
          BY <1>4, <2>2, <3>1, <3>3
        <4> QED
          BY <3>2, <4>1, <4>2
      <3>4. CASE op = "2048" /\ kind = "psx2048"
        <4>1. Wanted(op, first, k * u + e) = Image(gen, (first + k) * DataSize + e)
          BY <1>17, <1>18, <2>1, <3>1, <3>4, Zenon
        <4>2. (first + k) * DataSize + e = (x + skip) + j
          BY <1>4, <2>2, <3>1, <3>4
        <4> QED
          BY <3>2, <4>1, <4>2
      <3>5. CASE op = "2352" /\ kind = "psx2352"
        <4>1. Wanted(op, first, k * u + e) = Image(gen, (first + k) * CdSize + e)
          BY <1>17, <1>18, <2>1, <3>1, <3>5, Zenon
        <4>2. (first + k) * CdSize + e = (x + skip) + j
          BY <1>4, <2>2, <3>1, <3>5
        <4> QED
          BY <3>2, <4>1, <4>2
      <3>6. CASE op = "2352" /\ kind = "psx2048"
        <4>1. Header <= e /\ e < Header + DataSize
          BY <1>4, <2>5, <3>1, <3>6, Sizes
        <4>2. Wanted(op, first, k * u + e) = Image(gen, (first + k) * DataSize + e - Header)
          BY <1>17, <2>1, <3>1, <3>6, <4>1, Zenon
        <4>3. (first + k) * DataSize + e - Header = (x + skip) + j
          BY <1>4, <2>2, <3>1, <3>6, Sizes
        <4> QED
          BY <3>2, <4>2, <4>3
      <3> QED
        BY <1>3, <3>3, <3>4, <3>5, <3>6
    <2>6. BufRead(todo[t])'
      BY <1>2, <2>4, <2>5 DEF BufRead
    <2> QED
      BY <2>4, <2>6 DEF JobRight
  <1>12. \A t \in DOMAIN todo' : todo'[t].to = "buf"
    BY <1>9, <1>10
  <1>13. Order' /\ NoRaw' /\ ~Filling'
    <2>1. todo' # << >> => 1 \in DOMAIN todo'
      BY <1>10 DEF Jobs
    <2> QED
      BY <1>12, <2>1 DEF Order, NoRaw, Filling
  <1>14. ASSUME NEW i \in DOMAIN buf' PROVE Has(i)'
    <2>1. PICK k \in 0 .. count - 1, j \in 0 .. u - 1 : i = k * u + j
      BY <1>6, <1>8
    <2>2. PICK y \in Nat : y = k * u
      BY <1>8
    <2>3. PICK t \in DOMAIN todo' : t - 1 = k
      <3>1. k + 1 \in 1 .. count /\ (k + 1) - 1 = k
        BY <2>1
      <3> QED
        BY <1>10, <3>1
    <2>4. todo'[t].dst = y + rel /\ todo'[t].size = size /\ todo'[t].to = "buf"
      BY <1>9, <1>10, <2>2, <2>3
    <2>5. CASE rel <= j /\ j < rel + size
      <3>1. Covers(todo'[t], i)
        BY <2>1, <2>2, <2>4, <2>5 DEF Covers
      <3>2. \E v \in DOMAIN todo' : todo'[v].to \in {"buf", "move"} /\ Covers(todo'[v], i)
        BY <2>4, <3>1
      <3> QED
        BY <3>2 DEF Has, Covers
    <2>6. CASE ~(rel <= j /\ j < rel + size)
      <3>1. op = "2352" /\ kind = "psx2048" /\ ~(Header <= j /\ j < Header + DataSize)
        BY <1>3, <1>4, <2>1, <2>6
      <3>2. Wanted(op, first, k * u + j) = Junk
        <4>1. k \in Nat
          BY <2>1
        <4> QED
          BY <1>17, <2>1, <3>1, <4>1, Zenon
      <3>3. buf'[i] = Wants(i)'
        BY <1>2, <1>6, <2>1, <3>2
      <3> QED
        BY <1>13, <3>3 DEF Has
    <2> QED
      BY <2>5, <2>6
  <1>15. RoomInv'
    <2>1. ASSUME NEW t \in DOMAIN todo'
          PROVE  (todo'[t].dst .. todo'[t].dst + todo'[t].size - 1) \subseteq DOMAIN buf'
      <3>1. PICK k \in 0 .. count - 1 : k = t - 1
        BY <1>10, <2>1
      <3>2. PICK y \in Nat, total \in Nat : y = k * u /\ total = count * u /\ y + u <= total
        BY <1>8, <3>1
      <3>3. todo'[t].dst = y + rel /\ todo'[t].size = size
        BY <1>9, <1>10, <3>1, <3>2
      <3>4. (y + rel) .. (y + rel) + size - 1 \subseteq 0 .. total - 1
        BY <1>7, <3>2
      <3> QED
        BY <1>6, <3>2, <3>3, <3>4
    <2> QED
      BY <1>12, <2>1 DEF RoomInv, Within
  <1>16. Planned(op, count)
    BY <1>4, <1>6, <1>10, <1>11, <1>12, <1>13, <1>14, <1>15 DEF Planned
  <1> QED
    BY <1>1, <1>16, Commanded

\* What two joined sequences hold.
LEMMA JoinedIs ==
    ASSUME NEW S, NEW p \in Seq(S), NEW q \in Seq(S)
    PROVE  /\ p \o q \in Seq(S) /\ Len(p \o q) = Len(p) + Len(q)
           /\ \A i \in 1 .. Len(p) + Len(q) :
                 (p \o q)[i] = IF i <= Len(p) THEN p[i] ELSE q[i - Len(p)]
  OBVIOUS

\* As many raw sectors as fit are not more than the sectors that are wanted.
LEMMA FitIs ==
    ASSUME NEW count \in Nat
    PROVE  Fit(count) \in 0 .. count /\ Fit(count) * CdSize <= count * DataSize
  <1>1. PICK c \in Nat \ {0}, d \in Nat \ {0} : c = CdSize /\ d = DataSize /\ d <= c
    BY Sizes
  <1>2. PICK total \in Nat : total = count * d
    BY <1>1
  <1>3. total \div c \in Nat /\ total % c \in 0 .. c - 1 /\ total = (total \div c) * c + (total % c)
    BY Division, Zenon
  <1>4. PICK q \in Nat, k \in 0 .. c - 1 : q = total \div c /\ k = total % c /\ total = q * c + k
    BY <1>3
  <1>5. q = Fit(count)
    BY <1>1, <1>2, <1>4 DEF Fit
  <1>6. q * c <= total
    <2>1. PICK x \in Nat : x = q * c
      OBVIOUS
    <2> QED
      BY <1>4, <2>1
  <1>7. q <= count
    <2>1. SUFFICES ASSUME count < q PROVE FALSE
      BY <1>4
    <2>2. PICK e \in Nat : q = count + 1 + e
      <3>1. q - (count + 1) \in Nat /\ q = count + 1 + (q - (count + 1))
        BY <2>1
      <3> QED
        BY <3>1
    <2>3. (count + 1 + e) * c = count * c + c + e * c /\ count * c \in Nat /\ e * c \in Nat
      BY <2>2
    <2>4. count * d <= count * c
      <3>1. PICK g \in Nat : c = d + g
        <4>1. c - d \in Nat /\ c = d + (c - d)
          BY <1>1
        <4> QED
          BY <4>1
      <3>2. count * (d + g) = count * d + count * g /\ count * g \in Nat /\ count * d \in Nat
        BY <3>1
      <3> QED
        BY <3>1, <3>2
    <2> QED
      BY <1>2, <1>6, <2>2, <2>3, <2>4
  <1> QED
    BY <1>1, <1>2, <1>5, <1>6, <1>7

\* process_read_cd_2048_cmd_iso plans one raw read, then moves that close the gaps.
LEMMA ReadCd2048Keeps ==
    ASSUME DiscInv, NEW first \in Nat, NEW count \in Nat, ReadCd2048(first, count)
    PROVE  DiscInv'
  <1>1. Given("2048", first, count) /\ kind = "cd"
    BY DEF ReadCd2048, Given
  <1>2. /\ todo = << >> /\ request'[1] = "2048" /\ kind' = kind /\ First' = first
        /\ gen' = gen /\ \A i : Wants(i)' = Wanted("2048", first, i)
        /\ \A i : Raw(i)' = Image(gen, first * CdSize + i)
    BY <1>1, GivenIs
  <1>3. PICK c \in Nat \ {0}, d \in Nat \ {0}, h \in Nat, f \in 0 .. count :
          /\ c = CdSize /\ d = DataSize /\ h = Header /\ f = Fit(count) /\ h + d <= c
          /\ f * c <= count * d /\ UnitOf("2048") = d
    BY Sizes, FitIs DEF UnitOf
  <1> DEFINE pre == IF f = 0 THEN << >> ELSE <<Reading(first * c, f * c, 0, "raw")>>
  <1> DEFINE part(k) == IF k < f THEN Reading(k * c + h, d, k * d, "move")
                        ELSE Reading((first + k) * c + h, d, k * d, "buf")
  <1> DEFINE parts == [i \in 1 .. count |-> part(i - 1)]
  <1>4. todo' = pre \o parts /\ DOMAIN buf' = 0 .. count * d - 1
    BY <1>3, BufferIs DEF ReadCd2048
  <1>5. ASSUME NEW k \in 0 .. count - 1
        PROVE  /\ part(k) \in Job /\ part(k).size = d /\ part(k).dst = k * d
               /\ part(k).to = IF k < f THEN "move" ELSE "buf"
               /\ part(k).off = IF k < f THEN k * c + h ELSE (first + k) * c + h
    <2>1. PICK dst \in Nat, off \in Nat :
            dst = k * d /\ off = IF k < f THEN k * c + h ELSE (first + k) * c + h
      <3>1. k * d \in Nat /\ k * c + h \in Nat
        OBVIOUS
      <3>2. (first + k) * c + h \in Nat
        OBVIOUS
      <3> QED
        BY <3>1, <3>2
    <2>2. part(k) = Reading(off, d, dst, IF k < f THEN "move" ELSE "buf")
      BY <2>1
    <2>3. PICK to \in {"buf", "raw", "cache", "move"} : to = IF k < f THEN "move" ELSE "buf"
      OBVIOUS
    <2>4. d \in Nat
      OBVIOUS
    <2>5. /\ Reading(off, d, dst, to) \in Job /\ Reading(off, d, dst, to).off = off
          /\ Reading(off, d, dst, to).size = d
          /\ Reading(off, d, dst, to).dst = dst /\ Reading(off, d, dst, to).to = to
      BY <2>4 DEF Reading, Job
    <2>6. part(k) = Reading(off, d, dst, to)
      BY <2>2, <2>3
    <2> HIDE DEF part
    <2> QED
      BY <2>1, <2>3, <2>5, <2>6
  <1> HIDE DEF part
  <1>6. PICK x \in Nat, y \in Nat : x = first * c /\ y = f * c
    OBVIOUS
  <1>7. PICK raw \in Job : /\ raw = Reading(x, y, 0, "raw")
                           /\ raw.off = x /\ raw.size = y /\ raw.dst = 0 /\ raw.to = "raw"
    <2>1. 0 \in Nat /\ "raw" \in {"buf", "raw", "cache", "move"}
      OBVIOUS
    <2> QED
      BY <2>1, ReadingIs
  <1>8. PICK b \in {0, 1} : b = Len(pre)
    BY DEF pre
  <1>9. /\ pre \in Seq(Job) /\ (b = 0 => f = 0) /\ (b = 1 => f > 0 /\ pre[1] = raw)
    <2>1. CASE f = 0
      BY <1>8, <2>1
    <2>2. CASE f # 0
      <3>1. pre = <<raw>>
        BY <1>6, <1>7, <2>2
      <3> HIDE DEF pre
      <3>2. Len(pre) = 1 /\ pre[1] = raw /\ pre \in Seq(Job)
        BY <3>1
      <3> QED
        BY <1>8, <2>2, <3>2
    <2> QED
      BY <2>1, <2>2
  <1>10. /\ parts \in Seq(Job) /\ Len(parts) = count
         /\ \A k \in 0 .. count - 1 : parts[k + 1] = part(k)
    <2>1. \A i \in 1 .. count : part(i - 1) \in Job
      BY <1>5
    <2>2. \A k \in 0 .. count - 1 : k + 1 \in 1 .. count /\ (k + 1) - 1 = k
      OBVIOUS
    <2> QED
      BY <2>1, <2>2
  <1> HIDE DEF pre, parts
  <1>11. /\ todo' \in Jobs /\ DOMAIN todo' = 1 .. b + count /\ Len(todo') = b + count
         /\ b = 1 => todo'[1] = raw
         /\ \A k \in 0 .. count - 1 : todo'[b + k + 1] = part(k)
    <2>1. /\ pre \o parts \in Seq(Job) /\ Len(pre \o parts) = b + count
          /\ \A i \in 1 .. b + count : (pre \o parts)[i] = IF i <= b THEN pre[i] ELSE parts[i - b]
      BY <1>8, <1>9, <1>10, JoinedIs
    <2>2. \A k \in 0 .. count - 1 : b + k + 1 \in 1 .. b + count /\ ~(b + k + 1 <= b)
                                    /\ (b + k + 1) - b = k + 1
      OBVIOUS
    <2>3. b = 1 => 1 \in 1 .. b + count
      OBVIOUS
    <2>4. todo' \in Jobs /\ DOMAIN todo' = 1 .. b + count /\ Len(todo') = b + count
      BY <1>4, <2>1 DEF Jobs
    <2>5. b = 1 => todo'[1] = raw
      BY <1>4, <1>9, <2>1, <2>3
    <2>6. ASSUME NEW k \in 0 .. count - 1 PROVE todo'[b + k + 1] = part(k)
      <3>1. PICK n \in 1 .. b + count : n = b + k + 1 /\ ~(n <= b) /\ n - b = k + 1
        BY <2>2
      <3>2. (pre \o parts)[n] = parts[k + 1]
        BY <2>1, <3>1
      <3> QED
        BY <1>4, <1>10, <3>1, <3>2
    <2> QED
      BY <2>4, <2>5, <2>6
  \* Each job is the raw read or the part of one sector.
  <1>12. \A t \in DOMAIN todo' :
            \/ t = 1 /\ b = 1 /\ todo'[t] = raw
            \/ \E k \in 0 .. count - 1 : t = b + k + 1 /\ todo'[t] = part(k)
    <2>1. ASSUME NEW t \in DOMAIN todo', ~(t = 1 /\ b = 1)
          PROVE  \E k \in 0 .. count - 1 : t = b + k + 1 /\ todo'[t] = part(k)
      <3>1. t - b - 1 \in 0 .. count - 1 /\ t = b + (t - b - 1) + 1
        BY <1>11, <2>1
      <3> QED
        BY <1>11, <3>1
    <2> QED
      BY <1>11, <2>1
  <1>13. /\ \A k \in 0 .. count - 1 : k * d \in Nat /\ k * d + d <= count * d
         /\ \A i \in 0 .. count * d - 1 :
               \E k \in 0 .. count - 1, j \in 0 .. d - 1 : i = k * d + j
    BY PartIs
  <1>14. \A k \in Nat : \A j \in 0 .. d - 1 :
            Wanted("2048", first, k * d + j) = Image(gen, (first + k) * c + h + j)
    <2>1. "2048" \in {"2048", "2352"} /\ kind # "psx2048"
      BY <1>1
    <2>2. PICK op, u : op \in {"2048", "2352"} /\ op = "2048" /\ u = UnitOf(op)
      OBVIOUS
    <2>3. \A k \in Nat : \A j \in 0 .. u - 1 :
             op = "2048" /\ kind # "psx2048" =>
                 Wanted(op, first, k * u + j) = Image(gen, (first + k) * CdSize + Header + j)
      BY <2>2, WantedIs
    <2>4. u = d
      BY <1>3, <2>2
    <2> QED
      BY <1>3, <2>1, <2>2, <2>3, <2>4
  <1>15. ASSUME NEW k \in 0 .. count - 1, NEW j \in 0 .. d - 1
         PROVE  /\ k < f => Image(gen, x + (part(k).off + j)) =
                       Wanted("2048", first, part(k).dst + j)
                /\ ~(k < f) => Image(gen, part(k).off + j) = Wanted("2048", first, part(k).dst + j)
    <2>1. (first + k) * c = x + k * c /\ k * c \in Nat /\ k * d \in Nat
      BY <1>6
    <2>2. PICK p \in Nat, z \in Nat : p = k * c /\ z = (first + k) * c /\ z = x + p
      BY <2>1
    <2>3. Wanted("2048", first, k * d + j) = Image(gen, z + h + j)
      <3>1. k \in Nat
        OBVIOUS
      <3>2. Wanted("2048", first, k * d + j) = Image(gen, (first + k) * c + h + j)
        BY <1>14, <3>1, Zenon
      <3> QED
        BY <2>2, <3>2, Zenon
    <2>4. part(k).dst = k * d /\ part(k).off = IF k < f THEN p + h ELSE z + h
      BY <1>5, <2>2
    <2>5. x + ((p + h) + j) = z + h + j
      BY <2>2
    <2> QED
      BY <2>3, <2>4, <2>5
  <1>16. ASSUME NEW t \in DOMAIN todo' PROVE JobRight(todo[t])'
    <2>1. CASE todo'[t] = raw
      <3>1. RawRead(todo[t])'
        BY <1>1, <1>2, <1>3, <1>6, <1>7, <2>1 DEF RawRead
      <3> QED
        BY <1>7, <2>1, <3>1 DEF JobRight
    <2>2. ASSUME NEW k \in 0 .. count - 1, todo'[t] = part(k) PROVE JobRight(todo[t])'
      <3>1. CASE k < f
        <4>1. todo'[t].to = "move" /\ todo'[t].size = d
          BY <1>5, <2>2, <3>1
        <4>2. \A j \in 0 .. todo'[t].size - 1 : Wants(todo[t].dst + j)' = Raw(todo[t].off + j)'
          BY <1>2, <1>3, <1>6, <1>15, <2>2, <3>1, <4>1
        <4>3. MoveOf(todo[t])'
          BY <1>1, <1>2, <4>2 DEF MoveOf
        <4> QED
          BY <4>1, <4>3 DEF JobRight
      <3>2. CASE ~(k < f)
        <4>1. todo'[t].to = "buf" /\ todo'[t].size = d
          BY <1>5, <2>2, <3>2
        <4>2. \A j \in 0 .. todo'[t].size - 1 :
                  Wants(todo[t].dst + j)' = Image(gen, todo'[t].off + j)
          BY <1>2, <1>15, <2>2, <3>2, <4>1
        <4>3. BufRead(todo[t])'
          BY <1>2, <4>2 DEF BufRead
        <4> QED
          BY <4>1, <4>3 DEF JobRight
      <3> QED
        BY <3>1, <3>2
    <2> QED
      BY <1>12, <2>1, <2>2
  <1>17. Order'
    <2>1. ASSUME NEW t \in DOMAIN todo'
          PROVE  /\ todo'[t].to = "raw" => t = 1
                 /\ todo'[t].to # "cache"
                 /\ todo'[t].to = "move" => \A s \in 1 .. t - 1 : Before(todo'[s], todo'[t])
      <3>1. CASE t = 1 /\ b = 1 /\ todo'[t] = raw
        BY <1>7, <3>1
      <3>2. ASSUME NEW k \in 0 .. count - 1, t = b + k + 1, todo'[t] = part(k)
            PROVE  /\ todo'[t].to # "raw" /\ todo'[t].to # "cache"
                   /\ todo'[t].to = "move" => \A s \in 1 .. t - 1 : Before(todo'[s], todo'[t])
        <4>1. todo'[t].to # "raw" /\ todo'[t].to # "cache"
          BY <1>5, <3>2
        <4>2. ASSUME k < f, NEW s \in 1 .. t - 1 PROVE Before(todo'[s], todo'[t])
          <5>1. s \in DOMAIN todo' /\ s < t
            BY <1>11, <2>1, <4>2
          <5>2. CASE todo'[s] = raw
            BY <1>7, <5>2 DEF Before
          <5>3. ASSUME NEW l \in 0 .. count - 1, s = b + l + 1, todo'[s] = part(l)
                PROVE  Before(todo'[s], todo'[t])
            <6>1. l < k /\ l < f
              BY <3>2, <4>2, <5>1, <5>3
            <6>2. part(l).to = "move" /\ part(l).dst = l * d /\ part(l).size = d
                  /\ part(k).off = k * c + h
              BY <1>5, <4>2, <6>1
            <6>3. l * d + d <= k * c + h
              <7>1. PICK e \in Nat, g \in Nat : k = l + 1 + e /\ c = d + g
                <8>1. k - (l + 1) \in Nat /\ k = l + 1 + (k - (l + 1)) /\ c - d \in Nat
                      /\ c = d + (c - d)
                  BY <1>3, <6>1
                <8> QED
                  BY <8>1
              <7>2. (l + 1 + e) * c = l * c + c + e * c /\ e * c \in Nat
                BY <7>1
              <7>3. l * (d + g) = l * d + l * g /\ l * g \in Nat /\ l * d \in Nat
                BY <7>1
              <7> QED
                BY <1>3, <7>1, <7>2, <7>3
            <6> QED
              BY <3>2, <5>3, <6>2, <6>3 DEF Before
          <5> QED
            BY <1>12, <5>1, <5>2, <5>3
        <4>3. todo'[t].to = "move" => k < f
          BY <1>5, <3>2
        <4> QED
          BY <4>1, <4>2, <4>3
      <3> QED
        BY <1>12, <2>1, <3>1, <3>2
    <2> QED
      BY <2>1 DEF Order, Before
  <1>18. ASSUME NEW i \in DOMAIN buf' PROVE Has(i)'
    <2>1. PICK k \in 0 .. count - 1, j \in 0 .. d - 1 : i = k * d + j
      BY <1>4, <1>13
    <2>2. PICK t \in DOMAIN todo' : todo'[t] = part(k)
      <3>1. b + k + 1 \in 1 .. b + count
        OBVIOUS
      <3> QED
        BY <1>11, <3>1
    <2>3. PICK z \in Nat : z = k * d
      OBVIOUS
    <2>4. todo'[t].to \in {"buf", "move"} /\ todo'[t].dst = z /\ todo'[t].size = d
      BY <1>5, <2>2, <2>3
    <2>5. Covers(todo'[t], i)
      BY <2>1, <2>3, <2>4 DEF Covers
    <2>6. \E v \in DOMAIN todo' : todo'[v].to \in {"buf", "move"} /\ Covers(todo'[v], i)
      BY <2>4, <2>5
    <2> QED
      BY <2>6 DEF Has, Covers
  \* The sectors that are moved lie in the raw read.
  <1>19. ASSUME NEW k \in 0 .. count - 1, k < f
         PROVE  /\ b = 1 /\ part(k).off \in Nat /\ part(k).off + d <= y
                /\ y <= count * d
    <2>1. PICK e \in Nat : f = k + 1 + e
      <3>1. f - (k + 1) \in Nat /\ f = k + 1 + (f - (k + 1))
        BY <1>19
      <3> QED
        BY <3>1
    <2>2. (k + 1 + e) * c = k * c + c + e * c /\ e * c \in Nat /\ k * c \in Nat
      BY <2>1
    <2>3. PICK p \in Nat, q \in Nat : p = k * c /\ q = e * c /\ y = p + c + q
      BY <1>6, <2>1, <2>2
    <2>4. part(k).off = p + h
      BY <1>5, <1>19, <2>3
    <2>5. b = 1
      BY <1>8, <1>9, <1>19
    <2>6. y <= count * d
      BY <1>3, <1>6
    <2> QED
      BY <1>3, <2>3, <2>4, <2>5, <2>6
  <1>20. ASSUME NEW t \in DOMAIN todo', todo'[t].to = "move"
         PROVE  \E k \in 0 .. count - 1 : k < f /\ todo'[t] = part(k)
    <2>1. todo'[t] # raw
      BY <1>7, <1>20
    <2> QED
      BY <1>5, <1>12, <1>20, <2>1
  <1>21. ASSUME NEW t \in DOMAIN todo', todo'[t].to = "move", NEW j \in 0 .. todo'[t].size - 1
         PROVE  Source(todo[t].off + j)'
    <2>1. PICK k \in 0 .. count - 1 : k < f /\ todo'[t] = part(k)
      BY <1>20, <1>21
    <2>2. todo'[t].size = d /\ todo'[t].off = part(k).off /\ part(k).off \in Nat
          /\ part(k).off + d <= y /\ b = 1
      BY <1>5, <1>19, <2>1
    <2>3. PICK i \in Nat : i = todo'[t].off + j
      BY <1>21, <2>2
    <2>4. i < y
      BY <1>21, <2>2, <2>3
    <2>5. 1 \in DOMAIN todo' /\ todo'[1] = raw
      BY <1>11, <2>2
    <2>6. todo'[1].to = "raw" /\ Covers(todo'[1], i)
      BY <1>7, <2>4, <2>5 DEF Covers
    <2>7. \E v \in DOMAIN todo' : todo'[v].to = "raw" /\ Covers(todo'[v], i)
      BY <2>5, <2>6
    <2> QED
      BY <2>3, <2>7 DEF Source, Covers
  <1>22. RoomInv'
    <2>1. ASSUME NEW t \in DOMAIN todo'
          PROVE  /\ todo'[t].to # "cache"
                 /\ (todo'[t].dst .. todo'[t].dst + todo'[t].size - 1) \subseteq DOMAIN buf'
                 /\ todo'[t].to = "move" =>
                       (todo'[t].off .. todo'[t].off + todo'[t].size - 1) \subseteq DOMAIN buf'
      <3>1. PICK total \in Nat : total = count * d /\ y <= total
        BY <1>3, <1>6
      <3>2. DOMAIN buf' = 0 .. total - 1
        BY <1>4, <3>1
      <3>3. CASE todo'[t] = raw
        BY <1>7, <3>1, <3>2, <3>3
      <3>4. ASSUME NEW k \in 0 .. count - 1, todo'[t] = part(k)
            PROVE  /\ todo'[t].to # "cache"
                   /\ (todo'[t].dst .. todo'[t].dst + todo'[t].size - 1) \subseteq DOMAIN buf'
                   /\ todo'[t].to = "move" =>
                         (todo'[t].off .. todo'[t].off + todo'[t].size - 1) \subseteq DOMAIN buf'
        <4>1. PICK z \in Nat : z = k * d /\ z + d <= total
          BY <1>13, <3>1
        <4>2. todo'[t].dst = z /\ todo'[t].size = d /\ todo'[t].to # "cache"
          BY <1>5, <3>4, <4>1
        <4>3. todo'[t].to = "move" => k < f
          BY <1>5, <3>4
        <4>4. k < f => todo'[t].off \in Nat /\ todo'[t].off + d <= total
          <5>1. SUFFICES ASSUME k < f PROVE todo'[t].off \in Nat /\ todo'[t].off + d <= total
            OBVIOUS
          <5>2. part(k).off \in Nat /\ part(k).off + d <= y
            BY <1>19, <5>1
          <5> QED
            BY <3>1, <3>4, <5>2
        <4>5. z .. z + d - 1 \subseteq 0 .. total - 1
          BY <4>1
        <4>6. ASSUME todo'[t].to = "move"
              PROVE  (todo'[t].off .. todo'[t].off + todo'[t].size - 1) \subseteq DOMAIN buf'
          <5>1. PICK o \in Nat : o = todo'[t].off /\ o + d <= total
            BY <4>3, <4>4, <4>6
          <5>2. o .. o + d - 1 \subseteq 0 .. total - 1
            BY <5>1
          <5> QED
            BY <3>2, <4>2, <5>1, <5>2
        <4> QED
          BY <3>2, <4>2, <4>5, <4>6
      <3> QED
        BY <1>12, <2>1, <3>3, <3>4
    <2> QED
      BY <2>1 DEF RoomInv, Within, Span
  <1>23. ~Filling'
    <2>1. todo' # << >> => 1 \in DOMAIN todo'
      BY <1>11 DEF Jobs
    <2>2. \A t \in DOMAIN todo' : todo'[t].to # "cache"
      BY <1>5, <1>7, <1>12
    <2> QED
      BY <2>1, <2>2 DEF Filling
  <1>24. Planned("2048", count)
    BY <1>3, <1>4, <1>11, <1>16, <1>17, <1>18, <1>21, <1>22, <1>23 DEF Planned
  <1> QED
    BY <1>1, <1>24, Commanded

\* What a command finds in the CD cache is the image, and the rest of it is missing.
LEMMA FromCacheIs ==
    ASSUME NEW first \in Nat, NEW count \in Nat, cached_cd_sector \in Nat \cup {None},
           DOMAIN cd_cache = 0 .. CD_CACHE_SIZE * CdSize - 1,
           cached_cd_sector # None =>
               \A i \in DOMAIN cd_cache : cd_cache[i] = Image(gen, cached_cd_sector * CdSize + i),
           NEW m, m = Missing(first, count), NEW b, b = FromCache(first, count)
    PROVE  /\ DOMAIN b = 0 .. count * CdSize - 1
           /\ \A i \in 0 .. count * CdSize - 1 :
                 \/ m[3] * CdSize <= i /\ i < (m[3] + m[2]) * CdSize
                 \/ b[i] = Image(gen, first * CdSize + i)
           /\ \A i \in DOMAIN b : b[i] = Junk \/ \E j \in DOMAIN cd_cache : b[i] = cd_cache[j]
  <1>1. PICK d \in Nat \ {0}, C \in Nat : d = CdSize /\ C = CD_CACHE_SIZE
    BY Sizes
  <1>2. CASE ~InCache(first, count)
    <2>1. m = <<first, count, 0>> /\ b = Buffer(count * d)
      BY <1>1, <1>2 DEF Missing, FromCache
    <2>2. m[3] * d = 0 /\ (m[3] + m[2]) * d = count * d
      BY <2>1
    <2>3. \A i \in DOMAIN b : b[i] = Junk
      BY <2>1 DEF Buffer
    <2> QED
      BY <1>1, <2>1, <2>2, <2>3, BufferIs
  <1>3. CASE InCache(first, count)
    <2>1. PICK c \in Nat, e \in Int :
            /\ c = cached_cd_sector /\ e = c - first /\ c # None
            /\ count <= C /\ e < C /\ -e < C
      BY <1>1, <1>3 DEF InCache
    <2>2. \A i \in 0 .. C * d - 1 : cd_cache[i] = Image(gen, c * d + i)
      BY <1>1, <2>1
    <2>3. PICK o : o = Overlap(first, count)
      OBVIOUS
    <2>4. o = IF e > 0
              THEN [to |-> e, from |-> 0, size |-> IF e < count THEN count - e ELSE 0]
              ELSE [to |-> 0, from |-> -e, size |-> Min({count, C + e})]
      BY <1>1, <2>1, <2>3 DEF Overlap
    <2>5. m = IF o.to > 0 THEN <<first, count - o.size, 0>>
              ELSE <<c + C, count - o.size, (c + C) - first>>
      BY <1>1, <1>3, <2>1, <2>3 DEF Missing
    <2>6. PICK to \in Nat, from \in Nat, size \in Nat :
            /\ to = o.to /\ from = o.from /\ size = o.size
            /\ (to = e /\ from = 0 /\ size = (IF e < count THEN count - e ELSE 0) /\ e > 0)
               \/ (to = 0 /\ from = -e /\ e <= 0
                   /\ size = (IF count <= C + e THEN count ELSE C + e))
      <3>1. CASE e > 0
        <4>1. o.to = e /\ o.from = 0 /\ o.size = IF e < count THEN count - e ELSE 0
          BY <2>4, <3>1
        <4>2. o.to \in Nat /\ o.from \in Nat /\ o.size \in Nat
          BY <3>1, <4>1
        <4> QED
          BY <3>1, <4>1, <4>2
      <3>2. CASE e <= 0
        <4>1. Min({count, C + e}) = IF count <= C + e THEN count ELSE C + e
          BY <2>1, MinOfTwo
        <4>2. ~(e > 0)
          BY <3>2
        <4>3. o.to = 0 /\ o.from = -e /\ o.size = Min({count, C + e})
          BY <2>4, <4>2
        <4>4. o.size = IF count <= C + e THEN count ELSE C + e
          BY <4>1, <4>3
        <4>5. o.to \in Nat /\ o.from \in Nat /\ o.size \in Nat
          BY <2>1, <3>2, <4>3, <4>4
        <4> QED
          BY <3>2, <4>3, <4>4, <4>5
      <3> QED
        BY <2>1, <3>1, <3>2
    <2>7. first + to = c + from /\ from + size <= C
      <3>1. CASE to = e /\ from = 0 /\ size = (IF e < count THEN count - e ELSE 0) /\ e > 0
        BY <2>1, <3>1
      <3>2. CASE to = 0 /\ from = -e /\ e <= 0
                 /\ size = (IF count <= C + e THEN count ELSE C + e)
        <4>1. from + size <= C
          BY <2>1, <3>2
        <4> QED
          BY <2>1, <3>2, <4>1
      <3> QED
        BY <2>6, <3>1, <3>2
    \* What is missing is before the overlap or after it.
    <2>8. /\ m[2] = count - size /\ m[2] \in Nat /\ m[3] \in Nat
          /\ to > 0 => m[3] = 0 /\ (m[2] = to \/ (size = 0 /\ m[2] = count))
          /\ to = 0 => (m[2] = 0 /\ size = count) \/ (m[3] = size /\ m[3] + m[2] = count)
      <3>1. CASE to > 0
        BY <2>1, <2>5, <2>6, <3>1
      <3>2. CASE to = 0
        <4>1. m[2] = count - size /\ m[3] = (c + C) - first
          BY <2>5, <2>6, <3>2
        <4> QED
          BY <2>1, <2>6, <3>2, <4>1
      <3> QED
        BY <3>1, <3>2
    <2>9. PICK at \in Nat, place \in Nat, n \in Nat :
            at = to * d /\ place = from * d /\ n = size * d
      OBVIOUS
    <2>10. b = Put(Buffer(count * d), at, [i \in 0 .. n - 1 |-> cd_cache[place + i]])
      BY <1>1, <1>3, <2>3, <2>6, <2>9 DEF FromCache
    <2>11. /\ DOMAIN b = 0 .. count * d - 1
           /\ \A i \in 0 .. count * d - 1 :
                 b[i] = IF i - at \in 0 .. n - 1 THEN cd_cache[place + (i - at)] ELSE Junk
      <3>1. PICK empty, data : /\ empty = Buffer(count * d)
                               /\ data = [i \in 0 .. n - 1 |-> cd_cache[place + i]]
        OBVIOUS
      <3>2. DOMAIN empty = 0 .. count * d - 1 /\ DOMAIN data = 0 .. n - 1
            /\ \A i \in 0 .. count * d - 1 : empty[i] = Junk
            /\ \A j \in 0 .. n - 1 : data[j] = cd_cache[place + j]
        BY <3>1 DEF Buffer
      <3>3. b = Put(empty, at, data)
        BY <2>10, <3>1
      <3>4. /\ DOMAIN b = DOMAIN empty
            /\ \A i \in DOMAIN empty :
                  b[i] = IF i - at \in DOMAIN data THEN data[i - at] ELSE empty[i]
        BY <3>3, PutIs
      <3> QED
        BY <3>2, <3>4
    <2>12. ASSUME NEW i \in 0 .. count * d - 1, i - at \in 0 .. n - 1
           PROVE  b[i] = Image(gen, first * d + i) /\ \E j \in 0 .. C * d - 1 : b[i] = cd_cache[j]
      <3>1. PICK j \in 0 .. n - 1 : j = i - at
        BY <2>12
      <3>2. place + j \in 0 .. C * d - 1
        <4>1. PICK g \in Nat : C = from + size + g
          <5>1. C - (from + size) \in Nat /\ C = from + size + (C - (from + size))
            BY <2>7
          <5> QED
            BY <5>1
        <4>2. (from + size + g) * d = from * d + size * d + g * d /\ g * d \in Nat
          BY <4>1
        <4> QED
          BY <2>9, <3>1, <4>1, <4>2
      <3>3. b[i] = Image(gen, c * d + (place + j))
        BY <2>2, <2>11, <2>12, <3>1, <3>2
      <3>4. c * d + (place + j) = first * d + i
        <4>1. (first + to) * d = first * d + to * d /\ (c + from) * d = c * d + from * d
          OBVIOUS
        <4>2. PICK x \in Nat, y \in Nat : x = c * d /\ y = first * d
          OBVIOUS
        <4>3. y + at = x + place
          BY <2>7, <2>9, <4>1, <4>2
        <4> QED
          BY <2>12, <3>1, <4>2, <4>3
      <3>5. b[i] = cd_cache[place + j]
        BY <2>11, <2>12, <3>1
      <3> QED
        BY <3>2, <3>3, <3>4, <3>5
    <2>13. ASSUME NEW i \in 0 .. count * d - 1, i - at \notin 0 .. n - 1
           PROVE  m[3] * d <= i /\ i < (m[3] + m[2]) * d
      <3>1. i \in Nat /\ (i < at \/ at + n <= i) /\ i < count * d
        BY <2>13
      <3>2. CASE to > 0
        <4>1. m[3] = 0 /\ m[3] * d = 0 /\ (m[3] + m[2]) * d = m[2] * d
          BY <2>8, <3>2
        <4>2. CASE m[2] = to
          <5>1. i < at
            <6>1. CASE size > 0
              <7>1. e < count /\ to + size = count
                BY <2>6, <3>2, <6>1
              <7>2. (to + size) * d = to * d + size * d
                OBVIOUS
              <7>3. at + n = count * d
                BY <2>9, <7>1, <7>2
              <7> QED
                BY <3>1, <7>3
            <6>2. CASE size = 0
              <7>1. to = count
                BY <2>8, <4>2, <6>2
              <7> QED
                BY <2>9, <3>1, <7>1
            <6> QED
              BY <6>1, <6>2
          <5> QED
            BY <2>9, <3>1, <4>1, <4>2, <5>1
        <4>3. CASE size = 0 /\ m[2] = count
          BY <3>1, <4>1, <4>3
        <4> QED
          BY <2>8, <3>2, <4>2, <4>3
      <3>3. CASE to = 0
        <4>1. at = 0 /\ n <= i
          BY <2>9, <3>1, <3>3
        <4>2. CASE m[2] = 0 /\ size = count
          BY <2>9, <3>1, <4>1, <4>2
        <4>3. CASE m[3] = size /\ m[3] + m[2] = count
          BY <2>9, <3>1, <4>1, <4>3
        <4> QED
          BY <2>8, <3>3, <4>2, <4>3
      <3> QED
        BY <3>2, <3>3
    <2> QED
      BY <1>1, <2>11, <2>12, <2>13
  <1> QED
    BY <1>2, <1>3

\* process_read_cd_2352_cmd_iso plans the fill that its gap needs, or a plain read.
LEMMA ReadCd2352Keeps ==
    ASSUME DiscInv, NEW first \in Nat, NEW count \in Nat, ReadCd2352(first, count)
    PROVE  DiscInv'
  <1>1. Given("2352", first, count) /\ kind = "cd"
    BY DEF ReadCd2352, Given
  <1>2. /\ todo = << >> /\ request'[1] = "2352" /\ kind' = kind /\ First' = first /\ Count' = count
        /\ gen' = gen /\ \A i : Wants(i)' = Wanted("2352", first, i)
        /\ Missing(First, Count)' = Missing(first, count) /\ cd_cache' = cd_cache
    BY <1>1, GivenIs
  <1>3. PICK d \in Nat \ {0} : d = CdSize /\ UnitOf("2352") = d
    BY Sizes DEF UnitOf
  <1>4. PICK m : m = Missing(first, count)
    OBVIOUS
  <1>5. m[1] \in Nat /\ m[2] \in Nat /\ m[3] \in Nat
    BY <1>1, <1>4, GivenIs, MissingIs
  <1>6. /\ DOMAIN buf' = 0 .. count * d - 1
        /\ \A i \in 0 .. count * d - 1 :
              \/ m[3] * d <= i /\ i < (m[3] + m[2]) * d
              \/ buf'[i] = Image(gen, first * d + i)
    <2>1. PICK b : b = FromCache(first, count)
      OBVIOUS
    <2>2. buf' = b
      BY <2>1 DEF ReadCd2352
    <2>3. /\ cached_cd_sector \in Nat \cup {None}
          /\ DOMAIN cd_cache = 0 .. CD_CACHE_SIZE * CdSize - 1
          /\ cached_cd_sector # None =>
                \A i \in DOMAIN cd_cache : cd_cache[i] = Image(gen, cached_cd_sector * CdSize + i)
      BY <1>1, GivenIs
    <2>4. /\ DOMAIN b = 0 .. count * CdSize - 1
          /\ \A i \in 0 .. count * CdSize - 1 :
                \/ m[3] * CdSize <= i /\ i < (m[3] + m[2]) * CdSize
                \/ b[i] = Image(gen, first * CdSize + i)
      BY <1>4, <2>1, <2>3, FromCacheIs
    <2> QED
      BY <1>3, <2>2, <2>4
  <1>7. \A i \in Nat : Wanted("2352", first, i) = Image(gen, first * d + i)
    BY <1>1, <1>3, RawUnits
  <1>8. todo' = CASE m[2] = 0 -> << >>
                  [] m[2] > 0 /\ count > CD_CACHE_SIZE ->
                       <<Reading(first * CdSize, count * CdSize, 0, "buf")>>
                  [] OTHER -> <<Reading(m[1] * CdSize, CD_CACHE_SIZE * CdSize, 0, "cache")>>
    BY <1>4 DEF ReadCd2352
  \* The CD cache held all of it.
  <1>9. CASE m[2] = 0
    <2>1. todo' = << >> /\ << >> \in Jobs /\ DOMAIN todo' = {}
      BY <1>8, <1>9 DEF Jobs
    <2>2. ASSUME NEW i \in DOMAIN buf' PROVE Has(i)'
      <3>1. PICK a \in Nat : a = m[3] * d
        BY <1>5
      <3>2. (m[3] + m[2]) * d = a
        BY <1>5, <1>9, <3>1
      <3>3. i \in Nat /\ ~(a <= i /\ i < a)
        BY <1>6, <2>2, <3>1
      <3>4. buf'[i] = Wants(i)'
        BY <1>2, <1>6, <1>7, <2>2, <3>1, <3>2, <3>3
      <3>5. NoRaw'
        BY <2>1 DEF NoRaw
      <3> QED
        BY <3>4, <3>5 DEF Has
    <2>3. Order' /\ RoomInv' /\ ~Filling'
      BY <2>1 DEF Order, RoomInv, Within, Filling
    <2>4. Planned("2352", count)
      BY <1>3, <1>6, <2>1, <2>2, <2>3 DEF Planned
    <2> QED
      BY <1>1, <2>4, Commanded
  \* More is wanted than the CD cache has room for: it is read into the buffer.
  <1>10. CASE m[2] > 0 /\ count > CD_CACHE_SIZE
    <2>1. PICK x \in Nat, n \in Nat : x = first * d /\ n = count * d
      OBVIOUS
    <2>2. todo' = <<Reading(x, n, 0, "buf")>>
      BY <1>3, <1>5, <1>8, <1>10, <2>1
    <2>3. \A j \in 0 .. n - 1 : Wanted("2352", first, j) = Image(gen, x + j)
      BY <1>7, <2>1
    <2>4. n = count * UnitOf("2352") /\ DOMAIN buf' = 0 .. n - 1
      BY <1>3, <1>6, <2>1
    <2>5. Planned("2352", count)
      BY <1>1, <2>2, <2>3, <2>4, OneRead
    <2> QED
      BY <1>1, <2>5, Commanded
  \* The CD cache is filled from the first missing sector on.
  <1>11. CASE m[2] > 0 /\ ~(count > CD_CACHE_SIZE)
    <2>1. PICK x \in Nat, n \in Nat : x = m[1] * d /\ n = CD_CACHE_SIZE * d
      BY <1>5, Sizes
    <2>2. PICK r \in Job : /\ r = Reading(x, n, 0, "cache")
                           /\ r.off = x /\ r.size = n /\ r.dst = 0 /\ r.to = "cache"
      <3>1. 0 \in Nat
        OBVIOUS
      <3> QED
        BY <3>1, ReadingIs
    <2>3. todo' = <<r>>
      BY <1>3, <1>5, <1>8, <1>11, <2>1, <2>2
    <2>4. <<r>> \in Seq(Job) /\ DOMAIN todo' = {1} /\ todo'[1] = r /\ Len(todo') = 1
          /\ todo' # << >>
      BY <2>3
    <2>5. Filling'
      BY <2>2, <2>4 DEF Filling
    <2>6. JobRight(r)'
      <3>1. count <= CD_CACHE_SIZE
        BY <1>11, Sizes
      <3>2. CacheRead(r)'
        BY <1>1, <1>2, <1>3, <1>4, <2>1, <2>2, <3>1 DEF CacheRead
      <3> QED
        BY <2>2, <3>2 DEF JobRight
    <2>7. Order'
      BY <2>2, <2>4 DEF Order
    <2>8. ASSUME NEW i \in DOMAIN buf' PROVE Has(i)'
      <3>1. CASE m[3] * d <= i /\ i < (m[3] + m[2]) * d
        <4>1. Gap(i)'
          BY <1>2, <1>3, <1>4, <3>1 DEF Gap
        <4> QED
          BY <2>5, <4>1 DEF Has
      <3>2. CASE buf'[i] = Image(gen, first * d + i)
        <4>1. i \in Nat
          BY <1>6, <2>8
        <4>2. buf'[i] = Wants(i)'
          BY <1>2, <1>7, <3>2, <4>1
        <4>3. NoRaw'
          BY <2>2, <2>4 DEF NoRaw
        <4> QED
          BY <4>2, <4>3 DEF Has
      <3> QED
        BY <1>6, <2>8, <3>1, <3>2
    <2>9. RoomInv'
      <3>1. DOMAIN cd_cache = 0 .. n - 1
        BY <1>1, <1>3, <2>1, GivenIs
      <3> QED
        BY <1>2, <2>2, <2>4, <3>1 DEF RoomInv, Within
    <2>10. Planned("2352", count)
      BY <1>3, <1>6, <2>2, <2>3, <2>4, <2>6, <2>7, <2>8, <2>9 DEF Planned, Jobs
    <2> QED
      BY <1>1, <2>10, Commanded
  <1> QED
    BY <1>5, <1>9, <1>10, <1>11

\* A command that fails for want of memory leaves no job, and the caches as they are.
LEMMA NoMemoryKeeps ==
    ASSUME DiscInv, NEW first \in Nat, NEW count \in Nat, ReadCdNoMemory(first, count)
    PROVE  DiscInv'
  <1>1. /\ status' = "failed" /\ status = "idle"
        /\ UNCHANGED <<kind, gen, todo, cd_cache, cached_cd_sector, faults>>
    BY DEF ReadCdNoMemory, cacheVars
  <1>2. todo = << >> /\ todo' = << >>
    BY <1>1 DEF DiscInv, TodoType
  <1>3. TodoType' /\ RequestOK' /\ PlanInv' /\ DataInv' /\ RoomInv'
    BY <1>1, <1>2 DEF DiscInv, TodoType, RequestOK, PlanInv, DataInv, RoomInv, Within
  <1>4. CacheInv'
    BY <1>1, <1>2 DEF DiscInv, CacheInv, Filling, Wrapped
  <1> QED
    BY <1>3, <1>4 DEF DiscInv

\* A command that finds sector 0 in a CD cache without a number takes it for what it is not,
\* and fills the cache from where its number would end: the hazard is named.
LEMMA WrappedBegins ==
    ASSUME DiscInv, NEW first \in Nat, NEW count \in Nat, ReadCdWrapped(first, count)
    PROVE  /\ DiscInv'
           /\ \A i \in DOMAIN buf' : i \in DOMAIN cd_cache /\ buf'[i] = cd_cache[i]
  <1>1. /\ kind = "cd" /\ first = 0 /\ count <= CD_CACHE_SIZE /\ cached_cd_sector = None
        /\ request' = <<"2352", first, count>> /\ status' = "busy" /\ faults' = {"wrapped"}
        /\ buf' = [i \in 0 .. count * CdSize - 1 |-> cd_cache[i]]
        /\ todo' = <<Reading(CD_CACHE_SIZE * CdSize, CD_CACHE_SIZE * CdSize, 0, "cache")>>
        /\ UNCHANGED <<kind, gen, cd_cache, cached_cd_sector>>
    BY DEF ReadCdWrapped, cacheVars
  <1>2. PICK d \in Nat, C \in Nat, n \in Nat, k \in Nat :
          d = CdSize /\ C = CD_CACHE_SIZE /\ n = C * d /\ k = count * d /\ k <= n
    <2>1. PICK d \in Nat, C \in Nat : d = CdSize /\ C = CD_CACHE_SIZE
      BY Sizes
    <2>2. count <= C
      BY <1>1, <2>1
    <2>3. count * d \in Nat /\ C * d \in Nat /\ count * d <= C * d
      BY <2>2
    <2> QED
      BY <2>1, <2>3
  <1>3. DOMAIN cd_cache = 0 .. n - 1 /\ kind \in Kinds
    BY <1>2 DEF DiscInv, CacheInv, RequestOK
  <1>4. DOMAIN buf' = 0 .. k - 1 /\ \A i \in DOMAIN buf' : buf'[i] = cd_cache[i]
    BY <1>1, <1>2
  <1>5. PICK r \in Job : /\ r = Reading(n, n, 0, "cache")
                         /\ r.off = n /\ r.size = n /\ r.dst = 0 /\ r.to = "cache"
    <2>1. 0 \in Nat
      OBVIOUS
    <2> QED
      BY <1>2, <2>1, ReadingIs
  <1>6. todo' = <<r>>
    BY <1>1, <1>2, <1>5
  <1>7. todo' \in Jobs /\ DOMAIN todo' = {1} /\ todo'[1] = r /\ Len(todo') = 1
    <2>1. <<r>> \in Seq(Job) /\ DOMAIN <<r>> = {1} /\ <<r>>[1] = r /\ Len(<<r>>) = 1
      OBVIOUS
    <2> QED
      BY <1>6, <2>1 DEF Jobs
  <1>8. faults' # {} /\ Wrapped'
    BY <1>1 DEF Wrapped
  <1>9. /\ request' \in {"iso", "2048", "2352"} \X Nat \X Nat
        /\ request'[1] = "2352" /\ request'[3] = count
    BY <1>1
  <1>10. RequestOK'
    <2>1. "2352" \in OpsOf["cd"] /\ UnitOf("2352") = CdSize
      BY DEF OpsOf, UnitOf
    <2> QED
      BY <1>1, <1>2, <1>3, <1>4, <1>9, <2>1 DEF RequestOK, Count
  <1>11. TodoType'
    BY <1>1, <1>7 DEF TodoType
  <1>12. PlanInv'
    <2>1. r.dst + r.size = CD_CACHE_SIZE * CdSize
      BY <1>2, <1>5
    <2>2. CacheRead(r)'
      BY <1>1, <1>8, <1>9, <2>1 DEF CacheRead, Count
    <2>3. JobRight(r)'
      BY <1>5, <2>2 DEF JobRight
    <2>4. Order'
      BY <1>5, <1>7 DEF Order
    <2> QED
      BY <1>7, <2>3, <2>4 DEF PlanInv
  <1>13. DataInv'
    BY <1>8 DEF DataInv
  <1>14. CacheInv'
    BY <1>1, <1>2, <1>3, <1>8 DEF CacheInv
  <1>15. RoomInv'
    <2>1. 0 .. 0 + n - 1 \subseteq 0 .. n - 1
      BY <1>2
    <2>2. cd_cache' = cd_cache
      BY <1>1
    <2> QED
      BY <1>3, <1>5, <1>7, <2>1, <2>2 DEF RoomInv, Within
  <1>16. \A i \in DOMAIN buf' : i \in DOMAIN cd_cache
    BY <1>2, <1>3, <1>4
  <1> QED
    BY <1>4, <1>10, <1>11, <1>12, <1>13, <1>14, <1>15, <1>16 DEF DiscInv

\* A command keeps the invariant, whichever it is.
LEMMA CommandKeeps == ASSUME DiscInv, Command PROVE DiscInv'
  <1>1. PICK r \in Requests :
          \/ r[1] = "iso"  /\ ReadIso(r[2], r[3])
          \/ r[1] = "2048" /\ ReadCd2048(r[2], r[3])
          \/ r[1] = "2352" /\ ReadCd2352(r[2], r[3])
          \/ r[1] = "2352" /\ ReadCdNoMemory(r[2], r[3])
          \/ r[1] = "2352" /\ ReadCdWrapped(r[2], r[3])
          \/ ReadPsx(r[1], r[2], r[3])
    BY DEF Command
  <1>2. r[1] \in {"iso", "2048", "2352"} /\ r[2] \in Nat /\ r[3] \in Nat
    BY CommandsAssumption
  <1> QED
    BY <1>1, <1>2, ReadIsoKeeps, ReadCd2048Keeps, ReadCd2352Keeps, NoMemoryKeeps, WrappedBegins,
       ReadPsxKeeps

\* So does a step that changes nothing.
LEMMA DiscStutters == ASSUME DiscInv, UNCHANGED rawVars PROVE DiscInv'
  <1>1. /\ PlanKept /\ UNCHANGED <<todo, status, buf, cd_cache, faults>>
    BY DEF rawVars, PlanKept, Wrapped, cacheVars
  <1>2. TodoType' /\ RequestOK' /\ RoomInv'
    BY <1>1 DEF DiscInv, TodoType, RequestOK, RoomInv, Within, PlanKept, Wrapped, Count
  <1>3. PlanInv'
    BY <1>1, PlanSame DEF DiscInv, PlanInv, Order
  <1>4. /\ \A i : Has(i)' <=> Has(i)
        /\ \A i : Source(i)' <=> Source(i)
    BY <1>1, PlanSame DEF Has, Source, NoRaw, Filling
  <1>5. DataInv'
    BY <1>1, <1>4 DEF DiscInv, DataInv
  <1>6. CacheInv'
    BY <1>1, PlanSame DEF DiscInv, CacheInv, Filling, PlanKept, Wrapped
  <1> QED
    BY <1>2, <1>3, <1>5, <1>6 DEF DiscInv

\* The invariant: what a command wants is in the buffer, is to be read or moved there, or is
\* what the CD cache is being filled with.
THEOREM DiscInvariant == DiscSpec => []DiscInv
  <1>1. DiscInit => DiscInv
    BY BeginsRight DEF DiscInit, Begins
  <1>2. DiscInv /\ [DiscNext]_rawVars => DiscInv'
    <2>1. SUFFICES ASSUME DiscInv, [DiscNext]_rawVars PROVE DiscInv'
      OBVIOUS
    <2>2. CASE Command
      BY <2>1, <2>2, CommandKeeps
    <2>3. CASE Nothing \/ ReadPartial \/ ReadWhole
      BY <2>1, <2>3, ReadsKeep
    <2>4. CASE DeviceFails
      BY <2>1, <2>4, DeviceFailsKeeps
    <2>5. CASE ReadOver
      BY <2>1, <2>5, ReadOverKeeps, RefilledKeeps, WrappedKeeps
    <2>6. CASE Move
      BY <2>1, <2>6, MoveKeeps
    <2>7. CASE Answer
      BY <2>1, <2>7, AnswerKeeps
    <2>8. CASE Over
      BY <2>1, <2>8, OverKeeps
    <2>9. CASE Replace
      BY <2>1, <2>9, ReplaceKeeps
    <2>10. CASE Reload
      BY <2>1, <2>10, ReloadKeeps
    <2>11. CASE UNCHANGED rawVars
      BY <2>1, <2>11, DiscStutters
    <2> QED
      BY <2>1, <2>2, <2>3, <2>4, <2>5, <2>6, <2>7, <2>8, <2>9, <2>10, <2>11 DEF DiscNext
  <1> QED
    BY <1>1, <1>2, PTL DEF DiscSpec

\* A command that is answered OK has delivered the image, unit for unit, whatever lies in
\* the caches (main.c:331-843), where no hazard of faults has been met.
THEOREM DataIsRight == DiscSpec => []DataRight
  <1>1. DiscInv => DataRight
    <2>1. SUFFICES ASSUME DiscInv, status = "ok", faults = {}, NEW i \in DOMAIN buf
                   PROVE  buf[i] = Wanted(request[1], request[2], i)
      BY DEF DataRight
    <2>2. Has(i) /\ TodoType /\ todo = << >>
      BY <2>1 DEF DiscInv, DataInv, TodoType
    <2>3. buf[i] = Wants(i)
      BY <2>2, NothingToDo DEF Has
    <2> QED
      BY <2>3 DEF Wants, First
  <1> QED
    BY <1>1, DiscInvariant, PTL

\* Between its fillings the CD cache holds the sectors of the image that its number says
\* (main.c:837-841).
THEOREM CdCacheIsRight == DiscSpec => []CdCacheRight
  <1>1. DiscInv => CdCacheRight
    <2>1. SUFFICES ASSUME DiscInv, cached_cd_sector # None, faults = {},
                          \A i \in DOMAIN todo : todo[i].to # "cache",
                          NEW i \in DOMAIN cd_cache
                   PROVE  cd_cache[i] = Image(gen, cached_cd_sector * CdSize + i)
      BY DEF CdCacheRight
    <2>2. ~Filling
      BY <2>1, TodoIs DEF DiscInv, TodoType, Filling
    <2> QED
      BY <2>1, <2>2 DEF DiscInv, CacheInv
  <1> QED
    BY <1>1, DiscInvariant, PTL

(***************************************************************************)
(* The types: every buffer holds units of a device, zeros or junk.         *)
(***************************************************************************)

Cells == Units \cup {Zero, Junk}

\* What is not in the invariant yet.
TypePart ==
    /\ gen \in 0 .. MaxGen /\ fails \in 0 .. MaxFails /\ cd_allocated \in BOOLEAN
    /\ BufferOK(buf) /\ BufferOK(cd_cache)
    /\ last_sect \in Nat \cup {None} /\ last_sect_buf \in ((0 .. MaxGen) \X Nat) \cup {<< >>}
    /\ faults \subseteq FaultKinds

\* A buffer of units is one still once units are copied into it.
LEMMA BufferFilled ==
    ASSUME NEW b, BufferOK(b), NEW at \in Nat, NEW data, \A j \in DOMAIN data : data[j] \in Cells
    PROVE  BufferOK(Put(b, at, data))
  <1>1. /\ DOMAIN Put(b, at, data) = DOMAIN b
        /\ \A i \in DOMAIN b :
              Put(b, at, data)[i] = IF i - at \in DOMAIN data THEN data[i - at] ELSE b[i]
    BY PutIs
  <1> QED
    BY <1>1 DEF BufferOK, Cells

\* A new buffer holds junk.
LEMMA BufferNew == ASSUME NEW n PROVE BufferOK(Buffer(n))
  BY DEF BufferOK, Buffer

\* What a sector of the device holds is a unit.
LEMMA ValueIs ==
    ASSUME NEW g \in 0 .. MaxGen, NEW sector \in Nat, NEW i \in 0 .. SectorSize - 1
    PROVE  Value(g, sector, i) \in Cells
  BY DEF Value, Cells, Units

\* A sector that is read is one of the device.
LEMMA SectorIs ==
    ASSUME todo \in Jobs, NEW at \in Reads, ~Past(at)
    PROVE  Sector(at) \in Nat /\ Skew(at) \in 0 .. SectorSize - 1 /\ at.readsize \in Nat \ {0}
  <1>1. /\ todo # << >> /\ Cur.to # "move" /\ Cur.size > 0
        /\ at = NextRead(Cur.off, Cur.size)
    BY DEF Reads
  <1>2. Cur \in Job
    BY <1>1, TodoIs
  <1>3. PICK off \in Nat, size \in Nat : off = Cur.off /\ size = Cur.size /\ size > 0
    BY <1>1, <1>2, JobFields
  <1>4. PICK s \in SectionsAt(off) :
          /\ at.idx = s /\ at.pos \in Nat /\ s \in DOMAIN sections
          /\ sections[s][1] # Hole /\ at.readsize \in 1 .. size
    BY <1>1, <1>3, NextReadIs
  <1>5. sections[s][1] \in Nat
    BY <1>4, SectionsAssumption
  <1>6. PICK pos \in Nat, u \in Nat \ {0} : pos = at.pos /\ u = SectorSize
    BY <1>4, Sizes
  <1>7. pos \div u \in Nat /\ pos % u \in 0 .. u - 1
    BY Division
  <1>8. Sector(at) = sections[s][1] + pos \div u /\ Skew(at) = pos % u
    BY <1>4, <1>6 DEF Sector, Skew
  <1> QED
    BY <1>4, <1>5, <1>6, <1>7, <1>8

\* A read leaves units in the buffers.
LEMMA PutsAre ==
    ASSUME TypePart, todo \in Jobs, todo # << >>, NEW data,
           \A j \in DOMAIN data : data[j] \in Cells,
           PutTo(Cur, data)
    PROVE  BufferOK(buf') /\ BufferOK(cd_cache')
  <1>1. Cur \in Job
    BY TodoIs
  <1>2. Cur.dst \in Nat
    BY <1>1, JobFields
  <1> QED
    BY <1>2, BufferFilled DEF TypePart, PutTo

\* What sectors hold are units.
LEMMA ContentIs ==
    ASSUME NEW sector \in Nat, NEW n \in Nat, gen \in 0 .. MaxGen
    PROVE  \A j \in DOMAIN Content(sector, n) : Content(sector, n)[j] \in Cells
  <1>1. ASSUME NEW j \in 0 .. n * SectorSize - 1
        PROVE  Value(gen, sector + j \div SectorSize, j % SectorSize) \in Cells
    <2>1. j \in Nat /\ SectorSize \in Nat \ {0}
      BY <1>1, Sizes
    <2>2. j \div SectorSize \in Nat /\ j % SectorSize \in 0 .. SectorSize - 1
      BY <2>1, Division, Zenon
    <2>3. sector + j \div SectorSize \in Nat
      BY <2>2
    <2> QED
      BY <2>2, <2>3, ValueIs
  <1> QED
    BY <1>1 DEF Content

\* A read keeps the types: its sector is the device's, and the cached sector is whole.
LEMMA TypeReads ==
    ASSUME TypePart, todo \in Jobs, Nothing \/ ReadPartial \/ ReadWhole
    PROVE  TypePart'
  <1>1. CASE Nothing
    <2>1. PICK at \in Reads : PutTo(Cur, [i \in 0 .. at.readsize - 1 |-> Zero])
      BY <1>1 DEF Nothing
    <2>2. PICK data : data = [i \in 0 .. at.readsize - 1 |-> Zero]
      OBVIOUS
    <2>3. (\A j \in DOMAIN data : data[j] \in Cells) /\ PutTo(Cur, data) /\ todo # << >>
      BY <2>1, <2>2 DEF Cells, Reads
    <2>4. BufferOK(buf') /\ BufferOK(cd_cache')
      BY <2>3, PutsAre
    <2>5. UNCHANGED <<gen, fails, cd_allocated, last_sect, last_sect_buf, faults>>
      BY <1>1 DEF Nothing, cacheVars
    <2> QED
      BY <2>4, <2>5 DEF TypePart
  <1>2. CASE ReadPartial
    <2>1. PICK at \in Reads :
            /\ Partial(at)
            /\ \E sector \in {Sector(at)}, skew \in {Skew(at)}, n \in {PartSize(at)} :
                 /\ \E held \in {SectorHeld(sector)} :
                      /\ PutTo(Cur, [i \in 0 .. n - 1 |->
                            IF held = << >> THEN Junk ELSE Value(held[1], held[2], skew + i)])
                      /\ last_sect_buf' = held
                      /\ faults' = faults \cup Misread(held, sector)
                 /\ last_sect' = sector
      BY <1>2 DEF ReadPartial
    <2>2. PICK sector, skew, n, held :
            /\ sector = Sector(at) /\ skew = Skew(at) /\ n = PartSize(at)
            /\ held = SectorHeld(sector)
            /\ PutTo(Cur, [i \in 0 .. n - 1 |->
                  IF held = << >> THEN Junk ELSE Value(held[1], held[2], skew + i)])
            /\ last_sect_buf' = held /\ last_sect' = sector
            /\ faults' = faults \cup Misread(held, sector)
      BY <2>1
    <2>3. /\ sector \in Nat /\ skew \in 0 .. SectorSize - 1 /\ SectorSize \in Nat
          /\ at.readsize \in Nat
          /\ todo # << >>
      BY <2>1, <2>2, SectorIs, Sizes DEF Partial, Reads
    <2>4. n \in Int /\ n <= SectorSize - skew
      BY <2>2, <2>3, MinOfTwo DEF PartSize
    <2>5. held \in ((0 .. MaxGen) \X Nat) \cup {<< >>}
      BY <2>2, <2>3 DEF SectorHeld, TypePart
    <2>6. PICK data : data = [i \in 0 .. n - 1 |->
                               IF held = << >> THEN Junk ELSE Value(held[1], held[2], skew + i)]
      OBVIOUS
    <2>7. ASSUME NEW j \in DOMAIN data PROVE data[j] \in Cells
      <3>1. j \in 0 .. n - 1 /\ skew + j \in 0 .. SectorSize - 1
        BY <2>3, <2>4, <2>6, <2>7
      <3>2. CASE held = << >>
        BY <2>6, <3>1, <3>2 DEF Cells
      <3>3. CASE held # << >>
        <4>1. held[1] \in 0 .. MaxGen /\ held[2] \in Nat
          BY <2>5, <3>3
        <4>2. data[j] = Value(held[1], held[2], skew + j)
          BY <2>6, <3>1, <3>3
        <4> QED
          BY <3>1, <4>1, <4>2, ValueIs
      <3> QED
        BY <3>2, <3>3
    <2>8. BufferOK(buf') /\ BufferOK(cd_cache')
      BY <2>2, <2>3, <2>6, <2>7, PutsAre
    <2>9. faults' \subseteq FaultKinds /\ UNCHANGED <<gen, fails, cd_allocated>>
      BY <1>2, <2>2 DEF Misread, FaultKinds, TypePart, ReadPartial
    <2> QED
      BY <2>2, <2>3, <2>5, <2>8, <2>9 DEF TypePart
  <1>3. CASE ReadWhole
    <2>1. PICK at \in Reads :
            /\ Whole(at)
            /\ \E sector \in {Sector(at)}, n \in {at.readsize \div SectorSize} :
                 /\ PutTo(Cur, Content(sector, n))
                 /\ last_sect' = LastOfWhole(sector, n)
      BY <1>3 DEF ReadWhole
    <2>2. PICK sector, n : sector = Sector(at) /\ n = at.readsize \div SectorSize
            /\ PutTo(Cur, Content(sector, n))
            /\ last_sect' = LastOfWhole(sector, n)
      BY <2>1
    <2>3. sector \in Nat /\ todo # << >>
      BY <2>1, <2>2, SectorIs DEF Whole, Reads
    <2>4. n \in Nat /\ n * SectorSize >= 1
      <3>1. WholeRight(todo[1].off, at)
        BY <2>1, ReadsAre
      <3> QED
        BY <2>2, <3>1 DEF WholeRight
    <2>5. n >= 1
      BY <2>4, Sizes
    <2>6. PICK data : data = Content(sector, n) /\ \A j \in DOMAIN data : data[j] \in Cells
      BY <2>3, <2>4, ContentIs DEF TypePart
    <2>8. BufferOK(buf') /\ BufferOK(cd_cache')
      BY <2>2, <2>3, <2>6, PutsAre
    <2>9. last_sect' \in Nat
      BY <2>2, <2>3, <2>4, <2>5 DEF LastOfWhole
    <2>10. UNCHANGED <<gen, fails, cd_allocated, last_sect_buf, faults>>
      BY <1>3 DEF ReadWhole
    <2> QED
      BY <2>8, <2>9, <2>10 DEF TypePart
  <1> QED
    BY <1>1, <1>2, <1>3

\* A read of the device that fails keeps the types: what has arrived are units, and the
\* one-sector buffer is of a sector or of none.
LEMMA TypeFails == ASSUME TypePart, todo \in Jobs, DeviceFails PROVE TypePart'
  <1>1. PICK at \in Reads : \E n \in Arrived(at) :
            /\ Whole(at) \/ Partial(at)
            /\ fails < MaxFails /\ fails' = fails + 1
            /\ last_sect' = None /\ last_sect_buf' \in PartArrived(at)
            /\ PutTo(Cur, Content(Sector(at), n))
            /\ faults' = faults \cup (IF Ignored THEN {"ignored"} ELSE {})
                                \cup (IF Torn(n) THEN {"torn"} ELSE {})
            /\ UNCHANGED <<gen, cd_allocated>>
    BY DEF DeviceFails
  <1>2. PICK n \in Nat : PutTo(Cur, Content(Sector(at), n))
    <2>1. \A n \in Arrived(at) : n \in Nat
      BY DEF Arrived
    <2> QED
      BY <1>1, <2>1
  <1>3. Sector(at) \in Nat /\ todo # << >>
    BY <1>1, SectorIs DEF Whole, Partial, Reads
  <1>4. \A j \in DOMAIN Content(Sector(at), n) : Content(Sector(at), n)[j] \in Cells
    BY <1>3, ContentIs DEF TypePart
  <1>5. BufferOK(buf') /\ BufferOK(cd_cache')
    BY <1>2, <1>3, <1>4, PutsAre
  <1>6. last_sect_buf' \in ((0 .. MaxGen) \X Nat) \cup {<< >>}
    BY <1>1, <1>3 DEF PartArrived, TypePart
  <1>7. fails' \in 0 .. MaxFails
    BY <1>1, SizesAssumption DEF TypePart
  <1>8. faults' \subseteq FaultKinds
    BY <1>1 DEF TypePart, FaultKinds
  <1> QED
    BY <1>1, <1>5, <1>6, <1>7, <1>8 DEF TypePart

\* A command keeps the types: its buffer is new, or copied from the CD cache.
LEMMA TypeCommand == ASSUME DiscInv, TypePart, Command PROVE TypePart'
  <1>2. PICK r \in Requests :
          \/ r[1] = "iso"  /\ ReadIso(r[2], r[3])
          \/ r[1] = "2048" /\ ReadCd2048(r[2], r[3])
          \/ r[1] = "2352" /\ ReadCd2352(r[2], r[3])
          \/ r[1] = "2352" /\ ReadCdNoMemory(r[2], r[3])
          \/ r[1] = "2352" /\ ReadCdWrapped(r[2], r[3])
          \/ ReadPsx(r[1], r[2], r[3])
    BY DEF Command
  <1>6. /\ UNCHANGED <<gen, fails, last_sect, last_sect_buf, cd_cache>>
        /\ faults' = faults \/ faults' = {"wrapped"}
    BY <1>2 DEF ReadIso, ReadCd2048, ReadCd2352, ReadCdNoMemory, ReadCdWrapped, ReadPsx, cacheVars
  <1>7. cd_allocated' \in BOOLEAN
    BY <1>2, Zenon DEF ReadIso, ReadCd2048, ReadCd2352, ReadCdNoMemory, ReadCdWrapped, ReadPsx,
       TypePart
  <1>1. SUFFICES BufferOK(buf')
    BY <1>6, <1>7 DEF TypePart, FaultKinds
  <1>3. r[1] \in {"iso", "2048", "2352"} /\ r[2] \in Nat /\ r[3] \in Nat
    BY CommandsAssumption
  <1>4. CASE ReadCd2352(r[2], r[3])
    <2>1. PICK b, m : b = FromCache(r[2], r[3]) /\ m = Missing(r[2], r[3])
      OBVIOUS
    <2>2. Given("2352", r[2], r[3])
      BY <1>3, <1>4 DEF ReadCd2352, Given
    <2>3. /\ cached_cd_sector \in Nat \cup {None}
          /\ DOMAIN cd_cache = 0 .. CD_CACHE_SIZE * CdSize - 1
          /\ cached_cd_sector # None =>
                \A i \in DOMAIN cd_cache : cd_cache[i] = Image(gen, cached_cd_sector * CdSize + i)
      BY <2>2, GivenIs
    <2>4. \A i \in DOMAIN b : b[i] = Junk \/ \E j \in DOMAIN cd_cache : b[i] = cd_cache[j]
      BY <1>3, <2>1, <2>3, FromCacheIs
    <2>5. buf' = b
      BY <1>4, <2>1 DEF ReadCd2352
    <2> QED
      BY <2>4, <2>5 DEF TypePart, BufferOK
  <1>5. CASE ~ReadCd2352(r[2], r[3]) /\ ~ReadCdWrapped(r[2], r[3])
    <2>1. \E n : buf' = Buffer(n)
      BY <1>2, <1>5 DEF ReadIso, ReadCd2048, ReadCdNoMemory, ReadPsx
    <2> QED
      BY <2>1, BufferNew
  <1>8. CASE ReadCdWrapped(r[2], r[3])
    BY <1>3, <1>8, WrappedBegins DEF TypePart, BufferOK
  <1> QED
    BY <1>4, <1>5, <1>8

\* The end of a job keeps the types: what it copies comes from a buffer of units.
LEMMA TypeWithin ==
    ASSUME DiscInv, TypePart, ReadOver \/ Move
    PROVE  TypePart'
  <1>1. todo \in Jobs /\ todo # << >> /\ RoomInv
    BY DEF DiscInv, TodoType, ReadOver, Move
  <1>2. PICK r \in Job : r = todo[1] /\ r = Cur
    BY <1>1, TodoIs
  <1>3. UNCHANGED <<gen, fails, cd_allocated, cd_cache, last_sect, last_sect_buf, faults>>
    BY DEF ReadOver, Move, cacheVars
  <1>4. SUFFICES BufferOK(buf')
    BY <1>3 DEF TypePart
  <1>5. CASE ReadOver /\ r.to # "cache"
    BY <1>2, <1>5 DEF ReadOver, TypePart
  <1>8. CASE ReadOver /\ r.to = "cache" /\ Wrapped
    BY <1>2, <1>8, WrappedKeeps DEF TypePart
  <1>6. CASE ReadOver /\ r.to = "cache" /\ ~Wrapped
    <2>1. PICK at \in Nat, n \in Nat : /\ buf' = Put(buf, at, [i \in 0 .. n - 1 |-> cd_cache[i]])
                                       /\ 0 .. n - 1 \subseteq DOMAIN cd_cache
      BY <1>2, <1>6, RefilledKeeps DEF RefillFits
    <2>2. PICK data : data = [i \in 0 .. n - 1 |-> cd_cache[i]]
      OBVIOUS
    <2>3. \A j \in DOMAIN data : data[j] \in Cells
      BY <2>1, <2>2 DEF TypePart, BufferOK, Cells
    <2> QED
      BY <2>1, <2>2, <2>3, BufferFilled DEF TypePart
  <1>7. CASE Move
    <2>1. PICK data : data = [i \in 0 .. r.size - 1 |-> buf[r.off + i]]
      OBVIOUS
    <2>2. r.off \in Nat /\ r.size \in Nat /\ r.dst \in Nat
      BY JobFields
    <2>3. buf' = Put(buf, r.dst, data) /\ r.to = "move"
      BY <1>2, <1>7, <2>1 DEF Move
    <2>4. Span(r.off, r.size) \subseteq DOMAIN buf
      BY <1>1, <1>2, <2>3, TodoIs DEF RoomInv
    <2>5. ASSUME NEW j \in DOMAIN data PROVE data[j] \in Cells
      <3>1. j \in 0 .. r.size - 1 /\ data[j] = buf[r.off + j]
        BY <2>1, <2>5
      <3>2. r.off + j \in Span(r.off, r.size)
        BY <2>2, <3>1 DEF Span
      <3> QED
        BY <2>4, <3>1, <3>2 DEF TypePart, BufferOK, Cells
    <2> QED
      BY <2>2, <2>3, <2>5, BufferFilled DEF TypePart
  <1> QED
    BY <1>5, <1>6, <1>7, <1>8

\* The buffers the plugin starts with hold junk.
LEMMA TypeBegins ==
    ASSUME Start(kind, status, buf, todo), cd_cache = Buffer(CD_CACHE_SIZE * CdSize)
    PROVE  BufferOK(buf) /\ BufferOK(cd_cache)
  <1>1. buf = << >> \/ buf = Buffer(DetectSize)
    BY DEF Start
  <1>2. BufferOK(<< >>)
    BY DEF BufferOK
  <1> QED
    BY <1>1, <1>2, BufferNew

\* The types hold where the plugin starts.
LEMMA TypeInit == DiscInit => TypePart
  <1>1. ASSUME DiscInit PROVE gen \in 0 .. MaxGen /\ fails \in 0 .. MaxFails
    BY <1>1, SizesAssumption DEF DiscInit
  <1>2. ASSUME DiscInit PROVE BufferOK(buf) /\ BufferOK(cd_cache)
    BY <1>2, TypeBegins DEF DiscInit
  <1>3. ASSUME DiscInit PROVE /\ last_sect \in Nat \cup {None} /\ last_sect_buf = << >>
                              /\ faults = {} /\ cd_allocated = FALSE
    BY <1>3 DEF DiscInit
  <1> QED
    BY <1>1, <1>2, <1>3 DEF TypePart

\* They hold where it starts again.
LEMMA TypeReload == ASSUME TypePart, Reload PROVE TypePart'
  <1>1. Start(kind, status, buf, todo)' /\ (cd_cache = Buffer(CD_CACHE_SIZE * CdSize))'
    BY DEF Reload, Start
  <1>2. BufferOK(buf') /\ BufferOK(cd_cache')
    <2>1. buf' = << >> \/ buf' = Buffer(DetectSize)
      BY <1>1 DEF Start
    <2>2. BufferOK(<< >>)
      BY DEF BufferOK
    <2> QED
      BY <1>1, <2>1, <2>2, BufferNew
  <1>3. gen' \in 0 .. MaxGen /\ fails' = fails
    BY SizesAssumption DEF Reload
  <1>4. /\ last_sect' \in Nat \cup {None} /\ last_sect_buf' = << >>
        /\ faults' = {} /\ cd_allocated' = FALSE
    BY DEF Reload
  <1> QED
    BY <1>2, <1>3, <1>4 DEF TypePart

\* The types of the reads' state: every unit of a buffer is one of a device, or Zero or Junk.
THEOREM DiscTypeCorrect == DiscSpec => []DiscTypeOK
  <1>1. DiscInit => TypePart
    BY TypeInit
  <1>2. DiscInv /\ TypePart /\ [DiscNext]_rawVars => TypePart'
    <2>1. SUFFICES ASSUME DiscInv, TypePart, [DiscNext]_rawVars PROVE TypePart'
      OBVIOUS
    <2>2. CASE Command
      BY <2>1, <2>2, TypeCommand
    <2>3. CASE Nothing \/ ReadPartial \/ ReadWhole
      BY <2>1, <2>3, TypeReads DEF DiscInv, TodoType
    <2>4. CASE DeviceFails
      BY <2>1, <2>4, TypeFails DEF DiscInv, TodoType
    <2>5. CASE ReadOver \/ Move
      BY <2>1, <2>5, TypeWithin
    <2>6. CASE Answer \/ Replace
      BY <2>1, <2>6, SizesAssumption DEF Answer, Replace, TypePart, cacheVars
    <2>7. CASE Over
      BY <2>1, <2>7 DEF Over, TypePart, cacheVars, BufferOK
    <2>8. CASE Reload
      BY <2>1, <2>8, TypeReload
    <2>9. CASE UNCHANGED rawVars
      BY <2>1, <2>9 DEF rawVars, TypePart, cacheVars
    <2> QED
      BY <2>1, <2>2, <2>3, <2>4, <2>5, <2>6, <2>7, <2>8, <2>9 DEF DiscNext
  <1>3. DiscInv /\ TypePart => DiscTypeOK
    BY DEF DiscInv, RequestOK, CacheInv, TypePart, DiscTypeOK
  <1> QED
    BY <1>1, <1>2, <1>3, DiscInvariant, PTL DEF DiscSpec

\* No read of the device, move within the buffer or fill of the CD cache goes past the end of
\* the buffer it is for (main.c:331-843).  The copies from the CD cache are not jobs: those of
\* "wrapped" do go past it (main.c:796, :837).
THEOREM ReadsStayWithin == DiscSpec => []Within
  BY DiscInvariant, PTL DEF DiscInv, RoomInv

=============================================================================
