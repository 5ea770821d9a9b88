------------------------------ MODULE RawSecIso ------------------------------
(***************************************************************************)
(* The threads of the raw ISO plugin, src/rawseciso/main.c.                *)
(*                                                                         *)
(* The main thread receives read commands from an event queue, reads the   *)
(* image and sends one result per command to a port.  With several PS1     *)
(* discs ("multi") an eject thread polls the tray: when it opens it takes  *)
(* the image down and destroys the queue, and when it closes it creates a  *)
(* new queue and mounts the next disc.  The stop thread ends the other     *)
(* two.  The disc emulation in the kernel, which sends the commands, is    *)
(* outside the repository.                                                 *)
(*                                                                         *)
(* Queues are numbered as they are created, and 0 is NONE.  A queue is     *)
(* mounted at most once, so a command is named by the queue it came from.  *)
(* What the caches of the reads hold is in RawDisc.                        *)
(***************************************************************************)
EXTENDS Integers, FiniteSets

CONSTANTS
    Modes,      \* what may be mounted: a subset of ModeKinds
    MaxDiscs,   \* discs of a multi image (8 in the code)
    MaxMoves,   \* times the tray moves
    MaxTries,   \* tries of a raw read (16 in the code)
    MovesAfter  \* the known hazards after which the tray still moves

\* Raw sectors, ISO files, PS1 discs as files, PS1 discs as raw sectors.
ModeKinds == {"raw", "file", "multifile", "multiraw"}
\* The hazards, which the properties explain.
SlipKinds == {"early", "late", "reopened", "silent", "orphan", "revived", "unserved", "spin"}

ASSUME ModesAssumption == Modes \subseteq ModeKinds
ASSUME BoundsAssumption ==
    /\ MaxDiscs \in Nat \ {0} /\ MaxMoves \in Nat /\ MaxTries \in Nat \ {0}
    /\ MovesAfter \subseteq SlipKinds

Queues == 1 .. MaxMoves + 1
Discs  == 0 .. MaxDiscs - 1
NONE   == -1
Dangling == MaxDiscs      \* the number of a descriptor that has been closed

VARIABLES
    mode,
    main, ejt, stp,      \* where each thread is
    ntfs_running, do_run, eject_running,
    command_queue,
    alive,               \* the queues the kernel holds
    created,             \* how many have been created
    inbox,               \* the queues that hold a command
    rq,                  \* the queue main receives from
    cmd, ret, tries, src,\* the command main serves, what it will answer, its tries, the
                         \* disc its data comes from
    port,                \* result_port: "none", "open" or "gone"
    results,             \* the results that have been sent
    handle, discfd,      \* the device: NONE, open or closed; the disc that discfd reads
    psx_indx, tracks,    \* the disc in turn, and the one whose description is loaded
    mounted, asked,      \* the kernel: the queue of the mounted image, the command out
    mdisc,               \* the disc it was mounted for
    tray, moves, ejected,
    slips                \* the known hazards that have been met

threadVars == <<ntfs_running, do_run, eject_running>>
queueVars  == <<command_queue, alive, created>>
serveVars  == <<rq, cmd, ret, tries, src>>
fileVars   == <<handle, discfd>>
discVars   == <<psx_indx, tracks>>
kernelVars == <<mounted, asked, results, inbox, mdisc>>
trayVars   == <<tray, moves>>
vars == <<mode, main, ejt, stp, threadVars, queueVars, serveVars, port, fileVars, discVars,
          kernelVars, trayVars, ejected, slips>>

Multi == mode \in {"multifile", "multiraw"}
Usb   == mode \in {"raw", "multiraw"}

Init ==
    /\ mode \in Modes
    /\ main = "setup" /\ ejt = "none" /\ stp = "idle"
    /\ ntfs_running = TRUE /\ do_run = FALSE /\ eject_running = 1
    /\ command_queue = 0 /\ alive = {} /\ created = 0 /\ inbox = {}
    /\ rq = 0 /\ cmd = 0 /\ ret = "ok" /\ tries = 0 /\ src = NONE
    /\ port = "none" /\ results = {}
    /\ handle = "none" /\ discfd = NONE /\ psx_indx = 0 /\ tracks = 0
    /\ mounted = 0 /\ asked = 0 /\ mdisc = NONE
    /\ tray = "in" /\ moves = 0 /\ ejected = FALSE /\ slips = {}

(***************************************************************************)
(* The kernel's disc emulation.  The result queue is its own, so that what *)
(* was sent and not taken goes with the image.                             *)
(***************************************************************************)
Unmount == mounted' = 0 /\ mdisc' = NONE /\ asked' = 0 /\ results' = {} /\ UNCHANGED inbox
Mount(q) == /\ mounted' = q
            /\ mdisc' = psx_indx
            /\ asked' = 0
            /\ results' = {}
            /\ UNCHANGED inbox

\* A queue goes with the commands in it.
DestroyForceNot(q) == UNCHANGED <<alive, inbox>>
DestroyForce(q) == alive' = alive \ {q} /\ inbox' = inbox \ {q}

Ask == /\ mounted \in alive /\ asked = 0
       /\ asked' = mounted
       /\ inbox' = inbox \cup {mounted}
       /\ UNCHANGED <<mode, main, ejt, stp, threadVars, queueVars, serveVars, port, fileVars,
                      discVars, mounted, results, mdisc, trayVars, ejected, slips>>

TakeResult == /\ asked # 0
              /\ \E r \in results : results' = results \ {r}
              /\ asked' = 0
              /\ UNCHANGED <<mode, main, ejt, stp, threadVars, queueVars, serveVars, port,
                             fileVars, discVars, mounted, inbox, mdisc, trayVars,
                             ejected, slips>>

\* The user takes the disc or the stick out, or puts it in.  (Bounds: MaxMoves, and no
\* further move after a hazard that is not in MovesAfter.)
MoveTray == /\ Multi /\ moves < MaxMoves /\ slips \subseteq MovesAfter
            /\ moves' = moves + 1
            /\ tray' = IF tray = "in" THEN "out" ELSE "in"
            /\ UNCHANGED <<mode, main, ejt, stp, threadVars, queueVars, serveVars, port,
                           fileVars, discVars, kernelVars, ejected, slips>>

(***************************************************************************)
(* The main thread: rawseciso_thread.                                      *)
(***************************************************************************)
goMain(from, to) == main = from /\ main' = to

\* The device, the port and the queue; any of them may be refused.
SetupFails == /\ goMain("setup", "done")
             
              /\ handle' \in IF Usb THEN {"none", "closed"} ELSE {"none"}
              /\ port' \in {"none", "gone"}
              /\ UNCHANGED <<mode, ejt, stp, threadVars, queueVars, serveVars, discfd, discVars,
                             kernelVars, trayVars, ejected, slips>>
Setup == /\ goMain("setup", IF Multi THEN "spawn" ELSE "mount")
         /\ handle' = IF Usb THEN "open" ELSE "none"
         /\ port' = "open"
         /\ command_queue' = 1 /\ created' = 1 /\ alive' = {1}
         /\ slips' = IF stp = "idle" THEN {} ELSE {"orphan"}
         /\ UNCHANGED <<mode, ejt, stp, threadVars, serveVars, discfd, discVars,
                        kernelVars, trayVars, ejected>>
Spawn == /\ goMain("spawn", "mount")
         /\ tracks' = psx_indx
         /\ ejt' = "poll"
         /\ UNCHANGED <<mode, stp, threadVars, queueVars, serveVars, port, fileVars, psx_indx,
                        kernelVars, trayVars, ejected, slips>>
MountFirst == /\ goMain("mount", "loop")
              /\ command_queue # 0
              /\ Mount(command_queue)
              /\ UNCHANGED <<mode, ejt, stp, threadVars, queueVars, serveVars, port, fileVars,
                             discVars, trayVars, ejected, slips>>
\* The queue is left to the stop thread.
MountFirstFails == /\ goMain("mount", "done")
                   /\ port' = "gone"
                   /\ handle' = IF handle = "open" THEN "closed" ELSE handle
                   /\ UNCHANGED <<mode, ejt, stp, threadVars, queueVars, serveVars, discfd,
                                  discVars, kernelVars, trayVars, ejected, slips>>

\* The top of the loop, and the test of command_queue.
Loop == /\ main = "loop"
        /\ main' = IF ntfs_running THEN "check" ELSE "exit"
        /\ do_run' = (~ntfs_running /\ do_run)
        /\ UNCHANGED <<mode, ejt, stp, ntfs_running, eject_running, queueVars, serveVars, port,
                       fileVars, discVars, kernelVars, trayVars, ejected, slips>>
Check == /\ main = "check"
         /\ \/ command_queue # 0 /\ main' = "receive"
            \/ command_queue = 0 /\ main' = IF ntfs_running THEN "loop" ELSE "exit"
         /\ UNCHANGED <<mode, ejt, stp, threadVars, queueVars, serveVars, port, fileVars,
                        discVars, kernelVars, trayVars, ejected, slips>>

\* sys_event_queue_receive: on a queue that is gone it fails at once ("ESRCH"), and
\* when the queue is destroyed under it, it is cancelled.
Receive == /\ main = "receive"
           /\ rq' = command_queue
           /\ main' = IF command_queue \in alive THEN "blocked" ELSE "failed"
           /\ ret' = IF command_queue \in alive THEN ret ELSE "ESRCH"
           /\ UNCHANGED <<mode, ejt, stp, threadVars, queueVars, cmd, tries, src, port, fileVars,
                          discVars, kernelVars, trayVars, ejected, slips>>
Received == /\ goMain("blocked", "got")
            /\ rq \in alive \cap inbox
            /\ inbox' = inbox \ {rq}
            /\ cmd' = rq /\ rq' = 0
            /\ UNCHANGED <<mode, ejt, stp, threadVars, queueVars, ret, tries, src, port, fileVars,
                           discVars, mounted, asked, results, mdisc, trayVars, ejected, slips>>
Cancelled == /\ goMain("blocked", "failed")
             /\ rq \notin alive
             /\ ret' = "ECANCELED" /\ rq' = 0
             /\ UNCHANGED <<mode, ejt, stp, threadVars, queueVars, cmd, tries, src, port,
                            fileVars, discVars, kernelVars, trayVars, ejected, slips>>

QueueReplacedUnseen == FALSE
QueueReplaced == command_queue = 0 \/ eject_running = 2
ReceiveFailed == /\ main = "failed"
                 /\ \/ QueueReplaced /\ main' = IF ntfs_running THEN "loop" ELSE "exit"
                    \/ ~QueueReplaced /\ main' = IF ret = "ESRCH" THEN "shutdown" ELSE "exit"
                 /\ ret' = "ok"
                 /\ UNCHANGED <<mode, ejt, stp, threadVars, queueVars, rq, cmd, tries, src, port,
                                fileVars, discVars, kernelVars, trayVars, ejected, slips>>

\* A command has come: the flag that makes the eject thread wait is raised.
Got  == /\ main = "got"
        /\ main' = IF ntfs_running THEN "flag" ELSE "exit"
        /\ UNCHANGED <<mode, ejt, stp, threadVars, queueVars, serveVars, port, fileVars, discVars,
                       kernelVars, trayVars, ejected, slips>>
Flag == /\ goMain("flag", IF Usb THEN "read" ELSE "reopen")
        /\ do_run' = TRUE
        /\ UNCHANGED <<mode, ejt, stp, ntfs_running, eject_running, queueVars, serveVars, port,
                       fileVars, discVars, kernelVars, trayVars, ejected, slips>>

readUnchanged == UNCHANGED <<mode, ejt, stp, threadVars, queueVars, rq, cmd, port, discVars,
                             kernelVars, trayVars, ejected>>

(***************************************************************************)
(* The reads.  "reopen" is the loop that opens the device or the file, and *)
(* is left when the plugin stops.                                          *)
(***************************************************************************)
CanRead == IF Usb THEN handle = "open" ELSE discfd \in Discs
DataDisc == IF mode = "multifile" THEN discfd ELSE tracks

\* The file of a multi image is opened only if discfd is NONE; an ISO file also if
\* it is not the one the last command read, and the last one is closed first.
AlreadyOpen == /\ goMain("reopen", "read")
               /\ ~Usb /\ discfd # NONE
               /\ UNCHANGED <<ret, src, tries, fileVars, slips>>
               /\ readUnchanged
BackAgain == IF Usb THEN handle' = "open" /\ UNCHANGED discfd
             ELSE discfd' = psx_indx /\ UNCHANGED handle
SwapUnderWay == ejt \in {"closehandle", "queue", "destroy", "wait", "next"}
Reopen == /\ goMain("reopen", "read")
          /\ ntfs_running /\ (Multi => discfd = NONE)
          /\ BackAgain
          /\ slips' = slips \cup (IF SwapUnderWay THEN {"reopened"} ELSE {})
          /\ UNCHANGED <<ret, src, tries>>
          /\ readUnchanged
GiveUpReopenNever == FALSE
GiveUpReopen == /\ goMain("reopen", "read")
                /\ ~ntfs_running /\ (Multi => discfd = NONE)
                /\ discfd' = IF discfd = NONE THEN NONE ELSE Dangling
                /\ UNCHANGED <<ret, src, tries, handle, slips>>
                /\ readUnchanged

ReadDone(value) == main = "read" /\ main' = "send" /\ ret' = value
                   /\ UNCHANGED <<tries, fileVars, slips>> /\ readUnchanged
FileRead == ReadDone("ok") /\ CanRead /\ src' = DataDisc
ReadFails(value) == ReadDone(value) /\ UNCHANGED src

\* Raw sectors: a failed read is tried again after 100 ms, MaxTries times.  In a
\* multi image it is answered at once: EBUSY for raw sectors and EIO; for another
\* error of a file the answer is OK and the buffer is as it was.
RawRetry == /\ goMain("read", "read")
            /\ mode = "raw" /\ tries < MaxTries - 1 /\ ntfs_running
            /\ tries' = tries + 1
            /\ UNCHANGED <<ret, src, fileVars, slips>>
            /\ readUnchanged
RawFails == mode = "raw" /\ (tries = MaxTries - 1 \/ ~ntfs_running) /\ ReadFails("failed")
MultiFails == Multi /\ (\E v \in {"EBUSY"} \cup (IF Usb THEN {} ELSE {"unread"}) : ReadFails(v))

\* The device is gone: it is closed and opened again, and the tries start over.
DeviceLost == /\ goMain("read", "reopen")
              /\ mode = "raw"
              /\ handle' = "none"
              /\ tries' = 0
              /\ slips' = slips \cup (IF ntfs_running THEN {} ELSE {"spin"})
              /\ UNCHANGED <<ret, src, discfd>>
              /\ readUnchanged

\* A file: after an error it is closed and opened again at the next turn of the
\* loop, which never looks at ntfs_running; a short read is an error.
FileReadFails == /\ goMain("read", "reopen")
                 /\ mode = "file"
                 /\ slips' = slips \cup (IF ntfs_running THEN {} ELSE {"spin"})
                 /\ UNCHANGED <<ret, src, tries, fileVars>>
                 /\ readUnchanged
ShortRead == mode = "file" /\ CanRead /\ ReadFails("failed")

ReadFault == RawRetry \/ RawFails \/ MultiFails \/ DeviceLost \/ FileReadFails \/ ShortRead
ReadGood  == AlreadyOpen \/ Reopen \/ FileRead

(***************************************************************************)
(* The result.  A port whose queue is full answers EBUSY, and what is sent *)
(* next is that EBUSY.  A port nobody is connected to may fail.            *)
(***************************************************************************)
CommandOver == cmd' = 0 /\ ret' = "ok" /\ tries' = 0 /\ src' = NONE
sendUnchanged == UNCHANGED <<mode, ejt, stp, threadVars, queueVars, rq, port, fileVars, discVars,
                             mounted, asked, inbox, mdisc, trayVars, ejected, slips>>
Send == /\ goMain("send", "loop")
        /\ ntfs_running /\ (mounted # 0 => results = {})
        /\ results' = IF mounted = 0 THEN {}
                      ELSE {[cmd |-> cmd, disc |-> src, value |-> ret]}
        /\ CommandOver
        /\ sendUnchanged
SendBusy == /\ goMain("send", "send")
            /\ ntfs_running /\ mounted # 0 /\ results # {}
            /\ ret' = "EBUSY"
            /\ UNCHANGED <<cmd, tries, src, results>>
            /\ sendUnchanged
SendFails == /\ goMain("send", "exit")
             /\ ntfs_running /\ mounted = 0
             /\ CommandOver
             /\ UNCHANGED results
             /\ sendUnchanged
\* After a stop nothing is sent, and the loop is left at its test.
SendStopped == /\ goMain("send", "loop")
               /\ ~ntfs_running
               /\ CommandOver
               /\ UNCHANGED results
               /\ sendUnchanged

\* The end of the thread: the flags, then what the plugin holds.
Exit == /\ goMain("exit", "cleanup")
        /\ do_run' = FALSE /\ eject_running' = 0
        /\ UNCHANGED <<mode, ejt, stp, ntfs_running, queueVars, serveVars, port, fileVars,
                       discVars, kernelVars, trayVars, ejected, slips>>
ClosedNot(v, none, dangling) == v
Closed(v, none, dangling) == IF v = none THEN none ELSE dangling
Cleanup == /\ goMain("cleanup", "done")
           /\ port' = "gone"
           /\ handle' = Closed(handle, "none", "closed")
           /\ discfd' = Closed(discfd, NONE, Dangling)
           /\ Unmount
           /\ UNCHANGED <<mode, ejt, stp, threadVars, queueVars, serveVars, discVars, trayVars,
                          ejected, slips>>

MainFault == SetupFails \/ MountFirstFails \/ ReadFault \/ SendFails
MainGood  == \/ Setup \/ Spawn \/ MountFirst \/ Loop \/ Check \/ Receive \/ Received \/ Cancelled
             \/ ReceiveFailed \/ Got \/ Flag \/ ReadGood \/ GiveUpReopen \/ Send \/ SendBusy
             \/ SendStopped \/ Exit \/ Cleanup
MainNext == MainFault \/ MainGood

(***************************************************************************)
(* The eject thread.  It polls every 70 ms, which is longer than main, at  *)
(* its higher priority, takes from a test of command_queue to the receive  *)
(* or from a receive to the next call that can block: a poll does not fall *)
(* in between.                                                             *)
(***************************************************************************)
goEject(from, to) == ejt = from /\ ejt' = to
MainIsBusy == main \in {"check", "receive", "failed", "got", "flag"}
CanPoll == ejt = "poll" /\ eject_running # 0 /\ ~MainIsBusy

ejectUnchanged == UNCHANGED <<mode, main, stp, ntfs_running, do_run, serveVars, port,
                              tray>>

EjectEnds == /\ goEject("poll", "done")
             /\ eject_running = 0
             /\ UNCHANGED <<eject_running, queueVars, fileVars, discVars, kernelVars, ejected,
                            slips>>
             /\ ejectUnchanged /\ UNCHANGED moves

\* The disc has gone.  Another error of the device marks it gone without more ado.
SeeEject == /\ CanPoll /\ tray = "out" /\ ~ejected
            /\ ejected' = TRUE
            /\ ejt' = "umount"
            /\ slips' = slips \cup (IF main = "mount" THEN {"early"} ELSE {})
            /\ UNCHANGED <<eject_running, queueVars, fileVars, discVars, kernelVars>>
            /\ ejectUnchanged /\ UNCHANGED moves
SeeError == /\ CanPoll /\ Usb /\ ~ejected /\ moves < MaxMoves
            /\ moves' = moves + 1
            /\ ejected' = TRUE
            /\ slips' = slips \cup {"silent"}
            /\ UNCHANGED <<ejt, eject_running, queueVars, fileVars, discVars, kernelVars>>
            /\ ejectUnchanged
ServesNobody == IF main = "done" THEN {"unserved"} ELSE {}
\* The disc is there again: the device is opened anew.
SeeInsert == /\ CanPoll /\ tray = "in" /\ ejected
             /\ ejected' = FALSE
             /\ handle' = IF Usb THEN "open" ELSE handle
             /\ ejt' = "tracks"
             /\ slips' = slips \cup ServesNobody
             /\ UNCHANGED <<eject_running, queueVars, discfd, discVars, kernelVars>>
             /\ ejectUnchanged /\ UNCHANGED moves
SeeInsertFails == /\ CanPoll /\ tray = "in" /\ ejected /\ Usb
                  /\ handle' = "none"
                  /\ UNCHANGED <<ejt, eject_running, queueVars, discfd, discVars, kernelVars,
                                 ejected, slips>>
                  /\ ejectUnchanged /\ UNCHANGED moves

TakeDown == /\ goEject("umount", "closefd")
            /\ Unmount
            /\ UNCHANGED <<eject_running, queueVars, fileVars, discVars, ejected, slips>>
            /\ ejectUnchanged /\ UNCHANGED moves
CloseFileNot == /\ goEject("closefd", "closehandle")
             /\ UNCHANGED discfd
             /\ UNCHANGED <<eject_running, queueVars, handle, discVars, kernelVars, ejected, slips>>
             /\ ejectUnchanged /\ UNCHANGED moves
CloseFile == /\ goEject("closefd", "closehandle")
             /\ discfd' = NONE
             /\ UNCHANGED <<eject_running, queueVars, handle, discVars, kernelVars, ejected, slips>>
             /\ ejectUnchanged /\ UNCHANGED moves
CloseHandle == /\ goEject("closehandle", "queue")
               /\ handle' = "none"
               /\ UNCHANGED <<eject_running, queueVars, discfd, discVars, kernelVars, ejected,
                              slips>>
               /\ ejectUnchanged /\ UNCHANGED moves
\* eject_running is set to 2 at an eject and to 1 at an insertion, whatever it was.
Revives(sets) == IF sets /\ eject_running = 0 THEN {"revived"} ELSE {}
\* command_queue becomes NONE, then the queue it named, the last one, is destroyed.
ForgetQueue == /\ ejt = "queue"
               /\ ejt' = IF command_queue # 0 THEN "destroy" ELSE "wait"
               /\ eject_running' = IF command_queue # 0 THEN 2 ELSE eject_running
               /\ slips' = slips \cup Revives(command_queue # 0)
               /\ command_queue' = 0
               /\ UNCHANGED <<alive, created, fileVars, discVars, kernelVars, ejected>>
               /\ ejectUnchanged /\ UNCHANGED moves
DestroyQueue == /\ goEject("destroy", "wait")
                /\ DestroyForce(created)
                /\ UNCHANGED <<eject_running, command_queue, created, fileVars, discVars,
                               mounted, asked, results, mdisc, ejected, slips>>
                /\ ejectUnchanged /\ UNCHANGED moves
WaitReadNot == /\ goEject("wait", "next")
            /\ slips' = slips \cup (IF main \in {"got", "flag"} THEN {"late"} ELSE {})
            /\ UNCHANGED <<eject_running, queueVars, fileVars, discVars, kernelVars, ejected>>
            /\ ejectUnchanged /\ UNCHANGED moves
\* The wait for the read in progress.
WaitRead == /\ goEject("wait", "next")
            /\ ~do_run
            /\ slips' = slips \cup (IF main \in {"got", "flag"} THEN {"late"} ELSE {})
            /\ UNCHANGED <<eject_running, queueVars, fileVars, discVars, kernelVars, ejected>>
            /\ ejectUnchanged /\ UNCHANGED moves
NextDisc == /\ goEject("next", "poll")
            /\ psx_indx' = (psx_indx + 1) % MaxDiscs
            /\ UNCHANGED <<eject_running, queueVars, fileVars, tracks, kernelVars, ejected, slips>>
            /\ ejectUnchanged /\ UNCHANGED moves

LoadTracks == /\ goEject("tracks", "create")
              /\ tracks' = psx_indx
              /\ UNCHANGED <<eject_running, queueVars, fileVars, psx_indx, kernelVars, ejected,
                             slips>>
              /\ ejectUnchanged /\ UNCHANGED moves
CreateQueue == /\ goEject("create", "revive")
               /\ created' = created + 1
               /\ command_queue' = created + 1
               /\ alive' = alive \cup {created + 1}
               /\ slips' = slips \cup (IF stp = "idle" THEN {} ELSE {"orphan"})
               /\ UNCHANGED <<eject_running, fileVars, discVars, kernelVars, ejected>>
               /\ ejectUnchanged /\ UNCHANGED moves
PreviousDisc == psx_indx' = (psx_indx - 1) % MaxDiscs
CreateFails == /\ goEject("create", "poll")
               /\ PreviousDisc
               /\ UNCHANGED <<eject_running, queueVars, fileVars, tracks, kernelVars, ejected,
                              slips>>
               /\ ejectUnchanged /\ UNCHANGED moves
Revive == /\ goEject("revive", "mount")
          /\ eject_running' = 1
          /\ slips' = slips \cup Revives(TRUE)
          /\ UNCHANGED <<queueVars, fileVars, discVars, kernelVars, ejected>>
          /\ ejectUnchanged /\ UNCHANGED moves
Remount == /\ goEject("mount", "poll")
           /\ Mount(command_queue)
           /\ slips' = slips \cup ServesNobody
           /\ UNCHANGED <<eject_running, queueVars, fileVars, discVars, ejected>>
           /\ ejectUnchanged /\ UNCHANGED moves
RemountFails == /\ goEject("mount", "poll")
                /\ PreviousDisc
                /\ UNCHANGED <<eject_running, queueVars, fileVars, tracks, kernelVars, ejected,
                               slips>>
                /\ ejectUnchanged /\ UNCHANGED moves

EjectFault == SeeError \/ SeeInsertFails \/ CreateFails \/ RemountFails
EjectGood  == \/ EjectEnds \/ SeeEject \/ SeeInsert \/ TakeDown \/ CloseFile \/ CloseHandle
              \/ ForgetQueue \/ DestroyQueue \/ WaitRead \/ NextDisc \/ LoadTracks
              \/ CreateQueue \/ Revive \/ Remount
EjectNext == EjectFault \/ EjectGood

(***************************************************************************)
(* The stop thread.                                                        *)
(***************************************************************************)
goStop(from, to) == stp = from /\ stp' = to
stopUnchanged == UNCHANGED <<mode, main, ejt, created, command_queue, serveVars, port, fileVars,
                             discVars, mounted, asked, results, mdisc, trayVars, ejected,
                             slips>>

Stop == /\ goStop("idle", "destroy")
        /\ ntfs_running' = FALSE /\ do_run' = FALSE
        /\ UNCHANGED <<eject_running, alive, inbox>>
        /\ stopUnchanged
StopQueue == /\ goStop("destroy", "join")
             /\ DestroyForce(command_queue)
             /\ UNCHANGED threadVars
             /\ stopUnchanged
JoinMain == /\ goStop("join", "joineject")
            /\ main = "done"
            /\ eject_running' = 0
            /\ UNCHANGED <<ntfs_running, do_run, alive, inbox>>
            /\ stopUnchanged
JoinEject == /\ goStop("joineject", "done")
             /\ ejt \in {"none", "done"}
             /\ UNCHANGED <<threadVars, alive, inbox>>
             /\ stopUnchanged
StopGood == StopQueue \/ JoinMain \/ JoinEject

Next == Ask \/ TakeResult \/ MoveTray \/ MainNext \/ EjectNext \/ Stop \/ StopGood

Spec == Init /\ [][Next]_vars

(***************************************************************************)
(* Fairness.  Every thread that can run does.  Reads and sends may fail,   *)
(* but a device or a file is not out of reach for ever, and the emulation  *)
(* takes the result it waits for.                                          *)
(***************************************************************************)
FairSpec == /\ Spec
            /\ WF_vars(MainNext) /\ WF_vars(EjectNext) /\ WF_vars(StopGood) /\ WF_vars(TakeResult)
            /\ SF_vars(FileRead) /\ SF_vars(Reopen)

(***************************************************************************)
(* Properties.  The value of slips names the hazards that were met:        *)
(* "early": the disc went out before main had mounted the first image;     *)
(* "late": the eject thread looked at do_run when a command was received   *)
(*   and the flag not yet raised;                                          *)
(* "reopened": a read opened the old disc after the eject thread closed it;*)
(* "silent": the device failed in a way that counts as an eject and takes  *)
(*   nothing down, so that the next insertion replaces a queue in use;     *)
(* "orphan": a queue was created after the stop thread destroyed the last; *)
(* "revived": the eject thread was set running again after its end was     *)
(*   ordered;  "unserved": it opened the device or mounted when main had   *)
(*   ended;                                                                *)
(* "spin": a read lost its device or file when the plugin was stopping.    *)
(***************************************************************************)
MainStates == {"setup", "spawn", "mount", "loop", "check", "receive", "blocked", "failed", "got",
               "flag", "reopen", "read", "send", "exit", "cleanup", "done", "shutdown"}
EjectStates == {"none", "poll", "umount", "closefd", "closehandle", "queue", "destroy", "wait",
                "next", "tracks", "create", "revive", "mount", "done"}
Values == {"ok", "unread", "failed", "EBUSY", "ESRCH", "ECANCELED"}

\* The state is of its type, and command_queue is NONE or the last queue created.
TypeOK ==
    /\ mode \in Modes /\ main \in MainStates /\ ejt \in EjectStates
    /\ stp \in {"idle", "destroy", "join", "joineject", "done"}
    /\ ntfs_running \in BOOLEAN /\ do_run \in BOOLEAN /\ eject_running \in 0 .. 2
    /\ created \in 0 .. MaxMoves + 1 /\ command_queue \in {0, created}
    /\ alive \subseteq 1 .. created /\ inbox \subseteq 1 .. created
    /\ rq \in 0 .. created /\ cmd \in 0 .. created /\ ret \in Values /\ tries \in 0 .. MaxTries - 1
    /\ src \in Discs \cup {NONE}
    /\ port \in {"none", "open", "gone"}
    /\ results \subseteq [cmd : Queues, disc : Discs \cup {NONE}, value : Values]
    /\ handle \in {"none", "open", "closed"} /\ discfd \in Discs \cup {NONE, Dangling}
    /\ psx_indx \in Discs /\ tracks \in Discs
    /\ mounted \in 0 .. created /\ asked \in 0 .. created
    /\ mdisc \in Discs \cup {NONE}
    /\ tray \in {"in", "out"} /\ moves \in 0 .. MaxMoves /\ ejected \in BOOLEAN
    /\ slips \subseteq SlipKinds

\* What the emulation is handed answers the command it waits for, with data of the
\* disc its image was mounted for, and there is never a second result in the queue
\* (that one would be answered EBUSY): the waits at a swap, do_run (main.c:1014) and
\* discfd (main.c:997), do their work but for the two windows in slips.
RightAnswer ==
    slips \cap {"early", "late", "reopened", "silent"} = {} =>
        /\ \A r \in results : r.cmd = asked /\ (r.value = "ok" => r.disc = mdisc)
        /\ main = "send" /\ mounted # 0 => results = {}

\* A swap never powers the console off: main tells a queue that was replaced from
\* other errors (main.c:1263), whatever else goes wrong, and only a stop can look like
\* one.
PowerStaysOn == main = "shutdown" => stp # "idle"

\* When the plugin has stopped nothing of it is left in the kernel (main.c:1354-1382,
\* 1416-1434).
NothingLeft ==
    stp = "done" /\ slips \cap {"silent", "orphan", "unserved"} = {} =>
        alive = {} /\ port # "open" /\ handle # "open" /\ discfd \notin Discs

\* The disc in turn and its description change only when no read uses them: the eject
\* thread waits for do_run (main.c:1014).
SwapBetweenReads ==
    [][<<psx_indx, tracks>>' # <<psx_indx, tracks>> /\ stp = "idle"
            /\ slips' \cap {"early", "late", "silent"} = {} =>
            main \notin {"flag", "reopen", "read"}]_vars

\* A command is answered, or its image is taken down.
Served == asked # 0 ~> (asked = 0 \/ slips # {} \/ main = "shutdown")

\* A stop that is asked for ends (main.c:1408-1437).
StopEnds == stp = "destroy" ~> (stp = "done" \/ slips # {} \/ main = "shutdown")

=============================================================================
