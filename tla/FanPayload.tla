----------------------------- MODULE FanPayload -----------------------------
(***************************************************************************)
(* payload_controlfan/ps3_controlfan.S: the control of the fan for a       *)
(* console without plugins.  It hooks two system calls that processes use  *)
(* all the time, sys_event_queue_receive (130) and sys_event_port_send     *)
(* (138), and does a step of its work in each call: the step is in         *)
(* internal_step (0 and 1: find memory and measure, 2: set the fan, 3: set *)
(* the LEDs, 255: a receive is at it).                                     *)
(*                                                                         *)
(* To measure it needs four bytes of user memory.  sys130 notes the        *)
(* address of an event it has received in mem_app, and the process in      *)
(* pid_app2; sys138 uses them if it runs in that process.  pid_app says    *)
(* which process has called sys138.  in_use is to keep the hooks apart,    *)
(* but its test and its assignment are two instructions.                   *)
(***************************************************************************)
EXTENDS Integers

CONSTANTS
    Procs,     \* the processes; each has a thread that sends and one that receives
    NoProc,    \* the number 0, which is no process
    Switches   \* what the program sets enable to: 0 (off) and 2 (on, with LEDs)

ASSUME ProcsAssumption == NoProc \notin Procs /\ Switches \subseteq 0 .. 2

VARIABLES
    enable, in_use, internal_step,
    pid_app, pid_app2, mem_app,  \* mem_app: the process whose memory it is in
    marked,      \* processes that have an event of sys138 with its mark to receive
    late,        \* 1.5 seconds have passed since the last step
    rpc, rpid,   \* of each receiving thread: where it is, and its VAR_PID
    spc, spid, smem,  \* of each sending thread: where it is, its VAR_PID and VAR_MEM
    races        \* "race" when two hooks have passed in_use at once

appVars == <<pid_app, pid_app2, mem_app>>
recvVars == <<rpc, rpid>>
sendVars == <<spc, spid, smem>>
hookVars == <<enable, in_use, internal_step, appVars, marked, late, recvVars, sendVars, races>>

HookInit ==
    /\ enable = 0 /\ in_use = 0 /\ internal_step = 0
    /\ pid_app = NoProc /\ pid_app2 = NoProc /\ mem_app = NoProc
    /\ marked = {} /\ late = TRUE
    /\ rpc = [p \in Procs |-> "out"] /\ rpid = [p \in Procs |-> NoProc]
    /\ spc = [p \in Procs |-> "out"] /\ spid = [p \in Procs |-> NoProc]
    /\ smem = [p \in Procs |-> NoProc]
    /\ races = {}

\* set_fan_mode of the program, and time.
Switch ==
    /\ enable' \in Switches \ {enable}
    /\ UNCHANGED <<in_use, internal_step, appVars, marked, late, recvVars, sendVars, races>>
Time ==
    /\ ~late /\ late' = TRUE
    /\ UNCHANGED <<enable, in_use, internal_step, appVars, marked, recvVars, sendVars, races>>

Race == IF in_use = 1 THEN {"race"} ELSE {}

(***************************************************************************)
(* sys130, after a receive that has returned an event with the mark, up to *)
(* the test of in_use, and then store by store.                            *)
(***************************************************************************)
goRecv(p, from, to) == rpc[p] = from /\ rpc' = [rpc EXCEPT ![p] = to]
\* The frame of the hook is of no use any more.
dropRecv(p, drop) == rpid' = IF drop THEN [rpid EXCEPT ![p] = NoProc] ELSE rpid
recvUnchanged == UNCHANGED <<enable, late, sendVars>>

Receive(p) ==
    /\ p \in marked /\ marked' = marked \ {p}
    /\ IF in_use = 0
       THEN goRecv(p, "out", "set") /\ rpid' = [rpid EXCEPT ![p] = pid_app]
       ELSE rpc[p] = "out" /\ UNCHANGED recvVars
    /\ UNCHANGED <<in_use, internal_step, appVars, races>> /\ recvUnchanged
RecvSet(p) ==
    /\ goRecv(p, "set", "clear")
    /\ in_use' = 1 /\ races' = races \cup Race
    /\ UNCHANGED <<internal_step, appVars, marked, rpid>> /\ recvUnchanged
RecvClear(p) ==
    /\ goRecv(p, "clear", "clear2")
    /\ pid_app2' = NoProc
    /\ UNCHANGED <<in_use, internal_step, pid_app, mem_app, marked, rpid, races>> /\ recvUnchanged
\* The step of a fan or of LEDs is left to sys138, and so is everything when the control is off.
RecvClear2(p) ==
    /\ mem_app' = NoProc
    /\ dropRecv(p, enable = 0 \/ internal_step >= 2)
    /\ IF enable = 0 \/ internal_step >= 2
       THEN goRecv(p, "clear2", "release") /\ UNCHANGED internal_step
       ELSE goRecv(p, "clear2", "pid") /\ internal_step' = 255
    /\ UNCHANGED <<in_use, pid_app, pid_app2, marked, races>> /\ recvUnchanged
RecvPid(p) ==
    /\ IF rpid[p] = p THEN goRecv(p, "pid", "mem") /\ pid_app2' = p
       ELSE goRecv(p, "pid", "step") /\ UNCHANGED pid_app2
    /\ dropRecv(p, TRUE)
    /\ UNCHANGED <<in_use, internal_step, pid_app, mem_app, marked, races>> /\ recvUnchanged
RecvMem(p) ==
    /\ goRecv(p, "mem", "step")
    /\ mem_app' = p
    /\ UNCHANGED <<in_use, internal_step, pid_app, pid_app2, marked, rpid, races>> /\ recvUnchanged
\* Mutation of Leaves255: the mark against reentry stays.
Leaves255Not == UNCHANGED internal_step
Leaves255 == internal_step' = 1
RecvStep(p) ==
    /\ goRecv(p, "step", "release")
    /\ Leaves255
    /\ UNCHANGED <<in_use, appVars, marked, rpid, races>> /\ recvUnchanged
RecvRelease(p) ==
    /\ goRecv(p, "release", "out")
    /\ in_use' = 0
    /\ UNCHANGED <<internal_step, appVars, marked, rpid, races>> /\ recvUnchanged

Recv(p) == RecvSet(p) \/ RecvClear(p) \/ RecvClear2(p) \/ RecvPid(p) \/ RecvMem(p)
           \/ RecvStep(p) \/ RecvRelease(p)

(***************************************************************************)
(* sys138, for an event without data, up to the test of in_use: the event  *)
(* is marked while there is nothing to set.  Of the events that are marked *)
(* and not received the model keeps the last.                              *)
(***************************************************************************)
goSend(p, from, to) == spc[p] = from /\ spc' = [spc EXCEPT ![p] = to]
sendUnchanged == UNCHANGED <<enable, recvVars>>

Send(p) ==
    /\ IF internal_step # 255 /\ in_use = 0
       THEN goSend(p, "out", "set")
       ELSE spc[p] = "out" /\ UNCHANGED spc
    /\ IF internal_step < 2 THEN \E q \in Procs : marked' = {q} ELSE UNCHANGED marked
    /\ UNCHANGED <<in_use, internal_step, appVars, late, spid, smem, races>> /\ sendUnchanged
SendSet(p) ==
    /\ goSend(p, "set", "pid")
    /\ in_use' = 1 /\ races' = races \cup Race
    /\ UNCHANGED <<internal_step, appVars, marked, late, spid, smem>> /\ sendUnchanged
SendLoads(p) ==
    /\ goSend(p, "pid", "work")
    /\ spid' = [spid EXCEPT ![p] = pid_app2] /\ smem' = [smem EXCEPT ![p] = mem_app]
    /\ UNCHANGED <<in_use, internal_step, appVars, marked, late, races>> /\ sendUnchanged

\* From now on the frame is of use only to a measure.
goFrom(p, from) ==
    /\ goSend(p, from, "release")
    /\ spid' = [spid EXCEPT ![p] = NoProc] /\ smem' = [smem EXCEPT ![p] = NoProc]
sendWork == UNCHANGED <<in_use, marked, races>> /\ sendUnchanged
\* The control is off (the time of the last step is cleared), or it is not yet time.
SendOff(p) ==
    /\ goFrom(p, "work")
    /\ enable = 0
    /\ internal_step' = 0 /\ late' = TRUE
    /\ UNCHANGED appVars /\ sendWork
SendEarly(p) ==
    /\ goFrom(p, "work")
    /\ enable # 0 /\ (IF late THEN internal_step = 255 ELSE internal_step # 1)
    /\ late' = FALSE
    /\ UNCHANGED <<internal_step, appVars>> /\ sendWork

\* Mutation of OwnMemory: the process is not compared.
OwnMemoryAny(p) == smem[p] # NoProc
OwnMemory(p) == spid[p] = p /\ smem[p] # NoProc
SendMeasures(p) ==
    /\ enable # 0 /\ internal_step \in IF late THEN {0, 1} ELSE {1}
    /\ IF OwnMemory(p) THEN goSend(p, "work", "measure") /\ UNCHANGED <<spid, smem>>
       ELSE goFrom(p, "work")
    /\ late' = FALSE
    /\ pid_app' = p
    /\ UNCHANGED <<internal_step, pid_app2, mem_app>> /\ sendWork
\* sys_game_get_temperature writes the temperature to the memory, whose contents are then
\* restored.
Measured(p) ==
    /\ goFrom(p, "measure")
    /\ internal_step' = 2
    /\ UNCHANGED <<appVars, late>> /\ sendWork
MeasureFails(p) ==
    /\ goFrom(p, "measure")
    /\ UNCHANGED <<internal_step, appVars, late>> /\ sendWork

\* Steps 2 and 3.  After the speed has been set, or four times in which it has not, come the
\* LEDs; they are the end of the steps only in the mode with LEDs.  (Step 4, in which the
\* LEDs may blink, begins and ends within step 2.)
Led == IF enable = 2 THEN 0 ELSE 3
Adjusts(p, step, next) ==
    /\ goFrom(p, "work")
    /\ enable # 0 /\ late /\ internal_step = step
    /\ late' = FALSE
    /\ pid_app' = NoProc /\ mem_app' = NoProc
    /\ internal_step' = next
    /\ UNCHANGED pid_app2 /\ sendWork
SetFan(p)  == Adjusts(p, 2, Led)
SameFan(p) == Adjusts(p, 2, 0)
Blink(p)   == Adjusts(p, 2, 3)
SetLeds(p) == Adjusts(p, 3, Led)

SendRelease(p) ==
    /\ goSend(p, "release", "out")
    /\ in_use' = 0
    /\ UNCHANGED <<internal_step, appVars, marked, late, spid, smem, races>> /\ sendUnchanged

Work(p) == SendOff(p) \/ SendEarly(p) \/ SendMeasures(p) \/ Measured(p)
           \/ SetFan(p) \/ SameFan(p) \/ SetLeds(p)
Sends(p) == Send(p) \/ SendSet(p) \/ SendLoads(p) \/ SendRelease(p)
            \/ Work(p)

\* Once two hooks have passed in_use the variables are no longer kept apart, and the model
\* follows them no further.
HookNext ==
    /\ races = {}
    /\ \/ Switch
       \/ Time
       \/ \E p \in Procs : Receive(p) \/ Recv(p) \/ Sends(p) \/ MeasureFails(p) \/ Blink(p)

HookSpec == HookInit /\ [][HookNext]_hookVars
\* Fairness: time passes, a hook that has been entered is left, and processes keep sending.
HookFairSpec ==
    /\ HookSpec /\ WF_hookVars(Time)
    /\ \A p \in Procs : WF_hookVars(Recv(p)) /\ WF_hookVars(Sends(p))

(***************************************************************************)
(* Properties.                                                             *)
(***************************************************************************)
HookTypeOK ==
    /\ enable \in Switches \cup {0} /\ in_use \in {0, 1} /\ internal_step \in {0, 1, 2, 3, 255}
    /\ {pid_app, pid_app2, mem_app} \subseteq Procs \cup {NoProc}
    /\ marked \subseteq Procs /\ late \in BOOLEAN
    /\ rpc \in [Procs -> {"out", "set", "clear", "clear2", "pid", "mem", "step",
                          "release"}]
    /\ spc \in [Procs -> {"out", "set", "pid", "work", "measure", "release"}]
    /\ {rpid, spid, smem} \subseteq [Procs -> Procs \cup {NoProc}]
    /\ races \subseteq {"race"}

\* The temperature is written to memory of the process in which the hook runs, and never to
\* the same address of another, as long as no two hooks have passed in_use at once.
MemoryOwned == races = {} => \A p \in Procs : spc[p] = "measure" => smem[p] = p

\* The steps come to an end, whichever processes run them: after a measure the fan and the
\* LEDs are set and the next measure is begun, and the mark of a receive is taken away (as
\* long as no two hooks have passed in_use at once).
StepsEnd == internal_step \in {2, 3, 255} ~> (internal_step \in {0, 1} \/ races # {})

=============================================================================
