----------------------------- MODULE FtpServer -----------------------------
(***************************************************************************)
(* The threads of the FTP server, src/source/ftp: the program that starts  *)
(* and stops it (ftp.c), the listener (server.c), the control thread that  *)
(* ages the sign of activity ftp_working (ftp.c), and one thread for each  *)
(* client (client.c).                                                      *)
(*                                                                         *)
(* Of a command only what the threads share is here; the tickets it takes  *)
(* are in FtpQueue.  A thread is numbered by its connection.               *)
(***************************************************************************)
EXTENDS Integers, FiniteSets

CONSTANTS
    MaxConns,      \* connections made while the program runs
    MaxCommands,   \* commands the clients send
    MaxStarts      \* times the server is started

ASSUME BoundsAssumption == {MaxConns, MaxCommands, MaxStarts} \subseteq Nat

Conns == 1 .. MaxConns
NoConn == 0

VARIABLES
    appstate, ftp_initialized, ftp_working,
    network,             \* whether sockets work
    manager, starts,     \* the program
    listener, conn_s,    \* the listener and its local variable
    conns,               \* connections accepted so far
    open,                \* connections whose socket is open
    control,
    pc, conn,            \* each client thread: where it is, and its socket
    commands,            \* commands received so far
    slips                \* the known hazards that have been met: a connection gone "stray",
                         \* a transfer's mark "hidden" by another's, a transfer that had
                         \* "nodata", a server gone "deaf"

mainVars   == <<appstate, ftp_initialized, network, manager, starts>>
listenVars == <<listener, conn_s, conns>>
clientVars == <<pc, conn, commands>>
vars == <<mainVars, listenVars, open, control, ftp_working, clientVars, slips>>

Init ==
    /\ appstate = 0 /\ ftp_initialized = FALSE /\ ftp_working = 0 /\ network = FALSE
    /\ manager = "off" /\ starts = 0
    /\ listener = "none" /\ conn_s = NoConn /\ conns = 0 /\ open = {}
    /\ control = "none"
    /\ pc = [t \in Conns |-> "none"] /\ conn = [t \in Conns |-> NoConn]
    /\ commands = 0
    /\ slips = {}

(***************************************************************************)
(* The program: ftp_init and ftp_deinit.                                   *)
(***************************************************************************)
Transferring(t) == pc[t] = "xfer"

ftp_init ==
    /\ manager = "off" /\ starts < MaxStarts
    /\ manager' = "on" /\ starts' = starts + 1
    /\ ftp_working' = 0 /\ network' = TRUE /\ appstate' = 0 /\ ftp_initialized' = TRUE
    /\ listener' = "bind" /\ control' = "tick"
    /\ slips' = slips \cup (IF \E t \in Conns : Transferring(t) THEN {"hidden"} ELSE {})
    /\ UNCHANGED <<conn_s, conns, open, clientVars>>

\* Without an address the network is left again, and the start has only reset the activity.
InitFails ==
    /\ manager = "off" /\ starts < MaxStarts
    /\ starts' = starts + 1
    /\ ftp_working' = 0 /\ ftp_initialized' = FALSE
    /\ UNCHANGED <<appstate, network, manager, listenVars, open, control,
                   clientVars, slips>>

ftp_deinit ==
    /\ manager = "on" /\ ftp_initialized
    /\ manager' = "stopping"
    /\ appstate' = 1
    /\ UNCHANGED <<ftp_initialized, ftp_working, network, starts, listenVars, open, control,
                   clientVars, slips>>

\* ftp_net_deinit, under whatever the threads do with their sockets.
\* Mutation of Disconnects: the network is left up until the threads are joined.
DisconnectsLate == UNCHANGED <<network, open>>
Disconnects == network' = FALSE /\ open' = {}
NetDown ==
    /\ manager = "stopping" /\ manager' = "joining"
    /\ Disconnects
    /\ UNCHANGED <<appstate, ftp_initialized, starts, ftp_working, listenVars, control,
                   clientVars, slips>>

\* The listener and the control thread are joined, the client threads are not.
Joined ==
    /\ manager = "joining" /\ listener = "done" /\ control = "done"
    /\ manager' = "off"
    /\ ftp_initialized' = FALSE /\ ftp_working' = 0
    /\ UNCHANGED <<appstate, network, starts, listenVars, open, control, clientVars,
                   slips>>

Manager == ftp_init \/ InitFails \/ ftp_deinit \/ NetDown \/ Joined

(***************************************************************************)
(* The listener.  It gives each client thread the address of its own       *)
(* conn_s, and goes on to accept the next connection.                      *)
(***************************************************************************)
listenUnchanged == UNCHANGED <<ftp_initialized, network, manager, starts, control, ftp_working,
                               conn, commands>>

Bind ==
    /\ listener = "bind" /\ listener' = "loop"
    /\ UNCHANGED <<appstate, conn_s, conns, open, pc, slips>> /\ listenUnchanged
BindFails ==
    /\ listener = "bind" /\ listener' = "loop"
    /\ appstate' = 1
    /\ slips' = slips \cup {"deaf"}
    /\ UNCHANGED <<conn_s, conns, open, pc>> /\ listenUnchanged

ListenerLoop ==
    /\ listener = "loop"
    /\ listener' = IF appstate = 1 THEN "done" ELSE "accept"
    /\ UNCHANGED <<appstate, conn_s, conns, open, pc, slips>> /\ listenUnchanged

\* A thread that has been created and has not yet read conn_s finds the next one.
Overwritten == \E t \in Conns : pc[t] = "born"
AcceptConn(state) ==
    /\ listener = "accept" /\ network /\ conns < MaxConns
    /\ conns' = conns + 1 /\ conn_s' = conns + 1
    /\ open' = open \cup {conns + 1}
    /\ pc' = [pc EXCEPT ![conns + 1] = state]
    /\ listener' = "loop"
    /\ UNCHANGED appstate /\ listenUnchanged
Accept == /\ AcceptConn("born")
          /\ slips' = slips \cup (IF Overwritten THEN {"stray"} ELSE {})
\* The result of sysThreadCreate is not looked at: nobody serves the connection.
CreateFails == AcceptConn("done") /\ slips' = slips \cup {"stray"}
\* Without a network accept returns at once, and is called again after 250 ms.
AcceptFails ==
    /\ listener = "accept" /\ ~network
    /\ conn_s' = NoConn
    /\ listener' = "loop"
    /\ slips' = slips \cup (IF Overwritten THEN {"stray"} ELSE {})
    /\ UNCHANGED <<appstate, conns, open, pc>> /\ listenUnchanged

Listener == Bind \/ ListenerLoop \/ Accept \/ AcceptFails

(***************************************************************************)
(* The control thread: every 100 ms it turns "just done" (2) into "cooling *)
(* down" (3), and that into "idle" (0) when 10 seconds have passed.        *)
(***************************************************************************)
controlUnchanged == UNCHANGED <<mainVars, listenVars, open, clientVars>>

Tick ==
    /\ control = "tick"
    /\ \/ appstate = 1 /\ control' = "done"
       \/ appstate = 0 /\ ftp_working = 2 /\ control' = "set3"
       \/ appstate = 0 /\ ftp_working = 3 /\ control' = "set0"
    /\ UNCHANGED <<ftp_working, slips>> /\ controlUnchanged
\* Between the test of ftp_working and the assignment a transfer may begin.
Aged(to) == to
Age(from, to, at) ==
    /\ control = at /\ control' = "tick"
    /\ ftp_working' = Aged(to)
    /\ slips' = slips \cup (IF ftp_working = from THEN {} ELSE {"hidden"})
    /\ controlUnchanged
Control == Tick \/ Age(2, 3, "set3") \/ Age(3, 0, "set0")

(***************************************************************************)
(* A client thread.                                                        *)
(***************************************************************************)
goClient(t, from, to) == pc[t] = from /\ pc' = [pc EXCEPT ![t] = to]
clientUnchanged == UNCHANGED <<mainVars, listenVars, control>>

CopyConn(t) ==
    /\ goClient(t, "born", "test")
    /\ conn' = [conn EXCEPT ![t] = conn_s]
    /\ UNCHANGED <<commands, open, ftp_working, slips>> /\ clientUnchanged

Live(t) == conn[t] \in open
Test(t) ==
    /\ goClient(t, "test", IF appstate = 1 THEN "close" ELSE "recv")
    /\ UNCHANGED <<conn, commands, open, ftp_working, slips>> /\ clientUnchanged
Receive(t) ==
    /\ goClient(t, "recv", "run")
    /\ Live(t) /\ commands < MaxCommands
    /\ commands' = commands + 1
    /\ UNCHANGED <<conn, open, ftp_working, slips>> /\ clientUnchanged
\* recv fails, but its -1 is a size_t greater than 0: what temp still holds, the last
\* answer, is taken for a command, an unknown one.
ReceiveFails(t) ==
    /\ goClient(t, "recv", "test")
    /\ UNCHANGED <<conn, commands, open, ftp_working, slips>> /\ clientUnchanged
\* The client hangs up, or sends a line that has no end.
ReceiveEnds(t) ==
    /\ goClient(t, "recv", "close")
    /\ UNCHANGED <<conn, commands, open, ftp_working, slips>> /\ clientUnchanged

Clears(t) == IF \E u \in Conns \ {t} : Transferring(u) THEN {"hidden"} ELSE {}

runUnchanged == UNCHANGED <<conn, commands, open>> /\ clientUnchanged

\* NOOP says that nothing goes on, and so does QUIT, which leaves the loop.
Noop(t) ==
    /\ goClient(t, "run", "test")
    /\ ftp_working' = 0
    /\ slips' = slips \cup Clears(t)
    /\ runUnchanged
Quit(t) ==
    /\ goClient(t, "run", "close")
    /\ ftp_working' = 0
    /\ slips' = slips \cup Clears(t)
    /\ runUnchanged
\* A command that touches nothing the threads share: sessions, listings, errors.
Other(t) ==
    /\ goClient(t, "run", "test")
    /\ UNCHANGED <<ftp_working, slips>>
    /\ runUnchanged
\* A command that changes the disk: if(ftp_working != 1) ftp_working = 2; is a test and an
\* assignment.
Change(t) ==
    /\ goClient(t, "run", IF ftp_working # 1 THEN "set2" ELSE "test")
    /\ UNCHANGED <<ftp_working, slips>>
    /\ runUnchanged
SetTwo(t) ==
    /\ goClient(t, "set2", "test")
    /\ ftp_working' = 2
    /\ slips' = slips \cup Clears(t)
    /\ runUnchanged
\* RETR, STOR and APPE.  Without a data connection they answer 425 and are left by continue,
\* after the mark of the transfer.
\* Mutation of Begins: the mark of the commands that change the disk.
BeginsTwo == ftp_working' = 2
Begins == ftp_working' = 1
StartTransfer(t) ==
    /\ goClient(t, "run", "xfer")
    /\ Begins
    /\ UNCHANGED slips
    /\ runUnchanged
NoData(t) ==
    /\ goClient(t, "run", "test")
    /\ Begins
    /\ slips' = slips \cup {"nodata"}
    /\ runUnchanged
\* Mutation of Ends: the end of a transfer is not noted.
EndsSilently == UNCHANGED ftp_working
Ends == ftp_working' = 2
EndTransfer(t) ==
    /\ goClient(t, "xfer", "test")
    /\ Ends
    /\ slips' = slips \cup Clears(t)
    /\ runUnchanged
\* A transfer whose file cannot be opened ends, although it has not begun.
NoFile(t) ==
    /\ goClient(t, "run", "test")
    /\ Ends
    /\ slips' = slips \cup Clears(t)
    /\ runUnchanged

\* Mutation of Closes: the socket of the connection is forgotten.
ClosesNot(t) == {}
Closes(t) == {conn[t]}
Close(t) ==
    /\ goClient(t, "close", "done")
    /\ open' = open \ Closes(t)
    /\ UNCHANGED <<conn, commands, ftp_working, slips>> /\ clientUnchanged

Run(t) == Noop(t) \/ Quit(t) \/ Other(t) \/ Change(t) \/ SetTwo(t) \/ StartTransfer(t)
          \/ NoData(t) \/ EndTransfer(t) \/ NoFile(t)
Client(t) == CopyConn(t) \/ Test(t) \/ Run(t) \/ Close(t)

Next == \/ Manager \/ Listener \/ Control
        \/ BindFails \/ CreateFails
        \/ \E t \in Conns : Client(t) \/ Receive(t) \/ ReceiveFails(t) \/ ReceiveEnds(t)

Spec == Init /\ [][Next]_vars

(***************************************************************************)
(* Fairness.  Each thread runs while it can; a stop once begun goes on; a  *)
(* receive on a dead socket returns; and a transfer comes to its end.      *)
(***************************************************************************)
Fairness ==
    /\ WF_vars(NetDown \/ Joined) /\ WF_vars(Bind \/ ListenerLoop \/ AcceptFails)
    /\ WF_vars(Control)
    /\ \A t \in Conns : /\ WF_vars(Client(t))
                        /\ WF_vars(~Live(t) /\ (ReceiveFails(t) \/ ReceiveEnds(t)))
FairSpec == Spec /\ Fairness

(***************************************************************************)
(* Properties.  What is named in slips is the exception to each of them.   *)
(***************************************************************************)
Without(known) == slips \cap known = {}
Serves(t, c) == \/ pc[t] = "born" /\ conn_s = c
                \/ pc[t] \notin {"none", "born", "done"} /\ conn[t] = c

TypeOK ==
    /\ appstate \in {0, 1} /\ ftp_initialized \in BOOLEAN /\ network \in BOOLEAN
    /\ manager \in {"off", "on", "stopping", "joining"} /\ starts \in 0 .. MaxStarts
    /\ listener \in {"none", "bind", "loop", "accept", "done"}
    /\ conn_s \in Conns \cup {NoConn} /\ conns \in 0 .. MaxConns /\ open \subseteq 1 .. conns
    /\ control \in {"none", "tick", "set3", "set0", "done"} /\ ftp_working \in 0 .. 3
    /\ pc \in [Conns -> {"none", "born", "test", "recv", "run", "set2", "xfer", "close", "done"}]
    /\ conn \in [Conns -> Conns \cup {NoConn}] /\ commands \in 0 .. MaxCommands
    /\ slips \subseteq {"stray", "hidden", "nodata", "deaf"}

\* Each open connection has exactly one client thread, which listens to it (server.c hands
\* it over by the address of a variable that the next accept writes).
ConnectionsServed ==
    Without({"stray"}) =>
        \A c \in open : Cardinality({t \in Conns : Serves(t, c)}) = 1

\* While a file goes over the wire get_ftp_activity says so, and the program, which asks it,
\* does not stop the server (or the console) under the transfer.
ActivitySeen ==
    Without({"hidden"}) /\ ftp_initialized =>
        \A t \in Conns : Transferring(t) => ftp_working # 0

\* When the clients are done the activity ends, however transfers, deletions, NOOPs and the
\* control thread have come between one another.
ActivityEnds ==
    <>[](Without({"nodata", "deaf"}) /\ ftp_initialized /\ appstate = 0 => ftp_working = 0)

\* ftp_deinit returns, although the listener is in accept when it is called, and unless the
\* server is started again in the meantime the client threads, which it does not join, end.
StopEnds ==
    /\ manager = "stopping" ~> manager = "off"
    /\ appstate = 1 ~> \/ appstate = 0 \/ ~Without({"deaf"})
                       \/ \A t \in Conns : pc[t] \in {"none", "done"}

=============================================================================
