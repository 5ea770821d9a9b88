-------------------------- MODULE FtpServerProofs --------------------------
(***************************************************************************)
(* Two theorems about the threads of the FTP server, for any number of     *)
(* connections, commands and starts: each open connection has its thread,  *)
(* and the sign of activity covers every transfer.                         *)
(*                                                                         *)
(* Neither is inductive.  A thread and its connection have the same        *)
(* number, as long as none has gone astray (ServiceInv).  And a transfer   *)
(* keeps ftp_working not only from 0 but at 1: at 2 or 3 the control       *)
(* thread would turn it into 0 (ActiveInv).                                *)
(***************************************************************************)
EXTENDS FtpServer, FiniteSetTheorems, TLAPS

Threads == /\ conns \in 0 .. MaxConns
           /\ DOMAIN pc = Conns /\ DOMAIN conn = Conns
           /\ \A t \in Conns : t > conns => pc[t] = "none"

\* A thread that is born finds its connection in conn_s, and then keeps it; a connection is
\* open only while its thread lives.
OwnConn(t) == /\ pc[t] = "born" => conn_s = t
              /\ pc[t] \notin {"none", "born", "done"} => conn[t] = t
Alive == {t \in Conns : pc[t] \notin {"none", "done"}}
Service == (\A t \in Conns : OwnConn(t)) /\ open \subseteq Alive
ServiceInv == Threads /\ (Without({"stray"}) => Service)

Active == \A t \in Conns : Transferring(t) => ftp_working = 1
ActiveInv == Without({"hidden"}) /\ ftp_initialized => Active

\* A hazard that has not been met now has not been met before.
LEMMA SlipsGrow ==
    ASSUME NEW known, slips \subseteq slips', slips' \cap known = {}
    PROVE  slips \cap known = {}
  OBVIOUS

(***************************************************************************)
(* Connections and threads.                                                *)
(***************************************************************************)
LEMMA ServiceInit == Init => ServiceInv
  BY BoundsAssumption DEF Init, ServiceInv, Threads, Service, OwnConn, Conns

\* Steps that leave the threads, their variables and conn_s as they are.
LEMMA ServiceQuiet ==
    ASSUME ServiceInv, UNCHANGED <<conn_s, conns, pc, conn>>, open' \subseteq open,
           slips \subseteq slips'
    PROVE  ServiceInv'
  BY DEF ServiceInv, Threads, Service, OwnConn, Alive, Without

\* A thread that goes from one place to another, neither of them "born", and keeps its
\* connection open or closes it.
LEMMA ServiceStep ==
    ASSUME ServiceInv, NEW t \in Conns, NEW from, NEW to,
           goClient(t, from, to),
           from \notin {"none", "born", "done"}, to \notin {"none", "born"},
           UNCHANGED <<conn_s, conns, conn>>, slips \subseteq slips',
           open' = open \/ open' = open \ {conn[t]}, to = "done" => open' = open \ {conn[t]}
    PROVE  ServiceInv'
<1>1. Threads'
  BY DEF ServiceInv, Threads, goClient
<1>2. ASSUME Without({"stray"})' PROVE Service'
  <2>1. Service
    BY <1>2, SlipsGrow DEF ServiceInv, Without
  <2>2. conn[t] = t
    BY <2>1 DEF Service, OwnConn, goClient
  <2>3. \A u \in Conns : pc'[u] = IF u = t THEN to ELSE pc[u]
    BY DEF ServiceInv, Threads, goClient
  <2>4. \A u \in Conns : OwnConn(u)'
    BY <2>1, <2>2, <2>3 DEF Service, OwnConn
  <2>5. open' \subseteq Alive'
    BY <2>1, <2>2, <2>3 DEF Service, Alive
  <2>6. QED
    BY <2>4, <2>5 DEF Service
<1>3. QED
  BY <1>1, <1>2 DEF ServiceInv

\* A connection that is accepted has a thread of its number; conn_s names it until the next.
LEMMA ServiceAccept ==
    ASSUME ServiceInv, Accept
    PROVE  ServiceInv'
<1>1. conns + 1 \in Conns /\ pc[conns + 1] = "none" /\ conns' = conns + 1
  BY BoundsAssumption DEF ServiceInv, Threads, Accept, AcceptConn, Conns
<1>2. \A u \in Conns : pc'[u] = IF u = conns + 1 THEN "born" ELSE pc[u]
  BY DEF ServiceInv, Threads, Accept, AcceptConn
<1>3. Threads'
  BY <1>1, <1>2, BoundsAssumption
     DEF ServiceInv, Threads, Accept, AcceptConn, listenUnchanged, Conns
<1>4. ASSUME Without({"stray"})' PROVE Service'
  <2>1. Service /\ ~Overwritten
    BY <1>4 DEF ServiceInv, Without, Accept
  <2>2. conn' = conn /\ conn_s' = conns + 1 /\ open' = open \cup {conns + 1}
    BY DEF Accept, AcceptConn, listenUnchanged
  <2>3. \A u \in Conns : OwnConn(u)'
    BY <1>2, <2>1, <2>2 DEF Service, OwnConn, Overwritten
  <2>4. open' \subseteq Alive'
    BY <1>1, <1>2, <2>1, <2>2 DEF Service, Alive
  <2>5. QED
    BY <2>3, <2>4 DEF Service
<1>5. QED
  BY <1>3, <1>4 DEF ServiceInv

\* The other steps of the listener; a thread that is not created is a connection astray.
LEMMA ServiceListener ==
    ASSUME ServiceInv, Bind \/ BindFails \/ ListenerLoop \/ AcceptFails \/ CreateFails
    PROVE  ServiceInv'
<1>1. CASE Bind \/ BindFails \/ ListenerLoop
  BY <1>1, ServiceQuiet DEF Bind, BindFails, ListenerLoop, listenUnchanged
<1>2. CASE AcceptFails
  <2>1. UNCHANGED <<conns, pc, conn, open>> /\ slips \subseteq slips'
    BY <1>2 DEF AcceptFails, listenUnchanged
  <2>2. Without({"stray"})' => ~Overwritten
    BY <1>2 DEF AcceptFails, Without
  <2>3. QED
    BY <2>1, <2>2, SlipsGrow DEF ServiceInv, Threads, Service, OwnConn, Alive, Without, Overwritten
<1>3. CASE CreateFails
  <2>1. ~Without({"stray"})'
    BY <1>3 DEF CreateFails, Without
  <2>2. \A u \in Conns : pc'[u] = IF u = conns + 1 THEN "done" ELSE pc[u]
    BY <1>3 DEF ServiceInv, Threads, CreateFails, AcceptConn
  <2>3. Threads'
    BY <1>3, <2>2, BoundsAssumption
       DEF ServiceInv, Threads, CreateFails, AcceptConn, listenUnchanged, Conns
  <2>4. QED
    BY <2>1, <2>3 DEF ServiceInv
<1>4. QED
  BY <1>1, <1>2, <1>3

\* A step of a client thread keeps its connection its own.
LEMMA ServiceClient ==
    ASSUME ServiceInv, NEW t \in Conns,
           Client(t) \/ Receive(t) \/ ReceiveFails(t) \/ ReceiveEnds(t)
    PROVE  ServiceInv'
<1> USE DEF clientUnchanged, listenVars, runUnchanged
<1>1. CASE CopyConn(t)
  <2>1. UNCHANGED <<conn_s, conns, open, slips>>
    BY <1>1 DEF CopyConn
  <2>2. \A u \in Conns : /\ pc'[u] = IF u = t THEN "test" ELSE pc[u]
                         /\ conn'[u] = IF u = t THEN conn_s ELSE conn[u]
    BY <1>1 DEF CopyConn, goClient, ServiceInv, Threads
  <2>3. Threads' /\ pc[t] = "born"
    BY <1>1, <2>1 DEF CopyConn, goClient, ServiceInv, Threads
  <2>4. ASSUME Service PROVE Service'
    <3>1. \A u \in Conns : OwnConn(u)'
      BY <2>1, <2>2, <2>3, <2>4 DEF Service, OwnConn
    <3>2. open' \subseteq Alive'
      BY <2>1, <2>2, <2>4 DEF Service, Alive
    <3>3. QED
      BY <3>1, <3>2 DEF Service
  <2>5. QED
    BY <2>1, <2>3, <2>4 DEF ServiceInv, Without
<1>2. CASE Test(t)
  BY <1>2, ServiceStep DEF Test
<1>3. CASE Receive(t) \/ ReceiveFails(t) \/ ReceiveEnds(t)
  BY <1>3, ServiceStep DEF Receive, ReceiveFails, ReceiveEnds
<1>4. CASE Noop(t) \/ Quit(t) \/ Other(t) \/ SetTwo(t)
  BY <1>4, ServiceStep DEF Noop, Quit, Other, SetTwo
<1>5. CASE Change(t)
  BY <1>5, ServiceStep DEF Change
<1>6. CASE StartTransfer(t) \/ NoData(t) \/ EndTransfer(t) \/ NoFile(t)
  BY <1>6, ServiceStep DEF StartTransfer, NoData, EndTransfer, NoFile
<1>7. CASE Close(t)
  BY <1>7, ServiceStep DEF Close, Closes
<1>8. QED
  BY <1>1, <1>2, <1>3, <1>4, <1>5, <1>6, <1>7 DEF Client, Run

\* Every step keeps the connections served.
LEMMA ServiceNext == ServiceInv /\ [Next]_vars => ServiceInv'
<1> SUFFICES ASSUME ServiceInv, [Next]_vars PROVE ServiceInv'
  OBVIOUS
<1>1. CASE Manager
  BY <1>1, ServiceQuiet DEF Manager, ftp_init, InitFails, ftp_deinit, NetDown, Disconnects, Joined,
                            listenVars, clientVars
<1>2. CASE Listener \/ BindFails \/ CreateFails
  BY <1>2, ServiceAccept, ServiceListener DEF Listener
<1>3. CASE Control
  BY <1>3, ServiceQuiet DEF Control, Tick, Age, controlUnchanged, listenVars, clientVars
<1>4. CASE \E t \in Conns : Client(t) \/ Receive(t) \/ ReceiveFails(t) \/ ReceiveEnds(t)
  BY <1>4, ServiceClient
<1>5. CASE UNCHANGED vars
  BY <1>5, ServiceQuiet DEF vars, listenVars, clientVars
<1>6. QED
  BY <1>1, <1>2, <1>3, <1>4, <1>5 DEF Next

\* A connection is served by the thread of its number and by no other.
LEMMA ServiceServes == ServiceInv => ConnectionsServed
<1> SUFFICES ASSUME Threads, Service, NEW c \in open
             PROVE  Cardinality({t \in Conns : Serves(t, c)}) = 1
  BY DEF ServiceInv, ConnectionsServed
<1>1. \A t \in Conns : Serves(t, c) <=> t = c
  BY DEF Service, OwnConn, Alive, Serves
<1>2. {t \in Conns : Serves(t, c)} = {c}
  BY <1>1 DEF Service, Alive
<1>3. QED
  BY <1>2, FS_Singleton

\* Every open connection has exactly one client thread, however many come and go, unless the
\* listener's next accept overwrote conn_s (server.c:59) or a thread was not created.
THEOREM Served == Spec => []ConnectionsServed
  BY ServiceInit, ServiceNext, ServiceServes, PTL DEF Spec

(***************************************************************************)
(* The sign of activity.                                                   *)
(***************************************************************************)
\* A step in which no transfer begins and ftp_working stays, or is set where slips would
\* note a transfer that it hides.
LEMMA ActiveQuiet ==
    ASSUME ActiveInv, slips \subseteq slips', ftp_initialized' = ftp_initialized,
           \A t \in Conns : Transferring(t)' => Transferring(t),
           Without({"hidden"})' => ftp_working' = ftp_working \/ \A t \in Conns : ~Transferring(t)'
    PROVE  ActiveInv'
  BY DEF ActiveInv, Active, Without

\* The program resets the activity when the server is off, or slips names what it hides.
LEMMA ActiveManager ==
    ASSUME ActiveInv, Manager
    PROVE  ActiveInv'
<1>1. CASE ftp_init
  BY <1>1 DEF ftp_init, ActiveInv, Active, Without, Transferring, clientVars
<1>2. CASE ftp_deinit \/ NetDown
  BY <1>2, ActiveQuiet DEF ftp_deinit, NetDown, Transferring, clientVars
<1>3. CASE Joined \/ InitFails
  BY <1>3 DEF Joined, InitFails, ActiveInv
<1>4. QED
  BY <1>1, <1>2, <1>3 DEF Manager

\* The listener leaves the activity and the transfers alone.
LEMMA ActiveListener ==
    ASSUME Threads, ActiveInv, Listener \/ BindFails \/ CreateFails
    PROVE  ActiveInv'
<1>1. slips \subseteq slips' /\ ftp_initialized' = ftp_initialized /\ ftp_working' = ftp_working
  BY DEF Listener, Bind, BindFails, ListenerLoop, AcceptConn, Accept, CreateFails, AcceptFails,
         listenUnchanged
<1>2. \A t \in Conns : Transferring(t)' => Transferring(t)
  BY DEF Listener, Bind, BindFails, ListenerLoop, AcceptConn, Accept, CreateFails, AcceptFails,
         Transferring, Threads
<1>3. QED
  BY <1>1, <1>2, ActiveQuiet

\* The control thread: where it assigns, a transfer would have been at 1.
LEMMA ActiveControl ==
    ASSUME ActiveInv, Control
    PROVE  ActiveInv'
<1>1. CASE Tick
  BY <1>1, ActiveQuiet DEF Tick, controlUnchanged, mainVars, clientVars, Transferring
<1>2. ASSUME NEW from \in {2, 3}, NEW to, NEW at, Age(from, to, at) PROVE ActiveInv'
  <2>1. UNCHANGED <<pc, ftp_initialized>> /\ slips \subseteq slips'
    BY <1>2 DEF Age, controlUnchanged, mainVars, clientVars
  <2>2. Without({"hidden"})' => ftp_working = from
    BY <1>2 DEF Age, Without
  <2>3. QED
    BY <2>1, <2>2 DEF ActiveInv, Active, Without, Transferring
<1>3. QED
  BY <1>1, <1>2 DEF Control

\* A step of a client thread that is not the begin of a transfer.
LEMMA ActiveStep ==
    ASSUME Threads, ActiveInv, NEW t \in Conns, NEW from, NEW to,
           goClient(t, from, to), to # "xfer", ftp_initialized' = ftp_initialized,
           \/ ftp_working' \in {ftp_working, 1} /\ slips \subseteq slips'
           \/ slips' = slips \cup Clears(t)
    PROVE  ActiveInv'
<1>1. \A u \in Conns : Transferring(u)' => u # t /\ Transferring(u)
  BY DEF Threads, goClient, Transferring
<1>2. CASE ftp_working' \in {ftp_working, 1} /\ slips \subseteq slips'
  BY <1>1, <1>2 DEF ActiveInv, Active, Without
<1>3. CASE slips' = slips \cup Clears(t)
  <2>1. Without({"hidden"})' => \A u \in Conns \ {t} : ~Transferring(u)
    BY <1>3 DEF Clears, Without
  <2>2. QED
    BY <1>1, <1>3, <2>1 DEF ActiveInv, Active, Without
<1>4. QED
  BY <1>2, <1>3

\* A step of a client thread that hides another's transfer is named in slips.
LEMMA ActiveClient ==
    ASSUME Threads, ActiveInv, NEW t \in Conns,
           Client(t) \/ Receive(t) \/ ReceiveFails(t) \/ ReceiveEnds(t)
    PROVE  ActiveInv'
<1> USE DEF clientUnchanged, mainVars, runUnchanged, Begins
<1>1. CASE CopyConn(t)
  BY <1>1, ActiveStep DEF CopyConn
<1>2. CASE Test(t)
  BY <1>2, ActiveStep DEF Test
<1>3. CASE Receive(t) \/ ReceiveFails(t) \/ ReceiveEnds(t)
  BY <1>3, ActiveStep DEF Receive, ReceiveFails, ReceiveEnds
<1>4. CASE Noop(t) \/ Quit(t) \/ Other(t) \/ SetTwo(t)
  BY <1>4, ActiveStep DEF Noop, Quit, Other, SetTwo
<1>5. CASE Change(t)
  BY <1>5, ActiveStep DEF Change
<1>6. CASE NoData(t) \/ EndTransfer(t) \/ NoFile(t)
  <2>1. CASE NoData(t)
    BY <2>1, ActiveStep DEF NoData
  <2>2. CASE EndTransfer(t) \/ NoFile(t)
    BY <2>2, ActiveStep DEF EndTransfer, NoFile
  <2>3. QED
    BY <1>6, <2>1, <2>2
<1>7. CASE Close(t)
  BY <1>7, ActiveStep DEF Close
<1>8. CASE StartTransfer(t)
  BY <1>8 DEF StartTransfer, ActiveInv, Active
<1>9. QED
  BY <1>1, <1>2, <1>3, <1>4, <1>5, <1>6, <1>7, <1>8 DEF Client, Run

\* Every step keeps the activity of a transfer at 1.
LEMMA ActiveNext == Threads /\ ActiveInv /\ [Next]_vars => ActiveInv'
<1> SUFFICES ASSUME Threads, ActiveInv, [Next]_vars PROVE ActiveInv'
  OBVIOUS
<1>1. CASE UNCHANGED vars
  BY <1>1, ActiveQuiet DEF vars, mainVars, clientVars, Transferring
<1>2. QED
  BY <1>1, ActiveManager, ActiveListener, ActiveControl, ActiveClient DEF Next

\* No server, no transfer.
LEMMA ActiveFirst == Init => ActiveInv
  BY DEF Init, ActiveInv

\* An activity of 1 is one that get_ftp_activity sees.
LEMMA ActiveSeen == ActiveInv => ActivitySeen
  BY DEF ActiveInv, Active, ActivitySeen

\* The threads' part of the invariant.
LEMMA ServiceThreads == ServiceInv => Threads
  BY DEF ServiceInv

\* While the server is on, get_ftp_activity does not deny a transfer, unless another client's
\* command or the control thread has overwritten its mark (ftp.c:39, client.c:145).
THEOREM Seen == Spec => []ActivitySeen
  BY ServiceInit, ServiceNext, ServiceThreads, ActiveFirst, ActiveNext, ActiveSeen, PTL DEF Spec

(***************************************************************************)
(* The types.                                                              *)
(***************************************************************************)
ServerTypes ==
    /\ appstate \in {0, 1} /\ ftp_initialized \in BOOLEAN /\ network \in BOOLEAN
    /\ manager \in {"off", "on", "stopping", "joining"} /\ starts \in 0 .. MaxStarts
    /\ listener \in {"none", "bind", "loop", "accept", "done"}
    /\ conn_s \in Conns \cup {NoConn} /\ conns \in 0 .. MaxConns
    /\ control \in {"none", "tick", "set3", "set0", "done"}
PcTypes == {"none", "born", "test", "recv", "run", "set2", "xfer", "close", "done"}
ClientTypes ==
    /\ pc \in [Conns -> PcTypes] /\ conn \in [Conns -> Conns \cup {NoConn}]
    /\ commands \in 0 .. MaxCommands
SlipTypes == slips \subseteq {"stray", "hidden", "nodata", "deaf"}
OpenTypes == open \subseteq 1 .. conns
WorkingTypes == ftp_working \in 0 .. 3

\* The types, part by part.
LEMMA TypeParts ==
    TypeOK <=> ServerTypes /\ ClientTypes /\ SlipTypes /\ OpenTypes /\ WorkingTypes
  BY DEF TypeOK, ServerTypes, ClientTypes, PcTypes, SlipTypes, OpenTypes, WorkingTypes

\* The program.
LEMMA TypeManager == ASSUME TypeOK, Manager PROVE TypeOK'
<1>1. ServerTypes /\ ClientTypes /\ SlipTypes /\ OpenTypes /\ WorkingTypes
  BY TypeParts
<1>2. ServerTypes'
  <2>1. CASE ftp_init
    BY <1>1, <2>1, BoundsAssumption DEF ftp_init, ServerTypes
  <2>2. CASE InitFails
    <3>1. starts' \in 0 .. MaxStarts
      BY <1>1, <2>2, BoundsAssumption DEF InitFails, ServerTypes
    <3>2. QED
      BY <1>1, <2>2, <3>1 DEF InitFails, ServerTypes, listenVars
  <2>3. CASE ftp_deinit
    BY <1>1, <2>3 DEF ftp_deinit, ServerTypes, listenVars
  <2>4. CASE NetDown
    BY <1>1, <2>4 DEF NetDown, Disconnects, ServerTypes, listenVars
  <2>5. CASE Joined
    BY <1>1, <2>5 DEF Joined, ServerTypes, listenVars
  <2>6. QED
    BY <2>1, <2>2, <2>3, <2>4, <2>5 DEF Manager
<1>3. ClientTypes'
  BY <1>1 DEF Manager, ftp_init, InitFails, ftp_deinit, NetDown, Joined, ClientTypes, clientVars
<1>4. SlipTypes'
  BY <1>1 DEF Manager, ftp_init, InitFails, ftp_deinit, NetDown, Joined, SlipTypes
<1>5. OpenTypes'
  <2>1. open' \subseteq open /\ conns' = conns
    BY DEF Manager, ftp_init, InitFails, ftp_deinit, NetDown, Disconnects, Joined, listenVars
  <2>2. QED
    BY <1>1, <2>1 DEF OpenTypes
<1>6. WorkingTypes'
  BY <1>1 DEF Manager, ftp_init, InitFails, ftp_deinit, NetDown, Joined, WorkingTypes
<1>7. QED
  BY <1>2, <1>3, <1>4, <1>5, <1>6, TypeParts, PTL

\* The listener.
LEMMA TypeListener ==
    ASSUME TypeOK, Listener \/ BindFails \/ CreateFails
    PROVE  TypeOK'
<1>1. ServerTypes /\ ClientTypes /\ SlipTypes /\ OpenTypes /\ WorkingTypes
  BY TypeParts
<1>2. SlipTypes'
  BY <1>1 DEF Listener, Bind, BindFails, ListenerLoop, Accept, CreateFails, AcceptFails, SlipTypes
<1>3. UNCHANGED <<ftp_initialized, network, manager, starts, control, ftp_working, conn, commands>>
  BY DEF Listener, Bind, BindFails, ListenerLoop, Accept, CreateFails, AcceptConn, AcceptFails,
         listenUnchanged
<1>4. CASE Bind \/ BindFails \/ ListenerLoop \/ AcceptFails
  <2>1. ServerTypes'
    BY <1>1, <1>3, <1>4 DEF Bind, BindFails, ListenerLoop, AcceptFails, ServerTypes
  <2>2. ClientTypes' /\ OpenTypes' /\ WorkingTypes'
    BY <1>1, <1>3, <1>4
       DEF Bind, BindFails, ListenerLoop, AcceptFails, ClientTypes, OpenTypes, WorkingTypes
  <2>3. QED
    BY <1>2, <2>1, <2>2, TypeParts, PTL
<1>5. ASSUME NEW state \in {"born", "done"}, AcceptConn(state) PROVE TypeOK'
  <2>1. conns' \in 0 .. MaxConns /\ conn_s' \in Conns /\ OpenTypes'
    BY <1>1, <1>5, BoundsAssumption DEF AcceptConn, ServerTypes, OpenTypes, Conns
  <2>2. ServerTypes'
    BY <1>1, <1>3, <1>5, <2>1 DEF AcceptConn, ServerTypes
  <2>3. ClientTypes' /\ WorkingTypes'
    BY <1>1, <1>3, <1>5 DEF AcceptConn, ClientTypes, PcTypes, WorkingTypes
  <2>4. QED
    BY <1>2, <2>1, <2>2, <2>3, TypeParts, PTL
<1>6. QED
  BY <1>4, <1>5 DEF Listener, Accept, CreateFails

\* The control thread.
LEMMA TypeControl == ASSUME TypeOK, Control PROVE TypeOK'
<1>1. ServerTypes /\ ClientTypes /\ SlipTypes /\ OpenTypes /\ WorkingTypes
  BY TypeParts
<1>2. ServerTypes'
  BY <1>1 DEF Control, Tick, Age, controlUnchanged, mainVars, listenVars, ServerTypes
<1>3. ClientTypes' /\ OpenTypes'
  BY <1>1 DEF Control, Tick, Age, controlUnchanged, listenVars, clientVars, ClientTypes, OpenTypes
<1>4. SlipTypes'
  BY <1>1 DEF Control, Tick, Age, SlipTypes
<1>5. WorkingTypes'
  BY <1>1 DEF Control, Tick, Age, Aged, WorkingTypes
<1>6. QED
  BY <1>2, <1>3, <1>4, <1>5, TypeParts, PTL

\* A step of a client thread that keeps its connection.
LEMMA TypeGo ==
    ASSUME TypeOK, NEW t \in Conns, NEW from, NEW to \in PcTypes, goClient(t, from, to),
           clientUnchanged, conn' = conn, open' \subseteq open, commands' \in 0 .. MaxCommands,
           ftp_working' \in {ftp_working, 0, 1, 2},
           slips' \in {slips, slips \cup {"nodata"}, slips \cup Clears(t)}
    PROVE  TypeOK'
<1>1. ServerTypes /\ ClientTypes /\ SlipTypes /\ OpenTypes /\ WorkingTypes
  BY TypeParts
<1>2. ServerTypes'
  BY <1>1 DEF ServerTypes, clientUnchanged, mainVars, listenVars
<1>3. ClientTypes'
  BY <1>1 DEF ClientTypes, goClient
<1>4. SlipTypes'
  BY <1>1 DEF SlipTypes, Clears
<1>5. OpenTypes' /\ WorkingTypes'
  BY <1>1 DEF OpenTypes, WorkingTypes, clientUnchanged, listenVars
<1>6. QED
  BY <1>2, <1>3, <1>4, <1>5, TypeParts, PTL

\* A step of a client thread keeps the types.
LEMMA TypeClient ==
    ASSUME TypeOK, NEW t \in Conns,
           Client(t) \/ Receive(t) \/ ReceiveFails(t) \/ ReceiveEnds(t)
    PROVE  TypeOK'
<1> USE DEF runUnchanged, PcTypes
<1>a. commands \in 0 .. MaxCommands
  BY DEF TypeOK
<1>1. CASE CopyConn(t)
  <2>1. ServerTypes /\ ClientTypes /\ SlipTypes /\ OpenTypes /\ WorkingTypes
    BY TypeParts
  <2>2. ServerTypes'
    BY <1>1, <2>1 DEF CopyConn, clientUnchanged, mainVars, listenVars, ServerTypes
  <2>3. ClientTypes'
    BY <1>1, <2>1 DEF CopyConn, goClient, ClientTypes, ServerTypes
  <2>4. SlipTypes' /\ OpenTypes' /\ WorkingTypes'
    BY <1>1, <2>1 DEF CopyConn, clientUnchanged, listenVars, SlipTypes, OpenTypes, WorkingTypes
  <2>5. QED
    BY <2>2, <2>3, <2>4, TypeParts, PTL
<1>2. CASE Test(t)
  BY <1>a, <1>2, TypeGo DEF Test
<1>3. CASE Receive(t)
  <2>1. commands' \in 0 .. MaxCommands
    BY <1>a, <1>3, BoundsAssumption DEF Receive
  <2>2. QED
    BY <1>3, <2>1, TypeGo DEF Receive
<1>4. CASE ReceiveFails(t) \/ ReceiveEnds(t)
  BY <1>a, <1>4, TypeGo DEF ReceiveFails, ReceiveEnds
<1>5. CASE Noop(t) \/ Quit(t) \/ Other(t) \/ SetTwo(t)
  BY <1>a, <1>5, TypeGo DEF Noop, Quit, Other, SetTwo
<1>6. CASE Change(t) \/ StartTransfer(t) \/ NoData(t)
  BY <1>a, <1>6, TypeGo DEF Change, StartTransfer, NoData, Begins
<1>7. CASE EndTransfer(t) \/ NoFile(t)
  BY <1>a, <1>7, TypeGo DEF EndTransfer, NoFile, Ends
<1>8. CASE Close(t)
  BY <1>a, <1>8, TypeGo DEF Close, Closes
<1>9. QED
  BY <1>1, <1>2, <1>3, <1>4, <1>5, <1>6, <1>7, <1>8 DEF Client, Run

\* The types of the server's threads, their counters and the activity.
THEOREM TypeCorrect == Spec => []TypeOK
<1>1. Init => TypeOK
  <2> SUFFICES ASSUME Init PROVE TypeOK
    OBVIOUS
  <2>0. starts \in 0 .. MaxStarts /\ conns \in 0 .. MaxConns
    BY BoundsAssumption DEF Init
  <2>1. ServerTypes
    BY <2>0 DEF Init, ServerTypes
  <2>2. ClientTypes
    BY BoundsAssumption DEF Init, ClientTypes, PcTypes
  <2>3. SlipTypes /\ OpenTypes /\ WorkingTypes
    BY DEF Init, SlipTypes, OpenTypes, WorkingTypes
  <2>4. QED
    BY <2>1, <2>2, <2>3, TypeParts
<1>2. TypeOK /\ [Next]_vars => TypeOK'
  <2> SUFFICES ASSUME TypeOK, [Next]_vars PROVE TypeOK'
    OBVIOUS
  <2>1. CASE UNCHANGED vars
    BY <2>1 DEF vars, mainVars, listenVars, clientVars, TypeOK
  <2>2. QED
    BY <2>1, TypeManager, TypeListener, TypeControl, TypeClient DEF Next
<1>3. QED
  BY <1>1, <1>2, PTL DEF Spec

=============================================================================
