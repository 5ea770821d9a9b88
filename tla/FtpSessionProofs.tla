-------------------------- MODULE FtpSessionProofs --------------------------
(***************************************************************************)
(* Three promises of FtpSession, for any number of clients and commands,   *)
(* and files of any length.                                                *)
(*                                                                         *)
(* A rename renames what its client has named: the path waits in tmp_path, *)
(* which many commands write, and what protects it is expectcmd, past      *)
(* which no command but RNTO gets.                                         *)
(*                                                                         *)
(* Every handle is owned: the sockets of a client are the two it knows of, *)
(* and the descriptors that are open are those of the transfers under way, *)
(* each of them its own.  The latter is about all clients at once: that    *)
(* one closes its own file only, it must share its number with no other.   *)
(*                                                                         *)
(* "226 Transfer complete" is the truth.  What a transfer starts from is   *)
(* what the client has asked for, because whatever opens a data socket     *)
(* sets rest back; what it has done and what is left make up the whole,    *)
(* unit by unit; and no other client touches the file in between, because  *)
(* of the second promise.                                                  *)
(***************************************************************************)
EXTENDS FtpSession, TLAPS

\* All that is needed of the types: the fields that an EXCEPT changes or leaves alone are there.
HasFields(x) == /\ "expectcmd" \in DOMAIN x /\ "tmp_path" \in DOMAIN x /\ "fd" \in DOMAIN x
                /\ "data_s" \in DOMAIN x /\ "pasv_s" \in DOMAIN x
Types == /\ DOMAIN pc = Clients /\ DOMAIN named = Clients
         /\ DOMAIN session = Clients /\ \A c \in Clients : HasFields(session[c])
         /\ DOMAIN xfer = Clients /\ \A c \in Clients : "op" \in DOMAIN xfer[c]

\* A path that is named is in tmp_path, and only RNTO is carried out.
Waiting == \A c \in Clients :
    named[c] # "none" => session[c].tmp_path = named[c] /\ session[c].expectcmd = "RNTO"

\* A thread in a transfer has not just renamed.
Transferring == \A c \in Clients : pc[c] \notin {"recv", "done"} => xfer[c].op # "RNTO"

IInv == Types /\ Waiting /\ Transferring /\ RenamesNamed

\* No client has named a path at the start.
LEMMA InitInv == Init => IInv
<1> SUFFICES ASSUME Init PROVE IInv
  OBVIOUS
<1>1. DOMAIN session = Clients /\ \A c \in Clients : HasFields(session[c])
  <2>1. PICK junk \in [Clients -> {"", "junk"}] : session = [c \in Clients |->
            [expectcmd |-> junk[c], authorized |-> FALSE, rest |-> 0, tmp_path |-> "junk",
             data_s |-> FALSE, pasv_s |-> FALSE, fd |-> None]]
    BY DEF Init
  <2>2. \A c \in Clients : DOMAIN session[c] = {"expectcmd", "authorized", "rest", "tmp_path",
                                               "data_s", "pasv_s", "fd"}
    BY <2>1
  <2>3. QED
    BY <2>1, <2>2 DEF HasFields
<1>t. Types
  BY <1>1 DEF Init, Types, NoTransfer
<1>2. Waiting /\ Transferring /\ RenamesNamed
  BY DEF Init, Waiting, Transferring, RenamesNamed, NoTransfer
<1>3. QED
  BY <1>t, <1>2 DEF IInv

\* The name of a rename that waits is that of a client no command of which is carried out.
LEMMA NotNamed ==
    ASSUME IInv, NEW c \in Clients, NEW cmd, Command(c, cmd), cmd # "RNTO"
    PROVE  named[c] = "none"
  BY DEF IInv, Waiting, Command, Expected

\* USER and PASS name no path.
LEMMA LoginInv ==
    ASSUME IInv, NEW c \in Clients, Login(c)
    PROVE  IInv'
<1>1. CASE User(c)
  BY <1>1 DEF IInv, Types, HasFields, Waiting, Transferring, RenamesNamed, Without, User, Set
<1>2. CASE \E right \in BOOLEAN : Pass(c, right)
  BY <1>2 DEF IInv, Types, HasFields, Waiting, Transferring, RenamesNamed, Without, Pass, Set,
              Expected
<1>3. QED
  BY <1>1, <1>2 DEF Login

\* A command that keeps nothing but what it writes to the session.
LEMMA DoneInv ==
    ASSUME IInv, NEW c \in Clients, NEW new, HasFields(new), Done(c, new), named[c] = "none",
           named' = named \/ named' = [named EXCEPT ![c] = "none"],
           slips' = slips
    PROVE  IInv'
<1>1. HasFields([new EXCEPT !.expectcmd = ""])
  BY DEF HasFields
<1>2. Types' /\ Waiting'
  BY <1>1 DEF IInv, Types, Done, Set, Waiting, NoTransfer
<1>3. Transferring' /\ RenamesNamed'
  BY DEF IInv, Types, Done, Transferring, RenamesNamed, Without, NoTransfer
<1>4. QED
  BY <1>2, <1>3 DEF IInv

\* The commands without a transfer: a path that is named is renamed, or forgotten.
LEMMA KeptInv ==
    ASSUME IInv, NEW c \in Clients, Kept(c)
    PROVE  IInv'
<1>s. HasFields(session[c])
  BY DEF IInv, Types
<1>1. CASE Refused(c)
  BY <1>1 DEF IInv, Types, HasFields, Waiting, Transferring, RenamesNamed, Without, Refused, Set
<1>2. CASE Passive(c)
  <2>1. HasFields([session[c] EXCEPT !.data_s = FALSE, !.pasv_s = TRUE, !.rest = Begin(c)])
    BY <1>s DEF HasFields, Begin
  <2>2. QED
    BY <1>2, <2>1, NotNamed, DoneInv DEF Passive
<1>3. CASE Port(c)
  <2>1. HasFields([session[c] EXCEPT !.data_s = TRUE, !.pasv_s = FALSE, !.rest = Begin(c)])
    BY <1>s DEF HasFields, Begin
  <2>2. QED
    BY <1>3, <2>1, NotNamed, DoneInv DEF Port
<1>4. CASE Abort(c)
  <2>1. HasFields([session[c] EXCEPT !.data_s = FALSE, !.pasv_s = FALSE])
    BY <1>s DEF HasFields
  <2>2. QED
    BY <1>4, <2>1, NotNamed, DoneInv DEF Abort
<1>5. CASE Quit(c)
  <2>1. Types' /\ Waiting'
    BY <1>5 DEF IInv, Types, HasFields, Waiting, Quit, Set, NoTransfer
  <2>2. Transferring' /\ RenamesNamed'
    BY <1>5 DEF IInv, Types, Quit, Transferring, RenamesNamed, Without, NoTransfer
  <2>3. QED
    BY <2>1, <2>2 DEF IInv
<1>6. CASE Rest(c)
  <2>1. PICK n \in 0 .. Len(OldData) - 1 : Done(c, [session[c] EXCEPT !.rest = n])
    BY <1>6 DEF Rest
  <2>2. HasFields([session[c] EXCEPT !.rest = n])
    BY <1>s DEF HasFields
  <2>3. QED
    BY <1>6, <2>1, <2>2, NotNamed, DoneInv DEF Rest
<1>7. CASE Rnfr(c)
  <2>1. PICK p \in Paths :
           /\ session' = [session EXCEPT ![c] = [session[c] EXCEPT !.expectcmd = "RNTO",
                                                                   !.tmp_path = p]]
           /\ named' = [named EXCEPT ![c] = p]
    BY <1>7 DEF Rnfr, Set
  <2>2. HasFields([session[c] EXCEPT !.expectcmd = "RNTO", !.tmp_path = p])
    BY <1>s DEF HasFields
  <2>3. Types'
    BY <1>7, <2>1, <2>2 DEF IInv, Types, Rnfr, NoTransfer
  <2>4. Waiting'
    BY <1>s, <2>1 DEF IInv, Types, HasFields, Waiting
  <2>5. Transferring' /\ RenamesNamed'
    BY <1>7 DEF IInv, Types, Rnfr, Transferring, RenamesNamed, Without, NoTransfer
  <2>6. QED
    BY <2>3, <2>4, <2>5 DEF IInv
<1>8. CASE RnfrFails(c)
  <2>1. HasFields([session[c] EXCEPT !.tmp_path = ""])
    BY <1>s DEF HasFields
  <2>2. QED
    BY <1>8, <2>1, NotNamed, DoneInv DEF RnfrFails
<1>9. CASE Rnto(c)
  <2>1. Types'
    BY <1>9 DEF IInv, Types, HasFields, Rnto, Set
  <2>2. Waiting'
    BY <1>9 DEF IInv, Types, Waiting, Rnto, Set
  <2>3. Transferring'
    BY <1>9 DEF IInv, Types, Transferring, Rnto, Command
  <2>4. RenamesNamed'
    <3>1. CASE named[c] = "none"
      BY <1>9, <3>1 DEF Rnto, RenamesNamed, Without
    <3>2. CASE named[c] # "none"
      <4>1. xfer'[c].source = xfer'[c].named
        BY <1>9, <3>2 DEF IInv, Types, Waiting, Rnto
      <4>2. slips' = slips /\ \A d \in Clients \ {c} : xfer'[d] = xfer[d]
        BY <1>9, <3>2 DEF IInv, Types, Rnto
      <4>3. QED
        BY <4>1, <4>2 DEF IInv, RenamesNamed, Without
    <3>3. QED
      BY <3>1, <3>2
  <2>5. QED
    BY <2>1, <2>2, <2>3, <2>4 DEF IInv
<1>10. CASE MakeDir(c)
  <2>1. HasFields([session[c] EXCEPT !.tmp_path = "dir"])
    BY <1>s DEF HasFields
  <2>2. QED
    BY <1>10, <2>1, NotNamed, DoneInv DEF MakeDir
<1>11. CASE Other(c)
  BY <1>s, <1>11, NotNamed, DoneInv DEF Other
<1>12. QED
  BY <1>1, <1>2, <1>3, <1>4, <1>5, <1>6, <1>7, <1>8, <1>9, <1>10, <1>11 DEF Kept

\* A transfer is refused while a path is named.
LEMMA StartInv ==
    ASSUME IInv, NEW c \in Clients, NEW op \in Transfers, Start(c, op) \/ StartFails(c, op)
    PROVE  IInv'
<1>s. HasFields(session[c])
  BY DEF IInv, Types
<1>n. named[c] = "none" /\ named' = named
  BY NotNamed DEF Transfers, Start, StartFails
<1>1. PICK d : session' = [session EXCEPT ![c] =
         [session[c] EXCEPT !.expectcmd = "", !.fd = d, !.tmp_path = PathAfter(c, op)]]
  BY <1>s DEF Start, StartFails, Set
<1>2. HasFields([session[c] EXCEPT !.expectcmd = "", !.fd = d, !.tmp_path = PathAfter(c, op)])
  BY <1>s DEF HasFields
<1>3. /\ xfer'[c].op # "RNTO" /\ "op" \in DOMAIN xfer'[c]
      /\ DOMAIN xfer' = Clients /\ \A e \in Clients \ {c} : xfer'[e] = xfer[e]
  <2>1. CASE Start(c, op)
    BY <2>1 DEF IInv, Types, Start, Transfer, Transfers
  <2>2. CASE StartFails(c, op)
    BY <2>2 DEF IInv, Types, StartFails, NoTransfer
  <2>3. QED
    BY <2>1, <2>2
<1>4. /\ DOMAIN pc' = Clients /\ \A e \in Clients \ {c} : pc'[e] = pc[e]
      /\ slips \subseteq slips'
  <2>1. CASE Start(c, op)
    BY <2>1 DEF IInv, Types, Start
  <2>2. CASE StartFails(c, op)
    BY <2>2 DEF IInv, Types, StartFails
  <2>3. QED
    BY <2>1, <2>2
<1>5. Types'
  BY <1>n, <1>1, <1>2, <1>3, <1>4 DEF IInv, Types
<1>6. Waiting'
  BY <1>n, <1>1 DEF IInv, Types, Waiting
<1>7. Transferring' /\ RenamesNamed'
  BY <1>3, <1>4 DEF IInv, Transferring, RenamesNamed, Without
<1>8. QED
  BY <1>5, <1>6, <1>7 DEF IInv

\* A step of a transfer changes neither the path nor what is expected, and renames nothing.
SessionKept ==
    /\ DOMAIN session' = Clients
    /\ \A d \in Clients : /\ HasFields(session'[d])
                          /\ session'[d].tmp_path = session[d].tmp_path
                          /\ session'[d].expectcmd = session[d].expectcmd
TransferStep(c) ==
    /\ SessionKept /\ named' = named
    /\ DOMAIN pc' = Clients /\ DOMAIN xfer' = Clients
    /\ \A d \in Clients \ {c} : pc'[d] = pc[d] /\ xfer'[d] = xfer[d]
    /\ xfer'[c].op # "RNTO" /\ "op" \in DOMAIN xfer'[c]
    /\ slips \subseteq slips'

\* A step of a transfer leaves paths and the command expected alone.
LEMMA TransferStepInv ==
    ASSUME IInv, NEW c \in Clients, TransferStep(c)
    PROVE  IInv'
<1>1. Types' /\ Waiting'
  BY DEF IInv, Types, Waiting, TransferStep, SessionKept
<1>2. Transferring' /\ RenamesNamed'
  BY DEF IInv, Types, Transferring, RenamesNamed, Without, TransferStep
<1>3. QED
  BY <1>1, <1>2 DEF IInv

\* The data connection is such a step.
LEMMA ConnectInv ==
    ASSUME IInv, NEW c \in Clients, Connect(c) \/ ConnectFails(c)
    PROVE  IInv'
<1>1. CASE Connect(c)
  <2>1. SessionKept /\ slips \subseteq slips'
    <3>1. CASE session[c].data_s
      BY <1>1, <3>1 DEF IInv, Types, SessionKept, Connect, Connection
    <3>2. CASE ~session[c].data_s
      <4>1. /\ session' = [session EXCEPT ![c] = [session[c] EXCEPT !.data_s = TRUE,
                                                                    !.pasv_s = FALSE]]
            /\ slips' = slips \/ slips' = slips \cup {"kept"}
        BY <1>1, <3>2 DEF Connect, Connection, Set
      <4>2. QED
        BY <4>1 DEF IInv, Types, HasFields, SessionKept
    <3>3. QED
      BY <3>1, <3>2
  <2>2. /\ named' = named /\ DOMAIN pc' = Clients /\ DOMAIN xfer' = Clients
        /\ \A d \in Clients \ {c} : pc'[d] = pc[d] /\ xfer'[d] = xfer[d]
        /\ xfer'[c].op = xfer[c].op /\ "op" \in DOMAIN xfer'[c]
    BY <1>1 DEF IInv, Types, Connect, transferUnchanged
  <2>3. xfer[c].op # "RNTO"
    BY <1>1 DEF IInv, Transferring, Connect
  <2>4. QED
    BY <2>1, <2>2, <2>3, TransferStepInv DEF TransferStep
<1>2. CASE ConnectFails(c)
  <2>1. SessionKept
    BY <1>2 DEF IInv, Types, HasFields, SessionKept, ConnectFails, Set
  <2>2. QED
    BY <1>2, <2>1, TransferStepInv DEF TransferStep, IInv, Types, ConnectFails,
       transferUnchanged, NoTransfer
<1>3. QED
  BY <1>1, <1>2

\* A step of the data phase changes the position, the reply and the disk.
DataFacts(c) ==
    /\ session' = session /\ named' = named /\ sockets' = sockets /\ files' = files
    /\ slips \subseteq slips'
    /\ pc[c] = "data" /\ (pc' = pc \/ pc' = [pc EXCEPT ![c] = "close"])
    /\ DOMAIN xfer' = Clients /\ \A d \in Clients \ {c} : xfer'[d] = xfer[d] /\ pc'[d] = pc[d]
    /\ xfer'[c].op = xfer[c].op /\ "op" \in DOMAIN xfer'[c] /\ pc'[c] \in {"data", "close"}

\* So is a block of data,
LEMMA DataSteps ==
    ASSUME IInv, NEW c \in Clients, Data(c)
    PROVE  DataFacts(c)
<1>1. /\ session' = session /\ named' = named /\ slips \subseteq slips'
      /\ sockets' = sockets /\ files' = files
  BY DEF Data, Breaks, Sends, SendLost, SendsAll, ReadFails, Stores, StoreLost, StoresAll,
         dataUnchanged, transferUnchanged
<1>2. pc[c] = "data" /\ (pc' = pc \/ pc' = [pc EXCEPT ![c] = "close"])
  BY DEF Data, Breaks, Sends, SendLost, SendsAll, ReadFails, Stores, StoreLost, StoresAll,
         InData, Ends
<1>3. /\ DOMAIN xfer' = Clients /\ \A d \in Clients \ {c} : xfer'[d] = xfer[d]
      /\ xfer'[c].op = xfer[c].op /\ "op" \in DOMAIN xfer'[c]
  <2> USE DEF IInv, Types
  <2>1. CASE Breaks(c) \/ SendsAll(c) \/ ReadFails(c) \/ StoresAll(c)
    BY <2>1 DEF Breaks, SendsAll, ReadFails, StoresAll, Ends
  <2>2. CASE Sends(c) \/ SendLost(c)
    BY <2>2 DEF Sends, SendLost
  <2>3. CASE Stores(c) \/ StoreLost(c)
    BY <2>3 DEF Stores, StoreLost
  <2>4. QED
    BY <2>1, <2>2, <2>3 DEF Data
<1>4. QED
  BY <1>1, <1>2, <1>3 DEF DataFacts, IInv, Types

\* and it keeps the invariant.
LEMMA DataInv ==
    ASSUME IInv, NEW c \in Clients, Data(c)
    PROVE  IInv'
<1>1. DataFacts(c)
  BY DataSteps
<1>2. xfer[c].op # "RNTO"
  BY <1>1 DEF DataFacts, IInv, Transferring
<1>3. TransferStep(c)
  BY <1>1, <1>2 DEF DataFacts, IInv, Types, TransferStep, SessionKept
<1>4. QED
  BY <1>3, TransferStepInv

\* So is the end of a transfer.
LEMMA CloseInv ==
    ASSUME IInv, NEW c \in Clients, Close(c) \/ CloseStale(c)
    PROVE  IInv'
<1>1. SessionKept
  BY DEF IInv, Types, HasFields, SessionKept, Close, CloseStale, CloseAll, Set
<1>2. xfer[c].op # "RNTO"
  BY DEF IInv, Transferring, Close, CloseStale, CloseAll
<1>3. TransferStep(c)
  BY <1>1, <1>2 DEF IInv, Types, TransferStep, Close, CloseStale, CloseAll, transferUnchanged
<1>4. QED
  BY <1>3, TransferStepInv

\* Every step keeps the invariant.
LEMMA IInvStep == IInv /\ [Next]_vars => IInv'
<1> SUFFICES ASSUME IInv, [Next]_vars PROVE IInv'
  OBVIOUS
<1>1. CASE Next
  BY <1>1, LoginInv, KeptInv, StartInv, ConnectInv, DataInv, CloseInv DEF Next
<1>2. CASE UNCHANGED vars
  BY <1>2 DEF vars, ownVars, IInv, Types, Waiting, Transferring, RenamesNamed, Without
<1>3. QED
  BY <1>1, <1>2

\* Every reachable state satisfies the invariant.
THEOREM IInvHolds == Spec => []IInv
  BY InitInv, IInvStep, PTL DEF Spec

\* Unless RNTO came without a RNFR, a rename renames what its client has named.
THEOREM RenamesTheNamed == Spec => []RenamesNamed
<1>1. IInv => RenamesNamed
  BY DEF IInv
<1>2. QED
  BY IInvHolds, <1>1, PTL

-----------------------------------------------------------------------------
(* The handles. *)

\* Every data socket that is open is in one of the two variables.
SocketInv ==
    /\ DOMAIN sockets = Clients
    /\ \A c \in Clients :
         /\ session[c].data_s \in BOOLEAN /\ session[c].pasv_s \in BOOLEAN
         /\ sockets[c] = BothOf(c) /\ (pc[c] = "done" => sockets[c] = 0)

\* A transfer under way has a descriptor of its own; and no other is open.
Owner(c) == session[c].fd \in DOMAIN files /\ (xfer[c].op # "LIST" => files[session[c].fd] = c)
OwnInv ==
    Without({"stale"}) =>
        /\ \A c \in Clients : InUse(c) => Owner(c)
        /\ \A c, d \in Clients : InUse(c) /\ InUse(d) /\ session[c].fd = session[d].fd => c = d
FileInv ==
    Without({"nodata", "stale"}) =>
        \A f \in DOMAIN files : \E c \in Clients : InUse(c) /\ session[c].fd = f

HInv == IInv /\ SocketInv /\ OwnInv /\ FileInv

\* A step is of one client, and touches nothing of the others.
Others(c) == \A d \in Clients \ {c} :
    session'[d] = session[d] /\ pc'[d] = pc[d] /\ xfer'[d] = xfer[d] /\ sockets'[d] = sockets[d]
Step(c) == DOMAIN sockets' = Clients /\ Others(c) /\ slips \subseteq slips'

\* The sockets of one client change.
LEMMA SocketStep ==
    ASSUME SocketInv, NEW c \in Clients, Step(c),
           session'[c].data_s \in BOOLEAN, session'[c].pasv_s \in BOOLEAN,
           sockets'[c] = Num(session'[c].data_s) + Num(session'[c].pasv_s),
           pc'[c] = "done" => sockets'[c] = 0
    PROVE  SocketInv'
<1>1. \A d \in Clients \ {c} : sockets'[d] = BothOf(d)'
  BY DEF SocketInv, Step, Others, BothOf
<1>2. QED
  BY <1>1 DEF SocketInv, Step, Others, BothOf

\* No descriptor changes hands, though one client may forget its own.
LEMMA OwnStep ==
    ASSUME OwnInv, NEW c \in Clients, Step(c), files' = files,
           InUse(c)' => InUse(c) /\ session'[c].fd = session[c].fd /\ xfer'[c].op = xfer[c].op
    PROVE  OwnInv'
<1> SUFFICES ASSUME Without({"stale"})'
             PROVE  /\ \A e \in Clients : InUse(e)' => Owner(e)'
                    /\ \A e, d \in Clients :
                         InUse(e)' /\ InUse(d)' /\ session'[e].fd = session'[d].fd => e = d
  BY DEF OwnInv
<1>1. Without({"stale"})
  BY DEF Without, Step
<1>2. \A e \in Clients :
        InUse(e)' => InUse(e) /\ session'[e].fd = session[e].fd /\ xfer'[e].op = xfer[e].op
  BY DEF Step, Others, InUse
<1>3. QED
  BY <1>1, <1>2 DEF OwnInv, Owner

\* No descriptor changes hands, and none is forgotten.
LEMMA FileStep ==
    ASSUME OwnInv, FileInv, NEW c \in Clients, Step(c), files' = files,
           InUse(c)' <=> InUse(c),
           InUse(c) => session'[c].fd = session[c].fd /\ xfer'[c].op = xfer[c].op
    PROVE  OwnInv' /\ FileInv'
<1>1. OwnInv'
  BY OwnStep
<1>2. \A e \in Clients : (InUse(e)' <=> InUse(e)) /\ (InUse(e) => session'[e].fd = session[e].fd)
  BY DEF Step, Others, InUse
<1>3. Without({"nodata", "stale"})' => Without({"nodata", "stale"})
  BY DEF Without, Step
<1>4. FileInv'
  BY <1>2, <1>3 DEF FileInv
<1>5. QED
  BY <1>1, <1>4

\* No socket and no file is open at the start.
LEMMA InitHandles == Init => HInv
<1> SUFFICES ASSUME Init PROVE HInv
  OBVIOUS
<1>1. \A c \in Clients : session[c].data_s = FALSE /\ session[c].pasv_s = FALSE
  <2>1. PICK junk \in [Clients -> {"", "junk"}] : session = [c \in Clients |->
            [expectcmd |-> junk[c], authorized |-> FALSE, rest |-> 0, tmp_path |-> "junk",
             data_s |-> FALSE, pasv_s |-> FALSE, fd |-> None]]
    BY DEF Init
  <2>2. QED
    BY <2>1
<1>2. SocketInv
  <2>1. ASSUME NEW c \in Clients PROVE BothOf(c) = 0
    <3>1. Num(session[c].data_s) = 0 /\ Num(session[c].pasv_s) = 0
      BY <1>1, Zenon DEF Num
    <3>2. QED
      BY <3>1 DEF BothOf
  <2>2. DOMAIN sockets = Clients /\ \A c \in Clients : sockets[c] = 0 /\ pc[c] = "recv"
    BY DEF Init
  <2>3. QED
    BY <1>1, <2>1, <2>2 DEF SocketInv
<1>3. OwnInv /\ FileInv
  <2>1. \A c \in Clients : ~InUse(c)
    BY DEF Init, InUse
  <2>2. DOMAIN files = {}
    <3>1. files = << >>
      BY DEF Init
    <3>2. QED
      BY <3>1
  <2>3. QED
    BY <2>1, <2>2 DEF OwnInv, FileInv
<1>4. QED
  BY <1>2, <1>3, InitInv DEF HInv

\* A command writes the session of its client and closes or opens its data sockets.
LEMMA SetSession ==
    ASSUME IInv, NEW c \in Clients, NEW new, Set(c, new)
    PROVE  session'[c] = new /\ \A d \in Clients \ {c} : session'[d] = session[d]
  BY DEF IInv, Types, Set

\* USER and PASS open and close nothing.
LEMMA LoginHandles ==
    ASSUME HInv, NEW c \in Clients, Login(c)
    PROVE  Step(c) /\ SocketInv' /\ OwnInv' /\ FileInv'
<1>1. /\ pc' = pc /\ xfer' = xfer /\ sockets' = sockets /\ files' = files /\ slips' = slips
      /\ \A d \in Clients \ {c} : session'[d] = session[d]
      /\ session'[c].data_s = session[c].data_s /\ session'[c].pasv_s = session[c].pasv_s
      /\ session'[c].fd = session[c].fd
  <2>1. CASE User(c)
    BY <2>1 DEF HInv, IInv, Types, HasFields, User, Set
  <2>2. CASE \E right \in BOOLEAN : Pass(c, right)
    BY <2>2 DEF HInv, IInv, Types, HasFields, Pass, Set
  <2>3. QED
    BY <2>1, <2>2 DEF Login
<1>2. Step(c)
  BY <1>1 DEF Step, Others, HInv, SocketInv
<1>3. SocketInv'
  BY <1>1, <1>2, SocketStep DEF HInv, SocketInv, BothOf
<1>4. OwnInv' /\ FileInv'
  BY <1>1, <1>2, FileStep DEF HInv, InUse
<1>5. QED
  BY <1>2, <1>3, <1>4

\* A command that is done leaves the thread where it was, and the files as they were.
LEMMA DoneFiles ==
    ASSUME HInv, NEW c \in Clients, NEW new, HasFields(new), Done(c, new), pc[c] = "recv",
           DOMAIN sockets' = Clients, \A d \in Clients \ {c} : sockets'[d] = sockets[d],
           slips' = slips
    PROVE  /\ Step(c) /\ OwnInv' /\ FileInv' /\ pc'[c] = "recv"
           /\ session'[c].data_s = new.data_s /\ session'[c].pasv_s = new.pasv_s
<1>1. /\ session'[c].data_s = new.data_s /\ session'[c].pasv_s = new.pasv_s
      /\ \A d \in Clients \ {c} : session'[d] = session[d]
  <2>1. Set(c, [new EXCEPT !.expectcmd = ""])
    BY DEF Done
  <2>2. session'[c] = [new EXCEPT !.expectcmd = ""]
        /\ \A d \in Clients \ {c} : session'[d] = session[d]
    BY <2>1, SetSession DEF HInv
  <2>3. QED
    BY <2>2 DEF HasFields
<1>2. Step(c)
  BY <1>1 DEF Step, Others, HInv, IInv, Types, Done
<1>3. OwnInv' /\ FileInv'
  BY <1>2, FileStep DEF HInv, Done, InUse
<1>4. QED
  BY <1>1, <1>2, <1>3 DEF Done

\* A command without a transfer that counts its sockets keeps every handle owned.
LEMMA CommandHandles ==
    ASSUME HInv, NEW c \in Clients, NEW new, HasFields(new), Done(c, new), pc[c] = "recv",
           DOMAIN sockets' = Clients, \A d \in Clients \ {c} : sockets'[d] = sockets[d],
           slips' = slips, new.data_s \in BOOLEAN, new.pasv_s \in BOOLEAN,
           sockets'[c] = Num(new.data_s) + Num(new.pasv_s)
    PROVE  Step(c) /\ SocketInv' /\ OwnInv' /\ FileInv'
<1>1. /\ Step(c) /\ OwnInv' /\ FileInv' /\ pc'[c] = "recv"
      /\ session'[c].data_s = new.data_s /\ session'[c].pasv_s = new.pasv_s
  BY DoneFiles
<1>2. SocketInv'
  BY <1>1, SocketStep DEF HInv
<1>3. QED
  BY <1>1, <1>2

\* Each of the commands without a transfer counts its sockets.
LEMMA KeptHandles ==
    ASSUME HInv, NEW c \in Clients, Kept(c)
    PROVE  Step(c) /\ SocketInv' /\ OwnInv' /\ FileInv'
<1>s. HasFields(session[c]) /\ session[c].data_s \in BOOLEAN /\ session[c].pasv_s \in BOOLEAN
  BY DEF HInv, IInv, Types, SocketInv
<1>b. sockets[c] = BothOf(c) /\ BothOf(c) \in Int /\ DOMAIN sockets = Clients
  BY <1>s DEF HInv, SocketInv, BothOf, Num
<1>1. CASE Refused(c) \/ Rnfr(c) \/ Rnto(c)
  <2>1. /\ pc' = pc /\ sockets' = sockets /\ files' = files /\ slips \subseteq slips'
        /\ \A d \in Clients \ {c} : session'[d] = session[d] /\ xfer'[d] = xfer[d]
        /\ session'[c].data_s = session[c].data_s /\ session'[c].pasv_s = session[c].pasv_s
        /\ pc[c] = "recv"
    <3>1. CASE Refused(c)
      BY <1>s, <3>1 DEF HInv, IInv, Types, HasFields, Refused, Set
    <3>2. CASE Rnfr(c)
      BY <1>s, <3>2 DEF HInv, IInv, Types, HasFields, Rnfr, Set, Command
    <3>3. CASE Rnto(c)
      BY <1>s, <3>3 DEF HInv, IInv, Types, HasFields, Rnto, Set, Command
    <3>4. QED
      BY <1>1, <3>1, <3>2, <3>3
  <2>2. Step(c)
    BY <1>b, <2>1 DEF Step, Others
  <2>3. SocketInv'
    BY <1>s, <1>b, <2>1, <2>2, SocketStep DEF HInv, BothOf
  <2>4. OwnInv' /\ FileInv'
    BY <2>1, <2>2, FileStep DEF HInv, InUse
  <2>5. QED
    BY <2>2, <2>3, <2>4
<1>2. CASE Passive(c)
  <2>1. PICK new : /\ new = [session[c] EXCEPT !.data_s = FALSE, !.pasv_s = TRUE, !.rest = Begin(c)]
                   /\ Done(c, new)
    BY <1>2 DEF Passive
  <2>2. HasFields(new) /\ new.data_s = FALSE /\ new.pasv_s = TRUE
    BY <1>s, <2>1 DEF HasFields
  <2>3. /\ sockets' = [sockets EXCEPT ![c] = sockets[c] - BothOf(c) + 1]
        /\ slips' = slips /\ pc[c] = "recv"
    BY <1>2 DEF Passive, Sockets, Command
  <2>4. sockets'[c] = Num(new.data_s) + Num(new.pasv_s)
    BY <1>b, <2>2, <2>3 DEF Num
  <2>5. QED
    BY <1>b, <2>1, <2>2, <2>3, <2>4, CommandHandles
<1>3. CASE Port(c)
  <2>1. PICK new : /\ new = [session[c] EXCEPT !.data_s = TRUE, !.pasv_s = FALSE, !.rest = Begin(c)]
                   /\ Done(c, new)
    BY <1>3 DEF Port
  <2>2. HasFields(new) /\ new.data_s = TRUE /\ new.pasv_s = FALSE
    BY <1>s, <2>1 DEF HasFields
  <2>3. /\ sockets' = [sockets EXCEPT ![c] = sockets[c] - BothOf(c) + 1]
        /\ slips' = slips /\ pc[c] = "recv"
    BY <1>3 DEF Port, Sockets, Command
  <2>4. sockets'[c] = Num(new.data_s) + Num(new.pasv_s)
    BY <1>b, <2>2, <2>3 DEF Num
  <2>5. QED
    BY <1>b, <2>1, <2>2, <2>3, <2>4, CommandHandles
<1>4. CASE Abort(c)
  <2>1. PICK new : new = [session[c] EXCEPT !.data_s = FALSE, !.pasv_s = FALSE] /\ Done(c, new)
    BY <1>4 DEF Abort
  <2>2. HasFields(new) /\ new.data_s = FALSE /\ new.pasv_s = FALSE
    BY <1>s, <2>1 DEF HasFields
  <2>3. /\ sockets' = [sockets EXCEPT ![c] = sockets[c] - BothOf(c) + 0]
        /\ slips' = slips /\ pc[c] = "recv"
    BY <1>4 DEF Abort, Sockets, Command
  <2>4. sockets'[c] = Num(new.data_s) + Num(new.pasv_s)
    BY <1>b, <2>2, <2>3 DEF Num
  <2>5. QED
    BY <1>b, <2>1, <2>2, <2>3, <2>4, CommandHandles
<1>5. CASE Quit(c)
  <2>1. /\ session'[c] = [session[c] EXCEPT !.data_s = FALSE, !.pasv_s = FALSE]
        /\ \A d \in Clients \ {c} : session'[d] = session[d]
    BY <1>5, SetSession DEF HInv, Quit
  <2>2. session'[c].data_s = FALSE /\ session'[c].pasv_s = FALSE
    BY <1>s, <2>1 DEF HasFields
  <2>3. Step(c)
    BY <1>b, <1>5, <2>1 DEF HInv, IInv, Types, Step, Others, Quit, Sockets
  <2>4. sockets'[c] = 0
    BY <1>b, <1>5 DEF Quit, Sockets
  <2>5. SocketInv'
    <3>1. Num(session'[c].data_s) = 0 /\ Num(session'[c].pasv_s) = 0
      BY <2>2, Zenon DEF Num
    <3>2. session'[c].data_s \in BOOLEAN /\ session'[c].pasv_s \in BOOLEAN
      BY <2>2, Zenon
    <3>3. sockets'[c] = Num(session'[c].data_s) + Num(session'[c].pasv_s)
      BY <2>4, <3>1
    <3>4. QED
      BY <2>3, <2>4, <3>2, <3>3, SocketStep DEF HInv
  <2>6. ~InUse(c) /\ ~InUse(c)' /\ files' = files
    BY <1>5 DEF HInv, IInv, Types, Quit, InUse
  <2>7. QED
    BY <2>3, <2>5, <2>6, FileStep DEF HInv
<1>6. CASE Rest(c) \/ RnfrFails(c) \/ MakeDir(c) \/ Other(c)
  <2>1. PICK new : /\ new.data_s = session[c].data_s /\ new.pasv_s = session[c].pasv_s
                   /\ HasFields(new) /\ Done(c, new)
    <3>1. CASE Rest(c)
      <4>1. PICK n \in 0 .. Len(OldData) - 1 : Done(c, [session[c] EXCEPT !.rest = n])
        BY <3>1 DEF Rest
      <4>2. QED
        BY <1>s, <4>1 DEF HasFields
    <3>2. CASE RnfrFails(c)
      BY <1>s, <3>2 DEF HasFields, RnfrFails
    <3>3. CASE MakeDir(c)
      BY <1>s, <3>3 DEF HasFields, MakeDir
    <3>4. CASE Other(c)
      BY <1>s, <3>4 DEF Other
    <3>5. QED
      BY <1>6, <3>1, <3>2, <3>3, <3>4
  <2>2. sockets' = sockets /\ slips' = slips /\ pc[c] = "recv"
    BY <1>6 DEF Rest, RnfrFails, MakeDir, Other, Command
  <2>3. QED
    BY <1>s, <1>b, <2>1, <2>2, CommandHandles DEF BothOf
<1>7. QED
  BY <1>1, <1>2, <1>3, <1>4, <1>5, <1>6 DEF Kept

\* A file that is opened has a number that no other transfer holds.
LEMMA StartHandles ==
    ASSUME HInv, NEW c \in Clients, NEW op \in Transfers, Start(c, op) \/ StartFails(c, op)
    PROVE  Step(c) /\ SocketInv' /\ OwnInv' /\ FileInv'
<1>s. HasFields(session[c]) /\ DOMAIN sockets = Clients
  BY DEF HInv, IInv, Types, SocketInv
<1>1. /\ session'[c].data_s = session[c].data_s /\ session'[c].pasv_s = session[c].pasv_s
      /\ \A d \in Clients \ {c} : session'[d] = session[d]
  <2>1. PICK d : Set(c, [session[c] EXCEPT !.expectcmd = "", !.fd = d,
                                           !.tmp_path = PathAfter(c, op)])
    BY DEF Start, StartFails
  <2>2. session'[c] = [session[c] EXCEPT !.expectcmd = "", !.fd = d,
                                          !.tmp_path = PathAfter(c, op)]
        /\ \A e \in Clients \ {c} : session'[e] = session[e]
    BY <2>1, SetSession DEF HInv
  <2>3. QED
    BY <1>s, <2>2 DEF HasFields
<1>2. /\ pc[c] = "recv" /\ pc'[c] \in {"conn", "failed"} /\ sockets' = sockets
      /\ \A d \in Clients \ {c} : pc'[d] = pc[d] /\ xfer'[d] = xfer[d]
  <2>1. CASE Start(c, op)
    BY <2>1 DEF HInv, IInv, Types, Start, Command
  <2>2. CASE StartFails(c, op)
    BY <2>2 DEF HInv, IInv, Types, StartFails, Command
  <2>3. QED
    BY <2>1, <2>2
<1>3. slips \subseteq slips'
  <2>1. CASE Start(c, op)
    BY <2>1 DEF Start
  <2>2. CASE StartFails(c, op)
    BY <2>2 DEF StartFails
  <2>3. QED
    BY <2>1, <2>2
<1>4. Step(c)
  BY <1>s, <1>1, <1>2, <1>3 DEF Step, Others
<1>5. SocketInv'
  BY <1>1, <1>2, <1>4, SocketStep DEF HInv, SocketInv, BothOf
<1>6. OwnInv' /\ FileInv'
  <2>1. CASE StartFails(c, op)
    <3>1. ~InUse(c) /\ ~InUse(c)' /\ files' = files
      BY <1>2, <2>1 DEF HInv, IInv, Types, StartFails, InUse
    <3>2. QED
      BY <1>4, <3>1, FileStep DEF HInv
  <2>2. CASE Start(c, op)
    <3>1. PICK d : /\ d \notin DOMAIN files
                   /\ files' = [e \in DOMAIN files \cup {d} |->
                         IF e # d THEN files[e] ELSE IF op = "LIST" THEN "dir" ELSE c]
                   /\ Set(c, [session[c] EXCEPT !.expectcmd = "", !.fd = d,
                                                !.tmp_path = PathAfter(c, op)])
      BY <2>2 DEF Start
    <3>2. session'[c].fd = d
      <4>1. session'[c] = [session[c] EXCEPT !.expectcmd = "", !.fd = d,
                                              !.tmp_path = PathAfter(c, op)]
        BY <3>1, SetSession DEF HInv
      <4>2. QED
        BY <1>s, <4>1 DEF HasFields
    <3>3. xfer'[c].op = op
      BY <2>2 DEF HInv, IInv, Types, Start, Transfer
    <3>4. ~InUse(c) /\ InUse(c)'
      BY <1>2, <2>2 DEF HInv, IInv, Types, Start, InUse
    <3>5. \A e \in Clients \ {c} : (InUse(e)' <=> InUse(e)) /\ session'[e] = session[e]
                                   /\ xfer'[e] = xfer[e]
      BY <1>4 DEF Step, Others, InUse
    <3>6. ASSUME Without({"stale"})'
          PROVE  /\ \A e \in Clients : InUse(e)' => Owner(e)'
                 /\ \A e, f \in Clients :
                      InUse(e)' /\ InUse(f)' /\ session'[e].fd = session'[f].fd => e = f
      <4>1. Without({"stale"})
        BY <1>3, <3>6 DEF Without
      <4>2. \A e \in Clients \ {c} : InUse(e) => Owner(e)' /\ session[e].fd # d
        BY <3>1, <3>5, <4>1 DEF HInv, OwnInv, Owner
      <4>3. Owner(c)'
        BY <3>1, <3>2, <3>3 DEF Owner
      <4>4. QED
        BY <3>2, <3>4, <3>5, <4>1, <4>2, <4>3 DEF HInv, OwnInv
    <3>7. ASSUME Without({"nodata", "stale"})'
          PROVE  \A f \in DOMAIN files' : \E e \in Clients : InUse(e)' /\ session'[e].fd = f
      <4>1. Without({"nodata", "stale"})
        BY <1>3, <3>7 DEF Without
      <4>2. QED
        BY <3>1, <3>2, <3>4, <3>5, <4>1 DEF HInv, FileInv
    <3>8. QED
      BY <3>6, <3>7 DEF OwnInv, FileInv
  <2>3. QED
    BY <2>1, <2>2
<1>7. QED
  BY <1>4, <1>5, <1>6

\* The data connection takes the place of the passive socket.
LEMMA ConnectHandles ==
    ASSUME HInv, NEW c \in Clients, Connect(c)
    PROVE  Step(c) /\ SocketInv' /\ OwnInv' /\ FileInv'
<1>s. HasFields(session[c]) /\ DOMAIN sockets = Clients
  BY DEF HInv, IInv, Types, SocketInv
<1>1. /\ pc[c] = "conn" /\ pc'[c] \in {"data", "close"} /\ files' = files
      /\ xfer'[c].op = xfer[c].op
      /\ \A d \in Clients \ {c} : pc'[d] = pc[d] /\ xfer'[d] = xfer[d]
  BY DEF HInv, IInv, Types, Connect
<1>2. /\ \A d \in Clients \ {c} : session'[d] = session[d] /\ sockets'[d] = sockets[d]
      /\ DOMAIN sockets' = Clients /\ session'[c].fd = session[c].fd
      /\ session'[c].data_s \in BOOLEAN /\ session'[c].pasv_s \in BOOLEAN
      /\ sockets'[c] = Num(session'[c].data_s) + Num(session'[c].pasv_s)
  <2>1. CASE session[c].data_s
    BY <1>s, <2>1 DEF HInv, SocketInv, BothOf, Connect, Connection
  <2>2. CASE ~session[c].data_s
    <3>1. /\ Set(c, [session[c] EXCEPT !.data_s = TRUE, !.pasv_s = FALSE])
          /\ sockets' = [sockets EXCEPT ![c] = sockets[c] - Num(session[c].pasv_s) + 1]
      BY <2>2 DEF Connect, Connection, Sockets
    <3>2. /\ session'[c] = [session[c] EXCEPT !.data_s = TRUE, !.pasv_s = FALSE]
          /\ \A d \in Clients \ {c} : session'[d] = session[d]
      BY <3>1, SetSession DEF HInv
    <3>3. /\ session'[c].data_s = TRUE /\ session'[c].pasv_s = FALSE
          /\ session'[c].fd = session[c].fd
      BY <1>s, <3>2 DEF HasFields
    <3>4. Num(session[c].data_s) = 0 /\ Num(session[c].pasv_s) \in Int
      BY <2>2 DEF Num
    <3>5. Num(session'[c].data_s) = 1 /\ Num(session'[c].pasv_s) = 0
      BY <3>3, Zenon DEF Num
    <3>6. sockets'[c] = 1
      BY <1>s, <3>1, <3>4 DEF HInv, SocketInv, BothOf
    <3>7. sockets'[c] = Num(session'[c].data_s) + Num(session'[c].pasv_s)
      BY <3>5, <3>6
    <3>8. session'[c].data_s \in BOOLEAN /\ session'[c].pasv_s \in BOOLEAN
      BY <3>3, Zenon
    <3>9. DOMAIN sockets' = Clients /\ \A d \in Clients \ {c} : sockets'[d] = sockets[d]
      BY <1>s, <3>1
    <3>10. QED
      BY <3>2, <3>3, <3>7, <3>8, <3>9
  <2>3. QED
    BY <2>1, <2>2
<1>3. slips \subseteq slips'
  BY DEF Connect, Connection
<1>4. Step(c)
  BY <1>1, <1>2, <1>3 DEF Step, Others
<1>5. SocketInv'
  BY <1>1, <1>2, <1>4, SocketStep DEF HInv
<1>6. OwnInv' /\ FileInv'
  BY <1>1, <1>2, <1>4, FileStep DEF HInv, InUse
<1>7. QED
  BY <1>4, <1>5, <1>6

\* A connection that fails leaves the file open, which slips then says.
LEMMA ConnectFailsHandles ==
    ASSUME HInv, NEW c \in Clients, ConnectFails(c)
    PROVE  Step(c) /\ SocketInv' /\ OwnInv' /\ FileInv'
<1>s. HasFields(session[c]) /\ DOMAIN sockets = Clients
  BY DEF HInv, IInv, Types, SocketInv
<1>1. /\ Set(c, [session[c] EXCEPT !.pasv_s = FALSE]) /\ ~session[c].data_s
      /\ sockets' = [sockets EXCEPT ![c] = sockets[c] - Num(session[c].pasv_s) + 0]
      /\ slips' = slips \cup {"nodata"}
  BY DEF ConnectFails, Sockets
<1>2. /\ session'[c] = [session[c] EXCEPT !.pasv_s = FALSE]
      /\ \A d \in Clients \ {c} : session'[d] = session[d]
  BY <1>1, SetSession DEF HInv
<1>3. session'[c].data_s = session[c].data_s /\ session'[c].pasv_s = FALSE
  BY <1>s, <1>2 DEF HasFields
<1>4. Num(session[c].data_s) = 0 /\ Num(session[c].pasv_s) \in Int
  BY <1>1 DEF Num
<1>5. Num(session'[c].data_s) = 0
  BY <1>3, <1>4
<1>6. Num(session'[c].pasv_s) = 0
  BY <1>3, Zenon DEF Num
<1>7. sockets'[c] = 0
  BY <1>s, <1>1, <1>4 DEF HInv, SocketInv, BothOf
<1>8. Step(c)
  BY <1>s, <1>1, <1>2 DEF HInv, IInv, Types, Step, Others, ConnectFails
<1>9. SocketInv'
  <2>1. session[c].data_s \in BOOLEAN
    BY DEF HInv, SocketInv
  <2>2. session'[c].data_s \in BOOLEAN /\ session'[c].pasv_s \in BOOLEAN
    BY <1>3, <2>1, Zenon
  <2>3. sockets'[c] = Num(session'[c].data_s) + Num(session'[c].pasv_s)
    BY <1>5, <1>6, <1>7
  <2>4. QED
    BY <1>7, <1>8, <2>2, <2>3, SocketStep DEF HInv
<1>10. OwnInv' /\ FileInv'
  <2>1. ~InUse(c)' /\ files' = files
    BY DEF HInv, IInv, Types, ConnectFails, InUse
  <2>2. OwnInv'
    BY <1>8, <2>1, OwnStep DEF HInv
  <2>3. FileInv'
    BY <1>1 DEF FileInv, Without
  <2>4. QED
    BY <2>2, <2>3
<1>11. QED
  BY <1>8, <1>9, <1>10

\* A block of data opens and closes nothing.
LEMMA DataHandles ==
    ASSUME HInv, NEW c \in Clients, Data(c)
    PROVE  Step(c) /\ SocketInv' /\ OwnInv' /\ FileInv'
<1>1. DataFacts(c)
  BY DataSteps DEF HInv
<1>2. Step(c)
  BY <1>1 DEF DataFacts, HInv, SocketInv, Step, Others
<1>3. SocketInv'
  BY <1>1, <1>2, SocketStep DEF DataFacts, HInv, SocketInv, BothOf
<1>4. OwnInv' /\ FileInv'
  BY <1>1, <1>2, FileStep DEF DataFacts, HInv, InUse
<1>5. QED
  BY <1>2, <1>3, <1>4

\* The end of a transfer closes its own file, unless it is stale, and its socket.
LEMMA CloseHandles ==
    ASSUME HInv, NEW c \in Clients, Close(c) \/ CloseStale(c)
    PROVE  Step(c) /\ SocketInv' /\ OwnInv' /\ FileInv'
<1>s. HasFields(session[c]) /\ DOMAIN sockets = Clients
  BY DEF HInv, IInv, Types, SocketInv
<1>1. /\ Set(c, [session[c] EXCEPT !.data_s = FALSE])
      /\ sockets' = [sockets EXCEPT ![c] = sockets[c] - Num(session[c].data_s) + 0]
      /\ files' = Closed(c) /\ xfer' = xfer /\ pc' = [pc EXCEPT ![c] = "recv"]
      /\ slips \subseteq slips'
  BY DEF Close, CloseStale, CloseAll, Sockets
<1>2. /\ session'[c] = [session[c] EXCEPT !.data_s = FALSE]
      /\ \A d \in Clients \ {c} : session'[d] = session[d]
  BY <1>1, SetSession DEF HInv
<1>3. session'[c].data_s = FALSE /\ session'[c].pasv_s = session[c].pasv_s
  BY <1>s, <1>2 DEF HasFields
<1>4. Num(session[c].data_s) \in Int /\ Num(session[c].pasv_s) \in Int
  BY DEF Num
<1>5. Num(session'[c].data_s) = 0
  BY <1>3, Zenon DEF Num
<1>6. sockets'[c] = Num(session[c].pasv_s)
  BY <1>s, <1>1, <1>4 DEF HInv, SocketInv, BothOf
<1>7. pc'[c] = "recv"
  BY <1>1 DEF HInv, IInv, Types
<1>8. Step(c)
  BY <1>s, <1>1, <1>2 DEF HInv, IInv, Types, Step, Others
<1>9. SocketInv'
  <2>1. session[c].pasv_s \in BOOLEAN
    BY DEF HInv, SocketInv
  <2>2. session'[c].data_s \in BOOLEAN /\ session'[c].pasv_s \in BOOLEAN
    BY <1>3, <2>1, Zenon
  <2>3. sockets'[c] = Num(session'[c].data_s) + Num(session'[c].pasv_s)
    <3>1. Num(session'[c].pasv_s) = Num(session[c].pasv_s)
      BY <1>3, Zenon
    <3>2. QED
      BY <1>4, <1>5, <1>6, <3>1
  <2>4. QED
    BY <1>7, <1>8, <2>2, <2>3, SocketStep DEF HInv
<1>10. ~InUse(c)' /\ \A e \in Clients \ {c} : /\ InUse(e)' <=> InUse(e)
                                           /\ session'[e] = session[e] /\ xfer'[e] = xfer[e]
  BY <1>7, <1>8 DEF Step, Others, InUse
<1>11. OwnInv'
  <2> SUFFICES ASSUME Without({"stale"})'
               PROVE  /\ \A e \in Clients : InUse(e)' => Owner(e)'
                      /\ \A e, f \in Clients :
                           InUse(e)' /\ InUse(f)' /\ session'[e].fd = session'[f].fd => e = f
    BY DEF OwnInv
  <2>1. Without({"stale"})
    BY <1>1 DEF Without
  <2>2. \A e \in Clients \ {c} : InUse(e) => session[e].fd # session[c].fd
    <3>1. CASE Close(c)
      BY <2>1, <3>1 DEF HInv, OwnInv, Close, CloseAll, InUse
    <3>2. CASE CloseStale(c)
      <4>1. session[c].fd \notin DOMAIN files
        BY <3>2 DEF CloseStale, Without
      <4>2. QED
        BY <2>1, <4>1 DEF HInv, OwnInv, Owner
    <3>3. QED
      BY <3>1, <3>2
  <2>3. \A e \in Clients : InUse(e)' => Owner(e)'
    BY <1>1, <1>10, <2>1, <2>2 DEF HInv, OwnInv, Owner, Closed
  <2>4. QED
    BY <1>10, <2>1, <2>3 DEF HInv, OwnInv
<1>12. FileInv'
  <2> SUFFICES ASSUME Without({"nodata", "stale"})'
               PROVE  \A f \in DOMAIN files' : \E e \in Clients : InUse(e)' /\ session'[e].fd = f
    BY DEF FileInv
  <2>1. Without({"nodata", "stale"})
    BY <1>1 DEF Without
  <2>2. QED
    BY <1>1, <1>10, <2>1 DEF HInv, FileInv, Closed
<1>13. QED
  BY <1>8, <1>9, <1>11, <1>12

\* Every step keeps the handles owned.
LEMMA HInvStep == HInv /\ [Next]_vars => HInv'
<1> SUFFICES ASSUME HInv, [Next]_vars PROVE HInv'
  OBVIOUS
<1>1. IInv'
  BY IInvStep DEF HInv
<1>2. CASE Next
  <2>1. SocketInv' /\ OwnInv' /\ FileInv'
    BY <1>2, LoginHandles, KeptHandles, StartHandles, ConnectHandles, ConnectFailsHandles,
       DataHandles, CloseHandles DEF Next
  <2>2. QED
    BY <1>1, <2>1 DEF HInv
<1>3. CASE UNCHANGED vars
  BY <1>1, <1>3 DEF vars, ownVars, HInv, SocketInv, OwnInv, FileInv, BothOf, Owner, InUse,
                         Without
<1>4. QED
  BY <1>2, <1>3

\* Every reachable state satisfies the invariant.
THEOREM HInvHolds == Spec => []HInv
  BY InitHandles, HInvStep, PTL DEF Spec

\* No data socket is lost; but for the known hazards no descriptor is, nor closed or used by
\* another client than its own.
THEOREM HandlesAreOwned == Spec => []HandlesOwned
<1>1. HInv => HandlesOwned
  <2> SUFFICES ASSUME HInv PROVE HandlesOwned
    OBVIOUS
  <2>1. \A c \in Clients : sockets[c] = BothOf(c) /\ (pc[c] = "done" => sockets[c] = 0)
    BY DEF HInv, SocketInv
  <2>2. ASSUME Without({"nodata", "stale"})
        PROVE  /\ DOMAIN files = {session[c].fd : c \in {c \in Clients : InUse(c)}}
               /\ \A c \in Clients : InUse(c) /\ xfer[c].op # "LIST" => files[session[c].fd] = c
    <3>1. \A f : f \in DOMAIN files <=> \E c \in Clients : InUse(c) /\ session[c].fd = f
      <4>1. Without({"stale"})
        BY <2>2 DEF Without
      <4>2. QED
        BY <2>2, <4>1 DEF HInv, OwnInv, FileInv, Owner
    <3>2. DOMAIN files = {session[c].fd : c \in {c \in Clients : InUse(c)}}
      BY <3>1
    <3>3. \A c \in Clients : InUse(c) /\ xfer[c].op # "LIST" => files[session[c].fd] = c
      BY <2>2 DEF HInv, OwnInv, Owner, Without
    <3>4. QED
      BY <3>2, <3>3
  <2>3. QED
    BY <2>1, <2>2 DEF HandlesOwned
<1>2. QED
  BY HInvHolds, <1>1, PTL

-----------------------------------------------------------------------------
(* The replies. *)

\* What a file can hold.
Contents == Seq(Units \cup {"hole"})

\* A file is cut or filled up to a size.
LEMMA ResizedIs ==
    ASSUME NEW data \in Contents, NEW n \in Nat
    PROVE  Resized(data, n) \in Contents /\ Len(Resized(data, n)) = n
<1> DEFINE r == Resized(data, n)
<1>1. r = [i \in 1 .. n |-> IF i <= Len(data) THEN data[i] ELSE "hole"]
  BY DEF Resized
<1>2. \A i \in 1 .. n : (IF i <= Len(data) THEN data[i] ELSE "hole") \in Units \cup {"hole"}
  BY DEF Contents
<1>3. r \in [1 .. n -> Units \cup {"hole"}]
  BY <1>1, <1>2
<1> HIDE DEF r
<1>4. r \in Seq(Units \cup {"hole"}) /\ Len(r) = n
  BY <1>3
<1> QED
  BY <1>4 DEF r, Contents

\* Nothing is left of a file that is cut to no size.
LEMMA ResizedNone ==
    ASSUME NEW data \in Contents
    PROVE  Resized(data, 0) = << >>
<1>1. Resized(data, 0) \in Seq(Units \cup {"hole"}) /\ Len(Resized(data, 0)) = 0
  BY ResizedIs DEF Contents
<1> QED
  BY <1>1

\* A unit put behind the end is appended.
LEMMA PutAtEnd ==
    ASSUME NEW data \in Contents, NEW u \in Units
    PROVE  Put(data, Len(data) + 1, u) = Append(data, u)
<1> DEFINE k == Len(data) + 1
           r == Resized(data, k)
           p == [r EXCEPT ![k] = u]
           a == Append(data, u)
           U == Units \cup {"hole"}
<1>1. Len(data) \in Nat /\ k \in Nat /\ k > Len(data) /\ data \in Seq(U) /\ u \in U
  BY DEF Contents
<1>2. Put(data, k, u) = p
  BY <1>1 DEF Put
<1>3. r \in Seq(U) /\ Len(r) = k /\ \A i \in 1 .. Len(data) : r[i] = data[i]
  BY <1>1, ResizedIs DEF Contents, Resized
<1> HIDE DEF r, U
<1>4. p \in Seq(U) /\ Len(p) = k /\ p[k] = u /\ \A i \in 1 .. Len(data) : p[i] = data[i]
  BY <1>1, <1>3
<1>5. a \in Seq(U) /\ Len(a) = k /\ a[k] = u /\ \A i \in 1 .. Len(data) : a[i] = data[i]
  BY <1>1
<1>6. \A i \in 1 .. k : p[i] = a[i]
  BY <1>1, <1>4, <1>5
<1> HIDE DEF p, a
<1>7. p = a
  BY <1>1, <1>4, <1>5, <1>6
<1> QED
  BY <1>2, <1>7 DEF a

\* What is done and what is left make up the whole, before a step and after it.
LEMMA MoveHead ==
    ASSUME NEW S, NEW d \in Seq(S), NEW t \in Seq(S), t # << >>
    PROVE  /\ Append(d, Head(t)) \o Tail(t) = d \o t
           /\ Head(t) \in S /\ Tail(t) \in Seq(S) /\ Append(d, Head(t)) \in Seq(S)
<1> DEFINE a == Append(d, Head(t)) \o Tail(t)
           b == d \o t
<1>1. Head(t) \in S /\ Tail(t) \in Seq(S) /\ Append(d, Head(t)) \in Seq(S)
  OBVIOUS
<1>2. a \in Seq(S) /\ Len(a) = Len(d) + Len(t) /\ b \in Seq(S) /\ Len(b) = Len(d) + Len(t)
  BY <1>1
<1>3. ASSUME NEW i \in 1 .. Len(d) + Len(t) PROVE a[i] = b[i]
  <2>1. CASE i <= Len(d)
    BY <1>1, <1>3, <2>1
  <2>2. CASE i = Len(d) + 1
    BY <1>1, <1>3, <2>2
  <2>3. CASE i > Len(d) + 1
    <3>1. a[i] = Tail(t)[i - (Len(d) + 1)]
      BY <1>1, <1>3, <2>3
    <3>2. b[i] = t[i - Len(d)]
      BY <1>3, <2>3
    <3>3. Tail(t)[i - (Len(d) + 1)] = t[i - Len(d)]
      BY <1>3, <2>3
    <3> QED
      BY <3>1, <3>2, <3>3
  <2> QED
    BY <1>3, <2>1, <2>2, <2>3
<1>4. a = b
  <2> HIDE DEF a, b
  <2> QED
    BY <1>2, <1>3
<1> QED
  BY <1>1, <1>4

\* A download that takes the next unit.
LEMMA TakeNext ==
    ASSUME NEW S, NEW s \in Seq(S), NEW m \in Nat, NEW p \in Nat, m <= p, p < Len(s)
    PROVE  Append(SubSeq(s, m + 1, p), s[p + 1]) = SubSeq(s, m + 1, p + 1)
<1> DEFINE a == SubSeq(s, m + 1, p)
           b == SubSeq(s, m + 1, p + 1)
<1>1. a \in Seq(S) /\ Len(a) = p - m /\ b \in Seq(S) /\ Len(b) = p - m + 1 /\ s[p + 1] \in S
  OBVIOUS
<1>2. \A i \in 1 .. p - m : a[i] = s[m + i]
  OBVIOUS
<1>3. \A i \in 1 .. p - m + 1 : b[i] = s[m + i]
  OBVIOUS
<1> HIDE DEF a, b
<1>4. Append(a, s[p + 1]) \in Seq(S) /\ Len(Append(a, s[p + 1])) = p - m + 1
  BY <1>1
<1>5. \A i \in 1 .. p - m + 1 : Append(a, s[p + 1])[i] = b[i]
  BY <1>1, <1>2, <1>3
<1>6. Append(a, s[p + 1]) = b
  BY <1>1, <1>4, <1>5
<1> QED
  BY <1>6 DEF a, b

\* Nothing has been taken at the start, and nothing is left behind the end.
LEMMA TakeNone ==
    ASSUME NEW S, NEW s \in Seq(S), NEW m \in Nat, NEW p \in Nat, p <= m
    PROVE  SubSeq(s, m + 1, p) = << >>
  OBVIOUS

\* The position in rest is the one that is asked for, as long as a data socket waits: what has
\* opened the socket has set it back.  And there is never but one data socket.
HasSocket(c) == session[c].data_s \/ session[c].pasv_s
RestOk(c) ==
    /\ "rest" \in DOMAIN session[c] /\ session[c].rest \in Nat /\ asked[c] \in Nat
    /\ pc[c] \in {"recv", "failed"} /\ HasSocket(c) => session[c].rest = asked[c]
    /\ pc[c] = "conn" /\ HasSocket(c) => session[c].rest = xfer[c].want
    /\ pc[c] \in {"data", "close"} => ~session[c].pasv_s
    /\ ~(session[c].data_s /\ session[c].pasv_s)
RestInv == /\ DOMAIN asked = Clients /\ DOMAIN disk = Clients
           /\ \A c \in Clients : RestOk(c)

\* A step of one client.
LEMMA RestStep ==
    ASSUME RestInv, NEW c \in Clients, Step(c), RestOk(c)',
           DOMAIN asked' = Clients, \A d \in Clients \ {c} : asked'[d] = asked[d],
           DOMAIN disk' = Clients
    PROVE  RestInv'
<1>1. \A d \in Clients \ {c} : RestOk(d)'
  BY DEF RestInv, RestOk, HasSocket, Step, Others
<1>2. QED
  BY <1>1 DEF RestInv

\* A step that leaves the position, the sockets and what is asked for alone.
LEMMA RestKept ==
    ASSUME RestInv, NEW c \in Clients, Step(c), asked' = asked, disk' = disk,
           "rest" \in DOMAIN session'[c], session'[c].rest = session[c].rest,
           session'[c].data_s = session[c].data_s, session'[c].pasv_s = session[c].pasv_s,
           \/ pc'[c] = pc[c] /\ pc[c] # "conn"
           \/ pc[c] = "recv" /\ pc'[c] = "failed"
           \/ pc[c] = "data" /\ pc'[c] = "close"
    PROVE  RestInv'
<1>1. RestOk(c)'
  BY DEF RestInv, RestOk, HasSocket
<1>2. QED
  BY <1>1, RestStep DEF RestInv

\* The positions at the start.
LEMMA InitRest == Init => RestInv
<1> SUFFICES ASSUME Init PROVE RestInv
  OBVIOUS
<1>1. \A c \in Clients : "rest" \in DOMAIN session[c] /\ session[c].rest = 0
  <2>1. PICK junk \in [Clients -> {"", "junk"}] : session = [c \in Clients |->
            [expectcmd |-> junk[c], authorized |-> FALSE, rest |-> 0, tmp_path |-> "junk",
             data_s |-> FALSE, pasv_s |-> FALSE, fd |-> None]]
    BY DEF Init
  <2>2. QED
    BY <2>1
<1>2. \A c \in Clients : ~session[c].data_s /\ ~session[c].pasv_s
  <2>1. PICK junk \in [Clients -> {"", "junk"}] : session = [c \in Clients |->
            [expectcmd |-> junk[c], authorized |-> FALSE, rest |-> 0, tmp_path |-> "junk",
             data_s |-> FALSE, pasv_s |-> FALSE, fd |-> None]]
    BY DEF Init
  <2>2. QED
    BY <2>1
<1>3. \A c \in Clients : asked[c] = 0 /\ pc[c] = "recv"
  BY DEF Init
<1>4. ASSUME NEW c \in Clients PROVE RestOk(c)
  <2>1. ~HasSocket(c)
    BY <1>2 DEF HasSocket
  <2>2. session[c].rest \in Nat /\ asked[c] \in Nat
    BY <1>1, <1>3
  <2>3. QED
    BY <1>1, <1>2, <1>3, <2>1, <2>2 DEF RestOk
<1>5. QED
  BY <1>4 DEF Init, RestInv

\* What a step leaves alone of the session of its client.
RestSame(c) ==
    /\ "rest" \in DOMAIN session'[c] /\ session'[c].rest = session[c].rest
    /\ session'[c].data_s = session[c].data_s /\ session'[c].pasv_s = session[c].pasv_s

\* USER and PASS leave the positions alone.
LEMMA LoginRest ==
    ASSUME HInv, RestInv, NEW c \in Clients, Login(c), Step(c)
    PROVE  RestInv'
<1>s. HasFields(session[c]) /\ "rest" \in DOMAIN session[c] /\ DOMAIN session = Clients
  BY DEF HInv, IInv, Types, RestInv, RestOk
<1>1. RestSame(c)
  <2>1. CASE User(c)
    BY <1>s, <2>1 DEF HasFields, RestSame, User, Set
  <2>2. CASE \E right \in BOOLEAN : Pass(c, right)
    BY <1>s, <2>2 DEF HasFields, RestSame, Pass, Set
  <2>3. QED
    BY <2>1, <2>2 DEF Login
<1>2. asked' = asked /\ disk' = disk /\ pc' = pc /\ pc[c] = "recv"
  BY DEF Login, User, Pass
<1>3. QED
  BY <1>1, <1>2, RestKept DEF RestSame

\* PASV, PORT and REST set the position and what is asked alike.
LEMMA KeptRest ==
    ASSUME HInv, RestInv, NEW c \in Clients, Kept(c), Step(c)
    PROVE  RestInv'
<1>s. /\ HasFields(session[c]) /\ "rest" \in DOMAIN session[c] /\ session[c].rest \in Nat
      /\ DOMAIN session = Clients
  BY DEF HInv, IInv, Types, RestInv, RestOk
<1>1. disk' = disk /\ DOMAIN disk' = Clients
  BY DEF Kept, Refused, Passive, Port, Abort, Quit, Rest, Rnfr, RnfrFails, Rnto, MakeDir, Other,
         Done, RestInv
<1>2. CASE Refused(c) \/ Rnfr(c) \/ RnfrFails(c) \/ Rnto(c) \/ MakeDir(c) \/ Other(c)
  <2>1. RestSame(c)
    <3> USE <1>s DEF HasFields, RestSame, Set
    <3>1. CASE Refused(c)
      BY <3>1 DEF Refused
    <3>2. CASE Rnfr(c)
      BY <3>2 DEF Rnfr
    <3>3. CASE RnfrFails(c)
      BY <3>3 DEF RnfrFails, Done
    <3>4. CASE Rnto(c)
      BY <3>4 DEF Rnto
    <3>5. CASE MakeDir(c)
      BY <3>5 DEF MakeDir, Done
    <3>6. CASE Other(c)
      BY <3>6 DEF Other, Done
    <3>7. QED
      BY <1>2, <3>1, <3>2, <3>3, <3>4, <3>5, <3>6
  <2>2. asked' = asked /\ pc' = pc /\ pc[c] = "recv"
    BY <1>2 DEF Refused, Rnfr, RnfrFails, Rnto, MakeDir, Other, Done, Command
  <2>3. QED
    BY <1>1, <2>1, <2>2, RestKept DEF RestSame
<1>3. CASE Passive(c) \/ Port(c)
  <2>1. /\ "rest" \in DOMAIN session'[c] /\ session'[c].rest = 0
        /\ ~session'[c].data_s \/ ~session'[c].pasv_s
    <3>1. CASE Passive(c)
      BY <1>s, <3>1 DEF HasFields, Passive, Done, Begin, Set
    <3>2. CASE Port(c)
      BY <1>s, <3>2 DEF HasFields, Port, Done, Begin, Set
    <3>3. QED
      BY <1>3, <3>1, <3>2
  <2>2. asked' = [asked EXCEPT ![c] = 0] /\ pc' = pc /\ pc[c] = "recv"
    BY <1>3 DEF Passive, Port, Done, Command
  <2>3. QED
    BY <1>1, <2>1, <2>2, RestStep DEF RestInv, RestOk
<1>4. CASE Rest(c)
  <2>1. PICK n \in 0 .. Len(OldData) - 1 : /\ Done(c, [session[c] EXCEPT !.rest = n])
                                           /\ asked' = [asked EXCEPT ![c] = n]
    BY <1>4 DEF Rest
  <2>2. /\ "rest" \in DOMAIN session'[c] /\ session'[c].rest = n
        /\ session'[c].data_s = session[c].data_s /\ session'[c].pasv_s = session[c].pasv_s
    BY <1>s, <2>1 DEF HasFields, Done, Set
  <2>3. pc' = pc /\ pc[c] = "recv"
    BY <1>4, <2>1 DEF Rest, Done, Command
  <2>4. n \in Nat
    OBVIOUS
  <2>5. QED
    BY <1>1, <2>1, <2>2, <2>3, <2>4, RestStep DEF RestInv, RestOk
<1>5. CASE Abort(c) \/ Quit(c)
  <2>1. /\ "rest" \in DOMAIN session'[c] /\ session'[c].rest = session[c].rest
        /\ ~session'[c].data_s /\ ~session'[c].pasv_s
    <3>1. CASE Abort(c)
      BY <1>s, <3>1 DEF HasFields, Abort, Done, Set
    <3>2. CASE Quit(c)
      BY <1>s, <3>2 DEF HasFields, Quit, Set
    <3>3. QED
      BY <1>5, <3>1, <3>2
  <2>2. asked' = asked /\ pc'[c] \in {"recv", "done"}
    BY <1>5 DEF Abort, Quit, Done, Command, HInv, IInv, Types
  <2>3. RestOk(c)'
    BY <2>1, <2>2 DEF RestInv, RestOk, HasSocket
  <2>4. QED
    BY <1>1, <2>2, <2>3, RestStep DEF RestInv
<1>6. QED
  BY <1>2, <1>3, <1>4, <1>5 DEF Kept

\* A transfer begins with the position asked for, and the next one asks for none.
LEMMA StartRest ==
    ASSUME HInv, RestInv, NEW c \in Clients, NEW op \in Transfers,
           Start(c, op) \/ StartFails(c, op), Step(c)
    PROVE  RestInv'
<1>s. HasFields(session[c]) /\ "rest" \in DOMAIN session[c] /\ DOMAIN session = Clients
  BY DEF HInv, IInv, Types, RestInv, RestOk
<1>1. RestSame(c)
  <2>1. PICK d : session' = [session EXCEPT ![c] =
           [session[c] EXCEPT !.expectcmd = "", !.fd = d, !.tmp_path = PathAfter(c, op)]]
    BY DEF Start, StartFails, Set
  <2>2. QED
    BY <1>s, <2>1 DEF HasFields, RestSame
<1>2. pc[c] = "recv"
  BY DEF Start, StartFails, Command
<1>3. CASE StartFails(c, op)
  <2>1. asked' = asked /\ disk' = disk /\ pc'[c] = "failed"
    BY <1>3 DEF StartFails, HInv, IInv, Types
  <2>2. QED
    BY <1>1, <1>2, <2>1, RestKept DEF RestSame
<1>4. CASE Start(c, op)
  <2>1. asked' = asked \/ asked' = [asked EXCEPT ![c] = 0]
    BY <1>4 DEF Start
  <2>2. DOMAIN disk' = Clients
    BY <1>4 DEF Start, RestInv
  <2>3. pc'[c] = "conn" /\ xfer'[c].want = asked[c]
    BY <1>4 DEF Start, Transfer, HInv, IInv, Types
  <2>4. RestOk(c)'
    BY <1>1, <1>2, <2>1, <2>3 DEF RestSame, RestInv, RestOk, HasSocket
  <2>5. QED
    BY <2>1, <2>2, <2>4, RestStep DEF RestInv
<1>5. QED
  BY <1>3, <1>4

\* A transfer starts where its client has asked, or slips says that a position was kept.
LEMMA ConnectRest ==
    ASSUME HInv, RestInv, NEW c \in Clients, Connect(c), Step(c)
    PROVE  /\ RestInv' /\ session'[c].rest = session[c].rest
           /\ "kept" \notin slips' => session[c].rest = xfer[c].want
<1>s. HasFields(session[c]) /\ "rest" \in DOMAIN session[c] /\ DOMAIN session = Clients
  BY DEF HInv, IInv, Types, RestInv, RestOk
<1>p. pc[c] = "conn" /\ pc'[c] \in {"data", "close"} /\ asked' = asked
  BY DEF HInv, IInv, Types, Connect, transferUnchanged
<1>d. DOMAIN disk' = Clients
  BY DEF Connect, RestInv
<1>1. CASE session[c].data_s
  <2>1. session' = session
    BY <1>1 DEF Connect, Connection
  <2>2. ~session[c].pasv_s /\ session[c].rest = xfer[c].want
    BY <1>1, <1>p DEF RestInv, RestOk, HasSocket
  <2>3. RestOk(c)'
    BY <1>p, <2>1, <2>2 DEF RestInv, RestOk
  <2>4. QED
    BY <1>p, <1>d, <2>1, <2>2, <2>3, RestStep DEF RestInv
<1>2. CASE ~session[c].data_s
  <2>1. session' = [session EXCEPT ![c] = [session[c] EXCEPT !.data_s = TRUE,
                                                             !.pasv_s = FALSE]]
    BY <1>2 DEF Connect, Connection, Set
  <2>2. /\ "rest" \in DOMAIN session'[c] /\ session'[c].rest = session[c].rest
        /\ ~session'[c].pasv_s
    BY <1>s, <2>1 DEF HasFields
  <2>3. ~session[c].pasv_s /\ session[c].rest # xfer[c].want => "kept" \in slips'
    BY <1>2 DEF Connect, Connection
  <2>4. RestOk(c)'
    BY <1>p, <2>2 DEF RestInv, RestOk
  <2>5. QED
    BY <1>p, <1>d, <1>2, <2>2, <2>3, <2>4, RestStep DEF RestInv, RestOk, HasSocket
<1>3. QED
  BY <1>1, <1>2

\* The end of a transfer closes the data socket, so that nothing is asked of rest.
LEMMA LastRest ==
    ASSUME HInv, RestInv, NEW c \in Clients, ConnectFails(c) \/ Close(c) \/ CloseStale(c), Step(c)
    PROVE  RestInv'
<1>s. HasFields(session[c]) /\ "rest" \in DOMAIN session[c] /\ DOMAIN session = Clients
  BY DEF HInv, IInv, Types, RestInv, RestOk
<1>p. pc'[c] = "recv" /\ asked' = asked /\ disk' = disk
  BY DEF HInv, IInv, Types, ConnectFails, Close, CloseStale, CloseAll, transferUnchanged
<1>1. /\ "rest" \in DOMAIN session'[c] /\ session'[c].rest = session[c].rest
      /\ HasSocket(c)' => pc[c] = "failed" /\ HasSocket(c)
      /\ ~session'[c].data_s \/ ~session'[c].pasv_s
  <2>1. CASE ConnectFails(c)
    BY <1>s, <2>1 DEF HasFields, HasSocket, ConnectFails, Set
  <2>2. CASE CloseStale(c)
    BY <1>s, <2>2 DEF HasFields, HasSocket, CloseStale, CloseAll, Set
  <2>3. CASE Close(c)
    <3>1. ~session[c].pasv_s
      BY <2>3 DEF Close, CloseAll, RestInv, RestOk
    <3>2. QED
      BY <1>s, <2>3, <3>1 DEF HasFields, HasSocket, Close, CloseAll, Set
  <2>4. QED
    BY <2>1, <2>2, <2>3
<1>2. RestOk(c)'
  BY <1>1, <1>p DEF RestInv, RestOk
<1>3. QED
  BY <1>p, <1>2, RestStep DEF RestInv

\* A block of data leaves the positions alone.
LEMMA DataRest ==
    ASSUME HInv, RestInv, NEW c \in Clients, Data(c), Step(c), DOMAIN disk' = Clients
    PROVE  RestInv'
<1>1. DataFacts(c)
  BY DataSteps DEF HInv
<1>2. asked' = asked
  BY DEF Data, Breaks, Sends, SendLost, SendsAll, ReadFails, Stores, StoreLost, StoresAll,
         dataUnchanged, transferUnchanged
<1>3. RestOk(c)'
  BY <1>1, <1>2 DEF DataFacts, RestInv, RestOk
<1>4. QED
  BY <1>2, <1>3, RestStep DEF RestInv

\* What a transfer has found at its start, ...
AtStart(c) ==
    LET x == xfer[c] IN
    /\ {"reply", "pos", "got", "todo"} \subseteq DOMAIN x
    /\ x.op \in Transfers /\ x.reply = "none" /\ x.got = << >>
    /\ x.want \in Nat /\ x.before \in Contents
    /\ IF x.op = "STOR" /\ ntfs[c] THEN disk[c] = << >> /\ session[c].rest = 0
                                   ELSE disk[c] = x.before
    /\ x.op \in {"STOR", "APPE"} => x.todo = NewData

\* ... and what it has done of it.
UnderWay(c) ==
    LET x == xfer[c] IN
    /\ {"reply", "pos", "got", "todo"} \subseteq DOMAIN x
    /\ x.op \in Transfers \ {"LIST"} /\ x.reply = "none"
    /\ x.want \in Nat /\ x.pos \in Nat /\ x.before \in Contents
    /\ x.op = "RETR" => /\ disk[c] = x.before /\ x.got = SubSeq(x.before, x.want + 1, x.pos)
                        /\ x.pos >= x.want /\ (x.pos = x.want \/ x.pos <= Len(x.before))
    /\ x.op = "STOR" => /\ x.todo \in Seq(Units) /\ Len(disk[c]) = x.pos
                        /\ disk[c] \o x.todo = Resized(x.before, x.want) \o NewData
    /\ x.op = "APPE" => /\ x.todo \in Seq(Units)
                        /\ disk[c] \o x.todo = x.before \o NewData

\* But for the known hazards, each client is where its replies say.
Good == Without({"kept", "truncated", "unseen", "unread", "stale"})
TrueOk(c) ==
    /\ disk[c] \in Contents
    /\ pc[c] = "conn" => AtStart(c)
    /\ pc[c] = "data" => UnderWay(c)
    /\ xfer[c].reply = "226" => Delivered(c)
TrueInv == Good => \A c \in Clients : TrueOk(c)

CInv == HInv /\ RestInv /\ TrueInv

\* A step of one client leaves the files of the others alone.
LEMMA TrueStep ==
    ASSUME TrueInv, NEW c \in Clients, Step(c), ntfs' = ntfs,
           Good' => TrueOk(c)' /\ \A d \in Clients \ {c} : disk'[d] = disk[d]
    PROVE  TrueInv'
<1> SUFFICES ASSUME Good' PROVE \A d \in Clients : TrueOk(d)'
  BY DEF TrueInv
<1>1. Good
  BY DEF Good, Without, Step
<1>2. ASSUME NEW d \in Clients \ {c} PROVE TrueOk(d)'
  <2>1. TrueOk(d) /\ disk'[d] = disk[d]
    BY <1>1 DEF TrueInv
  <2>2. session'[d] = session[d] /\ pc'[d] = pc[d] /\ xfer'[d] = xfer[d] /\ ntfs'[d] = ntfs[d]
    BY DEF Step, Others
  <2>3. (AtStart(d) => AtStart(d)') /\ (UnderWay(d) => UnderWay(d)')
    BY <2>1, <2>2 DEF AtStart, UnderWay
  <2>4. Delivered(d) => Delivered(d)'
    BY <2>1, <2>2 DEF Delivered
  <2>5. QED
    BY <2>1, <2>2, <2>3, <2>4 DEF TrueOk
<1>3. QED
  BY <1>2

\* A step outside of a transfer.
LEMMA TrueQuiet ==
    ASSUME TrueInv, NEW c \in Clients, Step(c), ntfs' = ntfs, disk' = disk,
           pc'[c] \notin {"conn", "data"},
           xfer'[c] = xfer[c] \/ xfer'[c].reply # "226"
    PROVE  TrueInv'
<1>1. Good' => TrueOk(c)'
  <2> SUFFICES ASSUME Good' PROVE TrueOk(c)'
    OBVIOUS
  <2>1. TrueOk(c)
    BY DEF TrueInv, Good, Without, Step
  <2>2. QED
    BY <2>1 DEF TrueOk, Delivered
<1>2. QED
  BY <1>1, TrueStep

\* What a session starts with is what a file can hold.
LEMMA DataContents == OldData \in Contents /\ NewData \in Contents /\ NewData \in Seq(Units)
  BY DataAssumption DEF Contents

\* No reply has been given at the start.
LEMMA InitTrue == Init => TrueInv
<1> SUFFICES ASSUME Init PROVE \A c \in Clients : TrueOk(c)
  BY DEF TrueInv
<1>1. \A c \in Clients : pc[c] = "recv" /\ xfer[c].reply = "none" /\ disk[c] = OldData
  BY DEF Init, NoTransfer
<1>2. QED
  BY <1>1, DataContents DEF TrueOk

\* A command without a transfer gives no new reply of 226.
LEMMA KeptTrue ==
    ASSUME CInv, NEW c \in Clients, Login(c) \/ Kept(c), Step(c)
    PROVE  TrueInv'
<1>1. disk' = disk /\ ntfs' = ntfs
  BY DEF Login, User, Pass, Kept, Refused, Passive, Port, Abort, Quit, Rest, Rnfr, RnfrFails,
         Rnto, MakeDir, Other, Done
<1>2. pc'[c] \notin {"conn", "data"}
  <2>1. pc[c] = "recv" /\ (pc' = pc \/ pc' = [pc EXCEPT ![c] = "done"])
    BY DEF Login, User, Pass, Kept, Refused, Passive, Port, Abort, Quit, Rest, Rnfr, RnfrFails,
           Rnto, MakeDir, Other, Done, Command
  <2>2. QED
    BY <2>1 DEF CInv, HInv, IInv, Types
<1>3. xfer'[c] = xfer[c] \/ xfer'[c].reply # "226"
  <2>1. \/ xfer' = xfer \/ xfer' = [xfer EXCEPT ![c] = NoTransfer]
        \/ \E s, n : xfer' = [xfer EXCEPT ![c] = [op |-> "RNTO", reply |-> "250",
                                                  source |-> s, named |-> n]]
    BY DEF Login, User, Pass, Kept, Refused, Passive, Port, Abort, Quit, Rest, Rnfr, RnfrFails,
           Rnto, MakeDir, Other, Done
  <2>2. QED
    BY <2>1 DEF CInv, HInv, IInv, Types, NoTransfer
<1>4. QED
  BY <1>1, <1>2, <1>3, TrueQuiet DEF CInv

\* Nor does a step that gives a transfer up or closes it: the reply was given before.
LEMMA QuietTrue ==
    ASSUME CInv, NEW c \in Clients, Step(c),
           \/ \E op \in Transfers : StartFails(c, op)
           \/ ConnectFails(c) \/ Close(c) \/ CloseStale(c)
    PROVE  TrueInv'
<1>1. disk' = disk /\ ntfs' = ntfs
  BY DEF StartFails, ConnectFails, Close, CloseStale, CloseAll, transferUnchanged
<1>2. pc'[c] \in {"recv", "failed"}
  BY DEF StartFails, ConnectFails, Close, CloseStale, CloseAll, CInv, HInv, IInv, Types
<1>3. xfer' = xfer \/ xfer' = [xfer EXCEPT ![c] = [NoTransfer EXCEPT !.reply = "error"]]
  BY DEF StartFails, ConnectFails, Close, CloseStale, CloseAll
<1>4. xfer'[c] = xfer[c] \/ xfer'[c].reply # "226"
  BY <1>3 DEF NoTransfer, CInv, HInv, IInv, Types
<1>5. QED
  BY <1>1, <1>2, <1>4, TrueQuiet DEF CInv

\* A transfer that starts has moved nothing; an upload to NTFS has emptied its file.
LEMMA StartTrue ==
    ASSUME CInv, NEW c \in Clients, NEW op \in Transfers, Start(c, op), Step(c)
    PROVE  TrueInv'
<1>1. ntfs' = ntfs /\ pc'[c] = "conn" /\ xfer'[c] = Transfer(c, op)
  BY DEF Start, CInv, HInv, IInv, Types
<1>2. session'[c].rest = session[c].rest
  <2>1. PICK d : Set(c, [session[c] EXCEPT !.expectcmd = "", !.fd = d,
                                           !.tmp_path = PathAfter(c, op)])
    BY DEF Start
  <2>2. session'[c] = [session[c] EXCEPT !.expectcmd = "", !.fd = d,
                                          !.tmp_path = PathAfter(c, op)]
    BY <2>1, SetSession DEF CInv, HInv
  <2>3. QED
    BY <2>2 DEF CInv, HInv, IInv, Types, HasFields, RestInv, RestOk
<1>3. \A d \in Clients \ {c} : disk'[d] = disk[d]
  BY DEF Start, CInv, RestInv
<1>4. ASSUME Good' PROVE TrueOk(c)'
  <2>1. disk[c] \in Contents
    BY <1>4 DEF CInv, TrueInv, TrueOk, Good, Without, Step
  <2>2. /\ ntfs[c] /\ op = "STOR" => disk'[c] = << >> /\ session[c].rest = 0
        /\ ~(ntfs[c] /\ op = "STOR") => disk'[c] = disk[c]
    <3>1. CASE ntfs[c] /\ op = "STOR"
      BY <1>4, <3>1 DEF Start, CInv, RestInv, Good, Without
    <3>2. CASE ~(ntfs[c] /\ op = "STOR")
      BY <3>2 DEF Start
    <3>3. QED
      BY <3>1, <3>2
  <2>3. asked[c] \in Nat
    BY DEF CInv, RestInv, RestOk
  <2>4. AtStart(c)'
    BY <1>1, <1>2, <2>1, <2>2, <2>3 DEF AtStart, Transfer, Transfers
  <2>5. disk'[c] \in Contents
    <3>1. << >> \in Contents
      BY DEF Contents
    <3>2. QED
      BY <2>1, <2>2, <3>1
  <2>6. QED
    BY <1>1, <2>4, <2>5 DEF TrueOk, Transfer
<1>5. QED
  BY <1>1, <1>3, <1>4, TrueStep DEF CInv

\* The file of a transfer under way is its own.
LEMMA OwnFile ==
    ASSUME HInv, Good, NEW c \in Clients, InUse(c), xfer[c].op # "LIST"
    PROVE  Opened(c) /\ File(c) = c
<1>1. Owner(c)
  BY DEF HInv, OwnInv, Good, Without
<1>2. QED
  BY <1>1 DEF Owner, Opened, File

\* With the connection a STOR has cut its file to the position.
LEMMA ConnectTrue ==
    ASSUME CInv, NEW c \in Clients, Connect(c), Step(c)
    PROVE  TrueInv'
<1>n. ntfs' = ntfs
  BY DEF Connect, transferUnchanged
<1> SUFFICES ASSUME Good'
             PROVE  TrueOk(c)' /\ \A d \in Clients \ {c} : disk'[d] = disk[d]
  BY <1>n, TrueStep DEF CInv
<1>g. Good
  BY DEF Good, Without, Step
<1>p. pc[c] = "conn"
  BY DEF Connect
<1>s. TrueOk(c) /\ AtStart(c)
  BY <1>g, <1>p DEF CInv, TrueInv, TrueOk
<1>r. session[c].rest = xfer[c].want /\ xfer[c].want \in Nat
  <2>1. "kept" \notin slips'
    BY DEF Good, Without
  <2>2. QED
    BY <1>s, <2>1, ConnectRest DEF CInv, AtStart
<1>1. CASE xfer[c].op = "LIST"
  <2>1. disk' = disk /\ pc'[c] = "close" /\ xfer'[c].op = "LIST"
    BY <1>1 DEF Connect, CInv, HInv, IInv, Types
  <2>2. QED
    BY <1>s, <2>1 DEF TrueOk, Delivered
<1>2. CASE xfer[c].op # "LIST"
  <2>1. pc'[c] = "data" /\ xfer'[c] = [xfer[c] EXCEPT !.pos = session[c].rest]
    BY <1>2 DEF Connect, CInv, HInv, IInv, Types
  <2>2. Opened(c) /\ File(c) = c
    BY <1>2, <1>g, <1>p, OwnFile DEF CInv, InUse
  <2>3. disk' = IF xfer[c].op = "STOR" /\ ~ntfs[c]
                THEN [disk EXCEPT ![c] = Resized(disk[c], session[c].rest)] ELSE disk
    BY <2>2 DEF Connect
  <2>4. \A d \in Clients \ {c} : disk'[d] = disk[d]
    BY <2>3 DEF CInv, RestInv
  <2> DEFINE x == xfer[c]
             y == xfer'[c]
  <2>5. /\ {"reply", "pos", "got", "todo"} \subseteq DOMAIN y
        /\ y.op = x.op /\ y.reply = "none" /\ y.got = << >> /\ y.want = x.want
        /\ y.before = x.before /\ y.todo = x.todo /\ y.pos = x.want
    BY <1>s, <1>r, <2>1 DEF AtStart
  <2>b. x.op \in {"RETR", "STOR", "APPE"} /\ x.before \in Contents /\ x.want \in Nat
    BY <1>2, <1>s DEF AtStart, Transfers
  <2>6. CASE x.op = "RETR"
    <3>1. disk'[c] = x.before
      BY <1>s, <2>3, <2>6 DEF AtStart
    <3>2. SubSeq(x.before, x.want + 1, x.want) = << >>
      BY <2>b, TakeNone DEF Contents
    <3>3. UnderWay(c)'
      BY <2>5, <2>6, <2>b, <3>1, <3>2 DEF UnderWay, Transfers
    <3>4. QED
      BY <2>1, <2>4, <2>5, <2>b, <3>1, <3>3 DEF TrueOk
  <2>7. CASE x.op = "APPE"
    <3>1. disk'[c] = x.before /\ x.todo = NewData
      BY <1>s, <2>3, <2>7 DEF AtStart
    <3>2. UnderWay(c)'
      BY <2>5, <2>7, <2>b, <3>1, DataContents DEF UnderWay, Transfers
    <3>3. QED
      BY <2>1, <2>4, <2>5, <2>b, <3>1, <3>2 DEF TrueOk
  <2>8. CASE x.op = "STOR"
    <3>1. /\ disk'[c] \in Contents /\ Len(disk'[c]) = x.want
          /\ disk'[c] = Resized(x.before, x.want) /\ x.todo = NewData
      <4>1. CASE ntfs[c]
        <5>1. disk'[c] = << >> /\ x.want = 0 /\ x.todo = NewData
          BY <1>s, <1>r, <2>3, <2>8, <4>1 DEF AtStart
        <5>2. QED
          BY <2>b, <5>1, ResizedIs, ResizedNone
      <4>2. CASE ~ntfs[c]
        <5>1. disk[c] = x.before /\ x.todo = NewData
          BY <1>s, <2>8, <4>2 DEF AtStart
        <5>2. disk'[c] = Resized(x.before, x.want)
          BY <1>r, <2>3, <2>8, <4>2, <5>1 DEF CInv, RestInv
        <5>3. QED
          BY <2>b, <5>1, <5>2, ResizedIs
      <4>3. QED
        BY <4>1, <4>2
    <3>2. UnderWay(c)'
      BY <2>5, <2>8, <2>b, <3>1, DataContents DEF UnderWay, Transfers
    <3>3. QED
      BY <2>1, <2>4, <2>5, <3>1, <3>2 DEF TrueOk
  <2>9. QED
    BY <2>b, <2>6, <2>7, <2>8
<1>3. QED
  BY <1>1, <1>2

\* A transfer that ends takes its reply, and leaves all else as it was.
LEMMA EndsTrue ==
    ASSUME CInv, NEW c \in Clients, NEW reply, Ends(c, reply), Step(c),
           ntfs' = ntfs, disk' = disk, pc[c] = "data",
           Good' /\ reply = "226" => Delivered(c)
    PROVE  TrueInv'
<1> SUFFICES ASSUME Good' PROVE TrueOk(c)'
  BY TrueStep DEF CInv
<1>1. TrueOk(c) /\ UnderWay(c)
  BY DEF CInv, TrueInv, TrueOk, Good, Without, Step
<1>2. pc'[c] = "close" /\ xfer'[c] = [xfer[c] EXCEPT !.reply = reply]
  BY DEF Ends, CInv, HInv, IInv, Types
<1>3. /\ xfer'[c].reply = reply /\ xfer'[c].op = xfer[c].op /\ xfer'[c].got = xfer[c].got
      /\ xfer'[c].before = xfer[c].before /\ xfer'[c].want = xfer[c].want
  BY <1>1, <1>2 DEF UnderWay
<1>4. Delivered(c) => Delivered(c)'
  BY <1>3 DEF Delivered
<1>5. QED
  BY <1>1, <1>2, <1>3, <1>4 DEF TrueOk

\* A step of the data phase that goes on.
LEMMA DataGoesOn ==
    ASSUME CInv, NEW c \in Clients, Step(c), ntfs' = ntfs, pc' = pc, pc[c] = "data",
           xfer'[c].reply = "none",
           Good' => /\ disk'[c] \in Contents /\ UnderWay(c)'
                    /\ \A d \in Clients \ {c} : disk'[d] = disk[d]
    PROVE  TrueInv'
<1>1. Good' => TrueOk(c)'
  BY DEF TrueOk
<1>2. QED
  BY <1>1, TrueStep DEF CInv

\* A block sent is the next unit of the client's file.
LEMMA SendsTrue ==
    ASSUME CInv, NEW c \in Clients, Sends(c), Step(c)
    PROVE  TrueInv'
<1>1. ntfs' = ntfs /\ disk' = disk /\ pc' = pc /\ pc[c] = "data" /\ xfer[c].op = "RETR"
  BY DEF Sends, InData, dataUnchanged, transferUnchanged
<1> DEFINE x == xfer[c]
<1>2. xfer'[c] = [x EXCEPT !.pos = x.pos + 1,
                           !.got = Append(x.got, disk[File(c)][x.pos + 1])]
  BY DEF Sends, CInv, HInv, IInv, Types
<1>3. ASSUME Good' PROVE UnderWay(c)' /\ disk'[c] \in Contents
  <2>1. Good
    BY <1>3 DEF Good, Without, Step
  <2>2. disk[c] \in Contents /\ UnderWay(c)
    BY <1>1, <2>1 DEF CInv, TrueInv, TrueOk
  <2>3. File(c) = c
    BY <1>1, <2>1, OwnFile DEF CInv, InUse
  <2>4. x.pos < Len(x.before) /\ disk[File(c)] = x.before
    BY <1>1, <2>2, <2>3 DEF Sends, UnderWay
  <2>5. /\ x.want \in Nat /\ x.pos \in Nat /\ x.want <= x.pos /\ x.before \in Contents
        /\ x.got = SubSeq(x.before, x.want + 1, x.pos)
    BY <1>1, <2>2 DEF UnderWay
  <2>6. Append(x.got, x.before[x.pos + 1]) = SubSeq(x.before, x.want + 1, x.pos + 1)
    BY <2>4, <2>5, TakeNext DEF Contents
  <2> DEFINE y == xfer'[c]
  <2>7. /\ {"reply", "pos", "got", "todo"} \subseteq DOMAIN y
        /\ y.op = x.op /\ y.reply = x.reply /\ y.want = x.want /\ y.before = x.before
        /\ y.pos = x.pos + 1 /\ y.got = SubSeq(x.before, x.want + 1, x.pos + 1)
    <3>1. {"reply", "pos", "got", "todo"} \subseteq DOMAIN x
      BY <1>1, <2>2 DEF UnderWay
    <3>2. y.got = Append(x.got, x.before[x.pos + 1])
      BY <1>2, <2>4, <3>1
    <3>3. /\ DOMAIN y = DOMAIN x /\ y.op = x.op /\ y.reply = x.reply /\ y.want = x.want
          /\ y.before = x.before
      BY <1>2
    <3>4. y.pos = x.pos + 1
      BY <1>2, <3>1
    <3>5. QED
      BY <2>6, <3>1, <3>2, <3>3, <3>4
  <2>8. x.pos + 1 \in Nat /\ x.pos + 1 >= x.want /\ x.pos + 1 <= Len(x.before)
    BY <2>4, <2>5 DEF Contents
  <2> HIDE DEF y
  <2>9. UnderWay(c)'
    BY <1>1, <2>2, <2>7, <2>8 DEF UnderWay, y
  <2>10. QED
    BY <1>1, <2>2, <2>9
<1>4. ASSUME Good' PROVE xfer'[c].reply = "none"
  BY <1>3, <1>4 DEF UnderWay
<1>5. CASE Good'
  BY <1>1, <1>3, <1>4, <1>5, DataGoesOn
<1>6. CASE ~Good'
  BY <1>6 DEF TrueInv
<1>7. QED
  BY <1>5, <1>6

\* At the end of the file all units from the position on have been sent.
LEMMA SendsAllTrue ==
    ASSUME CInv, NEW c \in Clients, SendsAll(c), Step(c)
    PROVE  TrueInv'
<1>1. /\ ntfs' = ntfs /\ disk' = disk /\ pc[c] = "data" /\ xfer[c].op = "RETR"
      /\ Ends(c, "226")
  BY DEF SendsAll, InData, dataUnchanged, transferUnchanged
<1> DEFINE x == xfer[c]
<1>2. ASSUME Good' PROVE Delivered(c)
  <2>1. Good
    BY <1>2 DEF Good, Without, Step
  <2>2. disk[c] \in Contents /\ UnderWay(c)
    BY <1>1, <2>1 DEF CInv, TrueInv, TrueOk
  <2>3. File(c) = c
    BY <1>1, <2>1, OwnFile DEF CInv, InUse
  <2>4. x.pos >= Len(x.before)
    BY <1>1, <2>2, <2>3 DEF SendsAll, UnderWay
  <2>5. /\ x.want \in Nat /\ x.pos \in Nat /\ x.before \in Contents
        /\ x.got = SubSeq(x.before, x.want + 1, x.pos)
        /\ x.pos = x.want \/ x.pos <= Len(x.before)
    BY <1>1, <2>2 DEF UnderWay
  <2>6. Len(x.before) \in Nat
    BY <2>5 DEF Contents
  <2>7. CASE x.pos = Len(x.before)
    BY <1>1, <2>5, <2>7 DEF Delivered
  <2>8. CASE x.pos # Len(x.before)
    <3>1. x.pos = x.want /\ Len(x.before) <= x.want
      BY <2>4, <2>5, <2>6, <2>8
    <3>2. SubSeq(x.before, x.want + 1, x.pos) = << >>
      BY <2>5, <3>1, TakeNone DEF Contents
    <3>3. SubSeq(x.before, x.want + 1, Len(x.before)) = << >>
      BY <2>5, <2>6, <3>1, TakeNone DEF Contents
    <3>4. QED
      BY <1>1, <2>5, <3>2, <3>3 DEF Delivered
  <2>9. QED
    BY <2>7, <2>8
<1>3. QED
  BY <1>1, <1>2, EndsTrue

\* A block stored is the next unit of the upload, behind those before it.
LEMMA StoresTrue ==
    ASSUME CInv, NEW c \in Clients, Stores(c), Step(c)
    PROVE  TrueInv'
<1> DEFINE x == xfer[c]
           data == disk[c]
<1>1. /\ ntfs' = ntfs /\ pc' = pc /\ pc[c] = "data" /\ x.op \in {"STOR", "APPE"}
      /\ x.todo # << >>
  BY DEF Stores, InData, dataUnchanged, transferUnchanged
<1>2. xfer'[c] = [x EXCEPT !.pos = x.pos + 1, !.todo = Tail(x.todo)]
  BY DEF Stores, CInv, HInv, IInv, Types
<1>3. ASSUME Good'
      PROVE  /\ UnderWay(c)' /\ disk'[c] \in Contents
             /\ \A d \in Clients \ {c} : disk'[d] = disk[d]
  <2>1. Good
    BY <1>3 DEF Good, Without, Step
  <2>2. data \in Contents /\ UnderWay(c)
    BY <1>1, <2>1 DEF CInv, TrueInv, TrueOk
  <2>3. File(c) = c
    BY <1>1, <2>1, OwnFile DEF CInv, InUse
  <2>4. /\ x.want \in Nat /\ x.pos \in Nat /\ x.before \in Contents /\ x.todo \in Seq(Units)
        /\ x.op = "STOR" => Len(data) = x.pos
    BY <1>1, <2>2 DEF UnderWay
  <2>5. Head(x.todo) \in Units
    BY <1>1, <2>4
  <2>6. disk' = [disk EXCEPT ![c] = Put(data, Len(data) + 1, Head(x.todo))]
    <3>1. disk' = [disk EXCEPT ![c] =
                     Put(data, (IF x.op = "APPE" THEN Len(data) ELSE x.pos) + 1, Head(x.todo))]
      BY <2>3 DEF Stores
    <3>2. (IF x.op = "APPE" THEN Len(data) ELSE x.pos) = Len(data)
      BY <1>1, <2>4
    <3>3. QED
      BY <3>1, <3>2
  <2>7. disk'[c] = Append(data, Head(x.todo)) /\ \A d \in Clients \ {c} : disk'[d] = disk[d]
    BY <2>2, <2>5, <2>6, PutAtEnd DEF CInv, RestInv
  <2>8. /\ disk'[c] \in Contents /\ Len(disk'[c]) = Len(data) + 1
        /\ Tail(x.todo) \in Seq(Units)
        /\ disk'[c] \o Tail(x.todo) = data \o x.todo
    <3> DEFINE U == Units \cup {"hole"}
    <3>1. data \in Seq(U) /\ x.todo \in Seq(U)
      BY <2>2, <2>4 DEF Contents
    <3> HIDE DEF U
    <3>t. x.todo # << >>
      BY <1>1
    <3>2. /\ Append(data, Head(x.todo)) \o Tail(x.todo) = data \o x.todo
          /\ Append(data, Head(x.todo)) \in Seq(U)
      <4> HIDE DEF x, data
      <4> QED
        BY <3>1, <3>t, MoveHead
    <3>3. Tail(x.todo) \in Seq(Units)
      BY <1>1, <2>4
    <3>4. Len(Append(data, Head(x.todo))) = Len(data) + 1
      BY <3>1
    <3>5. QED
      BY <2>7, <3>2, <3>3, <3>4 DEF Contents, U
  <2> DEFINE y == xfer'[c]
  <2>9. /\ {"reply", "pos", "got", "todo"} \subseteq DOMAIN y
        /\ y.op = x.op /\ y.reply = x.reply /\ y.want = x.want /\ y.before = x.before
        /\ y.pos = x.pos + 1 /\ y.todo = Tail(x.todo)
    BY <1>2, <2>2 DEF UnderWay
  <2> HIDE DEF y
  <2>10. CASE x.op = "STOR"
    <3>1. Len(disk'[c]) = y.pos /\ y.pos \in Nat
      BY <2>4, <2>8, <2>9, <2>10
    <3>2. data \o x.todo = Resized(x.before, x.want) \o NewData
      BY <2>2, <2>10 DEF UnderWay
    <3>3. UnderWay(c)'
      BY <2>2, <2>8, <2>9, <2>10, <3>1, <3>2 DEF UnderWay, y
    <3>4. QED
      BY <2>7, <2>8, <3>3
  <2>11. CASE x.op = "APPE"
    <3>1. data \o x.todo = x.before \o NewData
      BY <2>2, <2>11 DEF UnderWay
    <3>2. y.pos \in Nat
      BY <2>4, <2>9
    <3>3. UnderWay(c)'
      BY <2>2, <2>8, <2>9, <2>11, <3>1, <3>2 DEF UnderWay, y
    <3>4. QED
      BY <2>7, <2>8, <3>3
  <2>12. QED
    BY <1>1, <2>10, <2>11
<1>4. ASSUME Good' PROVE xfer'[c].reply = "none"
  BY <1>3, <1>4 DEF UnderWay
<1>5. CASE Good'
  BY <1>1, <1>3, <1>4, <1>5, DataGoesOn
<1>6. CASE ~Good'
  BY <1>6 DEF TrueInv
<1>7. QED
  BY <1>5, <1>6

\* At the end of the upload the file holds all of it.
LEMMA StoresAllTrue ==
    ASSUME CInv, NEW c \in Clients, StoresAll(c), Step(c)
    PROVE  TrueInv'
<1> DEFINE x == xfer[c]
<1>1. /\ ntfs' = ntfs /\ disk' = disk /\ pc[c] = "data" /\ x.op \in {"STOR", "APPE"}
      /\ x.todo = << >> /\ Ends(c, "226")
  BY DEF StoresAll, InData, dataUnchanged, transferUnchanged
<1>2. ASSUME Good' PROVE Delivered(c)
  <2>1. disk[c] \in Contents /\ UnderWay(c)
    BY <1>1, <1>2 DEF CInv, TrueInv, TrueOk, Good, Without, Step
  <2>2. disk[c] \o x.todo = disk[c]
    BY <1>1, <2>1 DEF Contents
  <2>3. QED
    BY <1>1, <2>1, <2>2 DEF Delivered, UnderWay
<1>3. QED
  BY <1>1, <1>2, EndsTrue

\* A block of data, whichever it is, keeps the replies true.
LEMMA DataTrue ==
    ASSUME CInv, NEW c \in Clients, Data(c), Step(c)
    PROVE  TrueInv' /\ DOMAIN disk' = Clients
<1>1. CASE Breaks(c)
  BY <1>1, EndsTrue DEF Breaks, dataUnchanged, transferUnchanged, CInv, RestInv
<1>2. CASE Sends(c)
  BY <1>2, SendsTrue DEF Sends, CInv, RestInv
<1>3. CASE SendsAll(c)
  BY <1>3, SendsAllTrue DEF SendsAll, CInv, RestInv
<1>4. CASE Stores(c)
  BY <1>4, StoresTrue DEF Stores, CInv, RestInv
<1>5. CASE StoresAll(c)
  BY <1>5, StoresAllTrue DEF StoresAll, CInv, RestInv
<1>6. CASE SendLost(c) \/ StoreLost(c) \/ ReadFails(c)
  <2>1. disk' = disk /\ ("unseen" \in slips' \/ "unread" \in slips')
    BY <1>6 DEF SendLost, StoreLost, ReadFails
  <2>2. QED
    BY <2>1 DEF TrueInv, Good, Without, CInv, RestInv
<1>7. QED
  BY <1>1, <1>2, <1>3, <1>4, <1>5, <1>6 DEF Data

\* Every reachable state satisfies the invariant.
THEOREM CInvHolds == Spec => []CInv
<1>1. Init => CInv
  BY InitHandles, InitRest, InitTrue DEF CInv
<1>2. CInv /\ [Next]_vars => CInv'
  <2> SUFFICES ASSUME CInv, [Next]_vars PROVE CInv'
    OBVIOUS
  <2>1. CASE Next
    <3>1. PICK c \in Clients :
             \/ Login(c) \/ Kept(c)
             \/ \E op \in Transfers : Start(c, op) \/ StartFails(c, op)
             \/ Connect(c) \/ ConnectFails(c) \/ Data(c) \/ Close(c) \/ CloseStale(c)
      BY <2>1 DEF Next
    <3>2. Step(c) /\ HInv'
      BY <2>1, <3>1, HInvStep, LoginHandles, KeptHandles, StartHandles, ConnectHandles,
         ConnectFailsHandles, DataHandles, CloseHandles DEF CInv
    <3>3. CASE Login(c) \/ Kept(c)
      BY <3>2, <3>3, LoginRest, KeptRest, KeptTrue DEF CInv
    <3>4. CASE \E op \in Transfers : Start(c, op)
      BY <3>2, <3>4, StartRest, StartTrue DEF CInv
    <3>5. CASE \E op \in Transfers : StartFails(c, op)
      BY <3>2, <3>5, StartRest, QuietTrue DEF CInv
    <3>6. CASE Connect(c)
      BY <3>2, <3>6, ConnectRest, ConnectTrue DEF CInv
    <3>7. CASE ConnectFails(c) \/ Close(c) \/ CloseStale(c)
      BY <3>2, <3>7, LastRest, QuietTrue DEF CInv
    <3>8. CASE Data(c)
      BY <3>2, <3>8, DataTrue, DataRest DEF CInv
    <3>9. QED
      BY <3>1, <3>3, <3>4, <3>5, <3>6, <3>7, <3>8
  <2>2. CASE UNCHANGED vars
    <3>1. HInv'
      BY HInvStep DEF CInv
    <3>2. RestInv'
      BY <2>2 DEF vars, ownVars, CInv, RestInv, RestOk, HasSocket
    <3>3. TrueInv'
      BY <2>2 DEF vars, ownVars, CInv, TrueInv, TrueOk, Good, Without, AtStart, UnderWay, Delivered
    <3>4. QED
      BY <3>1, <3>2, <3>3 DEF CInv
  <2>3. QED
    BY <2>1, <2>2
<1>3. QED
  BY <1>1, <1>2, PTL DEF Spec

\* Where none of the known hazards is met, a reply of "226 Transfer complete" is the truth: for
\* any clients, files and uploads of any length.
THEOREM RepliesAreTrue == Spec => []Complete
<1>1. CInv => Complete
  BY DEF CInv, TrueInv, TrueOk, Good, Complete
<1>2. QED
  BY CInvHolds, <1>1, PTL

=============================================================================
