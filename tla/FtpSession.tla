----------------------------- MODULE FtpSession -----------------------------
(***************************************************************************)
(* What a client of the FTP server (client_thread of                       *)
(* src/source/ftp/client.c) keeps from one command to the next: the login, *)
(* the command it expects, the path of a rename, the position of a resumed *)
(* transfer, the two data sockets and the descriptor of its file.          *)
(*                                                                         *)
(* All but the descriptors are the client's own.  The kernel gives the     *)
(* number of a closed file to the next that is opened, of whatever client, *)
(* and fd is not initialized, so that after an open that failed it may     *)
(* still hold the number of an earlier command.                            *)
(*                                                                         *)
(* Each client works on one file of its own; data are sequences of units,  *)
(* and a block is one unit.                                                *)
(***************************************************************************)
EXTENDS Integers, Sequences

CONSTANTS
    Clients,
    Units,            \* what data are made of
    OldData, NewData, \* what a file holds at first, and what an upload sends
    Fds, NtfsFds,     \* the kernel's descriptors, and those of the NTFS library
    MaxCommands       \* commands after the logins, in all

None == 0             \* no descriptor
Paths == {"file", "dir"}

ASSUME DataAssumption == /\ OldData \in Seq(Units) \ {<< >>}
                         /\ NewData \in Seq(Units) \ {<< >>}
ASSUME FdsAssumption == /\ Fds \cup NtfsFds \subseteq Nat \ {None} /\ Fds \cap NtfsFds = {}
                        /\ MaxCommands \in Nat

VARIABLES
    pc,        \* of each client thread
    session,   \* its variables: expectcmd, authorized, rest, tmp_path, data_s, pasv_s, fd
    asked,     \* the restart position the client has asked for since its last PASV, PORT or
               \* transfer
    named,     \* the path it has named by RNFR and not yet renamed, or "none"
    xfer,      \* the last command, when it is a transfer or a rename
    sockets,   \* how many data sockets of the client are open
    files,     \* the open descriptors, and whose file each one is ("dir" for a directory)
    disk,      \* the file of each client
    ntfs,      \* whether it is on an NTFS drive
    commands,
    slips      \* the known hazards that have been met

ownVars == <<session, asked, named, sockets>>
vars == <<pc, ownVars, xfer, files, disk, ntfs, commands, slips>>

NoTransfer == [op |-> "none", reply |-> "none"]

\* expectcmd is not initialized: a new session may find anything in it.
Init ==
    /\ pc = [c \in Clients |-> "recv"]
    /\ \E junk \in [Clients -> {"", "junk"}] :
         session = [c \in Clients |->
            [expectcmd |-> junk[c], authorized |-> FALSE, rest |-> 0, tmp_path |-> "junk",
             data_s |-> FALSE, pasv_s |-> FALSE, fd |-> None]]
    /\ asked = [c \in Clients |-> 0]
    /\ named = [c \in Clients |-> "none"]
    /\ xfer = [c \in Clients |-> NoTransfer]
    /\ sockets = [c \in Clients |-> 0]
    /\ files = << >>
    /\ disk = [c \in Clients |-> OldData] /\ ntfs \in [Clients -> BOOLEAN]
    /\ commands = 0 /\ slips = {}

(***************************************************************************)
(* The begin of a command.                                                 *)
(***************************************************************************)
\* Mutation of Expected: any command is carried out.
ExpectedAny(c, cmd) == TRUE
Expected(c, cmd) == session[c].expectcmd \in {"", cmd}

Set(c, new) == session' = [session EXCEPT ![c] = new]
\* A command of a client that has logged in, and what it leaves in the session.
Command(c, cmd) ==
    /\ pc[c] = "recv" /\ session[c].authorized /\ Expected(c, cmd)
    /\ commands < MaxCommands /\ commands' = commands + 1
Done(c, new) ==
    /\ Set(c, [new EXCEPT !.expectcmd = ""])
    /\ xfer' = [xfer EXCEPT ![c] = NoTransfer]
    /\ UNCHANGED <<pc, files, disk, ntfs>>

\* Any other command than the one expected: "Bad command sequence".
Refused(c) ==
    /\ pc[c] = "recv" /\ session[c].expectcmd # ""
    /\ Set(c, [session[c] EXCEPT !.expectcmd = ""])
    /\ named' = [named EXCEPT ![c] = "none"]
    /\ UNCHANGED <<pc, asked, sockets, xfer, files, disk, ntfs, commands, slips>>

User(c) ==
    /\ pc[c] = "recv" /\ ~session[c].authorized /\ session[c].expectcmd = ""
    /\ Set(c, [session[c] EXCEPT !.expectcmd = "PASS"])
    /\ UNCHANGED <<pc, asked, named, sockets, xfer, files, disk, ntfs, commands, slips>>
Pass(c, right) ==
    /\ pc[c] = "recv" /\ ~session[c].authorized /\ Expected(c, "PASS")
    /\ Set(c, [session[c] EXCEPT !.expectcmd = "", !.authorized = right])
    /\ UNCHANGED <<pc, asked, named, sockets, xfer, files, disk, ntfs, commands, slips>>

(***************************************************************************)
(* Data sockets.                                                           *)
(***************************************************************************)
Num(b) == IF b THEN 1 ELSE 0
\* Mutation of BothOf: the passive socket is forgotten.
BothOfData(c) == Num(session[c].data_s)
BothOf(c) == Num(session[c].data_s) + Num(session[c].pasv_s)
Sockets(c, closed, new) == sockets' = [sockets EXCEPT ![c] = @ - closed + new]

\* Mutation of Begin: the position of the last transfer is kept.
BeginKept(c) == session[c].rest
Begin(c) == 0
Passive(c) ==
    /\ Command(c, "PASV")
    /\ Done(c, [session[c] EXCEPT !.data_s = FALSE, !.pasv_s = TRUE, !.rest = Begin(c)])
    /\ Sockets(c, BothOf(c), 1)
    /\ asked' = [asked EXCEPT ![c] = 0]
    /\ UNCHANGED <<named, slips>>
Port(c) ==
    /\ Command(c, "PORT")
    /\ Done(c, [session[c] EXCEPT !.data_s = TRUE, !.pasv_s = FALSE, !.rest = Begin(c)])
    /\ Sockets(c, BothOf(c), 1)
    /\ asked' = [asked EXCEPT ![c] = 0]
    /\ UNCHANGED <<named, slips>>
\* PASV and PORT that fail, and ABOR.
Abort(c) ==
    /\ Command(c, "ABOR")
    /\ Done(c, [session[c] EXCEPT !.data_s = FALSE, !.pasv_s = FALSE])
    /\ Sockets(c, BothOf(c), 0)
    /\ UNCHANGED <<asked, named, slips>>
\* QUIT, BYE, or a control connection that is lost.
Quit(c) ==
    /\ pc[c] = "recv" /\ pc' = [pc EXCEPT ![c] = "done"]
    /\ Set(c, [session[c] EXCEPT !.data_s = FALSE, !.pasv_s = FALSE])
    /\ Sockets(c, BothOf(c), 0)
    /\ xfer' = [xfer EXCEPT ![c] = NoTransfer]
    /\ UNCHANGED <<asked, named, files, disk, ntfs, commands, slips>>

(***************************************************************************)
(* Positions and paths.                                                    *)
(***************************************************************************)
Rest(c) ==
    /\ Command(c, "REST")
    /\ \E n \in 0 .. Len(OldData) - 1 :
         /\ Done(c, [session[c] EXCEPT !.rest = n])
         /\ asked' = [asked EXCEPT ![c] = n]
    /\ UNCHANGED <<named, sockets, slips>>

\* RNFR and RNTO use tmp_path, and so do MKD, RMD, the listings and PASTE.
Rnfr(c) ==
    /\ Command(c, "RNFR")
    /\ \E p \in Paths : /\ Set(c, [session[c] EXCEPT !.expectcmd = "RNTO", !.tmp_path = p])
                        /\ named' = [named EXCEPT ![c] = p]
    /\ xfer' = [xfer EXCEPT ![c] = NoTransfer]
    /\ UNCHANGED <<pc, asked, sockets, files, disk, ntfs, slips>>
RnfrFails(c) ==
    /\ Command(c, "RNFR")
    /\ Done(c, [session[c] EXCEPT !.tmp_path = ""])
    /\ named' = [named EXCEPT ![c] = "none"]
    /\ UNCHANGED <<asked, sockets, slips>>
Rnto(c) ==
    /\ Command(c, "RNTO") /\ Set(c, [session[c] EXCEPT !.expectcmd = ""])
    /\ xfer' = [xfer EXCEPT ![c] = [op |-> "RNTO", reply |-> "250",
                                    source |-> session[c].tmp_path, named |-> named[c]]]
    /\ named' = [named EXCEPT ![c] = "none"]
    /\ slips' = IF named[c] = "none" THEN slips \cup {"unnamed"} ELSE slips
    /\ UNCHANGED <<pc, asked, sockets, files, disk, ntfs>>
MakeDir(c) ==
    /\ Command(c, "MKD")
    /\ Done(c, [session[c] EXCEPT !.tmp_path = "dir"])
    /\ UNCHANGED <<asked, named, sockets, slips>>
\* Commands that keep nothing: CWD, DELE, SIZE, MDTM, CHMOD, TYPE and the like.
Other(c) ==
    /\ Command(c, "other")
    /\ Done(c, session[c])
    /\ UNCHANGED <<asked, named, sockets, slips>>

(***************************************************************************)
(* Transfers: RETR, STOR, APPE, and listings with a data connection.       *)
(***************************************************************************)
Transfers == {"RETR", "STOR", "APPE", "LIST"}
Transfer(c, op) == [op |-> op, reply |-> "none", before |-> disk[c], want |-> asked[c],
                    pos |-> 0, got |-> << >>,
                    todo |-> IF op \in {"STOR", "APPE"} THEN NewData ELSE << >>]
PathAfter(c, op) == IF op = "LIST" THEN "dir" ELSE session[c].tmp_path

Start(c, op) ==
    /\ Command(c, op) /\ pc' = [pc EXCEPT ![c] = "conn"]
    /\ \E d \in (IF ntfs[c] THEN NtfsFds ELSE Fds) \ DOMAIN files :
         /\ files' = [e \in DOMAIN files \cup {d} |->
                         IF e # d THEN files[e] ELSE IF op = "LIST" THEN "dir" ELSE c]
         /\ Set(c, [session[c] EXCEPT !.expectcmd = "", !.fd = d, !.tmp_path = PathAfter(c, op)])
    /\ xfer' = [xfer EXCEPT ![c] = Transfer(c, op)]
    /\ asked' = IF op = "LIST" THEN asked ELSE [asked EXCEPT ![c] = 0]
    \* O_TRUNC, though the upload may be resumed
    /\ IF ntfs[c] /\ op = "STOR"
       THEN /\ disk' = [disk EXCEPT ![c] = << >>]
            /\ slips' = IF session[c].rest # 0 THEN slips \cup {"truncated"} ELSE slips
       ELSE UNCHANGED <<disk, slips>>
    /\ UNCHANGED <<named, sockets, ntfs>>
StartFails(c, op) ==
    /\ Command(c, op) /\ pc' = [pc EXCEPT ![c] = "failed"]
    /\ \E d \in {None} \cup (IF ntfs[c] THEN {} ELSE {session[c].fd}) :
         Set(c, [session[c] EXCEPT !.expectcmd = "", !.fd = d, !.tmp_path = PathAfter(c, op)])
    /\ xfer' = [xfer EXCEPT ![c] = [NoTransfer EXCEPT !.reply = "error"]]
    /\ UNCHANGED <<asked, named, sockets, files, disk, ntfs, slips>>

\* The data connection, accepted, made to port 20 of the client, or there already.
transferUnchanged == UNCHANGED <<asked, named, ntfs, commands>>
Connection(c) ==
    \/ session[c].data_s /\ UNCHANGED <<session, sockets, slips>>
    \/ /\ ~session[c].data_s
       /\ Set(c, [session[c] EXCEPT !.data_s = TRUE, !.pasv_s = FALSE])
       /\ Sockets(c, Num(session[c].pasv_s), 1)
       \* Neither PASV nor PORT has set rest back.
       /\ slips' = IF ~session[c].pasv_s /\ session[c].rest # xfer[c].want
                   THEN slips \cup {"kept"} ELSE slips
Opened(c) == session[c].fd \in DOMAIN files /\ files[session[c].fd] \in Clients
File(c)   == files[session[c].fd]

Resized(data, n) == [i \in 1 .. n |-> IF i <= Len(data) THEN data[i] ELSE "hole"]
Connect(c) ==
    /\ pc[c] = "conn" /\ Connection(c)
    /\ IF xfer[c].op = "LIST"
       THEN /\ pc' = [pc EXCEPT ![c] = "close"]
            /\ xfer' = [xfer EXCEPT ![c].reply = "226"]
       ELSE /\ pc' = [pc EXCEPT ![c] = "data"]
            /\ xfer' = [xfer EXCEPT ![c].pos = session[c].rest]
    /\ disk' = IF xfer[c].op = "STOR" /\ ~ntfs[c] /\ Opened(c)
               THEN [disk EXCEPT ![File(c)] = Resized(@, session[c].rest)] ELSE disk
    /\ UNCHANGED files /\ transferUnchanged
\* "No data connection": the loop goes on, and the file stays open.
ConnectFails(c) ==
    /\ pc[c] = "conn" /\ ~session[c].data_s
    /\ pc' = [pc EXCEPT ![c] = "recv"]
    /\ Set(c, [session[c] EXCEPT !.pasv_s = FALSE])
    /\ Sockets(c, Num(session[c].pasv_s), 0)
    /\ xfer' = [xfer EXCEPT ![c] = [NoTransfer EXCEPT !.reply = "error"]]
    /\ slips' = slips \cup {"nodata"}
    /\ UNCHANGED <<files, disk>> /\ transferUnchanged

dataUnchanged == UNCHANGED <<session, sockets, files>> /\ transferUnchanged
Ends(c, reply) ==
    /\ pc' = [pc EXCEPT ![c] = "close"]
    /\ xfer' = [xfer EXCEPT ![c].reply = reply]
InData(c, ops) == pc[c] = "data" /\ xfer[c].op \in ops

\* No buffer, a short read, write or send, and on the console's own drives a failed write.
Breaks(c) ==
    /\ pc[c] = "data" /\ Ends(c, "error")
    /\ UNCHANGED <<disk, slips>> /\ dataUnchanged

Sends(c) ==
    /\ InData(c, {"RETR"}) /\ Opened(c) /\ xfer[c].pos < Len(disk[File(c)])
    /\ xfer' = [xfer EXCEPT ![c].pos = @ + 1,
                            ![c].got = Append(@, disk[File(c)][xfer[c].pos + 1])]
    /\ UNCHANGED <<pc, disk, slips>> /\ dataUnchanged
\* A send that fails returns -1, which as a u64 is not less than what was to be sent.
SendLost(c) ==
    /\ InData(c, {"RETR"}) /\ Opened(c) /\ xfer[c].pos < Len(disk[File(c)])
    /\ xfer' = [xfer EXCEPT ![c].pos = @ + 1]
    /\ slips' = slips \cup {"unseen"}
    /\ UNCHANGED <<pc, disk>> /\ dataUnchanged
SendsAll(c) ==
    /\ InData(c, {"RETR"}) /\ Opened(c) /\ xfer[c].pos >= Len(disk[File(c)])
    /\ Ends(c, "226")
    /\ UNCHANGED <<disk, slips>> /\ dataUnchanged
\* A read that fails ends the loop like the end of the file.
ReadFails(c) ==
    /\ InData(c, {"RETR"}) /\ ~ntfs[c]
    /\ Ends(c, "226")
    /\ slips' = slips \cup {"unread"}
    /\ UNCHANGED disk /\ dataUnchanged

Put(data, i, unit) == [Resized(data, IF i > Len(data) THEN i ELSE Len(data)) EXCEPT ![i] = unit]
Stores(c) ==
    /\ InData(c, {"STOR", "APPE"}) /\ Opened(c) /\ xfer[c].todo # << >>
    /\ LET data == disk[File(c)]
           at   == IF xfer[c].op = "APPE" THEN Len(data) ELSE xfer[c].pos
       IN disk' = [disk EXCEPT ![File(c)] = Put(data, at + 1, Head(xfer[c].todo))]
    /\ xfer' = [xfer EXCEPT ![c].pos = @ + 1, ![c].todo = Tail(@)]
    /\ UNCHANGED <<pc, slips>> /\ dataUnchanged
\* And so does a write that fails on an NTFS drive.
StoreLost(c) ==
    /\ InData(c, {"STOR", "APPE"}) /\ ntfs[c] /\ xfer[c].todo # << >>
    /\ xfer' = [xfer EXCEPT ![c].todo = Tail(@)]
    /\ slips' = slips \cup {"unseen"}
    /\ UNCHANGED <<pc, disk>> /\ dataUnchanged
StoresAll(c) ==
    /\ InData(c, {"STOR", "APPE"}) /\ xfer[c].todo = << >>
    /\ Ends(c, "226")
    /\ UNCHANGED <<disk, slips>> /\ dataUnchanged

\* The end of a transfer: the file and the data connection are closed.
Closed(c) == [d \in DOMAIN files \ {session[c].fd} |-> files[d]]
CloseAll(c, from) ==
    /\ pc[c] = from /\ pc' = [pc EXCEPT ![c] = "recv"]
    /\ files' = Closed(c)
    /\ Set(c, [session[c] EXCEPT !.data_s = FALSE])
    /\ Sockets(c, Num(session[c].data_s), 0)
    /\ UNCHANGED <<xfer, disk>> /\ transferUnchanged
Close(c) == CloseAll(c, "close") /\ UNCHANGED slips
\* After an open that failed: whatever fd holds.
CloseStale(c) ==
    /\ CloseAll(c, "failed")
    /\ slips' = IF session[c].fd \in DOMAIN files THEN slips \cup {"stale"} ELSE slips

Login(c) == User(c) \/ (\E right \in BOOLEAN : Pass(c, right))
Kept(c) == \/ Refused(c) \/ Passive(c) \/ Port(c) \/ Abort(c) \/ Quit(c) \/ Rest(c)
           \/ Rnfr(c) \/ RnfrFails(c) \/ Rnto(c) \/ MakeDir(c) \/ Other(c)
Data(c) == \/ Breaks(c) \/ Sends(c) \/ SendLost(c) \/ SendsAll(c) \/ ReadFails(c)
           \/ Stores(c) \/ StoreLost(c) \/ StoresAll(c)
Next == \E c \in Clients :
            \/ Login(c) \/ Kept(c)
            \/ \E op \in Transfers : Start(c, op) \/ StartFails(c, op)
            \/ Connect(c) \/ ConnectFails(c) \/ Data(c) \/ Close(c) \/ CloseStale(c)

Spec == Init /\ [][Next]_vars

(***************************************************************************)
(* Properties.  What is named in slips is the exception to each of them.   *)
(***************************************************************************)
Without(known) == slips \cap known = {}

\* A client has received its file from the position it has asked for, or its upload is in
\* the file at that position, at the end for APPE.
Delivered(c) ==
    LET x == xfer[c] IN
    /\ x.op = "RETR" => x.got = SubSeq(x.before, x.want + 1, Len(x.before))
    /\ x.op = "STOR" => disk[c] = Resized(x.before, x.want) \o NewData
    /\ x.op = "APPE" => disk[c] = x.before \o NewData

\* "226 Transfer complete" is the truth, whatever came before, and whatever other clients
\* open and close.
Complete ==
    Without({"kept", "truncated", "unseen", "unread", "stale"}) =>
        \A c \in Clients : xfer[c].reply = "226" => Delivered(c)

\* A rename renames what the client has named by the RNFR before it, although other commands
\* use the same variable.
RenamesNamed ==
    Without({"unnamed"}) => \A c \in Clients : xfer[c].op = "RNTO" => xfer[c].source = xfer[c].named

\* Every data socket that is open is in data_s or pasv_s, and none is left when the client
\* is gone.  Every descriptor that is open is that of a transfer under way, whose own it is.
InUse(c) == pc[c] \in {"conn", "data", "close"}
HandlesOwned ==
    /\ \A c \in Clients : sockets[c] = BothOf(c) /\ (pc[c] = "done" => sockets[c] = 0)
    /\ Without({"nodata", "stale"}) =>
         /\ DOMAIN files = {session[c].fd : c \in {c \in Clients : InUse(c)}}
         /\ \A c \in Clients : InUse(c) /\ xfer[c].op # "LIST" => files[session[c].fd] = c

=============================================================================
