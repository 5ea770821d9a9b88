------------------------------ MODULE FtpQueue ------------------------------
(***************************************************************************)
(* The "experimental queue system" of src/source/ftp/client.c, of which    *)
(* its comment says that it is to try and prevent some io crashes.  The    *)
(* threads of the clients take a ticket of cqueue for each command, and    *)
(* one of dqueue for each block of a transfer and each entry of a listing. *)
(*                                                                         *)
(* A queue is a plain int that all threads change: taking a ticket is a    *)
(* read and a write, and so is returning it.  A thread waits while tickets *)
(* later than its own are out, so that the last to come is the first to    *)
(* go, and one that holds a ticket waits for all who come after it.        *)
(***************************************************************************)
EXTENDS Integers, FiniteSets

CONSTANTS
    Clients,      \* the client threads
    MaxCommands,  \* commands they receive, in all
    MaxBlocks     \* blocks and entries, in all

ASSUME ClientsAssumption == IsFiniteSet(Clients)
ASSUME BoundsAssumption == MaxCommands \in Nat /\ MaxBlocks \in Nat

VARIABLES
    waits,            \* whether the build keeps the loops that wait
    cqueue, dqueue,   \* the counters of tickets
    pc,               \* of each client: where it is
    queue,            \* the queue it is in, "c" or "d"
    itemp,            \* its ticket, and in a return the count it has read
    commands, blocks, \* so far
    slips             \* the known hazards that have been met: a ticket "kept", a count "lost"

queueVars == <<cqueue, dqueue>>
vars == <<waits, queueVars, pc, queue, itemp, commands, blocks, slips>>

\* Just after itemp = cqueue; cqueue++; the compiler may see that (cqueue - 1) > itemp is
\* false, since cqueue is not volatile: the waits are there or not.
Init ==
    /\ waits \in BOOLEAN
    /\ cqueue = 0 /\ dqueue = 0
    /\ pc = [t \in Clients |-> "recv"] /\ queue = [t \in Clients |-> "c"]
    /\ itemp = [t \in Clients |-> 0]
    /\ commands = 0 /\ blocks = 0
    /\ slips = {}

goClient(t, from, to) == pc[t] = from /\ pc' = [pc EXCEPT ![t] = to]

Count(q) == IF q = "c" THEN cqueue ELSE dqueue
SetCount(q, n) == /\ cqueue' = IF q = "c" THEN n ELSE cqueue
                  /\ dqueue' = IF q = "d" THEN n ELSE dqueue
\* The count has been changed by another thread between the read and the write.
Lost(t) == IF Count(queue[t]) = itemp[t] THEN {} ELSE {"lost"}
Kept == {"kept"}

Receive(t) ==
    /\ goClient(t, "recv", "load") /\ commands < MaxCommands
    /\ commands' = commands + 1
    /\ UNCHANGED <<waits, queueVars, queue, itemp, blocks, slips>>
\* The client hangs up, or the server stops.
Leave(t) ==
    /\ goClient(t, "recv", "done")
    /\ UNCHANGED <<waits, queueVars, queue, itemp, commands, blocks, slips>>

\* itemp = cqueue; cqueue++;
Load(t) ==
    /\ goClient(t, "load", "take")
    /\ itemp' = [itemp EXCEPT ![t] = Count(queue[t])]
    /\ UNCHANGED <<waits, queueVars, queue, commands, blocks, slips>>
Take(t) ==
    /\ goClient(t, "take", "wait")
    /\ SetCount(queue[t], itemp[t] + 1)
    /\ slips' = slips \cup Lost(t)
    /\ UNCHANGED <<waits, queue, itemp, commands, blocks>>

\* while((cqueue - 1) > itemp);
\* Mutation of Waits: the ticket after the last is waited for.
WaitsForNext(t) == Count(queue[t]) > itemp[t]
Waits(t) == Count(queue[t]) - 1 > itemp[t]
Wait(t) ==
    /\ goClient(t, "wait", IF queue[t] = "c" THEN "run" ELSE "block")
    /\ waits => ~Waits(t)
    /\ itemp' = [itemp EXCEPT ![t] = 0]
    /\ UNCHANGED <<waits, queueVars, queue, commands, blocks, slips>>

\* A command without blocks, or after its last, goes to its cqueue--.
Command(t) ==
    /\ goClient(t, "run", "gload") \/ goClient(t, "xfer", "gload")
    /\ UNCHANGED <<waits, queueVars, queue, itemp, commands, blocks, slips>>
\* An empty command, one out of sequence and one without a data connection are left by
\* continue, and QUIT by break: the ticket is kept.
Continue(t) ==
    /\ goClient(t, "run", "recv")
    /\ slips' = slips \cup Kept
    /\ UNCHANGED <<waits, queueVars, queue, itemp, commands, blocks>>
Quit(t) ==
    /\ goClient(t, "run", "done")
    /\ slips' = slips \cup Kept
    /\ UNCHANGED <<waits, queueVars, queue, itemp, commands, blocks>>

\* A block or an entry has been read: it has a ticket of its own.
NextBlock(t) ==
    /\ goClient(t, "run", "load") \/ goClient(t, "xfer", "load")
    /\ blocks < MaxBlocks
    /\ blocks' = blocks + 1
    /\ queue' = [queue EXCEPT ![t] = "d"]
    /\ UNCHANGED <<waits, queueVars, itemp, commands, slips>>
\* It is sent or written, or fails: every loop but those of MLSD and MLST returns the ticket
\* before its break.
Block(t) ==
    /\ goClient(t, "block", "gload")
    /\ UNCHANGED <<waits, queueVars, queue, itemp, commands, blocks, slips>>
BreakList(t) ==
    /\ goClient(t, "block", "gload")
    /\ queue' = [queue EXCEPT ![t] = "c"]
    /\ slips' = slips \cup Kept
    /\ UNCHANGED <<waits, queueVars, itemp, commands, blocks>>

\* dqueue--; and cqueue--; at the end of the loop.
GiveLoad(t) ==
    /\ goClient(t, "gload", "gstore")
    /\ itemp' = [itemp EXCEPT ![t] = Count(queue[t])]
    /\ UNCHANGED <<waits, queueVars, queue, commands, blocks, slips>>
\* Mutation of Returned: a block returns the ticket of its command as well.
ReturnedTwice(t) == IF queue[t] = "d" THEN itemp[t] - 2 ELSE itemp[t] - 1
Returned(t) == itemp[t] - 1
GiveStore(t) ==
    /\ goClient(t, "gstore", IF queue[t] = "c" THEN "recv" ELSE "xfer")
    /\ SetCount(queue[t], Returned(t))
    /\ slips' = slips \cup Lost(t)
    /\ itemp' = [itemp EXCEPT ![t] = 0]
    /\ queue' = [queue EXCEPT ![t] = "c"]
    /\ UNCHANGED <<waits, commands, blocks>>

Step(t) == Load(t) \/ Take(t) \/ Wait(t) \/ Command(t) \/ Block(t) \/ GiveLoad(t) \/ GiveStore(t)
Next == \E t \in Clients : \/ Step(t) \/ Receive(t) \/ Leave(t) \/ Continue(t) \/ Quit(t)
                           \/ NextBlock(t) \/ BreakList(t)

Spec == Init /\ [][Next]_vars

(***************************************************************************)
(* Fairness: each thread runs, and the blocks of a command come to an end. *)
(* Whether a client sends another command is its own choice.               *)
(***************************************************************************)
FairSpec == Spec /\ \A t \in Clients : WF_vars(Step(t))

(***************************************************************************)
(* Properties.  What is named in slips is the exception to each of them.   *)
(***************************************************************************)
TypeOK ==
    /\ waits \in BOOLEAN /\ cqueue \in Int /\ dqueue \in Int
    /\ pc \in [Clients -> {"recv", "load", "take", "wait", "run", "xfer", "block", "gload",
                           "gstore", "done"}]
    /\ queue \in [Clients -> {"c", "d"}] /\ itemp \in [Clients -> Int]
    /\ commands \in 0 .. MaxCommands /\ blocks \in 0 .. MaxBlocks
    /\ slips \subseteq {"kept", "lost"}

\* The threads that have a ticket of dqueue, and those that have one of cqueue: a thread in a
\* block has both.
HasData(t)    == queue[t] = "d" /\ pc[t] \in {"wait", "block", "gload", "gstore"}
HasCommand(t) == queue[t] = "d" \/ pc[t] \in {"wait", "run", "xfer", "gload", "gstore"}

\* Each counter is the number of threads that hold a ticket of its queue, as long as no
\* two threads have changed it at once and every command has returned what it took.
Balanced ==
    slips = {} => /\ cqueue = Cardinality({t \in Clients : HasCommand(t)})
                  /\ dqueue = Cardinality({t \in Clients : HasData(t)})

\* When the clients send no more commands, those they have sent are all carried out: a
\* thread that waits for the later ones is not left waiting, though it may hold a ticket of
\* the one queue while it waits in the other.
Answered ==
    \A t \in Clients : pc[t] \in {"load", "wait"} ~> pc[t] \in {"run", "block"} \/ slips # {}

=============================================================================
