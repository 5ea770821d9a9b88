--------------------------- MODULE FtpQueueProofs ---------------------------
(***************************************************************************)
(* The counters of FtpQueue balance for any number of clients, commands    *)
(* and blocks.  Balanced is inductive together with the type of the        *)
(* variables and with which queue a thread may be in at which place.       *)
(***************************************************************************)
EXTENDS FtpQueue, FiniteSetTheorems, TLAPS

\* Between commands and between blocks a thread is in the queue of commands, in a block in
\* the other.
InQueue == \A t \in Clients : /\ pc[t] \in {"recv", "run", "xfer", "done"} => queue[t] = "c"
                              /\ pc[t] = "block" => queue[t] = "d"

IInv == TypeOK /\ InQueue /\ Balanced

Commanders == {t \in Clients : HasCommand(t)}
Senders    == {t \in Clients : HasData(t)}

\* Both sets are finite, and a thread that joins or leaves one changes its size by one.
LEMMA Sizes ==
    ASSUME NEW S \in SUBSET Clients, NEW t \in Clients
    PROVE  /\ Cardinality(S) \in Nat
           /\ t \notin S => Cardinality(S \cup {t}) = Cardinality(S) + 1
           /\ t \in S => Cardinality(S \ {t}) = Cardinality(S) - 1
<1>1. IsFiniteSet(S)
  BY ClientsAssumption, FS_Subset
<1>2. QED
  BY <1>1, FS_CardinalityType, FS_AddElement, FS_RemoveElement

\* Nobody has a ticket at the start.
LEMMA InitInv == Init => IInv
<1> SUFFICES ASSUME Init PROVE IInv
  OBVIOUS
<1>1. TypeOK /\ InQueue
  BY BoundsAssumption DEF Init, TypeOK, InQueue
<1>2. Commanders = {} /\ Senders = {}
  BY DEF Init, Commanders, Senders, HasCommand, HasData
<1>3. Balanced
  BY <1>2, FS_EmptySet DEF Init, Balanced, Commanders, Senders
<1>4. QED
  BY <1>1, <1>3 DEF IInv

\* What Balanced says, by the names of the sets.
LEMMA BalancedSets ==
    Balanced <=> (slips = {} => cqueue = Cardinality(Commanders) /\ dqueue = Cardinality(Senders))
  BY DEF Balanced, Commanders, Senders

\* The balance after a step, in terms of the sets of ticket holders.
LEMMA BalancedSetsNext ==
    Balanced' <=> (slips' = {} => /\ cqueue' = Cardinality(Commanders')
                                  /\ dqueue' = Cardinality(Senders'))
  BY DEF Balanced, Commanders, Senders

\* One thread moves: of the two sets only its own place may change.
Moves(t) == /\ \A u \in Clients \ {t} : pc'[u] = pc[u] /\ queue'[u] = queue[u]
            /\ slips' = {} => slips = {}

\* A step that leaves a thread's tickets alone leaves the two sets alone.
LEMMA SameHolders ==
    ASSUME NEW t \in Clients, Moves(t),
           HasCommand(t)' <=> HasCommand(t), HasData(t)' <=> HasData(t)
    PROVE  Commanders' = Commanders /\ Senders' = Senders
  BY DEF Moves, Commanders, Senders, HasCommand, HasData

\* An action that changes no counter and no set of holders keeps the balance.
LEMMA KeepsBalance ==
    ASSUME NEW t \in Clients, Moves(t), Balanced, UNCHANGED queueVars,
           HasCommand(t)' <=> HasCommand(t), HasData(t)' <=> HasData(t)
    PROVE  Balanced'
  BY SameHolders, BalancedSets, BalancedSetsNext DEF queueVars, Moves

\* Where a ticket is kept nothing is claimed.
LEMMA KeptIsNamed ==
    ASSUME slips' = slips \cup Kept
    PROVE  Balanced'
  BY DEF Kept, Balanced

\* A thread that takes up a command draws no ticket yet.
LEMMA ReceiveInv ==
    ASSUME IInv, NEW t \in Clients, Receive(t)
    PROVE  IInv'
<1>1. TypeOK' /\ InQueue' /\ Moves(t)
  BY BoundsAssumption DEF IInv, TypeOK, InQueue, Receive, goClient, queueVars, Moves
<1>2. Balanced'
  <2>1. (HasCommand(t)' <=> HasCommand(t)) /\ (HasData(t)' <=> HasData(t))
    BY DEF IInv, TypeOK, InQueue, Receive, goClient, HasCommand, HasData
  <2>2. QED
    BY <1>1, <2>1, KeepsBalance DEF IInv, Receive
<1>3. QED
  BY <1>1, <1>2 DEF IInv

\* A thread that leaves has none.
LEMMA LeaveInv ==
    ASSUME IInv, NEW t \in Clients, Leave(t)
    PROVE  IInv'
<1>1. TypeOK' /\ InQueue' /\ Moves(t)
  BY DEF IInv, TypeOK, InQueue, Leave, goClient, Count, queueVars, Moves
<1>2. Balanced'
  <2>1. (HasCommand(t)' <=> HasCommand(t)) /\ (HasData(t)' <=> HasData(t))
    BY DEF IInv, TypeOK, InQueue, Leave, goClient, HasCommand, HasData
  <2>2. QED
    BY <1>1, <2>1, KeepsBalance DEF IInv, Leave
<1>3. QED
  BY <1>1, <1>2 DEF IInv

\* The load of a counter is the first half of an increment.
LEMMA LoadInv ==
    ASSUME IInv, NEW t \in Clients, Load(t)
    PROVE  IInv'
<1>1. TypeOK' /\ InQueue' /\ Moves(t)
  BY DEF IInv, TypeOK, InQueue, Load, goClient, Count, queueVars, Moves
<1>2. Balanced'
  <2>1. (HasCommand(t)' <=> HasCommand(t)) /\ (HasData(t)' <=> HasData(t))
    BY DEF IInv, TypeOK, InQueue, Load, goClient, HasCommand, HasData
  <2>2. QED
    BY <1>1, <2>1, KeepsBalance DEF IInv, Load
<1>3. QED
  BY <1>1, <1>2 DEF IInv

\* A thread that waits keeps its ticket.
LEMMA WaitInv ==
    ASSUME IInv, NEW t \in Clients, Wait(t)
    PROVE  IInv'
<1>1. TypeOK' /\ InQueue' /\ Moves(t)
  BY DEF IInv, TypeOK, InQueue, Wait, goClient, Count, queueVars, Moves
<1>2. Balanced'
  <2>1. (HasCommand(t)' <=> HasCommand(t)) /\ (HasData(t)' <=> HasData(t))
    BY DEF IInv, TypeOK, InQueue, Wait, goClient, HasCommand, HasData
  <2>2. QED
    BY <1>1, <2>1, KeepsBalance DEF IInv, Wait
<1>3. QED
  BY <1>1, <1>2 DEF IInv

\* A command that is over keeps its ticket until the decrement.
LEMMA CommandInv ==
    ASSUME IInv, NEW t \in Clients, Command(t)
    PROVE  IInv'
<1>1. TypeOK' /\ InQueue' /\ Moves(t)
  BY DEF IInv, TypeOK, InQueue, Command, goClient, Count, queueVars, Moves
<1>2. Balanced'
  <2>1. (HasCommand(t)' <=> HasCommand(t)) /\ (HasData(t)' <=> HasData(t))
    BY DEF IInv, TypeOK, InQueue, Command, goClient, HasCommand, HasData
  <2>2. QED
    BY <1>1, <2>1, KeepsBalance DEF IInv, Command
<1>3. QED
  BY <1>1, <1>2 DEF IInv

\* A block keeps the ticket of its command, and is to draw one of its own.
LEMMA NextBlockInv ==
    ASSUME IInv, NEW t \in Clients, NextBlock(t)
    PROVE  IInv'
<1>1. TypeOK' /\ InQueue' /\ Moves(t)
  BY BoundsAssumption DEF IInv, TypeOK, InQueue, NextBlock, goClient, Count, queueVars, Moves
<1>2. Balanced'
  <2>1. (HasCommand(t)' <=> HasCommand(t)) /\ (HasData(t)' <=> HasData(t))
    BY DEF IInv, TypeOK, InQueue, NextBlock, goClient, HasCommand, HasData
  <2>2. QED
    BY <1>1, <2>1, KeepsBalance DEF IInv, NextBlock
<1>3. QED
  BY <1>1, <1>2 DEF IInv

\* A block that is over keeps its ticket until the decrement.
LEMMA BlockInv ==
    ASSUME IInv, NEW t \in Clients, Block(t)
    PROVE  IInv'
<1>1. TypeOK' /\ InQueue' /\ Moves(t)
  BY DEF IInv, TypeOK, InQueue, Block, goClient, Count, queueVars, Moves
<1>2. Balanced'
  <2>1. (HasCommand(t)' <=> HasCommand(t)) /\ (HasData(t)' <=> HasData(t))
    BY DEF IInv, TypeOK, InQueue, Block, goClient, HasCommand, HasData
  <2>2. QED
    BY <1>1, <2>1, KeepsBalance DEF IInv, Block
<1>3. QED
  BY <1>1, <1>2 DEF IInv

\* The load before a decrement.
LEMMA GiveLoadInv ==
    ASSUME IInv, NEW t \in Clients, GiveLoad(t)
    PROVE  IInv'
<1>1. TypeOK' /\ InQueue' /\ Moves(t)
  BY DEF IInv, TypeOK, InQueue, GiveLoad, goClient, Count, queueVars, Moves
<1>2. Balanced'
  <2>1. (HasCommand(t)' <=> HasCommand(t)) /\ (HasData(t)' <=> HasData(t))
    BY DEF IInv, TypeOK, InQueue, GiveLoad, goClient, HasCommand, HasData
  <2>2. QED
    BY <1>1, <2>1, KeepsBalance DEF IInv, GiveLoad
<1>3. QED
  BY <1>1, <1>2 DEF IInv

\* A command left by continue keeps its ticket, which slips then says.
LEMMA ContinueInv ==
    ASSUME IInv, NEW t \in Clients, Continue(t)
    PROVE  IInv'
<1>1. TypeOK' /\ InQueue'
  BY DEF IInv, TypeOK, InQueue, Continue, goClient, Kept, queueVars
<1>2. QED
  BY <1>1, KeptIsNamed DEF IInv, Continue

\* QUIT leaves with its ticket, which slips then says.
LEMMA QuitInv ==
    ASSUME IInv, NEW t \in Clients, Quit(t)
    PROVE  IInv'
<1>1. TypeOK' /\ InQueue'
  BY DEF IInv, TypeOK, InQueue, Quit, goClient, Kept, queueVars
<1>2. QED
  BY <1>1, KeptIsNamed DEF IInv, Quit

\* So does a listing that is broken off.
LEMMA BreakListInv ==
    ASSUME IInv, NEW t \in Clients, BreakList(t)
    PROVE  IInv'
<1>1. TypeOK' /\ InQueue'
  BY DEF IInv, TypeOK, InQueue, BreakList, goClient, Kept, queueVars
<1>2. QED
  BY <1>1, KeptIsNamed DEF IInv, BreakList

\* A ticket is taken: the count that was read is still the counter, and the thread joins.
LEMMA TakeInv ==
    ASSUME IInv, NEW t \in Clients, Take(t)
    PROVE  IInv'
<1>1. TypeOK' /\ InQueue' /\ Moves(t)
  BY DEF IInv, TypeOK, InQueue, Take, goClient, SetCount, Lost, Moves
<1>2. ASSUME slips' = {}
      PROVE  cqueue' = Cardinality(Commanders') /\ dqueue' = Cardinality(Senders')
  <2>1. slips = {} /\ Count(queue[t]) = itemp[t]
    BY <1>2 DEF Take, Lost
  <2>2. cqueue = Cardinality(Commanders) /\ dqueue = Cardinality(Senders)
    BY <2>1, BalancedSets DEF IInv
  <2>3. Commanders \in SUBSET Clients /\ Senders \in SUBSET Clients
    BY DEF Commanders, Senders
  <2>4. CASE queue[t] = "c"
    <3>1. Commanders' = Commanders \cup {t} /\ t \notin Commanders /\ Senders' = Senders
      BY <2>4, <1>1 DEF IInv, TypeOK, Take, goClient, Moves, Commanders, Senders,
                        HasCommand, HasData
    <3>2. cqueue' = cqueue + 1 /\ dqueue' = dqueue
      BY <2>1, <2>4 DEF Take, SetCount, Count
    <3>3. QED
      BY <2>2, <2>3, <3>1, <3>2, Sizes
  <2>5. CASE queue[t] = "d"
    <3>1. Commanders' = Commanders /\ Senders' = Senders \cup {t} /\ t \notin Senders
      BY <2>5, <1>1 DEF IInv, TypeOK, Take, goClient, Moves, Commanders, Senders,
                        HasCommand, HasData
    <3>2. cqueue' = cqueue /\ dqueue' = dqueue + 1
      BY <2>1, <2>5 DEF Take, SetCount, Count
    <3>3. QED
      BY <2>2, <2>3, <3>1, <3>2, Sizes
  <2>6. QED
    BY <2>4, <2>5 DEF IInv, TypeOK
<1>3. QED
  BY <1>1, <1>2, BalancedSetsNext DEF IInv

\* A ticket is returned: the thread that leaves was counted.
LEMMA GiveStoreInv ==
    ASSUME IInv, NEW t \in Clients, GiveStore(t)
    PROVE  IInv'
<1>1. TypeOK' /\ InQueue' /\ Moves(t)
  BY DEF IInv, TypeOK, InQueue, GiveStore, goClient, SetCount, Returned, Lost, Moves
<1>2. ASSUME slips' = {}
      PROVE  cqueue' = Cardinality(Commanders') /\ dqueue' = Cardinality(Senders')
  <2>1. slips = {} /\ Count(queue[t]) = itemp[t]
    BY <1>2 DEF GiveStore, Lost
  <2>2. cqueue = Cardinality(Commanders) /\ dqueue = Cardinality(Senders)
    BY <2>1, BalancedSets DEF IInv
  <2>3. Commanders \in SUBSET Clients /\ Senders \in SUBSET Clients
    BY DEF Commanders, Senders
  <2>4. CASE queue[t] = "c"
    <3>1. Commanders' = Commanders \ {t} /\ t \in Commanders /\ Senders' = Senders
      BY <2>4, <1>1 DEF IInv, TypeOK, GiveStore, goClient, Moves, Commanders, Senders,
                        HasCommand, HasData
    <3>2. cqueue' = cqueue - 1 /\ dqueue' = dqueue
      BY <2>1, <2>4 DEF GiveStore, SetCount, Returned, Count
    <3>3. QED
      BY <2>2, <2>3, <3>1, <3>2, Sizes
  <2>5. CASE queue[t] = "d"
    <3>1. Commanders' = Commanders /\ Senders' = Senders \ {t} /\ t \in Senders
      BY <2>5, <1>1 DEF IInv, TypeOK, GiveStore, goClient, Moves, Commanders, Senders,
                        HasCommand, HasData
    <3>2. cqueue' = cqueue /\ dqueue' = dqueue - 1
      BY <2>1, <2>5 DEF GiveStore, SetCount, Returned, Count
    <3>3. QED
      BY <2>2, <2>3, <3>1, <3>2, Sizes
  <2>6. QED
    BY <2>4, <2>5 DEF IInv, TypeOK
<1>3. QED
  BY <1>1, <1>2, BalancedSetsNext DEF IInv

\* A step that changes nothing.
LEMMA StutterInv == IInv /\ UNCHANGED vars => IInv'
<1> SUFFICES ASSUME IInv, UNCHANGED vars PROVE IInv'
  OBVIOUS
<1>1. TypeOK' /\ InQueue'
  BY DEF IInv, TypeOK, InQueue, vars, queueVars
<1>2. Balanced'
  BY DEF IInv, Balanced, HasCommand, HasData, vars, queueVars
<1>3. QED
  BY <1>1, <1>2 DEF IInv

\* Every step keeps the invariant.
LEMMA NextInv == IInv /\ [Next]_vars => IInv'
<1> SUFFICES ASSUME IInv, [Next]_vars PROVE IInv'
  OBVIOUS
<1>1. CASE UNCHANGED vars
  BY <1>1, StutterInv
<1>2. ASSUME NEW t \in Clients, Step(t) PROVE IInv'
  BY <1>2, LoadInv, TakeInv, WaitInv, CommandInv, BlockInv, GiveLoadInv, GiveStoreInv DEF Step
<1>3. ASSUME NEW t \in Clients,
             Receive(t) \/ Leave(t) \/ Continue(t) \/ Quit(t) \/ NextBlock(t) \/ BreakList(t)
      PROVE IInv'
  BY <1>3, ReceiveInv, LeaveInv, ContinueInv, QuitInv, NextBlockInv, BreakListInv
<1>4. QED
  BY <1>1, <1>2, <1>3 DEF Next

\* For any number of client threads, commands and blocks, cqueue and dqueue are the numbers
\* of threads that hold a ticket (client.c), unless two threads change a counter at once or a
\* command keeps its ticket.
THEOREM QueuesBalanced == Spec => []Balanced
<1>1. IInv => Balanced
  BY DEF IInv
<1>2. QED
  BY <1>1, InitInv, NextInv, PTL DEF Spec

=============================================================================
