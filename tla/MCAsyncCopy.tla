---------------------------- MODULE MCAsyncCopy ----------------------------
(***************************************************************************)
(* Instances of AsyncCopy for TLC.                                         *)
(* A source can have 3 fragments (99 in the code): one task reaches that   *)
(* limit and one stays below it.                                           *)
(***************************************************************************)
EXTENDS AsyncCopy

plain(k)  == [kind |-> "plain", parts |-> <<k>>]
joined(p) == [kind |-> "joined", parts |-> p]
split(p)  == [kind |-> "split", parts |-> p]
copy(f)   == [op |-> "copy", files |-> f]
move(f)   == [op |-> "move", files |-> f]

\* Two sessions, so that the second one finds the slot as the first left it.
TwoSessions == {<<copy(<<plain(2), plain(0), plain(1)>>), move(<<plain(1), plain(2)>>)>>}
PartTasks   == {<<copy(<<split(<<2, 1>>), plain(1)>>)>>,
                <<copy(<<joined(<<1, 2>>), plain(1)>>)>>,
                <<move(<<joined(<<1, 1, 1>>), plain(2)>>)>>}
AllTasks    == TwoSessions \cup PartTasks
OneSession  == PartTasks \cup {<<move(<<plain(2), plain(0), plain(3)>>)>>}

AllFaults   == FaultKinds
\* Failures that the copy thread itself sees.
SeenFaults  == {"openr", "openw", "mem", "read", "unlink"}
============================================================================
