----------------------------- MODULE MCFastCopy -----------------------------
(***************************************************************************)
(* Instances of FastCopy for TLC.                                          *)
(* A buffer holds 2 units, a split fragment 4, and files are split from 8  *)
(* units on: the ratios of the code shrunk, keeping that a fragment is a   *)
(* whole number of buffers.                                                *)
(***************************************************************************)
EXTENDS FastCopy, SequencesExt

plain(n) == [kind |-> "plain", frags |-> <<n>>]
piece    == [kind |-> "piece", frags |-> <<1>>]
x666(f)  == [kind |-> "x666", frags |-> f]
part(f)  == [kind |-> "part", frags |-> f]

\* Small, empty and large files, enough of them to fill the queue twice.
SmallFiles == <<plain(1), plain(0), plain(1), plain(2), plain(5)>>
\* Files at the splitting threshold and past it.
SplitFiles == <<plain(8), plain(1)>>
SplitLonger == <<plain(9), plain(3)>>
\* Split sources, whose later fragments the walk also meets.
JoinFiles == <<x666(<<2, 2, 1>>), piece, piece, plain(1)>>
JoinParts == <<plain(1), part(<<3, 2>>), piece>>

SafetyJobs == {SmallFiles, SplitFiles, SplitLonger, JoinFiles, JoinParts}
LiveJobs   == {SmallFiles, SplitLonger}
JoinJobs   == {JoinFiles}
BothModes  == {0, 1}
NormalMode == {0}

AllFaults    == FaultKinds
\* No fault that loses a descriptor, none whose report the engine waits for in vain.
TameFaults   == FaultKinds \ {"openw", "read"}
NoFaults     == {}

\* Every split file of these jobs is one the engine joins.
ASSUME JobsJoined == JoinsAll

\* EndToEnd joins the fragments one after the other.
ASSUME EndToEndJoins ==
    \A ss \in BoundedSeq(BoundedSeq({1, 2}, 2), 3) : EndToEnd(ss) = FlattenSeq(ss)

\* With no fault the fragments of a split file end up joined
\* ("joining split files", fast_copy.h:173).
JoinCompletes == <>(pc = "done" /\ ~failed)
=============================================================================
