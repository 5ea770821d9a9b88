---------------------------- MODULE MCFtpSession ----------------------------
(***************************************************************************)
(* FtpSession for TLC: two clients whose files have two units, of which an *)
(* upload replaces the second or more.                                     *)
(***************************************************************************)
EXTENDS FtpSession, TLC

CONSTANTS c1, c2

MCClients == {c1, c2}
Symmetry  == Permutations(MCClients)
MCUnits   == {"old1", "old2", "new"}
MCOldData == <<"old1", "old2">>
MCNewData == <<"new">>
MCFds     == 1 .. 2
MCNtfsFds == 3 .. 4
MCMaxCommands == 3

=============================================================================
