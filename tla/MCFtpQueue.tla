----------------------------- MODULE MCFtpQueue -----------------------------
(***************************************************************************)
(* FtpQueue for TLC: three clients, so that one may wait while the others  *)
(* change the counter at once.                                             *)
(***************************************************************************)
EXTENDS FtpQueue

MCClients == 1 .. 3
MCMaxCommands == 3
MCMaxBlocks == 2

=============================================================================
