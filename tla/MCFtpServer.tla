---------------------------- MODULE MCFtpServer ----------------------------
(***************************************************************************)
(* FtpServer for TLC: two clients.                                         *)
(***************************************************************************)
EXTENDS FtpServer

MCMaxConns == 2
MCMaxCommands == 2
MCMaxStarts == 2

=============================================================================
