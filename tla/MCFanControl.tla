---------------------------- MODULE MCFanControl ----------------------------
(***************************************************************************)
(* FanControl for TLC: cold, the band of the hysteresis, hot and hotter.   *)
(***************************************************************************)
EXTENDS FanControl

MCMaxBand == 3
MCMaxCalls == 3
MCMaxChanges == 2
MCMaxErrors == 1

=============================================================================
