---------------------------- MODULE MCFanPayload ----------------------------
(***************************************************************************)
(* FanPayload for TLC: two processes, and the values of enable that        *)
(* set_fan_mode writes.                                                    *)
(***************************************************************************)
EXTENDS FanPayload

CONSTANTS p1, p2

MCProcs == {p1, p2}
MCSwitches == {0, 2}

=============================================================================
