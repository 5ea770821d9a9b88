----------------------------- MODULE FanControl -----------------------------
(***************************************************************************)
(* The control of the fan: set_fan_mode of the program (controlfan.c) and  *)
(* the thread of the plugin sm.sprx (sm_monitor/main.c).                   *)
(*                                                                         *)
(* They share an area of kernel memory that either reads and writes by     *)
(* system calls, eight bytes at a time, with no lock; lv2poke32 changes    *)
(* four of the eight and writes the others back as it has read them.  The  *)
(* words that matter are the speed and the switch beside it.               *)
(*                                                                         *)
(* A temperature is the number of thresholds temp_control it reaches.      *)
(* LEDs, messages and the front end's screens are left out, and so is      *)
(* sm.self, a program that is not in this repository.                      *)
(***************************************************************************)
EXTENDS Integers

CONSTANTS
    MaxBand,     \* thresholds
    MaxCalls,    \* calls of set_fan_mode
    MaxChanges,  \* changes of the temperatures
    MaxErrors    \* failures of system calls

ASSUME BoundsAssumption ==
    MaxBand \in Nat \ {0, 1} /\ {MaxCalls, MaxChanges, MaxErrors} \subseteq Nat

PAYLOAD == 0
SYSCON == 1
USER_VALUES == 2
DISABLED == 3
Modes == {PAYLOAD, SYSCON, USER_VALUES, DISABLED}

Chips == {"cpu", "rsx"}
Bands == 0 .. MaxBand

\* Speeds: those of the plugin's table from 1, what set_fan_mode writes to begin with, and
\* what the plugin sets cspeed to now and then.
StartSpeed == 0
NoSpeed == -1
UserSpeed == MaxBand + 3

VARIABLES
    lowest,       \* whether the user has chosen the start speed, 0x33, for a cold console
    front, mode,  \* set_fan_mode: where it is, and the last mode it was asked to set
    calls,
    plugin,       \* the thread of the plugin: where it is
    area,         \* the shared memory: speed and enable
    temp_enable, cspeed, speed_up, step,
    measured,     \* cpu_temp and rsx_temp
    peeked,       \* enable as lv2poke32 has read it
    temp,         \* the temperatures
    fan,          \* the fan's policy (1 automatic, 2 manual) and speed
    changes, errors,
    overrides,    \* times the plugin has set the fan since set_fan_mode did
    slips         \* "lost" when a switch of the program has been undone

frontVars  == <<front, mode, calls>>
pluginVars == <<temp_enable, cspeed, speed_up, step, measured, peeked>>
envVars    == <<temp, changes>>
vars == <<lowest, frontVars, plugin, area, pluginVars, envVars, fan, errors, overrides, slips>>

\* The area of the payload that the program puts into the kernel before it starts the plugin.
AreaPoked == [speed |-> StartSpeed, enable |-> 2]

Init ==
    /\ lowest \in BOOLEAN
    /\ front = "idle" /\ mode = DISABLED /\ calls = 0
    /\ plugin = "none"
    /\ area = AreaPoked
    /\ temp_enable = TRUE /\ cspeed = StartSpeed /\ speed_up = FALSE /\ step = "cpu"
    /\ measured = [c \in Chips |-> 0] /\ peeked = 0
    /\ temp = [c \in Chips |-> 0] /\ changes = 0
    /\ fan = [policy |-> 1, speed |-> StartSpeed]
    /\ errors = 0 /\ overrides = 0 /\ slips = {}

(***************************************************************************)
(* set_fan_mode.                                                           *)
(***************************************************************************)
frontUnchanged == UNCHANGED <<lowest, pluginVars, envVars, slips>>

\* The user saves a choice, or the program reads it at its start.  "Disabled" leaves the fan
\* as it is.  A choice takes longer than the few system calls of a lv2poke32.
SetFanMode(m) ==
    /\ front = "idle" /\ calls < MaxCalls
    /\ plugin \notin {"peek", "poke"}
    /\ calls' = calls + 1
    /\ IF m = DISABLED THEN UNCHANGED <<front, mode>>
       ELSE front' = (IF plugin = "none" THEN "load" ELSE "disable") /\ mode' = m
    /\ UNCHANGED <<plugin, area, fan, errors, overrides>> /\ frontUnchanged

\* load_ps3_controlfan_payload: the area is there, and the plugin begins if it can be loaded.
Load(loaded) ==
    /\ front = "load" /\ front' = "disable"
    /\ IF loaded THEN plugin' = "adjust" /\ UNCHANGED errors
       ELSE plugin' = "failed" /\ errors < MaxErrors /\ errors' = errors + 1
    /\ UNCHANGED <<mode, calls, area, fan, overrides>> /\ frontUnchanged

Disable ==
    /\ front = "disable"
    /\ front' = IF mode = PAYLOAD THEN "restart" ELSE "policy"
    /\ area' = [area EXCEPT !.enable = 0]
    /\ UNCHANGED <<mode, calls, plugin, fan, errors, overrides>> /\ frontUnchanged

\* 100 ms later.  The plugin is not asked whether it has stopped (sm.self is).
Policy ==
    /\ front = "policy" /\ front' = "idle"
    /\ fan' = IF mode = SYSCON THEN [fan EXCEPT !.policy = 1]
              ELSE [policy |-> 2, speed |-> UserSpeed]
    /\ overrides' = 0
    /\ UNCHANGED <<mode, calls, plugin, area, errors>> /\ frontUnchanged

\* Mutation of Restarted: the speed in the area is left as the plugin has set it.
RestartedNot == area.speed
Restarted == StartSpeed
Restart ==
    /\ front = "restart" /\ front' = "enable"
    /\ area' = [speed |-> Restarted, enable |-> 0]
    /\ UNCHANGED <<mode, calls, plugin, fan, errors, overrides>> /\ frontUnchanged
\* The tables are written, and then the switch is set to WITH_LEDS.
Enable ==
    /\ front = "enable" /\ front' = "idle"
    /\ area' = [area EXCEPT !.enable = 2]
    /\ UNCHANGED <<mode, calls, plugin, fan, errors, overrides>> /\ frontUnchanged

(***************************************************************************)
(* fan_manager, which sm_thread calls every 400 ms: of five calls one      *)
(* copies the area, and the next one adjusts the fan.  The first call of   *)
(* all adjusts it by the values the plugin begins with.                    *)
(***************************************************************************)
pluginUnchanged == UNCHANGED <<lowest, frontVars, envVars>>

\* Mutation of Copied: the switch is not copied.
CopiedNot == temp_enable
Copied == area.enable # 0
Copy ==
    /\ plugin = "copy" /\ plugin' = "adjust"
    /\ cspeed' = area.speed
    /\ temp_enable' = Copied
    /\ UNCHANGED <<area, speed_up, step, measured, peeked, fan, errors, overrides, slips>>
    /\ pluginUnchanged

\* The table: its first entry may be the start speed, and the band between the first two
\* thresholds has two speeds, one for a console that warms up and one for one that cools.
SpeedTable(n) == IF n = 0 /\ lowest THEN StartSpeed ELSE n + 1
Hottest(m) == IF m["rsx"] > m["cpu"] THEN m["rsx"] ELSE m["cpu"]
SpeedUp(band) == band >= 2 \/ (band = 1 /\ speed_up)
Speed(band) == SpeedTable(CASE band = 0 -> 0
                            [] band = 1 -> IF speed_up THEN 2 ELSE 1
                            [] OTHER -> band + 1)

\* A call that measures one chip; a failed measure counts as 0 degrees.
Measure(ok) ==
    /\ plugin = "adjust" /\ temp_enable
    /\ measured' = [measured EXCEPT ![step] = IF ok THEN temp[step] ELSE 0]
    /\ step' = IF step = "cpu" THEN "rsx" ELSE "cpu"
    /\ speed_up' = SpeedUp(Hottest(measured'))
    /\ UNCHANGED <<area, temp_enable, peeked>> /\ pluginUnchanged

\* Every fifth time cspeed is forgotten, to make the plugin set the fan again (and the next
\* copy brings it back).
Forgotten(speed) == {speed, NoSpeed}

AdjustSame(ok) ==
    /\ Measure(ok)
    /\ Speed(Hottest(measured')) = cspeed
    /\ plugin' = "copy"
    /\ cspeed' \in Forgotten(cspeed)
    /\ ok \/ errors < MaxErrors
    /\ errors' = IF ok THEN errors ELSE errors + 1
    /\ UNCHANGED <<fan, overrides, slips>>
AdjustSets(ok) ==
    /\ Measure(ok)
    /\ Speed(Hottest(measured')) # cspeed
    /\ plugin' = "peek"
    /\ cspeed' = Speed(Hottest(measured'))
    /\ fan' = [policy |-> 2, speed |-> cspeed']
    /\ overrides' = IF front = "idle" /\ mode # PAYLOAD THEN overrides + 1 ELSE overrides
    /\ ok \/ errors < MaxErrors
    /\ errors' = IF ok THEN errors ELSE errors + 1
    /\ UNCHANGED slips
AdjustFails ==
    /\ Measure(TRUE)
    /\ Speed(Hottest(measured')) # cspeed
    /\ errors < MaxErrors /\ errors' = errors + 1
    /\ plugin' = "copy"
    /\ cspeed' \in Forgotten(cspeed)
    /\ UNCHANGED <<fan, overrides, slips>>
AdjustOff ==
    /\ plugin = "adjust" /\ ~temp_enable
    /\ plugin' = "copy"
    /\ UNCHANGED <<area, pluginVars, fan, errors, overrides, slips>>
    /\ pluginUnchanged

\* lv2poke32 of the new speed, with the switch beside it.
Peek ==
    /\ plugin = "peek" /\ plugin' = "poke"
    /\ peeked' = area.enable
    /\ UNCHANGED <<area, temp_enable, cspeed, speed_up, step, measured, fan, errors, overrides,
                   slips>>
    /\ pluginUnchanged
Poke ==
    /\ plugin = "poke" /\ plugin' = "copy"
    /\ area' = [speed |-> cspeed, enable |-> peeked]
    /\ slips' = IF area.enable = peeked THEN slips ELSE slips \cup {"lost"}
    /\ cspeed' \in Forgotten(cspeed)
    /\ UNCHANGED <<temp_enable, speed_up, step, measured, peeked, fan, errors, overrides>>
    /\ pluginUnchanged

\* The console warms up or cools down.
Change(c) ==
    /\ changes < MaxChanges /\ changes' = changes + 1
    /\ \E b \in Bands \ {temp[c]} : temp' = [temp EXCEPT ![c] = b]
    /\ UNCHANGED <<lowest, frontVars, plugin, area, pluginVars, fan, errors, overrides, slips>>

Front  == Load(TRUE) \/ Disable \/ Policy \/ Restart \/ Enable
Plugin == Copy \/ AdjustSame(TRUE) \/ AdjustSets(TRUE) \/ AdjustOff \/ Peek \/ Poke
Next == \/ Front \/ Plugin
        \/ \E m \in Modes : SetFanMode(m)
        \/ Load(FALSE) \/ AdjustSame(FALSE) \/ AdjustSets(FALSE) \/ AdjustFails
        \/ \E c \in Chips : Change(c)

Spec == Init /\ [][Next]_vars
\* Fairness: the program and the plugin run.
FairSpec == Spec /\ WF_vars(Front) /\ WF_vars(Plugin)

(***************************************************************************)
(* Properties.                                                             *)
(***************************************************************************)
TypeOK ==
    /\ lowest \in BOOLEAN /\ mode \in Modes /\ calls \in 0 .. MaxCalls
    /\ front \in {"idle", "load", "disable", "policy", "restart", "enable"}
    /\ plugin \in {"none", "failed", "copy", "adjust", "peek", "poke"}
    /\ area \in [speed : StartSpeed .. MaxBand + 2, enable : {0, 2}]
    /\ temp_enable \in BOOLEAN /\ speed_up \in BOOLEAN /\ step \in Chips
    /\ cspeed \in NoSpeed .. MaxBand + 2 /\ peeked \in {0, 2}
    /\ measured \in [Chips -> Bands] /\ temp \in [Chips -> Bands]
    /\ fan \in [policy : {1, 2}, speed : StartSpeed .. UserSpeed]
    /\ changes \in 0 .. MaxChanges /\ errors \in 0 .. MaxErrors
    /\ overrides \in Nat /\ slips \subseteq {"lost"}

\* When the user has taken the fan from the plugin (SYSCON, or a speed of his own), the plugin
\* sets it at most once more, by a switch it has copied before; unless the switch was lost.
TakenBack == front = "idle" /\ mode \in {SYSCON, USER_VALUES} /\ slips = {} => overrides <= 1

\* When the user has given the fan to the plugin, the fan comes to the speed of the hotter
\* chip, and the mode to manual, whatever modes, failures and temperatures came before; unless
\* the switch was lost, or the speed for a cold console is the start speed.
Right(band) == IF band = 1 THEN {SpeedTable(1), SpeedTable(2)}
               ELSE {SpeedTable(IF band = 0 THEN 0 ELSE band + 1)}
Controlled ==
    <>[](front = "idle" /\ mode = PAYLOAD /\ plugin # "failed" /\ slips = {} /\ ~lowest =>
            fan.policy = 2 /\ fan.speed \in Right(Hottest(temp)))

=============================================================================
