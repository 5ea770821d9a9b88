------------------------------ MODULE FanProofs ------------------------------
(***************************************************************************)
(* The proofs about the fan: the plugin and its front end (FanControl),    *)
(* and the payload's hooks (FanPayload).                                   *)
(***************************************************************************)
EXTENDS FanControl, FanPayload, TLAPS

(***************************************************************************)
(* The user gets the fan back from the plugin (FanControl), for any number *)
(* of thresholds, calls, changes and failures.                             *)
(*                                                                         *)
(* TakenBack says nothing of why the plugin stops.  The invariant adds     *)
(* that the switch in the area stays off from Disable on, because a        *)
(* lv2poke32 that would set it again is a lost switch, and that a plugin   *)
(* that has set the fan since is on its way to a copy of that switch or    *)
(* has made it.                                                            *)
(***************************************************************************)

ByUser == mode \in {SYSCON, USER_VALUES}

Places ==
    /\ DOMAIN area = {"speed", "enable"} /\ overrides \in Nat
    /\ mode \in Modes
    /\ front = "restart" \/ front = "enable" => mode = PAYLOAD
    /\ front \in {"idle", "load", "disable", "policy", "restart", "enable"}

\* From Disable to the user's next choice the switch in the area is off.
SwitchOff ==
    slips = {} /\ ByUser /\ front \in {"policy", "idle"} => area.enable = 0

\* A plugin that has set the fan since the user took it back copies the switch before it
\* adjusts the fan again, or has copied it.
LastOverride ==
    slips = {} /\ ByUser /\ front = "idle" /\ overrides # 0
        => overrides = 1 /\ (temp_enable => plugin \in {"peek", "poke", "copy"})

IInv == Places /\ SwitchOff /\ LastOverride

\* The program starts within the invariant, with the fan not its own.
LEMMA InitInv == Init => IInv
  BY DEF Init, AreaPoked, IInv, Places, SwitchOff, LastOverride, ByUser, Modes,
         PAYLOAD, SYSCON, USER_VALUES, DISABLED

\* The steps of set_fan_mode: none of them is in "idle" before its last.
LEMMA FrontInv ==
    ASSUME IInv,
           \/ \E m \in Modes : SetFanMode(m)
           \/ Load(TRUE) \/ Load(FALSE) \/ Disable \/ Policy \/ Restart \/ Enable
    PROVE  IInv'
<1> USE DEF IInv, frontUnchanged, pluginVars, PAYLOAD, SYSCON, USER_VALUES, DISABLED, ByUser
<1>1. ASSUME NEW m \in Modes, SetFanMode(m) PROVE IInv'
  <2>1. CASE m = DISABLED
    BY <1>1, <2>1 DEF SetFanMode, Places, SwitchOff, LastOverride
  <2>2. CASE m # DISABLED
    BY <1>1, <2>2 DEF SetFanMode, Places, SwitchOff, LastOverride, Modes
  <2>3. QED
    BY <2>1, <2>2
<1>2. ASSUME NEW l \in BOOLEAN, Load(l) PROVE IInv'
  BY <1>2 DEF Load, Places, SwitchOff, LastOverride
<1>3. CASE Disable
  BY <1>3 DEF Disable, Places, SwitchOff, LastOverride, Modes
<1>4. CASE Policy
  BY <1>4 DEF Policy, Places, SwitchOff, LastOverride
<1>5. CASE Restart
  BY <1>5 DEF Restart, Places, SwitchOff, LastOverride, Restarted
<1>6. CASE Enable
  BY <1>6 DEF Enable, Places, SwitchOff, LastOverride
<1>7. QED
  BY <1>1, <1>2, <1>3, <1>4, <1>5, <1>6

\* The steps of the plugin that set no fan.
LEMMA QuietInv ==
    ASSUME IInv, UNCHANGED <<front, mode, calls, area, overrides, slips, temp_enable>>,
           plugin \in {"adjust", "peek"},
           plugin' = "copy" \/ plugin' = "poke"
    PROVE  IInv'
  BY DEF IInv, Places, SwitchOff, LastOverride, ByUser

\* The plugin sets the fan: since the user took it back it has not done so before.
LEMMA SetsInv ==
    ASSUME IInv, NEW ok \in BOOLEAN, AdjustSets(ok)
    PROVE  IInv'
<1>1. /\ plugin = "adjust" /\ temp_enable /\ plugin' = "peek"
      /\ UNCHANGED <<front, mode, area, temp_enable, slips>>
      /\ overrides' = IF front = "idle" /\ mode # PAYLOAD THEN overrides + 1 ELSE overrides
  BY DEF AdjustSets, Measure, pluginUnchanged, frontVars
<1>2. QED
  BY <1>1 DEF IInv, Places, SwitchOff, LastOverride, ByUser, PAYLOAD, SYSCON, USER_VALUES

\* The plugin copies the switch, and if it is off leaves the fan alone from then on.
LEMMA CopyInv == IInv /\ Copy => IInv'
  BY DEF Copy, Copied, IInv, Places, SwitchOff, LastOverride, ByUser, pluginUnchanged, frontVars

\* A poke that puts back a switch that is off no more loses it.
LEMMA PokeInv == IInv /\ Poke => IInv'
<1> SUFFICES ASSUME IInv, Poke PROVE IInv'
  OBVIOUS
<1>1. /\ plugin = "poke" /\ plugin' = "copy"
      /\ area' = [speed |-> cspeed, enable |-> peeked]
      /\ UNCHANGED <<front, mode, temp_enable, overrides>>
      /\ slips' = {} => slips = {} /\ area.enable = peeked
  BY DEF Poke, pluginUnchanged, frontVars
<1>2. QED
  BY <1>1 DEF IInv, Places, SwitchOff, LastOverride, ByUser

\* Every step of the program and of the plugin keeps the invariant.
LEMMA NextInv == IInv /\ [Next]_vars => IInv'
<1> SUFFICES ASSUME IInv, [Next]_vars PROVE IInv'
  OBVIOUS
<1>1. CASE Front \/ (\E m \in Modes : SetFanMode(m)) \/ Load(FALSE)
  BY <1>1, FrontInv DEF Front
<1>2. CASE Copy
  BY <1>2, CopyInv
<1>3. ASSUME NEW ok \in BOOLEAN, AdjustSame(ok) PROVE IInv'
  BY <1>3, QuietInv DEF AdjustSame, Measure, pluginUnchanged, frontVars
<1>4. ASSUME NEW ok \in BOOLEAN, AdjustSets(ok) PROVE IInv'
  BY <1>4, SetsInv
<1>5. CASE AdjustFails
  BY <1>5, QuietInv DEF AdjustFails, Measure, pluginUnchanged, frontVars
<1>6. CASE AdjustOff
  BY <1>6, QuietInv DEF AdjustOff, pluginUnchanged, frontVars, pluginVars
<1>7. CASE Peek
  BY <1>7, QuietInv DEF Peek, pluginUnchanged, frontVars
<1>8. CASE Poke
  BY <1>8, PokeInv
<1>9. CASE UNCHANGED vars \/ \E c \in Chips : Change(c)
  BY <1>9 DEF Change, vars, frontVars, pluginVars, IInv, Places, SwitchOff, LastOverride, ByUser
<1>10. QED
  BY <1>1, <1>2, <1>3, <1>4, <1>5, <1>6, <1>7, <1>8, <1>9 DEF Next, Plugin

\* For any number of thresholds, calls, changes and failures: when the user has taken the fan
\* from the plugin (set_fan_mode, controlfan.c), fan_manager sets it at most once more, unless
\* a lv2poke32 has undone the switch.
THEOREM UserTakesBack == Spec => []TakenBack
<1>1. IInv => TakenBack
  BY DEF IInv, Places, LastOverride, TakenBack, ByUser
<1>2. QED
  BY <1>1, InitInv, NextInv, PTL DEF Spec

FrontParts ==
    /\ lowest \in BOOLEAN /\ mode \in Modes /\ calls \in 0 .. MaxCalls
    /\ front \in {"idle", "load", "disable", "policy", "restart", "enable"}
AreaParts ==
    /\ area \in [speed : StartSpeed .. MaxBand + 2, enable : {0, 2}]
    /\ fan \in [policy : {1, 2}, speed : StartSpeed .. UserSpeed]
PluginParts ==
    /\ plugin \in {"none", "failed", "copy", "adjust", "peek", "poke"}
    /\ temp_enable \in BOOLEAN /\ speed_up \in BOOLEAN /\ step \in Chips
    /\ cspeed \in NoSpeed .. MaxBand + 2 /\ peeked \in {0, 2}
    /\ measured \in [Chips -> Bands]
CountParts ==
    /\ temp \in [Chips -> Bands]
    /\ changes \in 0 .. MaxChanges /\ errors \in 0 .. MaxErrors
    /\ overrides \in Nat /\ slips \subseteq {"lost"}

\* A speed that is about to be poked is not the one the plugin forgets by.
Poking == plugin \in {"peek", "poke"} => cspeed # NoSpeed

\* The types, part by part.
LEMMA FanParts == TypeOK <=> FrontParts /\ AreaParts /\ PluginParts /\ CountParts
  BY DEF TypeOK, FrontParts, AreaParts, PluginParts, CountParts

\* The types of the front end's steps.
LEMMA FrontTypes ==
    ASSUME TypeOK,
           \/ \E m \in Modes : SetFanMode(m)
           \/ Load(TRUE) \/ Load(FALSE) \/ Disable \/ Policy \/ Restart \/ Enable
    PROVE  TypeOK'
<1>1. FrontParts /\ AreaParts /\ PluginParts /\ CountParts
  BY FanParts
<1>2. UNCHANGED <<lowest, pluginVars, temp, changes, slips>>
  BY DEF SetFanMode, Load, Disable, Policy, Restart, Enable, frontUnchanged, envVars
<1>3. FrontParts'
  <2>1. calls' \in 0 .. MaxCalls
    BY <1>1, BoundsAssumption
       DEF SetFanMode, Load, Disable, Policy, Restart, Enable, FrontParts
  <2>2. mode' \in Modes
    BY <1>1 DEF SetFanMode, Load, Disable, Policy, Restart, Enable, FrontParts
  <2>3. front' \in {"idle", "load", "disable", "policy", "restart", "enable"}
    BY <1>1 DEF SetFanMode, Load, Disable, Policy, Restart, Enable, FrontParts
  <2>4. QED
    BY <1>1, <1>2, <2>1, <2>2, <2>3 DEF FrontParts
<1>4. AreaParts'
  <2>1. area' \in [speed : StartSpeed .. MaxBand + 2, enable : {0, 2}]
    BY <1>1, BoundsAssumption
       DEF SetFanMode, Load, Disable, Policy, Restart, Restarted, Enable, AreaParts, StartSpeed
  <2>2. fan' \in [policy : {1, 2}, speed : StartSpeed .. UserSpeed]
    BY <1>1, BoundsAssumption
       DEF SetFanMode, Load, Disable, Policy, Restart, Enable, AreaParts, StartSpeed, UserSpeed
  <2>3. QED
    BY <2>1, <2>2 DEF AreaParts
<1>5. PluginParts'
  <2>1. plugin' \in {plugin, "adjust", "failed"}
    BY DEF SetFanMode, Load, Disable, Policy, Restart, Enable
  <2>2. QED
    BY <1>1, <1>2, <2>1 DEF PluginParts, pluginVars
<1>6. CountParts'
  <2>1. errors' \in 0 .. MaxErrors /\ overrides' \in Nat
    BY <1>1, BoundsAssumption DEF SetFanMode, Load, Disable, Policy, Restart, Enable, CountParts
  <2>2. QED
    BY <1>1, <1>2, <2>1 DEF CountParts
<1>7. QED
  BY <1>3, <1>4, <1>5, <1>6, FanParts, PTL

\* A measure leaves a temperature, and the plugin sets a speed of its table.
LEMMA MeasureTypes ==
    ASSUME TypeOK, NEW ok \in BOOLEAN, Measure(ok)
    PROVE  /\ measured' \in [Chips -> Bands] /\ step' \in Chips /\ speed_up' \in BOOLEAN
           /\ Speed(Hottest(measured')) \in StartSpeed .. MaxBand + 2
           /\ UNCHANGED <<area, temp_enable, peeked, lowest, front, mode, calls, temp, changes>>
<1>1. measured' \in [Chips -> Bands]
  BY BoundsAssumption DEF Measure, TypeOK, Bands
<1>2. PICK band \in Bands : band = Hottest(measured')
  BY <1>1 DEF Hottest, Chips
<1>3. speed_up' \in BOOLEAN
  BY <1>2 DEF Measure, SpeedUp, TypeOK
<1>4. Speed(band) \in StartSpeed .. MaxBand + 2
  BY <1>2, BoundsAssumption DEF Speed, SpeedTable, Bands, StartSpeed
<1>5. step' \in Chips
  BY DEF Measure, Chips
<1>6. UNCHANGED <<area, temp_enable, peeked, lowest, front, mode, calls, temp, changes>>
  BY DEF Measure, pluginUnchanged, frontVars, envVars
<1>7. Speed(Hottest(measured')) \in StartSpeed .. MaxBand + 2
  BY <1>2, <1>4
<1>8. QED
  BY <1>1, <1>3, <1>5, <1>6, <1>7

\* The types of a step of the plugin that measures.
LEMMA AdjustTypes ==
    ASSUME TypeOK, NEW ok \in BOOLEAN, Measure(ok),
           plugin' \in {"copy", "peek"}, cspeed' \in NoSpeed .. MaxBand + 2,
           fan' \in [policy : {1, 2}, speed : StartSpeed .. UserSpeed],
           errors' = errors \/ (errors < MaxErrors /\ errors' = errors + 1),
           overrides' \in Nat, slips' = slips
    PROVE  TypeOK'
<1>1. FrontParts /\ AreaParts /\ PluginParts /\ CountParts
  BY FanParts
<1>2. /\ measured' \in [Chips -> Bands] /\ step' \in Chips /\ speed_up' \in BOOLEAN
      /\ UNCHANGED <<area, temp_enable, peeked, lowest, front, mode, calls, temp, changes>>
  BY MeasureTypes
<1>3. FrontParts' /\ AreaParts'
  BY <1>1, <1>2 DEF FrontParts, AreaParts
<1>4. PluginParts'
  BY <1>1, <1>2 DEF PluginParts
<1>5. CountParts'
  <2>1. errors' \in 0 .. MaxErrors
    BY <1>1, BoundsAssumption DEF CountParts
  <2>2. QED
    BY <1>1, <1>2, <2>1 DEF CountParts
<1>6. QED
  BY <1>3, <1>4, <1>5, FanParts, PTL

\* The types of the plugin's steps.
LEMMA PluginTypes ==
    ASSUME TypeOK, Poking,
           \/ Plugin \/ AdjustSame(FALSE) \/ AdjustSets(FALSE) \/ AdjustFails
           \/ \E c \in Chips : Change(c)
    PROVE  TypeOK'
<1>1. /\ FrontParts /\ AreaParts /\ PluginParts /\ CountParts
      /\ cspeed \in NoSpeed .. MaxBand + 2 /\ NoSpeed \in NoSpeed .. MaxBand + 2
      /\ fan \in [policy : {1, 2}, speed : StartSpeed .. UserSpeed] /\ overrides \in Nat
  BY FanParts, BoundsAssumption DEF PluginParts, AreaParts, CountParts, NoSpeed
<1>2. ASSUME Copy \/ AdjustOff \/ Peek \/ Poke PROVE TypeOK'
  <2>1. FrontParts'
    BY <1>1, <1>2 DEF Copy, AdjustOff, Peek, Poke, pluginUnchanged, frontVars, FrontParts
  <2>2. AreaParts'
    <3>1. CASE Poke
      <4>1. PICK s \in StartSpeed .. MaxBand + 2, e \in {0, 2} : area' = [speed |-> s, enable |-> e]
        BY <1>1, <3>1, BoundsAssumption DEF Poke, Poking, PluginParts, StartSpeed, NoSpeed
      <4>2. QED
        BY <1>1, <3>1, <4>1 DEF Poke, AreaParts
    <3>2. QED
      BY <1>1, <1>2, <3>1 DEF Copy, AdjustOff, Peek, AreaParts
  <2>3. PluginParts'
    <3>1. cspeed' \in NoSpeed .. MaxBand + 2
      BY <1>1, <1>2, BoundsAssumption
         DEF Copy, AdjustOff, Peek, Poke, Forgotten, AreaParts, pluginVars, StartSpeed, NoSpeed
    <3>2. temp_enable' \in BOOLEAN
      BY <1>1, <1>2 DEF Copy, Copied, AdjustOff, Peek, Poke, PluginParts, pluginVars
    <3>3. UNCHANGED <<speed_up, step, measured>> /\ plugin' \in {"copy", "adjust", "poke"}
      BY <1>2 DEF Copy, AdjustOff, Peek, Poke, pluginVars
    <3>4. peeked' \in {0, 2}
      BY <1>1, <1>2 DEF Copy, AdjustOff, Peek, Poke, PluginParts, AreaParts, pluginVars
    <3>5. QED
      BY <1>1, <3>1, <3>2, <3>3, <3>4 DEF PluginParts
  <2>4. CountParts'
    BY <1>1, <1>2 DEF Copy, AdjustOff, Peek, Poke, pluginUnchanged, envVars, CountParts
  <2>5. QED
    BY <2>1, <2>2, <2>3, <2>4, FanParts, PTL
<1>3. ASSUME NEW ok \in BOOLEAN, AdjustSame(ok) PROVE TypeOK'
  BY <1>1, <1>3, AdjustTypes DEF AdjustSame, Forgotten
<1>4. ASSUME NEW ok \in BOOLEAN, AdjustSets(ok) PROVE TypeOK'
  <2>1. PICK s \in StartSpeed .. MaxBand + 2 : s = Speed(Hottest(measured'))
    BY <1>4, MeasureTypes DEF AdjustSets
  <2>2. /\ cspeed' \in NoSpeed .. MaxBand + 2
        /\ fan' \in [policy : {1, 2}, speed : StartSpeed .. UserSpeed]
    BY <1>4, <2>1, BoundsAssumption DEF AdjustSets, StartSpeed, NoSpeed, UserSpeed
  <2>3. overrides' \in Nat
    BY <1>1, <1>4 DEF AdjustSets
  <2>4. QED
    BY <1>4, <2>2, <2>3, AdjustTypes DEF AdjustSets
<1>5. CASE AdjustFails
  BY <1>1, <1>5, AdjustTypes DEF AdjustFails, Forgotten
<1>6. ASSUME NEW c \in Chips, Change(c) PROVE TypeOK'
  <2>1. FrontParts' /\ AreaParts' /\ PluginParts'
    BY <1>1, <1>6 DEF Change, frontVars, pluginVars, FrontParts, AreaParts, PluginParts
  <2>2. CountParts'
    BY <1>1, <1>6, BoundsAssumption DEF Change, CountParts
  <2>3. QED
    BY <2>1, <2>2, FanParts, PTL
<1>7. QED
  BY <1>2, <1>3, <1>4, <1>5, <1>6 DEF Plugin

\* Only AdjustSets leads to a poke, and it has just set cspeed from the table.
LEMMA PokingNext == TypeOK /\ Poking /\ [Next]_vars => Poking'
<1> SUFFICES ASSUME TypeOK, Poking, [Next]_vars PROVE Poking'
  OBVIOUS
<1>1. CASE Front \/ (\E m \in Modes : SetFanMode(m)) \/ Load(FALSE)
  BY <1>1 DEF Front, SetFanMode, Load, Disable, Policy, Restart, Enable, frontUnchanged, pluginVars,
              Poking
<1>2. ASSUME NEW ok \in BOOLEAN, AdjustSets(ok) PROVE Poking'
  <2>1. cspeed' \in StartSpeed .. MaxBand + 2
    BY <1>2, MeasureTypes DEF AdjustSets
  <2>2. QED
    BY <2>1, BoundsAssumption DEF Poking, StartSpeed, NoSpeed
<1>3. CASE \/ Copy \/ AdjustSame(TRUE) \/ AdjustSame(FALSE) \/ AdjustFails \/ AdjustOff \/ Poke
  BY <1>3 DEF Copy, AdjustSame, AdjustFails, AdjustOff, Poke, Poking
<1>4. CASE Peek
  BY <1>4 DEF Peek, Poking
<1>5. CASE UNCHANGED vars \/ \E c \in Chips : Change(c)
  BY <1>5 DEF vars, Change, frontVars, pluginVars, Poking
<1>6. QED
  BY <1>1, <1>2, <1>3, <1>4, <1>5 DEF Next, Plugin

\* The types of the program, the plugin and the memory they share: a speed in the area or at
\* the fan is one of the table, the start speed or the user's.
THEOREM FanTypes == Spec => []TypeOK
<1>1. Init => TypeOK
  <2> SUFFICES ASSUME Init PROVE TypeOK
    OBVIOUS
  <2>1. FrontParts
    BY BoundsAssumption DEF Init, FrontParts, Modes, DISABLED
  <2>2. AreaParts
    BY BoundsAssumption DEF Init, AreaPoked, AreaParts, StartSpeed, UserSpeed
  <2>3. PluginParts
    <3>1. measured \in [Chips -> Bands] /\ cspeed \in NoSpeed .. MaxBand + 2
      BY BoundsAssumption DEF Init, Bands, StartSpeed, NoSpeed
    <3>2. QED
      BY <3>1 DEF Init, PluginParts, Chips
  <2>4. CountParts
    BY BoundsAssumption DEF Init, CountParts, Bands
  <2>5. QED
    BY <2>1, <2>2, <2>3, <2>4, FanParts
<1>2. TypeOK /\ Poking /\ [Next]_vars => TypeOK'
  <2> SUFFICES ASSUME TypeOK, Poking, [Next]_vars PROVE TypeOK'
    OBVIOUS
  <2>1. CASE UNCHANGED vars
    BY <2>1 DEF vars, frontVars, pluginVars, envVars, TypeOK
  <2>2. QED
    BY <2>1, FrontTypes, PluginTypes DEF Next, Front
<1>3. Init => Poking
  BY DEF Init, Poking
<1>4. QED
  BY <1>1, <1>2, <1>3, PokingNext, PTL DEF Spec

(***************************************************************************)
(* The payload's hooks (FanPayload) measure in memory of their own         *)
(* process, for any number of processes.                                   *)
(*                                                                         *)
(* MemoryOwned is about a sender that has loaded pid_app2 and mem_app.     *)
(* The invariant adds what in_use is for, that one hook at most is between *)
(* its test and its release, and what the receivers keep of the two        *)
(* variables: whoever finds a process in mem_app finds the same in         *)
(* pid_app2, except between the two stores that clear them.                *)
(***************************************************************************)

InRecv(p) == rpc[p] \in {"clear", "clear2", "pid", "mem", "step", "release"}
InSend(p) == spc[p] \in {"pid", "work", "measure", "release"}

\* One hook at most is inside, and in_use says so.
Apart ==
    \A p, q \in Procs :
        /\ InRecv(p) \/ InSend(p) => in_use = 1
        /\ (InRecv(p) /\ InRecv(q)) \/ (InSend(p) /\ InSend(q)) => p = q
        /\ ~(InRecv(p) /\ InSend(q))

\* What a receiver has stored, store by store.
Stored ==
    /\ mem_app \in {NoProc, pid_app2} \/ \E p \in Procs : rpc[p] = "clear2"
    /\ \A p \in Procs : /\ rpc[p] \in {"pid", "mem"} => mem_app = NoProc
                        /\ rpc[p] = "mem" => pid_app2 = p

\* What a sender has loaded.
Loaded ==
    \A p \in Procs : /\ spc[p] \in {"work", "measure"} => smem[p] \in {NoProc, spid[p]}
                     /\ spc[p] = "measure" => spid[p] = p /\ smem[p] # NoProc

HookIInv == HookTypeOK /\ (races = {} => Apart /\ Stored /\ Loaded)

\* The hooks start with nobody inside.
LEMMA HookInitInv == HookInit => HookIInv
  BY DEF HookInit, HookIInv, HookTypeOK, Apart, Stored, Loaded, InRecv, InSend

(***************************************************************************)
(* What the steps have in common.  Each is taken while races is empty.     *)
(***************************************************************************)
\* A step after which no more hooks are inside than before, and in_use is the same.
LEMMA StaysApart ==
    ASSUME Apart, in_use' = in_use,
           \A p \in Procs : (InRecv(p)' => InRecv(p)) /\ (InSend(p)' => InSend(p))
    PROVE  Apart'
  BY DEF Apart

\* A hook that has passed the test enters, and if in_use is 0 it is alone.
LEMMA Enters ==
    ASSUME HookTypeOK, Apart, races' = races \cup Race, races' = {}, in_use' = 1, NEW p \in Procs,
           \A q \in Procs \ {p} : (InRecv(q)' <=> InRecv(q)) /\ (InSend(q)' <=> InSend(q)),
           ~InRecv(p)' \/ ~InSend(p)'
    PROVE  Apart'
<1>1. in_use # 1
  BY DEF Race
<1>2. \A q \in Procs : ~InRecv(q) /\ ~InSend(q)
  BY <1>1 DEF Apart
<1>3. QED
  BY <1>2 DEF Apart

\* The hook that is inside leaves, and no other is.
LEMMA Leaves ==
    ASSUME Apart, NEW p \in Procs, InRecv(p) \/ InSend(p), ~InRecv(p)', ~InSend(p)',
           \A q \in Procs \ {p} : (InRecv(q)' => InRecv(q)) /\ (InSend(q)' => InSend(q))
    PROVE  Apart'
<1>1. \A q \in Procs : ~InRecv(q)' /\ ~InSend(q)'
  BY DEF Apart
<1>2. QED
  BY <1>1 DEF Apart

\* The senders' frames do not matter to a receiver, and the other way round.
LEMMA SameLoaded == ASSUME Loaded, UNCHANGED sendVars PROVE Loaded'
  BY DEF Loaded, sendVars

\* What is stored depends on the two variables and on the places of the receivers.
LEMMA SameStored == ASSUME Stored, UNCHANGED <<rpc, pid_app2, mem_app>> PROVE Stored'
  BY DEF Stored

(***************************************************************************)
(* The receivers.                                                          *)
(***************************************************************************)
LEMMA RecvTypes ==
    ASSUME HookTypeOK, NEW p \in Procs, Receive(p) \/ Recv(p)
    PROVE  HookTypeOK'
<1> USE DEF HookTypeOK, goRecv, dropRecv, recvUnchanged, sendVars, appVars, recvVars
<1>1. CASE Receive(p)
  BY <1>1 DEF Receive
<1>2. CASE RecvSet(p)
  BY <1>2 DEF RecvSet, Race
<1>3. CASE RecvClear(p)
  BY <1>3 DEF RecvClear
<1>4. CASE RecvClear2(p)
  BY <1>4 DEF RecvClear2
<1>5. CASE RecvPid(p)
  BY <1>5 DEF RecvPid
<1>6. CASE RecvMem(p)
  BY <1>6 DEF RecvMem
<1>7. CASE RecvStep(p)
  BY <1>7 DEF RecvStep, Leaves255
<1>8. CASE RecvRelease(p)
  BY <1>8 DEF RecvRelease
<1>9. QED
  BY <1>1, <1>2, <1>3, <1>4, <1>5, <1>6, <1>7, <1>8 DEF Recv

\* A store of a receiver, or its entry, keeps the invariant.
LEMMA RecvInv ==
    ASSUME HookIInv, races = {}, NEW p \in Procs, Receive(p) \/ Recv(p)
    PROVE  HookIInv'
<1>1. HookTypeOK /\ Apart /\ Stored /\ Loaded /\ HookTypeOK'
  BY RecvTypes DEF HookIInv
<1>2. Loaded' /\ (\A q \in Procs : InSend(q)' <=> InSend(q))
  <2>1. UNCHANGED sendVars
    BY DEF Receive, Recv, RecvSet, RecvClear, RecvClear2, RecvPid, RecvMem, RecvStep,
           RecvRelease, recvUnchanged
  <2>2. QED
    BY <1>1, <2>1, SameLoaded DEF InSend, sendVars
<1> SUFFICES ASSUME races' = {} PROVE Apart' /\ Stored'
  BY <1>1, <1>2 DEF HookIInv
<1> USE DEF goRecv, appVars, recvVars
<1>3. CASE Receive(p)
  <2>1. /\ UNCHANGED <<in_use, pid_app2, mem_app>>
        /\ rpc' = rpc \/ (rpc[p] = "out" /\ rpc' = [rpc EXCEPT ![p] = "set"])
    BY <1>3 DEF Receive
  <2>2. Stored'
    BY <1>1, <2>1 DEF HookTypeOK, Stored
  <2>3. Apart'
    BY <1>1, <1>2, <2>1, StaysApart DEF HookTypeOK, InRecv
  <2>4. QED
    BY <2>2, <2>3
<1>4. CASE RecvSet(p)
  <2>1. /\ rpc[p] = "set" /\ rpc' = [rpc EXCEPT ![p] = "clear"]
        /\ UNCHANGED <<pid_app2, mem_app>>
    BY <1>4 DEF RecvSet
  <2>2. Stored'
    BY <1>1, <2>1 DEF HookTypeOK, Stored
  <2>3. ~InSend(p)'
    BY <1>1, <1>2, <1>4 DEF RecvSet, Race, HookTypeOK, Apart
  <2>4. \A q \in Procs \ {p} : InRecv(q)' <=> InRecv(q)
    BY <1>1, <2>1 DEF HookTypeOK, InRecv
  <2>5. QED
    BY <1>1, <1>2, <1>4, <2>2, <2>3, <2>4, Enters DEF RecvSet
<1>5. CASE RecvClear(p) \/ RecvClear2(p) \/ RecvPid(p) \/ RecvMem(p) \/ RecvStep(p)
  <2>1. /\ in_use' = in_use /\ InRecv(p)
        /\ \E to \in {"clear2", "pid", "mem", "step", "release"} : rpc' = [rpc EXCEPT ![p] = to]
    BY <1>5 DEF RecvClear, RecvClear2, RecvPid, RecvMem, RecvStep, InRecv
  <2>2. Apart'
    BY <1>1, <1>2, <2>1, StaysApart DEF HookTypeOK, InRecv
  <2>3. \A q \in Procs \ {p} : rpc[q] \notin {"clear2", "pid", "mem"}
    BY <1>1, <2>1 DEF Apart, InRecv
  <2>4. \A q \in Procs \ {p} : rpc'[q] \notin {"clear2", "pid", "mem"}
    BY <1>1, <2>1, <2>3 DEF HookTypeOK
  <2>5. CASE RecvClear(p)
    <3>1. rpc'[p] = "clear2" /\ mem_app' = mem_app
      BY <1>1, <2>5 DEF RecvClear, HookTypeOK
    <3>2. QED
      BY <2>2, <3>1, <2>4 DEF Stored
  <2>6. CASE RecvClear2(p)
    <3>1. rpc'[p] \in {"release", "pid"} /\ mem_app' = NoProc
      BY <1>1, <2>6 DEF RecvClear2, HookTypeOK
    <3>2. QED
      BY <2>2, <3>1, <2>4 DEF Stored
  <2>7. CASE RecvPid(p)
    <3>1. /\ rpc[p] = "pid" /\ mem_app' = mem_app
          /\ rpc'[p] = "step" \/ (rpc'[p] = "mem" /\ pid_app2' = p)
      BY <1>1, <2>7 DEF RecvPid, HookTypeOK
    <3>2. mem_app' = NoProc
      BY <1>1, <3>1 DEF Stored
    <3>3. QED
      BY <2>2, <3>1, <3>2, <2>4 DEF Stored
  <2>8. CASE RecvMem(p)
    <3>1. rpc[p] = "mem" /\ rpc'[p] = "step" /\ mem_app' = p /\ pid_app2' = pid_app2
      BY <1>1, <2>8 DEF RecvMem, HookTypeOK
    <3>2. mem_app' = pid_app2'
      BY <1>1, <3>1 DEF Stored
    <3>3. QED
      BY <2>2, <3>1, <3>2, <2>4 DEF Stored
  <2>9. CASE RecvStep(p)
    <3>1. /\ rpc[p] = "step" /\ rpc'[p] = "release"
          /\ mem_app' = mem_app /\ pid_app2' = pid_app2
      BY <1>1, <2>9 DEF RecvStep, HookTypeOK
    <3>2. mem_app \in {NoProc, pid_app2}
      BY <1>1, <2>3, <3>1 DEF Stored
    <3>3. QED
      BY <2>2, <3>1, <3>2, <2>4 DEF Stored
  <2>10. QED
    BY <1>5, <2>2, <2>5, <2>6, <2>7, <2>8, <2>9
<1>6. CASE RecvRelease(p)
  <2>1. /\ rpc[p] = "release" /\ rpc' = [rpc EXCEPT ![p] = "out"]
        /\ UNCHANGED <<pid_app2, mem_app>>
    BY <1>6 DEF RecvRelease
  <2>2. Stored'
    BY <1>1, <2>1 DEF HookTypeOK, Stored
  <2>3. InRecv(p) /\ ~InRecv(p)' /\ ~InSend(p)'
    BY <1>1, <1>2, <2>1 DEF HookTypeOK, InRecv, Apart
  <2>4. \A q \in Procs \ {p} : InRecv(q)' => InRecv(q)
    BY <1>1, <2>1 DEF HookTypeOK, InRecv
  <2>5. QED
    BY <1>1, <1>2, <2>2, <2>3, <2>4, Leaves
<1>7. QED
  BY <1>3, <1>4, <1>5, <1>6 DEF Recv

(***************************************************************************)
(* The senders.                                                            *)
(***************************************************************************)
LEMMA FrameTypes ==
    ASSUME HookTypeOK, NEW p \in Procs, goFrom(p, "work") \/ goFrom(p, "measure")
    PROVE  /\ spc' \in [Procs -> {"out", "set", "pid", "work", "measure", "release"}]
           /\ {spid', smem'} \subseteq [Procs -> Procs \cup {NoProc}]
  BY DEF HookTypeOK, goFrom, goSend

\* A step of a sender keeps the types.
LEMMA SendTypes ==
    ASSUME HookTypeOK, NEW p \in Procs, Sends(p) \/ MeasureFails(p) \/ Blink(p)
    PROVE  HookTypeOK'
<1> USE DEF HookTypeOK, goSend, sendUnchanged, sendWork, recvVars, appVars
<1>1. CASE Send(p)
  BY <1>1 DEF Send
<1>2. CASE SendSet(p)
  BY <1>2 DEF SendSet, Race
<1>3. CASE SendLoads(p)
  BY <1>3 DEF SendLoads
<1>4. ASSUME Work(p) \/ MeasureFails(p) \/ Blink(p)
      PROVE  HookTypeOK'
  <2>1. /\ goFrom(p, "work") \/ goFrom(p, "measure")
           \/ (goSend(p, "work", "measure") /\ UNCHANGED <<spid, smem>>)
        /\ UNCHANGED <<enable, in_use, marked, races, rpc, rpid, pid_app2>>
        /\ pid_app' \in {pid_app, p, NoProc} /\ mem_app' \in {mem_app, NoProc}
    BY <1>4 DEF Work, SendOff, SendEarly, SendMeasures, Measured, MeasureFails, SetFan, SameFan,
                Blink, SetLeds, Adjusts
  <2>2. internal_step' \in {internal_step, 0, 2, 3}
    BY <1>4 DEF Work, SendOff, SendEarly, SendMeasures, Measured, MeasureFails, SetFan, SameFan,
                Blink, SetLeds, Adjusts, Led
  <2>3. late' \in {late, TRUE, FALSE}
    BY <1>4 DEF Work, SendOff, SendEarly, SendMeasures, Measured, MeasureFails, SetFan, SameFan,
                Blink, SetLeds, Adjusts
  <2>4. /\ spc' \in [Procs -> {"out", "set", "pid", "work", "measure", "release"}]
        /\ {spid', smem'} \subseteq [Procs -> Procs \cup {NoProc}]
    BY <2>1, FrameTypes
  <2>5. late' \in BOOLEAN
    BY <2>3
  <2>6. QED
    BY <2>1, <2>2, <2>4, <2>5
<1>5. CASE SendRelease(p)
  BY <1>5 DEF SendRelease
<1>6. QED
  BY <1>1, <1>2, <1>3, <1>4, <1>5 DEF Sends

\* A step of a sender keeps the invariant: it stores nothing a receiver looks at.
LEMMA SendInv ==
    ASSUME HookIInv, races = {}, NEW p \in Procs, Sends(p) \/ MeasureFails(p) \/ Blink(p)
    PROVE  HookIInv'
<1>1. HookTypeOK /\ Apart /\ Stored /\ Loaded /\ HookTypeOK'
  BY SendTypes DEF HookIInv
<1> USE DEF goSend, appVars, recvVars
<1>2. UNCHANGED rpc /\ UNCHANGED pid_app2
  BY DEF Sends, Work, Send, SendSet, SendLoads, SendOff, SendEarly, SendMeasures, Measured,
         MeasureFails, SetFan, SameFan, Blink, SetLeds, Adjusts, SendRelease, sendWork,
         sendUnchanged, goFrom
<1>3. \A q \in Procs : InRecv(q)' <=> InRecv(q)
  BY <1>2 DEF InRecv
<1> SUFFICES ASSUME races' = {} PROVE Apart' /\ Stored' /\ Loaded'
  BY <1>1 DEF HookIInv
<1>4. CASE Send(p)
  <2>1. /\ UNCHANGED <<in_use, mem_app, spid, smem>>
        /\ spc' = spc \/ (spc[p] = "out" /\ spc' = [spc EXCEPT ![p] = "set"])
    BY <1>4 DEF Send
  <2>2. Apart'
    BY <1>1, <1>3, <2>1, StaysApart DEF HookTypeOK, InSend
  <2>3. Loaded'
    BY <1>1, <2>1 DEF HookTypeOK, Loaded
  <2>4. QED
    BY <1>1, <1>2, <2>1, <2>2, <2>3, SameStored
<1>5. CASE SendSet(p)
  <2>1. /\ spc[p] = "set" /\ spc' = [spc EXCEPT ![p] = "pid"]
        /\ UNCHANGED <<mem_app, spid, smem>>
    BY <1>5 DEF SendSet
  <2>2. ~InRecv(p)'
    BY <1>1, <1>3, <1>5 DEF SendSet, Race, HookTypeOK, Apart
  <2>3. \A q \in Procs \ {p} : InSend(q)' <=> InSend(q)
    BY <1>1, <2>1 DEF HookTypeOK, InSend
  <2>4. Apart'
    BY <1>1, <1>3, <1>5, <2>2, <2>3, Enters DEF SendSet
  <2>5. Loaded'
    BY <1>1, <2>1 DEF HookTypeOK, Loaded
  <2>6. QED
    BY <1>1, <1>2, <2>1, <2>4, <2>5, SameStored
<1>6. CASE SendLoads(p)
  <2>1. /\ spc[p] = "pid" /\ spc' = [spc EXCEPT ![p] = "work"]
        /\ spid' = [spid EXCEPT ![p] = pid_app2] /\ smem' = [smem EXCEPT ![p] = mem_app]
        /\ UNCHANGED <<in_use, mem_app>>
    BY <1>6 DEF SendLoads
  <2>2. mem_app \in {NoProc, pid_app2}
    BY <1>1, <2>1 DEF Apart, Stored, InRecv, InSend
  <2>3. Loaded'
    BY <1>1, <2>1, <2>2 DEF HookTypeOK, Loaded
  <2>4. Apart'
    BY <1>1, <1>3, <2>1, StaysApart DEF HookTypeOK, InSend
  <2>5. QED
    BY <1>1, <1>2, <2>1, <2>3, <2>4, SameStored
<1>7. CASE Work(p) \/ MeasureFails(p) \/ Blink(p)
  <2>1. /\ in_use' = in_use /\ InSend(p)
        /\ mem_app' \in {NoProc, mem_app}
        /\ \/ spc' = [spc EXCEPT ![p] = "release"]
           \/ /\ spc' = [spc EXCEPT ![p] = "measure"] /\ spc[p] = "work"
              /\ OwnMemory(p) /\ UNCHANGED <<spid, smem>>
        /\ \A q \in Procs \ {p} : spid'[q] = spid[q] /\ smem'[q] = smem[q]
    BY <1>1, <1>7 DEF HookTypeOK, Work, SendOff, SendEarly, SendMeasures, Measured, MeasureFails,
                      SetFan, SameFan, Blink, SetLeds, Adjusts, sendWork, goFrom, InSend
  <2>2. Apart'
    BY <1>1, <1>3, <2>1, StaysApart DEF HookTypeOK, InSend
  <2>3. Stored'
    BY <1>1, <1>2, <2>1 DEF Stored
  <2>4. Loaded'
    BY <1>1, <2>1 DEF HookTypeOK, Loaded, OwnMemory
  <2>5. QED
    BY <2>2, <2>3, <2>4
<1>8. CASE SendRelease(p)
  <2>1. /\ spc[p] = "release" /\ spc' = [spc EXCEPT ![p] = "out"]
        /\ UNCHANGED <<mem_app, spid, smem>>
    BY <1>8 DEF SendRelease
  <2>2. InSend(p) /\ ~InSend(p)' /\ ~InRecv(p)'
    BY <1>1, <1>3, <2>1 DEF HookTypeOK, InSend, Apart
  <2>3. \A q \in Procs \ {p} : InSend(q)' => InSend(q)
    BY <1>1, <2>1 DEF HookTypeOK, InSend
  <2>4. Apart'
    BY <1>1, <1>3, <2>2, <2>3, Leaves
  <2>5. Loaded'
    BY <1>1, <2>1 DEF HookTypeOK, Loaded
  <2>6. QED
    BY <1>1, <1>2, <2>1, <2>4, <2>5, SameStored
<1>9. QED
  BY <1>4, <1>5, <1>6, <1>7, <1>8 DEF Sends

\* Every step of the hooks keeps the invariant.
LEMMA HookNextInv == HookIInv /\ [HookNext]_hookVars => HookIInv'
<1> SUFFICES ASSUME HookIInv, [HookNext]_hookVars PROVE HookIInv'
  OBVIOUS
<1>1. CASE Switch \/ Time \/ UNCHANGED hookVars
  <2>1. UNCHANGED <<in_use, internal_step, appVars, marked, recvVars, sendVars, races>>
    BY <1>1 DEF Switch, Time, hookVars
  <2>2. enable' \in Switches \cup {0}
    BY <1>1 DEF Switch, Time, hookVars, HookIInv, HookTypeOK
  <2>3. late' \in BOOLEAN
    BY <1>1 DEF Switch, Time, hookVars, HookIInv, HookTypeOK
  <2>4. QED
    BY <2>1, <2>2, <2>3 DEF HookIInv, HookTypeOK, Apart, Stored, Loaded, InRecv, InSend,
                             appVars, recvVars, sendVars
<1>2. ASSUME races = {}, NEW p \in Procs,
             Receive(p) \/ Recv(p) \/ Sends(p) \/ MeasureFails(p) \/ Blink(p)
      PROVE  HookIInv'
  BY <1>2, RecvInv, SendInv
<1>3. QED
  BY <1>1, <1>2 DEF HookNext

\* For any number of processes: sys138 has the temperature written only to memory of the
\* process it runs in (mem_app, ps3_controlfan.S), as long as in_use keeps the hooks apart.
THEOREM MeasuresOwnMemory == HookSpec => []MemoryOwned
<1>1. HookIInv => MemoryOwned
  BY DEF HookIInv, Loaded, MemoryOwned
<1>2. QED
  BY <1>1, HookInitInv, HookNextInv, PTL DEF HookSpec

=============================================================================
