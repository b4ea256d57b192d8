----------------------------- MODULE LogicTable -----------------------------
(***************************************************************************)
(* The state of the satellite as HORST keeps it (src/src/state), the       *)
(* events that update it (src/src/event) and the state transition table    *)
(* State::transform_to, which says what actions lead from the current to   *)
(* the target state.  Everything here is a pure operator; the module       *)
(* Satellite turns it into a state machine.                                *)
(*                                                                         *)
(* An operator whose name ends in _Word is the one of the same name with a *)
(* plausible mistake in it: no specification uses it, it serves to show    *)
(* that the properties notice the mistake.                                 *)
(***************************************************************************)
EXTENDS Integers, Sequences

CONSTANTS BatteryTreshold,  \* State::battery_treshold, option -b
          StartManual       \* option -m: start in manual mode

\* uint16_t: what D-Bus type "q" and EPS::battery_level can hold.
MaxLevel == 65535
Level == 0 .. MaxLevel

ASSUME TresholdAssumption == BatteryTreshold \in Level
ASSUME StartManualAssumption == StartManual \in BOOLEAN

-----------------------------------------------------------------------------
(* The state *)

Leop == {"UNDEPLOYED", "DEPLOYED", "DONE"}
Temp == {"OK", "WARN", "ALARM"}
AdcsState == {"NONE", "SLEEP", "ATTDET", "DETUMB", "NADIR", "SUN",
              "FLASH", "EXP", "TEST", "POWEROFF"}
PayloadState == {"OFF", "IDLE", "WANTMEASURE", "MEASURING"}

\* 0 off, 1 because of high temperature, 2 of low battery, 3 requested.
Safemode == 0 .. 3

\* shell_commands: the number of commands in Computer::shell_commands.
State == [safemode : Safemode, enforced_safemode : BOOLEAN,
          manualmode : BOOLEAN, maneuvermode : BOOLEAN, leop : Leop,
          battery_level : Level, all_temp : Temp,
          pointing : AdcsState, requested : AdcsState,
          daemon : PayloadState, shell_commands : Nat]

\* The state the Satellite constructor leaves.  enforced_safemode is in no
\* initialiser list: it holds whatever the memory held (garbage).
InitialState(leop, garbage) ==
  [safemode |-> 0, enforced_safemode |-> garbage,
   manualmode |-> StartManual, maneuvermode |-> FALSE, leop |-> leop,
   battery_level |-> BatteryTreshold, all_temp |-> "WARN",
   pointing |-> "NONE", requested |-> "NONE",
   daemon |-> "OFF", shell_commands |-> 0]

-----------------------------------------------------------------------------
(* Conversion of the texts that arrive over D-Bus *)

\* toupper() over the words a sender may use.
UpperCase == [true |-> "TRUE", false |-> "FALSE", done |-> "DONE",
              deployed |-> "DEPLOYED", undeployed |-> "UNDEPLOYED",
              sun |-> "SUN", detumb |-> "DETUMB"]
ToUpper(name) == IF name \in DOMAIN UpperCase THEN UpperCase[name] ELSE name

\* str2bool throws on anything else; the handlers catch that and refuse.
IsBool(name) == ToUpper(name) \in {"TRUE", "FALSE"}
str2bool(name) == ToUpper(name) = "TRUE"

str2leop(name) == IF ToUpper(name) \in Leop THEN ToUpper(name) ELSE "UNDEPLOYED"

\* The only conversion that does not fold case: "ok" is an ALARM.
str2temp(name) == IF name \in Temp THEN name ELSE "ALARM"

str2state(name) == IF ToUpper(name) \in AdcsState THEN ToUpper(name) ELSE "NONE"

-----------------------------------------------------------------------------
(* Events: <<class, argument>>.  A fact changes the current state, a       *)
(* request changes only the target state.                                  *)

SafeModeSignal(mode)    == <<"SafeModeSignal", mode>>
SafeModeReq(wanted)     == <<"SafeModeReq", wanted>>
ManualModeSignal(on)    == <<"ManualModeSignal", on>>
ManualModeReq(wanted)   == <<"ManualModeReq", wanted>>
ManeuverModeSignal(on)  == <<"ManeuverModeSignal", on>>
LEOPSignal(leop)        == <<"LEOPSignal", leop>>
LEOPReq(wanted)         == <<"LEOPReq", wanted>>
THMSignal(temp)         == <<"THMSignal", temp>>
EPSSignal(level)        == <<"EPSSignal", level>>
PayloadSignal(daemon)   == <<"PayloadSignal", daemon>>
PayloadReq(wanted)      == <<"PayloadReq", wanted>>
ADCSSignal(state)       == <<"ADCSSignal", state>>
ADCSreqSignal(state)    == <<"ADCSreqSignal", state>>
ShellCommandReq         == <<"ShellCommandReq", 1>>

Event == ({"SafeModeSignal"} \X Safemode)
         \cup ({"SafeModeReq", "ManualModeSignal", "ManualModeReq",
                "ManeuverModeSignal"} \X BOOLEAN)
         \cup ({"LEOPSignal", "LEOPReq"} \X Leop)
         \cup ({"THMSignal"} \X Temp)
         \cup ({"EPSSignal"} \X Level)
         \cup ({"PayloadSignal", "PayloadReq"} \X PayloadState)
         \cup ({"ADCSSignal", "ADCSreqSignal"} \X AdcsState)
         \cup {ShellCommandReq}

Requests == {"SafeModeReq", "ManualModeReq", "LEOPReq", "PayloadReq",
             "ShellCommandReq"}
\* Mistake: the command is stored in the current state.
IsFact_Command(ev) == ev[1] \notin Requests \ {"ShellCommandReq"}
IsFact(ev) == ev[1] \notin Requests

\* Event::update: what the classes do to the state they are given.
SetSafemode(s, mode) == [s EXCEPT !.safemode = mode]
RequestSafemode(s, wanted) ==
  [s EXCEPT !.safemode = IF wanted THEN 1 ELSE 0, !.enforced_safemode = TRUE]
SetManualmode(s, on) == [s EXCEPT !.manualmode = on]
SetManeuvermode(s, on) == [s EXCEPT !.maneuvermode = on]
SetLeop(s, leop) == [s EXCEPT !.leop = leop]
SetTemp(s, temp) == [s EXCEPT !.all_temp = temp]
SetBattery(s, level) == [s EXCEPT !.battery_level = level]
SetPayload(s, daemon) == [s EXCEPT !.daemon = daemon]
SetPointing(s, state) == [s EXCEPT !.pointing = state, !.requested = "NONE"]
SetRequested(s, state) == [s EXCEPT !.requested = state, !.pointing = "NONE"]
AddShellCommand(s) == [s EXCEPT !.shell_commands = @ + 1]

Update(s, ev) ==
  LET class == ev[1]
      value == ev[2]
  IN CASE class = "SafeModeSignal" -> SetSafemode(s, value)
       [] class = "SafeModeReq" -> RequestSafemode(s, value)
       [] class \in {"ManualModeSignal", "ManualModeReq"} -> SetManualmode(s, value)
       [] class = "ManeuverModeSignal" -> SetManeuvermode(s, value)
       [] class \in {"LEOPSignal", "LEOPReq"} -> SetLeop(s, value)
       [] class = "THMSignal" -> SetTemp(s, value)
       [] class = "EPSSignal" -> SetBattery(s, value)
       [] class \in {"PayloadSignal", "PayloadReq"} -> SetPayload(s, value)
       [] class = "ADCSSignal" -> SetPointing(s, value)
       [] class = "ADCSreqSignal" -> SetRequested(s, value)
       [] class = "ShellCommandReq" -> AddShellCommand(s)

-----------------------------------------------------------------------------
(* Actions: every one is a ShellCommand that runs a script.                *)

Kind == {"ShellCommand", "EnterManualMode", "LeaveManualMode",
         "EnterSafeMode", "LeaveSafeMode", "FinishLEOP",
         "TriggerMeasuring", "TriggerDetumbling", "TriggerSunpointing"}

\* reason: the safemode an EnterSafeMode announces, 0 for the others.
Action == [kind : Kind, reason : Safemode]
Plain(kind) == [kind |-> kind, reason |-> 0]
EnterSafeMode(reason) == [kind |-> "EnterSafeMode", reason |-> reason]

-----------------------------------------------------------------------------
(* State::transform_to                                                     *)

When(condition, action) == IF condition THEN <<action>> ELSE <<>>

ShellActions(target) ==
  [i \in 1 .. target.shell_commands |-> Plain("ShellCommand")]

ManualmodeActions(cur, target) ==
  When(target.manualmode /\ ~cur.manualmode, Plain("EnterManualMode"))
  \o When(~target.manualmode /\ cur.manualmode, Plain("LeaveManualMode"))

EntersSafemode(cur, target) ==
  target.safemode # 0 /\ (cur.safemode = 0 \/ target.enforced_safemode)

SafemodeActions(cur, target) ==
  When(EntersSafemode(cur, target), EnterSafeMode(3))
  \o When(~EntersSafemode(cur, target) /\ target.safemode = 0 /\ cur.safemode # 0,
          Plain("LeaveSafeMode"))

LeopActions(cur, target) ==
  When(target.leop # cur.leop /\ target.leop = "DONE", Plain("FinishLEOP"))

\* transform_to itself stores a requested LEOP state that is not DONE: the
\* rules below it already see the new value.
Settle(cur, target) ==
  IF target.leop = "DONE" THEN cur ELSE [cur EXCEPT !.leop = target.leop]

Overheated(s) == s.all_temp = "ALARM"
BatteryLow(s) == s.battery_level < BatteryTreshold

\* Mistakes: the battery is forgotten; the battery is looked at first.
EmergencyActions_AlarmOnly(s) == When(Overheated(s), EnterSafeMode(1))
EmergencyActions_BatteryFirst(s) ==
  When(BatteryLow(s), EnterSafeMode(2))
  \o When(~BatteryLow(s) /\ Overheated(s), EnterSafeMode(1))

EmergencyActions(s) ==
  When(Overheated(s), EnterSafeMode(1))
  \o When(~Overheated(s) /\ BatteryLow(s), EnterSafeMode(2))

FitForMeasuring(s) ==
  s.battery_level > BatteryTreshold /\ s.all_temp = "OK" /\ s.leop = "DONE"

Stabilised == {"SUN", "DETUMB"}

\* Mistake: sunpointing in maneuver mode.
AdcsActions_NoManeuver(s) ==
  When(s.leop # "UNDEPLOYED" /\ s.pointing = "DETUMB", Plain("TriggerSunpointing"))

AdcsActions(s) ==
  When(/\ ~s.maneuvermode /\ s.leop # "UNDEPLOYED"
       /\ s.pointing \notin Stabilised /\ s.requested \notin Stabilised,
       Plain("TriggerDetumbling"))
  \o When(~s.maneuvermode /\ s.leop # "UNDEPLOYED" /\ s.pointing = "DETUMB",
          Plain("TriggerSunpointing"))

RulesApply(s) == s.safemode = 0 /\ ~s.manualmode

\* Mistake: measuring is not subject to the modes.
RuleActions_MeasureAlways(s, target) ==
  When(target.daemon = "WANTMEASURE" /\ FitForMeasuring(s), Plain("TriggerMeasuring"))
  \o IF RulesApply(s) THEN EmergencyActions(s) ELSE <<>>

RuleActions(s, target) ==
  IF RulesApply(s)
  THEN EmergencyActions(s)
       \o When(target.daemon = "WANTMEASURE" /\ FitForMeasuring(s),
               Plain("TriggerMeasuring"))
       \o AdcsActions(s)
  ELSE <<>>

TransformTo(cur, target) ==
  ShellActions(target)
  \o ManualmodeActions(cur, target)
  \o SafemodeActions(cur, target)
  \o LeopActions(cur, target)
  \o RuleActions(Settle(cur, target), target)

=============================================================================
