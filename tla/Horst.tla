-------------------------------- MODULE Horst --------------------------------
(***************************************************************************)
(* The daemon as the rest of the satellite meets it: the methods and the   *)
(* signals of the D-Bus interface (src/src/server/dbus.cpp), one action    *)
(* per handler, around the event loop of Satellite.  A handler reads its   *)
(* text, converts it and hands one event to Satellite::on_event.           *)
(*                                                                         *)
(* The constants are the texts and values the senders use; the empty set   *)
(* means that nobody calls that handler.                                   *)
(***************************************************************************)
EXTENDS Satellite, FiniteSets

CONSTANTS
  SafemodeTexts,     \* setSafemode
  ManeuvermodeTexts, \* setManeuvermode
  ManualmodeTexts,   \* setManualmode
  ExecCalls,         \* exec: callers of it; what they run does not matter
  TempTexts,         \* thmStateChange
  BatteryLevels,     \* epsChargeStateChange
  LeopTexts,         \* leopStateChange
  AdcsTexts,         \* adcsStateReached
  PayloadSignals     \* the signals of the payload daemon

ASSUME HorstAssumption ==
  /\ BatteryLevels \subseteq Level
  /\ PayloadSignals \subseteq {"payloadConditionsNotFulfilled",
                               "payloadMeasurementDone",
                               "payloadConditionsFulfilled"}

-----------------------------------------------------------------------------
(* D-Bus methods: a text that is no boolean is refused before any event.   *)

dbus_exec == \E caller \in ExecCalls : Deliver(ShellCommandReq)

dbus_safemode == \E text \in SafemodeTexts :
  IsBool(text) /\ Deliver(SafeModeReq(str2bool(text)))

dbus_maneuvermode == \E text \in ManeuvermodeTexts :
  IsBool(text) /\ Deliver(ManeuverModeSignal(str2bool(text)))

dbus_manualmode == \E text \in ManualmodeTexts :
  IsBool(text) /\ Deliver(ManualModeReq(str2bool(text)))

(* D-Bus signals *)

thmStateChange == \E text \in TempTexts : Deliver(THMSignal(str2temp(text)))

epsChargeStateChange == \E level \in BatteryLevels : Deliver(EPSSignal(level))

leopStateChange == \E text \in LeopTexts : Deliver(LEOPReq(str2leop(text)))

payloadConditionsNotFulfilled ==
  /\ "payloadConditionsNotFulfilled" \in PayloadSignals
  /\ Deliver(PayloadSignal("IDLE"))

payloadMeasurementDone ==
  /\ "payloadMeasurementDone" \in PayloadSignals
  /\ Deliver(PayloadSignal("IDLE"))

payloadConditionsFulfilled ==
  /\ "payloadConditionsFulfilled" \in PayloadSignals
  /\ Deliver(PayloadReq("WANTMEASURE"))

adcsStateReached == \E text \in AdcsTexts : Deliver(ADCSSignal(str2state(text)))

-----------------------------------------------------------------------------
(* The specification *)

Init == SatelliteInit

Methods == dbus_exec \/ dbus_safemode \/ dbus_maneuvermode \/ dbus_manualmode

Signals == \/ thmStateChange \/ epsChargeStateChange \/ leopStateChange
           \/ payloadConditionsNotFulfilled \/ payloadMeasurementDone
           \/ payloadConditionsFulfilled \/ adcsStateReached

ScriptEnds == \E kind \in Kind :
  \/ \E success \in BOOLEAN : ScriptExits(kind, success)
  \/ ScriptTerminated(kind)

Next == Handler \/ Methods \/ Signals \/ ScriptEnds \/ Crash \/ Restart

Spec == Init /\ [][Next]_vars

-----------------------------------------------------------------------------
(* Properties *)

\* Every variable has its type.
TypeOK ==
  /\ st \in State
  /\ agenda \in Seq(WorkItem)
  /\ actions \in [Kind -> Int]
  /\ children \in [Kind -> Nat]
  /\ daemon \in {"running", "overflow", "dead"}

\* An emergency nobody has reacted to: the table would enter safe mode.
Emergency(s) == RulesApply(s) /\ (Overheated(s) \/ BatteryLow(s))

\* Whenever the daemon waits for the next event, no emergency is unanswered:
\* whatever order events, failed scripts and mode changes came in, an alarm or
\* a low battery outside manual mode has put the satellite in safe mode
\* (state.cpp:79-84, "Enter safemode in emergency case").
EmergencyHandled == Idle => ~Emergency(st)

\* The reason announced for safe mode, which the beacon sends down, is true
\* when it is set: 1 only in a temperature alarm, 2 only with a low battery
\* and no alarm (state.h:56-62).
ReasonTruthful ==
  [][/\ st'.safemode = 1 /\ st.safemode # 1 => Overheated(st)
     /\ st'.safemode = 2 /\ st.safemode # 2 => BatteryLow(st) /\ ~Overheated(st)]_vars

\* How many of the items are among these.
Count(items, these) == Cardinality({i \in DOMAIN items : items[i] \in these})

\* Items of the agenda that will still use, or free, an action of this kind.
UsersOf(kind) ==
  {Spawn(kind), Exited(kind, TRUE), Exited(kind, FALSE), Remove(kind)}
Pending(kind) == Count(agenda, UsersOf(kind))

\* The actions of a kind that no script and no call belongs to any more.
Orphans(kind) == actions[kind] - children[kind] - Pending(kind)

\* Every action is freed by the last call that uses it, and by no other
\* (satellite.cpp:158, "the last action in here must be the free of the action
\* from memory"): no step frees one too early or twice, though a start that
\* fails frees it from inside the constructor of its process, and none leaves
\* one behind but a script that dies of SIGTERM, which leaves just its own.
ActionsAccounted ==
  [][Running /\ Running' => \A kind \in Kind :
       Orphans(kind)' = Orphans(kind) + IF ScriptTerminated(kind) THEN 1 ELSE 0]_vars

\* No event makes the daemon call itself until the stack is exhausted
\* (enter_safemode.cpp:26, "to not reenter it multiple times in a loop").
NoOverflow == daemon # "overflow"

\* The payload starts to measure only on a satellite that is fit for it and
\* in no special mode, though its script is started after all the other
\* actions of the same event (state.cpp:86-92).
MeasuringOnlyWhenFit ==
  Doing("spawn") /\ Head(agenda).kind = "TriggerMeasuring"
    => RulesApply(st) /\ FitForMeasuring(st)

\* What the rules for the ADCS ask of LEOP, maneuver mode and the pointing.
AdcsFree(s) == ~s.maneuvermode /\ s.leop # "UNDEPLOYED"
MayDetumble(s) ==
  AdcsFree(s) /\ s.pointing \notin Stabilised /\ s.requested \notin Stabilised
MayPoint(s) == AdcsFree(s) /\ s.pointing = "DETUMB"

\* trigger_detumbling.sh and trigger_sunpointing.sh are not started in maneuver
\* mode, before deployment, or when the pointing is not the one they are for:
\* other actions of the same event, and what these set off, come between the
\* rule and the start (state.cpp:94-111, "In maneuvermode we do not touch
\* ADCS").  Safe mode may have been entered in between, and enter_safemode.sh
\* commands the ADCS at any time: of both the property says nothing.
TriggersFit ==
  Doing("spawn") =>
    /\ Head(agenda).kind = "TriggerDetumbling"  => MayDetumble(st)
    /\ Head(agenda).kind = "TriggerSunpointing" => MayPoint(st)

\* No mode is announced without its script: when safe mode or manual mode
\* changes, or LEOP becomes DONE, the start of the script that puts the change
\* into effect is among the calls to come.  The state is set first and the script
\* started later, after whatever the change itself has set off (action/enter_safemode.cpp:26-33,
\* leave_manualmode.cpp:27-28, finish_leop.cpp:24-25, state.cpp:55-71).
ModeChangeRunsScript ==
  [][LET Starts(kind) == \E i \in DOMAIN agenda' : agenda'[i] = Spawn(kind)
     IN Running =>
        /\ st.safemode = 0 /\ st'.safemode # 0 => Starts("EnterSafeMode")
        /\ ~st.manualmode /\ st'.manualmode => Starts("EnterManualMode")
        /\ st.manualmode /\ ~st'.manualmode => Starts("LeaveManualMode")
        /\ st.leop # "DONE" /\ st'.leop = "DONE" => Starts("FinishLEOP")]_vars

\* A command given to exec is run once, for the call that brought it: no later
\* event runs it again (computer.cpp:20-28, req_shell_command.cpp:22-32).
CommandRunsOnce ==
  [][LET Commands(items) == Count(items, {Perform(Plain("ShellCommand"))})
     IN HandleEvent => Commands(agenda') = Commands(agenda)
                       + IF Head(agenda).event = ShellCommandReq THEN 1 ELSE 0]_vars

=============================================================================
