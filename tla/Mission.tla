------------------------------- MODULE Mission -------------------------------
(***************************************************************************)
(* HORST together with what it commands: the ADCS daemon, and the scripts  *)
(* (src/root/opt/cdh_horst/scripts) that run beside the daemon and make    *)
(* D-Bus calls of their own.  A script that triggers the ADCS calls its    *)
(* setMode; the ADCS reaches the mode some time later and announces it     *)
(* with adcsStateReached.  enter_manualmode.sh sleeps for 30 minutes and   *)
(* then calls setManualmode of HORST itself.                               *)
(*                                                                         *)
(* HORST is the one of RunToCompletion.                                    *)
(***************************************************************************)
EXTENDS RunToCompletion

CONSTANTS
  EarlyAnswer,  \* the ADCS may answer before the script that called it exits
  MayFail,      \* the kinds of scripts that may fail
  MaxReports,   \* bound: announcements of the ADCS that HORST has not read
  MaxRestarts   \* bound: how often the daemon dies

ASSUME MissionAssumption ==
  /\ EarlyAnswer \in BOOLEAN /\ MayFail \subseteq Kind
  /\ {MaxReports, MaxRestarts} \subseteq Nat

VARIABLES
  called,   \* how many running scripts of each kind have made their call
  adcs,     \* the mode the ADCS is in, and the one it was told to reach
  reports,  \* adcsStateReached signals on their way to HORST
  power,    \* the level the battery has
  restarts  \* how often the daemon has died

mission == <<called, adcs, reports, power, restarts>>
mvars == <<vars, mission>>

-----------------------------------------------------------------------------
(* The scripts *)

\* The mode a script commands with setMode of the ADCS daemon.
CommandedMode == [TriggerDetumbling |-> "DETUMB", TriggerSunpointing |-> "SUN",
                  EnterSafeMode |-> "POWEROFF"]

\* The scripts that make one call, and end with the status of it.
EndsWithCall == {"TriggerDetumbling", "TriggerSunpointing", "EnterManualMode"}

HasToCall(kind) == Idle /\ called[kind] < children[kind]

setMode(kind) ==
  /\ HasToCall(kind)
  /\ called' = [called EXCEPT ![kind] = @ + 1]
  /\ adcs' = [adcs EXCEPT !.goal = CommandedMode[kind]]
  /\ UNCHANGED <<vars, reports, power, restarts>>

\* Mistake: the script orders manual mode instead of ending it.
ManualmodeTimeout_Ordered ==
  /\ HasToCall("EnterManualMode")
  /\ called' = [called EXCEPT !["EnterManualMode"] = @ + 1]
  /\ UNCHANGED <<adcs, reports, power, restarts>>
  /\ Handle(children, <<OnEvent(ManualModeReq(TRUE))>>)

\* 30 minutes after enter_manualmode.sh was started it ends manual mode.
ManualmodeTimeout ==
  /\ HasToCall("EnterManualMode")
  /\ called' = [called EXCEPT !["EnterManualMode"] = @ + 1]
  /\ UNCHANGED <<adcs, reports, power, restarts>>
  /\ Handle(children, <<OnEvent(ManualModeReq(FALSE))>>)

\* The bound only stops those exits whose callback may start more scripts
\* than the one that ended.
ScriptSucceeds(kind) ==
  /\ children[kind] > 0
  /\ Scripts <= MaxChildren \/ kind # "LeaveManualMode"
  /\ IF kind \in EndsWithCall \cup DOMAIN CommandedMode
     THEN called[kind] > 0 /\ called' = [called EXCEPT ![kind] = @ - 1]
     ELSE UNCHANGED called
  /\ UNCHANGED <<adcs, reports, power, restarts>>
  /\ ExitHandled(kind, TRUE)

\* A script fails when its call has failed; enter_safemode.sh, whose status is
\* that of its last command, at any time.
ScriptFails(kind) ==
  /\ kind \in MayFail /\ Scripts <= MaxChildren
  /\ ExitHandled(kind, FALSE)
  /\ \/ called[kind] < children[kind] /\ UNCHANGED called
     \/ /\ called[kind] > 0 /\ kind \notin EndsWithCall
        /\ called' = [called EXCEPT ![kind] = @ - 1]
  /\ UNCHANGED <<adcs, reports, power, restarts>>

-----------------------------------------------------------------------------
(* The ADCS daemon *)

Unfinished == called["TriggerDetumbling"] + called["TriggerSunpointing"]

AdcsReaches ==
  /\ adcs.goal # "NONE" /\ Len(reports) < MaxReports
  /\ EarlyAnswer \/ Unfinished = 0
  /\ adcs' = [mode |-> adcs.goal, goal |-> "NONE"]
  /\ reports' = Append(reports, adcs.goal)
  /\ UNCHANGED <<vars, called, power, restarts>>

ReportArrives ==
  /\ Idle /\ reports # <<>>
  /\ reports' = Tail(reports)
  /\ UNCHANGED <<called, adcs, power, restarts>>
  /\ Handle(children, <<OnEvent(ADCSSignal(Head(reports)))>>)

-----------------------------------------------------------------------------
(* The specification *)

MissionInit ==
  /\ Init
  /\ called = None
  /\ adcs = [mode |-> "SLEEP", goal |-> "NONE"]
  /\ reports = <<>>
  /\ power \in BatteryLevels
  /\ restarts = 0

\* systemd kills the scripts with the daemon; a new daemon has not heard what
\* was announced to the old one.
DiesAndRestarts ==
  /\ restarts < MaxRestarts /\ restarts' = restarts + 1
  /\ Start(st')
  /\ actions' = None /\ children' = None /\ called' = None
  /\ reports' = <<>>
  /\ UNCHANGED <<agenda, daemon, adcs, power>>

\* The battery daemon announces the level it measures again and again.
BatteryAnnounced ==
  /\ UNCHANGED mission
  /\ EventHandled({EPSSignal(power)})

PowerChanges ==
  /\ power' \in BatteryLevels \ {power}
  /\ UNCHANGED <<vars, called, adcs, reports, restarts>>

OtherEvent ==
  /\ EventHandled(DBusEvents \ {EPSSignal(level) : level \in BatteryLevels})
  /\ UNCHANGED mission

MissionNext ==
  \/ OtherEvent \/ BatteryAnnounced \/ PowerChanges
  \/ \E kind \in Kind : ScriptSucceeds(kind) \/ ScriptFails(kind)
  \/ \E kind \in DOMAIN CommandedMode : setMode(kind)
  \/ ManualmodeTimeout \/ AdcsReaches \/ ReportArrives
  \/ DiesAndRestarts

MissionSpec == MissionInit /\ [][MissionNext]_mvars

\* Not all scripts hang at once; enter_safemode.sh gets to its call, the sleep
\* of enter_manualmode.sh ends, and the ADCS does what it was told.  A command
\* to the ADCS that is repeated for ever is accepted some time, and the battery
\* is announced when HORST is ready for it again and again.
FairMission ==
  /\ MissionSpec
  /\ WF_mvars(\E kind \in Kind : ScriptSucceeds(kind))
  /\ WF_mvars(setMode("EnterSafeMode"))
  /\ WF_mvars(ManualmodeTimeout)
  /\ WF_mvars(AdcsReaches) /\ WF_mvars(ReportArrives)
  /\ SF_mvars(setMode("TriggerDetumbling"))
  /\ SF_mvars(setMode("TriggerSunpointing"))
  /\ SF_mvars(BatteryAnnounced)

-----------------------------------------------------------------------------
(* Properties *)

\* The satellite does not stay without sunpointing while the rules may command
\* the ADCS: whatever scripts fail and are repeated, whatever of the commands
\* overtakes another, through safe mode and restarts (state.cpp:94-111).
SunpointingReached ==
  adcs.mode # "SUN"
    ~> \/ adcs.mode = "SUN"
       \/ ~RulesApply(st) \/ st.maneuvermode \/ st.leop = "UNDEPLOYED"

\* Manual mode ends by itself, also when ground orders it again and again, when
\* it is left and entered meanwhile, or the daemon is restarted
\* (enter_manualmode.sh, action/enter_manualmode.cpp:22-40).
ManualmodeEnds == st.manualmode ~> ~st.manualmode

\* A battery that is really low does not stay unanswered for ever, though
\* manual mode switches the rules off and a restart forgets the level
\* (state.cpp:73-84, satellite.cpp:26).
EmergencyNotHidden ==
  power < BatteryTreshold ~> st.safemode # 0 \/ power >= BatteryTreshold

=============================================================================
