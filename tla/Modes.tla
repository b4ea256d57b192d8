-------------------------------- MODULE Modes --------------------------------
(***************************************************************************)
(* What HORST promises about the special modes, as ground sees them: safe, *)
(* manual and maneuver mode change only in the steps below, each at once,  *)
(* for the reason the step gives, and with the script that puts the change *)
(* into effect.  How the daemon gets there -- the table, the actions, the  *)
(* events they raise, the order of their scripts -- does not appear.       *)
(***************************************************************************)
EXTENDS Integers

CONSTANTS
  BatteryTreshold, StartManual,
  MayTerminate,  \* whether a script may be killed by SIGTERM
  MayCrash       \* whether the daemon may die and be started again

\* uint16_t
MaxLevel == 65535

VARIABLES
  safemode,   \* 0 off, 1 temperature, 2 battery, 3 requested
  manual, maneuver,
  temp, battery,
  entering,   \* how many enter_safemode.sh are running
  leaving     \* how many leave_manualmode.sh are running

mode == <<safemode, manual, maneuver, temp, battery, entering, leaving>>

-----------------------------------------------------------------------------
ModesInit ==
  /\ safemode = 0 /\ manual = StartManual /\ maneuver = FALSE
  /\ temp = "WARN" /\ battery = BatteryTreshold
  /\ entering = 0 /\ leaving = 0

\* The safe mode the measurements call for: heat before battery.
Wanted(t, level) ==
  IF t = "ALARM" THEN 1 ELSE IF level < BatteryTreshold THEN 2 ELSE 0

\* In manual mode the measurements call for nothing.
Due(isManual) == IF isManual THEN 0 ELSE Wanted(temp, battery)

\* Safe mode becomes reason (0: it is off), with so many scripts to enter it.
\* Entering ends maneuver mode.
BecomesSafe(reason, scripts) ==
  /\ safemode' = reason
  /\ maneuver' = (maneuver /\ reason = 0)
  /\ entering' = scripts

\* Safe mode ends, and is entered again at once if it is due.
Drop(scripts) ==
  LET reason == Due(manual)
  IN BecomesSafe(reason, IF reason = 0 THEN scripts ELSE scripts + 1)

-----------------------------------------------------------------------------
Measured ==
  /\ temp' \in {"OK", "WARN", "ALARM"}
  /\ battery' \in 0 .. MaxLevel
  /\ LET reason == IF manual THEN 0 ELSE Wanted(temp', battery')
     IN IF safemode = 0 /\ reason # 0
        THEN BecomesSafe(reason, entering + 1)
        ELSE UNCHANGED <<safemode, maneuver, entering>>
  /\ UNCHANGED <<manual, leaving>>

\* setSafemode(true), which enters safe mode even when it is on already.
SafemodeOrdered ==
  /\ BecomesSafe(3, entering + 1)
  /\ UNCHANGED <<manual, temp, battery, leaving>>

SafemodeCancelled ==
  /\ safemode # 0
  /\ Drop(entering)
  /\ UNCHANGED <<manual, temp, battery, leaving>>

EnterScriptEnds ==
  /\ entering > 0
  /\ \/ entering' = entering - 1 /\ UNCHANGED <<safemode, maneuver>>
     \/ Drop(entering - 1)   \* it failed
  /\ UNCHANGED <<manual, temp, battery, leaving>>

ManualmodeEntered ==
  /\ ~manual /\ manual' = TRUE
  /\ UNCHANGED <<safemode, maneuver, temp, battery, entering, leaving>>

ManualmodeLeft ==
  /\ manual /\ manual' = FALSE
  /\ leaving' = leaving + 1
  /\ IF safemode = 0 /\ Due(FALSE) # 0
     THEN BecomesSafe(Due(FALSE), entering + 1)
     ELSE UNCHANGED <<safemode, maneuver, entering>>
  /\ UNCHANGED <<temp, battery>>

\* The end of leave_manualmode.sh never ends safe mode: it is requested again,
\* and entered a second time if it is due.
LeaveScriptEnds ==
  /\ leaving > 0 /\ leaving' = leaving - 1
  /\ \/ safemode = 0 /\ UNCHANGED <<safemode, maneuver, entering>>
     \/ safemode # 0 /\ Due(manual) = 0 /\ BecomesSafe(3, entering + 1)
     \/ safemode # 0 /\ Due(manual) # 0 /\ BecomesSafe(Due(manual), entering + 2)
  /\ UNCHANGED <<manual, temp, battery>>

Maneuver ==
  /\ maneuver' \in BOOLEAN
  /\ UNCHANGED <<safemode, manual, temp, battery, entering, leaving>>

\* HORST does not hear of a script that was killed: no mode changes.
ScriptKilled ==
  /\ MayTerminate
  /\ \/ entering > 0 /\ entering' = entering - 1 /\ UNCHANGED leaving
     \/ leaving > 0 /\ leaving' = leaving - 1 /\ UNCHANGED entering
  /\ UNCHANGED <<safemode, manual, maneuver, temp, battery>>

\* A daemon that is started again knows nothing of what was before.
Restarted == MayCrash /\ ModesInit'

-----------------------------------------------------------------------------
ModesNext ==
  \/ Measured \/ Maneuver
  \/ SafemodeOrdered \/ SafemodeCancelled \/ EnterScriptEnds
  \/ ManualmodeEntered \/ ManualmodeLeft \/ LeaveScriptEnds
  \/ ScriptKilled \/ Restarted

ModesSpec == ModesInit /\ [][ModesNext]_mode

=============================================================================
