-------------------------------- MODULE Beacon --------------------------------
(***************************************************************************)
(* The daemon as ground sees it: getBeaconData answers between two         *)
(* handlers, and what its ten bytes say of the modes follows the abstract  *)
(* specification Modes.                                                    *)
(***************************************************************************)
EXTENDS Horst

-----------------------------------------------------------------------------
(* getBeaconData encodes the state in ten bytes.                           *)

\* The values of the enumerations, in the order of their declaration.
Ordinal == [NONE |-> 0, SLEEP |-> 1, ATTDET |-> 2, DETUMB |-> 3, NADIR |-> 4,
            SUN |-> 5, FLASH |-> 6, EXP |-> 7, TEST |-> 8, POWEROFF |-> 15,
            OK |-> 0, WARN |-> 1, ALARM |-> 2,
            OFF |-> 0, IDLE |-> 1, WANTMEASURE |-> 2, MEASURING |-> 3,
            UNDEPLOYED |-> 0, DEPLOYED |-> 1, DONE |-> 2]

Bit(b) == IF b THEN 1 ELSE 0

getBeaconData(s) ==
  <<s.safemode, Bit(s.manualmode), Bit(s.maneuvermode),
    s.battery_level % 256, s.battery_level \div 256,
    Ordinal[s.all_temp], Ordinal[s.pointing], Ordinal[s.requested],
    Ordinal[s.daemon], Ordinal[s.leop]>>

VARIABLE seen  \* what could be seen of the idle daemon last: its beacon,
               \* and the scripts of the modes that were running

Observation(s, scripts) ==
  [beacon   |-> getBeaconData(s),
   entering |-> scripts["EnterSafeMode"],
   leaving  |-> scripts["LeaveManualMode"]]

\* The answer to getBeaconData waits until the handler that runs has returned.
ObservedNext ==
  /\ Next
  /\ seen' = IF agenda' = <<>> THEN Observation(st', children') ELSE seen

ObservedSpec ==
  /\ Init /\ seen = Observation(st, children)
  /\ [][ObservedNext]_<<vars, seen>>

Ground == INSTANCE Modes WITH
  safemode <- seen.beacon[1],
  manual   <- seen.beacon[2] = 1,
  maneuver <- seen.beacon[3] = 1,
  battery  <- seen.beacon[4] + 256 * seen.beacon[5],
  temp     <- <<"OK", "WARN", "ALARM">>[seen.beacon[6] + 1],
  entering <- seen.entering,
  leaving  <- seen.leaving

-----------------------------------------------------------------------------
(* The property *)

\* What ground sees of the modes in the beacon changes only as Modes says: at
\* once, for that reason, and with that script (dbus.cpp:205-246,
\* state.cpp:37-84, enter_safemode.cpp:23-42, leave_manualmode.cpp:22-40).
ModesKept == Ground!ModesSpec

=============================================================================
