------------------------------- MODULE Service -------------------------------
(***************************************************************************)
(* The life of the daemon: its start in horst.cpp and Satellite::run, the  *)
(* connection to the bus in server/dbus.cpp, and systemd, which runs it as *)
(* horst.service says and starts it again when it ends.                    *)
(*                                                                         *)
(* Time passes in ticks of RestartSec.  Starting takes less than a tick.   *)
(***************************************************************************)
EXTENDS Integers

CONSTANTS
  StartLimitInterval, \* of horst.service, in ticks
  StartLimitBurst,    \* of horst.service
  LeopChecks,         \* what check_leop.sh may return when SCIOPS is not active
  OnBootSec,          \* of horst_deployed.timer, in ticks
  LeopTargets,        \* the targets of LEOP that are activated: "LEOP" is that
                      \* of the boot, "LEOP-now" the one at any time
  MaxOutage,          \* how long the bus stays away at most, in ticks
  MinCalm             \* ticks between the end of one trouble and the next

ASSUME ServiceAssumption ==
  /\ {StartLimitInterval, OnBootSec, MaxOutage, MinCalm} \subseteq Nat
  /\ StartLimitBurst \in Nat \ {0}
  /\ LeopChecks \subseteq 1 .. 255
  /\ LeopTargets \subseteq {"LEOP", "LEOP-now"}

VARIABLES
  daemon,    \* what the process is doing, "none" when there is none
  leop,      \* args.leop, then State::leop of the daemon
  unit,      \* the state of horst.service: "active", "waiting", "failed"
  started,   \* starts that count against the limit, and ticks since the first
  bus,       \* whether the bus is there
  trouble,   \* ticks the bus is away; when it is there, ticks until new trouble
  sciops,    \* whether SCIOPS is the active target
  timer,     \* ticks until horst_deployed.timer elapses, 0 when it does not run
  deploying  \* whether the start of horst_deployed.service waits for its turn

\* History, for LeopRemembered.
VARIABLE told  \* whether a daemon of HORST has got the signal of the deployment

daemonVars == <<daemon, leop>>
deployment == <<timer, deploying, told>>
outside == <<bus, trouble, sciops, deployment>>
vars == <<daemonVars, unit, started, outside>>

-----------------------------------------------------------------------------
(* The daemon *)

\* Mistake: no LEOP state for a check that failed.
CheckLeop_NoDefault ==
  /\ daemon = "starting"
  /\ \E status \in (IF sciops THEN {0} ELSE LeopChecks) :
       leop' = CASE status = 0 -> "DONE"
                 [] status = 1 -> "UNDEPLOYED"
                 [] OTHER      -> "UNKNOWN"
  /\ daemon' = "connecting"
  /\ UNCHANGED <<unit, started, outside>>

\* check_leop.sh finds SCIOPS active or not; then startup.sh, whose result does
\* not matter, and the constructors.
CheckLeop ==
  /\ daemon = "starting"
  /\ \E status \in (IF sciops THEN {0} ELSE LeopChecks) :
       leop' = CASE status = 0 -> "DONE"
                 [] status = 1 -> "UNDEPLOYED"
                 [] OTHER      -> "DEPLOYED"
  /\ daemon' = "connecting"
  /\ UNCHANGED <<unit, started, outside>>

\* Mistake: the process is started again at once, without RestartSec.
Ends_AtOnce == daemon' = "none" /\ unit' = "starting"

\* The process ends and systemd waits before it starts it again.
Ends == daemon' = "none" /\ unit' = "waiting"

\* DBusConnection::connect; without a bus run() returns 1 and the process ends.
connect ==
  /\ daemon = "connecting"
  /\ \/ bus /\ daemon' = "listening" /\ UNCHANGED unit
     \/ ~bus /\ Ends
  /\ UNCHANGED <<leop, started, outside>>

\* leopStateChange
leopStateChange(value) == leop' = IF daemon = "listening" THEN value ELSE leop

-----------------------------------------------------------------------------
(* systemd *)

\* The unit is started, or given up when it was started too often.
Start ==
  /\ unit = "starting"
  /\ \/ /\ started.age > StartLimitInterval
        /\ started' = [age |-> 0, count |-> 1]
        /\ unit' = "active" /\ daemon' = "starting"
     \/ /\ started.age <= StartLimitInterval /\ started.count < StartLimitBurst
        /\ started' = [started EXCEPT !.count = @ + 1]
        /\ unit' = "active" /\ daemon' = "starting"
     \/ /\ started.age <= StartLimitInterval /\ started.count >= StartLimitBurst
        /\ unit' = "failed"
        /\ UNCHANGED <<started, daemon>>
  /\ UNCHANGED <<leop, outside>>

Busy == unit = "starting" \/ daemon \in {"starting", "connecting"}

Older(n, limit) == IF n <= limit THEN n + 1 ELSE n

\* A tick later; a unit that waits is due to start, and when the timer elapses,
\* horst_deployed.service is.
Tick ==
  /\ ~Busy
  /\ bus \/ trouble < MaxOutage
  /\ trouble' = IF ~bus THEN trouble + 1 ELSE IF trouble > 0 THEN trouble - 1 ELSE 0
  /\ started' = [started EXCEPT !.age = Older(@, StartLimitInterval)]
  /\ unit' = IF unit = "waiting" THEN "starting" ELSE unit
  /\ timer' = IF timer > 0 THEN timer - 1 ELSE 0
  /\ deploying' = (deploying \/ timer = 1)
  /\ UNCHANGED <<daemonVars, bus, sciops, told>>

\* Activating LEOP-now.target starts horst_deployed.service without the timer.
LeopNow ==
  /\ "LEOP-now" \in LeopTargets
  /\ ~deploying /\ deploying' = TRUE
  /\ UNCHANGED <<daemonVars, unit, started, bus, trouble, sciops, timer, told>>

\* horst_deployed.service sends its signal, after horst.service: a start of
\* that one which has begun, and ends when the name is on the bus, comes first.
DeployedSignal ==
  /\ deploying /\ ~Busy
  /\ deploying' = FALSE
  /\ leopStateChange("DEPLOYED")
  /\ told' = (told \/ daemon = "listening")
  /\ UNCHANGED <<daemon, unit, started, bus, trouble, sciops, timer>>

-----------------------------------------------------------------------------
(* What happens to it *)

Calm == bus /\ trouble = 0

\* The daemon dies: a signal, an error, the watchdog.
Dies ==
  /\ Calm /\ daemon # "none"
  /\ Ends
  /\ trouble' = MinCalm
  /\ UNCHANGED <<leop, started, bus, sciops, deployment>>

\* handle_dbus and update_events go on with a bus that is closed: no message
\* will ever arrive, while the timer of the watchdog goes on too.
BusLost ==
  /\ Calm
  /\ bus' = FALSE /\ trouble' = 0
  /\ daemon' = IF daemon = "listening" THEN "deaf" ELSE daemon
  /\ UNCHANGED <<leop, unit, started, sciops, deployment>>

\* Mistake in the unit: Type=simple.
BusReturns_Unnoticed ==
  /\ ~bus
  /\ bus' = TRUE /\ trouble' = MinCalm
  /\ UNCHANGED <<daemonVars, unit, started, sciops, deployment>>

\* systemd compares the names on the bus: it stops a Type=dbus unit that is not
\* the owner of its BusName any more.
BusReturns ==
  /\ ~bus
  /\ bus' = TRUE /\ trouble' = MinCalm
  /\ IF daemon = "deaf" THEN Ends ELSE UNCHANGED <<daemon, unit>>
  /\ UNCHANGED <<leop, started, sciops, deployment>>

\* A process may die while the bus is away.
DiesWithoutBus ==
  /\ ~bus /\ daemon = "deaf"
  /\ Ends
  /\ UNCHANGED <<leop, started, outside>>

\* LEOP ends: SCIOPS is activated and announced.
SciopsActivated ==
  /\ ~sciops /\ sciops' = TRUE
  /\ leopStateChange("DONE")
  /\ UNCHANGED <<daemon, unit, started, bus, trouble, deployment>>

-----------------------------------------------------------------------------
(* The specification *)

Init ==
  /\ daemon = "none" /\ unit = "starting"
  /\ leop = "UNDEPLOYED"
  /\ started = [age |-> 0, count |-> 0]
  /\ bus = TRUE /\ trouble = 0
  /\ sciops \in BOOLEAN
  /\ timer = (IF "LEOP" \in LeopTargets THEN OnBootSec ELSE 0)
  /\ deploying = FALSE /\ told = FALSE

Next ==
  \/ Start \/ CheckLeop \/ connect
  \/ Tick \/ LeopNow \/ DeployedSignal
  \/ Dies \/ DiesWithoutBus \/ BusLost \/ BusReturns
  \/ SciopsActivated

Spec == Init /\ [][Next]_vars

FairSpec ==
  /\ Spec
  /\ WF_vars(Start) /\ WF_vars(CheckLeop) /\ WF_vars(connect)
  /\ WF_vars(Tick) /\ WF_vars(BusReturns)

-----------------------------------------------------------------------------
(* Properties *)

\* Every variable has its type.
TypeOK ==
  /\ daemon \in {"none", "starting", "connecting", "listening", "deaf"}
  /\ leop \in {"UNDEPLOYED", "DEPLOYED", "DONE"}
  /\ unit \in {"starting", "active", "waiting", "failed"}
  /\ started \in [age : 0 .. StartLimitInterval + 1,
                  count : 0 .. StartLimitBurst]
  /\ bus \in BOOLEAN /\ trouble \in 0 .. MaxOutage + MinCalm
  /\ {sciops, deploying, told} \subseteq BOOLEAN
  /\ timer \in 0 .. OnBootSec

\* systemd does not give HORST up: bus outages of up to MaxOutage ticks and
\* deaths in between stay within the start limit, though every start without a
\* bus ends at once (satellite.cpp:55-58, horst.service:4-5).
NotGivenUp == unit # "failed"

\* HORST gets to listen again, also when it lost the bus and did not notice:
\* its own watchdog is content (dbus.cpp:24-46, satellite.cpp:29-41).
ListensAgain == daemon # "listening" ~> daemon = "listening"

-----------------------------------------------------------------------------
(* What documents say and the code does not do *)

\* "On startup HORST has no clue about the actual state of the satellite. It
\* therefore assumes the documented default values for operation until an update
\* with real data is received by signal" (system_design.md:33-35), and the
\* default of LEOP is DEPLOYED (system_design.md:25): when HORST was once told
\* of the deployment, no daemon that listens takes it to be outstanding, also
\* not one that was started again.
LeopRemembered ==
  told /\ daemon = "listening" => leop # "UNDEPLOYED"

=============================================================================
