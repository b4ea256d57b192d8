# HORST in TLA+

HORST is the supervising daemon of the MOVE-II satellite.  It keeps one state
of the whole satellite, receives signals and method calls over D-Bus and
answers them with scripts according to a *logic table*; beside that it runs a
server through which ground operators execute shell commands over the S3TP
protocol.  This directory holds the TLA+ model of that program, the TLC runs
that check it on small instances, and the proofs that carry part of it to all
values of the constants.

File names below are relative to `src/src/`, the program's own sources, unless
they start with `src/` themselves (`src/doc/`, `src/root/`, `src/test/`).

## 1. The system

One process, one thread, one libuv loop.  Everything that happens is a callback
of that loop: a D-Bus message, data on the S3TP channel, output or exit of a
child process, a timer.  What makes it hard is not threads but *re-entrance*:
handling an event performs actions, actions raise events, and these are handled
inside the handling of the first one, while scripts run in parallel as children
and report back much later.

| component | state it keeps | operations | talks to |
|---|---|---|---|
| logic table (`state/`, `event/`) | `State`: safe, manual and maneuver mode, LEOP, battery, temperature, ADCS, payload, commands | `Event::update`, `State::transform_to` | called by the event loop |
| event loop (`satellite.cpp`) | `current_state`, the list `actions` of running actions | `on_event`, `add_action`, `remove_action`, watchdog timer | everyone raises events here |
| actions (`action/`) | command, `Process`, exit callback | `perform`, exit callback | raise events, start scripts |
| process (`process.cpp`) | pipes, child, `has_in`, exit status and signal | start, input, output, `kill`, `exited` | actions and S3TP server |
| D-Bus interface (`server/dbus.cpp`) | bus connection, poll handles | eight methods (four raise an event), seven signals, `getBeaconData`, connect | ground, THM, EPS, ADCS, payload and LEOP daemons |
| S3TP server (`server/s3tp.cpp`) | channel, partial message, remote process, `outbuf` | start, connect, reconnect, data, send, buffer full/empty, close | remote client, `Process` |
| start (`horst.cpp`, `util.cpp`) | arguments | `check_leop.sh`, `startup.sh`, `--manual`, `--battery` | constructs the rest |
| scripts and units (`src/root/`) | none / timers of systemd | the scripts of the actions, service with watchdog, deployed timer | call the daemons and HORST back |

**Interactions.** D-Bus handler → `Satellite::on_event` → `Event::update` and
`State::transform_to` → `Action::perform` → `on_event` again, and `Process` →
(later) exit callback → `on_event`, `remove_action`.  The S3TP server uses
`Process` only and shares no state with the logic table.

**What is hard, and what correctness means.**

* *Logic table and event loop.* The emergency rules are switched off in manual
  and safe mode, so whatever ends these modes (a request, a timer, a script that
  fails) has to look at the emergency again.  Rules decide before the actions of
  the same event are performed.  Correct means: no emergency is left unanswered,
  safe mode carries a true reason, the modes in the state and the scripts that
  realise them belong together, the scripts that trigger payload and ADCS start only under
  conditions that still hold, and the recursion ends.
* *Actions and processes.* An action is freed by the callback of its own process;
  `uv_spawn` may fail inside the constructor; a child may die of SIGTERM, which
  the code treats specially.  Correct means: each action is freed once, and not
  before its last use.
* *D-Bus interface.* Texts are converted with different rules for case and for
  unknown words; a lost bus is not reconnected.  Correct means that a text nobody
  defined leads to the safe choice.
* *S3TP server.* Messages arrive in chunks, the process exits while the connection
  closes, the buffer of the channel fills up.  Correct means that every
  message is taken as it was sent, all output and the exit status reach the client,
  and nothing is used after it was freed.
* *Mission.* The ADCS may answer before the script that
  commanded it has exited; scripts fail and nobody retries them; commands to the ADCS
  overtake each other; the 30-minute timer in `enter_manualmode.sh` belongs
  to no particular manual mode; a restart forgets every mode.  Correct means that
  the satellite gets to sunpointing, that manual mode ends, and that an emergency is
  answered in the end.
* *Service.* Every start without a bus ends at once and counts against the start
  limit of systemd; a bus lost later is never connected again, and the watchdog does
  not notice.  Correct means that HORST is not given up and listens again.

The full list, line by line, is `hazards` in `PROJECT.json`.

## 2. The modules

| module | models | how |
|---|---|---|
| `LogicTable` | `state/*`, `event/*` | pure operators: `State`, `Event`, `Update`, `TransformTo` and the rules it consists of |
| `Satellite` (extends `LogicTable`) | `satellite.cpp`, `action/*`, `Process` as actions see it, `util::exec`, LEOP check of `horst.cpp`, restart by systemd | variables and one action per step |
| `Horst` (extends `Satellite`) | the handlers of `server/dbus.cpp` | one action per method and signal; `Init`, `Next`, `Spec`, safety properties |
| `RunToCompletion` (extends `Horst`) | the same handlers, each with all that it sets off, as one step | operators `Handle`, `EventHandled`, `ExitHandled` for the composition `Mission` |
| `Modes` | what ground is promised of safe, manual and maneuver mode | abstract specification `ModesSpec`, implemented by `Horst` through the beacon |
| `Beacon` (extends `Horst`) | `getBeaconData` | the ten bytes, the history variable `seen`, the mapping to `Modes` |
| `Mission` (extends `RunToCompletion`) | the scripts in `src/root/opt/cdh_horst/scripts` and the ADCS daemon around the logic of HORST | composition; liveness |
| `Service` | `horst.cpp`, `Satellite::run`, the life of the bus connection in `server/dbus.cpp`, `horst.service`, `horst_deployed.timer`, `horst_deployed.service`, `check_leop.sh` | a specification of its own, with time in ticks |
| `S3TPServer` | `server/s3tp.cpp` and the `Process` it owns (`process.cpp`) | variables and one action per function and callback; properties |
| `RemoteShell` | what ground is promised of the remote shell | abstract specification `ShellSpec`, implemented by `S3TPServer` |
| `MCHorst`, `MCBeacon`, `MCMission`, `MCS3TPServer` | | the sets the configurations use |
| `HorstProofs` (extends `Horst`) | | types, that emergencies are handled, and that the reason for safe mode is true |
| `ModeProofs` (extends `HorstProofs`) | | when the trigger scripts are started, and that modes change with their scripts |
| `ActionProofs` (extends `ModeProofs`) | | the bookkeeping of actions and commands |
| `BeaconProofs` (extends `ActionProofs`, `Beacon`) | | the depth of the stack, and the refinement of `Modes` |
| `ServiceProofs` (extends `Service`) | | types, and the start limit of systemd |
| `S3TPProofs` (extends `S3TPServer`) | | types, and the order of the calls on the stack |
| `FramingProofs` (extends `S3TPProofs`) | | that bytes are cut into the messages that were sent |
| `ShellProofs` (extends `S3TPProofs`) | | the output of a command, and the refinement of `RemoteShell` |

`Horst` and `S3TPServer` are specifications of their own: the two halves of the
daemon share the loop and nothing else.

**State of `Horst`.** `st` is `Satellite::current_state`, field by field.  `actions[k]` is
the number of live entries of kind `k` in `Satellite::actions`, `children[k]` the
number of its scripts that are running.  `agenda` is the call stack of the running
handler, written as the list of what is still to be done, innermost call first:
each step replaces the first item by the body of the call it stands for.  `on_event`
becomes one `perform` per action of the table; `perform` becomes the events
the action announces and then the start of its script (`spawn`); an exit becomes the
events of its callback and then `remove`.  As the loop is single-threaded, nothing
new is delivered while `agenda` is not empty (`Idle`).  `daemon` says whether
the process is alive.

**Data.** A command or a D-Bus text is one value of a small set; the conversions
(`str2bool`, `str2leop`, `str2temp`, `str2state`) are modelled by what they do, the
case folding and the fallbacks included (`"ok"` is an ALARM).  `battery_level` keeps
its 16 bits.  `enforced_safemode` starts with a value of `EnforcedGarbage`,
because `State::State()` never initialises it.  Command texts are not kept: only
how many are waiting in `Computer::shell_commands`.

**State of `S3TPServer`.** `calls` is a call stack like `agenda`; each function
of the class replaces its own entry by the calls it makes, so that code after a
call sees what the call has changed (`process` reset, `channel` gone, `buf`
emptied).  `channel` is the pointer together with the connection: what the client
has sent (`sent`, `upstream`), what the S3TP library has accepted for it
(`received`), and, as history, what the server took for messages and how it used
them (`taken`).  `buf`, `expected` and `outbuf` are the members of the same purpose.
`process` is the pointer and the child behind it, with the output written and read
and the two ways a child can end: an exit that is reported through the exit
callback, and death by SIGTERM, which is not.  `timer` is the one timer, which either waits
for a killed process or for the next try to connect.  `fate` is `"up"` until the
program does something undefined; then nothing more is promised and systemd
starts it again: `null_channel` (a member of a null pointer), `freed_process` (libuv
handles freed while in use), `killed_itself` (`kill(0, SIGTERM)`), `bad_erase` (a
range past the end of `buf`).

A byte is a pair of the message it belongs to and its place in it, so a framing
error shows as a payload with foreign bytes.  The header of five bytes is two here:
enough to be cut in the middle and to tell length from type.  stdout and stderr go
through the same code; there is one stream.  Reading the uninitialised
`type` (`HeaderKnown`) yields any type.  Output that was not read when the process
exits is lost, and a second message in the same chunk waits for the next chunk:
both are what the code does.

**Handlers as one step.** `RunToCompletion` handles an event, or the exit of a
script, in one step: `Finish` applies `After`, the body of each call, until no work
is left.  `Mission`, which needs many parties beside the daemon, uses these handlers.
They are made of the operators the steps of `Satellite` are made of (`Update`,
`TransformTo`, `Settle`, `Prelude`, `Callback`), in the same order, and nothing else
happens in the daemon while a handler runs: that they have the effect of the steps needs no run
of its own.  Starting a script succeeds in them; when it fails is left to run `failures`.

**Refinement of `Horst`.** `Modes` has seven variables and ten steps and knows neither table nor action.  Each
step says what ground may see: which mode changes, for which reason, and how many
scripts to enter safe mode or to leave manual mode that starts.  A script killed by SIGTERM changes no
mode (`ScriptKilled`), and a daemon that is started again forgets them all (`Restarted`); run `modes` and
the proof have both.  The mapping decodes the ten
bytes of `getBeaconData`, as they were when the daemon was last idle:
a method call is answered between two handlers only.  `seen` remembers
them.  That a level of 300 (two bytes) is not read as 44, that a
temperature has the right number, and that a mode is not taken from the wrong byte, is
part of the refinement.

**State of `Mission`.** `called[k]` of the `children[k]` scripts of kind `k` have
made their call: `setMode` of the ADCS, or `setManualmode FALSE` after 30
minutes.  A script succeeds after its call, and fails instead of it;
`enter_safemode.sh`, whose status is that of its last command, may do either.  `adcs` is the
mode the ADCS is in and the one it was told to reach, `reports` the signals it has sent
and HORST has not read.  `power` is the level the battery has; HORST knows it when it
is announced.  `DiesAndRestarts` keeps the ADCS and the battery and forgets the rest.

**State of `Service`.** `daemon` goes from `starting` (LEOP check) over `connecting`
to `listening`; `deaf` is a daemon whose bus is lost, which its own loop
does not act on.  `unit` is the state of `horst.service`, `started` what systemd counts for the start
limit.  A tick is `RestartSec` = 30 s.  `timer` is `horst_deployed.timer`, which runs from the boot
with `LEOP.target`; when it elapses, or somebody activates `LEOP-now.target`, the start of
`horst_deployed.service` waits (`deploying`) until `horst.service` is not starting (its `After=`;
a `Type=dbus` unit has started when its name is on the bus), and sends the signal to whoever
listens then.  `told` remembers that a daemon got it.  `bus`, `trouble` and `sciops` are the
rest of the world.

**Refinement of `S3TPServer`.** `RemoteShell` has one line, the messages for its
client and how many of them were delivered.  The mapping joins what the channel
has accepted and what waits in `outbuf`; all of framing, buffers, timers and processes
is stuttering.  A lost channel takes the messages with it, as `reconnect()` empties
`outbuf`.  The one oddity of the code it has to allow: the exit message of a command that cannot
be started comes *before* its start is announced (`CommandFails`).

**Mistakes.** Operators named `X_Word` repeat `X` with one plausible programming
error in it.  No specification uses them; put in the place of `X`, each
makes one property fail, which shows that the property notices that error.

## 3. The runs

| run | question | properties |
|---|---|---|
| `modes` | mode and LEOP requests, temperature alarms and battery in every order around running scripts that may fail or be killed, and a daemon that dies anywhere and restarts | `EmergencyHandled`, `NoOverflow`, `ActionsAccounted`, `ReasonTruthful`, `ModeChangeRunsScript`, and the refinement `ModesKept` |
| `failures` | every handler, with scripts that cannot be started, fail, or are killed, and a daemon that dies anywhere and restarts | `TypeOK`, `EmergencyHandled`, `ActionsAccounted`, `MeasuringOnlyWhenFit`, `TriggersFit`, `CommandRunsOnce` |
| `sunpointing` | the ADCS commanded through maneuvers, safe mode, failing scripts and a restart, under `FairMission` | `SunpointingReached` |
| `manualmode` | manual mode ordered, cancelled, ended by its timers, with failing scripts, safe mode and a restart, under `FairMission` | `ManualmodeEnds`, `EmergencyNotHidden` |
| `service` | process, bus and systemd, under `FairSpec` of `Service` | `TypeOK`, `NotGivenUp`, `ListensAgain` |
| `s3tp` | one client after the other sends a command and input in any chunks while the buffer fills, sends and binds fail, and commands cannot be started, exit, are killed or outlive it; under `FairSpec` of `S3TPServer` | `TypeOK`, `FramingKept`, `OutputInOrder`, `CommandOwnsConnection`, `CommandCompleted`, `ReconnectsRegularly`, and the refinement `ShellKept` |
| `overflow`, `sun_forgotten`, `leop_forgotten`, `s3tp_disconnect`, `s3tp_input`, `s3tp_eof` | findings: each is violated | one each, see below |

What the properties say is in the comments above them.  Some remarks on how far they go:

* `EmergencyHandled` is in two runs: `failures` has the battery but no temperature alarm, so that it can
  have every handler and every fault; `modes` has both, with scripts that always start.
* `ActionsAccounted` is about steps: the number of actions without script or call changes only when SIGTERM
  kills a script, and then by one.  So leaks and early or double frees show in both runs.
* `TriggersFit` is about the two trigger scripts only, and about maneuver mode, LEOP and the
  pointing only.  It does not say that HORST leaves the ADCS alone: `enter_safemode.sh:16` commands
  POWEROFF at any time, and a low battery lets `trigger_detumbling.sh` start when safe
  mode has been entered already (state.cpp:97 decides before it is).
* `ModesKept` lets any exit of `enter_safemode.sh` with a failure drop safe mode, also that of an old
  script after safe mode was ordered again: the code does so (enter_safemode.cpp:38).
* `OutputInOrder` follows from `ShellKept`; it is stated on the channel itself, for a reader.
* `CommandCompleted` accepts the exit message of any command of the connection, and is not about
  a command killed by a SIGTERM of somebody else: `process.cpp:50` never reports that exit.

**Bounds of `Horst`.** `MaxChildren` stops new D-Bus calls, and those exits whose callback may
start more scripts, while so many scripts are running; scripts started by the
calls in progress may exceed it.  Two (`modes`) are enough for an enter and a leave
script of one mode to overlap; the ADCS announces nothing there, as `failures` has its
announcements.  `MaxLeaks` bounds the actions that scripts killed by SIGTERM leave behind;
one shows the effect.  `StackLimit` bounds the entries of `agenda` and stands for the
stack.  In `modes` it is 6, the depth the proof of `NoOverflow` gives, and tight: with 5 TLC
finds an overflow.  The other runs leave room for 12.  A recursion that does not end passes any
limit.  The battery has the levels 29 and 300 in the runs, and starts at the threshold 30: below, at
and above it; 300 needs both bytes of the beacon.  The texts hold one word of every
class a conversion tells apart (`"ok"` is an ALARM, `"maybe"` no boolean).  In
`failures` a failing `uv_spawn` lets safe mode be entered again from inside
itself for as long as starts fail, so `NoOverflow` is not among its properties.

**Bounds of `Mission`.** `MaxReports` = 1: HORST reads an announcement before the
ADCS makes the next.  `MaxRestarts` = 1: the restarted daemon has forgotten all that one can
forget.  Two scripts may run in `sunpointing`, three in `manualmode`, so that the
timer of an earlier manual mode, that of a later one, and a third script overlap.
In `manualmode` the satellite is undeployed, which keeps the ADCS out of it; in
`sunpointing` there is no manual mode, which keeps the timers out.

**Bounds of `Service`.** `StartLimitInterval` = 20 ticks and `StartLimitBurst` = 10 are those of
`horst.service`.  `MaxOutage` = 8 ticks (4 minutes) and `MinCalm` = 12 ticks (6
minutes) from the end of one trouble to the next are tight: with an outage one tick longer, or
a calm one shorter, systemd gives the unit up.  So the promise is "outages of up to four
minutes are survived", and a reader of the unit learns that one of five minutes is not.
`OnBootSec` is 90 ticks (45 minutes) in `leop_forgotten`, the value of the unit; in `service`, whose
properties do not depend on the deployment, it is 2, which lets the signal meet a daemon that
is starting, listening, deaf or gone.

**Bounds of `S3TPServer`.** `MaxMessages` = 2 messages per connection give a command and something
after it, in the same chunk or a later one; commands have one or two bytes and
input has two, so that lengths differ and a boundary can be missed; an `ENDOFFILE`
of length 0 is the one that clients send.  `MaxOutput` = 3 blocks let output wait in
`outbuf` behind output that was accepted while a third is still unread.  The
number of connections is not bounded.  The `ASSUME`s are `ClientAssumption`,
`ServerBounds` and `ServerFaults`; every fault is on in `s3tp`, and every
finding is shown with all faults off.

**Fairness.** Safety runs use none.

`FairMission`: weak fairness of "some script ends well" (not all hang at once), of the call
`enter_safemode.sh` makes, of the end of the 30-minute sleep, of the ADCS reaching the mode it was told, and of
HORST reading its signal: each is a process that goes on by itself.  Strong fairness of the calls of the two trigger
scripts, which may fail any number of times but, made again and again, succeed some
time; and of the announcement of the battery level, which its daemon repeats while HORST
is at times too busy (the bound on scripts).  Nothing is assumed about ground, and scripts may fail for ever
unless a call says otherwise.

`FairSpec` of `Service`: weak fairness of time, of the steps of a starting process, and of the
return of the bus.  Nothing is assumed about deaths, SCIOPS or the signal of the deployment.

`FairSpec` of `S3TPServer` assumes besides `Handler`: strong fairness of both
timers and of the closing of handles, as every iteration of the libuv loop looks at
them, even when other events keep the daemon from being idle continuously; weak
fairness of `onBufferEmpty`, and strong fairness of `BindSucceeds` and
`SendSucceeds`: the S3TP daemon is not away and the link not jammed for ever, which
is the environment's part.  Nothing is assumed about the client, that commands end,
or that connections are lost.

**Assumptions about the world**, beside fairness.  In `sunpointing` the ADCS answers
after the script that called it has exited (`EarlyAnswer`; run `sun_forgotten` shows what happens
otherwise) and announces every mode it reaches, POWEROFF included.  The power of the ADCS, which
`enter_safemode.sh` switches off and ground has to switch on again, is part of the
calls that fail until they succeed.  The single call in `enter_manualmode.sh` succeeds
(`MayFail`): it is not repeated, and without it manual mode lasts until ground ends
it.  `--manual` is not used: it starts no timer.  When the bus is back, systemd compares
the names on it and ends a unit of `Type=dbus` that has lost its own.

**Deadlock** is checked in every run; an idle daemon always has some next step.

## 4. What is proved

Every theorem holds for every value of the constants that the assumptions allow: every threshold, set of
texts, bound and combination of faults.

| module | theorem | states |
|---|---|---|
| `HorstProofs` | `Invariance` | `Spec => []IInv`, with `IInv == TypeOK /\ AnswerPending` |
| | `TypeCorrect` | `Spec => []TypeOK` |
| | `EmergencyAlwaysHandled` | `Spec => []EmergencyHandled` |
| | `ReasonAlwaysTruthful` | `Spec => ReasonTruthful`, from `ReasonInvariance` |
| `ModeProofs` | `ModeInvariance` | `Spec => [](IInv /\ ModeInv)` |
| | `TriggersAlwaysFit` | `Spec => []TriggersFit` |
| | `MeasuringAlwaysFit` | `Spec => []MeasuringOnlyWhenFit` |
| | `ModeChangesRunScript` | `Spec => ModeChangeRunsScript` |
| `ActionProofs` | `ActionsAlwaysAccounted` | `Spec => ActionsAccounted` |
| | `CommandsRunOnce` | `Spec => CommandRunsOnce` |
| `BeaconProofs` | `NeverOverflows` | `Undisturbed => (Spec => []NoOverflow)`, from `PhaseInvariance` |
| | `BeaconFollowsModes` | `Undisturbed => (ObservedSpec => ModesKept)`: the daemon implements `Modes` |
| `S3TPProofs` | `TypeInvariance`, `TypeCorrect` | `Spec => []TypeInv`, `Spec => []TypeOK` |
| `FramingProofs` | `FramingAlwaysKept` | `Spec => []FramingKept`, from `FramingInvariance` |
| `ShellProofs` | `OutputAlwaysInOrder` | `Spec => []OutputInOrder`, from `ShellInvariance` |
| | `CommandsOwnConnection` | `Spec => []CommandOwnsConnection` |
| | `ImplementsShell` | `Spec => ShellKept`: the server implements `RemoteShell` |
| `ServiceProofs` | `TypeCorrect` | `Spec => []TypeOK` |
| | `NeverGivenUp` | `OutagesFit => (Spec => []NotGivenUp)` |

Assumptions are the named `ASSUME`s on the constants (`TresholdAssumption`,
`StartManualAssumption`, `GarbageAssumption`, `FaultAssumption`, `BoundAssumption`,
`HorstAssumption`; `ClientAssumption`, `ServerBounds`, `ServerFaults`;
`ServiceAssumption`); TLC evaluates them in the runs of their modules.
`ServiceAssumption` wants a burst of at least 1: systemd takes 0 to mean that there is no limit.

The bounds (`MaxChildren`, `MaxLeaks`, `StackLimit`, `MaxMessages`, `MaxOutput`) are constants
without an upper limit, so nothing proved depends on their size, except that the two theorems of
`BeaconProofs` ask for a stack of six calls.

*Argument for `EmergencyHandled`.* It speaks of idle states only and is not inductive: in the
middle of a handler an emergency is unanswered.  `AnswerPending` says that while the
daemon runs and there is an emergency that the table would react to, some item of
the agenda is going to deal with it: an event (the table is evaluated with it) or
the performance of `EnterSafeMode`, which announces safe mode.  Each step either
removes such an item and replaces it by another one, or, when it handles an
event, `TransformToProperty` says that the table itself has put an `EnterSafeMode`
on the agenda.  Steps which may *create* an emergency (mode ends, levels fall) are the
updates of events, covered by the same lemma, and the callback of
`leave_manualmode.sh`, which drops safe mode directly; it leaves a request behind
(`SafeModeReq`), and that is an item that answers.  An empty agenda has no such
item, which gives `EmergencyHandled`.

*Argument for `ReasonTruthful`.* The table gives the reason when it decides; it is set
only when the `SafeModeSignal` that `perform` raises is handled, after all the
actions that stand before it in the same list and everything these set off.
`ReasonInv` adds to `IInv` that each item of the agenda that announces reason 1 or
2 announces something true (`AnnouncedTruly`), and that an event which changes the
temperature or the battery is the only item of the agenda when it is handled
(`MeasuredFirst`): so no pending announcement can become false.  `TransformToTrue`
shows that the table asks for no false reason, by membership of its actions in
`TrueActions`; `PendingStaysTrue` is the one lemma all steps use.

*Argument for the three theorems on modes.* The table decides on one state, the script
starts on a later one.  `ModeInv` says what the items between may do.  `AdcsCommandsFit`:
a pending trigger script fits the state (`Fits`), and what could change that (an event that starts a maneuver
or takes the deployment back, one that changes the pointing, the exit of a trigger script) is never
pending together with it.  `MeasurementsFit`: the start of a measurement is the first
item, because the rule for it puts the action in front (`MeasuringComesFirst`).  `ScriptFollows`: an event that
announces a mode has the script of that mode behind it, so a mode that changes
has its script pending.  `NoCommandLeft` is what lets an event of the recursion find no command.
`TransformToFits` is about the table; `StepShape` says that every step of `Horst`
handles an event, or pushes only items that come from the one it removes (`Carried`), or starts on an
empty agenda (`Arrives`), and the invariant is then proved once per shape instead of once per action.

*Argument for `ActionsAccounted`.* It needs no strengthening of `IInv`, but
counting: `Count` of the items that use an action of the kind.  `CountSpliced` gives the count after one
item is replaced by a list; `Moves(kind, come, gone)` says of a step how many
users came and went and that the difference is what actions and scripts
changed by, so that the number of actions without a user stays (`AccountKept`).  Each call of the model has one
lemma which names its `come` and `gone`; `ScriptTerminatedLeaves` is the one step that changes the number.

*Argument for `CommandRunsOnce`.* The list for an event is made of the commands that were waiting,
first, and of actions the rules ask for, among which no rule has a command
(`CommandsFirst`, `RulesAskNoCommand`).  `NoCommandLeft` makes the number that
waits one for a command from the bus and none for any other event.

*Argument for `NoOverflow` and `ModesKept`.* Both are about the whole of a handler, so the
invariant has to say where in the handler the daemon is.  `Phase` lists the seven shapes the agenda
can have: an event is about to be handled, safe mode is about to be entered, has been
announced, has been set; another mode is about to change; an exit callback is about to
run; and what is left changes no mode (`Draining`), except that safe mode may be entered once
more.  A shape bounds the length of the agenda (`PhaseShort`: six), and carries a value `end`, the modes and scripts ground will see
when the agenda is empty, computed from the state and what is still `Promised` to be started.
`HandlerPhase` shows that every step of the handler leads to a shape with the *same* `end`; an event or
an exit fixes it when it arrives (`DeliverPhase`, `ScriptExitsPhase`).  `ModeInv` and `EmergencyHandled` are needed
for it: an idle daemon has no emergency to answer, and a command for the ADCS that is pending changes no mode.
That gives `PhaseInv` and `NoOverflow`.  For `ModesKept`, `BeaconInv` adds that an idle daemon is as it was
seen last, and that the `end` of a busy one was `Caused` by an event or an exit in a state that was seen.
`BeaconShows` is the decoding of the ten bytes; `CausedAllowed` says, per event class and kind of script,
that such an `end` is one step of `Modes` or none.  Arriving and running is stuttering, and the step
that empties the agenda is the step of `Modes`.

`Undisturbed` is a hypothesis of the two theorems and not an `ASSUME`: it says that
`enforced_safemode` is false at start, that every script can be started, and that six calls fit on the
stack.  Each part is needed.  Without the first, `NoOverflow` is false (finding 1).  Without the second,
starts that fail let safe mode be entered again from inside itself for as long as they do (see the bounds of `Horst`).
Scripts that fail or are killed, crashes and restarts are all allowed.

*Types of `S3TPServer`.* A call may occur at most once on the stack, or code that
follows a call would see something else than it does.  `Ordered` gives the
reason: each call has a depth, and a call is made only by one that lies deeper.  `Linked` is
what pending calls assume of the connection and of the one timer, and `Known` that
the bytes in `buf` belong to messages of this connection and that a header is
read only when it is there.

*Argument for `FramingKept`.* Not yet taken bytes, `buf` and those on their way, are
a row of whole messages, although chunks cut them anywhere.  `Framed` says this without recursion, by a
function of start positions.  `FramedMore` (a message is sent), `FramedFirst`
and `FramedRest` (the header, then the first message is removed) and `FramedPayload` (the
first payload is that of the next message) are all that the steps need.  Between the
use of a message and its erasure (`process` runs in between and may lose the
connection) the row still holds the message (`Held`), or belongs to a new connection (`Fresh`).

*Argument for the shell.* `ShellInv` adds to the types who may be running while which call is
pending (`Running`), when the last command has come to an end for its client (`Quieted`),
and that a client knows of its command (`Announced`).  Most steps do not matter to the client
(`Neutral`, which `NeutralStep` covers once).  `ImplementsShell` maps each of the others to one step of `RemoteShell`:
`Mapping` evaluates the mapping, `ShellStep` has one case per step that the client can see.

*Argument for `NotGivenUp`.* systemd counts starts from the first one in an interval.
`OneAtATime`: there is at most one per tick.  `CalmCounted`: either all starts that count belong
to one outage, which makes at most `MaxOutage + 2`; or a calm lies among them, and its
ticks, all but one, have no start.  `OutagesFit` is what both cases need:

    MaxOutage + 2 <= StartLimitBurst
    StartLimitInterval + 2 <= StartLimitBurst + MinCalm

The values of `horst.service` (interval 20, burst 10) with outages of 8 ticks and calms
of 12 satisfy both with equality.  It is a hypothesis of the theorem and not an
`ASSUME`, since it is about the world as much as about the unit file.

**Model-checked only.**

* Liveness (`SunpointingReached`, `ManualmodeEnds`, `EmergencyNotHidden`, `ListensAgain`,
  `CommandCompleted`, `ReconnectsRegularly`): neither fairness nor ENABLED is in reach of the proof system.
* What `NoOverflow` and `ModesKept` say of a daemon whose scripts cannot be started: run `failures` checks what
  still holds then.
* The properties of the findings, which are violated.

## 5. Findings

1. `overflow`: `enforced_safemode` is never initialised and never written in the
   current state.  If it reads as true, the first event in safe mode makes
   `on_event` call itself without end.
2. `sun_forgotten`: when the ADCS has announced detumbling before
   `trigger_detumbling.sh` exits, and maneuver mode was on at that moment, the exit callback erases the
   announcement; no rule of the table matches ever after, and the satellite never goes
   to sunpointing.
3. `leop_forgotten`: LEOP is taken from `check_leop.sh` at every start, which knows
   SCIOPS only; the signal of the deployment is sent once, 45 minutes after the boot.  A
   daemon that is restarted between it and SCIOPS believes the satellite undeployed and leaves the ADCS
   alone, until somebody activates `LEOP-now.target`.
4. `s3tp_disconnect`: when the client leaves and its command exits by itself
   before the 100 ms timer, the exit callback uses the channel that is gone.
5. `s3tp_input`: input that arrives when the command has exited, but its last output
   still waits for the buffer, is executed as a shell command.
6. `s3tp_eof`: the `ENDOFFILE` message of `remoteexec`, which has length 0, closes
   the connection and kills the command instead of closing its input.

Seen in the models without a run of their own: the event that reports a low battery
starts `trigger_detumbling.sh` beside `enter_safemode.sh`, and each event before that script
exits starts it once more (both are part of `sunpointing`, which shows that sunpointing is
reached all the same); a `check_leop.sh` that could not be started counts as "LEOP
done" (`exec` in `Satellite`); the end of `leave_manualmode.sh` enters a due safe mode twice
(`LeaveScriptEnds` in `Modes`); `src/test/keywords/horst_utils.py:2-5` decodes a beacon of nine bytes with
the battery's high byte first, where `getBeaconData` sends ten and the low byte first; `src/doc/operation_manual.md:99-111` gives S3TP a 64-bit
length, an "ack" before the command is run and a limit of 4096 bytes, where the server (`server/s3tp.cpp:166-250`) and
`s3tp_proto.h` have 32 bits of length and a byte of type, `STARTED` once the command runs, and no such limit.

## 6. Not modelled, and why

`Event`s of `ctlmessage.cpp` and `req_daemon_control.cpp` are created nowhere.
Logging, error texts, command-line parsing and the build have no state.
`startup.sh` is run once, and its result is only logged; `startup_service.sh` only
switches power on.  The payload daemon is modelled by its signals alone, which arrive at any
time in `failures`.  One of the seven `sd_bus_add_match` calls may fail (`server/dbus.cpp:475`): the daemon is then deaf to
that signal and goes on; nothing could be promised of it.  `close()` of the bus is
called from nowhere.

The exit callback of a remote command resets `process` (`server/s3tp.cpp:212`), which destroys the
`std::function` whose lambda is running; lines 214-219 go on to use its captured `this`.  That is undefined,
and it is not modelled: in the model the callback goes on with the server it was given.

## 7. Plan

Done: all modules above, the two refinements as runs, and the proofs of every safety
invariant, action property and refinement of the passing runs.  To do:

1. Temperature alarms together with script starts that fail, which no run has (the theorem
   `EmergencyAlwaysHandled` covers them).
2. Another look at the hazards that no property covers.
