------------------------------ MODULE Satellite ------------------------------
(***************************************************************************)
(* The event loop of HORST (src/src/satellite.cpp) with the actions it     *)
(* performs (src/src/action) and the scripts they run.                     *)
(*                                                                         *)
(* on_event, Action::perform and the callbacks of the processes call each  *)
(* other recursively on one stack.  agenda is that stack as a list of what *)
(* is still to be done, the innermost call first: a call replaces itself   *)
(* by its body.  While agenda is not empty the single thread of the daemon *)
(* is busy; when it is empty libuv delivers the next event.                *)
(***************************************************************************)
EXTENDS LogicTable, Functions

CONSTANTS
  EnforcedGarbage,  \* what the unset State::enforced_safemode may hold
  LeopChecks,       \* wait statuses check_leop.sh may end with at start
  SpawnMayFail,     \* whether uv_spawn may fail
  MayTerminate,     \* whether a script may be killed by SIGTERM
  MayCrash,         \* whether the daemon may die and be restarted
  MaxChildren,      \* bound: new work arrives only below this many scripts
  MaxLeaks,         \* bound: actions that terminated scripts may leave behind
  StackLimit        \* calls the stack holds before it overflows

ASSUME GarbageAssumption == EnforcedGarbage \subseteq BOOLEAN
ASSUME FaultAssumption ==
  /\ LeopChecks \subseteq 0 .. 65535
  /\ {SpawnMayFail, MayTerminate, MayCrash} \subseteq BOOLEAN
ASSUME BoundAssumption == {MaxChildren, MaxLeaks, StackLimit} \subseteq Nat

VARIABLES
  st,        \* Satellite::current_state
  agenda,    \* what the running handler still has to do
  actions,   \* Satellite::actions: how many live entries of each kind
  children,  \* how many scripts of each kind are running
  daemon     \* "running", or how it died: "overflow", "dead"

vars == <<st, agenda, actions, children, daemon>>

-----------------------------------------------------------------------------
(* Work items *)

OnEvent(ev)        == [op |-> "on_event", event |-> ev]
Perform(action)    == [op |-> "perform", action |-> action]
Spawn(kind)        == [op |-> "spawn", kind |-> kind]
Exited(kind, good) == [op |-> "exited", kind |-> kind, success |-> good]
Remove(kind)       == [op |-> "remove", kind |-> kind]
AssignProcess      == [op |-> "assign"]

WorkItem == [op : {"on_event"}, event : Event]
            \cup [op : {"perform"}, action : Action]
            \cup [op : {"spawn", "remove"}, kind : Kind]
            \cup [op : {"exited"}, kind : Kind, success : BOOLEAN]
            \cup {AssignProcess}

\* Mistake: safe mode is entered before it is announced.
Prelude_NotAnnounced(action) ==
  IF action.kind = "EnterSafeMode"
  THEN <<OnEvent(ManeuverModeSignal(FALSE))>> ELSE <<>>

\* What perform() of an action announces before it starts its script.
EnteringManualmode       == <<OnEvent(ManualModeSignal(TRUE))>>
LeavingManualmode        == <<OnEvent(ManualModeSignal(FALSE))>>
EnteringSafemode(reason) == <<OnEvent(SafeModeSignal(reason)),
                              OnEvent(ManeuverModeSignal(FALSE))>>
LeavingSafemode          == <<OnEvent(SafeModeSignal(0))>>
FinishingLeop            == <<OnEvent(LEOPSignal("DONE"))>>

Prelude(action) ==
  CASE action.kind = "EnterManualMode" -> EnteringManualmode
    [] action.kind = "LeaveManualMode" -> LeavingManualmode
    [] action.kind = "EnterSafeMode"   -> EnteringSafemode(action.reason)
    [] action.kind = "LeaveSafeMode"   -> LeavingSafemode
    [] action.kind = "FinishLEOP"      -> FinishingLeop
    [] OTHER                           -> <<>>

\* The event the exit callback of an action raises; s is the state it finds.
\* Mistake: safe mode is not entered again.
ManualModeLeft_NoReentry(s) == <<>>

ManualModeLeft(s) ==
  IF s.safemode # 0 THEN <<OnEvent(SafeModeReq(TRUE))>> ELSE <<>>
SafemodeScriptEnded(success) ==
  IF success THEN <<>> ELSE <<OnEvent(SafeModeSignal(0))>>
\* Mistake: a failed request counts as one in progress.
DetumblingTriggered_Always(success) == <<OnEvent(ADCSreqSignal("DETUMB"))>>

DetumblingTriggered(success) ==
  IF success THEN <<OnEvent(ADCSreqSignal("DETUMB"))>> ELSE <<>>
SunpointingTriggered(success) ==
  IF success THEN <<OnEvent(ADCSreqSignal("SUN"))>> ELSE <<>>
MeasuringTriggered(success) ==
  IF success THEN <<OnEvent(PayloadSignal("MEASURING"))>> ELSE <<>>

Callback(s, kind, success) ==
  CASE kind = "LeaveManualMode"    -> ManualModeLeft(s)
    [] kind = "EnterSafeMode"      -> SafemodeScriptEnded(success)
    [] kind = "TriggerDetumbling"  -> DetumblingTriggered(success)
    [] kind = "TriggerSunpointing" -> SunpointingTriggered(success)
    [] kind = "TriggerMeasuring"   -> MeasuringTriggered(success)
    [] OTHER                       -> <<>>

-----------------------------------------------------------------------------
(* Start *)

\* util::exec: the exit status in the wait status of the script.  A script that
\* died of signal n has the wait status n, and one that popen could not start
\* is given the wait status 100.
exec(wait) == (wait \div 256) % 256

\* Mistake: no LEOP state for a failed check.
CheckedLeop_NoDefault(status) ==
  CASE status = 0 -> "DONE"
    [] status = 1 -> "UNDEPLOYED"
    [] OTHER      -> "UNKNOWN"

\* horst::run: exit status of check_leop.sh to LEOP state.
CheckedLeop(status) ==
  CASE status = 0 -> "DONE"
    [] status = 1 -> "UNDEPLOYED"
    [] OTHER      -> "DEPLOYED"

Start(s) == \E wait \in LeopChecks, garbage \in EnforcedGarbage :
              s = InitialState(CheckedLeop(exec(wait)), garbage)

None == [kind \in Kind |-> 0]

SatelliteInit ==
  /\ Start(st)
  /\ agenda = <<>>
  /\ actions = None
  /\ children = None
  /\ daemon = "running"

-----------------------------------------------------------------------------
(* The steps of the running handler *)

Running == daemon = "running"
Idle == Running /\ agenda = <<>>
FitsOnStack == Len(agenda) <= StackLimit
Doing(op) == Running /\ agenda # <<>> /\ FitsOnStack /\ Head(agenda).op = op

\* Satellite::on_event: update, transform_to, then perform every action.
HandleEvent ==
  /\ Doing("on_event")
  /\ LET ev     == Head(agenda).event
         cur    == IF IsFact(ev) THEN Update(st, ev) ELSE st
         target == IF IsFact(ev) THEN cur ELSE Update(cur, ev)
         todo   == TransformTo(cur, target)
     IN /\ st' = Settle(cur, target)
        /\ agenda' = [i \in DOMAIN todo |-> Perform(todo[i])] \o Tail(agenda)
  /\ UNCHANGED <<actions, children, daemon>>

\* Mistake: the script is started before the state is updated.
PerformAction_ScriptFirst ==
  /\ Doing("perform")
  /\ LET action == Head(agenda).action
     IN /\ actions' = [actions EXCEPT ![action.kind] = @ + 1]
        /\ agenda' = <<Spawn(action.kind)>> \o Prelude(action) \o Tail(agenda)
  /\ UNCHANGED <<st, children, daemon>>

\* add_action, then Action::perform up to the creation of the process.
PerformAction ==
  /\ Doing("perform")
  /\ LET action == Head(agenda).action
     IN /\ actions' = [actions EXCEPT ![action.kind] = @ + 1]
        /\ agenda' = Prelude(action) \o <<Spawn(action.kind)>> \o Tail(agenda)
  /\ UNCHANGED <<st, children, daemon>>

\* ShellCommand::perform creates the Process: uv_spawn succeeds ...
SpawnProcess ==
  /\ Doing("spawn")
  /\ children' = [children EXCEPT ![Head(agenda).kind] = @ + 1]
  /\ agenda' = Tail(agenda)
  /\ UNCHANGED <<st, actions, daemon>>

\* Mistake: a failed start frees the action as well as its callback does.
SpawnFails_FreedTwice ==
  /\ SpawnMayFail
  /\ Doing("spawn")
  /\ agenda' = <<Exited(Head(agenda).kind, FALSE), Remove(Head(agenda).kind),
                 AssignProcess>> \o Tail(agenda)
  /\ UNCHANGED <<st, actions, children, daemon>>

\* ... or fails, and the constructor of Process runs the exit callback, which
\* frees the ShellCommand whose member the new Process is then assigned to.
SpawnFails ==
  /\ SpawnMayFail
  /\ Doing("spawn")
  /\ agenda' = <<Exited(Head(agenda).kind, FALSE), AssignProcess>> \o Tail(agenda)
  /\ UNCHANGED <<st, actions, children, daemon>>

\* The exit callback: what the action does, then Satellite's remove_action.
ExitCallback ==
  /\ Doing("exited")
  /\ LET item == Head(agenda)
     IN /\ agenda' = Callback(st, item.kind, item.success)
                     \o <<Remove(item.kind)>> \o Tail(agenda)
        /\ st' = IF item.kind = "LeaveManualMode"
                 THEN [st EXCEPT !.safemode = 0] ELSE st
  /\ UNCHANGED <<actions, children, daemon>>

\* Mistake: the callback forgets to free the action.
RemoveAction_Forgotten ==
  /\ Doing("remove")
  /\ agenda' = Tail(agenda)
  /\ UNCHANGED <<st, actions, children, daemon>>

RemoveAction ==
  /\ Doing("remove")
  /\ actions' = [actions EXCEPT ![Head(agenda).kind] = @ - 1]
  /\ agenda' = Tail(agenda)
  /\ UNCHANGED <<st, children, daemon>>

\* The write to the freed ShellCommand goes unnoticed or corrupts the heap.
AssignToFreed ==
  /\ Doing("assign")
  /\ agenda' = Tail(agenda)
  /\ daemon' \in {"running", "dead"}
  /\ UNCHANGED <<st, actions, children>>

StackOverflow ==
  /\ Running /\ ~FitsOnStack
  /\ daemon' = "overflow"
  /\ UNCHANGED <<st, agenda, actions, children>>

Handler == \/ HandleEvent \/ PerformAction \/ SpawnProcess \/ SpawnFails
           \/ ExitCallback \/ RemoveAction \/ AssignToFreed \/ StackOverflow

-----------------------------------------------------------------------------
(* What libuv delivers to an idle daemon *)

Scripts == FoldFunction(+, 0, children)
Live == FoldFunction(+, 0, actions)

\* A D-Bus handler calls on_event.
Deliver(ev) ==
  /\ Idle /\ Scripts < MaxChildren
  /\ agenda' = <<OnEvent(ev)>>
  /\ UNCHANGED <<st, actions, children, daemon>>

\* A script exits.  It counts as a success, too, when another signal than
\* SIGTERM killed it: libuv reports status 0 then.  The bound only stops those
\* exits whose callback may start more scripts than the one that ended.
ScriptExits(kind, success) ==
  /\ Idle /\ children[kind] > 0
  /\ Scripts <= MaxChildren \/ (success /\ kind # "LeaveManualMode")
  /\ children' = [children EXCEPT ![kind] = @ - 1]
  /\ agenda' = <<Exited(kind, success)>>
  /\ UNCHANGED <<st, actions, daemon>>

\* A script dies by SIGTERM: Process never calls exited(), the action stays.
ScriptTerminated(kind) ==
  /\ MayTerminate
  /\ Idle /\ children[kind] > 0
  /\ Live - Scripts < MaxLeaks
  /\ children' = [children EXCEPT ![kind] = @ - 1]
  /\ UNCHANGED <<st, agenda, actions, daemon>>

-----------------------------------------------------------------------------
(* systemd: the daemon dies (SIGKILL, watchdog) and is started again.      *)

Crash ==
  /\ MayCrash /\ Running
  /\ daemon' = "dead"
  /\ UNCHANGED <<st, agenda, actions, children>>

\* systemd kills the scripts of the old daemon with it.
Restart ==
  /\ ~Running
  /\ Start(st')
  /\ agenda' = <<>>
  /\ actions' = None
  /\ children' = None
  /\ daemon' = "running"

=============================================================================
