--------------------------- MODULE RunToCompletion ---------------------------
(***************************************************************************)
(* The daemon seen from the loop: libuv calls a handler and gets control   *)
(* back when everything the handler has set off is done.  Each event is    *)
(* one step here, and agenda is always empty.                              *)
(*                                                                         *)
(* Starting a script succeeds in this module: whether it fails is the one  *)
(* choice left to chance inside a handler.                                 *)
(***************************************************************************)
EXTENDS Horst

\* The daemon h with its work h.todo, after the first item of it.
AfterEvent(h, ev) ==
  LET cur    == IF IsFact(ev) THEN Update(h.st, ev) ELSE h.st
      target == IF IsFact(ev) THEN cur ELSE Update(cur, ev)
      acts   == TransformTo(cur, target)
  IN [h EXCEPT !.st = Settle(cur, target),
               !.todo = [i \in DOMAIN acts |-> Perform(acts[i])] \o Tail(@)]

AfterPerform(h, action) ==
  [h EXCEPT !.actions[action.kind] = @ + 1,
            !.todo = Prelude(action) \o <<Spawn(action.kind)>> \o Tail(@)]

AfterSpawn(h, kind) == [h EXCEPT !.children[kind] = @ + 1, !.todo = Tail(@)]

AfterExit(h, kind, success) ==
  [h EXCEPT !.st.safemode = IF kind = "LeaveManualMode" THEN 0 ELSE @,
            !.todo = Callback(h.st, kind, success) \o <<Remove(kind)>> \o Tail(@)]

AfterRemove(h, kind) == [h EXCEPT !.actions[kind] = @ - 1, !.todo = Tail(@)]

After(h) ==
  LET item == Head(h.todo)
  IN CASE item.op = "on_event" -> AfterEvent(h, item.event)
       [] item.op = "perform"  -> AfterPerform(h, item.action)
       [] item.op = "spawn"    -> AfterSpawn(h, item.kind)
       [] item.op = "exited"   -> AfterExit(h, item.kind, item.success)
       [] item.op = "remove"   -> AfterRemove(h, item.kind)

\* The daemon when all its work is done.  (Choosing from a set makes TLC
\* evaluate each step once.)
RECURSIVE Finish(_)
Finish(h) ==
  IF h.todo = <<>> THEN h
  ELSE CHOOSE end \in {Finish(next) : next \in {After(h)}} : TRUE

\* A daemon with these scripts and this work; it leaves the constants alone.
Working(scripts, todo) ==
  [st |-> st, actions |-> actions, children |-> scripts, todo |-> todo]

\* A handler does all of todo, for a daemon with these scripts.
Handle(scripts, todo) ==
  \E end \in {Finish(Working(scripts, todo))} :
    /\ st' = end.st /\ actions' = end.actions /\ children' = end.children
    /\ UNCHANGED <<agenda, daemon>>

\* The events of the D-Bus handlers.
DBusEvents ==
  {ShellCommandReq : caller \in ExecCalls}
  \cup {SafeModeReq(str2bool(text)) : text \in {t \in SafemodeTexts : IsBool(t)}}
  \cup {ManeuverModeSignal(str2bool(text)) :
          text \in {t \in ManeuvermodeTexts : IsBool(t)}}
  \cup {ManualModeReq(str2bool(text)) : text \in {t \in ManualmodeTexts : IsBool(t)}}
  \cup {THMSignal(str2temp(text)) : text \in TempTexts}
  \cup {EPSSignal(level) : level \in BatteryLevels}
  \cup {LEOPReq(str2leop(text)) : text \in LeopTexts}
  \cup {ADCSSignal(str2state(text)) : text \in AdcsTexts}
  \cup {IF signal = "payloadConditionsFulfilled"
        THEN PayloadReq("WANTMEASURE") ELSE PayloadSignal("IDLE") :
          signal \in PayloadSignals}

\* A D-Bus handler runs.
EventHandled(events) == \E ev \in events :
  Idle /\ Scripts < MaxChildren /\ Handle(children, <<OnEvent(ev)>>)

\* The exit callback of a script runs.
ExitHandled(kind, success) ==
  /\ Idle /\ children[kind] > 0
  /\ Handle([children EXCEPT ![kind] = @ - 1], <<Exited(kind, success)>>)

=============================================================================
