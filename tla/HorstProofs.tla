----------------------------- MODULE HorstProofs -----------------------------
(***************************************************************************)
(* Theorems about Horst for every value of its constants: its types, its   *)
(* answer to every emergency, and the truth of the reason it gives for     *)
(* safe mode.                                                              *)
(***************************************************************************)
EXTENDS Horst, SequenceTheorems, TLAPS

-----------------------------------------------------------------------------
(* The logic table *)

\* Event::update takes a state to a state, whatever the event.
LEMMA UpdateType ==
  ASSUME NEW s \in State, NEW ev \in Event
  PROVE  Update(s, ev) \in State
<1>1. CASE ev \in {"SafeModeSignal"} \X Safemode
  BY <1>1 DEF Update, State, SetSafemode
<1>2. CASE ev \in {"SafeModeReq"} \X BOOLEAN
  <2>1. /\ (IF ev[2] THEN 1 ELSE 0) \in Safemode
        /\ ev[1] = "SafeModeReq"
    BY <1>2 DEF Safemode
  <2>2. Update(s, ev) = RequestSafemode(s, ev[2])
    BY <2>1 DEF Update
  <2> QED
    BY <2>1, <2>2 DEF State, RequestSafemode
<1>3. CASE ev \in {"ManualModeSignal", "ManualModeReq"} \X BOOLEAN
  BY <1>3 DEF Update, State, SetManualmode
<1>4. CASE ev \in {"ManeuverModeSignal"} \X BOOLEAN
  BY <1>4 DEF Update, State, SetManeuvermode
<1>5. CASE ev \in {"LEOPSignal", "LEOPReq"} \X Leop
  BY <1>5 DEF Update, State, SetLeop
<1>6. CASE ev \in {"THMSignal"} \X Temp
  BY <1>6 DEF Update, State, SetTemp
<1>7. CASE ev \in {"EPSSignal"} \X Level
  BY <1>7 DEF Update, State, SetBattery
<1>8. CASE ev \in {"PayloadSignal", "PayloadReq"} \X PayloadState
  BY <1>8 DEF Update, State, SetPayload
<1>9. CASE ev \in {"ADCSSignal", "ADCSreqSignal"} \X AdcsState
  BY <1>9 DEF Update, State, AdcsState, SetPointing, SetRequested
<1>10. CASE ev = ShellCommandReq
  BY <1>10 DEF Update, State, ShellCommandReq, AddShellCommand
<1> QED
  BY <1>1, <1>2, <1>3, <1>4, <1>5, <1>6, <1>7, <1>8, <1>9, <1>10 DEF Event

\* A conditional action is a list of at most one action.
LEMMA WhenType ==
  ASSUME NEW condition, NEW action \in Action
  PROVE  /\ When(condition, action) \in Seq(Action)
         /\ condition => action \in Range(When(condition, action))
BY DEF When, Range

\* The members of a concatenation.
LEMMA RangeOfConcat ==
  ASSUME NEW S, NEW s \in Seq(S), NEW t \in Seq(S)
  PROVE  /\ s \o t \in Seq(S)
         /\ Range(s \o t) = Range(s) \cup Range(t)
BY ConcatProperties, RangeConcatenation

\* What a concatenation holds, of which both parts hold it.
LEMMA ConcatAll ==
  ASSUME NEW S, NEW T, NEW s \in Seq(S), NEW t \in Seq(S),
         Range(s) \subseteq T, Range(t) \subseteq T
  PROVE  s \o t \in Seq(S) /\ Range(s \o t) \subseteq T
BY RangeOfConcat

\* A rule adds its action if its condition holds, and nothing else.
LEMMA WhenAll ==
  ASSUME NEW T, NEW condition, NEW action \in Action, condition => action \in T
  PROVE  /\ When(condition, action) \in Seq(Action)
         /\ Range(When(condition, action)) \subseteq T
<1>1. CASE condition
  <2>1. When(condition, action) = <<action>>
    BY <1>1 DEF When
  <2>2. Range(<<action>>) = {action}
    BY DEF Range
  <2>3. <<action>> \in Seq(Action)
    OBVIOUS
  <2> QED
    BY <1>1, <2>1, <2>2, <2>3
<1>2. CASE ~condition
  <2>1. When(condition, action) = <<>>
    BY <1>2 DEF When
  <2>2. Range(<<>>) = {}
    BY DEF Range
  <2>3. <<>> \in Seq(Action)
    BY EmptySeq
  <2> QED
    BY <2>1, <2>2, <2>3
<1> QED
  BY <1>1, <1>2

\* Every action an emergency requires is an EnterSafeMode.
LEMMA EmergencyActionsProperty ==
  ASSUME NEW s \in State
  PROVE  /\ EmergencyActions(s) \in Seq(Action)
         /\ Overheated(s) \/ BatteryLow(s) =>
              \E a \in Range(EmergencyActions(s)) : a.kind = "EnterSafeMode"
<1> DEFINE hot == When(Overheated(s), EnterSafeMode(1))
           low == When(~Overheated(s) /\ BatteryLow(s), EnterSafeMode(2))
<1>1. EnterSafeMode(1) \in Action /\ EnterSafeMode(2) \in Action
  BY DEF EnterSafeMode, Action, Kind, Safemode
<1>2. /\ hot \in Seq(Action) /\ low \in Seq(Action)
      /\ Overheated(s) => EnterSafeMode(1) \in Range(hot)
      /\ ~Overheated(s) /\ BatteryLow(s) => EnterSafeMode(2) \in Range(low)
  BY <1>1, WhenType DEF Overheated, BatteryLow
<1>3. EmergencyActions(s) = hot \o low
  BY DEF EmergencyActions
<1>4. /\ EmergencyActions(s) \in Seq(Action)
      /\ Range(EmergencyActions(s)) = Range(hot) \cup Range(low)
  BY <1>2, <1>3, RangeOfConcat
<1> QED
  BY <1>2, <1>4 DEF EnterSafeMode

\* The rules give a list of actions; in an emergency one of them enters safe
\* mode (state.cpp:77-112).
LEMMA RuleActionsProperty ==
  ASSUME NEW s \in State, NEW target \in State
  PROVE  /\ RuleActions(s, target) \in Seq(Action)
         /\ Emergency(s) =>
              \E a \in Range(RuleActions(s, target)) : a.kind = "EnterSafeMode"
<1> DEFINE measuring == When(target.daemon = "WANTMEASURE" /\ FitForMeasuring(s),
                             Plain("TriggerMeasuring"))
           safe == EmergencyActions(s)
           adcs == AdcsActions(s)
<1>1. \A kind \in Kind : Plain(kind) \in Action
  BY DEF Plain, Action, Safemode
<1>2. safe \in Seq(Action)
  BY EmergencyActionsProperty
<1>3. measuring \in Seq(Action)
  <2>1. Plain("TriggerMeasuring") \in Action
    BY <1>1 DEF Kind
  <2> QED
    BY <2>1, WhenType
<1>4. adcs \in Seq(Action)
  <2>1. Plain("TriggerDetumbling") \in Action /\ Plain("TriggerSunpointing") \in Action
    BY <1>1 DEF Kind
  <2> QED
    BY <2>1, WhenType, RangeOfConcat DEF AdcsActions
<1>5. CASE RulesApply(s)
  <2>1. RuleActions(s, target) = (safe \o measuring) \o adcs
    BY <1>5 DEF RuleActions
  <2>2. Emergency(s) => \E a \in Range(safe) : a.kind = "EnterSafeMode"
    BY EmergencyActionsProperty DEF Emergency
  <2> HIDE DEF safe, measuring, adcs
  <2>3. safe \o measuring \in Seq(Action)
    BY <1>2, <1>3, RangeOfConcat
  <2>4. Range(safe \o measuring) = Range(safe) \cup Range(measuring)
    BY <1>2, <1>3, RangeOfConcat
  <2>5. (safe \o measuring) \o adcs \in Seq(Action)
    BY <1>4, <2>3, RangeOfConcat
  <2>6. Range((safe \o measuring) \o adcs)
          = Range(safe \o measuring) \cup Range(adcs)
    <3> DEFINE front == safe \o measuring
    <3> HIDE DEF front
    <3>1. front \in Seq(Action)
      BY <2>3 DEF front
    <3>2. Range(front \o adcs) = Range(front) \cup Range(adcs)
      BY <1>4, <3>1, RangeOfConcat
    <3> QED
      BY <3>2 DEF front
  <2> QED
    BY <2>1, <2>2, <2>4, <2>5, <2>6
<1>6. CASE ~RulesApply(s)
  <2>1. RuleActions(s, target) = <<>>
    BY <1>6 DEF RuleActions
  <2> QED
    BY <1>6, <2>1, EmptySeq DEF Emergency
<1> QED
  BY <1>5, <1>6

\* transform_to keeps the types, and it finds every emergency of the state it
\* leaves behind.
LEMMA TransformToProperty ==
  ASSUME NEW cur \in State, NEW target \in State
  PROVE  /\ TransformTo(cur, target) \in Seq(Action)
         /\ Settle(cur, target) \in State
         /\ Emergency(Settle(cur, target)) =>
              \E a \in Range(TransformTo(cur, target)) : a.kind = "EnterSafeMode"
<1> DEFINE shell == ShellActions(target)
           manual == ManualmodeActions(cur, target)
           safe == SafemodeActions(cur, target)
           leop == LeopActions(cur, target)
           rules == RuleActions(Settle(cur, target), target)
<1>1. \A kind \in Kind : Plain(kind) \in Action
  BY DEF Plain, Action, Safemode
<1>2. Settle(cur, target) \in State
  BY DEF Settle, State
<1>3. shell \in Seq(Action)
  <2>1. target.shell_commands \in Nat
    BY DEF State
  <2>2. Plain("ShellCommand") \in Action
    BY <1>1 DEF Kind
  <2>3. shell \in [1 .. target.shell_commands -> Action]
    BY <2>2 DEF ShellActions
  <2> QED
    BY <2>1, <2>3, SeqDef
<1>4. manual \in Seq(Action)
  <2>1. Plain("EnterManualMode") \in Action /\ Plain("LeaveManualMode") \in Action
    BY <1>1 DEF Kind
  <2> QED
    BY <2>1, WhenType, RangeOfConcat DEF ManualmodeActions
<1>5. safe \in Seq(Action)
  <2>1. EnterSafeMode(3) \in Action /\ Plain("LeaveSafeMode") \in Action
    BY <1>1 DEF EnterSafeMode, Action, Kind, Safemode
  <2> QED
    BY <2>1, WhenType, RangeOfConcat DEF SafemodeActions
<1>6. leop \in Seq(Action)
  <2>1. Plain("FinishLEOP") \in Action
    BY <1>1 DEF Kind
  <2> QED
    BY <2>1, WhenType DEF LeopActions
<1>7. /\ rules \in Seq(Action)
      /\ Emergency(Settle(cur, target)) =>
           \E a \in Range(rules) : a.kind = "EnterSafeMode"
  BY <1>2, RuleActionsProperty
<1>8. TransformTo(cur, target) = (((shell \o manual) \o safe) \o leop) \o rules
  BY DEF TransformTo
<1> HIDE DEF shell, manual, safe, leop, rules
<1>9. shell \o manual \in Seq(Action)
  BY <1>3, <1>4, RangeOfConcat
<1>10. (shell \o manual) \o safe \in Seq(Action)
  BY <1>5, <1>9, RangeOfConcat
<1>11. ((shell \o manual) \o safe) \o leop \in Seq(Action)
  BY <1>6, <1>10, RangeOfConcat
<1> DEFINE ordered == ((shell \o manual) \o safe) \o leop
<1> HIDE DEF ordered
<1>12. /\ ordered \o rules \in Seq(Action)
       /\ Range(ordered \o rules) = Range(ordered) \cup Range(rules)
  <2>1. ordered \in Seq(Action)
    BY <1>11 DEF ordered
  <2> QED
    BY <1>7, <2>1, RangeOfConcat
<1>13. TransformTo(cur, target) = ordered \o rules
  BY <1>8 DEF ordered
<1>14. Range(rules) \subseteq Range(TransformTo(cur, target))
  BY <1>12, <1>13
<1> QED
  BY <1>2, <1>7, <1>12, <1>13, <1>14

-----------------------------------------------------------------------------
(* The agenda *)

\* The members of a list and of its head and tail.
LEMMA HeadTailRange ==
  ASSUME NEW S, NEW s \in Seq(S), s # <<>>
  PROVE  /\ Head(s) \in S
         /\ Tail(s) \in Seq(S)
         /\ Range(s) = {Head(s)} \cup Range(Tail(s))
<1>1. Head(s) \in S /\ Tail(s) \in Seq(S)
  BY HeadTailProperties
<1>2. s = <<Head(s)>> \o Tail(s)
  BY HeadTailProperties, ConcatProperties, SeqEqual
<1>3. <<Head(s)>> \in Seq(S)
  BY <1>1
<1>4. Range(<<Head(s)>>) = {Head(s)}
  BY <1>1 DEF Range
<1>5. Range(<<Head(s)>> \o Tail(s)) = Range(<<Head(s)>>) \cup Range(Tail(s))
  <2> DEFINE first == <<Head(s)>>
             rest == Tail(s)
  <2>1. first \in Seq(S) /\ rest \in Seq(S)
    BY <1>1, <1>3
  <2> HIDE DEF first, rest
  <2>2. Range(first \o rest) = Range(first) \cup Range(rest)
    BY <2>1, RangeOfConcat
  <2> QED
    BY <2>2 DEF first, rest
<1> QED
  BY <1>1, <1>2, <1>4, <1>5

\* Replacing the head of the agenda by a list of work items.
LEMMA ReplaceHead ==
  ASSUME NEW new \in Seq(WorkItem), NEW items \in Seq(WorkItem), items # <<>>
  PROVE  /\ new \o Tail(items) \in Seq(WorkItem)
         /\ Range(new \o Tail(items)) = Range(new) \cup Range(Tail(items))
         /\ Range(items) = {Head(items)} \cup Range(Tail(items))
<1>1. Tail(items) \in Seq(WorkItem)
  BY HeadTailRange
<1>2. Range(items) = {Head(items)} \cup Range(Tail(items))
  BY HeadTailRange
<1>3. new \o Tail(items) \in Seq(WorkItem)
  BY <1>1, RangeOfConcat
<1>4. Range(new \o Tail(items)) = Range(new) \cup Range(Tail(items))
  BY <1>1, RangeOfConcat
<1> QED
  BY <1>2, <1>3, <1>4

\* The fields of the work item at the head of the agenda.
LEMMA HeadFields ==
  ASSUME NEW items \in Seq(WorkItem), items # <<>>
  PROVE  /\ Head(items).op = "on_event" => Head(items).event \in Event
         /\ Head(items).op = "perform" => Head(items).action \in Action
         /\ Head(items).op \in {"spawn", "remove", "exited"} => Head(items).kind \in Kind
         /\ Head(items).op = "exited" => Head(items).success \in BOOLEAN
<1>1. Head(items) \in WorkItem
  BY HeadTailRange
<1> QED
  BY <1>1 DEF WorkItem, AssignProcess

\* One work item for each of a list of actions.
LEMMA PerformAll ==
  ASSUME NEW todo \in Seq(Action)
  PROVE  /\ [i \in DOMAIN todo |-> Perform(todo[i])] \in Seq(WorkItem)
         /\ Range([i \in DOMAIN todo |-> Perform(todo[i])])
              = {Perform(a) : a \in Range(todo)}
<1> DEFINE items == [i \in DOMAIN todo |-> Perform(todo[i])]
<1>1. Len(todo) \in Nat /\ DOMAIN todo = 1 .. Len(todo)
  BY LenProperties
<1>2. \A i \in 1 .. Len(todo) : Perform(todo[i]) \in WorkItem
  BY <1>1, ElementOfSeq DEF Perform, WorkItem
<1>3. items \in [1 .. Len(todo) -> WorkItem]
  BY <1>1, <1>2
<1>4. items \in Seq(WorkItem)
  BY <1>1, <1>3, SeqDef
<1>5. Range(items) = {Perform(a) : a \in Range(todo)}
  BY DEF Range
<1> QED
  BY <1>4, <1>5

\* What perform does first, and what an exit callback raises, are work items.
LEMMA PreludeType ==
  ASSUME NEW action \in Action
  PROVE  Prelude(action) \in Seq(WorkItem)
<1>1. \A ev \in Event : OnEvent(ev) \in WorkItem
  BY DEF OnEvent, WorkItem
<1>2. \A on \in BOOLEAN : ManualModeSignal(on) \in Event /\ ManeuverModeSignal(on) \in Event
  BY DEF ManualModeSignal, ManeuverModeSignal, Event
<1>3. \A mode \in Safemode : SafeModeSignal(mode) \in Event
  BY DEF SafeModeSignal, Event
<1>4. LEOPSignal("DONE") \in Event
  BY DEF LEOPSignal, Event, Leop
<1>5. action.reason \in Safemode /\ 0 \in Safemode
  BY DEF Action, Safemode
<1>6. /\ \A item \in WorkItem : <<item>> \in Seq(WorkItem)
      /\ \A item, next \in WorkItem : <<item, next>> \in Seq(WorkItem)
      /\ <<>> \in Seq(WorkItem)
  OBVIOUS
<1>7. CASE action.kind = "EnterManualMode"
  <2>1. Prelude(action) = <<OnEvent(ManualModeSignal(TRUE))>>
    BY <1>7 DEF Prelude, EnteringManualmode
  <2> QED
    BY <1>1, <1>2, <1>6, <2>1
<1>8. CASE action.kind = "LeaveManualMode"
  <2>1. Prelude(action) = <<OnEvent(ManualModeSignal(FALSE))>>
    BY <1>8 DEF Prelude, LeavingManualmode
  <2> QED
    BY <1>1, <1>2, <1>6, <2>1
<1>9. CASE action.kind = "EnterSafeMode"
  <2>1. Prelude(action) = <<OnEvent(SafeModeSignal(action.reason)),
                            OnEvent(ManeuverModeSignal(FALSE))>>
    BY <1>9 DEF Prelude, EnteringSafemode
  <2>2. OnEvent(SafeModeSignal(action.reason)) \in WorkItem
    BY <1>1, <1>3, <1>5
  <2>3. OnEvent(ManeuverModeSignal(FALSE)) \in WorkItem
    BY <1>1, <1>2
  <2> QED
    BY <1>6, <2>1, <2>2, <2>3
<1>10. CASE action.kind = "LeaveSafeMode"
  <2>1. Prelude(action) = <<OnEvent(SafeModeSignal(0))>>
    BY <1>10 DEF Prelude, LeavingSafemode
  <2> QED
    BY <1>1, <1>3, <1>5, <1>6, <2>1
<1>11. CASE action.kind = "FinishLEOP"
  <2>1. Prelude(action) = <<OnEvent(LEOPSignal("DONE"))>>
    BY <1>11 DEF Prelude, FinishingLeop
  <2> QED
    BY <1>1, <1>4, <1>6, <2>1
<1>12. CASE action.kind \notin {"EnterManualMode", "LeaveManualMode",
                               "EnterSafeMode", "LeaveSafeMode", "FinishLEOP"}
  <2>1. Prelude(action) = <<>>
    BY <1>12 DEF Prelude
  <2> QED
    BY <1>6, <2>1
<1> QED
  BY <1>7, <1>8, <1>9, <1>10, <1>11, <1>12

LEMMA CallbackType ==
  ASSUME NEW s \in State, NEW kind \in Kind, NEW success \in BOOLEAN
  PROVE  Callback(s, kind, success) \in Seq(WorkItem)
<1>1. \A ev \in Event : OnEvent(ev) \in WorkItem
  BY DEF OnEvent, WorkItem
<1>2. SafeModeReq(TRUE) \in Event
  BY DEF SafeModeReq, Event
<1>3. SafeModeSignal(0) \in Event
  BY DEF SafeModeSignal, Event, Safemode
<1>4. ADCSreqSignal("DETUMB") \in Event /\ ADCSreqSignal("SUN") \in Event
  BY DEF ADCSreqSignal, Event, AdcsState
<1>5. PayloadSignal("MEASURING") \in Event
  BY DEF PayloadSignal, Event, PayloadState
<1>6. CASE kind = "LeaveManualMode"
  <2>1. <<OnEvent(SafeModeReq(TRUE))>> \in Seq(WorkItem)
    <3>1. \A item \in WorkItem : <<item>> \in Seq(WorkItem)
      OBVIOUS
    <3> QED
      BY <1>1, <1>2, <3>1
  <2>2. \/ Callback(s, kind, success) = <<OnEvent(SafeModeReq(TRUE))>>
        \/ Callback(s, kind, success) = <<>>
    BY <1>6 DEF Callback, ManualModeLeft
  <2> QED
    BY <2>1, <2>2, EmptySeq
<1>7. CASE kind = "EnterSafeMode"
  BY <1>1, <1>3, <1>7 DEF Callback, SafemodeScriptEnded
<1>8. CASE kind = "TriggerDetumbling"
  BY <1>1, <1>4, <1>8 DEF Callback, DetumblingTriggered
<1>9. CASE kind = "TriggerSunpointing"
  BY <1>1, <1>4, <1>9 DEF Callback, SunpointingTriggered
<1>10. CASE kind = "TriggerMeasuring"
  BY <1>1, <1>5, <1>10 DEF Callback, MeasuringTriggered
<1>11. CASE kind \notin {"LeaveManualMode", "EnterSafeMode", "TriggerDetumbling",
                         "TriggerSunpointing", "TriggerMeasuring"}
  BY <1>11 DEF Callback
<1> QED
  BY <1>6, <1>7, <1>8, <1>9, <1>10, <1>11

-----------------------------------------------------------------------------
(* Start and input *)

\* A fresh state is well formed, and calm: the battery is at the threshold.
LEMMA StartProperty ==
  ASSUME NEW s, Start(s)
  PROVE  s \in State /\ ~Emergency(s)
<1>1. PICK wait \in LeopChecks, garbage \in EnforcedGarbage :
        s = InitialState(CheckedLeop(exec(wait)), garbage)
  BY DEF Start
<1>2. CheckedLeop(exec(wait)) \in Leop
  BY DEF CheckedLeop, Leop
<1>3. garbage \in BOOLEAN
  BY GarbageAssumption
<1>4. BatteryTreshold \in Level /\ StartManual \in BOOLEAN
  BY TresholdAssumption, StartManualAssumption
<1>5. s \in State
  BY <1>1, <1>2, <1>3, <1>4
     DEF InitialState, State, Safemode, Temp, AdcsState, PayloadState
<1>6. s.all_temp = "WARN" /\ s.battery_level = BatteryTreshold
  BY <1>1 DEF InitialState
<1>7. ~Overheated(s)
  BY <1>6 DEF Overheated
<1>8. ~BatteryLow(s)
  <2>1. \A n \in Level : n \in Int
    BY DEF Level
  <2>2. ~(BatteryTreshold < BatteryTreshold)
    BY <1>4, <2>1
  <2> QED
    BY <1>6, <2>2 DEF BatteryLow
<1> QED
  BY <1>5, <1>7, <1>8 DEF Emergency

\* Every D-Bus handler hands on a well-formed event.
LEMMA InputType ==
  ASSUME Methods \/ Signals
  PROVE  \E ev \in Event : Deliver(ev)
<1>1. CASE dbus_exec
  BY <1>1 DEF dbus_exec, Event
<1>2. CASE dbus_safemode
  BY <1>2 DEF dbus_safemode, SafeModeReq, str2bool, Event
<1>3. CASE dbus_maneuvermode
  BY <1>3 DEF dbus_maneuvermode, ManeuverModeSignal, str2bool, Event
<1>4. CASE dbus_manualmode
  BY <1>4 DEF dbus_manualmode, ManualModeReq, str2bool, Event
<1>5. CASE thmStateChange
  BY <1>5 DEF thmStateChange, THMSignal, str2temp, Temp, Event
<1>6. CASE epsChargeStateChange
  BY <1>6, HorstAssumption DEF epsChargeStateChange, EPSSignal, Event
<1>7. CASE leopStateChange
  BY <1>7 DEF leopStateChange, LEOPReq, str2leop, Leop, Event
<1>8. CASE payloadConditionsNotFulfilled \/ payloadMeasurementDone
  BY <1>8 DEF payloadConditionsNotFulfilled, payloadMeasurementDone,
              PayloadSignal, PayloadState, Event
<1>9. CASE payloadConditionsFulfilled
  BY <1>9 DEF payloadConditionsFulfilled, PayloadReq, PayloadState, Event
<1>10. CASE adcsStateReached
  BY <1>10 DEF adcsStateReached, ADCSSignal, str2state, AdcsState, Event
<1> QED
  BY <1>1, <1>2, <1>3, <1>4, <1>5, <1>6, <1>7, <1>8, <1>9, <1>10
     DEF Methods, Signals

-----------------------------------------------------------------------------
(* The inductive invariant *)

\* A work item that will still react to an emergency.
Answers(item) ==
  \/ item.op = "on_event"
  \/ item.op = "perform" /\ item.action.kind = "EnterSafeMode"

\* While an emergency is unanswered, the answer is on the agenda.  This is what
\* EmergencyHandled needs to be inductive: it says why the agenda cannot run
\* empty in an emergency.
AnswerPending ==
  Running /\ Emergency(st) => \E item \in Range(agenda) : Answers(item)

IInv == TypeOK /\ AnswerPending

\* The items an action pushes include one that answers, if it took one away.
LEMMA PreludeAnswers ==
  ASSUME NEW action \in Action, action.kind = "EnterSafeMode"
  PROVE  \E item \in Range(Prelude(action)) : Answers(item)
<1> DEFINE item == OnEvent(SafeModeSignal(action.reason))
<1>1. Prelude(action)[1] = item /\ 1 \in DOMAIN Prelude(action)
  BY DEF Prelude, EnteringSafemode
<1>2. item.op = "on_event"
  BY DEF OnEvent
<1> QED
  BY <1>1, <1>2 DEF Range, Answers

\* The first state.
THEOREM InitIInv == Init => IInv
<1> SUFFICES ASSUME Init PROVE IInv
  OBVIOUS
<1>1. st \in State /\ ~Emergency(st)
  BY StartProperty DEF Init, SatelliteInit
<1>2. None \in [Kind -> Nat] /\ None \in [Kind -> Int]
  BY DEF None
<1> QED
  BY <1>1, <1>2 DEF IInv, TypeOK, AnswerPending, Init, SatelliteInit

LEMMA HandleEventStep == IInv /\ HandleEvent => IInv'
<1> SUFFICES ASSUME IInv, HandleEvent PROVE IInv'
  OBVIOUS
<1> DEFINE ev == Head(agenda).event
           cur == IF IsFact(ev) THEN Update(st, ev) ELSE st
           target == IF IsFact(ev) THEN cur ELSE Update(cur, ev)
           todo == TransformTo(cur, target)
           new == [i \in DOMAIN todo |-> Perform(todo[i])]
<1>1. st \in State /\ agenda \in Seq(WorkItem) /\ agenda # <<>>
  BY DEF IInv, TypeOK, HandleEvent, Doing
<1>2. ev \in Event
  BY <1>1, HeadFields DEF HandleEvent, Doing
<1>3. cur \in State /\ target \in State
  BY <1>1, <1>2, UpdateType
<1>4. /\ todo \in Seq(Action)
      /\ Settle(cur, target) \in State
      /\ Emergency(Settle(cur, target)) =>
           \E a \in Range(todo) : a.kind = "EnterSafeMode"
  BY <1>3, TransformToProperty
<1>5. st' = Settle(cur, target) /\ agenda' = new \o Tail(agenda)
  BY DEF HandleEvent
<1> HIDE DEF cur, target, todo
<1>6. new \in Seq(WorkItem) /\ Range(new) = {Perform(a) : a \in Range(todo)}
  BY <1>4, PerformAll
<1> HIDE DEF new
<1>7. agenda' \in Seq(WorkItem) /\ Range(new) \subseteq Range(agenda')
  BY <1>1, <1>5, <1>6, ReplaceHead
<1>8. TypeOK'
  BY <1>4, <1>5, <1>7 DEF IInv, TypeOK, HandleEvent
<1>9. AnswerPending'
  <2> SUFFICES ASSUME Emergency(st')
               PROVE  \E item \in Range(agenda') : Answers(item)
    BY DEF AnswerPending
  <2>1. PICK a \in Range(todo) : a.kind = "EnterSafeMode"
    BY <1>4, <1>5
  <2>2. Perform(a) \in Range(agenda')
    BY <1>6, <1>7
  <2>3. Answers(Perform(a))
    BY <2>1 DEF Answers, Perform
  <2> QED
    BY <2>2, <2>3
<1> QED
  BY <1>8, <1>9 DEF IInv

LEMMA PerformActionStep == IInv /\ PerformAction => IInv'
<1> SUFFICES ASSUME IInv, PerformAction PROVE IInv'
  OBVIOUS
<1> DEFINE action == Head(agenda).action
           new == Prelude(action) \o <<Spawn(action.kind)>>
<1>1. st \in State /\ agenda \in Seq(WorkItem) /\ agenda # <<>>
  BY DEF IInv, TypeOK, PerformAction, Doing
<1>2. action \in Action /\ action.kind \in Kind
  BY <1>1, HeadFields DEF PerformAction, Doing, Action
<1>3. Prelude(action) \in Seq(WorkItem) /\ <<Spawn(action.kind)>> \in Seq(WorkItem)
  BY <1>2, PreludeType DEF Spawn, WorkItem
<1>4. agenda' = new \o Tail(agenda)
  BY DEF PerformAction
<1> DEFINE first == Prelude(action)
           last == <<Spawn(action.kind)>>
<1> HIDE DEF first, last
<1>5. first \o last \in Seq(WorkItem) /\ Range(first \o last) = Range(first) \cup Range(last)
  <2>1. first \in Seq(WorkItem) /\ last \in Seq(WorkItem)
    BY <1>3 DEF first, last
  <2> QED
    BY <2>1, RangeOfConcat
<1>6. /\ new \in Seq(WorkItem)
      /\ Range(new) = Range(Prelude(action)) \cup Range(<<Spawn(action.kind)>>)
  BY <1>5 DEF first, last
<1> HIDE DEF new
<1>7. /\ agenda' \in Seq(WorkItem)
      /\ Range(agenda') = Range(new) \cup Range(Tail(agenda))
      /\ Range(agenda) = {Head(agenda)} \cup Range(Tail(agenda))
  BY <1>1, <1>4, <1>6, ReplaceHead
<1>8. TypeOK'
  BY <1>2, <1>7 DEF IInv, TypeOK, PerformAction
<1>9. AnswerPending'
  <2> SUFFICES ASSUME Running, Emergency(st)
               PROVE  \E item \in Range(agenda') : Answers(item)
    BY DEF AnswerPending, Running, PerformAction
  <2>1. PICK item \in Range(agenda) : Answers(item)
    BY DEF IInv, AnswerPending
  <2>2. CASE item \in Range(Tail(agenda))
    BY <1>7, <2>1, <2>2
  <2>3. CASE item = Head(agenda)
    <3>1. action.kind = "EnterSafeMode"
      BY <2>1, <2>3 DEF Answers, PerformAction, Doing
    <3> QED
      BY <1>2, <1>6, <1>7, <3>1, PreludeAnswers
  <2> QED
    BY <1>7, <2>1, <2>2, <2>3
<1> QED
  BY <1>8, <1>9 DEF IInv

\* When the head of the agenda does not answer, one of the others does.
LEMMA OthersAnswer ==
  ASSUME IInv, agenda # <<>>, ~Answers(Head(agenda)), Running, Emergency(st)
  PROVE  \E item \in Range(Tail(agenda)) : Answers(item)
<1>1. PICK item \in Range(agenda) : Answers(item)
  BY DEF IInv, AnswerPending
<1>2. Range(agenda) = {Head(agenda)} \cup Range(Tail(agenda))
  BY HeadTailRange DEF IInv, TypeOK
<1> QED
  BY <1>1, <1>2

LEMMA SpawnProcessStep == IInv /\ SpawnProcess => IInv'
<1> SUFFICES ASSUME IInv, SpawnProcess PROVE IInv'
  OBVIOUS
<1>1. agenda \in Seq(WorkItem) /\ agenda # <<>> /\ Head(agenda).op = "spawn"
  BY DEF IInv, TypeOK, SpawnProcess, Doing
<1>2. Tail(agenda) \in Seq(WorkItem) /\ Head(agenda).kind \in Kind
  BY <1>1, HeadTailRange, HeadFields
<1>3. TypeOK'
  BY <1>2 DEF IInv, TypeOK, SpawnProcess
<1>4. AnswerPending'
  BY <1>1, OthersAnswer DEF AnswerPending, Answers, SpawnProcess, Running
<1> QED
  BY <1>3, <1>4 DEF IInv

LEMMA SpawnFailsStep == IInv /\ SpawnFails => IInv'
<1> SUFFICES ASSUME IInv, SpawnFails PROVE IInv'
  OBVIOUS
<1> DEFINE new == <<Exited(Head(agenda).kind, FALSE), AssignProcess>>
<1>1. agenda \in Seq(WorkItem) /\ agenda # <<>> /\ Head(agenda).op = "spawn"
  BY DEF IInv, TypeOK, SpawnFails, Doing
<1>2. Head(agenda).kind \in Kind
  BY <1>1, HeadFields
<1>3. Exited(Head(agenda).kind, FALSE) \in WorkItem /\ AssignProcess \in WorkItem
  BY <1>2 DEF Exited, WorkItem
<1>4. new \in Seq(WorkItem)
  <2>1. \A item, next \in WorkItem : <<item, next>> \in Seq(WorkItem)
    OBVIOUS
  <2> QED
    BY <1>3, <2>1
<1>5. agenda' = new \o Tail(agenda)
  BY DEF SpawnFails
<1> HIDE DEF new
<1>6. agenda' \in Seq(WorkItem) /\ Range(Tail(agenda)) \subseteq Range(agenda')
  BY <1>1, <1>4, <1>5, ReplaceHead
<1>7. TypeOK'
  BY <1>6 DEF IInv, TypeOK, SpawnFails
<1>8. AnswerPending'
  BY <1>1, <1>6, OthersAnswer DEF AnswerPending, Answers, SpawnFails, Running
<1> QED
  BY <1>7, <1>8 DEF IInv

LEMMA ExitCallbackStep == IInv /\ ExitCallback => IInv'
<1> SUFFICES ASSUME IInv, ExitCallback PROVE IInv'
  OBVIOUS
<1> DEFINE kind == Head(agenda).kind
           success == Head(agenda).success
           call == Callback(st, kind, success)
           new == call \o <<Remove(kind)>>
<1>1. /\ st \in State /\ agenda \in Seq(WorkItem) /\ agenda # <<>>
      /\ Head(agenda).op = "exited"
  BY DEF IInv, TypeOK, ExitCallback, Doing
<1>2. kind \in Kind /\ success \in BOOLEAN
  BY <1>1, HeadFields
<1>3. call \in Seq(WorkItem)
  BY <1>1, <1>2, CallbackType
<1>4. <<Remove(kind)>> \in Seq(WorkItem)
  BY <1>2 DEF Remove, WorkItem
<1>5. agenda' = new \o Tail(agenda)
  BY DEF ExitCallback
<1>6. st' = IF kind = "LeaveManualMode" THEN [st EXCEPT !.safemode = 0] ELSE st
  BY DEF ExitCallback
<1>7. kind = "LeaveManualMode" /\ st.safemode # 0
        => \E item \in Range(call) : Answers(item)
  <2> SUFFICES ASSUME kind = "LeaveManualMode", st.safemode # 0
               PROVE  \E item \in Range(call) : Answers(item)
    OBVIOUS
  <2>1. call = <<OnEvent(SafeModeReq(TRUE))>>
    BY DEF Callback, ManualModeLeft
  <2>2. OnEvent(SafeModeReq(TRUE)) \in Range(call)
    <3>1. \A item : item \in Range(<<item>>)
      BY DEF Range
    <3> QED
      BY <2>1, <3>1
  <2> QED
    BY <2>2 DEF Answers, OnEvent
<1> HIDE DEF kind, success, call
<1>8. new \in Seq(WorkItem)
  BY <1>3, <1>4, RangeOfConcat
<1>9. Range(new) = Range(call) \cup Range(<<Remove(kind)>>)
  BY <1>3, <1>4, RangeOfConcat
<1> HIDE DEF new
<1>10. /\ agenda' \in Seq(WorkItem)
       /\ Range(agenda') = Range(new) \cup Range(Tail(agenda))
  BY <1>1, <1>5, <1>8, ReplaceHead
<1>11. st' \in State
  BY <1>1, <1>6 DEF State, Safemode
<1>12. TypeOK'
  BY <1>10, <1>11 DEF IInv, TypeOK, ExitCallback
<1>13. AnswerPending'
  <2> SUFFICES ASSUME Running, Emergency(st')
               PROVE  \E item \in Range(agenda') : Answers(item)
    BY DEF AnswerPending, Running, ExitCallback
  <2>1. CASE kind = "LeaveManualMode" /\ st.safemode # 0
    BY <1>7, <1>9, <1>10, <2>1
  <2>2. CASE ~(kind = "LeaveManualMode" /\ st.safemode # 0)
    <3>1. Emergency(st)
      BY <1>1, <1>6, <2>2 DEF State, Emergency, RulesApply, Overheated, BatteryLow
    <3> QED
      BY <1>1, <1>10, <3>1, OthersAnswer DEF Answers
  <2> QED
    BY <2>1, <2>2
<1> QED
  BY <1>12, <1>13 DEF IInv

LEMMA RemoveActionStep == IInv /\ RemoveAction => IInv'
<1> SUFFICES ASSUME IInv, RemoveAction PROVE IInv'
  OBVIOUS
<1>1. agenda \in Seq(WorkItem) /\ agenda # <<>> /\ Head(agenda).op = "remove"
  BY DEF IInv, TypeOK, RemoveAction, Doing
<1>2. Tail(agenda) \in Seq(WorkItem) /\ Head(agenda).kind \in Kind
  BY <1>1, HeadTailRange, HeadFields
<1>3. TypeOK'
  BY <1>2 DEF IInv, TypeOK, RemoveAction
<1>4. AnswerPending'
  BY <1>1, OthersAnswer DEF AnswerPending, Answers, RemoveAction, Running
<1> QED
  BY <1>3, <1>4 DEF IInv

LEMMA AssignToFreedStep == IInv /\ AssignToFreed => IInv'
<1> SUFFICES ASSUME IInv, AssignToFreed PROVE IInv'
  OBVIOUS
<1>1. agenda \in Seq(WorkItem) /\ agenda # <<>> /\ Head(agenda).op = "assign"
  BY DEF IInv, TypeOK, AssignToFreed, Doing
<1>2. Tail(agenda) \in Seq(WorkItem)
  BY <1>1, HeadTailRange
<1>3. TypeOK'
  BY <1>2 DEF IInv, TypeOK, AssignToFreed
<1>4. AnswerPending'
  BY <1>1, OthersAnswer DEF AnswerPending, Answers, AssignToFreed, Doing, Running
<1> QED
  BY <1>3, <1>4 DEF IInv

\* What arrives at an idle daemon meets no unanswered emergency.
LEMMA IdleStep ==
  ASSUME IInv, Idle
  PROVE  ~Emergency(st)
BY DEF IInv, AnswerPending, Idle, Range

LEMMA DeliverStep ==
  ASSUME IInv, NEW ev \in Event, Deliver(ev)
  PROVE  IInv'
<1>1. OnEvent(ev) \in WorkItem
  BY DEF OnEvent, WorkItem
<1>2. agenda' \in Seq(WorkItem)
  BY <1>1 DEF Deliver
<1>3. ~Emergency(st')
  BY IdleStep DEF Deliver
<1> QED
  BY <1>2, <1>3 DEF IInv, TypeOK, AnswerPending, Deliver

LEMMA ScriptExitsStep ==
  ASSUME IInv, NEW kind \in Kind, NEW success \in BOOLEAN, ScriptExits(kind, success)
  PROVE  IInv'
<1>1. Exited(kind, success) \in WorkItem
  BY DEF Exited, WorkItem
<1>2. agenda' \in Seq(WorkItem)
  BY <1>1 DEF ScriptExits
<1>3. children' \in [Kind -> Nat]
  BY DEF ScriptExits, IInv, TypeOK
<1>4. ~Emergency(st')
  BY IdleStep DEF ScriptExits
<1> QED
  BY <1>2, <1>3, <1>4 DEF IInv, TypeOK, AnswerPending, ScriptExits

LEMMA ScriptTerminatedStep ==
  ASSUME IInv, NEW kind \in Kind, ScriptTerminated(kind)
  PROVE  IInv'
<1>1. children' \in [Kind -> Nat]
  BY DEF ScriptTerminated, IInv, TypeOK
<1>2. ~Emergency(st')
  BY IdleStep DEF ScriptTerminated
<1> QED
  BY <1>1, <1>2 DEF IInv, TypeOK, AnswerPending, ScriptTerminated

LEMMA RestartStep == IInv /\ Restart => IInv'
<1> SUFFICES ASSUME IInv, Restart PROVE IInv'
  OBVIOUS
<1>1. st' \in State /\ ~Emergency(st')
  BY StartProperty DEF Restart
<1>2. None \in [Kind -> Nat] /\ None \in [Kind -> Int]
  BY DEF None
<1> QED
  BY <1>1, <1>2 DEF IInv, TypeOK, AnswerPending, Restart

-----------------------------------------------------------------------------
(* The theorems *)

\* The invariant holds in every state of every execution.
THEOREM Invariance == Spec => []IInv
<1>1. Init => IInv
  BY InitIInv
<1>2. IInv /\ [Next]_vars => IInv'
  <2> SUFFICES ASSUME IInv, [Next]_vars PROVE IInv'
    OBVIOUS
  <2>1. CASE HandleEvent \/ PerformAction \/ SpawnProcess \/ SpawnFails
    BY <2>1, HandleEventStep, PerformActionStep, SpawnProcessStep, SpawnFailsStep
  <2>2. CASE ExitCallback \/ RemoveAction \/ AssignToFreed
    BY <2>2, ExitCallbackStep, RemoveActionStep, AssignToFreedStep
  <2>3. CASE StackOverflow \/ Crash
    BY <2>3 DEF StackOverflow, Crash, IInv, TypeOK, AnswerPending, Running
  <2>4. CASE Methods \/ Signals
    BY <2>4, InputType, DeliverStep
  <2>5. CASE ScriptEnds
    BY <2>5, ScriptExitsStep, ScriptTerminatedStep DEF ScriptEnds
  <2>6. CASE Restart
    BY <2>6, RestartStep
  <2>7. CASE UNCHANGED vars
    BY <2>7 DEF vars, IInv, TypeOK, AnswerPending, Running
  <2> QED
    BY <2>1, <2>2, <2>3, <2>4, <2>5, <2>6, <2>7 DEF Next, Handler
<1> QED
  BY <1>1, <1>2, PTL DEF Spec

\* Every variable always has its type, for every input and every fault.
THEOREM TypeCorrect == Spec => []TypeOK
<1>1. IInv => TypeOK
  BY DEF IInv
<1> QED
  BY <1>1, Invariance, PTL

\* Whenever HORST waits for the next event, every emergency outside manual mode
\* has been answered by safe mode: for every order of events and script exits,
\* with scripts that fail or cannot be started, across crashes and restarts.
THEOREM EmergencyAlwaysHandled == Spec => []EmergencyHandled
<1>1. IInv => EmergencyHandled
  BY IdleStep DEF EmergencyHandled
<1> QED
  BY <1>1, Invariance, PTL

-----------------------------------------------------------------------------
(* The reason for which HORST enters safe mode: its inductive invariant *)

ReasonHolds(s, mode) ==
  /\ mode = 1 => Overheated(s)
  /\ mode = 2 => BatteryLow(s) /\ ~Overheated(s)

\* The work items that will set safe mode to mode ...
Announces(item, mode) ==
  \/ item.op = "on_event" /\ item.event = SafeModeSignal(mode)
  \/ /\ item.op = "perform"
     /\ item.action.kind = "EnterSafeMode" /\ item.action.reason = mode

\* ... and those that change what the reasons speak of.
Measurements == {"THMSignal", "EPSSignal"}
Measures(item) == item.op = "on_event" /\ item.event[1] \in Measurements

\* The reason was true when the table gave it, and it is set only after other
\* events have been handled: so no pending item may announce a reason that has
\* become false ...
AnnouncedTruly ==
  \A item \in Range(agenda), mode \in {1, 2} :
    Announces(item, mode) => ReasonHolds(st, mode)

\* ... and none may make it so: a measurement is handled when nothing is
\* pending.
MeasuredFirst == \A item \in Range(agenda) : Measures(item) => Tail(agenda) = <<>>

ReasonInv == IInv /\ AnnouncedTruly /\ MeasuredFirst

-----------------------------------------------------------------------------
(* What the table says of the reason *)

\* The actions that do not say anything false of s.
TrueActions(s) ==
  {a \in Action : a.kind = "EnterSafeMode" => ReasonHolds(s, a.reason)}

\* All actions but EnterSafeMode are silent about the reason, and so is the
\* request for it.
LEMMA SilentActions ==
  ASSUME NEW s
  PROVE  /\ \A kind \in Kind \ {"EnterSafeMode"} :
              Plain(kind) \in Action /\ Plain(kind) \in TrueActions(s)
         /\ EnterSafeMode(3) \in Action /\ EnterSafeMode(3) \in TrueActions(s)
<1>1. ASSUME NEW kind \in Kind \ {"EnterSafeMode"}
      PROVE  Plain(kind) \in Action /\ Plain(kind) \in TrueActions(s)
  BY DEF Plain, Action, Safemode, TrueActions
<1>2. EnterSafeMode(3) \in Action
  BY DEF EnterSafeMode, Action, Kind, Safemode
<1>3. EnterSafeMode(3) \in TrueActions(s)
  BY <1>2 DEF EnterSafeMode, TrueActions, ReasonHolds
<1> QED
  BY <1>1, <1>2, <1>3

\* The emergency rules give a true reason (state.cpp:79-84).
LEMMA EmergencyActionsTrue ==
  ASSUME NEW s \in State
  PROVE  /\ EmergencyActions(s) \in Seq(Action)
         /\ Range(EmergencyActions(s)) \subseteq TrueActions(s)
<1> DEFINE hot == When(Overheated(s), EnterSafeMode(1))
           low == When(~Overheated(s) /\ BatteryLow(s), EnterSafeMode(2))
<1>1. EnterSafeMode(1) \in Action /\ EnterSafeMode(2) \in Action
  BY DEF EnterSafeMode, Action, Kind, Safemode
<1>2. Overheated(s) => EnterSafeMode(1) \in TrueActions(s)
  BY <1>1 DEF TrueActions, ReasonHolds, EnterSafeMode
<1>3. ~Overheated(s) /\ BatteryLow(s) => EnterSafeMode(2) \in TrueActions(s)
  BY <1>1 DEF TrueActions, ReasonHolds, EnterSafeMode
<1>4. hot \in Seq(Action) /\ Range(hot) \subseteq TrueActions(s)
  BY <1>1, <1>2, WhenAll
<1>5. low \in Seq(Action) /\ Range(low) \subseteq TrueActions(s)
  BY <1>1, <1>3, WhenAll
<1>6. EmergencyActions(s) = hot \o low
  BY DEF EmergencyActions
<1> HIDE DEF hot, low
<1> QED
  BY <1>4, <1>5, <1>6, ConcatAll

LEMMA RuleActionsTrue ==
  ASSUME NEW s \in State, NEW target \in State
  PROVE  /\ RuleActions(s, target) \in Seq(Action)
         /\ Range(RuleActions(s, target)) \subseteq TrueActions(s)
<1> DEFINE safe == EmergencyActions(s)
           measuring == When(target.daemon = "WANTMEASURE" /\ FitForMeasuring(s),
                             Plain("TriggerMeasuring"))
           adcs == AdcsActions(s)
<1>1. safe \in Seq(Action) /\ Range(safe) \subseteq TrueActions(s)
  BY EmergencyActionsTrue
<1>2. /\ Plain("TriggerMeasuring") \in Action
      /\ Plain("TriggerMeasuring") \in TrueActions(s)
      /\ Plain("TriggerDetumbling") \in Action
      /\ Plain("TriggerDetumbling") \in TrueActions(s)
      /\ Plain("TriggerSunpointing") \in Action
      /\ Plain("TriggerSunpointing") \in TrueActions(s)
  BY SilentActions DEF Kind
<1>3. measuring \in Seq(Action) /\ Range(measuring) \subseteq TrueActions(s)
  BY <1>2, WhenAll
<1>4. adcs \in Seq(Action) /\ Range(adcs) \subseteq TrueActions(s)
  BY <1>2, WhenAll, ConcatAll DEF AdcsActions
<1>5. CASE RulesApply(s)
  <2>1. RuleActions(s, target) = (safe \o measuring) \o adcs
    BY <1>5 DEF RuleActions
  <2> HIDE DEF safe, measuring, adcs
  <2>2. /\ safe \o measuring \in Seq(Action)
        /\ Range(safe \o measuring) \subseteq TrueActions(s)
    BY <1>1, <1>3, ConcatAll
  <2>3. /\ (safe \o measuring) \o adcs \in Seq(Action)
        /\ Range((safe \o measuring) \o adcs) \subseteq TrueActions(s)
    BY <1>4, <2>2, ConcatAll
  <2> QED
    BY <2>1, <2>3
<1>6. CASE ~RulesApply(s)
  <2>1. RuleActions(s, target) = <<>>
    BY <1>6 DEF RuleActions
  <2>2. Range(<<>>) = {} /\ <<>> \in Seq(Action)
    BY EmptySeq DEF Range
  <2> QED
    BY <2>1, <2>2
<1> QED
  BY <1>5, <1>6

\* Whatever the table asks for says nothing false of the state it leaves.
LEMMA TransformToTrue ==
  ASSUME NEW cur \in State, NEW target \in State
  PROVE  Range(TransformTo(cur, target)) \subseteq TrueActions(Settle(cur, target))
<1> DEFINE s == Settle(cur, target)
           shell == ShellActions(target)
           manual == ManualmodeActions(cur, target)
           safe == SafemodeActions(cur, target)
           leop == LeopActions(cur, target)
           rules == RuleActions(s, target)
<1>1. s \in State
  BY DEF Settle, State
<1>2. /\ \A kind \in {"ShellCommand", "EnterManualMode", "LeaveManualMode",
                      "LeaveSafeMode", "FinishLEOP"} :
           Plain(kind) \in Action /\ Plain(kind) \in TrueActions(s)
      /\ EnterSafeMode(3) \in Action /\ EnterSafeMode(3) \in TrueActions(s)
  BY SilentActions DEF Kind
<1>3. rules \in Seq(Action) /\ Range(rules) \subseteq TrueActions(s)
  BY <1>1, RuleActionsTrue
<1> HIDE DEF s
<1>4. shell \in Seq(Action) /\ Range(shell) \subseteq TrueActions(s)
  <2>1. target.shell_commands \in Nat
    BY DEF State
  <2>2. Plain("ShellCommand") \in Action /\ Plain("ShellCommand") \in TrueActions(s)
    BY <1>2
  <2>3. shell \in [1 .. target.shell_commands -> Action]
    BY <2>2 DEF ShellActions
  <2>4. Range(shell) \subseteq {Plain("ShellCommand")}
    BY DEF ShellActions, Range
  <2> QED
    BY <2>1, <2>2, <2>3, <2>4, SeqDef
<1>5. manual \in Seq(Action) /\ Range(manual) \subseteq TrueActions(s)
  <2>1. /\ Plain("EnterManualMode") \in Action
        /\ Plain("EnterManualMode") \in TrueActions(s)
        /\ Plain("LeaveManualMode") \in Action
        /\ Plain("LeaveManualMode") \in TrueActions(s)
    BY <1>2
  <2> QED
    BY <2>1, WhenAll, ConcatAll DEF ManualmodeActions
<1>6. safe \in Seq(Action) /\ Range(safe) \subseteq TrueActions(s)
  <2>1. /\ Plain("LeaveSafeMode") \in Action
        /\ Plain("LeaveSafeMode") \in TrueActions(s)
    BY <1>2
  <2> QED
    BY <1>2, <2>1, WhenAll, ConcatAll DEF SafemodeActions
<1>7. leop \in Seq(Action) /\ Range(leop) \subseteq TrueActions(s)
  <2>1. Plain("FinishLEOP") \in Action /\ Plain("FinishLEOP") \in TrueActions(s)
    BY <1>2
  <2> QED
    BY <2>1, WhenAll DEF LeopActions
<1>8. TransformTo(cur, target) = (((shell \o manual) \o safe) \o leop) \o rules
  BY DEF TransformTo, s
<1> HIDE DEF shell, manual, safe, leop, rules
<1>9. /\ shell \o manual \in Seq(Action)
      /\ Range(shell \o manual) \subseteq TrueActions(s)
  BY <1>4, <1>5, ConcatAll
<1>10. /\ (shell \o manual) \o safe \in Seq(Action)
       /\ Range((shell \o manual) \o safe) \subseteq TrueActions(s)
  BY <1>6, <1>9, ConcatAll
<1>11. /\ ((shell \o manual) \o safe) \o leop \in Seq(Action)
       /\ Range(((shell \o manual) \o safe) \o leop) \subseteq TrueActions(s)
  BY <1>7, <1>10, ConcatAll
<1>12. Range((((shell \o manual) \o safe) \o leop) \o rules) \subseteq TrueActions(s)
  BY <1>3, <1>11, ConcatAll
<1> QED
  BY <1>8, <1>12 DEF s

\* Only measurements change what a reason speaks of, and only SafeModeSignal, of
\* the facts, the mode.
LEMMA UpdateFrame ==
  ASSUME NEW s \in State, NEW ev \in Event
  PROVE  /\ ev[1] \notin Measurements =>
              /\ Update(s, ev).all_temp = s.all_temp
              /\ Update(s, ev).battery_level = s.battery_level
         /\ ev[1] \notin {"SafeModeSignal", "SafeModeReq"} =>
              Update(s, ev).safemode = s.safemode
         /\ \A mode : ev = SafeModeSignal(mode) => Update(s, ev).safemode = mode
         /\ ev[1] = "SafeModeSignal" => \E mode \in Safemode : ev = SafeModeSignal(mode)
<1>1. CASE ev \in {"SafeModeSignal"} \X Safemode
  <2>1. PICK m \in Safemode : ev = SafeModeSignal(m)
    BY <1>1 DEF SafeModeSignal
  <2>2. Update(s, ev) = [s EXCEPT !.safemode = m]
    BY <2>1 DEF Update, SetSafemode, SafeModeSignal
  <2>3. \A mode : ev = SafeModeSignal(mode) => mode = m
    BY <2>1 DEF SafeModeSignal
  <2>4. ev[1] = "SafeModeSignal"
    BY <2>1 DEF SafeModeSignal
  <2> QED
    BY <2>1, <2>2, <2>3, <2>4 DEF State
<1>2. CASE ev \in {"SafeModeReq"} \X BOOLEAN
  <2>1. ev[1] = "SafeModeReq"
    BY <1>2
  <2>2. Update(s, ev) = RequestSafemode(s, ev[2])
    BY <2>1 DEF Update
  <2>3. \A mode : ev # SafeModeSignal(mode)
    BY <2>1 DEF SafeModeSignal
  <2> QED
    BY <2>1, <2>2, <2>3 DEF State, RequestSafemode
<1>3. CASE ev \in {"ManualModeSignal", "ManualModeReq"} \X BOOLEAN
  BY <1>3 DEF Update, State, SetManualmode, SafeModeSignal
<1>4. CASE ev \in {"ManeuverModeSignal"} \X BOOLEAN
  BY <1>4 DEF Update, State, SetManeuvermode, SafeModeSignal
<1>5. CASE ev \in {"LEOPSignal", "LEOPReq"} \X Leop
  BY <1>5 DEF Update, State, SetLeop, SafeModeSignal
<1>6. CASE ev \in {"THMSignal"} \X Temp
  BY <1>6 DEF Update, State, SetTemp, SafeModeSignal, Measurements
<1>7. CASE ev \in {"EPSSignal"} \X Level
  BY <1>7 DEF Update, State, SetBattery, SafeModeSignal, Measurements
<1>8. CASE ev \in {"PayloadSignal", "PayloadReq"} \X PayloadState
  BY <1>8 DEF Update, State, SetPayload, SafeModeSignal
<1>9. CASE ev \in {"ADCSSignal", "ADCSreqSignal"} \X AdcsState
  <2>1. ev[1] \in {"ADCSSignal", "ADCSreqSignal"}
    BY <1>9
  <2>2. Update(s, ev) \in {SetPointing(s, ev[2]), SetRequested(s, ev[2])}
    BY <2>1 DEF Update
  <2>3. \A mode : ev # SafeModeSignal(mode)
    BY <2>1 DEF SafeModeSignal
  <2> QED
    BY <2>1, <2>2, <2>3 DEF State, SetPointing, SetRequested
<1>10. CASE ev = ShellCommandReq
  BY <1>10 DEF Update, State, ShellCommandReq, AddShellCommand, SafeModeSignal
<1> QED
  BY <1>1, <1>2, <1>3, <1>4, <1>5, <1>6, <1>7, <1>8, <1>9, <1>10 DEF Event

-----------------------------------------------------------------------------
(* Every step keeps the invariant *)

\* The head of the agenda is replaced by items that measure nothing and
\* announce nothing false; the rest stays true unless the step is a measurement,
\* and then there is no rest.
LEMMA PendingStaysTrue ==
  ASSUME ReasonInv, agenda # <<>>,
         NEW new \in Seq(WorkItem), agenda' = new \o Tail(agenda),
         \A item \in Range(new) : ~Measures(item),
         \A item \in Range(new), mode \in {1, 2} :
           Announces(item, mode) => ReasonHolds(st', mode),
         \/ Tail(agenda) = <<>>
         \/ st'.all_temp = st.all_temp /\ st'.battery_level = st.battery_level
  PROVE  AnnouncedTruly' /\ MeasuredFirst'
<1>1. /\ Range(agenda') = Range(new) \cup Range(Tail(agenda))
      /\ Range(Tail(agenda)) \subseteq Range(agenda)
  BY ReplaceHead DEF ReasonInv, IInv, TypeOK
<1>2. Tail(agenda) = <<>> => Range(Tail(agenda)) = {}
  BY DEF Range
<1>3. \A item \in Range(Tail(agenda)) : ~Measures(item)
  BY <1>1, <1>2 DEF ReasonInv, MeasuredFirst
<1>4. \A item \in Range(Tail(agenda)), mode \in {1, 2} :
        Announces(item, mode) => ReasonHolds(st', mode)
  BY <1>1, <1>2 DEF ReasonInv, AnnouncedTruly, ReasonHolds, Overheated, BatteryLow
<1>5. AnnouncedTruly'
  BY <1>1, <1>4 DEF AnnouncedTruly, Announces
<1>6. MeasuredFirst'
  BY <1>1, <1>3 DEF MeasuredFirst, Measures
<1> QED
  BY <1>5, <1>6

\* A call returns and nothing is added.
LEMMA ReturnStaysTrue ==
  ASSUME ReasonInv, agenda # <<>>, agenda' = Tail(agenda), st' = st
  PROVE  AnnouncedTruly' /\ MeasuredFirst'
<1>1. Tail(agenda) \in Seq(WorkItem)
  BY HeadTailRange DEF ReasonInv, IInv, TypeOK
<1>2. agenda' = <<>> \o Tail(agenda)
  BY <1>1
<1>3. <<>> \in Seq(WorkItem) /\ Range(<<>>) = {}
  BY DEF Range
<1> QED
  BY <1>2, <1>3, PendingStaysTrue

LEMMA HandleEventTrue ==
  ASSUME ReasonInv, HandleEvent
  PROVE  /\ AnnouncedTruly' /\ MeasuredFirst'
         /\ \A mode \in {1, 2} : st'.safemode = mode /\ st.safemode # mode
              => ReasonHolds(st, mode)
<1> DEFINE ev == Head(agenda).event
           cur == IF IsFact(ev) THEN Update(st, ev) ELSE st
           target == IF IsFact(ev) THEN cur ELSE Update(cur, ev)
           todo == TransformTo(cur, target)
           new == [i \in DOMAIN todo |-> Perform(todo[i])]
<1>1. /\ st \in State /\ agenda \in Seq(WorkItem) /\ agenda # <<>>
      /\ Head(agenda).op = "on_event"
  BY DEF ReasonInv, IInv, TypeOK, HandleEvent, Doing
<1>2. ev \in Event /\ Head(agenda) \in Range(agenda)
  BY <1>1, HeadFields, HeadTailRange
<1>3. /\ Measures(Head(agenda)) => Tail(agenda) = <<>>
      /\ \A mode \in {1, 2} : ev = SafeModeSignal(mode) => ReasonHolds(st, mode)
  BY <1>1, <1>2 DEF ReasonInv, MeasuredFirst, AnnouncedTruly, Announces
<1>4. cur \in State /\ target \in State
  BY <1>1, <1>2, UpdateType
<1>5. ev[1] \notin Measurements =>
        cur.all_temp = st.all_temp /\ cur.battery_level = st.battery_level
  BY <1>1, <1>2, UpdateFrame
<1>6. cur.safemode # st.safemode => ev = SafeModeSignal(cur.safemode)
  BY <1>1, <1>2, UpdateFrame DEF IsFact, Requests
<1>7. todo \in Seq(Action) /\ Range(todo) \subseteq TrueActions(Settle(cur, target))
  BY <1>4, TransformToProperty, TransformToTrue
<1>8. st' = Settle(cur, target) /\ agenda' = new \o Tail(agenda)
  BY DEF HandleEvent
<1> HIDE DEF cur, target, todo
<1>9. /\ st'.all_temp = cur.all_temp /\ st'.battery_level = cur.battery_level
      /\ st'.safemode = cur.safemode
  BY <1>4, <1>8 DEF Settle, State
<1>10. new \in Seq(WorkItem) /\ Range(new) = {Perform(a) : a \in Range(todo)}
  BY <1>7, PerformAll
<1> HIDE DEF new
<1>11. \A item \in Range(new) : ~Measures(item)
  BY <1>10 DEF Measures, Perform
<1>12. \A item \in Range(new), mode \in {1, 2} :
         Announces(item, mode) => ReasonHolds(st', mode)
  BY <1>7, <1>8, <1>10 DEF Announces, Perform, TrueActions
<1>13. \/ Tail(agenda) = <<>>
       \/ st'.all_temp = st.all_temp /\ st'.battery_level = st.battery_level
  BY <1>1, <1>3, <1>5, <1>9 DEF Measures
<1>14. AnnouncedTruly' /\ MeasuredFirst'
  BY <1>1, <1>8, <1>10, <1>11, <1>12, <1>13, PendingStaysTrue
<1> QED
  BY <1>3, <1>6, <1>9, <1>14

\* An event that neither measures nor sets safe mode.
Silent(ev) == ev[1] \notin Measurements \cup {"SafeModeSignal"}

LEMMA SilentEvent ==
  ASSUME NEW ev, Silent(ev)
  PROVE  ~Measures(OnEvent(ev)) /\ \A mode : ~Announces(OnEvent(ev), mode)
<1>1. ev[1] \notin Measurements /\ \A mode : ev # SafeModeSignal(mode)
  BY DEF Silent, SafeModeSignal
<1>2. OnEvent(ev).op = "on_event" /\ OnEvent(ev).event = ev
  BY DEF OnEvent
<1> QED
  BY <1>1, <1>2 DEF Measures, Announces

LEMMA SilentItem ==
  ASSUME NEW ev, Silent(ev)
  PROVE  \A item \in Range(<<OnEvent(ev)>>) :
           ~Measures(item) /\ \A mode : ~Announces(item, mode)
<1>1. Range(<<OnEvent(ev)>>) = {OnEvent(ev)}
  BY DEF Range
<1> QED
  BY <1>1, SilentEvent

LEMMA ModeEvent ==
  ASSUME NEW reason
  PROVE  /\ ~Measures(OnEvent(SafeModeSignal(reason)))
         /\ \A mode : Announces(OnEvent(SafeModeSignal(reason)), mode) => reason = mode
<1> DEFINE item == OnEvent(SafeModeSignal(reason))
<1>1. item.op = "on_event" /\ item.event = SafeModeSignal(reason)
  BY DEF OnEvent
<1>2. SafeModeSignal(reason)[1] \notin Measurements
  BY DEF SafeModeSignal, Measurements
<1>3. \A mode : SafeModeSignal(reason) = SafeModeSignal(mode) => reason = mode
  BY DEF SafeModeSignal
<1> HIDE DEF item
<1>4. ~Measures(item) /\ \A mode : Announces(item, mode) => reason = mode
  BY <1>1, <1>2, <1>3 DEF Measures, Announces
<1> QED
  BY <1>4 DEF item

\* What perform does first announces what the action said.
LEMMA PreludeTrue ==
  ASSUME NEW action \in Action
  PROVE  \A item \in Range(Prelude(action)) :
           /\ ~Measures(item)
           /\ \A mode \in {1, 2} : Announces(item, mode)
                => action.kind = "EnterSafeMode" /\ action.reason = mode
<1>1. /\ \A on : Silent(ManualModeSignal(on)) /\ Silent(ManeuverModeSignal(on))
      /\ Silent(LEOPSignal("DONE"))
  BY DEF Silent, Measurements, ManualModeSignal, ManeuverModeSignal, LEOPSignal
<1>2. \A item : Range(<<item>>) = {item}
  BY DEF Range
<1>3. CASE action.kind = "EnterManualMode"
  <2>1. Prelude(action) = <<OnEvent(ManualModeSignal(TRUE))>>
    BY <1>3 DEF Prelude, EnteringManualmode
  <2>2. Silent(ManualModeSignal(TRUE))
    BY <1>1
  <2> QED
    BY <2>1, <2>2, SilentItem
<1>4. CASE action.kind = "LeaveManualMode"
  <2>1. Prelude(action) = <<OnEvent(ManualModeSignal(FALSE))>>
    BY <1>4 DEF Prelude, LeavingManualmode
  <2>2. Silent(ManualModeSignal(FALSE))
    BY <1>1
  <2> QED
    BY <2>1, <2>2, SilentItem
<1>5. CASE action.kind = "EnterSafeMode"
  <2>1. Prelude(action) = <<OnEvent(SafeModeSignal(action.reason)),
                            OnEvent(ManeuverModeSignal(FALSE))>>
    BY <1>5 DEF Prelude, EnteringSafemode
  <2>2. \A item, next : Range(<<item, next>>) = {item, next}
    <3> TAKE item, next
    <3>1. DOMAIN <<item, next>> = {1, 2}
      OBVIOUS
    <3> QED
      BY <3>1 DEF Range
  <2>3. Range(Prelude(action)) = {OnEvent(SafeModeSignal(action.reason)),
                                  OnEvent(ManeuverModeSignal(FALSE))}
    BY <2>1, <2>2
  <2>4. Silent(ManeuverModeSignal(FALSE))
    BY <1>1
  <2>5. /\ ~Measures(OnEvent(ManeuverModeSignal(FALSE)))
        /\ \A mode : ~Announces(OnEvent(ManeuverModeSignal(FALSE)), mode)
    BY <2>4, SilentEvent
  <2>6. /\ ~Measures(OnEvent(SafeModeSignal(action.reason)))
        /\ \A mode : Announces(OnEvent(SafeModeSignal(action.reason)), mode)
             => action.reason = mode
    BY ModeEvent
  <2> QED
    BY <1>5, <2>3, <2>5, <2>6
<1>6. CASE action.kind = "LeaveSafeMode"
  <2>1. Prelude(action) = <<OnEvent(SafeModeSignal(0))>>
    BY <1>6 DEF Prelude, LeavingSafemode
  <2>2. Range(Prelude(action)) = {OnEvent(SafeModeSignal(0))}
    BY <1>2, <2>1
  <2>3. /\ ~Measures(OnEvent(SafeModeSignal(0)))
        /\ \A mode : Announces(OnEvent(SafeModeSignal(0)), mode) => 0 = mode
    BY ModeEvent
  <2> QED
    BY <2>2, <2>3
<1>7. CASE action.kind = "FinishLEOP"
  <2>1. Prelude(action) = <<OnEvent(LEOPSignal("DONE"))>>
    BY <1>7 DEF Prelude, FinishingLeop
  <2>2. Silent(LEOPSignal("DONE"))
    BY <1>1
  <2> QED
    BY <2>1, <2>2, SilentItem
<1>8. CASE action.kind \notin {"EnterManualMode", "LeaveManualMode",
                              "EnterSafeMode", "LeaveSafeMode", "FinishLEOP"}
  BY <1>8 DEF Prelude, Range
<1> QED
  BY <1>3, <1>4, <1>5, <1>6, <1>7, <1>8

LEMMA PerformActionTrue ==
  ASSUME ReasonInv, PerformAction
  PROVE  AnnouncedTruly' /\ MeasuredFirst'
<1> DEFINE action == Head(agenda).action
           new == Prelude(action) \o <<Spawn(action.kind)>>
<1>1. /\ agenda \in Seq(WorkItem) /\ agenda # <<>>
      /\ Head(agenda).op = "perform" /\ st' = st
  BY DEF ReasonInv, IInv, TypeOK, PerformAction, Doing
<1>2. action \in Action /\ action.kind \in Kind /\ Head(agenda) \in Range(agenda)
  BY <1>1, HeadFields, HeadTailRange DEF Action
<1>3. \A mode \in {1, 2} : action.kind = "EnterSafeMode" /\ action.reason = mode
        => ReasonHolds(st', mode)
  BY <1>1, <1>2 DEF ReasonInv, AnnouncedTruly, Announces
<1>4. Prelude(action) \in Seq(WorkItem) /\ <<Spawn(action.kind)>> \in Seq(WorkItem)
  BY <1>2, PreludeType DEF Spawn, WorkItem
<1>5. new \in Seq(WorkItem)
  BY <1>4, RangeOfConcat
<1>6. Range(new) = Range(Prelude(action)) \cup Range(<<Spawn(action.kind)>>)
  <2> DEFINE first == Prelude(action)
             last == <<Spawn(action.kind)>>
  <2>1. first \in Seq(WorkItem) /\ last \in Seq(WorkItem)
    BY <1>4
  <2> HIDE DEF first, last
  <2>2. Range(first \o last) = Range(first) \cup Range(last)
    BY <2>1, RangeOfConcat
  <2> QED
    BY <2>2 DEF first, last
<1>7. Range(<<Spawn(action.kind)>>) = {Spawn(action.kind)}
  BY DEF Range
<1>8. ~Measures(Spawn(action.kind)) /\ \A mode : ~Announces(Spawn(action.kind), mode)
  BY DEF Measures, Announces, Spawn
<1>9. agenda' = new \o Tail(agenda)
  BY DEF PerformAction
<1>10. \A item \in Range(Prelude(action)) :
         /\ ~Measures(item)
         /\ \A mode \in {1, 2} : Announces(item, mode) => ReasonHolds(st', mode)
  BY <1>2, <1>3, PreludeTrue
<1> HIDE DEF new, action
<1>11. /\ \A item \in Range(new) : ~Measures(item)
       /\ \A item \in Range(new), mode \in {1, 2} :
            Announces(item, mode) => ReasonHolds(st', mode)
  BY <1>6, <1>7, <1>8, <1>10
<1> QED
  BY <1>1, <1>5, <1>9, <1>11, PendingStaysTrue

\* No exit callback sets safe mode to a reason, or measures anything.
LEMMA CallbackTrue ==
  ASSUME NEW s, NEW kind \in Kind, NEW success \in BOOLEAN
  PROVE  \A item \in Range(Callback(s, kind, success)) :
           ~Measures(item) /\ \A mode \in {1, 2} : ~Announces(item, mode)
<1> DEFINE raised == Callback(s, kind, success)
<1>1. /\ Silent(SafeModeReq(TRUE))
      /\ Silent(ADCSreqSignal("DETUMB")) /\ Silent(ADCSreqSignal("SUN"))
      /\ Silent(PayloadSignal("MEASURING"))
  BY DEF Silent, Measurements, SafeModeReq, ADCSreqSignal, PayloadSignal
<1>2. \/ raised = <<>>
      \/ raised = <<OnEvent(SafeModeSignal(0))>>
      \/ \E ev : Silent(ev) /\ raised = <<OnEvent(ev)>>
  BY <1>1 DEF Callback, ManualModeLeft, SafemodeScriptEnded, DetumblingTriggered,
              SunpointingTriggered, MeasuringTriggered
<1> HIDE DEF raised
<1>3. CASE raised = <<>>
  BY <1>3 DEF Range, raised
<1>4. CASE raised = <<OnEvent(SafeModeSignal(0))>>
  <2>1. Range(<<OnEvent(SafeModeSignal(0))>>) = {OnEvent(SafeModeSignal(0))}
    BY DEF Range
  <2>2. /\ ~Measures(OnEvent(SafeModeSignal(0)))
        /\ \A mode : Announces(OnEvent(SafeModeSignal(0)), mode) => 0 = mode
    BY ModeEvent
  <2>3. \A item \in Range(raised) :
          ~Measures(item) /\ \A mode \in {1, 2} : ~Announces(item, mode)
    BY <1>4, <2>1, <2>2
  <2> QED
    BY <2>3 DEF raised
<1>5. CASE \E ev : Silent(ev) /\ raised = <<OnEvent(ev)>>
  <2>1. PICK ev : Silent(ev) /\ raised = <<OnEvent(ev)>>
    BY <1>5
  <2>2. \A item \in Range(raised) :
          ~Measures(item) /\ \A mode : ~Announces(item, mode)
    BY <2>1, SilentItem
  <2> QED
    BY <2>2 DEF raised
<1> QED
  BY <1>2, <1>3, <1>4, <1>5

LEMMA ExitCallbackTrue ==
  ASSUME ReasonInv, ExitCallback
  PROVE  AnnouncedTruly' /\ MeasuredFirst'
<1> DEFINE kind == Head(agenda).kind
           success == Head(agenda).success
           call == Callback(st, kind, success)
           new == call \o <<Remove(kind)>>
<1>1. /\ st \in State /\ agenda \in Seq(WorkItem) /\ agenda # <<>>
      /\ Head(agenda).op = "exited"
  BY DEF ReasonInv, IInv, TypeOK, ExitCallback, Doing
<1>2. kind \in Kind /\ success \in BOOLEAN
  BY <1>1, HeadFields
<1>3. agenda' = new \o Tail(agenda)
  BY DEF ExitCallback
<1>4. st'.all_temp = st.all_temp /\ st'.battery_level = st.battery_level
  BY <1>1 DEF ExitCallback, State
<1>5. call \in Seq(WorkItem)
  BY <1>1, <1>2, CallbackType
<1>6. <<Remove(kind)>> \in Seq(WorkItem)
  BY <1>2 DEF Remove, WorkItem
<1>7. \A item \in Range(call) :
        ~Measures(item) /\ \A mode \in {1, 2} : ~Announces(item, mode)
  BY <1>2, CallbackTrue
<1>8. Range(<<Remove(kind)>>) = {Remove(kind)}
  BY DEF Range
<1>9. ~Measures(Remove(kind)) /\ \A mode : ~Announces(Remove(kind), mode)
  BY DEF Measures, Announces, Remove
<1> HIDE DEF kind, success, call
<1>10. new \in Seq(WorkItem)
  BY <1>5, <1>6, RangeOfConcat
<1>11. Range(new) = Range(call) \cup Range(<<Remove(kind)>>)
  BY <1>5, <1>6, RangeOfConcat
<1> HIDE DEF new
<1>12. /\ \A item \in Range(new) : ~Measures(item)
       /\ \A item \in Range(new), mode \in {1, 2} : ~Announces(item, mode)
  BY <1>7, <1>8, <1>9, <1>11
<1> QED
  BY <1>1, <1>3, <1>4, <1>10, <1>12, PendingStaysTrue

LEMMA SpawnFailsTrue ==
  ASSUME ReasonInv, SpawnFails
  PROVE  AnnouncedTruly' /\ MeasuredFirst'
<1> DEFINE item == Exited(Head(agenda).kind, FALSE)
           new == <<item, AssignProcess>>
<1>1. /\ agenda \in Seq(WorkItem) /\ agenda # <<>>
      /\ Head(agenda).op = "spawn" /\ st' = st
  BY DEF ReasonInv, IInv, TypeOK, SpawnFails, Doing
<1>2. item \in WorkItem /\ AssignProcess \in WorkItem
  BY <1>1, HeadFields DEF Exited, WorkItem
<1>3. ~Measures(item) /\ \A mode : ~Announces(item, mode)
  BY DEF Measures, Announces, Exited
<1>4. ~Measures(AssignProcess) /\ \A mode : ~Announces(AssignProcess, mode)
  BY DEF Measures, Announces, AssignProcess
<1>5. agenda' = new \o Tail(agenda)
  BY DEF SpawnFails
<1> HIDE DEF item
<1>6. new \in Seq(WorkItem)
  BY <1>2
<1>7. Range(new) = {item, AssignProcess}
  BY DEF Range
<1> HIDE DEF new
<1> QED
  BY <1>1, <1>3, <1>4, <1>5, <1>6, <1>7, PendingStaysTrue

\* What arrives at an idle daemon is pending alone.
LEMMA ArrivalTrue ==
  ASSUME NEW item, agenda' = <<item>>, \A mode \in {1, 2} : ~Announces(item, mode)
  PROVE  AnnouncedTruly' /\ MeasuredFirst'
<1>1. Range(agenda') = {item} /\ Tail(agenda') = <<>>
  BY DEF Range
<1> QED
  BY <1>1 DEF AnnouncedTruly, MeasuredFirst, Announces, Measures

\* No handler of D-Bus announces a reason: setSafemode is a request.
LEMMA InputTrue ==
  ASSUME Methods \/ Signals
  PROVE  AnnouncedTruly' /\ MeasuredFirst'
<1>1. \E ev : Deliver(ev) /\ ev[1] # "SafeModeSignal"
  <2>1. CASE dbus_exec
    BY <2>1 DEF dbus_exec, ShellCommandReq
  <2>2. CASE dbus_safemode
    BY <2>2 DEF dbus_safemode, SafeModeReq
  <2>3. CASE dbus_maneuvermode
    BY <2>3 DEF dbus_maneuvermode, ManeuverModeSignal
  <2>4. CASE dbus_manualmode
    BY <2>4 DEF dbus_manualmode, ManualModeReq
  <2>5. CASE thmStateChange
    BY <2>5 DEF thmStateChange, THMSignal
  <2>6. CASE epsChargeStateChange
    BY <2>6 DEF epsChargeStateChange, EPSSignal
  <2>7. CASE leopStateChange
    BY <2>7 DEF leopStateChange, LEOPReq
  <2>8. CASE payloadConditionsNotFulfilled \/ payloadMeasurementDone
    BY <2>8 DEF payloadConditionsNotFulfilled, payloadMeasurementDone, PayloadSignal
  <2>9. CASE payloadConditionsFulfilled
    BY <2>9 DEF payloadConditionsFulfilled, PayloadReq
  <2>10. CASE adcsStateReached
    BY <2>10 DEF adcsStateReached, ADCSSignal
  <2> QED
    BY <2>1, <2>2, <2>3, <2>4, <2>5, <2>6, <2>7, <2>8, <2>9, <2>10
       DEF Methods, Signals
<1>2. PICK ev : Deliver(ev) /\ ev[1] # "SafeModeSignal"
  BY <1>1
<1>3. agenda' = <<OnEvent(ev)>>
  BY <1>2 DEF Deliver
<1>4. \A mode : ~Announces(OnEvent(ev), mode)
  BY <1>2 DEF Announces, OnEvent, SafeModeSignal
<1> QED
  BY <1>3, <1>4, ArrivalTrue

\* The steps that add nothing to the agenda, and those that empty it.
LEMMA OtherStepsTrue ==
  ASSUME ReasonInv,
         \/ SpawnProcess \/ RemoveAction \/ AssignToFreed \/ StackOverflow
         \/ ScriptEnds \/ Crash \/ Restart \/ UNCHANGED vars
  PROVE  AnnouncedTruly' /\ MeasuredFirst'
<1>1. CASE SpawnProcess \/ RemoveAction \/ AssignToFreed
  BY <1>1, ReturnStaysTrue DEF SpawnProcess, RemoveAction, AssignToFreed, Doing
<1>2. ASSUME NEW kind \in Kind, NEW success \in BOOLEAN, ScriptExits(kind, success)
      PROVE  AnnouncedTruly' /\ MeasuredFirst'
  <2>1. agenda' = <<Exited(kind, success)>>
    BY <1>2 DEF ScriptExits
  <2>2. \A mode : ~Announces(Exited(kind, success), mode)
    BY DEF Announces, Exited
  <2> QED
    BY <2>1, <2>2, ArrivalTrue
<1>3. CASE UNCHANGED <<st, agenda>>
  BY <1>3 DEF ReasonInv, AnnouncedTruly, MeasuredFirst
<1>4. CASE Restart
  BY <1>4 DEF Restart, AnnouncedTruly, MeasuredFirst, Range
<1> QED
  BY <1>1, <1>2, <1>3, <1>4
     DEF StackOverflow, ScriptEnds, ScriptTerminated, Crash, vars

\* Safe mode is given a reason by no step but the handling of an event.
LEMMA ReasonSetByEvent ==
  ASSUME IInv, [Next]_vars, ~HandleEvent
  PROVE  \A mode \in {1, 2} : st'.safemode = mode => st.safemode = mode
<1>1. CASE ExitCallback
  BY <1>1 DEF ExitCallback, IInv, TypeOK, State
<1>2. CASE Restart
  BY <1>2 DEF Restart, Start, InitialState
<1>3. CASE UNCHANGED st
  BY <1>3
<1>4. Methods \/ Signals => UNCHANGED st
  BY InputType DEF Deliver
<1> QED
  BY <1>1, <1>2, <1>3, <1>4
     DEF Next, Handler, PerformAction, SpawnProcess, SpawnFails, RemoveAction,
         AssignToFreed, StackOverflow, ScriptEnds, ScriptExits, ScriptTerminated,
         Crash, vars

-----------------------------------------------------------------------------
(* The theorems *)

\* A step is true to the reason if the mode it sets is.
LEMMA ReasonStep ==
  ASSUME ReasonInv, [Next]_vars
  PROVE  /\ AnnouncedTruly' /\ MeasuredFirst'
         /\ \A mode \in {1, 2} : st'.safemode = mode /\ st.safemode # mode
              => ReasonHolds(st, mode)
<1>1. CASE HandleEvent
  BY <1>1, HandleEventTrue
<1>2. CASE ~HandleEvent
  <2>1. \A mode \in {1, 2} : st'.safemode = mode => st.safemode = mode
    BY <1>2, ReasonSetByEvent DEF ReasonInv
  <2>2. AnnouncedTruly' /\ MeasuredFirst'
    BY <1>2, PerformActionTrue, SpawnFailsTrue, ExitCallbackTrue, InputTrue,
       OtherStepsTrue DEF Next, Handler
  <2> QED
    BY <2>1, <2>2
<1> QED
  BY <1>1, <1>2

THEOREM ReasonInvariance == Spec => []ReasonInv
<1>1. Init => AnnouncedTruly /\ MeasuredFirst
  BY DEF Init, SatelliteInit, AnnouncedTruly, MeasuredFirst, Range
<1>2. IInv /\ AnnouncedTruly /\ MeasuredFirst /\ [Next]_vars
        => (AnnouncedTruly /\ MeasuredFirst)'
  BY ReasonStep DEF ReasonInv
<1>3. ReasonInv <=> IInv /\ (AnnouncedTruly /\ MeasuredFirst)
  BY DEF ReasonInv
<1> QED
  BY <1>1, <1>2, <1>3, Invariance, PTL DEF Spec

\* The reason announced for safe mode is true when safe mode is set, whatever is
\* handled between the decision of the table and that moment: 1 in a temperature
\* alarm, 2 with a low battery and no alarm.
THEOREM ReasonAlwaysTruthful == Spec => ReasonTruthful
<1>1. ReasonInv /\ [Next]_vars
        => /\ st'.safemode = 1 /\ st.safemode # 1 => Overheated(st)
           /\ st'.safemode = 2 /\ st.safemode # 2 => BatteryLow(st) /\ ~Overheated(st)
  BY ReasonStep DEF ReasonHolds
<1> QED
  BY <1>1, ReasonInvariance, PTL DEF Spec, ReasonTruthful

=============================================================================
