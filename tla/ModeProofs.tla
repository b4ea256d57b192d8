------------------------------ MODULE ModeProofs ------------------------------
(***************************************************************************)
(* What HORST starts fits the mode the satellite is in when it is started, *)
(* and every mode it announces has its script: TriggersFit,                *)
(* MeasuringOnlyWhenFit and ModeChangeRunsScript of Horst, for every value *)
(* of the constants.                                                       *)
(***************************************************************************)
EXTENDS HorstProofs

-----------------------------------------------------------------------------
(* What an event changes in the state *)

LEMMA UpdateFields ==
  ASSUME NEW s \in State, NEW ev \in Event
  PROVE  LET new == Update(s, ev)
         IN /\ new.safemode = IF ev[1] = "SafeModeSignal" THEN ev[2]
                              ELSE IF ev[1] = "SafeModeReq" THEN IF ev[2] THEN 1 ELSE 0
                              ELSE s.safemode
            /\ new.manualmode = IF ev[1] \in {"ManualModeSignal", "ManualModeReq"}
                                THEN ev[2] ELSE s.manualmode
            /\ new.maneuvermode = IF ev[1] = "ManeuverModeSignal"
                                  THEN ev[2] ELSE s.maneuvermode
            /\ new.leop = IF ev[1] \in {"LEOPSignal", "LEOPReq"}
                          THEN ev[2] ELSE s.leop
            /\ new.daemon = IF ev[1] \in {"PayloadSignal", "PayloadReq"}
                            THEN ev[2] ELSE s.daemon
            /\ new.shell_commands = IF ev[1] = "ShellCommandReq"
                                    THEN s.shell_commands + 1 ELSE s.shell_commands
            /\ ev[1] \notin {"ADCSSignal", "ADCSreqSignal"} =>
                 new.pointing = s.pointing /\ new.requested = s.requested
            /\ ev[1] # "THMSignal" => new.all_temp = s.all_temp
            /\ ev[1] # "EPSSignal" => new.battery_level = s.battery_level
<1>1. CASE ev \in {"SafeModeSignal"} \X Safemode
  BY <1>1 DEF Update, State, SetSafemode
<1>2. CASE ev \in {"SafeModeReq"} \X BOOLEAN
  <2>1. ev[1] = "SafeModeReq"
    BY <1>2
  <2>2. Update(s, ev) = RequestSafemode(s, ev[2])
    BY <2>1 DEF Update
  <2> QED
    BY <2>1, <2>2 DEF State, RequestSafemode
<1>3. CASE ev \in {"ManualModeSignal", "ManualModeReq"} \X BOOLEAN
  BY <1>3 DEF Update, State, SetManualmode
<1>4. CASE ev \in {"ManeuverModeSignal"} \X BOOLEAN
  BY <1>4 DEF Update, State, SetManeuvermode
<1>5. CASE ev \in {"LEOPSignal", "LEOPReq"} \X Leop
  BY <1>5 DEF Update, State, SetLeop
<1>6. CASE ev \in {"THMSignal"} \X Temp
  BY <1>6 DEF Update, State, SetTemp
<1>7. CASE ev \in {"EPSSignal"} \X Level
  BY <1>7 DEF Update, State, SetBattery
<1>8. CASE ev \in {"PayloadSignal", "PayloadReq"} \X PayloadState
  BY <1>8 DEF Update, State, SetPayload
<1>9. CASE ev \in {"ADCSSignal", "ADCSreqSignal"} \X AdcsState
  <2>1. ev[1] \in {"ADCSSignal", "ADCSreqSignal"}
    BY <1>9
  <2>2. Update(s, ev) \in {SetPointing(s, ev[2]), SetRequested(s, ev[2])}
    BY <2>1 DEF Update
  <2> QED
    BY <2>1, <2>2 DEF State, SetPointing, SetRequested
<1>10. CASE ev = ShellCommandReq
  BY <1>10 DEF Update, State, ShellCommandReq, AddShellCommand
<1> QED
  BY <1>1, <1>2, <1>3, <1>4, <1>5, <1>6, <1>7, <1>8, <1>9, <1>10 DEF Event

-----------------------------------------------------------------------------
(* The events that HORST raises itself, and those it is sent *)

Raised == {ev \in Event :
  \/ ev[1] \in {"SafeModeSignal", "ManualModeSignal", "ADCSreqSignal"}
  \/ ev \in {SafeModeReq(TRUE), ManeuverModeSignal(FALSE), LEOPSignal("DONE"),
             PayloadSignal("MEASURING")}}

Sent == {ev \in Event :
  /\ ev[1] \notin {"SafeModeSignal", "ManualModeSignal", "ADCSreqSignal", "LEOPSignal"}
  /\ ev[1] = "PayloadSignal" => ev[2] = "IDLE"}

\* The mode an event announces is put into effect by a script of this kind.
Announced(ev) ==
  CASE ev[1] = "SafeModeSignal" /\ ev[2] # 0      -> {"EnterSafeMode"}
    [] ev[1] = "ManualModeSignal" /\ ev[2]        -> {"EnterManualMode"}
    [] ev[1] = "ManualModeSignal" /\ ~ev[2]       -> {"LeaveManualMode"}
    [] ev[1] = "LEOPSignal" /\ ev[2] = "DONE"     -> {"FinishLEOP"}
    [] OTHER                                      -> {}

LEMMA RaisedEvents ==
  /\ \A mode \in Safemode : SafeModeSignal(mode) \in Raised
  /\ \A on \in BOOLEAN : ManualModeSignal(on) \in Raised
  /\ {SafeModeReq(TRUE), ManeuverModeSignal(FALSE), LEOPSignal("DONE"),
      PayloadSignal("MEASURING"), ADCSreqSignal("DETUMB"), ADCSreqSignal("SUN")}
       \subseteq Raised
<1>1. \A mode \in Safemode : SafeModeSignal(mode) \in Raised
  BY DEF SafeModeSignal, Raised, Event
<1>2. \A on \in BOOLEAN : ManualModeSignal(on) \in Raised
  BY DEF ManualModeSignal, Raised, Event
<1>3. ADCSreqSignal("DETUMB") \in Raised /\ ADCSreqSignal("SUN") \in Raised
  BY DEF ADCSreqSignal, Raised, Event, AdcsState
<1>4. SafeModeReq(TRUE) \in Raised /\ ManeuverModeSignal(FALSE) \in Raised
  BY DEF SafeModeReq, ManeuverModeSignal, Raised, Event
<1>5. LEOPSignal("DONE") \in Raised
  BY DEF LEOPSignal, Leop, Raised, Event
<1>6. PayloadSignal("MEASURING") \in Raised
  BY DEF PayloadSignal, PayloadState, Raised, Event
<1> QED
  BY <1>1, <1>2, <1>3, <1>4, <1>5, <1>6

LEMMA AnnouncedKinds ==
  /\ \A mode : Announced(SafeModeSignal(mode))
                = IF mode = 0 THEN {} ELSE {"EnterSafeMode"}
  /\ Announced(ManualModeSignal(TRUE)) = {"EnterManualMode"}
  /\ Announced(ManualModeSignal(FALSE)) = {"LeaveManualMode"}
  /\ Announced(LEOPSignal("DONE")) = {"FinishLEOP"}
  /\ \A ev : ev[1] \notin {"SafeModeSignal", "ManualModeSignal", "LEOPSignal"}
               => Announced(ev) = {}
<1>1. ASSUME NEW mode
      PROVE  Announced(SafeModeSignal(mode)) = IF mode = 0 THEN {} ELSE {"EnterSafeMode"}
  <2>1. SafeModeSignal(mode)[1] = "SafeModeSignal" /\ SafeModeSignal(mode)[2] = mode
    BY DEF SafeModeSignal
  <2> QED
    BY <2>1 DEF Announced
<1>2. ASSUME NEW on \in BOOLEAN
      PROVE  Announced(ManualModeSignal(on))
               = IF on THEN {"EnterManualMode"} ELSE {"LeaveManualMode"}
  <2>1. ManualModeSignal(on)[1] = "ManualModeSignal" /\ ManualModeSignal(on)[2] = on
    BY DEF ManualModeSignal
  <2> QED
    BY <2>1 DEF Announced
<1>3. Announced(LEOPSignal("DONE")) = {"FinishLEOP"}
  BY DEF Announced, LEOPSignal
<1>4. ASSUME NEW ev, ev[1] \notin {"SafeModeSignal", "ManualModeSignal", "LEOPSignal"}
      PROVE  Announced(ev) = {}
  BY <1>4 DEF Announced
<1> QED
  BY <1>1, <1>2, <1>3, <1>4

\* perform() of an action announces nothing but the mode its own script puts
\* into effect; that of trigger_measuring announces nothing at all.
LEMMA PreludeEvents ==
  ASSUME NEW action \in Action
  PROVE  /\ Prelude(action) \in Seq(WorkItem)
         /\ \A i \in DOMAIN Prelude(action) : \E ev \in Raised :
              Prelude(action)[i] = OnEvent(ev) /\ Announced(ev) \subseteq {action.kind}
         /\ action.kind = "TriggerMeasuring" => Prelude(action) = <<>>
<1>1. Prelude(action) \in Seq(WorkItem)
  BY PreludeType
<1>2. action.reason \in Safemode /\ 0 \in Safemode
  BY DEF Action, Safemode
<1>3. CASE action.kind = "EnterManualMode"
  <2>1. /\ ManualModeSignal(TRUE) \in Raised
        /\ Announced(ManualModeSignal(TRUE)) = {action.kind}
    BY <1>3, RaisedEvents, AnnouncedKinds
  <2>2. /\ DOMAIN Prelude(action) = {1}
        /\ Prelude(action)[1] = OnEvent(ManualModeSignal(TRUE))
    BY <1>3 DEF Prelude, EnteringManualmode
  <2> QED
    BY <1>1, <1>3, <2>1, <2>2
<1>4. CASE action.kind = "LeaveManualMode"
  <2>1. /\ ManualModeSignal(FALSE) \in Raised
        /\ Announced(ManualModeSignal(FALSE)) = {action.kind}
    BY <1>4, RaisedEvents, AnnouncedKinds
  <2>2. /\ DOMAIN Prelude(action) = {1}
        /\ Prelude(action)[1] = OnEvent(ManualModeSignal(FALSE))
    BY <1>4 DEF Prelude, LeavingManualmode
  <2> QED
    BY <1>1, <1>4, <2>1, <2>2
<1>5. CASE action.kind = "EnterSafeMode"
  <2>1. /\ SafeModeSignal(action.reason) \in Raised
        /\ Announced(SafeModeSignal(action.reason)) \subseteq {action.kind}
    BY <1>2, <1>5, RaisedEvents, AnnouncedKinds
  <2>2. /\ ManeuverModeSignal(FALSE) \in Raised
        /\ Announced(ManeuverModeSignal(FALSE)) \subseteq {action.kind}
    BY RaisedEvents, AnnouncedKinds DEF ManeuverModeSignal
  <2>3. /\ DOMAIN Prelude(action) = {1, 2}
        /\ Prelude(action)[1] = OnEvent(SafeModeSignal(action.reason))
        /\ Prelude(action)[2] = OnEvent(ManeuverModeSignal(FALSE))
    BY <1>5 DEF Prelude, EnteringSafemode
  <2> QED
    BY <1>1, <1>5, <2>1, <2>2, <2>3
<1>6. CASE action.kind = "LeaveSafeMode"
  BY <1>1, <1>2, <1>6, RaisedEvents, AnnouncedKinds DEF Prelude, LeavingSafemode
<1>7. CASE action.kind = "FinishLEOP"
  BY <1>1, <1>7, RaisedEvents, AnnouncedKinds DEF Prelude, FinishingLeop
<1>8. CASE action.kind \notin {"EnterManualMode", "LeaveManualMode",
                              "EnterSafeMode", "LeaveSafeMode", "FinishLEOP"}
  BY <1>1, <1>8 DEF Prelude
<1> QED
  BY <1>3, <1>4, <1>5, <1>6, <1>7, <1>8

\* The exit callbacks announce no mode that would need a script.
LEMMA CallbackEvents ==
  ASSUME NEW s \in State, NEW kind \in Kind, NEW success \in BOOLEAN
  PROVE  /\ Callback(s, kind, success) \in Seq(WorkItem)
         /\ \A i \in DOMAIN Callback(s, kind, success) : \E ev \in Raised :
              Callback(s, kind, success)[i] = OnEvent(ev) /\ Announced(ev) = {}
<1> DEFINE raised == Callback(s, kind, success)
<1>1. raised \in Seq(WorkItem)
  BY CallbackType
<1>2. /\ SafeModeReq(TRUE) \in Raised /\ Announced(SafeModeReq(TRUE)) = {}
      /\ PayloadSignal("MEASURING") \in Raised
      /\ Announced(PayloadSignal("MEASURING")) = {}
      /\ \A state \in {"DETUMB", "SUN"} :
           ADCSreqSignal(state) \in Raised /\ Announced(ADCSreqSignal(state)) = {}
  BY RaisedEvents, AnnouncedKinds DEF SafeModeReq, PayloadSignal, ADCSreqSignal
<1>3. SafeModeSignal(0) \in Raised /\ Announced(SafeModeSignal(0)) = {}
  BY RaisedEvents, AnnouncedKinds DEF Safemode
<1>4. raised = <<>> \/ \E ev \in Raised : raised = <<OnEvent(ev)>> /\ Announced(ev) = {}
  BY <1>2, <1>3 DEF Callback, ManualModeLeft, SafemodeScriptEnded,
     DetumblingTriggered, SunpointingTriggered, MeasuringTriggered
<1> HIDE DEF raised
<1> QED
  BY <1>1, <1>4 DEF raised

\* A handler of D-Bus hands on one of the events that are sent.
LEMMA SentEvents ==
  ASSUME Methods \/ Signals
  PROVE  \E ev \in Sent : Deliver(ev)
<1>1. \E ev \in Event :
        /\ Deliver(ev)
        /\ ev[1] \notin {"SafeModeSignal", "ManualModeSignal", "ADCSreqSignal",
                         "LEOPSignal"}
        /\ ev[1] = "PayloadSignal" => ev[2] = "IDLE"
  <2>1. CASE dbus_exec
    BY <2>1 DEF dbus_exec, ShellCommandReq, Event
  <2>2. CASE dbus_safemode
    <3>1. \A b \in BOOLEAN : SafeModeReq(b) \in Event /\ SafeModeReq(b)[1] = "SafeModeReq"
      BY DEF SafeModeReq, Event
    <3> QED
      BY <2>2, <3>1 DEF dbus_safemode, str2bool
  <2>3. CASE dbus_maneuvermode
    <3>1. \A b \in BOOLEAN : ManeuverModeSignal(b) \in Event /\ ManeuverModeSignal(b)[1] = "ManeuverModeSignal"
      BY DEF ManeuverModeSignal, Event
    <3> QED
      BY <2>3, <3>1 DEF dbus_maneuvermode, str2bool
  <2>4. CASE dbus_manualmode
    <3>1. \A b \in BOOLEAN : ManualModeReq(b) \in Event /\ ManualModeReq(b)[1] = "ManualModeReq"
      BY DEF ManualModeReq, Event
    <3> QED
      BY <2>4, <3>1 DEF dbus_manualmode, str2bool
  <2>5. CASE thmStateChange
    BY <2>5 DEF thmStateChange, THMSignal, str2temp, Temp, Event
  <2>6. CASE epsChargeStateChange
    BY <2>6, HorstAssumption DEF epsChargeStateChange, EPSSignal, Event
  <2>7. CASE leopStateChange
    BY <2>7 DEF leopStateChange, LEOPReq, str2leop, Leop, Event
  <2>8. CASE payloadConditionsNotFulfilled \/ payloadMeasurementDone
    BY <2>8 DEF payloadConditionsNotFulfilled, payloadMeasurementDone,
                PayloadSignal, PayloadState, Event
  <2>9. CASE payloadConditionsFulfilled
    BY <2>9 DEF payloadConditionsFulfilled, PayloadReq, PayloadState, Event
  <2>10. CASE adcsStateReached
    BY <2>10 DEF adcsStateReached, ADCSSignal, str2state, AdcsState, Event
  <2> QED
    BY <2>1, <2>2, <2>3, <2>4, <2>5, <2>6, <2>7, <2>8, <2>9, <2>10
       DEF Methods, Signals
<1> QED
  BY <1>1 DEF Sent

-----------------------------------------------------------------------------
(* The actions the logic table asks for *)

AdcsKinds == {"TriggerDetumbling", "TriggerSunpointing"}
MayCommand(s, kind) ==
  /\ kind = "TriggerDetumbling"  => MayDetumble(s)
  /\ kind = "TriggerSunpointing" => MayPoint(s)
FitNow(s) == RulesApply(s) /\ FitForMeasuring(s)

\* The actions that fit the state s they are to be performed in.
FittingActions(s, target) ==
  {a \in Action :
     /\ MayCommand(s, a.kind)
     /\ a.kind = "TriggerMeasuring" => target.daemon = "WANTMEASURE" /\ FitNow(s)}

LEMMA RuleActionsFit ==
  ASSUME NEW s \in State, NEW target \in State
  PROVE  /\ RuleActions(s, target) \in Seq(Action)
         /\ Range(RuleActions(s, target)) \subseteq FittingActions(s, target)
<1> DEFINE F == FittingActions(s, target)
           safe == EmergencyActions(s)
           measuring == When(target.daemon = "WANTMEASURE" /\ FitForMeasuring(s),
                             Plain("TriggerMeasuring"))
           detumbling == When(/\ ~s.maneuvermode /\ s.leop # "UNDEPLOYED"
                              /\ s.pointing \notin Stabilised
                              /\ s.requested \notin Stabilised,
                              Plain("TriggerDetumbling"))
           sunpointing == When(/\ ~s.maneuvermode /\ s.leop # "UNDEPLOYED"
                               /\ s.pointing = "DETUMB",
                               Plain("TriggerSunpointing"))
<1>1. CASE ~RulesApply(s)
  <2>1. RuleActions(s, target) = <<>>
    BY <1>1 DEF RuleActions
  <2>2. Range(<<>>) = {} /\ <<>> \in Seq(Action)
    BY EmptySeq DEF Range
  <2> QED
    BY <2>1, <2>2
<1>2. CASE RulesApply(s)
  <2>1. \A kind \in Kind : Plain(kind) \in Action /\ Plain(kind).kind = kind
    BY DEF Plain, Action, Safemode
  <2>2. \A reason \in Safemode :
          /\ EnterSafeMode(reason) \in Action
          /\ EnterSafeMode(reason) \in F
    BY DEF EnterSafeMode, Action, Kind, FittingActions, MayCommand
  <2>3. safe \in Seq(Action) /\ Range(safe) \subseteq F
    BY <2>2, WhenAll, ConcatAll DEF EmergencyActions, Safemode
  <2>4. /\ Plain("TriggerMeasuring") \in Action
        /\ target.daemon = "WANTMEASURE" /\ FitForMeasuring(s)
             => Plain("TriggerMeasuring") \in F
    BY <1>2, <2>1 DEF Kind, FittingActions, MayCommand, FitNow
  <2>5. measuring \in Seq(Action) /\ Range(measuring) \subseteq F
    BY <2>4, WhenAll
  <2>6. /\ Plain("TriggerDetumbling") \in Action
        /\ MayDetumble(s) => Plain("TriggerDetumbling") \in F
    BY <2>1 DEF Kind, FittingActions, MayCommand
  <2>7. /\ Plain("TriggerSunpointing") \in Action
        /\ MayPoint(s) => Plain("TriggerSunpointing") \in F
    BY <2>1 DEF Kind, FittingActions, MayCommand
  <2> HIDE DEF F
  <2>8. detumbling \in Seq(Action) /\ Range(detumbling) \subseteq F
    BY <2>6, WhenAll DEF MayDetumble, AdcsFree
  <2>9. sunpointing \in Seq(Action) /\ Range(sunpointing) \subseteq F
    BY <2>7, WhenAll DEF MayPoint, AdcsFree
  <2>10. RuleActions(s, target) = (safe \o measuring) \o (detumbling \o sunpointing)
    BY <1>2 DEF RuleActions, AdcsActions
  <2> HIDE DEF safe, measuring, detumbling, sunpointing
  <2>11. safe \o measuring \in Seq(Action) /\ Range(safe \o measuring) \subseteq F
    BY <2>3, <2>5, ConcatAll
  <2>12. /\ detumbling \o sunpointing \in Seq(Action)
         /\ Range(detumbling \o sunpointing) \subseteq F
    BY <2>8, <2>9, ConcatAll
  <2>13. /\ (safe \o measuring) \o (detumbling \o sunpointing) \in Seq(Action)
         /\ Range((safe \o measuring) \o (detumbling \o sunpointing)) \subseteq F
    BY <2>11, <2>12, ConcatAll
  <2> QED
    BY <2>10, <2>13 DEF F
<1> QED
  BY <1>1, <1>2

\* The actions that do not depend on the rules come first; they fit any state.
Ordered(cur, target) ==
  ((ShellActions(target) \o ManualmodeActions(cur, target))
     \o SafemodeActions(cur, target)) \o LeopActions(cur, target)

LEMMA OrderedFit ==
  ASSUME NEW cur \in State, NEW target \in State, NEW s
  PROVE  /\ Ordered(cur, target) \in Seq(Action)
         /\ Range(Ordered(cur, target)) \subseteq FittingActions(s, target)
<1> DEFINE F == FittingActions(s, target)
           shell == ShellActions(target)
           manual == ManualmodeActions(cur, target)
           safe == SafemodeActions(cur, target)
           leop == LeopActions(cur, target)
<1>1. \A kind \in Kind \ (AdcsKinds \cup {"TriggerMeasuring"}) :
        Plain(kind) \in Action /\ Plain(kind) \in F
  BY DEF Plain, Action, Safemode, FittingActions, MayCommand, AdcsKinds
<1>2. EnterSafeMode(3) \in Action /\ EnterSafeMode(3) \in F
  BY DEF EnterSafeMode, Action, Kind, Safemode, FittingActions, MayCommand
<1>3. \A kind \in {"ShellCommand", "EnterManualMode", "LeaveManualMode",
                   "LeaveSafeMode", "FinishLEOP"} :
        Plain(kind) \in Action /\ Plain(kind) \in F
  BY <1>1 DEF Kind, AdcsKinds
<1> HIDE DEF F
<1>4. shell \in Seq(Action) /\ Range(shell) \subseteq F
  <2>1. target.shell_commands \in Nat
    BY DEF State
  <2>2. Plain("ShellCommand") \in Action /\ Plain("ShellCommand") \in F
    BY <1>3
  <2>3. shell \in [1 .. target.shell_commands -> Action]
    BY <2>2 DEF ShellActions
  <2>4. Range(shell) \subseteq {Plain("ShellCommand")}
    BY DEF ShellActions, Range
  <2> QED
    BY <2>1, <2>2, <2>3, <2>4, SeqDef
<1>5. manual \in Seq(Action) /\ Range(manual) \subseteq F
  BY <1>3, WhenAll, ConcatAll DEF ManualmodeActions
<1>6. safe \in Seq(Action) /\ Range(safe) \subseteq F
  BY <1>2, <1>3, WhenAll, ConcatAll DEF SafemodeActions
<1>7. leop \in Seq(Action) /\ Range(leop) \subseteq F
  BY <1>3, WhenAll DEF LeopActions
<1>8. Ordered(cur, target) = ((shell \o manual) \o safe) \o leop
  BY DEF Ordered
<1> HIDE DEF shell, manual, safe, leop
<1>9. shell \o manual \in Seq(Action) /\ Range(shell \o manual) \subseteq F
  BY <1>4, <1>5, ConcatAll
<1>10. /\ (shell \o manual) \o safe \in Seq(Action)
       /\ Range((shell \o manual) \o safe) \subseteq F
  BY <1>6, <1>9, ConcatAll
<1>11. /\ ((shell \o manual) \o safe) \o leop \in Seq(Action)
       /\ Range(((shell \o manual) \o safe) \o leop) \subseteq F
  BY <1>7, <1>10, ConcatAll
<1> QED
  BY <1>8, <1>11 DEF F

\* Whatever the table asks for fits the state it leaves.
LEMMA TransformToFits ==
  ASSUME NEW cur \in State, NEW target \in State
  PROVE  Range(TransformTo(cur, target))
           \subseteq FittingActions(Settle(cur, target), target)
<1>1. Settle(cur, target) \in State
  BY TransformToProperty
<1>2. TransformTo(cur, target)
        = Ordered(cur, target) \o RuleActions(Settle(cur, target), target)
  BY DEF TransformTo, Ordered
<1> QED
  BY <1>1, <1>2, OrderedFit, RuleActionsFit, ConcatAll

\* A request to measure asks for nothing before the measurement: the modes stay
\* as they are, and in an emergency nothing is measured.
LEMMA MeasuringComesFirst ==
  ASSUME NEW cur \in State, NEW target \in State,
         target.shell_commands = 0, target.manualmode = cur.manualmode,
         target.safemode = cur.safemode, target.leop = cur.leop,
         NEW i \in DOMAIN TransformTo(cur, target),
         TransformTo(cur, target)[i].kind = "TriggerMeasuring"
  PROVE  i = 1
<1> DEFINE s == Settle(cur, target)
           adcs == AdcsActions(cur)
<1>1. s = cur
  BY DEF Settle, State
<1>2. TransformTo(cur, target) \in Seq(Action)
  BY TransformToProperty
<1>3. TransformTo(cur, target)[i] \in Range(TransformTo(cur, target))
  BY DEF Range
<1>4. FitNow(cur) /\ target.daemon = "WANTMEASURE"
  BY <1>1, <1>3, TransformToFits DEF FittingActions
<1>5. ShellActions(target) = <<>>
  <2>1. ShellActions(target) \in Seq({})
    BY DEF ShellActions
  <2> QED
    BY <2>1
<1>6. ManualmodeActions(cur, target) = <<>>
  BY DEF ManualmodeActions, When
<1>7. SafemodeActions(cur, target) = <<>>
  BY <1>4 DEF SafemodeActions, EntersSafemode, When, FitNow, RulesApply
<1>8. LeopActions(cur, target) = <<>>
  BY DEF LeopActions, When
<1>9. EmergencyActions(cur) = <<>>
  <2>1. cur.battery_level \in Level /\ cur.battery_level > BatteryTreshold
    BY <1>4 DEF FitNow, FitForMeasuring, State
  <2>2. ~BatteryLow(cur)
    <3>1. \A n \in Level : n \in Int
      BY DEF Level
    <3> QED
      BY <2>1, <3>1, TresholdAssumption DEF BatteryLow
  <2>3. ~Overheated(cur)
    BY <1>4 DEF FitNow, FitForMeasuring, Overheated
  <2> QED
    BY <2>2, <2>3 DEF EmergencyActions, When
<1>10. RuleActions(cur, target) = <<Plain("TriggerMeasuring")>> \o adcs
  BY <1>4, <1>9 DEF RuleActions, FitNow, When
<1>11. adcs \in Seq(Action) /\ Range(adcs) \subseteq {a \in Action : a.kind \in AdcsKinds}
  <2>1. \A kind \in AdcsKinds :
          Plain(kind) \in Action /\ Plain(kind) \in {a \in Action : a.kind \in AdcsKinds}
    BY DEF Plain, Action, Safemode, AdcsKinds, Kind
  <2> QED
    BY <2>1, WhenAll, ConcatAll DEF AdcsActions, AdcsKinds
<1>12. <<Plain("TriggerMeasuring")>> \in Seq(Action)
  BY DEF Plain, Action, Kind, Safemode
<1> HIDE DEF adcs
<1>13. TransformTo(cur, target) = <<Plain("TriggerMeasuring")>> \o adcs
  BY <1>1, <1>5, <1>6, <1>7, <1>8, <1>10 DEF TransformTo, s
<1>14. \A j \in DOMAIN TransformTo(cur, target) :
         j # 1 => TransformTo(cur, target)[j] \in Range(adcs)
  BY <1>11, <1>12, <1>13 DEF Range
<1> QED
  BY <1>11, <1>14 DEF AdcsKinds

-----------------------------------------------------------------------------
(* What a step does to the agenda *)

Current(s, ev) == IF IsFact(ev) THEN Update(s, ev) ELSE s
Target(s, ev) == Update(s, ev)

\* The handling of an event: what it changes, and what it asks for.
LEMMA HandleEventShape ==
  ASSUME IInv, HandleEvent
  PROVE  LET ev     == Head(agenda).event
             cur    == Current(st, ev)
             target == Target(st, ev)
             todo   == TransformTo(cur, target)
         IN /\ ev \in Event /\ st \in State /\ agenda \in Seq(WorkItem) /\ agenda # <<>>
            /\ Head(agenda).op = "on_event"
            /\ cur \in State /\ target \in State /\ todo \in Seq(Action)
            /\ st' = Settle(cur, target) /\ st' \in State
            /\ agenda' = [i \in DOMAIN todo |-> Perform(todo[i])] \o Tail(agenda)
<1> DEFINE ev == Head(agenda).event
           cur == Current(st, ev)
           target == Target(st, ev)
<1>1. /\ st \in State /\ agenda \in Seq(WorkItem) /\ agenda # <<>>
      /\ Head(agenda).op = "on_event"
  BY DEF IInv, TypeOK, HandleEvent, Doing
<1>2. ev \in Event
  BY <1>1, HeadFields
<1>3. cur \in State /\ target \in State
  BY <1>1, <1>2, UpdateType DEF Current, Target
<1>4. TransformTo(cur, target) \in Seq(Action) /\ Settle(cur, target) \in State
  BY <1>3, TransformToProperty
<1>5. /\ st' = Settle(cur, target)
      /\ agenda' = [i \in DOMAIN TransformTo(cur, target) |->
                      Perform(TransformTo(cur, target)[i])] \o Tail(agenda)
  BY DEF HandleEvent, Current, Target
<1> QED
  BY <1>1, <1>2, <1>3, <1>4, <1>5

\* The bookkeeping of the processes.
Bookkeeping(item) == item.op \in {"exited", "remove", "assign"}

\* The work items that may change the pointing: what the ADCS announces, what a
\* trigger script has requested, and the exit of a script that may be such a one.
Repoints(item) ==
  \/ item.op = "exited" /\ item.success
  \/ item.op = "on_event" /\ item.event[1] \in {"ADCSSignal", "ADCSreqSignal"}

LEMMA PreludeKeepsPointing ==
  ASSUME NEW action \in Action
  PROVE  \A i \in DOMAIN Prelude(action) : ~Repoints(Prelude(action)[i])
<1>1. \A ev : ev[1] \notin {"ADCSSignal", "ADCSreqSignal"} => ~Repoints(OnEvent(ev))
  BY DEF Repoints, OnEvent
<1>2. /\ \A on \in BOOLEAN : ~Repoints(OnEvent(ManualModeSignal(on)))
      /\ \A mode : ~Repoints(OnEvent(SafeModeSignal(mode)))
      /\ ~Repoints(OnEvent(ManeuverModeSignal(FALSE)))
      /\ ~Repoints(OnEvent(LEOPSignal("DONE")))
  BY <1>1 DEF ManualModeSignal, SafeModeSignal, ManeuverModeSignal, LEOPSignal
<1>3. \A x : (~Repoints(x) => \A i \in DOMAIN <<x>> : ~Repoints(<<x>>[i]))
  OBVIOUS
<1>4. CASE action.kind = "EnterSafeMode"
  <2>1. Prelude(action) = <<OnEvent(SafeModeSignal(action.reason)),
                            OnEvent(ManeuverModeSignal(FALSE))>>
    BY <1>4 DEF Prelude, EnteringSafemode
  <2>2. \A x, y : ~Repoints(x) /\ ~Repoints(y)
                   => \A i \in DOMAIN <<x, y>> : ~Repoints(<<x, y>>[i])
    OBVIOUS
  <2> QED
    BY <1>2, <2>1, <2>2
<1>5. CASE action.kind \in {"EnterManualMode", "LeaveManualMode", "LeaveSafeMode",
                            "FinishLEOP"}
  <2>1. \E x : Prelude(action) = <<x>> /\ ~Repoints(x)
    BY <1>2, <1>5 DEF Prelude, EnteringManualmode, LeavingManualmode,
       LeavingSafemode, FinishingLeop
  <2> QED
    BY <1>3, <2>1
<1>6. CASE action.kind \notin {"EnterManualMode", "LeaveManualMode", "LeaveSafeMode",
                               "FinishLEOP", "EnterSafeMode"}
  <2>1. Prelude(action) = <<>>
    BY <1>6 DEF Prelude
  <2> QED
    BY <2>1
<1> QED
  BY <1>4, <1>5, <1>6

\* Only a script that has succeeded leaves a request for the pointing.
LEMMA CallbackRepoints ==
  ASSUME NEW s, NEW kind, NEW success \in BOOLEAN,
         NEW i \in DOMAIN Callback(s, kind, success),
         Repoints(Callback(s, kind, success)[i])
  PROVE  i = 1 /\ success
<1>1. \A ev : ev[1] \notin {"ADCSSignal", "ADCSreqSignal"} => ~Repoints(OnEvent(ev))
  BY DEF Repoints, OnEvent
<1>2. /\ ~Repoints(OnEvent(SafeModeReq(TRUE)))
      /\ ~Repoints(OnEvent(SafeModeSignal(0)))
      /\ ~Repoints(OnEvent(PayloadSignal("MEASURING")))
  BY <1>1 DEF SafeModeReq, SafeModeSignal, PayloadSignal
<1>3. CASE kind \in {"TriggerDetumbling", "TriggerSunpointing"}
  <2>1. /\ success => \E x : Callback(s, kind, success) = <<x>>
        /\ ~success => Callback(s, kind, success) = <<>>
    BY <1>3 DEF Callback, DetumblingTriggered, SunpointingTriggered
  <2> QED
    BY <2>1
<1>4. CASE kind \notin {"TriggerDetumbling", "TriggerSunpointing"}
  <2>1. \/ Callback(s, kind, success) = <<>>
        \/ \E x : Callback(s, kind, success) = <<x>> /\ ~Repoints(x)
    BY <1>2, <1>4 DEF Callback, ManualModeLeft, SafemodeScriptEnded, MeasuringTriggered
  <2>2. \A x : ~Repoints(x) => \A j \in DOMAIN <<x>> : ~Repoints(<<x>>[j])
    OBVIOUS
  <2> QED
    BY <2>1, <2>2
<1> QED
  BY <1>3, <1>4

\* What a call other than on_event is replaced by: the start of a script only
\* by the performance of its action, and an event that announces a mode only
\* before the start of its script.
Pushes(head, new) ==
  /\ new \in Seq(WorkItem)
  /\ \A i \in DOMAIN new :
       \/ Bookkeeping(new[i])
       \/ head.op = "perform" /\ new[i] = Spawn(head.action.kind)
       \/ \E ev \in Raised :
            /\ new[i] = OnEvent(ev)
            /\ \A kind \in Announced(ev) :
                 \E j \in DOMAIN new : j > i /\ new[j] = Spawn(kind)
  /\ head.op = "perform" /\ head.action.kind = "TriggerMeasuring"
       => Len(new) = 1
  /\ \A i \in DOMAIN new : Repoints(new[i]) => i = 1 /\ Repoints(head)

\* The call at the head of the agenda is carried out; safe mode may be dropped.
Carried ==
  /\ Running /\ agenda # <<>>
  /\ st' \in {st, [st EXCEPT !.safemode = 0]}
  /\ \E new : Pushes(Head(agenda), new) /\ agenda' = new \o Tail(agenda)

\* An event or an exit arrives at the idle daemon.
Arrives ==
  /\ Idle /\ st' = st
  /\ \E item \in WorkItem :
       /\ agenda' = <<item>>
       /\ Bookkeeping(item) \/ \E ev \in Sent : item = OnEvent(ev)

LEMMA PerformActionCarries ==
  ASSUME IInv, PerformAction
  PROVE  Carried
<1> DEFINE action == Head(agenda).action
           first == Prelude(action)
           new == first \o <<Spawn(action.kind)>>
<1>1. /\ agenda \in Seq(WorkItem) /\ agenda # <<>> /\ Head(agenda).op = "perform"
      /\ Running /\ st' = st /\ agenda' = new \o Tail(agenda)
  BY DEF IInv, TypeOK, PerformAction, Doing
<1>2. action \in Action /\ action.kind \in Kind
  BY <1>1, HeadFields DEF Action
<1>3. /\ first \in Seq(WorkItem)
      /\ \A i \in DOMAIN first : \E ev \in Raised :
           first[i] = OnEvent(ev) /\ Announced(ev) \subseteq {action.kind}
      /\ action.kind = "TriggerMeasuring" => first = <<>>
  BY <1>2, PreludeEvents
<1>4. Spawn(action.kind) \in WorkItem
  BY <1>2 DEF Spawn, WorkItem
<1> DEFINE kind == action.kind
<1> HIDE DEF action, first
<1>5. /\ new \in Seq(WorkItem) /\ Len(new) = Len(first) + 1
      /\ DOMAIN new = 1 .. Len(first) + 1
      /\ \A i \in 1 .. Len(first) : new[i] = first[i]
      /\ new[Len(first) + 1] = Spawn(kind)
      /\ DOMAIN first = 1 .. Len(first) /\ Len(first) \in Nat
  BY <1>3, <1>4
<1> HIDE DEF new
<1>6. ASSUME NEW i \in DOMAIN new
      PROVE  \/ new[i] = Spawn(kind)
             \/ \E ev \in Raised :
                  /\ new[i] = OnEvent(ev)
                  /\ \A k \in Announced(ev) :
                       \E j \in DOMAIN new : j > i /\ new[j] = Spawn(k)
  <2>1. CASE i = Len(first) + 1
    BY <1>5, <2>1
  <2>2. CASE i \in 1 .. Len(first)
    <3>1. PICK ev \in Raised : first[i] = OnEvent(ev) /\ Announced(ev) \subseteq {kind}
      BY <1>3, <1>5, <2>2
    <3>2. Len(first) + 1 \in DOMAIN new /\ Len(first) + 1 > i
      BY <1>5, <2>2
    <3> QED
      BY <1>5, <2>2, <3>1, <3>2
  <2> QED
    BY <1>5, <2>1, <2>2
<1>7. kind = "TriggerMeasuring" => Len(new) = 1
  BY <1>3, <1>5
<1>8. \A i \in DOMAIN new : ~Repoints(new[i])
  <2>1. \A i \in DOMAIN first : ~Repoints(first[i])
    BY <1>2, PreludeKeepsPointing DEF first
  <2>2. ~Repoints(Spawn(kind))
    BY DEF Repoints, Spawn
  <2> QED
    BY <1>5, <2>1, <2>2
<1>9. Pushes(Head(agenda), new)
  BY <1>1, <1>5, <1>6, <1>7, <1>8 DEF Pushes, action
<1> QED
  BY <1>1, <1>9 DEF Carried, new

LEMMA ExitCallbackCarries ==
  ASSUME IInv, ExitCallback
  PROVE  Carried
<1> DEFINE kind == Head(agenda).kind
           first == Callback(st, kind, Head(agenda).success)
           new == first \o <<Remove(kind)>>
<1>1. /\ agenda \in Seq(WorkItem) /\ agenda # <<>> /\ Head(agenda).op = "exited"
      /\ Running /\ st \in State /\ st' \in {st, [st EXCEPT !.safemode = 0]}
      /\ agenda' = new \o Tail(agenda)
  BY DEF IInv, TypeOK, ExitCallback, Doing
<1>2. kind \in Kind /\ Head(agenda).success \in BOOLEAN
  BY <1>1, HeadFields
<1>3. /\ first \in Seq(WorkItem)
      /\ \A i \in DOMAIN first : \E ev \in Raised :
           first[i] = OnEvent(ev) /\ Announced(ev) = {}
  BY <1>1, <1>2, CallbackEvents
<1>4. /\ Remove(kind) \in WorkItem /\ Bookkeeping(Remove(kind))
      /\ ~Repoints(Remove(kind))
  BY <1>2 DEF Remove, WorkItem, Bookkeeping, Repoints
<1>8. ASSUME NEW i \in DOMAIN first, Repoints(first[i])
      PROVE  i = 1 /\ Repoints(Head(agenda))
  <2>1. i = 1 /\ Head(agenda).success
    BY <1>2, <1>8, CallbackRepoints
  <2> QED
    BY <1>1, <2>1 DEF Repoints
<1> HIDE DEF kind, first
<1>5. /\ new \in Seq(WorkItem)
      /\ DOMAIN new = 1 .. Len(first) + 1
      /\ \A i \in 1 .. Len(first) : new[i] = first[i]
      /\ new[Len(first) + 1] = Remove(kind)
      /\ DOMAIN first = 1 .. Len(first) /\ Len(first) \in Nat
  BY <1>3, <1>4
<1> HIDE DEF new
<1>6. ASSUME NEW i \in DOMAIN new
      PROVE  \/ Bookkeeping(new[i])
             \/ \E ev \in Raised : new[i] = OnEvent(ev) /\ Announced(ev) = {}
  <2>1. CASE i = Len(first) + 1
    BY <1>4, <1>5, <2>1
  <2>2. CASE i \in 1 .. Len(first)
    <3>1. PICK ev \in Raised : first[i] = OnEvent(ev) /\ Announced(ev) = {}
      BY <1>3, <1>5, <2>2
    <3> QED
      BY <1>5, <2>2, <3>1
  <2> QED
    BY <1>5, <2>1, <2>2
<1>9. \A i \in DOMAIN new : Repoints(new[i]) => i = 1 /\ Repoints(Head(agenda))
  BY <1>4, <1>5, <1>8
<1>7. Pushes(Head(agenda), new)
  BY <1>1, <1>5, <1>6, <1>9 DEF Pushes
<1> QED
  BY <1>1, <1>7 DEF Carried, new

LEMMA SpawnFailsCarries ==
  ASSUME IInv, SpawnFails
  PROVE  Carried
<1> DEFINE item == Exited(Head(agenda).kind, FALSE)
           new == <<item, AssignProcess>>
<1>1. /\ agenda \in Seq(WorkItem) /\ agenda # <<>> /\ Head(agenda).op = "spawn"
      /\ Running /\ st' = st /\ agenda' = new \o Tail(agenda)
  BY DEF IInv, TypeOK, SpawnFails, Doing
<1>2. item \in WorkItem /\ AssignProcess \in WorkItem
  BY <1>1, HeadFields DEF Exited, WorkItem
<1>3. /\ Bookkeeping(item) /\ Bookkeeping(AssignProcess)
      /\ ~Repoints(item) /\ ~Repoints(AssignProcess)
  BY DEF Exited, AssignProcess, Bookkeeping, Repoints
<1> HIDE DEF item
<1>4. new \in Seq(WorkItem) /\ \A i \in DOMAIN new : new[i] \in {item, AssignProcess}
  BY <1>2
<1> HIDE DEF new
<1>5. Pushes(Head(agenda), new)
  BY <1>1, <1>3, <1>4 DEF Pushes
<1> QED
  BY <1>1, <1>5 DEF Carried

LEMMA ReturnCarries ==
  ASSUME IInv, SpawnProcess \/ RemoveAction \/ AssignToFreed
  PROVE  Carried
<1>1. /\ agenda \in Seq(WorkItem) /\ agenda # <<>> /\ Head(agenda).op # "perform"
      /\ Running /\ st' = st /\ agenda' = Tail(agenda)
  BY DEF IInv, TypeOK, SpawnProcess, RemoveAction, AssignToFreed, Doing
<1>2. Tail(agenda) \in Seq(WorkItem)
  BY <1>1, HeadTailRange
<1>3. agenda' = <<>> \o Tail(agenda)
  BY <1>1, <1>2
<1>4. Pushes(Head(agenda), <<>>)
  BY <1>1, EmptySeq DEF Pushes
<1> QED
  BY <1>1, <1>3, <1>4 DEF Carried

\* Every step is one of these.
LEMMA StepShape ==
  ASSUME IInv, [Next]_vars
  PROVE  \/ HandleEvent \/ Carried \/ Arrives
         \/ UNCHANGED <<st, agenda>>
         \/ ~Running /\ Start(st') /\ agenda' = <<>>
<1>1. CASE Handler
  BY <1>1, PerformActionCarries, ExitCallbackCarries, SpawnFailsCarries, ReturnCarries
     DEF Handler, StackOverflow
<1>2. CASE Methods \/ Signals
  <2>1. PICK ev \in Sent : Deliver(ev)
    BY <1>2, SentEvents
  <2>2. OnEvent(ev) \in WorkItem
    BY DEF OnEvent, WorkItem, Sent
  <2> QED
    BY <2>1, <2>2 DEF Deliver, Arrives
<1>3. CASE ScriptEnds
  <2>1. ASSUME NEW kind \in Kind, NEW success \in BOOLEAN, ScriptExits(kind, success)
        PROVE  Arrives
    <3>1. Exited(kind, success) \in WorkItem /\ Bookkeeping(Exited(kind, success))
      BY DEF Exited, WorkItem, Bookkeeping
    <3> QED
      BY <2>1, <3>1 DEF ScriptExits, Arrives
  <2> QED
    BY <1>3, <2>1 DEF ScriptEnds, ScriptTerminated
<1>4. CASE Crash \/ Restart \/ UNCHANGED vars
  BY <1>4 DEF Crash, Restart, vars
<1> QED
  BY <1>1, <1>2, <1>3, <1>4 DEF Next

-----------------------------------------------------------------------------
(* The inductive invariant *)

\* The work items that command the ADCS, and the events that forbid to.
CommandsAdcs(item) ==
  \/ item.op = "perform" /\ item.action.kind \in AdcsKinds
  \/ item.op = "spawn" /\ item.kind \in AdcsKinds

Forbids(item) ==
  /\ item.op = "on_event"
  /\ \/ item.event[1] = "ManeuverModeSignal" /\ item.event[2]
     \/ item.event[1] \in {"LEOPSignal", "LEOPReq"} /\ item.event[2] = "UNDEPLOYED"

\* The work items that start the measurement, and the events that ask for it.
StartsMeasuring(item) ==
  \/ item.op = "perform" /\ item.action.kind = "TriggerMeasuring"
  \/ item.op = "spawn" /\ item.kind = "TriggerMeasuring"

Asks(item) ==
  /\ item.op = "on_event"
  /\ item.event[1] \in {"PayloadReq", "PayloadSignal"} /\ item.event[2] = "WANTMEASURE"

\* The item may be carried out in the state s.
Fits(item, s) ==
  /\ item.op = "perform" => MayCommand(s, item.action.kind)
  /\ item.op = "spawn"   => MayCommand(s, item.kind)

\* A command for the ADCS that is pending fits the state, and nothing that is
\* pending with it can change that ...
AdcsCommandsFit ==
  \A i \in DOMAIN agenda :
    /\ Fits(agenda[i], st)
    /\ Forbids(agenda[i]) => Len(agenda) = 1
    /\ Repoints(agenda[i]) =>
         i = 1 /\ \A j \in DOMAIN agenda : ~CommandsAdcs(agenda[j])

\* ... a measurement is started before anything else is done, and asked for by
\* PayloadReq alone, which leaves no trace in the state ...
MeasurementsFit ==
  /\ st.daemon # "WANTMEASURE"
  /\ \A i \in DOMAIN agenda :
       /\ StartsMeasuring(agenda[i]) => i = 1 /\ FitNow(st)
       /\ Asks(agenda[i]) => agenda[i].event[1] = "PayloadReq" /\ Len(agenda) = 1

\* ... no command stays in the state, so that no event finds one ...
NoCommandLeft == st.shell_commands = 0

\* ... and an event that announces a mode has its script after it.
ScriptFollows ==
  \A i \in DOMAIN agenda : agenda[i].op = "on_event" =>
    \A kind \in Announced(agenda[i].event) :
      \E j \in DOMAIN agenda : j > i /\ agenda[j] = Spawn(kind)

ModeInv == AdcsCommandsFit /\ MeasurementsFit /\ NoCommandLeft /\ ScriptFollows

LEMMA CommandsFit ==
  ASSUME NEW item, NEW s
  PROVE  /\ ~CommandsAdcs(item) => Fits(item, s)
         /\ \A new : /\ AdcsFree(s) => AdcsFree(new)
                     /\ new.pointing = s.pointing /\ new.requested = s.requested
                     => (Fits(item, s) => Fits(item, new))
<1>1. ASSUME ~CommandsAdcs(item) PROVE Fits(item, s)
  BY <1>1 DEF CommandsAdcs, Fits, MayCommand, AdcsKinds
<1>2. ASSUME NEW new, AdcsFree(s) => AdcsFree(new),
             new.pointing = s.pointing, new.requested = s.requested, NEW kind,
             MayCommand(s, kind)
      PROVE  MayCommand(new, kind)
  BY <1>2 DEF MayCommand, MayDetumble, MayPoint
<1>3. ASSUME NEW new, AdcsFree(s) => AdcsFree(new),
             new.pointing = s.pointing, new.requested = s.requested, Fits(item, s)
      PROVE  Fits(item, new)
  BY <1>2, <1>3 DEF Fits
<1> QED
  BY <1>1, <1>3

-----------------------------------------------------------------------------
(* Every step keeps the invariant *)

\* all is the list items with its head replaced by the list new.
Spliced(items, new, all) ==
  /\ Len(new) \in Nat /\ Len(items) \in Nat \ {0}
  /\ Head(items) = items[1]
  /\ DOMAIN items = 1 .. Len(items) /\ DOMAIN new = 1 .. Len(new)
  /\ Len(all) = Len(new) + Len(items) - 1
  /\ DOMAIN all = 1 .. Len(all)
  /\ \A i \in 1 .. Len(new) : all[i] = new[i]
  /\ \A i \in 2 .. Len(items) : all[Len(new) + i - 1] = items[i]
  /\ \A k \in DOMAIN all : k \in 1 .. Len(new)
       \/ \E i \in 2 .. Len(items) : k = Len(new) + i - 1 /\ all[k] = items[i]

LEMMA Places ==
  ASSUME NEW S, NEW items \in Seq(S), items # <<>>, NEW new \in Seq(S),
         NEW all, all = new \o Tail(items)
  PROVE  Spliced(items, new, all)
<1>1. /\ Tail(items) \in Seq(S) /\ Len(Tail(items)) = Len(items) - 1
      /\ \A i \in 1 .. Len(Tail(items)) : Tail(items)[i] = items[i + 1]
  BY HeadTailProperties
<1>2. /\ Len(new) \in Nat /\ Len(items) \in Nat \ {0}
      /\ DOMAIN items = 1 .. Len(items) /\ DOMAIN new = 1 .. Len(new)
      /\ Head(items) = items[1]
  OBVIOUS
<1>3. /\ all \in Seq(S) /\ Len(all) = Len(new) + Len(items) - 1
      /\ \A k \in 1 .. Len(all) :
           all[k] = IF k <= Len(new) THEN new[k] ELSE Tail(items)[k - Len(new)]
  BY <1>1, <1>2, ConcatProperties
<1>4. DOMAIN all = 1 .. Len(all)
  BY <1>3
<1>5. \A i \in 1 .. Len(new) : all[i] = new[i]
  BY <1>2, <1>3
<1>6. ASSUME NEW i \in 2 .. Len(items)
      PROVE  all[Len(new) + i - 1] = items[i]
  <2>1. /\ Len(new) + i - 1 \in 1 .. Len(all) /\ ~(Len(new) + i - 1 <= Len(new))
        /\ (Len(new) + i - 1) - Len(new) = i - 1
        /\ i - 1 \in 1 .. Len(Tail(items)) /\ (i - 1) + 1 = i
    BY <1>1, <1>2, <1>3
  <2> QED
    BY <1>1, <1>3, <2>1
<1>7. ASSUME NEW k \in DOMAIN all, k \notin 1 .. Len(new)
      PROVE  \E i \in 2 .. Len(items) : k = Len(new) + i - 1 /\ all[k] = items[i]
  <2>1. k - Len(new) + 1 \in 2 .. Len(items) /\ k = Len(new) + (k - Len(new) + 1) - 1
    BY <1>2, <1>3, <1>4, <1>7
  <2> QED
    BY <1>6, <2>1
<1> QED
  BY <1>2, <1>3, <1>4, <1>5, <1>6, <1>7 DEF Spliced

\* The state an event leaves, field by field.
LEMMA HandledFields ==
  ASSUME IInv, HandleEvent
  PROVE  LET ev == Head(agenda).event
         IN /\ st'.maneuvermode = IF ev[1] = "ManeuverModeSignal"
                                  THEN ev[2] ELSE st.maneuvermode
            /\ st'.leop = IF ev[1] = "LEOPSignal" \/ (ev[1] = "LEOPReq" /\ ev[2] # "DONE")
                          THEN ev[2] ELSE st.leop
            /\ st'.safemode = IF ev[1] = "SafeModeSignal" THEN ev[2] ELSE st.safemode
            /\ st'.manualmode = IF ev[1] = "ManualModeSignal" THEN ev[2] ELSE st.manualmode
            /\ st'.daemon = IF ev[1] = "PayloadSignal" THEN ev[2] ELSE st.daemon
            /\ st'.shell_commands = st.shell_commands
            /\ ev[1] \notin {"ADCSSignal", "ADCSreqSignal"} =>
                 st'.pointing = st.pointing /\ st'.requested = st.requested
<1> DEFINE ev == Head(agenda).event
           cur == Current(st, ev)
           target == Target(st, ev)
<1>1. /\ ev \in Event /\ st \in State /\ cur \in State /\ target \in State
      /\ st' = Settle(cur, target)
  BY HandleEventShape
<1>2. /\ st'.maneuvermode = cur.maneuvermode /\ st'.safemode = cur.safemode
      /\ st'.manualmode = cur.manualmode /\ st'.daemon = cur.daemon
      /\ st'.shell_commands = cur.shell_commands
      /\ st'.pointing = cur.pointing /\ st'.requested = cur.requested
      /\ st'.leop = IF target.leop = "DONE" THEN cur.leop ELSE target.leop
  BY <1>1 DEF Settle, State
<1>3. CASE IsFact(ev)
  <2>1. /\ cur = Update(st, ev) /\ target = Update(st, ev)
        /\ ev[1] \notin {"SafeModeReq", "ManualModeReq", "LEOPReq", "PayloadReq",
                         "ShellCommandReq"}
    BY <1>3 DEF Current, Target, IsFact, Requests
  <2>2. /\ cur.maneuvermode = IF ev[1] = "ManeuverModeSignal" THEN ev[2] ELSE st.maneuvermode
        /\ cur.safemode = IF ev[1] = "SafeModeSignal" THEN ev[2] ELSE st.safemode
        /\ cur.manualmode = IF ev[1] = "ManualModeSignal" THEN ev[2] ELSE st.manualmode
        /\ cur.daemon = IF ev[1] = "PayloadSignal" THEN ev[2] ELSE st.daemon
        /\ cur.leop = IF ev[1] = "LEOPSignal" THEN ev[2] ELSE st.leop
        /\ cur.shell_commands = st.shell_commands
        /\ ev[1] \notin {"ADCSSignal", "ADCSreqSignal"} =>
             cur.pointing = st.pointing /\ cur.requested = st.requested
        /\ target = cur
    <3> HIDE DEF cur, target, ev
    <3> QED
      BY <1>1, <2>1, UpdateFields
  <2> HIDE DEF cur, target, ev
  <2>3. st'.leop = cur.leop
    BY <1>2, <2>2
  <2>4. st'.leop = IF ev[1] = "LEOPSignal" \/ (ev[1] = "LEOPReq" /\ ev[2] # "DONE")
                   THEN ev[2] ELSE st.leop
    BY <2>1, <2>2, <2>3
  <2> QED
    BY <1>2, <2>2, <2>4 DEF ev
<1>4. CASE ~IsFact(ev)
  <2>1. /\ cur = st /\ target = Update(st, ev)
        /\ ev[1] \in {"SafeModeReq", "ManualModeReq", "LEOPReq", "PayloadReq",
                      "ShellCommandReq"}
    BY <1>4 DEF Current, Target, IsFact, Requests
  <2>2. target.leop = IF ev[1] = "LEOPReq" THEN ev[2] ELSE st.leop
    BY <1>1, <2>1, UpdateFields
  <2> HIDE DEF cur, target, ev
  <2> QED
    BY <1>1, <1>2, <2>1, <2>2 DEF ev
<1> QED
  BY <1>3, <1>4

LEMMA HandleEventKeepsModes ==
  ASSUME IInv, ModeInv, HandleEvent
  PROVE  ModeInv'
<1> DEFINE ev == Head(agenda).event
           cur == Current(st, ev)
           target == Target(st, ev)
           todo == TransformTo(cur, target)
           new == [i \in DOMAIN todo |-> Perform(todo[i])]
<1>1. /\ ev \in Event /\ st \in State /\ agenda \in Seq(WorkItem) /\ agenda # <<>>
      /\ Head(agenda).op = "on_event"
      /\ cur \in State /\ target \in State /\ todo \in Seq(Action)
      /\ st' = Settle(cur, target)
      /\ agenda' = new \o Tail(agenda)
  BY HandleEventShape
<1>2. /\ st'.maneuvermode = IF ev[1] = "ManeuverModeSignal" THEN ev[2] ELSE st.maneuvermode
      /\ st'.leop = IF ev[1] = "LEOPSignal" \/ (ev[1] = "LEOPReq" /\ ev[2] # "DONE")
                    THEN ev[2] ELSE st.leop
      /\ st'.daemon = IF ev[1] = "PayloadSignal" THEN ev[2] ELSE st.daemon
      /\ st'.shell_commands = st.shell_commands
      /\ ev[1] \notin {"ADCSSignal", "ADCSreqSignal"} =>
           st'.pointing = st.pointing /\ st'.requested = st.requested
  BY HandledFields
<1>3. /\ target.daemon = IF ev[1] \in {"PayloadSignal", "PayloadReq"}
                         THEN ev[2] ELSE st.daemon
      /\ ev[1] = "PayloadReq" =>
           /\ cur = st
           /\ target.shell_commands = st.shell_commands
           /\ target.manualmode = st.manualmode
           /\ target.safemode = st.safemode /\ target.leop = st.leop
  BY <1>1, UpdateFields DEF Target, Current, IsFact, Requests
<1>4. Range(todo) \subseteq FittingActions(st', target)
  BY <1>1, TransformToFits
<1>5. ASSUME ev[1] = "PayloadReq", NEW i \in DOMAIN todo, todo[i].kind = "TriggerMeasuring"
      PROVE  i = 1
  BY <1>1, <1>3, <1>5, MeasuringComesFirst DEF ModeInv, NoCommandLeft
<1> HIDE DEF ev, cur, target, todo
<1>6. new \in Seq(WorkItem)
  BY <1>1, PerformAll
<1>7. \A i \in DOMAIN new : /\ i \in DOMAIN todo /\ todo[i] \in Range(todo)
                            /\ new[i].op = "perform" /\ new[i].action = todo[i]
  BY DEF Perform, Range
<1> HIDE DEF new
<1>8. /\ Len(new) \in Nat /\ Len(agenda) \in Nat \ {0} /\ Head(agenda) = agenda[1]
      /\ DOMAIN agenda = 1 .. Len(agenda) /\ DOMAIN new = 1 .. Len(new)
      /\ Len(agenda') = Len(new) + Len(agenda) - 1
      /\ DOMAIN agenda' = 1 .. Len(agenda')
      /\ \A i \in 1 .. Len(new) : agenda'[i] = new[i]
      /\ \A i \in 2 .. Len(agenda) : agenda'[Len(new) + i - 1] = agenda[i]
      /\ \A k \in DOMAIN agenda' : k \in 1 .. Len(new)
           \/ \E i \in 2 .. Len(agenda) : k = Len(new) + i - 1 /\ agenda'[k] = agenda[i]
  <2>1. /\ new \in Seq(WorkItem) /\ agenda \in Seq(WorkItem) /\ agenda # <<>>
        /\ agenda' = new \o Tail(agenda)
    BY <1>1, <1>6
  <2>2. Spliced(agenda, new, agenda')
    BY <2>1, Places
  <2> QED
    BY <2>2 DEF Spliced
<1>9. AdcsCommandsFit'
  <2> SUFFICES ASSUME NEW k \in DOMAIN agenda'
               PROVE  /\ Fits(agenda'[k], st')
                      /\ ~Forbids(agenda'[k]) /\ ~Repoints(agenda'[k])
    BY DEF AdcsCommandsFit, CommandsAdcs, Forbids, Repoints, Fits, MayCommand,
       MayDetumble, MayPoint, AdcsFree, AdcsKinds
  <2>1. CASE k \in 1 .. Len(new)
    BY <1>4, <1>7, <1>8, <2>1 DEF Fits, Forbids, Repoints, FittingActions
  <2>2. CASE k \notin 1 .. Len(new)
    <3>1. PICK i \in 2 .. Len(agenda) : agenda'[k] = agenda[i]
      BY <1>8, <2>2
    <3>2. i \in DOMAIN agenda /\ 1 \in DOMAIN agenda /\ Len(agenda) # 1 /\ i # 1
      BY <1>8, <3>1
    <3>3. ~Forbids(agenda[i]) /\ ~Forbids(Head(agenda)) /\ ~Repoints(agenda[i])
      BY <1>8, <3>2 DEF ModeInv, AdcsCommandsFit
    <3>4. Fits(agenda[i], st)
      BY <3>2 DEF ModeInv, AdcsCommandsFit
    <3>5. Fits(agenda[i], st')
      <4>1. CASE Repoints(Head(agenda))
        <5>1. ~CommandsAdcs(agenda[i])
          BY <1>8, <3>2, <4>1 DEF ModeInv, AdcsCommandsFit
        <5> QED
          BY <5>1, CommandsFit
      <4>2. CASE ~Repoints(Head(agenda))
        <5>1. AdcsFree(st) => AdcsFree(st')
          BY <1>1, <1>2, <3>3 DEF AdcsFree, Forbids, ev
        <5>2. st'.pointing = st.pointing /\ st'.requested = st.requested
          BY <1>1, <1>2, <4>2 DEF Repoints, ev
        <5> QED
          BY <3>4, <5>1, <5>2, CommandsFit
      <4> QED
        BY <4>1, <4>2
    <3> QED
      BY <3>1, <3>3, <3>5
  <2> QED
    BY <2>1, <2>2
<1>10. MeasurementsFit'
  <2>1. 1 \in DOMAIN agenda
    BY <1>8
  <2>2. Asks(Head(agenda)) => ev[1] = "PayloadReq"
    BY <1>8, <2>1 DEF ModeInv, MeasurementsFit, ev
  <2>3. st'.daemon # "WANTMEASURE"
    BY <1>1, <1>2, <2>2 DEF ModeInv, MeasurementsFit, Asks, ev
  <2>4. target.daemon = "WANTMEASURE" => ev[1] = "PayloadReq"
    BY <1>1, <1>3, <2>2 DEF ModeInv, MeasurementsFit, Asks, ev
  <2>5. ASSUME NEW k \in DOMAIN agenda'
        PROVE  /\ StartsMeasuring(agenda'[k]) => k = 1 /\ FitNow(st')
               /\ ~Asks(agenda'[k])
    <3>1. CASE k \in 1 .. Len(new)
      <4>1. agenda'[k].op = "perform" /\ agenda'[k].action = todo[k]
            /\ k \in DOMAIN todo /\ todo[k] \in Range(todo)
        BY <1>7, <1>8, <3>1
      <4>2. todo[k].kind = "TriggerMeasuring" => k = 1 /\ FitNow(st')
        BY <1>4, <1>5, <2>4, <4>1 DEF FittingActions
      <4> QED
        BY <4>1, <4>2 DEF StartsMeasuring, Asks
    <3>2. CASE k \notin 1 .. Len(new)
      <4>1. PICK i \in 2 .. Len(agenda) : agenda'[k] = agenda[i]
        BY <1>8, <3>2
      <4>2. i \in 2 .. Len(agenda) /\ Len(agenda) \in Nat /\ DOMAIN agenda = 1 .. Len(agenda)
        BY <1>8, <4>1
      <4>3. i \in DOMAIN agenda /\ i # 1 /\ Len(agenda) # 1
        BY <4>2
      <4>4. ~StartsMeasuring(agenda[i]) /\ ~Asks(agenda[i])
        BY <4>3 DEF ModeInv, MeasurementsFit
      <4> QED
        BY <4>1, <4>4
    <3> QED
      BY <3>1, <3>2
  <2> QED
    BY <2>3, <2>5 DEF MeasurementsFit, StartsMeasuring, Asks, FitNow
<1>11. NoCommandLeft'
  BY <1>2 DEF ModeInv, NoCommandLeft
<1>12. ScriptFollows'
  <2> SUFFICES ASSUME NEW k \in DOMAIN agenda', agenda'[k].op = "on_event",
                      NEW kind \in Announced(agenda'[k].event)
               PROVE  \E j \in DOMAIN agenda' : j > k /\ agenda'[j] = Spawn(kind)
    BY DEF ScriptFollows, Announced, Spawn
  <2>1. k \notin 1 .. Len(new)
    BY <1>7, <1>8
  <2>2. PICK i \in 2 .. Len(agenda) : k = Len(new) + i - 1 /\ agenda'[k] = agenda[i]
    BY <1>8, <2>1
  <2>3. PICK j \in DOMAIN agenda : j > i /\ agenda[j] = Spawn(kind)
    BY <1>8, <2>2 DEF ModeInv, ScriptFollows
  <2>4. /\ Len(new) + j - 1 \in DOMAIN agenda' /\ Len(new) + j - 1 > k
        /\ agenda'[Len(new) + j - 1] = Spawn(kind)
    BY <1>8, <2>2, <2>3
  <2> QED
    BY <2>4
<1> QED
  BY <1>9, <1>10, <1>11, <1>12 DEF ModeInv

\* What the body of a call may hold.
LEMMA PushedItems ==
  ASSUME NEW head, NEW new, Pushes(head, new), NEW k \in DOMAIN new
  PROVE  /\ ~Forbids(new[k]) /\ ~Asks(new[k])
         /\ CommandsAdcs(new[k]) => CommandsAdcs(head)
         /\ \A s : Fits(head, s) => Fits(new[k], s)
         /\ Repoints(new[k]) => k = 1 /\ Repoints(head)
         /\ StartsMeasuring(new[k]) => StartsMeasuring(head) /\ Len(new) = 1
         /\ new[k].op = "on_event" => \A kind \in Announced(new[k].event) :
              \E j \in DOMAIN new : j > k /\ new[j] = Spawn(kind)
<1>1. Repoints(new[k]) => k = 1 /\ Repoints(head)
  BY DEF Pushes
<1>2. \A s : Fits(head, s) => Fits(new[k], s)
  <2>1. CASE head.op = "perform" /\ new[k] = Spawn(head.action.kind)
    BY <2>1 DEF Fits, Spawn
  <2>2. CASE Bookkeeping(new[k]) \/ \E ev \in Raised : new[k] = OnEvent(ev)
    BY <2>2 DEF Fits, Bookkeeping, OnEvent
  <2> QED
    BY <2>1, <2>2 DEF Pushes
<1>3. CASE Bookkeeping(new[k])
  <2>1. new[k].op \notin {"on_event", "perform", "spawn"}
    BY <1>3 DEF Bookkeeping
  <2>2. ~Forbids(new[k]) /\ ~Asks(new[k]) /\ ~CommandsAdcs(new[k]) /\ ~StartsMeasuring(new[k])
    BY <2>1 DEF Forbids, Asks, CommandsAdcs, StartsMeasuring
  <2> QED
    BY <1>1, <1>2, <2>1, <2>2
<1>4. CASE head.op = "perform" /\ new[k] = Spawn(head.action.kind)
  <2>1. new[k].op = "spawn" /\ new[k].kind = head.action.kind
    BY <1>4 DEF Spawn
  <2>2. head.action.kind = "TriggerMeasuring" => Len(new) = 1
    BY <1>4 DEF Pushes
  <2>3. ~Forbids(new[k]) /\ ~Asks(new[k])
    BY <2>1 DEF Forbids, Asks
  <2>4. /\ CommandsAdcs(new[k]) => CommandsAdcs(head)
        /\ StartsMeasuring(new[k]) => StartsMeasuring(head) /\ Len(new) = 1
    BY <1>4, <2>1, <2>2 DEF CommandsAdcs, StartsMeasuring
  <2> QED
    BY <1>1, <1>2, <2>1, <2>3, <2>4
<1>5. ASSUME NEW ev \in Raised, new[k] = OnEvent(ev),
             \A kind \in Announced(ev) :
               \E j \in DOMAIN new : j > k /\ new[j] = Spawn(kind)
      PROVE  /\ ~Forbids(new[k]) /\ ~Asks(new[k]) /\ ~CommandsAdcs(new[k])
             /\ ~StartsMeasuring(new[k]) /\ new[k].event = ev
  <2>1. new[k].op = "on_event" /\ new[k].event = ev
    BY <1>5 DEF OnEvent
  <2>2. /\ ev[1] = "ManeuverModeSignal" => ev[2] = FALSE
        /\ ev[1] = "LEOPSignal" => ev[2] = "DONE"
        /\ ev[1] = "PayloadSignal" => ev[2] = "MEASURING"
        /\ ev[1] \notin {"LEOPReq", "PayloadReq"}
    <3>1. CASE ev[1] \in {"SafeModeSignal", "ManualModeSignal", "ADCSreqSignal"}
      BY <3>1
    <3>2. CASE ev = SafeModeReq(TRUE)
      BY <3>2 DEF SafeModeReq
    <3>3. CASE ev = ManeuverModeSignal(FALSE)
      <4>1. ev[1] = "ManeuverModeSignal" /\ ev[2] = FALSE
        BY <3>3 DEF ManeuverModeSignal
      <4> QED
        BY <4>1
    <3>4. CASE ev = LEOPSignal("DONE")
      BY <3>4 DEF LEOPSignal
    <3>5. CASE ev = PayloadSignal("MEASURING")
      BY <3>5 DEF PayloadSignal
    <3> QED
      BY <3>1, <3>2, <3>3, <3>4, <3>5 DEF Raised
  <2> QED
    BY <2>1, <2>2 DEF Forbids, Asks, CommandsAdcs, StartsMeasuring
<1> QED
  BY <1>1, <1>2, <1>3, <1>4, <1>5 DEF Pushes

LEMMA CarriedKeepsModes ==
  ASSUME IInv, ModeInv, Carried
  PROVE  ModeInv'
<1>1. PICK new : Pushes(Head(agenda), new) /\ agenda' = new \o Tail(agenda)
  BY DEF Carried
<1>2. /\ agenda \in Seq(WorkItem) /\ agenda # <<>> /\ new \in Seq(WorkItem)
      /\ st \in State /\ st' \in {st, [st EXCEPT !.safemode = 0]}
  BY <1>1 DEF IInv, TypeOK, Carried, Pushes
<1>3. Spliced(agenda, new, agenda')
  BY <1>1, <1>2, Places
<1>4. /\ st'.maneuvermode = st.maneuvermode /\ st'.leop = st.leop
      /\ st'.manualmode = st.manualmode /\ st'.battery_level = st.battery_level
      /\ st'.all_temp = st.all_temp /\ st'.daemon = st.daemon
      /\ st'.shell_commands = st.shell_commands
      /\ st.safemode = 0 => st'.safemode = 0
  BY <1>2 DEF State
<1>5. ASSUME NEW item, Fits(item, st) PROVE Fits(item, st')
  <2>1. st'.pointing = st.pointing /\ st'.requested = st.requested
    BY <1>2 DEF State
  <2>2. AdcsFree(st) => AdcsFree(st')
    BY <1>4 DEF AdcsFree
  <2> QED
    BY <1>5, <2>1, <2>2, CommandsFit
<1>6. FitNow(st) => FitNow(st')
  BY <1>4 DEF FitNow, RulesApply, FitForMeasuring
<1>7. ASSUME NEW k \in DOMAIN agenda', k \in 1 .. Len(new)
      PROVE  /\ agenda'[k] = new[k] /\ k \in DOMAIN new
             /\ ~Forbids(new[k]) /\ ~Asks(new[k])
             /\ CommandsAdcs(new[k]) => CommandsAdcs(agenda[1])
             /\ Fits(agenda[1], st) => Fits(new[k], st)
             /\ Repoints(new[k]) => k = 1 /\ Repoints(agenda[1])
             /\ StartsMeasuring(new[k]) => StartsMeasuring(agenda[1]) /\ k = 1
  <2>1. agenda'[k] = new[k] /\ k \in DOMAIN new /\ Head(agenda) = agenda[1]
    BY <1>3, <1>7 DEF Spliced
  <2>2. Len(new) = 1 => k = 1
    BY <1>7
  <2> QED
    BY <1>1, <2>1, <2>2, PushedItems
<1>8. ASSUME NEW k \in DOMAIN agenda', k \notin 1 .. Len(new)
      PROVE  \E i \in DOMAIN agenda :
               /\ i # 1 /\ Len(agenda) # 1 /\ agenda'[k] = agenda[i]
  <2>1. PICK i \in 2 .. Len(agenda) : agenda'[k] = agenda[i]
    BY <1>3, <1>8 DEF Spliced
  <2>2. DOMAIN agenda = 1 .. Len(agenda) /\ Len(agenda) \in Nat
    BY <1>3 DEF Spliced
  <2>3. i \in DOMAIN agenda /\ i # 1 /\ Len(agenda) # 1
    BY <2>2
  <2> QED
    BY <2>1, <2>3
<1>9. 1 \in DOMAIN agenda
  BY <1>3 DEF Spliced
<1>10. ASSUME NEW k \in DOMAIN agenda'
       PROVE  /\ ~Forbids(agenda'[k]) /\ ~Asks(agenda'[k])
              /\ Fits(agenda'[k], st')
              /\ Repoints(agenda'[k]) => k = 1 /\ Repoints(agenda[1])
              /\ Repoints(agenda[1]) => ~CommandsAdcs(agenda'[k])
              /\ StartsMeasuring(agenda'[k]) => k = 1 /\ FitNow(st')
  <2>1. CASE k \in 1 .. Len(new)
    <3>1. Fits(agenda[1], st) /\ (Repoints(agenda[1]) => ~CommandsAdcs(agenda[1]))
      BY <1>9 DEF ModeInv, AdcsCommandsFit
    <3>2. StartsMeasuring(agenda[1]) => FitNow(st)
      BY <1>9 DEF ModeInv, MeasurementsFit
    <3> QED
      BY <1>5, <1>6, <1>7, <2>1, <3>1, <3>2
  <2>2. CASE k \notin 1 .. Len(new)
    <3>1. PICK i \in DOMAIN agenda : i # 1 /\ Len(agenda) # 1 /\ agenda'[k] = agenda[i]
      BY <1>8, <2>2
    <3>2. /\ ~Forbids(agenda[i]) /\ ~Repoints(agenda[i]) /\ Fits(agenda[i], st)
          /\ Repoints(agenda[1]) => ~CommandsAdcs(agenda[i])
      BY <1>9, <3>1 DEF ModeInv, AdcsCommandsFit
    <3>3. ~Asks(agenda[i]) /\ ~StartsMeasuring(agenda[i])
      BY <3>1 DEF ModeInv, MeasurementsFit
    <3> QED
      BY <1>5, <3>1, <3>2, <3>3
  <2> QED
    BY <2>1, <2>2
<1>11. AdcsCommandsFit'
  BY <1>10 DEF AdcsCommandsFit, CommandsAdcs, Forbids, Repoints, Fits, MayCommand,
     MayDetumble, MayPoint, AdcsFree, AdcsKinds
<1>12. MeasurementsFit'
  BY <1>4, <1>10 DEF ModeInv, MeasurementsFit, StartsMeasuring, Asks, FitNow
<1>13. NoCommandLeft'
  BY <1>4 DEF ModeInv, NoCommandLeft
<1>14. ScriptFollows'
  <2> SUFFICES ASSUME NEW k \in DOMAIN agenda', agenda'[k].op = "on_event",
                      NEW kind \in Announced(agenda'[k].event)
               PROVE  \E j \in DOMAIN agenda' : j > k /\ agenda'[j] = Spawn(kind)
    BY DEF ScriptFollows, Announced, Spawn
  <2>1. CASE k \in 1 .. Len(new)
    <3>1. PICK j \in DOMAIN new : j > k /\ new[j] = Spawn(kind)
      BY <1>1, <1>7, <2>1, PushedItems
    <3>2. j \in DOMAIN agenda' /\ agenda'[j] = new[j]
      BY <1>3, <3>1 DEF Spliced
    <3> QED
      BY <3>1, <3>2
  <2>2. CASE k \notin 1 .. Len(new)
    <3>1. PICK i \in 2 .. Len(agenda) : k = Len(new) + i - 1 /\ agenda'[k] = agenda[i]
      BY <1>3, <2>2 DEF Spliced
    <3>2. i \in DOMAIN agenda
      BY <1>3, <3>1 DEF Spliced
    <3>3. PICK j \in DOMAIN agenda : j > i /\ agenda[j] = Spawn(kind)
      BY <3>1, <3>2 DEF ModeInv, ScriptFollows
    <3>4. /\ Len(new) + j - 1 \in DOMAIN agenda' /\ Len(new) + j - 1 > k
          /\ agenda'[Len(new) + j - 1] = Spawn(kind)
      BY <1>3, <3>1, <3>3 DEF Spliced
    <3> QED
      BY <3>4
  <2> QED
    BY <2>1, <2>2
<1> QED
  BY <1>11, <1>12, <1>13, <1>14 DEF ModeInv

LEMMA ArrivesKeepsModes ==
  ASSUME IInv, ModeInv, Arrives
  PROVE  ModeInv'
<1>1. PICK item \in WorkItem :
        /\ agenda' = <<item>> /\ st' = st
        /\ Bookkeeping(item) \/ \E ev \in Sent : item = OnEvent(ev)
  BY DEF Arrives
<1>2. Len(agenda') = 1 /\ \A k \in DOMAIN agenda' : agenda'[k] = item
  BY <1>1
<1>3. /\ ~CommandsAdcs(item) /\ ~StartsMeasuring(item)
      /\ Asks(item) => item.event[1] = "PayloadReq"
      /\ item.op = "on_event" => Announced(item.event) = {}
  <2>1. CASE Bookkeeping(item)
    BY <2>1 DEF Bookkeeping, CommandsAdcs, StartsMeasuring, Asks
  <2>2. ASSUME NEW ev \in Sent, item = OnEvent(ev)
        PROVE  /\ ~CommandsAdcs(item) /\ ~StartsMeasuring(item)
               /\ Asks(item) => item.event[1] = "PayloadReq"
               /\ Announced(item.event) = {}
    <3>1. item.op = "on_event" /\ item.event = ev
      BY <2>2 DEF OnEvent
    <3>2. /\ ev[1] \notin {"SafeModeSignal", "ManualModeSignal", "LEOPSignal"}
          /\ ev[1] = "PayloadSignal" => ev[2] = "IDLE"
      BY DEF Sent
    <3>3. Announced(ev) = {}
      BY <3>2, AnnouncedKinds
    <3> QED
      BY <3>1, <3>2, <3>3 DEF CommandsAdcs, StartsMeasuring, Asks
  <2> QED
    BY <1>1, <2>1, <2>2
<1>4. AdcsCommandsFit'
  <2>1. Fits(item, st')
    BY <1>3, CommandsFit
  <2>2. \A k \in DOMAIN agenda' :
          k = 1 /\ Fits(agenda'[k], st') /\ ~CommandsAdcs(agenda'[k])
    BY <1>1, <1>2, <1>3, <2>1
  <2> QED
    BY <1>2, <2>2 DEF AdcsCommandsFit, CommandsAdcs, Forbids, Repoints, Fits,
       MayCommand, MayDetumble, MayPoint, AdcsFree, AdcsKinds
<1>5. MeasurementsFit'
  BY <1>1, <1>2, <1>3 DEF ModeInv, MeasurementsFit, StartsMeasuring, Asks
<1>6. NoCommandLeft'
  BY <1>1 DEF ModeInv, NoCommandLeft
<1>7. ScriptFollows'
  BY <1>2, <1>3 DEF ScriptFollows, Announced
<1> QED
  BY <1>4, <1>5, <1>6, <1>7 DEF ModeInv

LEMMA StartSetsModes ==
  ASSUME NEW s, Start(s)
  PROVE  s.daemon = "OFF" /\ s.shell_commands = 0
BY DEF Start, InitialState

THEOREM InitModeInv == Init => ModeInv
<1> SUFFICES ASSUME Init PROVE ModeInv
  OBVIOUS
<1>1. agenda = <<>> /\ st.daemon = "OFF" /\ st.shell_commands = 0
  BY StartSetsModes DEF Init, SatelliteInit
<1>2. DOMAIN agenda = {}
  BY <1>1
<1> QED
  BY <1>1, <1>2
     DEF ModeInv, AdcsCommandsFit, MeasurementsFit, NoCommandLeft, ScriptFollows

LEMMA StepKeepsModes ==
  ASSUME IInv, ModeInv, [Next]_vars
  PROVE  ModeInv'
<1>1. CASE UNCHANGED <<st, agenda>>
  BY <1>1 DEF ModeInv, AdcsCommandsFit, MeasurementsFit, NoCommandLeft, ScriptFollows,
              CommandsAdcs, Forbids, Repoints, Fits, MayCommand, MayDetumble, MayPoint,
              StartsMeasuring, Asks, AdcsFree, FitNow
<1>2. CASE Start(st') /\ agenda' = <<>>
  <2>1. st'.daemon = "OFF" /\ st'.shell_commands = 0
    BY <1>2, StartSetsModes
  <2>2. DOMAIN agenda' = {}
    BY <1>2
  <2> QED
    BY <2>1, <2>2
       DEF ModeInv, AdcsCommandsFit, MeasurementsFit, NoCommandLeft, ScriptFollows
<1> QED
  BY <1>1, <1>2, StepShape, HandleEventKeepsModes, CarriedKeepsModes, ArrivesKeepsModes

-----------------------------------------------------------------------------
(* The theorems *)

\* The invariant that carries the proofs below holds in every state of HORST,
\* whatever the order of events, failed scripts, terminated scripts, crashes
\* and restarts of the daemon (satellite.cpp:105-170).
THEOREM ModeInvariance == Spec => [](IInv /\ ModeInv)
<1>1. Init => ModeInv
  BY InitModeInv
<1>2. IInv /\ ModeInv /\ [Next]_vars => ModeInv'
  BY StepKeepsModes
<1> QED
  BY <1>1, <1>2, Invariance, PTL DEF Spec

\* trigger_detumbling.sh and trigger_sunpointing.sh are started only outside
\* maneuver mode, after deployment, and with the pointing their rule asks for,
\* for all values of the constants (state.cpp:94-111).
THEOREM TriggersAlwaysFit == Spec => []TriggersFit
<1>1. IInv /\ ModeInv => TriggersFit
  <2> SUFFICES ASSUME IInv, ModeInv, Doing("spawn")
               PROVE  MayCommand(st, Head(agenda).kind)
    BY DEF TriggersFit, MayCommand
  <2>1. 1 \in DOMAIN agenda /\ Head(agenda) = agenda[1]
    BY DEF Doing, IInv, TypeOK
  <2>2. Fits(agenda[1], st)
    BY <2>1 DEF ModeInv, AdcsCommandsFit
  <2> QED
    BY <2>1, <2>2 DEF Doing, Fits
<1> QED
  BY <1>1, ModeInvariance, PTL

\* The payload is told to measure only on a satellite that is fit for it, in
\* no special mode, with LEOP done, for all values of the constants
\* (state.cpp:86-92, trigger_measuring.cpp:22-32).
THEOREM MeasuringAlwaysFit == Spec => []MeasuringOnlyWhenFit
<1>1. IInv /\ ModeInv => MeasuringOnlyWhenFit
  <2> SUFFICES ASSUME IInv, ModeInv, Doing("spawn"), Head(agenda).kind = "TriggerMeasuring"
               PROVE  RulesApply(st) /\ FitForMeasuring(st)
    BY DEF MeasuringOnlyWhenFit
  <2>1. 1 \in DOMAIN agenda /\ Head(agenda) = agenda[1]
    BY DEF Doing, IInv, TypeOK
  <2>2. StartsMeasuring(agenda[1])
    BY <2>1 DEF Doing, StartsMeasuring
  <2>3. FitNow(st)
    BY <2>1, <2>2 DEF ModeInv, MeasurementsFit
  <2> QED
    BY <2>3 DEF FitNow
<1> QED
  BY <1>1, ModeInvariance, PTL

\* The script of an announced mode is still to be started once the event that
\* announces it has been handled, whatever that event has set off.
LEMMA AnnouncedScriptWaits ==
  ASSUME IInv, ModeInv, HandleEvent, NEW kind \in Announced(Head(agenda).event)
  PROVE  \E i \in DOMAIN agenda' : agenda'[i] = Spawn(kind)
<1> DEFINE todo == TransformTo(Current(st, Head(agenda).event), Target(st, Head(agenda).event))
           new == [i \in DOMAIN todo |-> Perform(todo[i])]
<1>1. /\ agenda \in Seq(WorkItem) /\ agenda # <<>> /\ Head(agenda).op = "on_event"
      /\ todo \in Seq(Action) /\ agenda' = new \o Tail(agenda)
  BY HandleEventShape
<1>2. new \in Seq(WorkItem)
  BY <1>1, PerformAll
<1> HIDE DEF new
<1>3. Spliced(agenda, new, agenda')
  BY <1>1, <1>2, Places
<1>4. 1 \in DOMAIN agenda /\ agenda[1] = Head(agenda)
  BY <1>3 DEF Spliced
<1>5. PICK j \in DOMAIN agenda : j > 1 /\ agenda[j] = Spawn(kind)
  BY <1>1, <1>4 DEF ModeInv, ScriptFollows
<1>6. Len(new) + j - 1 \in DOMAIN agenda' /\ agenda'[Len(new) + j - 1] = Spawn(kind)
  BY <1>3, <1>5 DEF Spliced
<1> QED
  BY <1>6

\* What an event changes in the modes, it announces.
LEMMA ModeChangeAnnounced ==
  ASSUME IInv, HandleEvent
  PROVE  LET announced == Announced(Head(agenda).event)
         IN /\ st.safemode = 0 /\ st'.safemode # 0 => "EnterSafeMode" \in announced
            /\ ~st.manualmode /\ st'.manualmode => "EnterManualMode" \in announced
            /\ st.manualmode /\ ~st'.manualmode => "LeaveManualMode" \in announced
            /\ st.leop # "DONE" /\ st'.leop = "DONE" => "FinishLEOP" \in announced
<1> DEFINE ev == Head(agenda).event
<1>1. /\ st'.leop = IF ev[1] = "LEOPSignal" \/ (ev[1] = "LEOPReq" /\ ev[2] # "DONE")
                    THEN ev[2] ELSE st.leop
      /\ st'.safemode = IF ev[1] = "SafeModeSignal" THEN ev[2] ELSE st.safemode
      /\ st'.manualmode = IF ev[1] = "ManualModeSignal" THEN ev[2] ELSE st.manualmode
  BY HandledFields
<1> HIDE DEF ev
<1>2. ASSUME st.safemode = 0, st'.safemode # 0
      PROVE  "EnterSafeMode" \in Announced(ev)
  <2>1. ev[1] = "SafeModeSignal" /\ ev[2] # 0
    BY <1>1, <1>2
  <2> QED
    BY <2>1 DEF Announced
<1>3. ASSUME ~st.manualmode, st'.manualmode
      PROVE  "EnterManualMode" \in Announced(ev)
  <2>1. ev[1] = "ManualModeSignal"
    BY <1>1, <1>3
  <2>2. ev[2]
    BY <1>1, <1>3, <2>1
  <2> QED
    BY <2>1, <2>2 DEF Announced
<1>4. ASSUME st.manualmode, ~st'.manualmode
      PROVE  "LeaveManualMode" \in Announced(ev)
  <2>1. ev[1] = "ManualModeSignal"
    BY <1>1, <1>4
  <2>2. ~ev[2]
    BY <1>1, <1>4, <2>1
  <2> QED
    BY <2>1, <2>2 DEF Announced
<1>5. ASSUME st.leop # "DONE", st'.leop = "DONE"
      PROVE  "FinishLEOP" \in Announced(ev)
  <2>1. ev[1] = "LEOPSignal" /\ ev[2] = "DONE"
    BY <1>1, <1>5
  <2> QED
    BY <2>1 DEF Announced
<1> QED
  BY <1>2, <1>3, <1>4, <1>5 DEF ev

\* No mode is announced without its script, for all values of the constants:
\* the event that changes a mode is raised only by the action that starts the
\* script right after it (enter_safemode.cpp:26-33, leave_manualmode.cpp:27-28,
\* enter_manualmode.cpp:24-26, finish_leop.cpp:24-25).
THEOREM ModeChangesRunScript == Spec => ModeChangeRunsScript
<1> DEFINE Starts(kind) == \E i \in DOMAIN agenda' : agenda'[i] = Spawn(kind)
           Scripted ==
             /\ st.safemode = 0 /\ st'.safemode # 0 => Starts("EnterSafeMode")
             /\ ~st.manualmode /\ st'.manualmode => Starts("EnterManualMode")
             /\ st.manualmode /\ ~st'.manualmode => Starts("LeaveManualMode")
             /\ st.leop # "DONE" /\ st'.leop = "DONE" => Starts("FinishLEOP")
<1>1. IInv /\ ModeInv /\ [Next]_vars => [Running => Scripted]_vars
  <2> SUFFICES ASSUME IInv, ModeInv, [Next]_vars, Running
               PROVE  Scripted
    OBVIOUS
  <2>1. CASE HandleEvent
    <3> HIDE DEF Starts
    <3>1. \A kind \in Announced(Head(agenda).event) : Starts(kind)
      BY <2>1, AnnouncedScriptWaits DEF Starts
    <3> QED
      BY <2>1, <3>1, ModeChangeAnnounced
  <2>2. CASE Carried
    <3>1. /\ st'.manualmode = st.manualmode /\ st'.leop = st.leop
          /\ st.safemode = 0 => st'.safemode = 0
      BY <2>2 DEF Carried, IInv, TypeOK, State
    <3> QED
      BY <3>1
  <2>3. CASE st' = st
    BY <2>3
  <2> QED
    BY <2>1, <2>2, <2>3, StepShape DEF Arrives
<1> QED
  BY <1>1, ModeInvariance, PTL DEF Spec, ModeChangeRunsScript, Starts, Scripted

=============================================================================
