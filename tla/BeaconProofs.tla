----------------------------- MODULE BeaconProofs -----------------------------
(***************************************************************************)
(* What ground sees of the modes is what Modes allows, and no event makes  *)
(* the daemon call itself until the stack is exhausted: ModesKept of       *)
(* Beacon and NoOverflow of Horst, for every value of the constants that   *)
(* leaves out the two faults known to break them: an enforced_safemode     *)
(* that is set at start, and a script that cannot be started.              *)
(*                                                                         *)
(* The agenda of a running handler has one of seven shapes.  Each of them  *)
(* says what ground will see when the agenda is empty, and every step of   *)
(* the handler leads to a shape that says the same.                        *)
(***************************************************************************)
EXTENDS ActionProofs, Beacon

-----------------------------------------------------------------------------
(* What ground will see *)

\* The modes of a state and the scripts that put them into effect, as the
\* variables of Modes.
View(s, entering, leaving) ==
  [safemode |-> s.safemode, manual |-> s.manualmode, maneuver |-> s.maneuvermode,
   temp |-> s.all_temp, battery |-> s.battery_level,
   entering |-> entering, leaving |-> leaving]

\* ... after safe mode has been entered.
Safe(view, reason) ==
  [safemode |-> reason, manual |-> view.manual, maneuver |-> FALSE,
   temp |-> view.temp, battery |-> view.battery,
   entering |-> view.entering + 1, leaving |-> view.leaving]

\* The reason an emergency gives for safe mode.
Reason(s) == IF Overheated(s) THEN 1 ELSE 2

\* ... after the emergency rules have been applied.
Answered(s, view) ==
  IF Emergency(s) THEN Safe(view, Reason(s)) ELSE view
Ruled(s, entering, leaving) == Answered(s, View(s, entering, leaving))

\* ... after safe mode has been requested.
Requested(s, entering, leaving) == Answered(s, Safe(View(s, entering, leaving), 3))

RequestEffect(s, entering, leaving, ev) ==
  CASE ev[1] = "SafeModeReq" /\ ev[2] -> Requested(s, entering, leaving)
    [] ev[1] = "SafeModeReq" /\ ~ev[2] /\ s.safemode # 0 ->
         Ruled(Update(s, SafeModeSignal(0)), entering, leaving)
    [] ev[1] = "ManualModeReq" /\ ev[2] # s.manualmode ->
         Ruled(Update(s, ManualModeSignal(ev[2])), entering,
               IF ev[2] THEN leaving ELSE leaving + 1)
    [] OTHER -> View(s, entering, leaving)

EventEffect(s, entering, leaving, ev) ==
  IF IsFact(ev) THEN Ruled(Update(s, ev), entering, leaving)
  ELSE RequestEffect(s, entering, leaving, ev)

\* A script of this kind has ended.
ScriptEffect(s, entering, leaving, kind, success) ==
  CASE kind = "EnterSafeMode" /\ ~success ->
         Ruled([s EXCEPT !.safemode = 0], entering, leaving)
    [] kind = "LeaveManualMode" /\ s.safemode # 0 ->
         Requested([s EXCEPT !.safemode = 0], entering, leaving)
    [] OTHER -> View(s, entering, leaving)

-----------------------------------------------------------------------------
(* What the agenda says of it *)

ModeKinds == {"EnterManualMode", "LeaveManualMode", "EnterSafeMode",
              "LeaveSafeMode", "FinishLEOP"}

\* The work items that may still change a mode.
Touches(item) ==
  \/ item.op \in {"on_event", "exited", "assign"}
  \/ item.op = "perform" /\ item.action.kind \in ModeKinds

\* From place n on nothing changes a mode ...
Quiet(items, n) == \A i \in DOMAIN items : i >= n => ~Touches(items[i])

\* ... or safe mode is entered once, and view becomes end.
Later(items, n, view, end) ==
  \/ Quiet(items, n) /\ end = view
  \/ \E p \in DOMAIN items, reason \in 1 .. 3 :
       /\ p >= n /\ items[p] = Perform(EnterSafeMode(reason))
       /\ \A i \in DOMAIN items : i >= n /\ i # p => ~Touches(items[i])
       /\ end = Safe(view, reason)

\* The shapes of the agenda, with what ground will see when it is empty.
Draining(items, s, entering, leaving, end) ==
  Len(items) <= 4 /\ Later(items, 1, View(s, entering, leaving), end)

SafeOrder == SafeModeReq(TRUE)

EventPending(items, s, entering, leaving, end) ==
  LET ev == items[1].event
  IN /\ items # <<>> /\ items[1].op = "on_event" /\ Quiet(items, 2)
     /\ end = EventEffect(s, entering, leaving, ev)
     /\ \/ IsFact(ev) /\ Len(items) <= 3
        \/ ev = SafeOrder /\ Len(items) <= 2
        \/ ~IsFact(ev) /\ ~Emergency(s) /\ Len(items) = 1

EnterPending(items, s, entering, leaving, end) ==
  /\ items # <<>> /\ Len(items) <= 4
  /\ \E reason \in 1 .. 3 :
       /\ items[1] = Perform(EnterSafeMode(reason))
       /\ Later(items, 2, Safe(View(s, entering, leaving), reason), end)

Entering(items, s, entering, leaving, end) ==
  /\ Len(items) \in 2 .. 6
  /\ \E reason \in 1 .. 3 :
       /\ items[1] = OnEvent(SafeModeSignal(reason))
       /\ items[2] = OnEvent(ManeuverModeSignal(FALSE))
       /\ Later(items, 3, View([s EXCEPT !.safemode = reason, !.maneuvermode = FALSE],
                               entering, leaving), end)

Entered(items, s, entering, leaving, end) ==
  /\ Len(items) \in 1 .. 5 /\ s.safemode # 0
  /\ items[1] = OnEvent(ManeuverModeSignal(FALSE))
  /\ Later(items, 2, View([s EXCEPT !.maneuvermode = FALSE], entering, leaving), end)

ModePending(items, s, entering, leaving, end) ==
  LET action == items[1].action
      ev     == Prelude(action)[1].event
  IN /\ Len(items) \in 1 .. 2 /\ Quiet(items, 2)
     /\ items[1].op = "perform" /\ action.kind \in ModeKinds \ {"EnterSafeMode"}
     /\ end = Ruled(Update(s, ev), entering,
                    IF action.kind = "LeaveManualMode" THEN leaving + 1 ELSE leaving)

ExitPending(items, s, entering, leaving, end) ==
  /\ ~Emergency(s)
  /\ \E kind \in Kind, success \in BOOLEAN :
       /\ items = <<Exited(kind, success)>>
       /\ end = ScriptEffect(s, entering, leaving, kind, success)

Phase(items, s, entering, leaving, end) ==
  \/ Draining(items, s, entering, leaving, end)
  \/ EventPending(items, s, entering, leaving, end)
  \/ EnterPending(items, s, entering, leaving, end)
  \/ Entering(items, s, entering, leaving, end)
  \/ Entered(items, s, entering, leaving, end)
  \/ ModePending(items, s, entering, leaving, end)
  \/ ExitPending(items, s, entering, leaving, end)

\* Scripts of a kind that run, or are about to be started.
Promised(kind) == children[kind] + Count(agenda, {Spawn(kind)})

PhaseNow(end) ==
  Phase(agenda, st, Promised("EnterSafeMode"), Promised("LeaveManualMode"), end)

-----------------------------------------------------------------------------
(* Lists of work items *)

\* What was quiet behind the head stays so behind the items that replace it.
LEMMA QuietBehind ==
  ASSUME NEW items, NEW new, NEW all, Spliced(items, new, all), Quiet(items, 2),
         NEW n \in Int
  PROVE  /\ Quiet(new, n) => Quiet(all, n)
         /\ \A view, end : Later(new, n, view, end) => Later(all, n, view, end)
<1>1. \A k \in DOMAIN all : \/ k \in 1 .. Len(new) /\ all[k] = new[k]
                            \/ ~Touches(all[k])
  <2>1. \A i \in 2 .. Len(items) : i \in DOMAIN items /\ i >= 2
    BY DEF Spliced
  <2>2. \A i \in 2 .. Len(items) : ~Touches(items[i])
    BY <2>1 DEF Quiet
  <2> QED
    BY <2>2 DEF Spliced
<1>2. DOMAIN new = 1 .. Len(new) /\ Len(new) \in Nat /\ 1 .. Len(new) \subseteq DOMAIN all
  BY DEF Spliced
<1>3. Quiet(new, n) => Quiet(all, n)
  BY <1>1, <1>2 DEF Quiet
<1>4. ASSUME NEW view, NEW end, NEW p \in DOMAIN new, NEW reason \in 1 .. 3,
             p >= n, new[p] = Perform(EnterSafeMode(reason)),
             \A i \in DOMAIN new : i >= n /\ i # p => ~Touches(new[i]),
             end = Safe(view, reason)
      PROVE  Later(all, n, view, end)
  <2>1. p \in DOMAIN all /\ all[p] = Perform(EnterSafeMode(reason))
    BY <1>2, <1>4 DEF Spliced
  <2>2. \A i \in DOMAIN all : i >= n /\ i # p => ~Touches(all[i])
    BY <1>1, <1>2, <1>4
  <2> QED
    BY <1>4, <2>1, <2>2 DEF Later
<1> QED
  BY <1>3, <1>4 DEF Later

\* What follows the head, or the head and the item after it, moves by as many
\* places as there are new items.
LEMMA LaterBehind ==
  ASSUME NEW items, NEW new, NEW all, Spliced(items, new, all),
         NEW m \in {2, 3}, NEW n \in Nat, Quiet(new, n),
         (m = 2 /\ n <= Len(new) + 1) \/ n = Len(new) + m - 1,
         NEW view, NEW end, Later(items, m, view, end)
  PROVE  Later(all, n, view, end)
<1>1. \A k \in DOMAIN all : k >= n =>
        \/ ~Touches(all[k])
        \/ \E i \in DOMAIN items : i >= m /\ k = Len(new) + i - 1 /\ all[k] = items[i]
  <2> SUFFICES ASSUME NEW k \in DOMAIN all, k >= n, Touches(all[k])
               PROVE  \E i \in DOMAIN items :
                        i >= m /\ k = Len(new) + i - 1 /\ all[k] = items[i]
    OBVIOUS
  <2>1. ASSUME k \in 1 .. Len(new)
        PROVE  FALSE
    <3>1. all[k] = new[k] /\ k \in DOMAIN new
      BY <2>1 DEF Spliced
    <3> QED
      BY <3>1 DEF Quiet
  <2>2. PICK i \in 2 .. Len(items) : k = Len(new) + i - 1 /\ all[k] = items[i]
    BY <2>1 DEF Spliced
  <2>3. i \in DOMAIN items /\ i >= m
    BY <2>2 DEF Spliced
  <2> QED
    BY <2>2, <2>3
<1>2. CASE Quiet(items, m) /\ end = view
  <2>1. Quiet(all, n)
    BY <1>1, <1>2 DEF Quiet
  <2> QED
    BY <1>2, <2>1 DEF Later
<1>3. ASSUME NEW p \in DOMAIN items, NEW reason \in 1 .. 3,
             p >= m, items[p] = Perform(EnterSafeMode(reason)),
             \A i \in DOMAIN items : i >= m /\ i # p => ~Touches(items[i]),
             end = Safe(view, reason)
      PROVE  Later(all, n, view, end)
  <2> DEFINE q == Len(new) + p - 1
  <2>1. /\ p \in 2 .. Len(items) /\ Len(new) \in Nat /\ Len(items) \in Nat
        /\ Len(all) = Len(new) + Len(items) - 1 /\ DOMAIN all = 1 .. Len(all)
    <3>1. DOMAIN items = 1 .. Len(items) /\ Len(items) \in Nat
      BY DEF Spliced
    <3>2. p \in 2 .. Len(items)
      BY <1>3, <3>1
    <3> QED
      BY <3>1, <3>2 DEF Spliced
  <2>2. q >= n /\ q \in DOMAIN all
    BY <1>3, <2>1
  <2>3. all[q] = Perform(EnterSafeMode(reason))
    <3>1. \A i \in 2 .. Len(items) : all[Len(new) + i - 1] = items[i]
      BY DEF Spliced
    <3>2. all[Len(new) + p - 1] = items[p]
      BY <2>1, <3>1
    <3> QED
      BY <1>3, <3>2
  <2>4. \A k \in DOMAIN all : k >= n /\ k # q => ~Touches(all[k])
    BY <1>1, <1>3
  <2> QED
    BY <1>3, <2>2, <2>3, <2>4 DEF Later
<1> QED
  BY <1>2, <1>3 DEF Later

\* One work item for each action of a list: it touches the modes where the
\* action does, and starts no script yet.
Performed(todo) == [i \in DOMAIN todo |-> Perform(todo[i])]

LEMMA PerformedItems ==
  ASSUME NEW todo \in Seq(Action)
  PROVE  /\ Performed(todo) \in Seq(WorkItem)
         /\ Len(Performed(todo)) = Len(todo) /\ Len(todo) \in Nat
         /\ DOMAIN Performed(todo) = 1 .. Len(todo) /\ DOMAIN todo = 1 .. Len(todo)
         /\ \A i \in 1 .. Len(todo) :
              /\ todo[i] \in Action /\ Performed(todo)[i] = Perform(todo[i])
              /\ todo[i].kind \notin ModeKinds => ~Touches(Performed(todo)[i])
         /\ \A kind : Count(Performed(todo), {Spawn(kind)}) = 0
<1>1. Len(todo) \in Nat /\ DOMAIN todo = 1 .. Len(todo)
  BY LenProperties
<1>2. Performed(todo) \in Seq(WorkItem)
  BY PerformAll DEF Performed
<1>3. DOMAIN Performed(todo) = 1 .. Len(todo)
  BY <1>1 DEF Performed
<1>4. Len(Performed(todo)) = Len(todo)
  BY <1>1, <1>2, <1>3, LenProperties
<1>5. \A i \in 1 .. Len(todo) : todo[i] \in Action /\ Performed(todo)[i] = Perform(todo[i])
  BY <1>1, ElementOfSeq DEF Performed
<1>6. \A action : action.kind \notin ModeKinds => ~Touches(Perform(action))
  BY DEF Touches, Perform
<1>7. ASSUME NEW kind
      PROVE  Count(Performed(todo), {Spawn(kind)}) = 0
  <2>1. \A action : Perform(action) # Spawn(kind)
    <3>1. \A action : Perform(action).op = "perform"
      BY DEF Perform
    <3>2. Spawn(kind).op = "spawn"
      BY DEF Spawn
    <3> QED
      BY <3>1, <3>2
  <2>2. \A i \in DOMAIN Performed(todo) : Performed(todo)[i] \notin {Spawn(kind)}
    BY <1>3, <1>5, <2>1
  <2> QED
    BY <2>2, CountNone
<1> QED
  BY <1>1, <1>2, <1>3, <1>4, <1>5, <1>6, <1>7

-----------------------------------------------------------------------------
(* What the logic table asks for *)

\* The rules for the ADCS ask for one action at most.
LEMMA OneAdcsAction ==
  ASSUME NEW s \in State
  PROVE  /\ AdcsActions(s) \in Seq(Action) /\ Len(AdcsActions(s)) \in 0 .. 1
         /\ \A i \in 1 .. Len(AdcsActions(s)) : AdcsActions(s)[i].kind \notin ModeKinds
<1> DEFINE free == ~s.maneuvermode /\ s.leop # "UNDEPLOYED"
           spins == free /\ s.pointing \notin Stabilised /\ s.requested \notin Stabilised
           slow == free /\ s.pointing = "DETUMB"
           detumble == Plain("TriggerDetumbling")
           sun == Plain("TriggerSunpointing")
<1>1. ~(spins /\ slow)
  BY DEF Stabilised
<1>2. detumble \in Action /\ sun \in Action
  BY DEF Plain, Action, Kind, Safemode
<1>3. detumble.kind \notin ModeKinds /\ sun.kind \notin ModeKinds
  BY DEF Plain, ModeKinds
<1>4. AdcsActions(s) = When(spins, detumble) \o When(slow, sun)
  BY DEF AdcsActions
<1>5. <<>> \in Seq(Action) /\ <<detumble>> \in Seq(Action) /\ <<sun>> \in Seq(Action)
  BY <1>2
<1> HIDE DEF spins, slow, detumble, sun
<1>6. AdcsActions(s) \in {<<>>, <<detumble>>, <<sun>>}
  BY <1>1, <1>4, <1>5, ConcatEmptySeq DEF When
<1>7. ASSUME NEW a \in Action, a.kind \notin ModeKinds, AdcsActions(s) = <<a>>
      PROVE  /\ Len(AdcsActions(s)) = 1
             /\ \A i \in 1 .. Len(AdcsActions(s)) : AdcsActions(s)[i].kind \notin ModeKinds
  BY <1>7
<1>8. ASSUME AdcsActions(s) = <<>>
      PROVE  /\ Len(AdcsActions(s)) = 0
             /\ \A i \in 1 .. Len(AdcsActions(s)) : AdcsActions(s)[i].kind \notin ModeKinds
  BY <1>8, EmptySeq
<1>9. AdcsActions(s) \in Seq(Action)
  BY <1>5, <1>6
<1>10. Len(AdcsActions(s)) \in 0 .. 1
  BY <1>2, <1>3, <1>6, <1>7, <1>8
<1>11. \A i \in 1 .. Len(AdcsActions(s)) : AdcsActions(s)[i].kind \notin ModeKinds
  BY <1>2, <1>3, <1>6, <1>7, <1>8
<1> QED
  BY <1>9, <1>10, <1>11

\* In an emergency the rules ask for safe mode first; they ask for two actions
\* at most, and but for a measurement for no second one without an emergency.
LEMMA RulesShape ==
  ASSUME NEW s \in State, NEW target \in State
  PROVE  LET rules == RuleActions(s, target)
         IN /\ rules \in Seq(Action) /\ Len(rules) \in 0 .. 2
            /\ target.daemon # "WANTMEASURE" /\ ~Emergency(s) => Len(rules) <= 1
            /\ Emergency(s) => Len(rules) >= 1 /\ rules[1] = EnterSafeMode(Reason(s))
            /\ \A i \in 1 .. Len(rules) :
                 ~Emergency(s) \/ i > 1 => rules[i].kind \notin ModeKinds
            /\ ~RulesApply(s) => rules = <<>>
<1> DEFINE rules == RuleActions(s, target)
           adcs == AdcsActions(s)
           measure == Plain("TriggerMeasuring")
           enter == EnterSafeMode(Reason(s))
<1>1. /\ adcs \in Seq(Action) /\ Len(adcs) \in 0 .. 1
      /\ \A i \in 1 .. Len(adcs) : adcs[i].kind \notin ModeKinds
  BY OneAdcsAction
<1>2. measure \in Action /\ measure.kind \notin ModeKinds /\ enter \in Action
  BY DEF Plain, EnterSafeMode, Action, Kind, Safemode, ModeKinds, Reason
<1>3. CASE ~RulesApply(s)
  <2>1. rules = <<>>
    BY <1>3 DEF RuleActions
  <2>2. ~Emergency(s)
    BY <1>3 DEF Emergency
  <2> QED
    BY <1>3, <2>1, <2>2, EmptySeq
<1>4. CASE RulesApply(s) /\ ~Emergency(s)
  <2>1. ~Overheated(s) /\ ~BatteryLow(s)
    BY <1>4 DEF Emergency
  <2>2. EmergencyActions(s) = <<>>
    BY <2>1 DEF EmergencyActions, When
  <2> DEFINE asked == target.daemon = "WANTMEASURE" /\ FitForMeasuring(s)
             front == When(asked, measure)
  <2>3. rules = front \o adcs
    <3>1. rules = (<<>> \o front) \o adcs
      BY <1>4, <2>2 DEF RuleActions
    <3>2. front \in Seq(Action)
      BY <1>2, WhenType
    <3> HIDE DEF front, adcs
    <3> QED
      BY <3>1, <3>2, ConcatEmptySeq
  <2>4. /\ front \in Seq(Action) /\ Len(front) \in 0 .. 1
        /\ ~asked => Len(front) = 0
        /\ \A i \in 1 .. Len(front) : front[i].kind \notin ModeKinds
    BY <1>2 DEF When
  <2> HIDE DEF front, adcs, rules
  <2>5. /\ rules \in Seq(Action) /\ Len(rules) = Len(front) + Len(adcs)
        /\ \A i \in 1 .. Len(rules) :
             rules[i] = IF i <= Len(front) THEN front[i] ELSE adcs[i - Len(front)]
    BY <1>1, <2>3, <2>4, ConcatProperties
  <2>6. \A i \in 1 .. Len(rules) : rules[i].kind \notin ModeKinds
    BY <1>1, <2>4, <2>5
  <2> QED
    BY <1>1, <1>4, <2>4, <2>5, <2>6 DEF rules
<1>5. CASE Emergency(s)
  <2>1. Overheated(s) \/ BatteryLow(s)
    BY <1>5 DEF Emergency
  <2>2. EmergencyActions(s) = <<enter>>
    <3> DEFINE hot == EnterSafeMode(1)
               low == EnterSafeMode(2)
    <3>1. <<hot>> \in Seq(Action) /\ <<low>> \in Seq(Action) /\ <<>> \in Seq(Action)
      BY DEF EnterSafeMode, Action, Kind, Safemode
    <3>2. EmergencyActions(s)
            = When(Overheated(s), hot) \o When(~Overheated(s) /\ BatteryLow(s), low)
      BY DEF EmergencyActions
    <3>3. enter = IF Overheated(s) THEN hot ELSE low
      BY DEF Reason
    <3> HIDE DEF hot, low, enter
    <3> QED
      BY <2>1, <3>1, <3>2, <3>3, ConcatEmptySeq DEF When
  <2>3. ~FitForMeasuring(s)
    <3>1. s.battery_level \in Int /\ BatteryTreshold \in Int
      BY TresholdAssumption DEF State, Level
    <3> QED
      BY <2>1, <3>1 DEF FitForMeasuring, Overheated, BatteryLow
  <2>4. rules = <<enter>> \o adcs
    <3>1. rules = (<<enter>> \o <<>>) \o adcs
      BY <1>5, <2>2, <2>3 DEF RuleActions, Emergency, When
    <3>2. <<enter>> \in Seq(Action)
      BY <1>2
    <3> HIDE DEF enter, adcs
    <3> QED
      BY <3>1, <3>2, ConcatEmptySeq
  <2> DEFINE front == <<enter>>
  <2>5. front \in Seq(Action) /\ Len(front) = 1 /\ front[1] = enter
    BY <1>2
  <2>6. rules = front \o adcs
    BY <2>4
  <2> HIDE DEF front, adcs, rules, enter
  <2>7. /\ rules \in Seq(Action) /\ Len(rules) = 1 + Len(adcs)
        /\ \A i \in 1 .. Len(rules) : rules[i] = IF i <= 1 THEN front[i] ELSE adcs[i - 1]
    BY <1>1, <2>5, <2>6, ConcatProperties
  <2>8. \A i \in 1 .. Len(rules) : i > 1 => rules[i].kind \notin ModeKinds
    BY <1>1, <2>7
  <2>9. Len(rules) \in 1 .. 2 /\ rules[1] = enter
    BY <1>1, <2>5, <2>7
  <2> QED
    BY <1>5, <2>7, <2>8, <2>9 DEF rules, enter, Emergency
<1> QED
  BY <1>3, <1>4, <1>5 DEF Emergency

\* Items that perform a list of actions and then those of the rules: after the
\* list, safe mode is entered once in an emergency, and nothing else touches the
\* modes.
FollowedByRules(items, front, s, target) ==
  LET n == Len(front)
  IN /\ items \in Seq(WorkItem)
     /\ n \in Nat /\ Len(items) \in n .. n + 2
     /\ target.daemon # "WANTMEASURE" /\ ~Emergency(s) => Len(items) <= n + 1
     /\ ~RulesApply(s) => Len(items) = n
     /\ \A i \in 1 .. n : items[i] = Perform(front[i])
     /\ ~Emergency(s) => Quiet(items, n + 1)
     /\ \A view : Later(items, n + 1, view, Answered(s, view))
     /\ \A kind : Count(items, {Spawn(kind)}) = 0

LEMMA RulesFollow ==
  ASSUME NEW s \in State, NEW target \in State, NEW front \in Seq(Action),
         NEW items, items = Performed(front \o RuleActions(s, target))
  PROVE  FollowedByRules(items, front, s, target)
<1> DEFINE rules == RuleActions(s, target)
           todo == front \o rules
           n == Len(front)
<1>1. /\ rules \in Seq(Action) /\ Len(rules) \in 0 .. 2
      /\ target.daemon # "WANTMEASURE" /\ ~Emergency(s) => Len(rules) <= 1
      /\ Emergency(s) => Len(rules) >= 1 /\ rules[1] = EnterSafeMode(Reason(s))
      /\ \A i \in 1 .. Len(rules) :
           ~Emergency(s) \/ i > 1 => rules[i].kind \notin ModeKinds
      /\ ~RulesApply(s) => Len(rules) = 0
  BY RulesShape, EmptySeq
<1>2. n \in Nat
  BY LenProperties
<1> HIDE DEF rules
<1>3. /\ todo \in Seq(Action) /\ Len(todo) = n + Len(rules)
      /\ \A i \in 1 .. n + Len(rules) :
           todo[i] = IF i <= n THEN front[i] ELSE rules[i - n]
  BY <1>1, ConcatProperties
<1> DEFINE done == Performed(todo)
<1>4. items = done
  BY DEF todo, rules
<1> HIDE DEF todo
<1>5. /\ done \in Seq(WorkItem) /\ Len(done) = n + Len(rules)
      /\ DOMAIN done = 1 .. n + Len(rules)
      /\ \A i \in 1 .. n + Len(rules) :
           /\ done[i] = Perform(todo[i])
           /\ todo[i].kind \notin ModeKinds => ~Touches(done[i])
      /\ \A kind : Count(done, {Spawn(kind)}) = 0
  BY <1>3, PerformedItems
<1> HIDE DEF done
<1>6. /\ items \in Seq(WorkItem) /\ Len(items) = n + Len(rules)
      /\ DOMAIN items = 1 .. n + Len(rules)
      /\ \A i \in 1 .. n + Len(rules) :
           /\ items[i] = Perform(todo[i])
           /\ todo[i].kind \notin ModeKinds => ~Touches(items[i])
      /\ \A kind : Count(items, {Spawn(kind)}) = 0
  BY <1>4, <1>5
<1>7. \A i \in 1 .. n : items[i] = Perform(front[i])
  BY <1>1, <1>2, <1>3, <1>6
<1>8. ASSUME NEW i \in DOMAIN items, i >= n + 1, ~Emergency(s) \/ i > n + 1
      PROVE  ~Touches(items[i])
  <2>1. i \in 1 .. n + Len(rules) /\ ~(i <= n) /\ i - n \in 1 .. Len(rules)
    BY <1>1, <1>2, <1>6, <1>8
  <2>2. ~Emergency(s) \/ i - n > 1
    BY <1>2, <1>8, <2>1
  <2>3. todo[i].kind \notin ModeKinds
    BY <1>1, <1>3, <2>1, <2>2
  <2> QED
    BY <1>6, <2>1, <2>3
<1>9. ~Emergency(s) => Quiet(items, n + 1)
  BY <1>8 DEF Quiet
<1>10. ASSUME NEW view
      PROVE  Later(items, n + 1, view, Answered(s, view))
  <2>1. CASE ~Emergency(s)
    BY <1>9, <2>1 DEF Later, Answered
  <2>2. CASE Emergency(s)
    <3>1. n + 1 \in 1 .. n + Len(rules) /\ ~(n + 1 <= n) /\ (n + 1) - n = 1
      BY <1>1, <1>2, <2>2
    <3>2. items[n + 1] = Perform(EnterSafeMode(Reason(s))) /\ n + 1 \in DOMAIN items
      BY <1>1, <1>3, <1>6, <2>2, <3>1
    <3>3. \A i \in DOMAIN items : i >= n + 1 /\ i # n + 1 => ~Touches(items[i])
      BY <1>2, <1>6, <1>8
    <3>4. Reason(s) \in 1 .. 3
      BY DEF Reason
    <3>5. Answered(s, view) = Safe(view, Reason(s))
      BY <2>2 DEF Answered
    <3> QED
      BY <1>2, <3>2, <3>3, <3>4, <3>5 DEF Later
  <2> QED
    BY <2>1, <2>2
<1>11. /\ Len(items) \in n .. n + 2
       /\ target.daemon # "WANTMEASURE" /\ ~Emergency(s) => Len(items) <= n + 1
       /\ ~RulesApply(s) => Len(items) = n
  BY <1>1, <1>2, <1>6
<1> QED
  BY <1>2, <1>6, <1>7, <1>9, <1>10, <1>11 DEF FollowedByRules

\* What comes before the rules: nothing for a fact ...
LEMMA FactTable ==
  ASSUME NEW s \in State, s.shell_commands = 0, ~s.enforced_safemode
  PROVE  /\ Settle(s, s) = s
         /\ TransformTo(s, s) = <<>> \o RuleActions(s, s)
<1>1. Settle(s, s) = s
  BY DEF Settle, State
<1>2. ShellActions(s) = <<>>
  <2>1. ShellActions(s) \in Seq({})
    BY DEF ShellActions
  <2> QED
    BY <2>1
<1>3. ManualmodeActions(s, s) = <<>>
  BY DEF ManualmodeActions, When
<1>4. SafemodeActions(s, s) = <<>>
  BY DEF SafemodeActions, EntersSafemode, When
<1>5. LeopActions(s, s) = <<>>
  BY DEF LeopActions, When
<1> QED
  BY <1>1, <1>2, <1>3, <1>4, <1>5 DEF TransformTo

\* ... and one action at most for a request.
Lead(s, ev) ==
  CASE ev = SafeModeReq(TRUE) -> <<EnterSafeMode(3)>>
    [] ev = SafeModeReq(FALSE) /\ s.safemode # 0 -> <<Plain("LeaveSafeMode")>>
    [] ev = ManualModeReq(TRUE) /\ ~s.manualmode -> <<Plain("EnterManualMode")>>
    [] ev = ManualModeReq(FALSE) /\ s.manualmode -> <<Plain("LeaveManualMode")>>
    [] ev = LEOPReq("DONE") /\ s.leop # "DONE" -> <<Plain("FinishLEOP")>>
    [] ev = ShellCommandReq -> <<Plain("ShellCommand")>>
    [] OTHER -> <<>>

LEMMA RequestForms ==
  ASSUME NEW ev \in Event, ~IsFact(ev)
  PROVE  \/ ev = SafeModeReq(TRUE) \/ ev = SafeModeReq(FALSE)
         \/ ev = ManualModeReq(TRUE) \/ ev = ManualModeReq(FALSE)
         \/ \E leop \in Leop : ev = LEOPReq(leop)
         \/ \E wanted \in PayloadState : ev = PayloadReq(wanted)
         \/ ev = ShellCommandReq
<1>1. ev[1] \in Requests
  BY DEF IsFact
<1>2. ASSUME NEW class, NEW Values, ev \in {class} \X Values
      PROVE  ev = <<class, ev[2]>> /\ ev[2] \in Values
  BY <1>2
<1>3. ev \in {"SafeModeReq"} \X BOOLEAN => ev = SafeModeReq(TRUE) \/ ev = SafeModeReq(FALSE)
  BY <1>2 DEF SafeModeReq
<1>4. ev \in {"ManualModeReq"} \X BOOLEAN
        => ev = ManualModeReq(TRUE) \/ ev = ManualModeReq(FALSE)
  BY <1>2 DEF ManualModeReq
<1>5. ev \in {"LEOPReq"} \X Leop => \E leop \in Leop : ev = LEOPReq(leop)
  BY <1>2 DEF LEOPReq
<1>6. ev \in {"PayloadReq"} \X PayloadState
        => \E wanted \in PayloadState : ev = PayloadReq(wanted)
  BY <1>2 DEF PayloadReq
<1>7. \/ ev \in {"SafeModeReq"} \X BOOLEAN \/ ev \in {"ManualModeReq"} \X BOOLEAN
      \/ ev \in {"LEOPReq"} \X Leop \/ ev \in {"PayloadReq"} \X PayloadState
      \/ ev = ShellCommandReq
  BY <1>1 DEF Event, Requests
<1> QED
  BY <1>3, <1>4, <1>5, <1>6, <1>7

\* The parts of the table that come before the rules, each a list of at most
\* one action.
LEMMA PartsType ==
  ASSUME NEW s \in State, NEW t \in State, t.shell_commands \in {0, 1}
  PROVE  /\ ShellActions(t) \in Seq(Action) /\ ManualmodeActions(s, t) \in Seq(Action)
         /\ SafemodeActions(s, t) \in Seq(Action) /\ LeopActions(s, t) \in Seq(Action)
         /\ t.shell_commands = 0 => ShellActions(t) = <<>>
         /\ t.shell_commands = 1 => ShellActions(t) = <<Plain("ShellCommand")>>
         /\ t.manualmode = s.manualmode => ManualmodeActions(s, t) = <<>>
         /\ t.manualmode /\ ~s.manualmode
              => ManualmodeActions(s, t) = <<Plain("EnterManualMode")>>
         /\ ~t.manualmode /\ s.manualmode
              => ManualmodeActions(s, t) = <<Plain("LeaveManualMode")>>
         /\ t.safemode = s.safemode /\ ~t.enforced_safemode => SafemodeActions(s, t) = <<>>
         /\ t.safemode = 0 /\ s.safemode = 0 => SafemodeActions(s, t) = <<>>
         /\ t.safemode # 0 /\ t.enforced_safemode
              => SafemodeActions(s, t) = <<EnterSafeMode(3)>>
         /\ t.safemode = 0 /\ s.safemode # 0
              => SafemodeActions(s, t) = <<Plain("LeaveSafeMode")>>
         /\ t.leop = s.leop \/ t.leop # "DONE" => LeopActions(s, t) = <<>>
         /\ t.leop # s.leop /\ t.leop = "DONE" => LeopActions(s, t) = <<Plain("FinishLEOP")>>
<1> DEFINE shell == Plain("ShellCommand")
           enterManual == Plain("EnterManualMode")
           leaveManual == Plain("LeaveManualMode")
           enterSafe == EnterSafeMode(3)
           leaveSafe == Plain("LeaveSafeMode")
           finish == Plain("FinishLEOP")
<1>1. /\ <<shell>> \in Seq(Action) /\ <<enterManual>> \in Seq(Action)
      /\ <<leaveManual>> \in Seq(Action) /\ <<enterSafe>> \in Seq(Action)
      /\ <<leaveSafe>> \in Seq(Action) /\ <<finish>> \in Seq(Action)
      /\ <<>> \in Seq(Action)
  <2>1. \A kind \in Kind : Plain(kind) \in Action
    BY DEF Plain, Action, Safemode
  <2>2. enterSafe \in Action
    BY DEF EnterSafeMode, Action, Kind, Safemode
  <2>3. \A a \in Action : <<a>> \in Seq(Action)
    OBVIOUS
  <2> QED
    BY <2>1, <2>2, <2>3, EmptySeq DEF Kind
<1>2. /\ t.shell_commands = 0 => ShellActions(t) = <<>>
      /\ t.shell_commands = 1 => ShellActions(t) = <<shell>>
  <2>1. ASSUME t.shell_commands = 0
        PROVE  ShellActions(t) = <<>>
    <3>1. ShellActions(t) \in Seq({})
      BY <2>1 DEF ShellActions
    <3> QED
      BY <3>1
  <2>2. ASSUME t.shell_commands = 1
        PROVE  ShellActions(t) = <<shell>>
    <3>1. ShellActions(t) = [i \in 1 .. 1 |-> shell]
      BY <2>2 DEF ShellActions
    <3> HIDE DEF shell
    <3> QED
      BY <3>1
  <2> QED
    BY <2>1, <2>2
<1>3. ManualmodeActions(s, t) = When(t.manualmode /\ ~s.manualmode, enterManual)
                                \o When(~t.manualmode /\ s.manualmode, leaveManual)
  BY DEF ManualmodeActions
<1>4. SafemodeActions(s, t)
        = When(EntersSafemode(s, t), enterSafe)
          \o When(~EntersSafemode(s, t) /\ t.safemode = 0 /\ s.safemode # 0, leaveSafe)
  BY DEF SafemodeActions
<1>5. LeopActions(s, t) = When(t.leop # s.leop /\ t.leop = "DONE", finish)
  BY DEF LeopActions
<1>6. s.manualmode \in BOOLEAN /\ t.manualmode \in BOOLEAN
  BY DEF State
<1> HIDE DEF shell, enterManual, leaveManual, enterSafe, leaveSafe, finish
<1>7. <<>> \o <<>> = <<>>
  BY ConcatEmptySeq, EmptySeq
<1>8. /\ ManualmodeActions(s, t) = IF t.manualmode /\ ~s.manualmode THEN <<enterManual>>
                                   ELSE IF ~t.manualmode /\ s.manualmode THEN <<leaveManual>>
                                   ELSE <<>>
  BY <1>1, <1>3, <1>7, ConcatEmptySeq DEF When
<1>9. SafemodeActions(s, t) = IF EntersSafemode(s, t) THEN <<enterSafe>>
                              ELSE IF t.safemode = 0 /\ s.safemode # 0 THEN <<leaveSafe>>
                              ELSE <<>>
  BY <1>1, <1>4, <1>7, ConcatEmptySeq DEF When
<1>10. LeopActions(s, t) = IF t.leop # s.leop /\ t.leop = "DONE" THEN <<finish>> ELSE <<>>
  BY <1>5 DEF When
<1>11. /\ t.safemode = s.safemode /\ ~t.enforced_safemode => ~EntersSafemode(s, t)
       /\ t.safemode = 0 => ~EntersSafemode(s, t)
       /\ t.safemode # 0 /\ t.enforced_safemode => EntersSafemode(s, t)
  BY DEF EntersSafemode
<1>12. /\ ShellActions(t) \in Seq(Action) /\ ManualmodeActions(s, t) \in Seq(Action)
       /\ SafemodeActions(s, t) \in Seq(Action) /\ LeopActions(s, t) \in Seq(Action)
  BY <1>1, <1>2, <1>8, <1>9, <1>10
<1>13. /\ t.manualmode = s.manualmode => ManualmodeActions(s, t) = <<>>
       /\ t.manualmode /\ ~s.manualmode => ManualmodeActions(s, t) = <<enterManual>>
       /\ ~t.manualmode /\ s.manualmode => ManualmodeActions(s, t) = <<leaveManual>>
  BY <1>6, <1>8
<1>14. /\ t.safemode = s.safemode /\ ~t.enforced_safemode => SafemodeActions(s, t) = <<>>
       /\ t.safemode = 0 /\ s.safemode = 0 => SafemodeActions(s, t) = <<>>
       /\ t.safemode # 0 /\ t.enforced_safemode => SafemodeActions(s, t) = <<enterSafe>>
       /\ t.safemode = 0 /\ s.safemode # 0 => SafemodeActions(s, t) = <<leaveSafe>>
  BY <1>9, <1>11
<1>15. /\ t.leop = s.leop \/ t.leop # "DONE" => LeopActions(s, t) = <<>>
       /\ t.leop # s.leop /\ t.leop = "DONE" => LeopActions(s, t) = <<finish>>
  BY <1>10
<1> QED
  BY <1>2, <1>12, <1>13, <1>14, <1>15
     DEF shell, enterManual, leaveManual, enterSafe, leaveSafe, finish

\* The list of a request, and the state it is applied to.
LEMMA RequestTable ==
  ASSUME NEW s \in State, s.shell_commands = 0, ~s.enforced_safemode,
         NEW ev \in Event, ~IsFact(ev)
  PROVE  LET t == Update(s, ev)
             u == Settle(s, t)
         IN /\ Lead(s, ev) \in Seq(Action) /\ Len(Lead(s, ev)) \in 0 .. 1
            /\ t \in State /\ u \in State
            /\ u = IF ev[1] = "LEOPReq" /\ ev[2] # "DONE" THEN [s EXCEPT !.leop = ev[2]] ELSE s
            /\ ev[1] # "PayloadReq" => t.daemon = s.daemon
            /\ TransformTo(s, t) = Lead(s, ev) \o RuleActions(u, t)
<1> DEFINE t == Update(s, ev)
           u == Settle(s, t)
           shell == ShellActions(t)
           manual == ManualmodeActions(s, t)
           safe == SafemodeActions(s, t)
           leop == LeopActions(s, t)
           rules == RuleActions(u, t)
<1>1. t \in State
  BY UpdateType
<1>2. /\ t.safemode = IF ev[1] = "SafeModeReq" THEN IF ev[2] THEN 1 ELSE 0 ELSE s.safemode
      /\ t.manualmode = IF ev[1] = "ManualModeReq" THEN ev[2] ELSE s.manualmode
      /\ t.leop = IF ev[1] = "LEOPReq" THEN ev[2] ELSE s.leop
      /\ t.daemon = IF ev[1] = "PayloadReq" THEN ev[2] ELSE s.daemon
      /\ t.shell_commands = IF ev[1] = "ShellCommandReq" THEN 1 ELSE 0
  BY UpdateFields DEF IsFact, Requests
<1>3. t.enforced_safemode = IF ev[1] = "SafeModeReq" THEN TRUE ELSE s.enforced_safemode
  BY DEF IsFact, Requests, Update, RequestSafemode, SetManualmode, SetLeop, SetPayload,
         AddShellCommand, State
<1>4. u \in State
  BY <1>1, TransformToProperty
<1>5. u = IF ev[1] = "LEOPReq" /\ ev[2] # "DONE" THEN [s EXCEPT !.leop = ev[2]] ELSE s
  <2>1. u = IF t.leop = "DONE" THEN s ELSE [s EXCEPT !.leop = t.leop]
    BY DEF Settle
  <2>2. s = [s EXCEPT !.leop = s.leop]
    BY DEF State
  <2> QED
    BY <1>2, <2>1, <2>2
<1>6. TransformTo(s, t) = (((shell \o manual) \o safe) \o leop) \o rules
  BY DEF TransformTo
<1>7. t.shell_commands \in {0, 1}
  BY <1>2
<1>8. /\ shell \in Seq(Action) /\ manual \in Seq(Action)
      /\ safe \in Seq(Action) /\ leop \in Seq(Action)
  BY <1>1, <1>7, PartsType
<1> DEFINE all == (((shell \o manual) \o safe) \o leop) \o rules
<1> HIDE DEF t, shell, manual, safe, leop, rules
<1>9. /\ manual = <<>> /\ safe = <<>> /\ leop = <<>> => all = shell \o rules
      /\ shell = <<>> /\ safe = <<>> /\ leop = <<>> => all = manual \o rules
      /\ shell = <<>> /\ manual = <<>> /\ leop = <<>> => all = safe \o rules
      /\ shell = <<>> /\ manual = <<>> /\ safe = <<>> => all = leop \o rules
  <2>1. <<>> \o <<>> = <<>>
    BY ConcatEmptySeq, EmptySeq
  <2>2. \A seq \in Seq(Action) : seq \o <<>> = seq /\ <<>> \o seq = seq
    BY ConcatEmptySeq
  <2>3. ASSUME manual = <<>>, safe = <<>>, leop = <<>> PROVE all = shell \o rules
    BY <1>8, <2>2, <2>3
  <2>4. ASSUME shell = <<>>, safe = <<>>, leop = <<>> PROVE all = manual \o rules
    BY <1>8, <2>2, <2>4
  <2>5. ASSUME shell = <<>>, manual = <<>>, leop = <<>> PROVE all = safe \o rules
    BY <1>8, <2>1, <2>2, <2>5
  <2>6. ASSUME shell = <<>>, manual = <<>>, safe = <<>> PROVE all = leop \o rules
    BY <1>8, <2>1, <2>2, <2>6
  <2> QED
    BY <2>3, <2>4, <2>5, <2>6
<1> DEFINE known ==
  /\ t.shell_commands = 0 => shell = <<>>
  /\ t.shell_commands = 1 => shell = <<Plain("ShellCommand")>>
  /\ t.manualmode = s.manualmode => manual = <<>>
  /\ t.manualmode /\ ~s.manualmode => manual = <<Plain("EnterManualMode")>>
  /\ ~t.manualmode /\ s.manualmode => manual = <<Plain("LeaveManualMode")>>
  /\ t.safemode = s.safemode /\ ~t.enforced_safemode => safe = <<>>
  /\ t.safemode = 0 /\ s.safemode = 0 => safe = <<>>
  /\ t.safemode # 0 /\ t.enforced_safemode => safe = <<EnterSafeMode(3)>>
  /\ t.safemode = 0 /\ s.safemode # 0 => safe = <<Plain("LeaveSafeMode")>>
  /\ t.leop = s.leop \/ t.leop # "DONE" => leop = <<>>
  /\ t.leop # s.leop /\ t.leop = "DONE" => leop = <<Plain("FinishLEOP")>>
<1>10. known
  BY <1>1, <1>7, PartsType DEF shell, manual, safe, leop
<1>11. /\ SafeModeReq(TRUE)[1] = "SafeModeReq" /\ SafeModeReq(TRUE)[2] = TRUE
       /\ SafeModeReq(FALSE)[1] = "SafeModeReq" /\ SafeModeReq(FALSE)[2] = FALSE
       /\ ManualModeReq(TRUE)[1] = "ManualModeReq" /\ ManualModeReq(TRUE)[2] = TRUE
       /\ ManualModeReq(FALSE)[1] = "ManualModeReq" /\ ManualModeReq(FALSE)[2] = FALSE
       /\ \A wanted : LEOPReq(wanted)[1] = "LEOPReq" /\ LEOPReq(wanted)[2] = wanted
       /\ \A wanted : PayloadReq(wanted)[1] = "PayloadReq"
       /\ ShellCommandReq[1] = "ShellCommandReq"
  BY DEF SafeModeReq, ManualModeReq, LEOPReq, PayloadReq, ShellCommandReq
<1>12. s.manualmode \in BOOLEAN
  BY DEF State
<1> DEFINE sought == /\ all = Lead(s, ev) \o rules
                     /\ Lead(s, ev) \in {shell, manual, safe, leop}
<1> HIDE DEF all
<1>13. ASSUME ev = SafeModeReq(TRUE)
       PROVE  sought
  <2>1. shell = <<>> /\ manual = <<>> /\ leop = <<>> /\ safe = <<EnterSafeMode(3)>>
    BY <1>2, <1>3, <1>10, <1>11, <1>13
  <2>2. Lead(s, ev) = <<EnterSafeMode(3)>>
    BY <1>13 DEF Lead, SafeModeReq, ManualModeReq, LEOPReq, ShellCommandReq
  <2> QED
    BY <1>9, <2>1, <2>2
<1>14. ASSUME ev = SafeModeReq(FALSE)
       PROVE  sought
  <2>1. /\ shell = <<>> /\ manual = <<>> /\ leop = <<>>
        /\ safe = IF s.safemode = 0 THEN <<>> ELSE <<Plain("LeaveSafeMode")>>
    BY <1>2, <1>3, <1>10, <1>11, <1>14
  <2>2. Lead(s, ev) = IF s.safemode = 0 THEN <<>> ELSE <<Plain("LeaveSafeMode")>>
    BY <1>11, <1>14
       DEF Lead, SafeModeReq, ManualModeReq, LEOPReq, ShellCommandReq
  <2> QED
    BY <1>9, <2>1, <2>2
<1>15. ASSUME NEW on \in BOOLEAN, ev = ManualModeReq(on)
       PROVE  sought
  <2>1. ev[1] = "ManualModeReq" /\ ev[2] = on
    BY <1>15 DEF ManualModeReq
  <2>2. /\ shell = <<>> /\ safe = <<>> /\ leop = <<>>
        /\ manual = IF on = s.manualmode THEN <<>>
                    ELSE IF on THEN <<Plain("EnterManualMode")>>
                    ELSE <<Plain("LeaveManualMode")>>
    BY <1>2, <1>3, <1>10, <1>12, <2>1
  <2>3. Lead(s, ev) = IF on = s.manualmode THEN <<>>
                      ELSE IF on THEN <<Plain("EnterManualMode")>>
                      ELSE <<Plain("LeaveManualMode")>>
    BY <1>12, <1>15 DEF Lead, SafeModeReq, ManualModeReq, LEOPReq, ShellCommandReq
  <2> QED
    BY <1>9, <2>2, <2>3
<1>16. ASSUME NEW wanted \in Leop, ev = LEOPReq(wanted)
       PROVE  sought
  <2>1. ev[1] = "LEOPReq" /\ ev[2] = wanted
    BY <1>16 DEF LEOPReq
  <2>2. /\ shell = <<>> /\ safe = <<>> /\ manual = <<>>
        /\ leop = IF wanted = "DONE" /\ s.leop # "DONE" THEN <<Plain("FinishLEOP")>> ELSE <<>>
    BY <1>2, <1>3, <1>10, <2>1
  <2>3. Lead(s, ev) = IF wanted = "DONE" /\ s.leop # "DONE"
                      THEN <<Plain("FinishLEOP")>> ELSE <<>>
    BY <1>16 DEF Lead, SafeModeReq, ManualModeReq, LEOPReq, ShellCommandReq
  <2> QED
    BY <1>9, <2>2, <2>3
<1>17. ASSUME NEW wanted \in PayloadState, ev = PayloadReq(wanted)
       PROVE  sought
  <2>1. ev[1] = "PayloadReq"
    BY <1>17 DEF PayloadReq
  <2>2. shell = <<>> /\ safe = <<>> /\ manual = <<>> /\ leop = <<>>
    BY <1>2, <1>3, <1>10, <2>1
  <2>3. Lead(s, ev) = <<>>
    BY <1>17 DEF Lead, SafeModeReq, ManualModeReq, LEOPReq, ShellCommandReq, PayloadReq
  <2> QED
    BY <1>9, <2>2, <2>3
<1>18. ASSUME ev = ShellCommandReq
       PROVE  sought
  <2>1. /\ safe = <<>> /\ manual = <<>> /\ leop = <<>>
        /\ shell = <<Plain("ShellCommand")>>
    BY <1>2, <1>3, <1>10, <1>11, <1>18
  <2>2. Lead(s, ev) = <<Plain("ShellCommand")>>
    BY <1>18 DEF Lead, SafeModeReq, ManualModeReq, LEOPReq, ShellCommandReq
  <2> QED
    BY <1>9, <2>1, <2>2
<1>19. sought
  BY <1>13, <1>14, <1>15, <1>16, <1>17, <1>18, RequestForms
<1>20. Lead(s, ev) \in Seq(Action) /\ TransformTo(s, t) = Lead(s, ev) \o rules
  BY <1>6, <1>8, <1>19 DEF all
<1>21. Len(Lead(s, ev)) \in 0 .. 1
  <2>1. Lead(s, ev) \in {<<>>, <<EnterSafeMode(3)>>, <<Plain("LeaveSafeMode")>>,
                          <<Plain("EnterManualMode")>>, <<Plain("LeaveManualMode")>>,
                          <<Plain("FinishLEOP")>>, <<Plain("ShellCommand")>>}
    BY DEF Lead
  <2>2. \A a : Len(<<a>>) = 1
    OBVIOUS
  <2> QED
    BY <2>1, <2>2, EmptySeq
<1> QED
  BY <1>1, <1>2, <1>4, <1>5, <1>20, <1>21 DEF t, rules

-----------------------------------------------------------------------------
(* What an event asks for *)

\* The modes of a state, and whether it is an emergency, depend on five fields.
LEMMA SameModes ==
  ASSUME NEW s \in State, NEW u \in State,
         u.safemode = s.safemode, u.manualmode = s.manualmode,
         u.maneuvermode = s.maneuvermode, u.all_temp = s.all_temp,
         u.battery_level = s.battery_level
  PROVE  /\ \A e, l : View(u, e, l) = View(s, e, l)
         /\ Emergency(u) <=> Emergency(s)
         /\ \A e, l : Ruled(u, e, l) = Ruled(s, e, l)
<1>1. \A e, l : View(u, e, l) = View(s, e, l)
  BY DEF View
<1>2. (Overheated(u) <=> Overheated(s)) /\ (BatteryLow(u) <=> BatteryLow(s))
  BY DEF Overheated, BatteryLow
<1>3. Emergency(u) <=> Emergency(s)
  BY <1>2 DEF Emergency, RulesApply
<1>4. Reason(u) = Reason(s)
  BY <1>2 DEF Reason
<1> QED
  BY <1>1, <1>3, <1>4 DEF Ruled, Answered

LEMMA CalmUpdate ==
  ASSUME NEW s \in State, s.shell_commands = 0, ~s.enforced_safemode,
         NEW ev \in Event, IsFact(ev)
  PROVE  /\ Update(s, ev) \in State
         /\ Update(s, ev).shell_commands = 0 /\ ~Update(s, ev).enforced_safemode
<1>1. Update(s, ev) \in State
  BY UpdateType
<1>2. ev[1] \notin Requests
  BY DEF IsFact
<1>3. Update(s, ev).shell_commands = 0
  BY <1>2, UpdateFields DEF Requests
<1>4. Update(s, ev).enforced_safemode = s.enforced_safemode
  <2>1. ev[1] \in {"SafeModeSignal", "ManualModeSignal", "ManeuverModeSignal",
                   "LEOPSignal", "THMSignal", "EPSSignal", "PayloadSignal",
                   "ADCSSignal", "ADCSreqSignal"}
    BY <1>2 DEF Event, Requests, ShellCommandReq
  <2> QED
    BY <2>1 DEF Update, SetSafemode, SetManualmode, SetManeuvermode, SetLeop, SetTemp,
       SetBattery, SetPayload, SetPointing, SetRequested, State
<1> QED
  BY <1>1, <1>3, <1>4

\* A fact: what the rules say of the state it leaves.
LEMMA FactHandled ==
  ASSUME NEW s \in State, s.shell_commands = 0, ~s.enforced_safemode,
         NEW ev \in Event, IsFact(ev)
  PROVE  LET cur == Update(s, ev)
             new == Performed(TransformTo(cur, cur))
         IN /\ cur \in State /\ ~cur.enforced_safemode /\ Settle(cur, cur) = cur
            /\ new \in Seq(WorkItem) /\ Len(new) \in 0 .. 2
            /\ ~RulesApply(cur) => Len(new) = 0
            /\ \A view : Later(new, 1, view, Answered(cur, view))
            /\ \A kind : Count(new, {Spawn(kind)}) = 0
<1> DEFINE cur == Update(s, ev)
           new == Performed(TransformTo(cur, cur))
<1>1. cur \in State /\ cur.shell_commands = 0 /\ ~cur.enforced_safemode
  BY CalmUpdate
<1> HIDE DEF cur
<1>2. Settle(cur, cur) = cur /\ TransformTo(cur, cur) = <<>> \o RuleActions(cur, cur)
  BY <1>1, FactTable
<1>3. <<>> \in Seq(Action) /\ Len(<<>>) = 0
  BY EmptySeq
<1>4. new = Performed(<<>> \o RuleActions(cur, cur))
  BY <1>2
<1> HIDE DEF new
<1>5. /\ new \in Seq(WorkItem) /\ Len(new) \in 0 .. 0 + 2
      /\ ~RulesApply(cur) => Len(new) = 0
      /\ \A view : Later(new, 0 + 1, view, Answered(cur, view))
      /\ \A kind : Count(new, {Spawn(kind)}) = 0
  <2>1. PICK front : front = <<>>
    OBVIOUS
  <2>2. /\ front \in Seq(Action) /\ Len(front) = 0
        /\ new = Performed(front \o RuleActions(cur, cur))
    BY <1>3, <1>4, <2>1
  <2>3. FollowedByRules(new, front, cur, cur)
    BY <1>1, <2>2, RulesFollow
  <2> QED
    BY <2>2, <2>3 DEF FollowedByRules
<1> QED
  BY <1>1, <1>2, <1>5 DEF new, cur

\* A request: at most one action, and what the rules say of the state it leaves.
LEMMA RequestHandled ==
  ASSUME NEW s \in State, s.shell_commands = 0, ~s.enforced_safemode,
         NEW ev \in Event, ~IsFact(ev)
  PROVE  LET u   == Settle(s, Update(s, ev))
             new == Performed(TransformTo(s, Update(s, ev)))
             n   == Len(Lead(s, ev))
         IN /\ u \in State /\ ~u.enforced_safemode
            /\ u = IF ev[1] = "LEOPReq" /\ ev[2] # "DONE" THEN [s EXCEPT !.leop = ev[2]] ELSE s
            /\ new \in Seq(WorkItem) /\ n \in 0 .. 1 /\ Len(new) \in n .. n + 2
            /\ ev[1] # "PayloadReq" /\ s.daemon # "WANTMEASURE" /\ ~Emergency(u)
                 => Len(new) <= n + 1
            /\ ~RulesApply(u) => Len(new) = n
            /\ n = 1 => new[1] = Perform(Lead(s, ev)[1])
            /\ ~Emergency(u) => Quiet(new, n + 1)
            /\ \A view : Later(new, n + 1, view, Answered(u, view))
            /\ \A kind : Count(new, {Spawn(kind)}) = 0
<1> DEFINE t == Update(s, ev)
           u == Settle(s, t)
           new == Performed(TransformTo(s, t))
           lead == Lead(s, ev)
           n == Len(lead)
<1>1. /\ lead \in Seq(Action) /\ n \in 0 .. 1
      /\ t \in State /\ u \in State
      /\ u = IF ev[1] = "LEOPReq" /\ ev[2] # "DONE" THEN [s EXCEPT !.leop = ev[2]] ELSE s
      /\ ev[1] # "PayloadReq" => t.daemon = s.daemon
      /\ TransformTo(s, t) = lead \o RuleActions(u, t)
  BY RequestTable
<1>2. ~u.enforced_safemode
  BY <1>1 DEF State
<1>3. new = Performed(lead \o RuleActions(u, t))
  BY <1>1
<1> HIDE DEF new, lead, u, t
<1>4. /\ new \in Seq(WorkItem) /\ Len(new) \in n .. n + 2
      /\ t.daemon # "WANTMEASURE" /\ ~Emergency(u) => Len(new) <= n + 1
      /\ ~RulesApply(u) => Len(new) = n
      /\ \A i \in 1 .. n : new[i] = Perform(lead[i])
      /\ ~Emergency(u) => Quiet(new, n + 1)
      /\ \A view : Later(new, n + 1, view, Answered(u, view))
      /\ \A kind : Count(new, {Spawn(kind)}) = 0
  <2>1. FollowedByRules(new, lead, u, t)
    BY <1>1, <1>3, RulesFollow
  <2> QED
    BY <2>1 DEF FollowedByRules, n
<1>5. n = 1 => new[1] = Perform(lead[1])
  BY <1>4
<1> QED
  BY <1>1, <1>2, <1>4, <1>5 DEF new, lead, u, t

-----------------------------------------------------------------------------
(* What an event makes of the agenda *)

\* The work items an event adds.
Asked(s, ev) == Performed(TransformTo(Current(s, ev), Target(s, ev)))

\* The head of what is left to do is harmless, or it enters safe mode.
LEMMA LaterHead ==
  ASSUME NEW items, Len(items) \in Nat \ {0}, DOMAIN items = 1 .. Len(items),
         NEW view, NEW end, Later(items, 1, view, end)
  PROVE  \/ ~Touches(items[1]) /\ Later(items, 2, view, end)
         \/ \E reason \in 1 .. 3 : /\ items[1] = Perform(EnterSafeMode(reason))
                                   /\ Later(items, 2, Safe(view, reason), end)
<1>1. 1 \in DOMAIN items /\ \A i \in DOMAIN items : i >= 1 /\ (i # 1 => i >= 2)
  OBVIOUS
<1>2. \A i \in DOMAIN items : i >= 2 => i >= 1 /\ i # 1
  OBVIOUS
<1>3. CASE Quiet(items, 1) /\ end = view
  <2>1. ~Touches(items[1])
    BY <1>1, <1>3 DEF Quiet
  <2>2. Quiet(items, 2)
    BY <1>2, <1>3 DEF Quiet
  <2> QED
    BY <1>3, <2>1, <2>2 DEF Later
<1>4. ASSUME NEW p \in DOMAIN items, NEW reason \in 1 .. 3,
             p >= 1, items[p] = Perform(EnterSafeMode(reason)),
             \A i \in DOMAIN items : i >= 1 /\ i # p => ~Touches(items[i]),
             end = Safe(view, reason)
      PROVE  \/ ~Touches(items[1]) /\ Later(items, 2, view, end)
             \/ /\ items[1] = Perform(EnterSafeMode(reason))
                /\ Later(items, 2, Safe(view, reason), end)
  <2>1. CASE p = 1
    <3>1. Quiet(items, 2)
      BY <1>2, <1>4, <2>1 DEF Quiet
    <3> QED
      BY <1>4, <2>1, <3>1 DEF Later
  <2>2. CASE p # 1
    <3>1. ~Touches(items[1]) /\ p >= 2
      BY <1>1, <1>4, <2>2
    <3>2. \A i \in DOMAIN items : i >= 2 /\ i # p => ~Touches(items[i])
      BY <1>2, <1>4
    <3> QED
      BY <1>4, <3>1, <3>2 DEF Later
  <2> QED
    BY <2>1, <2>2
<1> QED
  BY <1>3, <1>4 DEF Later

\* A fact, with what is pending behind it.
LEMMA FactPending ==
  ASSUME NEW items, NEW s \in State, s.shell_commands = 0, ~s.enforced_safemode,
         NEW ev \in Event, IsFact(ev), items[1].event = ev,
         NEW new, new = Asked(s, ev),
         NEW all, Spliced(items, new, all), NEW e, NEW l, NEW end,
         EventPending(items, s, e, l, end)
  PROVE  Draining(all, Update(s, ev), e, l, end)
<1> DEFINE cur == Update(s, ev)
<1> DEFINE asked == Performed(TransformTo(cur, cur))
<1>1. Len(asked) \in 0 .. 2
  BY FactHandled
<1>2. \A view : Later(asked, 1, view, Answered(cur, view))
  BY FactHandled
<1>3. ev # SafeOrder
  <2>1. SafeOrder[1] \in Requests
    BY DEF SafeOrder, SafeModeReq, Requests
  <2> QED
    BY <2>1 DEF IsFact
<1>4. Len(items) <= 3
  BY <1>3 DEF EventPending
<1>5. Quiet(items, 2)
  BY DEF EventPending
<1>6. end = Answered(cur, View(cur, e, l))
  BY DEF EventPending, EventEffect, Ruled
<1>7. new = asked
  BY DEF Asked, Current, Target
<1> HIDE DEF asked, cur
<1>8. Later(new, 1, View(cur, e, l), end)
  BY <1>2, <1>6, <1>7
<1>9. Later(all, 1, View(cur, e, l), end)
  BY <1>5, <1>8, QuietBehind
<1>10. Len(all) <= 4
  BY <1>1, <1>4, <1>7 DEF Spliced
<1> QED
  BY <1>9, <1>10 DEF Draining, cur

\* In a special mode a fact asks for nothing.
LEMMA FactSilent ==
  ASSUME NEW s \in State, s.shell_commands = 0, ~s.enforced_safemode,
         NEW ev \in Event, IsFact(ev), ~RulesApply(Update(s, ev)),
         NEW new, new = Asked(s, ev)
  PROVE  Len(new) = 0 /\ DOMAIN new = {} /\ Quiet(new, 1) /\ Quiet(new, 2)
<1>1. new \in Seq(WorkItem) /\ Len(new) = 0
  <2> DEFINE cur == Update(s, ev)
             asked == Performed(TransformTo(cur, cur))
  <2>1. asked \in Seq(WorkItem) /\ Len(asked) = 0
    BY FactHandled
  <2>2. new = asked
    BY DEF Asked, Current, Target
  <2> QED
    BY <2>1, <2>2
<1>2. DOMAIN new = 1 .. Len(new)
  BY <1>1, LenProperties
<1> QED
  BY <1>1, <1>2 DEF Quiet

LEMMA HeadGone ==
  ASSUME NEW items, NEW new, NEW all, Spliced(items, new, all),
         Len(new) = 0, Len(items) \in 2 .. 6
  PROVE  Len(all) \in 1 .. 5 /\ all[1] = items[2]
<1>1. Len(new) + 2 - 1 = 1 /\ 2 \in 2 .. Len(items)
  OBVIOUS
<1>2. all[Len(new) + 2 - 1] = items[2]
  BY <1>1 DEF Spliced
<1> QED
  BY <1>1, <1>2 DEF Spliced

LEMMA EnteringHandled ==
  ASSUME NEW items, NEW s \in State, s.shell_commands = 0, ~s.enforced_safemode,
         NEW ev \in Event, items[1].event = ev,
         NEW new, new = Asked(s, ev),
         NEW all, Spliced(items, new, all), NEW e, NEW l, NEW end,
         Entering(items, s, e, l, end)
  PROVE  IsFact(ev) /\ Entered(all, Update(s, ev), e, l, end)
<1> DEFINE off == ManeuverModeSignal(FALSE)
<1>1. PICK reason \in 1 .. 3 :
        /\ items[1] = OnEvent(SafeModeSignal(reason))
        /\ items[2] = OnEvent(off)
        /\ Later(items, 3, View([s EXCEPT !.safemode = reason, !.maneuvermode = FALSE],
                                e, l), end)
  BY DEF Entering
<1> HIDE DEF off
<1>2. ev = SafeModeSignal(reason)
  BY <1>1 DEF OnEvent
<1>3. IsFact(ev)
  BY <1>2 DEF SafeModeSignal, IsFact, Requests
<1> DEFINE cur == Update(s, ev)
<1>4. cur = [s EXCEPT !.safemode = reason]
  BY <1>2 DEF SafeModeSignal, Update, SetSafemode
<1>5. cur.safemode = reason /\ cur.safemode # 0
  BY <1>4 DEF State
<1>6. ~RulesApply(cur)
  BY <1>5 DEF RulesApply
<1>7. Len(new) = 0
  BY <1>3, <1>6, FactSilent
<1>8. /\ Len(all) \in 1 .. 5 /\ 2 = Len(new) + 3 - 1
      /\ all[1] = OnEvent(off)
  <2>1. Len(items) \in 2 .. 6
    BY DEF Entering
  <2> QED
    BY <1>1, <1>7, <2>1, HeadGone
<1> DEFINE view == View([s EXCEPT !.safemode = reason, !.maneuvermode = FALSE], e, l)
<1>9. view = View([cur EXCEPT !.maneuvermode = FALSE], e, l)
  <2>1. [cur EXCEPT !.maneuvermode = FALSE]
          = [s EXCEPT !.safemode = reason, !.maneuvermode = FALSE]
    BY <1>4 DEF State
  <2> QED
    BY <2>1
<1> HIDE DEF view
<1>10. Later(items, 3, view, end)
  BY <1>1 DEF view
<1>11. Quiet(new, 2)
  BY <1>3, <1>6, FactSilent
<1>12. Later(all, 2, view, end)
  BY <1>8, <1>10, <1>11, LaterBehind
<1> QED
  BY <1>3, <1>5, <1>8, <1>9, <1>12 DEF Entered, off

LEMMA EnteredHandled ==
  ASSUME NEW items, NEW s \in State, s.shell_commands = 0, ~s.enforced_safemode,
         NEW ev \in Event, items[1].event = ev,
         NEW new, new = Asked(s, ev),
         NEW all, Spliced(items, new, all), NEW e, NEW l, NEW end,
         Entered(items, s, e, l, end)
  PROVE  IsFact(ev) /\ Draining(all, Update(s, ev), e, l, end)
<1> DEFINE off == ManeuverModeSignal(FALSE)
<1>1. s.safemode # 0 /\ items[1] = OnEvent(off)
  BY DEF Entered
<1> HIDE DEF off
<1>2. ev = off
  BY <1>1 DEF OnEvent
<1>3. IsFact(ev)
  BY <1>2 DEF off, ManeuverModeSignal, IsFact, Requests
<1> DEFINE cur == Update(s, ev)
<1>4. cur = [s EXCEPT !.maneuvermode = FALSE]
  BY <1>2 DEF off, ManeuverModeSignal, Update, SetManeuvermode
<1>5. cur.safemode # 0
  BY <1>1, <1>4 DEF State
<1>6. ~RulesApply(cur)
  BY <1>5 DEF RulesApply
<1>7. Len(new) = 0
  BY <1>3, <1>6, FactSilent
<1>8. Len(all) <= 4 /\ 1 <= Len(new) + 1
  <2>1. Len(items) \in 1 .. 5
    BY DEF Entered
  <2> QED
    BY <1>7, <2>1 DEF Spliced
<1> DEFINE view == View(cur, e, l)
<1>9. Later(items, 2, view, end)
  BY <1>4 DEF Entered
<1> HIDE DEF view
<1>10. Quiet(new, 1)
  BY <1>3, <1>6, FactSilent
<1>11. Later(all, 1, view, end)
  BY <1>8, <1>9, <1>10, LaterBehind
<1> QED
  BY <1>3, <1>8, <1>11 DEF Draining, view

\* What perform() of an action announces before it starts its script, but for
\* the one that enters safe mode.
LEMMA Announcements ==
  ASSUME NEW action, action.kind \in ModeKinds \ {"EnterSafeMode"}
  PROVE  \E ev \in Event :
           /\ IsFact(ev) /\ Prelude(action) = <<OnEvent(ev)>>
           /\ action.kind = "EnterManualMode" => ev = ManualModeSignal(TRUE)
           /\ action.kind = "LeaveManualMode" => ev = ManualModeSignal(FALSE)
           /\ action.kind = "LeaveSafeMode" => ev = SafeModeSignal(0)
           /\ action.kind = "FinishLEOP" => ev = LEOPSignal("DONE")
<1> DEFINE on == ManualModeSignal(TRUE)
           off == ManualModeSignal(FALSE)
           left == SafeModeSignal(0)
           done == LEOPSignal("DONE")
<1>1. on \in Event /\ off \in Event
  BY DEF ManualModeSignal, Event
<1>2. left \in Event /\ done \in Event
  BY DEF SafeModeSignal, LEOPSignal, Event, Safemode, Leop
<1>3. IsFact(on) /\ IsFact(off)
  BY DEF ManualModeSignal, IsFact, Requests
<1>4. IsFact(left) /\ IsFact(done)
  BY DEF SafeModeSignal, LEOPSignal, IsFact, Requests
<1>5. /\ EnteringManualmode = <<OnEvent(on)>> /\ LeavingManualmode = <<OnEvent(off)>>
      /\ LeavingSafemode = <<OnEvent(left)>> /\ FinishingLeop = <<OnEvent(done)>>
  BY DEF EnteringManualmode, LeavingManualmode, LeavingSafemode, FinishingLeop
<1> HIDE DEF on, off, left, done
<1>6. CASE action.kind = "EnterManualMode"
  <2>1. Prelude(action) = <<OnEvent(on)>>
    BY <1>5, <1>6 DEF Prelude
  <2> QED
    BY <1>1, <1>3, <1>6, <2>1 DEF on
<1>7. CASE action.kind = "LeaveManualMode"
  <2>1. Prelude(action) = <<OnEvent(off)>>
    BY <1>5, <1>7 DEF Prelude
  <2> QED
    BY <1>1, <1>3, <1>7, <2>1 DEF off
<1>8. CASE action.kind = "LeaveSafeMode"
  <2>1. Prelude(action) = <<OnEvent(left)>>
    BY <1>5, <1>8 DEF Prelude
  <2> QED
    BY <1>2, <1>4, <1>8, <2>1 DEF left
<1>9. CASE action.kind = "FinishLEOP"
  <2>1. Prelude(action) = <<OnEvent(done)>>
    BY <1>5, <1>9 DEF Prelude
  <2> QED
    BY <1>2, <1>4, <1>9, <2>1 DEF done
<1> QED
  BY <1>6, <1>7, <1>8, <1>9 DEF ModeKinds

\* What becomes of the modes when an action other than EnterSafeMode is
\* performed.
Becomes(s, e, l, kind) ==
  Ruled(Update(s, Prelude(Plain(kind))[1].event), e,
        IF kind = "LeaveManualMode" THEN l + 1 ELSE l)

LEMMA BecomesWhat ==
  ASSUME NEW s, NEW e, NEW l
  PROVE  /\ Prelude(Plain("LeaveManualMode"))[1].event = ManualModeSignal(FALSE)
         /\ Becomes(s, e, l, "EnterManualMode")
              = Ruled(Update(s, ManualModeSignal(TRUE)), e, l)
         /\ Becomes(s, e, l, "LeaveSafeMode") = Ruled(Update(s, SafeModeSignal(0)), e, l)
         /\ Becomes(s, e, l, "FinishLEOP") = Ruled(Update(s, LEOPSignal("DONE")), e, l)
<1> DEFINE on == ManualModeSignal(TRUE)
           off == ManualModeSignal(FALSE)
<1>1. ASSUME NEW kind \in ModeKinds \ {"EnterSafeMode"}
      PROVE  /\ kind = "EnterManualMode" => Prelude(Plain(kind))[1].event = on
             /\ kind = "LeaveManualMode" => Prelude(Plain(kind))[1].event = off
             /\ kind = "LeaveSafeMode" => Prelude(Plain(kind))[1].event = SafeModeSignal(0)
             /\ kind = "FinishLEOP" => Prelude(Plain(kind))[1].event = LEOPSignal("DONE")
  <2>1. Plain(kind).kind = kind
    BY DEF Plain
  <2>2. PICK ev \in Event :
           /\ Prelude(Plain(kind)) = <<OnEvent(ev)>>
           /\ kind = "EnterManualMode" => ev = on
           /\ kind = "LeaveManualMode" => ev = off
           /\ kind = "LeaveSafeMode" => ev = SafeModeSignal(0)
           /\ kind = "FinishLEOP" => ev = LEOPSignal("DONE")
    BY <2>1, Announcements
  <2>3. Prelude(Plain(kind))[1].event = ev
    BY <2>2 DEF OnEvent
  <2> QED
    BY <2>2, <2>3
<1>2. /\ Prelude(Plain("EnterManualMode"))[1].event = on
      /\ Prelude(Plain("LeaveManualMode"))[1].event = off
      /\ Prelude(Plain("LeaveSafeMode"))[1].event = SafeModeSignal(0)
      /\ Prelude(Plain("FinishLEOP"))[1].event = LEOPSignal("DONE")
  BY <1>1 DEF ModeKinds
<1> QED
  BY <1>2 DEF Becomes

LEMMA OneIsFew == \A n : n = 1 => n <= 2 /\ n <= 3
OBVIOUS

\* setSafemode(true) enters safe mode first.
LEMMA SafeRequested ==
  ASSUME NEW items, NEW s \in State, s.shell_commands = 0, ~s.enforced_safemode,
         NEW ev \in Event, items[1].event = ev, ev = SafeOrder,
         NEW new, new = Asked(s, ev),
         NEW all, Spliced(items, new, all), NEW e, NEW l, NEW end,
         EventPending(items, s, e, l, end)
  PROVE  Settle(Current(s, ev), Target(s, ev)) = s /\ EnterPending(all, s, e, l, end)
<1> DEFINE asked == Performed(TransformTo(s, Update(s, ev)))
           u == Settle(s, Update(s, ev))
<1>1. ev[1] = "SafeModeReq"
  BY DEF SafeOrder, SafeModeReq
<1>2. ~IsFact(ev)
  BY <1>1 DEF IsFact, Requests
<1>3. Lead(s, ev) = <<EnterSafeMode(3)>>
  BY DEF Lead, SafeOrder, SafeModeReq, ManualModeReq, LEOPReq, ShellCommandReq
<1>4. Len(Lead(s, ev)) = 1 /\ Lead(s, ev)[1] = EnterSafeMode(3)
  BY <1>3
<1>5. u = s
  <2>1. u = IF ev[1] = "LEOPReq" /\ ev[2] # "DONE" THEN [s EXCEPT !.leop = ev[2]] ELSE s
    BY <1>2, RequestHandled
  <2> QED
    BY <1>1, <2>1
<1>6. Len(asked) \in 1 .. 3 /\ asked[1] = Perform(EnterSafeMode(3))
  <2> DEFINE n == Len(Lead(s, ev))
  <2>1. Len(asked) \in n .. n + 2
    BY <1>2, RequestHandled
  <2>2. n = 1 => asked[1] = Perform(Lead(s, ev)[1])
    BY <1>2, RequestHandled
  <2> HIDE DEF asked
  <2> QED
    BY <1>4, <2>1, <2>2
<1>7. \A view : Later(asked, 2, view, Answered(s, view))
  <2>1. \A view : Later(asked, Len(Lead(s, ev)) + 1, view, Answered(u, view))
    BY <1>2, RequestHandled
  <2> HIDE DEF asked, u
  <2> QED
    BY <1>4, <1>5, <2>1
<1>8. /\ new = asked /\ Current(s, ev) = s /\ Target(s, ev) = Update(s, ev)
  <2>1. Current(s, ev) = s /\ Target(s, ev) = Update(s, ev)
    BY <1>2 DEF Current, Target
  <2> QED
    BY <2>1 DEF Asked
<1>9. Len(items) <= 2
  BY <1>2, OneIsFew, Zenon DEF EventPending
<1>10. Quiet(items, 2)
  BY DEF EventPending
<1>11. end = Answered(s, Safe(View(s, e, l), 3))
  <2>1. ev[2] = TRUE
    BY DEF SafeOrder, SafeModeReq
  <2>2. EventEffect(s, e, l, ev) = Requested(s, e, l)
    BY <1>1, <1>2, <2>1 DEF EventEffect, RequestEffect
  <2> QED
    BY <2>2 DEF EventPending, Requested
<1> HIDE DEF asked
<1>12. Later(new, 2, Safe(View(s, e, l), 3), end)
  BY <1>7, <1>8, <1>11
<1>13. Later(all, 2, Safe(View(s, e, l), 3), end)
  BY <1>10, <1>12, QuietBehind
<1>14. /\ Len(all) <= 4 /\ all # <<>> /\ all[1] = Perform(EnterSafeMode(3))
  BY <1>6, <1>8, <1>9 DEF Spliced
<1> QED
  BY <1>5, <1>8, <1>13, <1>14 DEF EnterPending

\* A request other than setSafemode(true), with what ground will see of it.
Harmless(s, e, l, ev) ==
  /\ RequestEffect(s, e, l, ev) = View(s, e, l)
  /\ Lead(s, ev) \in {<<>>, <<Plain("ShellCommand")>>}
Changes(s, e, l, ev, kind) ==
  /\ ev[1] # "PayloadReq" /\ (ev[1] = "LEOPReq" => ev[2] = "DONE")
  /\ RequestEffect(s, e, l, ev) = Becomes(s, e, l, kind)
  /\ Lead(s, ev) = <<Plain(kind)>>

LEMMA RequestEffects ==
  ASSUME NEW s \in State, ~Emergency(s), NEW ev \in Event, ~IsFact(ev),
         ev # SafeOrder, NEW e, NEW l
  PROVE  \/ Harmless(s, e, l, ev)
         \/ \E kind \in ModeKinds \ {"EnterSafeMode"} : Changes(s, e, l, ev, kind)
<1> DEFINE goal == \/ Harmless(s, e, l, ev)
                   \/ \E kind \in ModeKinds \ {"EnterSafeMode"} : Changes(s, e, l, ev, kind)
           on == ManualModeSignal(TRUE)
           off == ManualModeSignal(FALSE)
<1>1. s.manualmode \in BOOLEAN
  BY DEF State
<1>8. Becomes(s, e, l, "LeaveManualMode") = Ruled(Update(s, off), e, l + 1)
  <2>1. Prelude(Plain("LeaveManualMode"))[1].event = off
    BY BecomesWhat
  <2> QED
    BY <2>1 DEF Becomes
<1>2. ASSUME ev = SafeModeReq(FALSE)
      PROVE  goal
  <2>1. ev[1] = "SafeModeReq" /\ ~ev[2]
    BY <1>2 DEF SafeModeReq
  <2>2. RequestEffect(s, e, l, ev) = IF s.safemode # 0
                                     THEN Ruled(Update(s, SafeModeSignal(0)), e, l)
                                     ELSE View(s, e, l)
    BY <2>1 DEF RequestEffect
  <2>3. Lead(s, ev) = IF s.safemode # 0 THEN <<Plain("LeaveSafeMode")>> ELSE <<>>
    BY <1>2 DEF Lead, SafeModeReq, ManualModeReq, LEOPReq, ShellCommandReq
  <2>4. Becomes(s, e, l, "LeaveSafeMode") = Ruled(Update(s, SafeModeSignal(0)), e, l)
    BY BecomesWhat
  <2>5. CASE s.safemode = 0
    BY <2>2, <2>3, <2>5 DEF Harmless
  <2>6. CASE s.safemode # 0
    <3>1. Changes(s, e, l, ev, "LeaveSafeMode")
      BY <2>1, <2>2, <2>3, <2>4, <2>6 DEF Changes
    <3> QED
      BY <3>1 DEF ModeKinds
  <2> QED
    BY <2>5, <2>6
<1>3. ASSUME ev = ManualModeReq(TRUE)
      PROVE  goal
  <2>1. ev[1] = "ManualModeReq" /\ ev[2] = TRUE
    BY <1>3 DEF ManualModeReq
  <2>2. RequestEffect(s, e, l, ev) = IF s.manualmode THEN View(s, e, l)
                                     ELSE Ruled(Update(s, on), e, l)
    BY <1>1, <2>1 DEF RequestEffect
  <2>3. Lead(s, ev) = IF s.manualmode THEN <<>> ELSE <<Plain("EnterManualMode")>>
    BY <1>1, <1>3 DEF Lead, SafeModeReq, ManualModeReq, LEOPReq, ShellCommandReq
  <2>4. Becomes(s, e, l, "EnterManualMode") = Ruled(Update(s, on), e, l)
    BY BecomesWhat
  <2>5. CASE s.manualmode
    BY <2>2, <2>3, <2>5 DEF Harmless
  <2>6. CASE ~s.manualmode
    <3>1. ev[1] \notin {"LEOPReq", "PayloadReq"}
      BY <2>1
    <3>2. Changes(s, e, l, ev, "EnterManualMode")
      BY <2>2, <2>3, <2>4, <2>6, <3>1 DEF Changes
    <3> QED
      BY <3>2 DEF ModeKinds
  <2> QED
    BY <2>5, <2>6
<1>4. ASSUME ev = ManualModeReq(FALSE)
      PROVE  goal
  <2>1. ev[1] = "ManualModeReq" /\ ev[2] = FALSE
    BY <1>4 DEF ManualModeReq
  <2>2. RequestEffect(s, e, l, ev) = IF s.manualmode THEN Ruled(Update(s, off), e, l + 1)
                                     ELSE View(s, e, l)
    BY <1>1, <2>1 DEF RequestEffect
  <2>3. Lead(s, ev) = IF s.manualmode THEN <<Plain("LeaveManualMode")>> ELSE <<>>
    BY <1>1, <1>4 DEF Lead, SafeModeReq, ManualModeReq, LEOPReq, ShellCommandReq
  <2>4. Becomes(s, e, l, "LeaveManualMode") = Ruled(Update(s, off), e, l + 1)
    BY <1>8
  <2>5. CASE ~s.manualmode
    BY <2>2, <2>3, <2>5 DEF Harmless
  <2>6. CASE s.manualmode
    <3>1. ev[1] \notin {"LEOPReq", "PayloadReq"}
      BY <2>1
    <3>2. Changes(s, e, l, ev, "LeaveManualMode")
      BY <2>2, <2>3, <2>4, <2>6, <3>1 DEF Changes
    <3> QED
      BY <3>2 DEF ModeKinds
  <2> QED
    BY <2>5, <2>6
<1>5. ASSUME NEW leop \in Leop, ev = LEOPReq(leop)
      PROVE  goal
  <2>1. ev[1] = "LEOPReq" /\ ev[2] = leop
    BY <1>5 DEF LEOPReq
  <2>2. RequestEffect(s, e, l, ev) = View(s, e, l)
    BY <2>1 DEF RequestEffect
  <2>3. Lead(s, ev) = IF leop = "DONE" /\ s.leop # "DONE"
                      THEN <<Plain("FinishLEOP")>> ELSE <<>>
    BY <1>5 DEF Lead, SafeModeReq, ManualModeReq, LEOPReq, ShellCommandReq
  <2>4. Becomes(s, e, l, "FinishLEOP") = View(s, e, l)
    <3> DEFINE done == LEOPSignal("DONE")
               u == Update(s, done)
    <3>1. done \in Event /\ done[1] = "LEOPSignal"
      BY DEF LEOPSignal, Event, Leop
    <3>2. u = [s EXCEPT !.leop = done[2]]
      BY <3>1 DEF Update, SetLeop
    <3>5. u \in State
      BY <3>1, UpdateType
    <3>3. Becomes(s, e, l, "FinishLEOP") = Ruled(u, e, l)
      BY BecomesWhat
    <3> HIDE DEF u
    <3>4. Ruled(u, e, l) = Ruled(s, e, l)
      <4>1. /\ u.safemode = s.safemode /\ u.manualmode = s.manualmode
            /\ u.maneuvermode = s.maneuvermode /\ u.all_temp = s.all_temp
            /\ u.battery_level = s.battery_level
        BY <3>2 DEF State
      <4> QED
        BY <3>5, <4>1, SameModes
    <3> QED
      BY <3>3, <3>4 DEF Ruled, Answered
  <2>5. CASE leop = "DONE" /\ s.leop # "DONE"
    <3>1. Changes(s, e, l, ev, "FinishLEOP")
      BY <2>1, <2>2, <2>3, <2>4, <2>5 DEF Changes
    <3> QED
      BY <3>1 DEF ModeKinds
  <2>6. CASE ~(leop = "DONE" /\ s.leop # "DONE")
    BY <2>2, <2>3, <2>6 DEF Harmless
  <2> QED
    BY <2>5, <2>6
<1>6. ASSUME NEW wanted \in PayloadState, ev = PayloadReq(wanted)
      PROVE  goal
  <2>1. ev[1] = "PayloadReq"
    BY <1>6 DEF PayloadReq
  <2>2. RequestEffect(s, e, l, ev) = View(s, e, l)
    BY <2>1 DEF RequestEffect
  <2>3. Lead(s, ev) = <<>>
    BY <1>6 DEF Lead, SafeModeReq, ManualModeReq, LEOPReq, PayloadReq, ShellCommandReq
  <2> QED
    BY <2>2, <2>3 DEF Harmless
<1>7. ASSUME ev = ShellCommandReq
      PROVE  goal
  <2>1. ev[1] = "ShellCommandReq"
    BY <1>7 DEF ShellCommandReq
  <2>2. RequestEffect(s, e, l, ev) = View(s, e, l)
    BY <2>1 DEF RequestEffect
  <2>3. Lead(s, ev) = <<Plain("ShellCommand")>>
    BY <1>7 DEF Lead, SafeModeReq, ManualModeReq, LEOPReq, ShellCommandReq
  <2> QED
    BY <2>2, <2>3 DEF Harmless
<1> HIDE DEF goal
<1>9. goal
  BY <1>2, <1>3, <1>4, <1>5, <1>6, <1>7, RequestForms DEF SafeOrder
<1> QED
  BY <1>9 DEF goal

\* What replaces the only item.
LEMMA OnlyNew ==
  ASSUME NEW items, NEW new, NEW all, Spliced(items, new, all), Len(items) = 1
  PROVE  /\ Len(all) = Len(new) /\ Len(new) \in Nat
         /\ Len(new) > 0 => all # <<>> /\ all[1] = new[1]
BY DEF Spliced

\* A list whose first item, if it is there, is harmless and whose rest is.
LEMMA QuietFirst ==
  ASSUME NEW items, DOMAIN items = 1 .. Len(items), NEW n \in {0, 1},
         Quiet(items, n + 1), n = 1 => ~Touches(items[1])
  PROVE  Quiet(items, 1)
<1>1. \A i \in DOMAIN items : i = 1 \/ i >= 2
  OBVIOUS
<1>2. CASE n = 0
  BY <1>2
<1>3. CASE n = 1
  <2>1. Quiet(items, 2)
    BY <1>3
  <2>2. \A i \in DOMAIN items : i >= 1 => ~Touches(items[i])
    BY <1>1, <1>3, <2>1 DEF Quiet
  <2> QED
    BY <2>2 DEF Quiet
<1> QED
  BY <1>2, <1>3

LEMMA OneOrTwo ==
  \A n, m : n = 1 /\ m \in n .. n + 2 /\ m <= n + 1 => m \in 1 .. 2
OBVIOUS

LEMMA RequestPending ==
  ASSUME NEW items, NEW s \in State, s.shell_commands = 0, ~s.enforced_safemode,
         s.daemon # "WANTMEASURE",
         NEW ev \in Event, items[1].event = ev, ~IsFact(ev), ev # SafeOrder,
         NEW new, new = Asked(s, ev),
         NEW all, Spliced(items, new, all), NEW e, NEW l, NEW end,
         EventPending(items, s, e, l, end)
  PROVE  LET u == Settle(Current(s, ev), Target(s, ev))
         IN Draining(all, u, e, l, end) \/ ModePending(all, u, e, l, end)
<1> DEFINE u == Settle(s, Update(s, ev))
           asked == Performed(TransformTo(s, Update(s, ev)))
           n == Len(Lead(s, ev))
<1>1. ~Emergency(s)
  BY DEF EventPending
<1>2. Len(items) = 1
  BY DEF EventPending
<1>3. Quiet(items, 2)
  BY DEF EventPending
<1>4. end = RequestEffect(s, e, l, ev)
  BY DEF EventPending, EventEffect
<1>5. Settle(Current(s, ev), Target(s, ev)) = u /\ new = asked
  <2>1. Current(s, ev) = s /\ Target(s, ev) = Update(s, ev)
    BY DEF Current, Target
  <2> QED
    BY <2>1 DEF Asked
<1>6. u \in State
  BY RequestHandled
<1>7. u = IF ev[1] = "LEOPReq" /\ ev[2] # "DONE" THEN [s EXCEPT !.leop = ev[2]] ELSE s
  BY RequestHandled
<1>8. n \in 0 .. 1 /\ Len(asked) \in n .. n + 2
  BY RequestHandled
<1>9. n = 1 => asked[1] = Perform(Lead(s, ev)[1])
  BY RequestHandled
<1>10. ~Emergency(u) => Quiet(asked, n + 1)
  BY RequestHandled
<1>11. ev[1] # "PayloadReq" /\ ~Emergency(u) => Len(asked) <= n + 1
  BY RequestHandled
<1>12. DOMAIN new = 1 .. Len(new)
  BY DEF Spliced
<1> HIDE DEF u, asked
<1>13. /\ u.safemode = s.safemode /\ u.manualmode = s.manualmode
       /\ u.maneuvermode = s.maneuvermode /\ u.all_temp = s.all_temp
       /\ u.battery_level = s.battery_level
  BY <1>7 DEF State
<1>14. View(u, e, l) = View(s, e, l)
  BY <1>6, <1>13, SameModes
<1>15. ~Emergency(u)
  BY <1>1, <1>6, <1>13, SameModes
<1>16. Quiet(new, n + 1)
  BY <1>5, <1>10, <1>15
<1>17. Len(all) \in n .. n + 2
  BY <1>2, <1>5, <1>8, OnlyNew
<1>18. CASE Harmless(s, e, l, ev)
  <2>1. Lead(s, ev) \in {<<>>, <<Plain("ShellCommand")>>}
    BY <1>18 DEF Harmless
  <2>2. n = 1 => new[1] = Perform(Plain("ShellCommand"))
    <3>1. ASSUME n = 1
          PROVE  Lead(s, ev) = <<Plain("ShellCommand")>>
      BY <2>1, <3>1, EmptySeq
    <3> QED
      BY <1>5, <1>9, <3>1
  <2>3. ~Touches(Perform(Plain("ShellCommand")))
    BY DEF Touches, Perform, Plain, ModeKinds
  <2>4. n \in {0, 1}
    BY <1>8
  <2> HIDE DEF n
  <2>5. n = 1 => ~Touches(new[1])
    BY <2>2, <2>3
  <2>6. Quiet(new, 1)
    BY <1>12, <1>16, <2>4, <2>5, QuietFirst
  <2>7. Quiet(all, 1)
    BY <1>3, <2>6, QuietBehind
  <2>8. end = View(u, e, l)
    BY <1>4, <1>14, <1>18 DEF Harmless
  <2>9. Later(all, 1, View(u, e, l), end)
    BY <2>7, <2>8 DEF Later
  <2>10. Len(all) <= 4
    BY <1>17, <2>4
  <2>11. Draining(all, u, e, l, end)
    BY <2>9, <2>10 DEF Draining
  <2> QED
    BY <1>5, <2>11
<1>19. ASSUME NEW kind \in ModeKinds \ {"EnterSafeMode"}, Changes(s, e, l, ev, kind)
       PROVE  ModePending(all, u, e, l, end)
  <2>1. Lead(s, ev) = <<Plain(kind)>>
    BY <1>19 DEF Changes
  <2>2. n = 1 /\ Lead(s, ev)[1] = Plain(kind)
    BY <2>1
  <2>3. ev[1] # "PayloadReq" /\ u = s
    BY <1>7, <1>19 DEF Changes
  <2>4. end = Becomes(s, e, l, kind)
    BY <1>4, <1>19 DEF Changes
  <2> HIDE DEF n
  <2>5. Len(new) \in 1 .. 2
    <3>1. Len(asked) <= n + 1
      BY <1>11, <1>15, <2>3
    <3>2. n = 1 /\ Len(asked) \in n .. n + 2
      BY <1>8, <2>2
    <3>3. Len(asked) \in 1 .. 2
      BY <3>1, <3>2, OneOrTwo, Zenon
    <3> QED
      BY <1>5, <3>3
  <2>6. Len(all) \in 1 .. 2 /\ all[1] = new[1]
    BY <1>2, <2>5, OnlyNew
  <2>7. all[1] = Perform(Plain(kind))
    BY <1>5, <1>9, <2>2, <2>6
  <2>8. Quiet(all, 2)
    <3>1. n + 1 = 2
      BY <2>2
    <3>2. Quiet(new, 2)
      BY <1>16, <3>1
    <3> QED
      BY <1>3, <3>2, QuietBehind
  <2>9. all[1].op = "perform" /\ all[1].action = Plain(kind) /\ Plain(kind).kind = kind
    BY <2>7 DEF Perform, Plain
  <2> QED
    BY <2>3, <2>4, <2>6, <2>8, <2>9 DEF ModePending, Becomes
<1> QED
  BY <1>1, <1>5, <1>18, <1>19, RequestEffects

\* Every event leads to a shape that promises the same.
LEMMA EventStep ==
  ASSUME NEW items, NEW s \in State, s.shell_commands = 0, ~s.enforced_safemode,
         s.daemon # "WANTMEASURE",
         NEW ev \in Event, items[1].event = ev, items[1].op = "on_event",
         NEW new, new = Asked(s, ev),
         NEW all, Spliced(items, new, all), NEW e, NEW l, NEW end,
         Phase(items, s, e, l, end)
  PROVE  Phase(all, Settle(Current(s, ev), Target(s, ev)), e, l, end)
<1> DEFINE u == Settle(Current(s, ev), Target(s, ev))
<1>1. IsFact(ev) => u = Update(s, ev)
  <2> DEFINE cur == Update(s, ev)
  <2>1. IsFact(ev) => Settle(cur, cur) = cur
    BY FactHandled
  <2>2. IsFact(ev) => Current(s, ev) = cur /\ Target(s, ev) = cur
    BY DEF Current, Target
  <2> HIDE DEF cur
  <2>3. IsFact(ev) => u = cur
    BY <2>1, <2>2
  <2> QED
    BY <2>3 DEF cur
<1> HIDE DEF u
<1>2. \A action : Perform(action).op # "on_event"
  BY DEF Perform
<1>3. CASE Draining(items, s, e, l, end)
  <2>1. Later(items, 1, View(s, e, l), end)
    BY <1>3 DEF Draining
  <2>2. Touches(items[1])
    BY DEF Touches
  <2>3. Len(items) \in Nat \ {0} /\ DOMAIN items = 1 .. Len(items)
    BY DEF Spliced
  <2>4. \E reason \in 1 .. 3 : items[1] = Perform(EnterSafeMode(reason))
    BY <2>1, <2>2, <2>3, LaterHead
  <2> QED
    BY <1>2, <2>4
<1>4. CASE EventPending(items, s, e, l, end)
  <2>1. CASE IsFact(ev)
    <3>1. Draining(all, Update(s, ev), e, l, end)
      BY <1>4, <2>1, FactPending
    <3>2. u = Update(s, ev)
      BY <1>1, <2>1
    <3> QED
      BY <3>1, <3>2 DEF Phase, u
  <2>2. CASE ev = SafeOrder
    <3>1. Settle(Current(s, ev), Target(s, ev)) = s /\ EnterPending(all, s, e, l, end)
      BY <1>4, <2>2, SafeRequested
    <3> QED
      BY <3>1 DEF Phase
  <2>3. CASE ~IsFact(ev) /\ ev # SafeOrder
    <3>1. Draining(all, u, e, l, end) \/ ModePending(all, u, e, l, end)
      BY <1>4, <2>3, RequestPending DEF u
    <3> QED
      BY <3>1 DEF Phase, u
  <2> QED
    BY <2>1, <2>2, <2>3
<1>5. CASE EnterPending(items, s, e, l, end)
  BY <1>2, <1>5 DEF EnterPending
<1>6. CASE Entering(items, s, e, l, end)
  <2>1. IsFact(ev) /\ Entered(all, Update(s, ev), e, l, end)
    BY <1>6, EnteringHandled
  <2>2. u = Update(s, ev)
    BY <1>1, <2>1
  <2> QED
    BY <2>1, <2>2 DEF Phase, u
<1>7. CASE Entered(items, s, e, l, end)
  <2>1. IsFact(ev) /\ Draining(all, Update(s, ev), e, l, end)
    BY <1>7, EnteredHandled
  <2>2. u = Update(s, ev)
    BY <1>1, <2>1
  <2> QED
    BY <2>1, <2>2 DEF Phase, u
<1>8. CASE ModePending(items, s, e, l, end)
  BY <1>8 DEF ModePending
<1>9. CASE ExitPending(items, s, e, l, end)
  <2>1. PICK kind \in Kind, success \in BOOLEAN : items = <<Exited(kind, success)>>
    BY <1>9 DEF ExitPending
  <2>2. Exited(kind, success).op = "exited"
    BY DEF Exited
  <2> QED
    BY <2>1, <2>2
<1> QED
  BY <1>3, <1>4, <1>5, <1>6, <1>7, <1>8, <1>9 DEF Phase

-----------------------------------------------------------------------------
(* What the performance of an action makes of the agenda *)

Unfolded(action) == Prelude(action) \o <<Spawn(action.kind)>>
Adds(action, kind) == IF action.kind = kind THEN 1 ELSE 0

\* The script comes last.
LEMMA UnfoldedShape ==
  ASSUME NEW action \in Action
  PROVE  /\ Unfolded(action) \in Seq(WorkItem)
         /\ \A kind : Count(Unfolded(action), {Spawn(kind)}) = Adds(action, kind)
<1> DEFINE first == Prelude(action)
           item == Spawn(action.kind)
<1>1. /\ first \in Seq(WorkItem)
      /\ \A i \in DOMAIN first : first[i].op = "on_event"
  BY PreludeEvents DEF OnEvent
<1>2. item \in WorkItem
  BY DEF Spawn, WorkItem, Action
<1>3. \A kind : item = Spawn(kind) <=> action.kind = kind
  BY DEF Spawn
<1>4. \A kind : Spawn(kind).op = "spawn"
  BY DEF Spawn
<1> HIDE DEF first, item
<1> DEFINE new == first \o <<item>>
           n == Len(first) + 1
<1>5. /\ new \in Seq(WorkItem) /\ n \in DOMAIN new /\ new[n] = item
      /\ \A i \in DOMAIN new : i # n => i \in DOMAIN first /\ new[i] = first[i]
  BY <1>1, <1>2
<1> HIDE DEF new, n
<1>6. ASSUME NEW kind
      PROVE  Count(new, {Spawn(kind)}) = Adds(action, kind)
  <2>1. \A i \in DOMAIN new : i # n => new[i] \notin {Spawn(kind)}
    BY <1>1, <1>4, <1>5
  <2>2. Count(new, {Spawn(kind)}) = IF new[n] \in {Spawn(kind)} THEN 1 ELSE 0
    BY <1>5, <2>1, CountOne
  <2> QED
    BY <1>3, <1>5, <2>2 DEF Adds
<1> QED
  BY <1>5, <1>6 DEF Unfolded, new, first, item

LEMMA EnterPerformed ==
  ASSUME NEW items, NEW s \in State, NEW reason \in 1 .. 3,
         items[1] = Perform(EnterSafeMode(reason)), Len(items) \in 1 .. 4,
         NEW new, new = Unfolded(EnterSafeMode(reason)),
         NEW all, Spliced(items, new, all), NEW e, NEW l, NEW end,
         Later(items, 2, Safe(View(s, e, l), reason), end)
  PROVE  Entering(all, s, e + 1, l, end)
<1> DEFINE safe == OnEvent(SafeModeSignal(reason))
           over == OnEvent(ManeuverModeSignal(FALSE))
           item == Spawn("EnterSafeMode")
<1>1. new = <<safe, over>> \o <<item>>
  BY DEF Unfolded, Prelude, EnterSafeMode, EnteringSafemode
<1>2. ~Touches(item)
  BY DEF Touches, Spawn
<1> HIDE DEF safe, over, item
<1>3. Len(new) = 3 /\ new[1] = safe /\ new[2] = over /\ new[3] = item
  BY <1>1
<1>4. Quiet(new, 3)
  <2>1. DOMAIN new = 1 .. 3
    BY <1>3 DEF Spliced
  <2>2. \A i \in DOMAIN new : i >= 3 => i = 3
    BY <2>1
  <2> QED
    BY <1>2, <1>3, <2>2 DEF Quiet
<1>5. Len(all) \in 2 .. 6 /\ 3 <= Len(new) + 1 /\ all[1] = safe /\ all[2] = over
  BY <1>3 DEF Spliced
<1>6. Safe(View(s, e, l), reason)
        = View([s EXCEPT !.safemode = reason, !.maneuvermode = FALSE], e + 1, l)
  BY DEF Safe, View, State
<1> DEFINE view == Safe(View(s, e, l), reason)
<1> HIDE DEF view
<1>7. Later(items, 2, view, end)
  BY DEF view
<1>8. Later(all, 3, view, end)
  BY <1>4, <1>5, <1>7, LaterBehind
<1> QED
  BY <1>5, <1>6, <1>8 DEF Entering, safe, over, view

\* An action that touches no mode leaves only the start of its script.
LEMMA HarmlessPerformed ==
  ASSUME NEW items, NEW action \in Action, action.kind \notin ModeKinds,
         NEW new, new = Unfolded(action), NEW all, Spliced(items, new, all),
         NEW view, NEW end, Later(items, 2, view, end)
  PROVE  Later(all, 1, view, end) /\ Len(all) = Len(items)
<1> DEFINE item == Spawn(action.kind)
<1>1. Prelude(action) = <<>>
  BY DEF Prelude, ModeKinds
<1>2. ~Touches(item)
  BY DEF Touches, Spawn
<1>3. item \in WorkItem
  BY DEF Spawn, WorkItem, Action
<1> HIDE DEF item
<1>4. new = <<item>>
  <2>1. <<item>> \in Seq(WorkItem)
    BY <1>3
  <2>2. new = <<>> \o <<item>>
    BY <1>1 DEF Unfolded, item
  <2> QED
    BY <2>1, <2>2, ConcatEmptySeq
<1>5. Len(new) = 1 /\ new[1] = item /\ DOMAIN new = {1}
  BY <1>4
<1>6. Quiet(new, 1)
  BY <1>2, <1>5 DEF Quiet
<1>7. 1 <= Len(new) + 1
  BY <1>5
<1>8. Later(all, 1, view, end)
  BY <1>6, <1>7, LaterBehind
<1>9. Len(all) = Len(items)
  BY <1>5 DEF Spliced
<1> QED
  BY <1>8, <1>9

\* The other modes: the event that announces them, then the script.
LEMMA ModePerformed ==
  ASSUME NEW items, NEW s \in State, NEW action \in Action, items[1].action = action,
         NEW new, new = Unfolded(action),
         NEW all, Spliced(items, new, all), NEW e, NEW l, NEW end,
         ModePending(items, s, e, l, end)
  PROVE  /\ action.kind # "EnterSafeMode"
         /\ EventPending(all, s, e,
                         IF action.kind = "LeaveManualMode" THEN l + 1 ELSE l, end)
<1>1. action.kind \in ModeKinds \ {"EnterSafeMode"}
  BY DEF ModePending
<1>2. PICK ev \in Event : IsFact(ev) /\ Prelude(action) = <<OnEvent(ev)>>
  BY <1>1, Announcements
<1> DEFINE item == Spawn(action.kind)
           first == OnEvent(ev)
           next == IF action.kind = "LeaveManualMode" THEN l + 1 ELSE l
<1>3. Prelude(action)[1].event = ev /\ first.op = "on_event" /\ first.event = ev
  BY <1>2 DEF OnEvent
<1>4. ~Touches(item)
  BY DEF Touches, Spawn
<1>5. new = <<first>> \o <<item>>
  BY <1>2 DEF Unfolded
<1>6. end = Ruled(Update(s, ev), e, next)
  BY <1>3 DEF ModePending
<1>7. Len(items) \in 1 .. 2
  BY DEF ModePending
<1>8. Quiet(items, 2)
  BY DEF ModePending
<1> HIDE DEF item, first, next
<1>9. Len(new) = 2 /\ new[1] = first /\ new[2] = item
  BY <1>5
<1>10. Quiet(new, 2)
  <2>1. DOMAIN new = 1 .. 2
    BY <1>9 DEF Spliced
  <2>2. \A i \in DOMAIN new : i >= 2 => i = 2
    BY <2>1
  <2> QED
    BY <1>4, <1>9, <2>2 DEF Quiet
<1>11. Quiet(all, 2)
  BY <1>8, <1>10, QuietBehind
<1>12. Len(all) <= 3 /\ all # <<>> /\ all[1] = first
  BY <1>7, <1>9 DEF Spliced
<1>13. end = EventEffect(s, e, next, ev)
  BY <1>2, <1>6 DEF EventEffect
<1>14. EventPending(all, s, e, next, end)
  BY <1>2, <1>3, <1>11, <1>12, <1>13 DEF EventPending
<1> QED
  BY <1>1, <1>14 DEF next

LEMMA PerformStep ==
  ASSUME NEW items, NEW s \in State, NEW action \in Action,
         items[1].op = "perform", items[1].action = action,
         NEW new, new = Unfolded(action),
         NEW all, Spliced(items, new, all), NEW e \in Int, NEW l \in Int, NEW end,
         Phase(items, s, e, l, end)
  PROVE  Phase(all, s, e + Adds(action, "EnterSafeMode"),
               l + Adds(action, "LeaveManualMode"), end)
<1> DEFINE e2 == e + Adds(action, "EnterSafeMode")
           l2 == l + Adds(action, "LeaveManualMode")
<1>1. /\ action.kind # "EnterSafeMode" => e2 = e
      /\ action.kind = "EnterSafeMode" => e2 = e + 1 /\ l2 = l
      /\ l2 = IF action.kind = "LeaveManualMode" THEN l + 1 ELSE l
  BY DEF Adds
<1> HIDE DEF e2, l2
<1> SUFFICES Phase(all, s, e2, l2, end)
  BY DEF e2, l2
<1>2. ASSUME NEW reason \in 1 .. 3, items[1] = Perform(EnterSafeMode(reason)),
             Len(items) \in 1 .. 4, Later(items, 2, Safe(View(s, e, l), reason), end)
      PROVE  Phase(all, s, e2, l2, end)
  <2>1. action = EnterSafeMode(reason)
    BY <1>2 DEF Perform
  <2>2. action.kind = "EnterSafeMode"
    BY <2>1 DEF EnterSafeMode
  <2>3. Entering(all, s, e + 1, l, end)
    BY <1>2, <2>1, EnterPerformed
  <2> QED
    BY <1>1, <2>2, <2>3 DEF Phase
<1>3. Len(items) \in Nat \ {0} /\ DOMAIN items = 1 .. Len(items)
  BY DEF Spliced
<1>4. CASE Draining(items, s, e, l, end)
  <2>1. Later(items, 1, View(s, e, l), end)
    BY <1>4 DEF Draining
  <2>2. Len(items) \in 1 .. 4
    <3>1. Len(items) <= 4
      BY <1>4 DEF Draining
    <3> QED
      BY <1>3, <3>1
  <2>3. CASE ~Touches(items[1]) /\ Later(items, 2, View(s, e, l), end)
    <3>1. action.kind \notin ModeKinds
      BY <2>3 DEF Touches
    <3>2. action.kind \notin {"EnterSafeMode", "LeaveManualMode"}
      BY <3>1 DEF ModeKinds
    <3>3. Later(all, 1, View(s, e, l), end)
      BY <2>3, <3>1, HarmlessPerformed
    <3>4. Len(all) = Len(items)
      BY <2>3, <3>1, HarmlessPerformed
    <3>5. Draining(all, s, e, l, end)
      BY <2>2, <3>3, <3>4 DEF Draining
    <3> QED
      BY <1>1, <3>2, <3>5 DEF Phase
  <2>4. ASSUME NEW reason \in 1 .. 3, items[1] = Perform(EnterSafeMode(reason)),
               Later(items, 2, Safe(View(s, e, l), reason), end)
        PROVE  Phase(all, s, e2, l2, end)
    BY <1>2, <2>2, <2>4
  <2> QED
    BY <1>3, <2>1, <2>3, <2>4, LaterHead
<1>5. CASE EventPending(items, s, e, l, end)
  BY <1>5 DEF EventPending
<1>6. CASE EnterPending(items, s, e, l, end)
  <2>1. PICK reason \in 1 .. 3 :
          /\ items[1] = Perform(EnterSafeMode(reason))
          /\ Later(items, 2, Safe(View(s, e, l), reason), end)
    BY <1>6 DEF EnterPending
  <2>2. Len(items) <= 4
    BY <1>6 DEF EnterPending
  <2>3. Len(items) \in 1 .. 4
    BY <1>3, <2>2
  <2> QED
    BY <1>2, <2>1, <2>3
<1>7. CASE Entering(items, s, e, l, end) \/ Entered(items, s, e, l, end)
  <2>1. \A ev : OnEvent(ev).op = "on_event"
    BY DEF OnEvent
  <2> QED
    BY <1>7, <2>1 DEF Entering, Entered
<1>8. CASE ModePending(items, s, e, l, end)
  <2>1. action.kind # "EnterSafeMode"
    BY <1>8, ModePerformed
  <2>2. EventPending(all, s, e,
                     IF action.kind = "LeaveManualMode" THEN l + 1 ELSE l, end)
    BY <1>8, ModePerformed
  <2>3. EventPending(all, s, e2, l2, end)
    BY <1>1, <2>1, <2>2
  <2> QED
    BY <2>3 DEF Phase
<1>9. CASE ExitPending(items, s, e, l, end)
  <2>1. PICK kind \in Kind, success \in BOOLEAN : items = <<Exited(kind, success)>>
    BY <1>9 DEF ExitPending
  <2>2. Exited(kind, success).op = "exited"
    BY DEF Exited
  <2> QED
    BY <2>1, <2>2
<1> QED
  BY <1>4, <1>5, <1>6, <1>7, <1>8, <1>9 DEF Phase

-----------------------------------------------------------------------------
(* What the end of a script makes of the agenda *)

\* No shape is longer than six calls.
LEMMA PhaseShort ==
  ASSUME NEW items, Len(items) \in Nat, NEW s, NEW e, NEW l, NEW end,
         Phase(items, s, e, l, end)
  PROVE  Len(items) <= 6
<1>1. CASE Draining(items, s, e, l, end)
  <2>1. Len(items) <= 4
    BY <1>1 DEF Draining
  <2> QED
    BY <2>1
<1>2. CASE EventPending(items, s, e, l, end)
  <2>1. Len(items) <= 3 \/ Len(items) <= 2 \/ Len(items) = 1
    BY <1>2, Zenon DEF EventPending
  <2> QED
    BY <2>1
<1>3. CASE EnterPending(items, s, e, l, end)
  <2>1. Len(items) <= 4
    BY <1>3 DEF EnterPending
  <2> QED
    BY <2>1
<1>4. CASE Entering(items, s, e, l, end)
  <2>1. Len(items) \in 2 .. 6
    BY <1>4 DEF Entering
  <2>2. \A n \in 2 .. 6 : n <= 6
    OBVIOUS
  <2> QED
    BY <2>1, <2>2, Zenon
<1>5. CASE Entered(items, s, e, l, end)
  <2>1. Len(items) \in 1 .. 5
    BY <1>5 DEF Entered
  <2>2. \A n \in 1 .. 5 : n <= 6
    OBVIOUS
  <2> QED
    BY <2>1, <2>2, Zenon
<1>6. CASE ModePending(items, s, e, l, end)
  <2>1. Len(items) \in 1 .. 2
    BY <1>6 DEF ModePending
  <2>2. \A n \in 1 .. 2 : n <= 6
    OBVIOUS
  <2> QED
    BY <2>1, <2>2, Zenon
<1>7. CASE ExitPending(items, s, e, l, end)
  <2>1. \E item : items = <<item>>
    BY <1>7 DEF ExitPending
  <2> QED
    BY <2>1
<1> QED
  BY <1>1, <1>2, <1>3, <1>4, <1>5, <1>6, <1>7 DEF Phase

\* Which calls the shapes other than Draining begin with.
LEMMA PhaseHeads ==
  ASSUME NEW items, NEW s, NEW e, NEW l, NEW end, Phase(items, s, e, l, end)
  PROVE  \/ Draining(items, s, e, l, end)
         \/ items[1].op \in {"on_event", "perform"}
         \/ items[1].op = "exited" /\ ExitPending(items, s, e, l, end)
<1>1. \A ev : OnEvent(ev).op = "on_event"
  BY DEF OnEvent
<1>2. \A action : Perform(action).op = "perform"
  BY DEF Perform
<1>3. EventPending(items, s, e, l, end) => items[1].op = "on_event"
  BY DEF EventPending
<1>4. EnterPending(items, s, e, l, end) => items[1].op = "perform"
  BY <1>2 DEF EnterPending
<1>5. /\ Entering(items, s, e, l, end) => items[1].op = "on_event"
      /\ Entered(items, s, e, l, end) => items[1].op = "on_event"
  BY <1>1 DEF Entering, Entered
<1>6. ModePending(items, s, e, l, end) => items[1].op = "perform"
  BY DEF ModePending
<1>7. ASSUME ExitPending(items, s, e, l, end)
      PROVE  items[1].op = "exited"
  <2>1. PICK kind \in Kind, success \in BOOLEAN : items = <<Exited(kind, success)>>
    BY <1>7 DEF ExitPending
  <2>2. Exited(kind, success).op = "exited"
    BY DEF Exited
  <2> QED
    BY <2>1, <2>2
<1> QED
  BY <1>3, <1>4, <1>5, <1>6, <1>7 DEF Phase

\* What is pending when the agenda drains touches no mode, unless it performs.
LEMMA DrainingHead ==
  ASSUME NEW items, Len(items) \in Nat \ {0}, DOMAIN items = 1 .. Len(items),
         NEW s, NEW e, NEW l, NEW end, Draining(items, s, e, l, end),
         items[1].op # "perform"
  PROVE  ~Touches(items[1]) /\ Later(items, 2, View(s, e, l), end)
<1>1. \A action : Perform(action).op = "perform"
  BY DEF Perform
<1>2. Later(items, 1, View(s, e, l), end)
  BY DEF Draining
<1> QED
  BY <1>1, <1>2, LaterHead

\* A call that only returns.
LEMMA ReturnStep ==
  ASSUME NEW items, NEW s, items[1].op \in {"spawn", "remove"},
         NEW new, Len(new) = 0, NEW all, Spliced(items, new, all),
         NEW e, NEW l, NEW end, Phase(items, s, e, l, end)
  PROVE  Phase(all, s, e, l, end)
<1>1. Draining(items, s, e, l, end)
  BY PhaseHeads
<1>2. Len(items) \in Nat \ {0} /\ DOMAIN items = 1 .. Len(items)
  BY DEF Spliced
<1>3. Later(items, 2, View(s, e, l), end)
  BY <1>1, <1>2, DrainingHead
<1>4. Len(items) <= 4
  BY <1>1 DEF Draining
<1>5. Quiet(new, 1)
  <2>1. DOMAIN new = {}
    BY DEF Spliced
  <2> QED
    BY <2>1 DEF Quiet
<1>6. 1 <= Len(new) + 1 /\ Len(all) <= 4
  BY <1>2, <1>4 DEF Spliced
<1> DEFINE view == View(s, e, l)
<1> HIDE DEF view
<1>7. Later(items, 2, view, end)
  BY <1>3 DEF view
<1>8. Later(all, 1, view, end)
  BY <1>5, <1>6, <1>7, LaterBehind
<1> QED
  BY <1>6, <1>8 DEF Draining, Phase, view

\* Freed actions are not written to.
LEMMA NoAssign ==
  ASSUME NEW items, Len(items) \in Nat \ {0}, DOMAIN items = 1 .. Len(items),
         NEW s, NEW e, NEW l, NEW end, Phase(items, s, e, l, end)
  PROVE  items[1].op # "assign"
<1> SUFFICES ASSUME items[1].op = "assign"
             PROVE  FALSE
  OBVIOUS
<1>1. Draining(items, s, e, l, end)
  BY PhaseHeads
<1>2. ~Touches(items[1])
  BY <1>1, DrainingHead
<1> QED
  BY <1>2 DEF Touches

\* The state an exit callback leaves, and an event it may raise.
After(s, kind) == IF kind = "LeaveManualMode" THEN [s EXCEPT !.safemode = 0] ELSE s

Raises(s, e, l, kind, success, ev) ==
  /\ (ev \in Event /\ IsFact(ev)) \/ ev = SafeOrder
  /\ Callback(s, kind, success) = <<OnEvent(ev)>>
  /\ EventEffect(After(s, kind), e, l, ev) = ScriptEffect(s, e, l, kind, success)

RaisesNothing(s, e, l, kind, success) ==
  /\ Callback(s, kind, success) = <<>> /\ After(s, kind) = s
  /\ ScriptEffect(s, e, l, kind, success) = View(s, e, l)

\* A fact that is no mode and no measurement goes unseen.
LEMMA UnseenFact ==
  ASSUME NEW s \in State, ~Emergency(s), NEW ev \in Event,
         ev[1] \in {"PayloadSignal", "ADCSreqSignal"}, NEW e, NEW l
  PROVE  IsFact(ev) /\ EventEffect(s, e, l, ev) = View(s, e, l)
<1> DEFINE u == Update(s, ev)
<1>1. IsFact(ev)
  BY DEF IsFact, Requests
<1>2. u \in State
  BY UpdateType
<1>3. /\ u.safemode = s.safemode /\ u.manualmode = s.manualmode
      /\ u.maneuvermode = s.maneuvermode /\ u.all_temp = s.all_temp
      /\ u.battery_level = s.battery_level
  BY UpdateFields
<1> HIDE DEF u
<1>4. Ruled(u, e, l) = Ruled(s, e, l)
  BY <1>2, <1>3, SameModes
<1>5. Ruled(s, e, l) = View(s, e, l)
  BY DEF Ruled, Answered
<1>6. EventEffect(s, e, l, ev) = Ruled(u, e, l)
  BY <1>1 DEF EventEffect, u
<1> QED
  BY <1>1, <1>4, <1>5, <1>6

LEMMA ExitEffects ==
  ASSUME NEW s \in State, ~Emergency(s), NEW e, NEW l,
         NEW kind \in Kind, NEW success \in BOOLEAN
  PROVE  \/ RaisesNothing(s, e, l, kind, success)
         \/ \E ev : Raises(s, e, l, kind, success, ev)
<1> DEFINE goal == \/ RaisesNothing(s, e, l, kind, success)
                   \/ \E ev : Raises(s, e, l, kind, success, ev)
<1>1. ASSUME kind = "LeaveManualMode"
      PROVE  goal
  <2> DEFINE u == [s EXCEPT !.safemode = 0]
  <2>1. After(s, kind) = u
    BY <1>1 DEF After
  <2>2. Callback(s, kind, success)
          = IF s.safemode # 0 THEN <<OnEvent(SafeOrder)>> ELSE <<>>
    BY <1>1 DEF Callback, ManualModeLeft, SafeOrder
  <2>3. ScriptEffect(s, e, l, kind, success)
          = IF s.safemode # 0 THEN Requested(u, e, l) ELSE View(s, e, l)
    BY <1>1 DEF ScriptEffect
  <2>4. CASE s.safemode = 0
    <3>1. u = s
      BY <2>4 DEF State
    <3> QED
      BY <2>1, <2>2, <2>3, <2>4, <3>1 DEF RaisesNothing
  <2>5. CASE s.safemode # 0
    <3>1. SafeOrder[1] = "SafeModeReq" /\ SafeOrder[2] = TRUE
      BY DEF SafeOrder, SafeModeReq
    <3>2. ~IsFact(SafeOrder)
      BY <3>1 DEF IsFact, Requests
    <3>3. EventEffect(u, e, l, SafeOrder) = Requested(u, e, l)
      BY <3>1, <3>2 DEF EventEffect, RequestEffect
    <3>4. Raises(s, e, l, kind, success, SafeOrder)
      BY <2>1, <2>2, <2>3, <2>5, <3>3 DEF Raises
    <3> QED
      BY <3>4
  <2> QED
    BY <2>4, <2>5
<1>2. ASSUME kind = "EnterSafeMode"
      PROVE  goal
  <2> DEFINE ev == SafeModeSignal(0)
  <2>1. After(s, kind) = s
    BY <1>2 DEF After
  <2>2. Callback(s, kind, success) = IF success THEN <<>> ELSE <<OnEvent(ev)>>
    BY <1>2 DEF Callback, SafemodeScriptEnded
  <2>3. CASE success
    <3>1. ScriptEffect(s, e, l, kind, success) = View(s, e, l)
      BY <1>2, <2>3 DEF ScriptEffect
    <3> QED
      BY <2>1, <2>2, <2>3, <3>1 DEF RaisesNothing
  <2>4. CASE ~success
    <3>1. ev \in Event /\ IsFact(ev)
      BY DEF SafeModeSignal, Event, Safemode, IsFact, Requests
    <3>2. Update(s, ev) = [s EXCEPT !.safemode = 0]
      BY DEF SafeModeSignal, Update, SetSafemode
    <3>3. ScriptEffect(s, e, l, kind, success) = Ruled([s EXCEPT !.safemode = 0], e, l)
      BY <1>2, <2>4 DEF ScriptEffect
    <3>4. EventEffect(s, e, l, ev) = Ruled(Update(s, ev), e, l)
      BY <3>1 DEF EventEffect
    <3>5. Raises(s, e, l, kind, success, ev)
      BY <2>1, <2>2, <2>4, <3>1, <3>2, <3>3, <3>4 DEF Raises
    <3> QED
      BY <3>5
  <2> QED
    BY <2>3, <2>4
<1>3. ASSUME kind \notin {"LeaveManualMode", "EnterSafeMode"}
      PROVE  goal
  <2>1. After(s, kind) = s
    BY <1>3 DEF After
  <2>2. ScriptEffect(s, e, l, kind, success) = View(s, e, l)
    BY <1>3 DEF ScriptEffect
  <2> DEFINE det == ADCSreqSignal("DETUMB")
             sun == ADCSreqSignal("SUN")
             busy == PayloadSignal("MEASURING")
  <2>3. /\ det \in Event /\ det[1] = "ADCSreqSignal"
        /\ sun \in Event /\ sun[1] = "ADCSreqSignal"
    BY DEF ADCSreqSignal, Event, AdcsState
  <2>4. busy \in Event /\ busy[1] = "PayloadSignal"
    BY DEF PayloadSignal, Event, PayloadState
  <2>5. Callback(s, kind, success) \in {<<>>, <<OnEvent(det)>>, <<OnEvent(sun)>>,
                                        <<OnEvent(busy)>>}
    BY <1>3 DEF Callback, DetumblingTriggered, SunpointingTriggered, MeasuringTriggered
  <2> HIDE DEF det, sun, busy
  <2>6. ASSUME NEW ev \in {det, sun, busy}, Callback(s, kind, success) = <<OnEvent(ev)>>
        PROVE  Raises(s, e, l, kind, success, ev)
    <3>1. ev \in Event /\ ev[1] \in {"PayloadSignal", "ADCSreqSignal"}
      BY <2>3, <2>4, <2>6
    <3>2. IsFact(ev) /\ EventEffect(s, e, l, ev) = View(s, e, l)
      BY <3>1, UnseenFact
    <3> QED
      BY <2>1, <2>2, <2>6, <3>1, <3>2 DEF Raises
  <2>7. CASE Callback(s, kind, success) = <<>>
    BY <2>1, <2>2, <2>7 DEF RaisesNothing
  <2>8. ASSUME NEW ev \in {det, sun, busy}, Callback(s, kind, success) = <<OnEvent(ev)>>
        PROVE  goal
    BY <2>6, <2>8
  <2> HIDE DEF goal
  <2> QED
    BY <2>5, <2>7, <2>8
<1> HIDE DEF goal
<1>4. goal
  BY <1>1, <1>2, <1>3
<1> QED
  BY <1>4 DEF goal

Returned(s, kind, success) == Callback(s, kind, success) \o <<Remove(kind)>>

\* An exit callback raises one event at most before it frees the action.
LEMMA ExitStep ==
  ASSUME NEW items, NEW s \in State, NEW kind \in Kind, NEW success \in BOOLEAN,
         items[1].op = "exited", items[1].kind = kind, items[1].success = success,
         NEW new, new = Returned(s, kind, success),
         NEW all, Spliced(items, new, all), NEW e, NEW l, NEW end,
         Phase(items, s, e, l, end)
  PROVE  Phase(all, After(s, kind), e, l, end)
<1> DEFINE item == Remove(kind)
           u == After(s, kind)
<1>1. Len(items) \in Nat \ {0} /\ DOMAIN items = 1 .. Len(items)
  BY DEF Spliced
<1>2. ~Draining(items, s, e, l, end)
  <2>1. Touches(items[1])
    BY DEF Touches
  <2> QED
    BY <1>1, <2>1, DrainingHead
<1>3. ExitPending(items, s, e, l, end)
  BY <1>2, PhaseHeads
<1>4. ~Emergency(s)
  BY <1>3 DEF ExitPending
<1>5. PICK k \in Kind, good \in BOOLEAN :
        items = <<Exited(k, good)>> /\ end = ScriptEffect(s, e, l, k, good)
  BY <1>3 DEF ExitPending
<1>6. Exited(k, good).kind = k /\ Exited(k, good).success = good
  BY DEF Exited
<1>7. end = ScriptEffect(s, e, l, kind, success) /\ Len(items) = 1
  BY <1>5, <1>6
<1>8. item \in WorkItem
  BY DEF Remove, WorkItem
<1>9. ~Touches(item)
  BY DEF Touches, Remove
<1> HIDE DEF item, u
<1>10. CASE RaisesNothing(s, e, l, kind, success)
  <2>1. new = <<item>>
    <3>1. <<item>> \in Seq(WorkItem)
      BY <1>8
    <3>2. new = <<>> \o <<item>>
      BY <1>10 DEF RaisesNothing, Returned, item
    <3> QED
      BY <3>1, <3>2, ConcatEmptySeq
  <2>2. u = s /\ end = View(s, e, l)
    BY <1>7, <1>10 DEF RaisesNothing, u
  <2>3. Len(new) = 1 /\ new[1] = item /\ DOMAIN new = {1}
    BY <2>1
  <2>4. Len(all) = 1 /\ all[1] = item
    BY <1>7, <2>3, OnlyNew
  <2>5. DOMAIN all = 1 .. Len(all)
    BY DEF Spliced
  <2>6. Quiet(all, 1)
    BY <1>9, <2>4, <2>5 DEF Quiet
  <2>7. Draining(all, s, e, l, end)
    BY <2>2, <2>4, <2>6 DEF Draining, Later
  <2> QED
    BY <2>2, <2>7 DEF Phase, u
<1>11. ASSUME NEW ev, Raises(s, e, l, kind, success, ev)
       PROVE  Phase(all, u, e, l, end)
  <2> DEFINE first == OnEvent(ev)
  <2>1. first.op = "on_event" /\ first.event = ev
    BY DEF OnEvent
  <2>2. new = <<first>> \o <<item>>
    BY <1>11 DEF Raises, Returned, item
  <2>3. end = EventEffect(u, e, l, ev)
    BY <1>7, <1>11 DEF Raises, u
  <2>4. IsFact(ev) \/ ev = SafeOrder
    BY <1>11 DEF Raises
  <2> HIDE DEF first
  <2>5. Len(new) = 2 /\ new[1] = first /\ new[2] = item
    BY <2>2
  <2>6. Len(all) = 2 /\ all # <<>> /\ all[1] = first
    BY <1>7, <2>5, OnlyNew
  <2>7. Quiet(all, 2)
    <3>1. DOMAIN all = 1 .. 2 /\ all[2] = item
      BY <1>7, <2>5, <2>6 DEF Spliced
    <3>2. \A i \in DOMAIN all : i >= 2 => i = 2
      BY <3>1
    <3> QED
      BY <1>9, <3>1, <3>2 DEF Quiet
  <2>8. EventPending(all, u, e, l, end)
    BY <2>1, <2>3, <2>4, <2>6, <2>7 DEF EventPending
  <2> QED
    BY <2>8 DEF Phase
<1> QED
  BY <1>4, <1>10, <1>11, ExitEffects DEF u

-----------------------------------------------------------------------------
(* Every step of the handler keeps the promise                             *)

\* Neither of the faults that are known to break the properties below: the
\* unset enforced_safemode happens to be false, and uv_spawn succeeds.  The
\* stack holds the six calls an event needs at most.
Undisturbed == EnforcedGarbage \subseteq {FALSE} /\ ~SpawnMayFail /\ StackLimit >= 6

Calm == IInv /\ ModeInv /\ Running /\ ~st.enforced_safemode

LEMMA PromiseType ==
  ASSUME TypeOK, NEW kind \in Kind
  PROVE  Promised(kind) \in Nat
<1>1. Count(agenda, {Spawn(kind)}) \in Nat
  BY CountType DEF TypeOK
<1> DEFINE n == Count(agenda, {Spawn(kind)})
<1> HIDE DEF n
<1>2. children[kind] \in Nat /\ n \in Nat
  BY <1>1 DEF TypeOK, n
<1>3. children[kind] + n \in Nat
  BY <1>2
<1> QED
  BY <1>3 DEF Promised, n

\* What is promised after the head of the agenda has been replaced.
LEMMA PromiseSpliced ==
  ASSUME TypeOK, agenda # <<>>, NEW new \in Seq(WorkItem),
         agenda' = new \o Tail(agenda), NEW kind \in Kind,
         children'[kind] \in Nat
  PROVE  /\ Spliced(agenda, new, agenda')
         /\ Promised(kind)'
              = children'[kind] - children[kind] + Count(new, {Spawn(kind)})
                + Promised(kind) - (IF Head(agenda) = Spawn(kind) THEN 1 ELSE 0)
<1> DEFINE these == {Spawn(kind)}
           before == Count(agenda, these)
           after == Count(agenda', these)
           come == Count(new, these)
<1>1. agenda \in Seq(WorkItem)
  BY DEF TypeOK
<1>2. after = come + before - (IF Head(agenda) \in these THEN 1 ELSE 0)
  BY <1>1, CountSpliced
<1>3. Head(agenda) \in these <=> Head(agenda) = Spawn(kind)
  OBVIOUS
<1>4. before \in Nat /\ come \in Nat /\ children[kind] \in Nat
  BY <1>1, CountType DEF TypeOK
<1>5. Promised(kind) = children[kind] + before /\ Promised(kind)' = children'[kind] + after
  BY DEF Promised
<1>6. Spliced(agenda, new, agenda')
  BY <1>1, Places
<1> HIDE DEF these, before, after, come
<1>7. Promised(kind)' = children'[kind] - children[kind] + come + Promised(kind)
                          - (IF Head(agenda) = Spawn(kind) THEN 1 ELSE 0)
  <2>1. \A a \in Nat, b \in Nat, c \in Nat, n \in Nat : \A d \in {0, 1} :
          b + (n + c - d) = b - a + n + (a + c) - d
    OBVIOUS
  <2>2. (IF Head(agenda) = Spawn(kind) THEN 1 ELSE 0) \in {0, 1}
    OBVIOUS
  <2>3. after = come + before - (IF Head(agenda) = Spawn(kind) THEN 1 ELSE 0)
    BY <1>2, <1>3
  <2> DEFINE d == IF Head(agenda) = Spawn(kind) THEN 1 ELSE 0
  <2>4. d \in {0, 1} /\ after = come + before - d
    BY <2>2, <2>3
  <2> HIDE DEF d
  <2>5. children'[kind] + (come + before - d)
          = children'[kind] - children[kind] + come + (children[kind] + before) - d
    <3> DEFINE a == children[kind]
               b == children'[kind]
    <3>1. a \in Nat /\ b \in Nat /\ before \in Nat /\ come \in Nat /\ d \in {0, 1}
      BY <1>4, <2>4
    <3> HIDE DEF a, b
    <3>2. b + (come + before - d) = b - a + come + (a + before) - d
      BY <2>1, <3>1
    <3> QED
      BY <3>2 DEF a, b
  <2>6. Promised(kind)' = children'[kind] - children[kind] + come + Promised(kind) - d
    BY <1>5, <2>4, <2>5
  <2> QED
    BY <2>6 DEF d
<1> QED
  BY <1>6, <1>7 DEF come, these

LEMMA CalmState ==
  ASSUME Calm
  PROVE  /\ TypeOK /\ st \in State /\ agenda \in Seq(WorkItem)
         /\ st.shell_commands = 0 /\ st.daemon # "WANTMEASURE" /\ ~st.enforced_safemode
         /\ children \in [Kind -> Nat]
BY DEF Calm, IInv, TypeOK, ModeInv, NoCommandLeft, MeasurementsFit

ModeScripts == {"EnterSafeMode", "LeaveManualMode"}
LEMMA ModeScriptsAre == ModeScripts \subseteq Kind
BY DEF ModeScripts, Kind

LEMMA HandleEventPhase ==
  ASSUME Calm, HandleEvent, NEW end, PhaseNow(end)
  PROVE  PhaseNow(end)' /\ ~st'.enforced_safemode /\ Running'
<1> DEFINE ev == Head(agenda).event
           new == Asked(st, ev)
           u == Settle(Current(st, ev), Target(st, ev))
           e == Promised("EnterSafeMode")
           l == Promised("LeaveManualMode")
<1>1. /\ ev \in Event /\ agenda # <<>> /\ Head(agenda).op = "on_event"
      /\ st' = u /\ agenda' = new \o Tail(agenda)
      /\ children' = children /\ daemon' = daemon
  BY HandleEventShape DEF Calm, HandleEvent, Asked, Performed
<1>2. /\ TypeOK /\ st \in State /\ agenda \in Seq(WorkItem)
      /\ st.shell_commands = 0 /\ st.daemon # "WANTMEASURE" /\ ~st.enforced_safemode
  BY CalmState
<1>3. /\ new \in Seq(WorkItem) /\ ~u.enforced_safemode
      /\ \A kind : Count(new, {Spawn(kind)}) = 0
  <2>1. CASE IsFact(ev)
    <3> DEFINE cur == Update(st, ev)
    <3>1. /\ ~cur.enforced_safemode /\ Settle(cur, cur) = cur
          /\ Performed(TransformTo(cur, cur)) \in Seq(WorkItem)
          /\ \A kind : Count(Performed(TransformTo(cur, cur)), {Spawn(kind)}) = 0
      BY <1>1, <1>2, <2>1, FactHandled
    <3>2. Current(st, ev) = cur /\ Target(st, ev) = cur
      BY <2>1 DEF Current, Target
    <3> HIDE DEF cur
    <3> QED
      BY <3>1, <3>2 DEF Asked
  <2>2. CASE ~IsFact(ev)
    <3> DEFINE cur == Update(st, ev)
    <3>1. /\ ~Settle(st, cur).enforced_safemode
          /\ Performed(TransformTo(st, cur)) \in Seq(WorkItem)
          /\ \A kind : Count(Performed(TransformTo(st, cur)), {Spawn(kind)}) = 0
      BY <1>1, <1>2, <2>2, RequestHandled
    <3>2. Current(st, ev) = st /\ Target(st, ev) = cur
      BY <2>2 DEF Current, Target
    <3> HIDE DEF cur
    <3> QED
      BY <3>1, <3>2 DEF Asked
  <2> QED
    BY <2>1, <2>2
<1> HIDE DEF u, new
<1>4. \A kind : Head(agenda) # Spawn(kind)
  BY <1>1 DEF Spawn
<1>5. Spliced(agenda, new, agenda')
  BY <1>1, <1>2, <1>3, Places
<1>6. ASSUME NEW kind \in ModeScripts
      PROVE  Promised(kind)' = Promised(kind)
  <2>1. kind \in Kind
    BY ModeScriptsAre
  <2>2. children'[kind] = children[kind] /\ children[kind] \in Nat
    BY <1>1, <1>2, <2>1 DEF TypeOK
  <2>3. Promised(kind)'
          = children'[kind] - children[kind] + Count(new, {Spawn(kind)})
            + Promised(kind) - (IF Head(agenda) = Spawn(kind) THEN 1 ELSE 0)
    BY <1>1, <1>2, <1>3, <2>1, <2>2, PromiseSpliced
  <2>4. Count(new, {Spawn(kind)}) = 0 /\ Head(agenda) # Spawn(kind)
    BY <1>3, <1>4
  <2>5. Promised(kind) \in Nat
    BY <1>2, <2>1, PromiseType
  <2> QED
    BY <2>2, <2>3, <2>4, <2>5
<1>7. Promised("EnterSafeMode")' = e /\ Promised("LeaveManualMode")' = l
  BY <1>6 DEF ModeScripts
<1>8. Head(agenda) = agenda[1]
  BY <1>5 DEF Spliced
<1>9. Phase(agenda, st, e, l, end)
  BY DEF PhaseNow
<1> HIDE DEF e, l
<1>10. Phase(agenda', u, e, l, end)
  BY <1>1, <1>2, <1>5, <1>8, <1>9, EventStep DEF new, u
<1>11. PhaseNow(end)'
  BY <1>1, <1>7, <1>10 DEF PhaseNow
<1> QED
  BY <1>1, <1>3, <1>11 DEF Calm, Running

LEMMA PerformActionPhase ==
  ASSUME Calm, PerformAction, NEW end, PhaseNow(end)
  PROVE  PhaseNow(end)' /\ ~st'.enforced_safemode /\ Running'
<1> DEFINE action == Head(agenda).action
           new == Unfolded(action)
           e == Promised("EnterSafeMode")
           l == Promised("LeaveManualMode")
           e2 == e + Adds(action, "EnterSafeMode")
           l2 == l + Adds(action, "LeaveManualMode")
<1>1. /\ TypeOK /\ st \in State /\ agenda \in Seq(WorkItem) /\ ~st.enforced_safemode
  BY CalmState
<1>2. /\ agenda # <<>> /\ Head(agenda).op = "perform"
      /\ st' = st /\ children' = children /\ daemon' = daemon
      /\ agenda' = Prelude(action) \o <<Spawn(action.kind)>> \o Tail(agenda)
  BY DEF PerformAction, Doing
<1>3. action \in Action
  BY <1>1, <1>2, HeadFields
<1>4. /\ new \in Seq(WorkItem)
      /\ \A kind : Count(new, {Spawn(kind)}) = Adds(action, kind)
  BY <1>3, UnfoldedShape
<1>5. agenda' = new \o Tail(agenda)
  BY <1>2 DEF Unfolded
<1>6. \A kind : Head(agenda) # Spawn(kind)
  BY <1>2 DEF Spawn
<1>7. Spliced(agenda, new, agenda')
  BY <1>1, <1>2, <1>4, <1>5, Places
<1> HIDE DEF action, new
<1>8. ASSUME NEW kind \in ModeScripts
      PROVE  Promised(kind)' = Promised(kind) + Adds(action, kind)
  <2>1. kind \in Kind
    BY ModeScriptsAre
  <2>2. children'[kind] = children[kind] /\ children[kind] \in Nat
    BY <1>1, <1>2, <2>1 DEF TypeOK
  <2>3. Promised(kind)'
          = children'[kind] - children[kind] + Count(new, {Spawn(kind)})
            + Promised(kind) - (IF Head(agenda) = Spawn(kind) THEN 1 ELSE 0)
    BY <1>1, <1>2, <1>4, <1>5, <2>1, <2>2, PromiseSpliced
  <2>4. Count(new, {Spawn(kind)}) = Adds(action, kind) /\ Head(agenda) # Spawn(kind)
    BY <1>4, <1>6
  <2>5. Promised(kind) \in Nat /\ Adds(action, kind) \in {0, 1}
    BY <1>1, <2>1, PromiseType DEF Adds
  <2> QED
    BY <2>2, <2>3, <2>4, <2>5
<1>9. Promised("EnterSafeMode")' = e2 /\ Promised("LeaveManualMode")' = l2
  BY <1>8 DEF ModeScripts
<1>10. agenda[1].op = "perform" /\ agenda[1].action = action
  BY <1>2, <1>7 DEF Spliced, action
<1>11. Phase(agenda, st, e, l, end)
  BY DEF PhaseNow
<1>12. e \in Int /\ l \in Int
  <2>1. \A kind \in ModeScripts : Promised(kind) \in Nat
    BY <1>1, ModeScriptsAre, PromiseType
  <2> QED
    BY <2>1 DEF ModeScripts
<1> HIDE DEF e, l
<1>13. Phase(agenda', st, e2, l2, end)
  BY <1>1, <1>3, <1>7, <1>10, <1>11, <1>12, PerformStep DEF new
<1> HIDE DEF e2, l2
<1>14. PhaseNow(end)'
  BY <1>2, <1>9, <1>13 DEF PhaseNow
<1> QED
  BY <1>1, <1>2, <1>14 DEF Calm, Running

\* A call that only returns: what it started counts as running.
LEMMA ReturnPhase ==
  ASSUME Calm, SpawnProcess \/ RemoveAction, NEW end, PhaseNow(end)
  PROVE  PhaseNow(end)' /\ ~st'.enforced_safemode /\ Running'
<1> DEFINE item == Head(agenda)
           new == <<>>
           e == Promised("EnterSafeMode")
           l == Promised("LeaveManualMode")
<1>1. TypeOK /\ st \in State /\ agenda \in Seq(WorkItem) /\ ~st.enforced_safemode
  BY CalmState
<1>2. /\ agenda # <<>> /\ item.op \in {"spawn", "remove"}
      /\ st' = st /\ daemon' = daemon /\ agenda' = Tail(agenda)
      /\ item.op = "spawn" => children' = [children EXCEPT ![item.kind] = @ + 1]
      /\ item.op = "remove" => children' = children
  BY DEF SpawnProcess, RemoveAction, Doing
<1>3. /\ item \in WorkItem /\ Tail(agenda) \in Seq(WorkItem)
  BY <1>1, <1>2, HeadTailRange
<1>4. item.op = "spawn" => item = Spawn(item.kind)
  BY <1>3 DEF WorkItem, Spawn, AssignProcess
<1>5. item.kind \in Kind
  BY <1>1, <1>2, HeadFields
<1>6. new \in Seq(WorkItem) /\ agenda' = new \o Tail(agenda) /\ Len(new) = 0
  BY <1>2, <1>3
<1> HIDE DEF new, item
<1>7. Spliced(agenda, new, agenda')
  BY <1>1, <1>2, <1>6, Places
<1>8. ASSUME NEW kind \in ModeScripts
      PROVE  Promised(kind)' = Promised(kind)
  <2>1. kind \in Kind
    BY ModeScriptsAre
  <2>2. children[kind] \in Nat /\ children \in [Kind -> Nat]
    BY <1>1, <2>1 DEF TypeOK
  <2>3. children'[kind] = children[kind] + (IF item = Spawn(kind) THEN 1 ELSE 0)
    <3>1. CASE item.op = "spawn"
      <4>1. item = Spawn(kind) <=> item.kind = kind
        BY <1>4, <3>1 DEF Spawn
      <4> QED
        BY <1>2, <1>5, <2>1, <2>2, <3>1, <4>1
    <3>2. CASE item.op = "remove"
      <4>1. item # Spawn(kind)
        BY <3>2 DEF Spawn
      <4> QED
        BY <1>2, <2>2, <3>2, <4>1
    <3> QED
      BY <1>2, <3>1, <3>2
  <2> DEFINE d == IF item = Spawn(kind) THEN 1 ELSE 0
  <2>4. d \in {0, 1} /\ children'[kind] = children[kind] + d
    BY <2>3
  <2>5. children'[kind] \in Nat
    BY <2>2, <2>4
  <2>6. Promised(kind)'
          = children'[kind] - children[kind] + Count(new, {Spawn(kind)})
            + Promised(kind) - d
    BY <1>1, <1>2, <1>6, <2>1, <2>5, PromiseSpliced DEF item
  <2>7. Count(new, {Spawn(kind)}) = 0
    <3>1. DOMAIN new = {}
      BY <1>6
    <3> QED
      BY <3>1, CountNone
  <2>8. Promised(kind) \in Nat
    BY <1>1, <2>1, PromiseType
  <2> HIDE DEF d
  <2> QED
    BY <2>2, <2>4, <2>6, <2>7, <2>8
<1>9. Promised("EnterSafeMode")' = e /\ Promised("LeaveManualMode")' = l
  BY <1>8 DEF ModeScripts
<1>10. agenda[1].op \in {"spawn", "remove"}
  BY <1>2, <1>7 DEF Spliced, item
<1>11. Phase(agenda, st, e, l, end)
  BY DEF PhaseNow
<1> HIDE DEF e, l
<1>12. Phase(agenda', st, e, l, end)
  BY <1>6, <1>7, <1>10, <1>11, ReturnStep
<1>13. PhaseNow(end)'
  BY <1>2, <1>9, <1>12 DEF PhaseNow
<1> QED
  BY <1>1, <1>2, <1>13 DEF Calm, Running

\* The end of an exit callback starts no script.
LEMMA ReturnedShape ==
  ASSUME NEW s \in State, NEW kind \in Kind, NEW success \in BOOLEAN
  PROVE  /\ Returned(s, kind, success) \in Seq(WorkItem)
         /\ \A k : Count(Returned(s, kind, success), {Spawn(k)}) = 0
<1> DEFINE first == Callback(s, kind, success)
           item == Remove(kind)
           n == Len(first) + 1
           new == first \o <<item>>
<1>1. first \in Seq(WorkItem) /\ \A i \in DOMAIN first : first[i].op = "on_event"
  BY CallbackEvents DEF OnEvent
<1>2. item \in WorkItem /\ item.op = "remove"
  BY DEF Remove, WorkItem
<1>3. \A k : Spawn(k).op = "spawn"
  BY DEF Spawn
<1> HIDE DEF first, item
<1>4. /\ new \in Seq(WorkItem) /\ n \in DOMAIN new /\ new[n] = item
      /\ \A i \in DOMAIN new : i # n => i \in DOMAIN first /\ new[i] = first[i]
  BY <1>1, <1>2
<1> HIDE DEF new, n
<1>5. \A i \in DOMAIN new : new[i].op \in {"on_event", "remove"}
  BY <1>1, <1>2, <1>4
<1>6. ASSUME NEW k
      PROVE  Count(new, {Spawn(k)}) = 0
  BY <1>3, <1>5, CountNone
<1> QED
  BY <1>4, <1>6 DEF Returned, new, first, item

LEMMA ExitCallbackPhase ==
  ASSUME Calm, ExitCallback, NEW end, PhaseNow(end)
  PROVE  PhaseNow(end)' /\ ~st'.enforced_safemode /\ Running'
<1> DEFINE k == Head(agenda).kind
           success == Head(agenda).success
           first == Callback(st, k, success)
           item == Remove(k)
           new == Returned(st, k, success)
           e == Promised("EnterSafeMode")
           l == Promised("LeaveManualMode")
           u == After(st, k)
<1>1. /\ TypeOK /\ agenda # <<>> /\ agenda \in Seq(WorkItem) /\ st \in State
      /\ ~st.enforced_safemode
      /\ Head(agenda).op = "exited" /\ k \in Kind /\ success \in BOOLEAN
  BY CalmState, HeadFields DEF ExitCallback, Doing
<1>2. /\ st' = u /\ children' = children /\ daemon' = daemon
      /\ agenda' = first \o <<item>> \o Tail(agenda)
  BY DEF ExitCallback, After
<1>3. /\ new \in Seq(WorkItem)
      /\ \A kind : Count(new, {Spawn(kind)}) = 0
  BY <1>1, ReturnedShape
<1>4. ~u.enforced_safemode
  BY <1>1 DEF After, State
<1>5. \A kind : Head(agenda) # Spawn(kind)
  BY <1>1 DEF Spawn
<1>6. agenda' = new \o Tail(agenda)
  BY <1>2 DEF Returned
<1> HIDE DEF first, item, u, new
<1>9. Spliced(agenda, new, agenda')
  BY <1>1, <1>3, <1>6, Places
<1>10. ASSUME NEW kind \in ModeScripts
       PROVE  Promised(kind)' = Promised(kind)
  <2>1. kind \in Kind
    BY ModeScriptsAre
  <2>2. children'[kind] = children[kind] /\ children[kind] \in Nat
    BY <1>1, <1>2, <2>1 DEF TypeOK
  <2>3. Promised(kind)'
          = children'[kind] - children[kind] + Count(new, {Spawn(kind)})
            + Promised(kind) - (IF Head(agenda) = Spawn(kind) THEN 1 ELSE 0)
    BY <1>1, <1>3, <1>6, <2>1, <2>2, PromiseSpliced
  <2>4. Count(new, {Spawn(kind)}) = 0 /\ Head(agenda) # Spawn(kind)
    BY <1>3, <1>5
  <2>5. Promised(kind) \in Nat
    BY <1>1, <2>1, PromiseType
  <2> QED
    BY <2>2, <2>3, <2>4, <2>5
<1>11. Promised("EnterSafeMode")' = e /\ Promised("LeaveManualMode")' = l
  BY <1>10 DEF ModeScripts
<1>12. /\ agenda[1].op = "exited" /\ agenda[1].kind = k /\ agenda[1].success = success
  BY <1>1, <1>9 DEF Spliced
<1>13. Phase(agenda, st, e, l, end)
  BY DEF PhaseNow
<1> HIDE DEF e, l, k, success
<1>14. Phase(agenda', u, e, l, end)
  BY <1>1, <1>9, <1>12, <1>13, ExitStep DEF new, u
<1>15. PhaseNow(end)'
  BY <1>2, <1>11, <1>14 DEF PhaseNow
<1> QED
  BY <1>1, <1>2, <1>4, <1>15 DEF Calm, Running

\* Every step of the handler keeps the promise, and the stack holds it.
LEMMA HandlerPhase ==
  ASSUME Undisturbed, Calm, Handler, NEW end, agenda # <<>> => PhaseNow(end)
  PROVE  PhaseNow(end)' /\ ~st'.enforced_safemode /\ Running' /\ agenda # <<>>
<1> DEFINE goal == PhaseNow(end)' /\ ~st'.enforced_safemode /\ Running'
<1>1. agenda \in Seq(WorkItem)
  BY CalmState
<1>2. ~StackOverflow
  <2> SUFFICES ASSUME StackOverflow PROVE FALSE
    OBVIOUS
  <2>1. Len(agenda) \in Nat /\ StackLimit \in Nat /\ StackLimit >= 6
    BY <1>1, BoundAssumption DEF Undisturbed
  <2>2. ~(Len(agenda) <= StackLimit)
    BY DEF StackOverflow, FitsOnStack
  <2>3. agenda # <<>>
    <3>1. agenda = <<>> => Len(agenda) = 0
      OBVIOUS
    <3> QED
      BY <2>1, <2>2, <3>1
  <2>4. Phase(agenda, st, Promised("EnterSafeMode"), Promised("LeaveManualMode"), end)
    BY <2>3 DEF PhaseNow
  <2>5. Len(agenda) <= 6
    BY <2>1, <2>4, PhaseShort
  <2> QED
    BY <2>1, <2>2, <2>5
<1>3. ~SpawnFails
  BY DEF Undisturbed, SpawnFails
<1>4. agenda # <<>>
  BY <1>2 DEF Handler, HandleEvent, PerformAction, SpawnProcess, SpawnFails, ExitCallback,
              RemoveAction, AssignToFreed, Doing
<1>5. PhaseNow(end)
  BY <1>4
<1>6. ~AssignToFreed
  <2>1. /\ Len(agenda) \in Nat \ {0} /\ DOMAIN agenda = 1 .. Len(agenda)
        /\ Head(agenda) = agenda[1]
    BY <1>1, <1>4
  <2>2. agenda[1].op # "assign"
    BY <1>5, <2>1, NoAssign DEF PhaseNow
  <2> QED
    BY <2>1, <2>2 DEF AssignToFreed, Doing
<1>7. goal
  <2>1. CASE HandleEvent
    BY <1>5, <2>1, HandleEventPhase
  <2>2. CASE PerformAction
    BY <1>5, <2>2, PerformActionPhase
  <2>3. CASE SpawnProcess \/ RemoveAction
    BY <1>5, <2>3, ReturnPhase
  <2>4. CASE ExitCallback
    BY <1>5, <2>4, ExitCallbackPhase
  <2> QED
    BY <1>2, <1>3, <1>6, <2>1, <2>2, <2>3, <2>4 DEF Handler
<1> QED
  BY <1>4, <1>7

-----------------------------------------------------------------------------
(* What arrives at an idle daemon *)

LEMMA ArrivalPromise ==
  ASSUME NEW item, item.op # "spawn", agenda' = <<item>>, NEW kind \in Kind,
         children'[kind] \in Nat
  PROVE  Promised(kind)' = children'[kind]
<1>1. DOMAIN agenda' = {1} /\ agenda'[1] = item
  OBVIOUS
<1>2. item # Spawn(kind)
  BY DEF Spawn
<1>3. Count(agenda', {Spawn(kind)}) = 0
  BY <1>1, <1>2, CountNone
<1> QED
  BY <1>3 DEF Promised

\* What ground will see after this event, and after the end of this script.
Foreseen(ev) ==
  EventEffect(st, children["EnterSafeMode"], children["LeaveManualMode"], ev)
Gone(script, kind) == children[script] - Adds(Plain(kind), script)
Ended(kind, success) ==
  ScriptEffect(st, Gone("EnterSafeMode", kind), Gone("LeaveManualMode", kind),
               kind, success)

LEMMA DeliverPhase ==
  ASSUME Calm, NEW ev \in Sent, Deliver(ev), NEW end, end = Foreseen(ev)
  PROVE  /\ PhaseNow(end)' /\ ~st'.enforced_safemode /\ Running'
         /\ agenda' # <<>> /\ ~Emergency(st)
<1> DEFINE item == OnEvent(ev)
           e == children["EnterSafeMode"]
           l == children["LeaveManualMode"]
<1>1. /\ TypeOK /\ st \in State /\ ~st.enforced_safemode
  BY CalmState
<1>2. /\ agenda' = <<item>> /\ st' = st /\ children' = children /\ daemon' = daemon /\ Idle
  BY DEF Deliver
<1>3. ~Emergency(st)
  BY <1>2, IdleStep DEF Calm
<1>4. item.op = "on_event" /\ item.event = ev
  BY DEF OnEvent
<1> HIDE DEF item
<1>5. ASSUME NEW kind \in ModeScripts PROVE Promised(kind)' = children[kind]
  <2>1. kind \in Kind /\ children'[kind] = children[kind] /\ children[kind] \in Nat
    BY <1>1, <1>2, ModeScriptsAre DEF TypeOK
  <2> QED
    BY <1>2, <1>4, <2>1, ArrivalPromise
<1>6. Promised("EnterSafeMode")' = e /\ Promised("LeaveManualMode")' = l
  BY <1>5 DEF ModeScripts
<1>7. Len(agenda') = 1 /\ agenda'[1] = item /\ agenda' # <<>> /\ DOMAIN agenda' = {1}
  BY <1>2
<1>11. end = EventEffect(st, e, l, ev)
  BY DEF Foreseen
<1> HIDE DEF e, l
<1>8. Quiet(agenda', 2)
  BY <1>7 DEF Quiet
<1>9. \/ IsFact(ev) /\ Len(agenda') <= 3
      \/ ~IsFact(ev) /\ ~Emergency(st) /\ Len(agenda') = 1
  BY <1>3, <1>7
<1>10. EventPending(agenda', st, e, l, end)
  BY <1>4, <1>7, <1>8, <1>9, <1>11, Zenon DEF EventPending
<1>12. Phase(agenda', st, e, l, end)
  BY <1>10 DEF Phase
<1>13. PhaseNow(end)'
  BY <1>2, <1>6, <1>12 DEF PhaseNow
<1> QED
  BY <1>1, <1>2, <1>3, <1>7, <1>13 DEF Calm, Running

LEMMA ScriptExitsPhase ==
  ASSUME Calm, NEW kind \in Kind, NEW success \in BOOLEAN, ScriptExits(kind, success),
         NEW end, end = Ended(kind, success)
  PROVE  /\ PhaseNow(end)' /\ ~st'.enforced_safemode /\ Running'
         /\ agenda' # <<>> /\ ~Emergency(st)
<1> DEFINE item == Exited(kind, success)
           e == Gone("EnterSafeMode", kind)
           l == Gone("LeaveManualMode", kind)
<1>1. /\ TypeOK /\ st \in State /\ ~st.enforced_safemode
      /\ children \in [Kind -> Nat]
  BY CalmState
<1>2. /\ agenda' = <<item>> /\ st' = st /\ daemon' = daemon /\ Idle
      /\ children' = [children EXCEPT ![kind] = @ - 1] /\ children[kind] > 0
  BY DEF ScriptExits
<1>3. ~Emergency(st)
  BY <1>2, IdleStep DEF Calm
<1>4. item.op = "exited"
  BY DEF Exited
<1> HIDE DEF item
<1>5. ASSUME NEW script \in ModeScripts PROVE Promised(script)' = Gone(script, kind)
  <2>1. script \in Kind
    BY ModeScriptsAre
  <2>2. children'[script] = Gone(script, kind) /\ children'[script] \in Nat
    BY <1>1, <1>2, <2>1 DEF Gone, Adds, Plain
  <2> QED
    BY <1>2, <1>4, <2>1, <2>2, ArrivalPromise
<1>6. Promised("EnterSafeMode")' = e /\ Promised("LeaveManualMode")' = l
  BY <1>5 DEF ModeScripts
<1>7. end = ScriptEffect(st, e, l, kind, success)
  BY DEF Ended
<1> HIDE DEF e, l
<1>8. ExitPending(agenda', st, e, l, end)
  BY <1>2, <1>3, <1>7, Zenon DEF ExitPending, item
<1>9. Phase(agenda', st, e, l, end)
  BY <1>8 DEF Phase
<1>10. PhaseNow(end)'
  BY <1>2, <1>6, <1>9 DEF PhaseNow
<1>11. agenda' # <<>>
  BY <1>2
<1> QED
  BY <1>1, <1>2, <1>3, <1>10, <1>11 DEF Calm, Running

-----------------------------------------------------------------------------
(* The stack holds every handler *)

\* What NoOverflow needs to be inductive: the agenda of a handler always has
\* one of the seven shapes, of which none is longer than the stack.
PhaseInv ==
  /\ ~st.enforced_safemode /\ daemon # "overflow"
  /\ Running /\ agenda # <<>> => \E end : PhaseNow(end)

LEMMA StartCalm ==
  ASSUME Undisturbed, NEW s, Start(s)
  PROVE  ~s.enforced_safemode
<1>1. PICK wait \in LeopChecks, garbage \in EnforcedGarbage :
        s = InitialState(CheckedLeop(exec(wait)), garbage)
  BY DEF Start
<1>2. ~garbage
  BY DEF Undisturbed
<1> DEFINE leop == CheckedLeop(exec(wait))
<1> HIDE DEF leop
<1>3. s = InitialState(leop, garbage)
  BY <1>1 DEF leop
<1> QED
  BY <1>2, <1>3 DEF InitialState

LEMMA StepPhase ==
  ASSUME Undisturbed, IInv, ModeInv, PhaseInv, [Next]_vars
  PROVE  PhaseInv'
<1>1. CASE UNCHANGED vars
  BY <1>1 DEF vars, PhaseInv, PhaseNow, Promised, Running
<1>2. CASE Restart
  <2>1. ~st'.enforced_safemode
    BY <1>2, StartCalm DEF Restart
  <2>2. daemon' = "running" /\ agenda' = <<>>
    BY <1>2 DEF Restart
  <2> QED
    BY <2>1, <2>2 DEF PhaseInv
<1>3. CASE Crash
  BY <1>3 DEF Crash, PhaseInv, Running
<1>4. CASE Running /\ (Handler \/ Methods \/ Signals \/ ScriptEnds)
  <2>1. Calm
    BY <1>4 DEF Calm, PhaseInv
  <2>2. CASE Handler
    <3>1. PICK end : agenda # <<>> => PhaseNow(end)
      BY <2>1 DEF PhaseInv, Calm
    <3>2. PhaseNow(end)' /\ ~st'.enforced_safemode /\ Running'
      BY <2>1, <2>2, <3>1, HandlerPhase
    <3> QED
      BY <3>2 DEF PhaseInv, Running
  <2>3. CASE Methods \/ Signals
    <3>1. PICK ev \in Sent : Deliver(ev)
      BY <2>3, SentEvents
    <3>2. PICK end : end = Foreseen(ev)
      OBVIOUS
    <3>3. PhaseNow(end)' /\ ~st'.enforced_safemode /\ Running'
      BY <2>1, <3>1, <3>2, DeliverPhase
    <3> QED
      BY <3>3 DEF PhaseInv, Running
  <2>4. ASSUME NEW kind \in Kind, NEW success \in BOOLEAN, ScriptExits(kind, success)
        PROVE  PhaseInv'
    <3>1. PICK end : end = Ended(kind, success)
      OBVIOUS
    <3>2. PhaseNow(end)' /\ ~st'.enforced_safemode /\ Running'
      BY <2>1, <2>4, <3>1, ScriptExitsPhase
    <3> QED
      BY <3>2 DEF PhaseInv, Running
  <2>5. ASSUME NEW kind \in Kind, ScriptTerminated(kind)
        PROVE  PhaseInv'
    BY <2>5 DEF ScriptTerminated, PhaseInv, Idle, Running
  <2> QED
    BY <1>4, <2>2, <2>3, <2>4, <2>5 DEF ScriptEnds
<1>5. Handler \/ Methods \/ Signals \/ ScriptEnds => Running
  <2>1. Methods \/ Signals => Running
    BY SentEvents DEF Deliver, Idle
  <2>2. ScriptEnds => Running
    BY DEF ScriptEnds, ScriptExits, ScriptTerminated, Idle
  <2>3. Handler => Running
    BY DEF Handler, HandleEvent, PerformAction, SpawnProcess, SpawnFails, ExitCallback,
           RemoveAction, AssignToFreed, StackOverflow, Doing
  <2> QED
    BY <2>1, <2>2, <2>3
<1> QED
  BY <1>1, <1>2, <1>3, <1>4, <1>5 DEF Next

LEMMA PhaseInvariance == Undisturbed => (Spec => []PhaseInv)
<1> SUFFICES ASSUME Undisturbed PROVE Spec => []PhaseInv
  OBVIOUS
<1>1. Init => PhaseInv
  BY StartCalm DEF Init, SatelliteInit, PhaseInv
<1>2. IInv /\ ModeInv /\ PhaseInv /\ [Next]_vars => PhaseInv'
  BY StepPhase
<1> QED
  BY <1>1, <1>2, ModeInvariance, PTL DEF Spec

\* No event makes the daemon call itself until the stack is exhausted, if
\* enforced_safemode is false at start and every script can be started: six
\* calls are enough, whatever the order of events, alarms, failed and killed
\* scripts, crashes and restarts (enter_safemode.cpp:26, "to not reenter it
\* multiple times in a loop").
THEOREM NeverOverflows == Undisturbed => (Spec => []NoOverflow)
<1>1. PhaseInv => NoOverflow
  BY DEF PhaseInv, NoOverflow
<1> QED
  BY <1>1, PhaseInvariance, PTL

-----------------------------------------------------------------------------
(* What the beacon shows *)

\* What was observed shows these modes.
Reads(obs, view) ==
  /\ obs.beacon[1] = view.safemode
  /\ (obs.beacon[2] = 1) <=> view.manual
  /\ (obs.beacon[3] = 1) <=> view.maneuver
  /\ obs.beacon[4] + 256 * obs.beacon[5] = view.battery
  /\ <<"OK", "WARN", "ALARM">>[obs.beacon[6] + 1] = view.temp
  /\ obs.entering = view.entering /\ obs.leaving = view.leaving

Shows(view) == Reads(seen, view)

LEMMA TwoBytes == \A n \in Nat : (n % 256) + 256 * (n \div 256) = n
OBVIOUS

LEMMA Levels == Level \subseteq Nat
BY DEF Level

\* Ground reads in the beacon what getBeaconData has encoded.
LEMMA BeaconShows ==
  ASSUME NEW s \in State, NEW scripts, NEW obs, obs = Observation(s, scripts)
  PROVE  Reads(obs, View(s, scripts["EnterSafeMode"], scripts["LeaveManualMode"]))
<1> DEFINE a == Bit(s.manualmode)
           b == Bit(s.maneuvermode)
           c == s.battery_level % 256
           d == s.battery_level \div 256
           t == Ordinal[s.all_temp]
           v7 == Ordinal[s.pointing]
           v8 == Ordinal[s.requested]
           v9 == Ordinal[s.daemon]
           v10 == Ordinal[s.leop]
           e == scripts["EnterSafeMode"]
           l == scripts["LeaveManualMode"]
<1>1. a = 1 <=> s.manualmode
  BY DEF Bit, State
<1>2. b = 1 <=> s.maneuvermode
  BY DEF Bit, State
<1>3. c + 256 * d = s.battery_level
  <2> DEFINE n == s.battery_level
  <2>1. n \in Nat
    BY Levels DEF State
  <2> QED
    BY <2>1, TwoBytes, Zenon
<1>4. <<"OK", "WARN", "ALARM">>[t + 1] = s.all_temp
  <2>1. s.all_temp \in {"OK", "WARN", "ALARM"}
    BY DEF State, Temp
  <2>2. Ordinal["OK"] = 0 /\ Ordinal["WARN"] = 1 /\ Ordinal["ALARM"] = 2
    BY DEF Ordinal
  <2>3. CASE s.all_temp = "OK"
    <3>1. t + 1 = 1
      BY <2>2, <2>3
    <3> QED
      BY <2>3, <3>1
  <2>4. CASE s.all_temp = "WARN"
    <3>1. t + 1 = 2
      BY <2>2, <2>4
    <3> QED
      BY <2>4, <3>1
  <2>5. CASE s.all_temp = "ALARM"
    <3>1. t + 1 = 3
      BY <2>2, <2>5
    <3> QED
      BY <2>5, <3>1
  <2> QED
    BY <2>1, <2>3, <2>4, <2>5
<1>5. getBeaconData(s) = <<s.safemode, a, b, c, d, t, v7, v8, v9, v10>>
  BY DEF getBeaconData
<1>6. /\ obs.beacon = getBeaconData(s) /\ obs.entering = e /\ obs.leaving = l
  BY DEF Observation
<1> HIDE DEF a, b, c, d, t, v7, v8, v9, v10, e, l
<1>7. /\ obs.beacon[1] = s.safemode /\ obs.beacon[2] = a /\ obs.beacon[3] = b
      /\ obs.beacon[4] = c /\ obs.beacon[5] = d /\ obs.beacon[6] = t
  <2>1. obs.beacon = <<s.safemode, a, b, c, d, t, v7, v8, v9, v10>>
    BY <1>5, <1>6
  <2> QED
    BY <2>1
<1> DEFINE view == View(s, e, l)
<1>8. /\ view.safemode = s.safemode /\ view.manual = s.manualmode
      /\ view.maneuver = s.maneuvermode /\ view.battery = s.battery_level
      /\ view.temp = s.all_temp /\ view.entering = e /\ view.leaving = l
  BY DEF View
<1> HIDE DEF view
<1>9. Reads(obs, view)
  <2>1. obs.beacon[1] = view.safemode
    BY <1>7, <1>8
  <2>2. (obs.beacon[2] = 1) <=> view.manual
    BY <1>1, <1>7, <1>8
  <2>3. (obs.beacon[3] = 1) <=> view.maneuver
    BY <1>2, <1>7, <1>8
  <2>4. obs.beacon[4] + 256 * obs.beacon[5] = view.battery
    BY <1>3, <1>7, <1>8
  <2>5. <<"OK", "WARN", "ALARM">>[obs.beacon[6] + 1] = view.temp
    BY <1>4, <1>7, <1>8
  <2>6. obs.entering = view.entering /\ obs.leaving = view.leaving
    BY <1>6, <1>8
  <2> QED
    BY <2>1, <2>2, <2>3, <2>4, <2>5, <2>6 DEF Reads
<1> QED
  BY <1>9 DEF view, e, l

-----------------------------------------------------------------------------
(* What ground sees change *)

\* The reason the measurements give for safe mode, where the rules apply.
Called(s) == IF RulesApply(s) THEN Ground!Wanted(s.all_temp, s.battery_level) ELSE 0

LEMMA RuledFields ==
  ASSUME NEW s, NEW e, NEW l, NEW b, b = Ruled(s, e, l), NEW r, r = Called(s)
  PROVE  /\ b.manual = s.manualmode /\ b.temp = s.all_temp
         /\ b.battery = s.battery_level /\ b.leaving = l
         /\ r = 0 => b = View(s, e, l)
         /\ r # 0 => b.safemode = r /\ ~b.maneuver /\ b.entering = e + 1
<1>1. /\ Emergency(s) => r = Reason(s) /\ r # 0
      /\ ~Emergency(s) => r = 0
  BY DEF Called, Reason, Emergency, Overheated, BatteryLow, Ground!Wanted
<1>2. CASE Emergency(s)
  <2>1. b = Safe(View(s, e, l), r)
    BY <1>1, <1>2 DEF Ruled, Answered
  <2> QED
    BY <1>1, <1>2, <2>1 DEF Safe, View
<1>3. CASE ~Emergency(s)
  <2>1. b = View(s, e, l)
    BY <1>3 DEF Ruled, Answered
  <2> QED
    BY <1>1, <1>3, <2>1 DEF View
<1> QED
  BY <1>2, <1>3

LEMMA ViewFields ==
  ASSUME NEW s, NEW e, NEW l
  PROVE  LET a == View(s, e, l)
         IN /\ a.safemode = s.safemode /\ a.manual = s.manualmode
            /\ a.maneuver = s.maneuvermode /\ a.temp = s.all_temp
            /\ a.battery = s.battery_level /\ a.entering = e /\ a.leaving = l
BY DEF View

\* The steps of Modes on what the beacon shows before and after.
LEMMA ShowsSame ==
  ASSUME NEW a, Shows(a), Shows(a)'
  PROVE  UNCHANGED Ground!mode
BY DEF Shows, Reads, Ground!mode

LEMMA ShowsManeuver ==
  ASSUME NEW a, Shows(a), NEW b, Shows(b)', b.maneuver \in BOOLEAN,
         b.safemode = a.safemode, b.manual = a.manual, b.temp = a.temp,
         b.battery = a.battery, b.entering = a.entering, b.leaving = a.leaving
  PROVE  Ground!Maneuver
BY DEF Shows, Reads, Ground!Maneuver

LEMMA ShowsOrdered ==
  ASSUME NEW a, Shows(a), NEW b, Shows(b)',
         b.safemode = 3, ~b.maneuver, b.entering = a.entering + 1,
         b.manual = a.manual, b.temp = a.temp, b.battery = a.battery,
         b.leaving = a.leaving
  PROVE  Ground!SafemodeOrdered
BY DEF Shows, Reads, Ground!SafemodeOrdered, Ground!BecomesSafe

\* New measurements.
LEMMA ShowsMeasured ==
  ASSUME NEW s \in State, NEW u \in State, NEW e, NEW l,
         u.safemode = s.safemode, u.manualmode = s.manualmode,
         u.maneuvermode = s.maneuvermode,
         Shows(View(s, e, l)), Shows(Ruled(u, e, l))'
  PROVE  Ground!Measured
<1> DEFINE a == View(s, e, l)
           b == Ruled(u, e, l)
           r == Called(u)
           w == Ground!Wanted(u.all_temp, u.battery_level)
<1>1. /\ a.safemode = s.safemode /\ a.manual = s.manualmode
      /\ a.maneuver = s.maneuvermode /\ a.entering = e /\ a.leaving = l
  BY ViewFields
<1>2. /\ b.manual = u.manualmode /\ b.temp = u.all_temp
      /\ b.battery = u.battery_level /\ b.leaving = l
      /\ r = 0 => b = View(u, e, l)
      /\ r # 0 => b.safemode = r /\ ~b.maneuver /\ b.entering = e + 1
  BY RuledFields
<1>3. r = 0 => b.safemode = s.safemode /\ b.maneuver = s.maneuvermode /\ b.entering = e
  BY <1>2, ViewFields
<1>4. u.all_temp \in {"OK", "WARN", "ALARM"} /\ u.battery_level \in 0 .. Ground!MaxLevel
  <2>1. Ground!MaxLevel = MaxLevel
    BY DEF MaxLevel, Ground!MaxLevel
  <2> QED
    BY <2>1 DEF State, Temp, Level
<1>5. r = IF s.safemode = 0 /\ ~s.manualmode THEN w ELSE 0
  BY DEF Called, RulesApply
<1> DEFINE temp == <<"OK", "WARN", "ALARM">>[seen.beacon[6] + 1]
           battery == seen.beacon[4] + 256 * seen.beacon[5]
<1>6. Shows(a) /\ Shows(b)'
  OBVIOUS
<1> HIDE DEF a, b, r
<1>7. temp' = u.all_temp /\ battery' = u.battery_level
  BY <1>2, <1>6 DEF Shows, Reads
<1>8. Ground!Wanted(temp', battery') = w
  BY <1>7
<1> HIDE DEF w
<1>9. /\ temp' \in {"OK", "WARN", "ALARM"} /\ battery' \in 0 .. Ground!MaxLevel
  BY <1>4, <1>7
<1>10. /\ (seen.beacon[2] = 1) <=> s.manualmode
       /\ (seen.beacon[3] = 1) <=> s.maneuvermode
       /\ seen.beacon[1] = s.safemode /\ seen.entering = e /\ seen.leaving = l
  BY <1>1, <1>6 DEF Shows, Reads
<1>11. /\ (seen.beacon[2] = 1)' <=> s.manualmode
       /\ seen'.leaving = l
       /\ r = 0 => /\ seen'.beacon[1] = s.safemode /\ seen'.entering = e
                   /\ (seen.beacon[3] = 1)' <=> s.maneuvermode
       /\ r # 0 => /\ seen'.beacon[1] = r /\ seen'.entering = e + 1
                   /\ ~(seen.beacon[3] = 1)'
  BY <1>2, <1>3, <1>6 DEF Shows, Reads
<1> QED
  BY <1>5, <1>8, <1>9, <1>10, <1>11 DEF Ground!Measured, Ground!BecomesSafe, temp, battery

\* What is seen next, after the rules have been applied.
LEMMA RuledShown ==
  ASSUME NEW u, NEW e, NEW l, Shows(Ruled(u, e, l))', NEW r, r = Called(u)
  PROVE  /\ (seen.beacon[2] = 1)' <=> u.manualmode
         /\ <<"OK", "WARN", "ALARM">>[seen'.beacon[6] + 1] = u.all_temp
         /\ seen'.beacon[4] + 256 * seen'.beacon[5] = u.battery_level
         /\ seen'.leaving = l
         /\ r = 0 => /\ seen'.beacon[1] = u.safemode /\ seen'.entering = e
                     /\ (seen.beacon[3] = 1)' <=> u.maneuvermode
         /\ r # 0 => /\ seen'.beacon[1] = r /\ seen'.entering = e + 1
                     /\ ~(seen.beacon[3] = 1)'
<1> DEFINE b == Ruled(u, e, l)
<1>1. /\ b.manual = u.manualmode /\ b.temp = u.all_temp
      /\ b.battery = u.battery_level /\ b.leaving = l
      /\ r = 0 => b = View(u, e, l)
      /\ r # 0 => b.safemode = r /\ ~b.maneuver /\ b.entering = e + 1
  BY RuledFields
<1>2. r = 0 => b.safemode = u.safemode /\ b.maneuver = u.maneuvermode /\ b.entering = e
  BY <1>1, ViewFields
<1>3. Shows(b)'
  OBVIOUS
<1> HIDE DEF b
<1> QED
  BY <1>1, <1>2, <1>3 DEF Shows, Reads

LEMMA ViewShown ==
  ASSUME NEW s, NEW e, NEW l, Shows(View(s, e, l))
  PROVE  /\ (seen.beacon[2] = 1) <=> s.manualmode
         /\ (seen.beacon[3] = 1) <=> s.maneuvermode
         /\ <<"OK", "WARN", "ALARM">>[seen.beacon[6] + 1] = s.all_temp
         /\ seen.beacon[4] + 256 * seen.beacon[5] = s.battery_level
         /\ seen.beacon[1] = s.safemode
         /\ seen.entering = e /\ seen.leaving = l
<1> DEFINE a == View(s, e, l)
<1>1. /\ a.safemode = s.safemode /\ a.manual = s.manualmode
      /\ a.maneuver = s.maneuvermode /\ a.temp = s.all_temp
      /\ a.battery = s.battery_level /\ a.entering = e /\ a.leaving = l
  BY ViewFields
<1>2. Shows(a)
  OBVIOUS
<1> HIDE DEF a
<1> QED
  BY <1>1, <1>2 DEF Shows, Reads

LEMMA ViewShownNext ==
  ASSUME NEW s, NEW e, NEW l, Shows(View(s, e, l))'
  PROVE  /\ (seen.beacon[2] = 1)' <=> s.manualmode
         /\ (seen.beacon[3] = 1)' <=> s.maneuvermode
         /\ <<"OK", "WARN", "ALARM">>[seen'.beacon[6] + 1] = s.all_temp
         /\ seen'.beacon[4] + 256 * seen'.beacon[5] = s.battery_level
         /\ seen'.beacon[1] = s.safemode
         /\ seen'.entering = e /\ seen'.leaving = l
<1> DEFINE a == View(s, e, l)
<1>1. /\ a.safemode = s.safemode /\ a.manual = s.manualmode
      /\ a.maneuver = s.maneuvermode /\ a.temp = s.all_temp
      /\ a.battery = s.battery_level /\ a.entering = e /\ a.leaving = l
  BY ViewFields
<1>2. Shows(a)'
  OBVIOUS
<1> HIDE DEF a
<1> QED
  BY <1>1, <1>2 DEF Shows, Reads

\* Safe mode is dropped: by ground, or because its script failed.
LEMMA ShowsDropped ==
  ASSUME NEW s \in State, NEW u \in State, NEW before, NEW e \in Int, NEW l,
         u.safemode = 0, u.manualmode = s.manualmode,
         u.maneuvermode = s.maneuvermode, u.all_temp = s.all_temp,
         u.battery_level = s.battery_level,
         Shows(View(s, before, l)), Shows(Ruled(u, e, l))'
  PROVE  /\ s.safemode # 0 /\ before = e => Ground!SafemodeCancelled
         /\ before > 0 /\ e = before - 1 => Ground!EnterScriptEnds
<1> DEFINE r == Called(u)
           manual == seen.beacon[2] = 1
           temp == <<"OK", "WARN", "ALARM">>[seen.beacon[6] + 1]
           battery == seen.beacon[4] + 256 * seen.beacon[5]
<1>1. /\ manual <=> s.manualmode
      /\ (seen.beacon[3] = 1) <=> s.maneuvermode
      /\ temp = s.all_temp /\ battery = s.battery_level
      /\ seen.beacon[1] = s.safemode /\ seen.entering = before /\ seen.leaving = l
  BY ViewShown
<1>2. /\ manual' <=> u.manualmode
      /\ temp' = u.all_temp /\ battery' = u.battery_level /\ seen'.leaving = l
      /\ r = 0 => /\ seen'.beacon[1] = u.safemode /\ seen'.entering = e
                  /\ (seen.beacon[3] = 1)' <=> u.maneuvermode
      /\ r # 0 => /\ seen'.beacon[1] = r /\ seen'.entering = e + 1
                  /\ ~(seen.beacon[3] = 1)'
  BY RuledShown
<1>3. r = IF s.manualmode THEN 0 ELSE Ground!Wanted(s.all_temp, s.battery_level)
  BY DEF Called, RulesApply
<1>4. Ground!Due(manual) = r
  BY <1>1, <1>3 DEF Ground!Due
<1> HIDE DEF r
<1>5. manual' = manual /\ temp' = temp /\ battery' = battery /\ seen'.leaving = seen.leaving
  BY <1>1, <1>2
<1>6. /\ seen'.beacon[1] = r
      /\ (seen.beacon[3] = 1)' <=> ((seen.beacon[3] = 1) /\ r = 0)
      /\ seen'.entering = IF r = 0 THEN e ELSE e + 1
  BY <1>1, <1>2
<1>7. Ground!Drop(e)
  BY <1>4, <1>6 DEF Ground!Drop, Ground!BecomesSafe
<1>8. s.safemode # 0 /\ before = e => Ground!SafemodeCancelled
  BY <1>1, <1>5, <1>7 DEF Ground!SafemodeCancelled
<1>9. before > 0 /\ e = before - 1 => Ground!EnterScriptEnds
  BY <1>1, <1>5, <1>7 DEF Ground!EnterScriptEnds
<1> QED
  BY <1>8, <1>9

LEMMA ShowsManualmode ==
  ASSUME NEW s \in State, NEW u \in State, NEW e \in Int, NEW l \in Int, NEW after,
         u.safemode = s.safemode, u.manualmode # s.manualmode,
         u.maneuvermode = s.maneuvermode, u.all_temp = s.all_temp,
         u.battery_level = s.battery_level,
         after = IF u.manualmode THEN l ELSE l + 1,
         Shows(View(s, e, l)), Shows(Ruled(u, e, after))'
  PROVE  Ground!ManualmodeEntered \/ Ground!ManualmodeLeft
<1> DEFINE r == Called(u)
           w == Ground!Wanted(s.all_temp, s.battery_level)
           manual == seen.beacon[2] = 1
           maneuver == seen.beacon[3] = 1
           temp == <<"OK", "WARN", "ALARM">>[seen.beacon[6] + 1]
           battery == seen.beacon[4] + 256 * seen.beacon[5]
<1>1. /\ manual <=> s.manualmode
      /\ maneuver <=> s.maneuvermode
      /\ temp = s.all_temp /\ battery = s.battery_level
      /\ seen.beacon[1] = s.safemode /\ seen.entering = e /\ seen.leaving = l
  BY ViewShown
<1>2. /\ manual' <=> u.manualmode
      /\ temp' = u.all_temp /\ battery' = u.battery_level /\ seen'.leaving = after
      /\ r = 0 => /\ seen'.beacon[1] = u.safemode /\ seen'.entering = e
                  /\ maneuver' <=> u.maneuvermode
      /\ r # 0 => /\ seen'.beacon[1] = r /\ seen'.entering = e + 1 /\ ~maneuver'
  BY RuledShown
<1>3. r = IF s.safemode = 0 /\ ~u.manualmode THEN w ELSE 0
  BY DEF Called, RulesApply
<1>4. Ground!Due(FALSE) = w
  BY <1>1 DEF Ground!Due
<1>5. s.manualmode \in BOOLEAN /\ u.manualmode \in BOOLEAN
  BY DEF State
<1> HIDE DEF r, w
<1>6. temp' = temp /\ battery' = battery
  BY <1>1, <1>2
<1>7. CASE u.manualmode
  <2>1. ~manual /\ manual'
    BY <1>1, <1>2, <1>5, <1>7
  <2>2. r = 0 /\ after = l
    BY <1>3, <1>7
  <2>3. /\ seen'.beacon[1] = seen.beacon[1] /\ maneuver' = maneuver
        /\ seen'.entering = seen.entering /\ seen'.leaving = seen.leaving
    BY <1>1, <1>2, <2>2
  <2> QED
    BY <1>6, <2>1, <2>3 DEF Ground!ManualmodeEntered
<1>8. CASE ~u.manualmode
  <2>1. manual /\ ~manual'
    BY <1>1, <1>2, <1>5, <1>8
  <2>2. seen'.leaving = seen.leaving + 1
    BY <1>1, <1>2, <1>8
  <2>3. CASE r = 0
    <3>1. ~(s.safemode = 0 /\ w # 0)
      BY <1>3, <1>8, <2>3
    <3>2. /\ seen'.beacon[1] = seen.beacon[1] /\ maneuver' = maneuver
          /\ seen'.entering = seen.entering
      BY <1>1, <1>2, <2>3
    <3> QED
      BY <1>1, <1>4, <1>6, <2>1, <2>2, <3>1, <3>2 DEF Ground!ManualmodeLeft
  <2>4. CASE r # 0
    <3>1. s.safemode = 0 /\ w # 0 /\ r = w
      BY <1>3, <1>8, <2>4
    <3>2. /\ seen'.beacon[1] = w /\ ~maneuver' /\ seen'.entering = seen.entering + 1
      BY <1>1, <1>2, <2>4, <3>1
    <3> QED
      BY <1>1, <1>4, <1>6, <2>1, <2>2, <3>1, <3>2
         DEF Ground!ManualmodeLeft, Ground!BecomesSafe
  <2> QED
    BY <2>3, <2>4
<1> QED
  BY <1>7, <1>8

LEMMA RequestedFields ==
  ASSUME NEW s, NEW e \in Int, NEW l, NEW b, b = Requested(s, e, l),
         NEW r, r = Called(s)
  PROVE  /\ b.manual = s.manualmode /\ b.temp = s.all_temp
         /\ b.battery = s.battery_level /\ b.leaving = l /\ ~b.maneuver
         /\ r = 0 => b.safemode = 3 /\ b.entering = e + 1
         /\ r # 0 => b.safemode = r /\ b.entering = e + 2
<1> DEFINE first == Safe(View(s, e, l), 3)
<1>1. /\ Emergency(s) => r = Reason(s) /\ r # 0
      /\ ~Emergency(s) => r = 0
  BY DEF Called, Reason, Emergency, Overheated, BatteryLow, Ground!Wanted
<1>2. /\ first.manual = s.manualmode /\ first.temp = s.all_temp
      /\ first.battery = s.battery_level /\ first.leaving = l /\ ~first.maneuver
      /\ first.safemode = 3 /\ first.entering = e + 1
  BY DEF Safe, View
<1> HIDE DEF first
<1>3. b = Answered(s, first)
  BY DEF Requested, first
<1>4. CASE Emergency(s)
  <2>1. b = Safe(first, r)
    BY <1>1, <1>3, <1>4 DEF Answered
  <2>2. /\ b.manual = first.manual /\ b.temp = first.temp /\ b.battery = first.battery
        /\ b.leaving = first.leaving /\ ~b.maneuver
        /\ b.safemode = r /\ b.entering = first.entering + 1
    BY <2>1 DEF Safe
  <2> QED
    BY <1>1, <1>2, <1>4, <2>2
<1>5. CASE ~Emergency(s)
  <2>1. b = first
    BY <1>3, <1>5 DEF Answered
  <2> QED
    BY <1>1, <1>2, <1>5, <2>1
<1> QED
  BY <1>4, <1>5

\* leave_manualmode.sh has ended, in safe mode.
LEMMA ShowsReentered ==
  ASSUME NEW s \in State, NEW e \in Int, NEW l \in Int, l > 0, s.safemode # 0,
         NEW u \in State, u.safemode = 0, u.manualmode = s.manualmode,
         u.all_temp = s.all_temp, u.battery_level = s.battery_level,
         NEW after, after = l - 1,
         Shows(View(s, e, l)), Shows(Requested(u, e, after))'
  PROVE  Ground!LeaveScriptEnds
<1> DEFINE r == Called(u)
           b == Requested(u, e, after)
           manual == seen.beacon[2] = 1
           maneuver == seen.beacon[3] = 1
           temp == <<"OK", "WARN", "ALARM">>[seen.beacon[6] + 1]
           battery == seen.beacon[4] + 256 * seen.beacon[5]
<1>1. /\ manual <=> s.manualmode
      /\ maneuver <=> s.maneuvermode
      /\ temp = s.all_temp /\ battery = s.battery_level
      /\ seen.beacon[1] = s.safemode /\ seen.entering = e /\ seen.leaving = l
  BY ViewShown
<1>2. /\ b.manual = u.manualmode /\ b.temp = u.all_temp
      /\ b.battery = u.battery_level /\ b.leaving = after /\ ~b.maneuver
      /\ r = 0 => b.safemode = 3 /\ b.entering = e + 1
      /\ r # 0 => b.safemode = r /\ b.entering = e + 2
  <2>1. b = Requested(u, e, after) /\ r = Called(u)
    OBVIOUS
  <2> HIDE DEF b, r
  <2> QED
    BY <2>1, RequestedFields
<1>3. Shows(b)'
  OBVIOUS
<1> HIDE DEF b
<1>5. r = IF s.manualmode THEN 0 ELSE Ground!Wanted(s.all_temp, s.battery_level)
  BY DEF Called, RulesApply
<1>6. Ground!Due(manual) = r
  BY <1>1, <1>5 DEF Ground!Due
<1> HIDE DEF r
<1>7. /\ manual' <=> b.manual
      /\ temp' = b.temp /\ battery' = b.battery
      /\ seen'.leaving = b.leaving /\ ~maneuver'
      /\ seen'.beacon[1] = b.safemode /\ seen'.entering = b.entering
  BY <1>2, <1>3 DEF Shows, Reads
<1>8. manual' = manual /\ temp' = temp /\ battery' = battery
  BY <1>1, <1>2, <1>7
<1>9. seen.leaving > 0 /\ seen'.leaving = seen.leaving - 1
  BY <1>1, <1>2, <1>7
<1>10. CASE r = 0
  <2>1. Ground!BecomesSafe(3, seen.entering + 1)
    BY <1>1, <1>2, <1>7, <1>10 DEF Ground!BecomesSafe
  <2> QED
    BY <1>1, <1>6, <1>8, <1>9, <1>10, <2>1 DEF Ground!LeaveScriptEnds
<1>11. CASE r # 0
  <2>1. Ground!BecomesSafe(Ground!Due(manual), seen.entering + 2)
    BY <1>1, <1>2, <1>6, <1>7, <1>11 DEF Ground!BecomesSafe
  <2> QED
    BY <1>1, <1>6, <1>8, <1>9, <1>11, <2>1 DEF Ground!LeaveScriptEnds
<1> QED
  BY <1>10, <1>11

\* A script has ended, and nothing but that.
LEMMA ShowsEnded ==
  ASSUME NEW s \in State, NEW e \in Int, NEW l \in Int, NEW e2 \in Int, NEW l2 \in Int,
         Shows(View(s, e, l)), Shows(View(s, e2, l2))'
  PROVE  /\ e2 = e /\ l2 = l => UNCHANGED Ground!mode
         /\ e > 0 /\ e2 = e - 1 /\ l2 = l =>
              Ground!EnterScriptEnds /\ (MayTerminate => Ground!ScriptKilled)
         /\ l > 0 /\ e2 = e /\ l2 = l - 1 =>
              /\ s.safemode = 0 => Ground!LeaveScriptEnds
              /\ MayTerminate => Ground!ScriptKilled
<1> DEFINE manual == seen.beacon[2] = 1
           maneuver == seen.beacon[3] = 1
           temp == <<"OK", "WARN", "ALARM">>[seen.beacon[6] + 1]
           battery == seen.beacon[4] + 256 * seen.beacon[5]
<1>1. /\ manual <=> s.manualmode
      /\ maneuver <=> s.maneuvermode
      /\ temp = s.all_temp /\ battery = s.battery_level
      /\ seen.beacon[1] = s.safemode /\ seen.entering = e /\ seen.leaving = l
  BY ViewShown
<1>2. /\ manual' <=> s.manualmode
      /\ maneuver' <=> s.maneuvermode
      /\ temp' = s.all_temp /\ battery' = s.battery_level
      /\ seen'.beacon[1] = s.safemode /\ seen'.entering = e2 /\ seen'.leaving = l2
  BY ViewShownNext
<1>5. /\ manual' = manual /\ maneuver' = maneuver /\ temp' = temp /\ battery' = battery
      /\ seen'.beacon[1] = seen.beacon[1]
      /\ seen'.entering = e2 /\ seen'.leaving = l2
  BY <1>1, <1>2
<1>6. e2 = e /\ l2 = l => UNCHANGED Ground!mode
  BY <1>1, <1>5 DEF Ground!mode
<1>7. e > 0 /\ e2 = e - 1 /\ l2 = l =>
        Ground!EnterScriptEnds /\ (MayTerminate => Ground!ScriptKilled)
  BY <1>1, <1>5 DEF Ground!EnterScriptEnds, Ground!ScriptKilled
<1>8. l > 0 /\ e2 = e /\ l2 = l - 1 =>
        /\ s.safemode = 0 => Ground!LeaveScriptEnds
        /\ MayTerminate => Ground!ScriptKilled
  BY <1>1, <1>5 DEF Ground!LeaveScriptEnds, Ground!ScriptKilled
<1> QED
  BY <1>6, <1>7, <1>8

-----------------------------------------------------------------------------
(* Every change that ground sees is one of Modes *)

\* Manual mode, or safe mode that ends.
LEMMA ModeFields ==
  ASSUME NEW s \in State, NEW on \in BOOLEAN
  PROVE  /\ LET u == Update(s, ManualModeSignal(on))
            IN /\ u \in State /\ u.manualmode = on /\ u.safemode = s.safemode
               /\ u.maneuvermode = s.maneuvermode /\ u.all_temp = s.all_temp
               /\ u.battery_level = s.battery_level
         /\ LET u == Update(s, SafeModeSignal(0))
            IN u = [s EXCEPT !.safemode = 0]
<1>1. ManualModeSignal(on) \in Event /\ ManualModeSignal(on)[1] = "ManualModeSignal"
      /\ ManualModeSignal(on)[2] = on
  BY DEF ManualModeSignal, Event
<1> DEFINE ev == ManualModeSignal(on)
           u == Update(s, ev)
<1>2. ev \in Event /\ ev[1] = "ManualModeSignal" /\ ev[2] = on
  BY <1>1
<1> HIDE DEF ev
<1>3. u \in State
  BY <1>2, UpdateType
<1>4. /\ u.manualmode = on /\ u.safemode = s.safemode
      /\ u.maneuvermode = s.maneuvermode /\ u.all_temp = s.all_temp
      /\ u.battery_level = s.battery_level
  BY <1>2, UpdateFields
<1>5. Update(s, SafeModeSignal(0)) = [s EXCEPT !.safemode = 0]
  BY DEF Update, SafeModeSignal, SetSafemode
<1> QED
  BY <1>3, <1>4, <1>5 DEF ev

LEMMA DroppedFields ==
  ASSUME NEW s \in State, NEW u, u = [s EXCEPT !.safemode = 0]
  PROVE  /\ u \in State /\ u.safemode = 0 /\ u.manualmode = s.manualmode
         /\ u.maneuvermode = s.maneuvermode /\ u.all_temp = s.all_temp
         /\ u.battery_level = s.battery_level
BY DEF State, Safemode

LEMMA FactAllowed ==
  ASSUME NEW s \in State, ~Emergency(s), NEW e \in Nat, NEW l \in Nat,
         Shows(View(s, e, l)), NEW ev \in Sent, IsFact(ev),
         NEW u, u = Update(s, ev), Shows(Ruled(u, e, l))'
  PROVE  Ground!Measured \/ Ground!Maneuver
<1>1. /\ ev \in Event
      /\ ev[1] \notin {"SafeModeSignal", "ManualModeSignal"}
      /\ ev[1] \notin Requests
  BY DEF Sent, IsFact
<1>2. u \in State
  BY <1>1, UpdateType
<1>3. u.safemode = s.safemode /\ u.manualmode = s.manualmode
  BY <1>1, UpdateFields DEF Requests
<1>4. CASE ev[1] # "ManeuverModeSignal"
  <2>1. u.maneuvermode = s.maneuvermode
    BY <1>1, <1>4, UpdateFields
  <2> QED
    BY <1>2, <1>3, <2>1, ShowsMeasured
<1>5. CASE ev[1] = "ManeuverModeSignal"
  <2>1. u.all_temp = s.all_temp /\ u.battery_level = s.battery_level
    BY <1>1, <1>5, UpdateFields
  <2>2. ~Emergency(u)
    BY <1>3, <2>1 DEF Emergency, RulesApply, Overheated, BatteryLow
  <2> DEFINE a == View(s, e, l)
             b == View(u, e, l)
  <2>3. Ruled(u, e, l) = b
    BY <2>2 DEF Ruled, Answered
  <2>4. Shows(a) /\ Shows(b)'
    BY <2>3
  <2>5. /\ b.safemode = a.safemode /\ b.manual = a.manual /\ b.temp = a.temp
        /\ b.battery = a.battery /\ b.entering = a.entering /\ b.leaving = a.leaving
    BY <1>3, <2>1 DEF View
  <2>6. b.maneuver \in BOOLEAN
    BY <1>2 DEF View, State
  <2> HIDE DEF a, b
  <2> QED
    BY <2>4, <2>5, <2>6, ShowsManeuver
<1> QED
  BY <1>4, <1>5

LEMMA RequestAllowed ==
  ASSUME NEW s \in State, ~Emergency(s), NEW e \in Nat, NEW l \in Nat,
         Shows(View(s, e, l)), NEW ev \in Sent, ~IsFact(ev),
         NEW end, end = RequestEffect(s, e, l, ev), Shows(end)'
  PROVE  [Ground!ModesNext]_(Ground!mode)
<1>1. ev \in Event /\ e \in Int /\ l \in Int
  BY DEF Sent
<1>2. ev[1] \in {"SafeModeReq", "ManualModeReq"} => ev[2] \in BOOLEAN
  BY <1>1 DEF Event, ShellCommandReq
<1>3. CASE ev[1] = "SafeModeReq" /\ ev[2]
  <2> DEFINE a == View(s, e, l)
             r == Called(s)
  <2>1. end = Requested(s, e, l)
    BY <1>3 DEF RequestEffect
  <2>2. r = 0
    BY DEF Called, Emergency, Overheated, BatteryLow, Ground!Wanted
  <2>3. /\ end.manual = s.manualmode /\ end.temp = s.all_temp
        /\ end.battery = s.battery_level /\ end.leaving = l /\ ~end.maneuver
        /\ r = 0 => end.safemode = 3 /\ end.entering = e + 1
    BY <1>1, <2>1, RequestedFields
  <2>4. /\ a.manual = s.manualmode /\ a.temp = s.all_temp
        /\ a.battery = s.battery_level /\ a.leaving = l /\ a.entering = e
    BY ViewFields
  <2>5. Shows(a)
    OBVIOUS
  <2> HIDE DEF a, r
  <2>6. Ground!SafemodeOrdered
    BY <2>2, <2>3, <2>4, <2>5, ShowsOrdered
  <2> QED
    BY <2>6 DEF Ground!ModesNext
<1>4. CASE ev[1] = "SafeModeReq" /\ ~ev[2] /\ s.safemode # 0
  <2> DEFINE u == Update(s, SafeModeSignal(0))
  <2>1. end = Ruled(u, e, l)
    BY <1>4 DEF RequestEffect
  <2>2. u = [s EXCEPT !.safemode = 0]
    BY ModeFields
  <2> HIDE DEF u
  <2>3. /\ u \in State /\ u.safemode = 0 /\ u.manualmode = s.manualmode
        /\ u.maneuvermode = s.maneuvermode /\ u.all_temp = s.all_temp
        /\ u.battery_level = s.battery_level
    BY <2>2, DroppedFields
  <2>4. Shows(Ruled(u, e, l))'
    BY <2>1
  <2>5. Ground!SafemodeCancelled
    BY <1>1, <1>4, <2>3, <2>4, ShowsDropped
  <2> QED
    BY <2>5 DEF Ground!ModesNext
<1>5. CASE ev[1] = "ManualModeReq" /\ ev[2] # s.manualmode
  <2> DEFINE on == ev[2]
             u == Update(s, ManualModeSignal(on))
             after == IF on THEN l ELSE l + 1
  <2>1. end = Ruled(u, e, after)
    BY <1>5 DEF RequestEffect
  <2>2. on \in BOOLEAN
    BY <1>2, <1>5
  <2> HIDE DEF on
  <2>3. /\ u \in State /\ u.manualmode = on /\ u.safemode = s.safemode
        /\ u.maneuvermode = s.maneuvermode /\ u.all_temp = s.all_temp
        /\ u.battery_level = s.battery_level
    BY <2>2, ModeFields
  <2>4. on # s.manualmode
    BY <1>5 DEF on
  <2> HIDE DEF u
  <2>5. after = IF u.manualmode THEN l ELSE l + 1
    BY <2>3
  <2> HIDE DEF after
  <2>6. Shows(Ruled(u, e, after))'
    BY <2>1
  <2>7. u.manualmode # s.manualmode
    BY <2>3, <2>4
  <2>8. Ground!ManualmodeEntered \/ Ground!ManualmodeLeft
    BY <1>1, <2>3, <2>5, <2>6, <2>7, ShowsManualmode
  <2> QED
    BY <2>8 DEF Ground!ModesNext
<1>6. CASE /\ ~(ev[1] = "SafeModeReq" /\ ev[2])
           /\ ~(ev[1] = "SafeModeReq" /\ ~ev[2] /\ s.safemode # 0)
           /\ ~(ev[1] = "ManualModeReq" /\ ev[2] # s.manualmode)
  <2>1. end = View(s, e, l)
    BY <1>6 DEF RequestEffect
  <2> DEFINE a == View(s, e, l)
  <2>2. Shows(a) /\ Shows(a)'
    BY <2>1
  <2> HIDE DEF a
  <2>3. UNCHANGED Ground!mode
    BY <2>2, ShowsSame
  <2> QED
    BY <2>3
<1> QED
  BY <1>3, <1>4, <1>5, <1>6

LEMMA ScriptAllowed ==
  ASSUME NEW s \in State, NEW e \in Nat, NEW l \in Nat, Shows(View(s, e, l)),
         NEW kind \in Kind, NEW success \in BOOLEAN,
         NEW e2 \in Nat, e2 = e - Adds(Plain(kind), "EnterSafeMode"),
         NEW l2 \in Nat, l2 = l - Adds(Plain(kind), "LeaveManualMode"),
         NEW end, end = ScriptEffect(s, e2, l2, kind, success), Shows(end)'
  PROVE  [Ground!ModesNext]_(Ground!mode)
<1>1. /\ kind = "EnterSafeMode" => e2 = e - 1 /\ l2 = l /\ e > 0
      /\ kind = "LeaveManualMode" => e2 = e /\ l2 = l - 1 /\ l > 0
      /\ kind \notin {"EnterSafeMode", "LeaveManualMode"} => e2 = e /\ l2 = l
  BY DEF Adds, Plain
<1>2. e \in Int /\ l \in Int /\ e2 \in Int /\ l2 \in Int
  OBVIOUS
<1>3. CASE kind = "EnterSafeMode" /\ ~success
  <2> DEFINE u == [s EXCEPT !.safemode = 0]
  <2>1. end = Ruled(u, e2, l)
    BY <1>1, <1>3 DEF ScriptEffect
  <2>2. /\ u \in State /\ u.safemode = 0 /\ u.manualmode = s.manualmode
        /\ u.maneuvermode = s.maneuvermode /\ u.all_temp = s.all_temp
        /\ u.battery_level = s.battery_level
    BY DroppedFields
  <2> HIDE DEF u
  <2>3. Shows(Ruled(u, e2, l))'
    BY <2>1
  <2>4. Ground!EnterScriptEnds
    BY <1>1, <1>2, <1>3, <2>2, <2>3, ShowsDropped
  <2> QED
    BY <2>4 DEF Ground!ModesNext
<1>4. CASE kind = "LeaveManualMode" /\ s.safemode # 0
  <2> DEFINE u == [s EXCEPT !.safemode = 0]
  <2>1. end = Requested(u, e, l2)
    BY <1>1, <1>4 DEF ScriptEffect
  <2>2. /\ u \in State /\ u.safemode = 0 /\ u.manualmode = s.manualmode
        /\ u.all_temp = s.all_temp /\ u.battery_level = s.battery_level
    BY DroppedFields
  <2> HIDE DEF u
  <2>3. Shows(Requested(u, e, l2))'
    BY <2>1
  <2>4. l > 0 /\ l2 = l - 1 /\ s.safemode # 0
    BY <1>1, <1>4
  <2>5. Ground!LeaveScriptEnds
    BY <1>2, <2>2, <2>3, <2>4, ShowsReentered
  <2> QED
    BY <2>5 DEF Ground!ModesNext
<1>5. CASE /\ ~(kind = "EnterSafeMode" /\ ~success)
           /\ ~(kind = "LeaveManualMode" /\ s.safemode # 0)
  <2>1. end = View(s, e2, l2)
    BY <1>5 DEF ScriptEffect
  <2>2. Shows(View(s, e2, l2))'
    BY <2>1
  <2>3. /\ e2 = e /\ l2 = l => UNCHANGED Ground!mode
        /\ e > 0 /\ e2 = e - 1 /\ l2 = l => Ground!EnterScriptEnds
        /\ l > 0 /\ e2 = e /\ l2 = l - 1 /\ s.safemode = 0 => Ground!LeaveScriptEnds
    BY <1>2, <2>2, ShowsEnded
  <2>4. CASE kind = "EnterSafeMode"
    BY <1>1, <2>3, <2>4 DEF Ground!ModesNext
  <2>5. CASE kind = "LeaveManualMode"
    BY <1>1, <1>5, <2>3, <2>5 DEF Ground!ModesNext
  <2>6. CASE kind \notin {"EnterSafeMode", "LeaveManualMode"}
    BY <1>1, <2>3, <2>6
  <2> QED
    BY <2>4, <2>5, <2>6
<1> QED
  BY <1>3, <1>4, <1>5

\* The event or the script that brought what the handler is busy with.
CausedByEvent(s, e, l, end) ==
  \E ev \in Sent : end = EventEffect(s, e, l, ev)

CausedByScript(s, e, l, end) ==
  \E kind \in Kind, success \in BOOLEAN, e2 \in Nat, l2 \in Nat :
    /\ e2 = e - Adds(Plain(kind), "EnterSafeMode")
    /\ l2 = l - Adds(Plain(kind), "LeaveManualMode")
    /\ end = ScriptEffect(s, e2, l2, kind, success)

Caused(end) ==
  \E s \in State, e \in Nat, l \in Nat :
    /\ ~Emergency(s) /\ Shows(View(s, e, l))
    /\ CausedByEvent(s, e, l, end) \/ CausedByScript(s, e, l, end)

LEMMA CausedAllowed ==
  ASSUME NEW end, Caused(end), Shows(end)'
  PROVE  [Ground!ModesNext]_(Ground!mode)
<1>1. PICK s \in State, e \in Nat, l \in Nat :
        /\ ~Emergency(s) /\ Shows(View(s, e, l))
        /\ CausedByEvent(s, e, l, end) \/ CausedByScript(s, e, l, end)
  BY DEF Caused
<1>2. CASE CausedByEvent(s, e, l, end)
  <2>1. PICK ev \in Sent : end = EventEffect(s, e, l, ev)
    BY <1>2 DEF CausedByEvent
  <2>2. CASE IsFact(ev)
    <3> DEFINE u == Update(s, ev)
    <3>1. end = Ruled(u, e, l)
      BY <2>1, <2>2 DEF EventEffect
    <3> HIDE DEF u
    <3>2. Shows(Ruled(u, e, l))'
      BY <3>1
    <3>3. Ground!Measured \/ Ground!Maneuver
      BY <1>1, <2>2, <3>2, FactAllowed DEF u
    <3> QED
      BY <3>3 DEF Ground!ModesNext
  <2>3. CASE ~IsFact(ev)
    <3>1. end = RequestEffect(s, e, l, ev)
      BY <2>1, <2>3 DEF EventEffect
    <3> QED
      BY <1>1, <2>3, <3>1, RequestAllowed
  <2> QED
    BY <2>2, <2>3
<1>3. CASE CausedByScript(s, e, l, end)
  <2>1. PICK kind \in Kind, success \in BOOLEAN, e2 \in Nat, l2 \in Nat :
          /\ e2 = e - Adds(Plain(kind), "EnterSafeMode")
          /\ l2 = l - Adds(Plain(kind), "LeaveManualMode")
          /\ end = ScriptEffect(s, e2, l2, kind, success)
    BY <1>3 DEF CausedByScript
  <2> QED
    BY <1>1, <2>1, ScriptAllowed
<1> QED
  BY <1>1, <1>2, <1>3

-----------------------------------------------------------------------------
(* Ground sees an idle daemon only *)

LEMMA EmptyPhase ==
  ASSUME NEW items, items = <<>>, NEW s, NEW e, NEW l, NEW end, Phase(items, s, e, l, end)
  PROVE  end = View(s, e, l)
<1>1. Len(items) = 0 /\ DOMAIN items = {}
  OBVIOUS
<1>2. CASE Draining(items, s, e, l, end)
  BY <1>1, <1>2 DEF Draining, Later
<1>3. ~EventPending(items, s, e, l, end)
  BY DEF EventPending
<1>4. ~EnterPending(items, s, e, l, end)
  BY DEF EnterPending
<1>5. ~Entering(items, s, e, l, end) /\ ~Entered(items, s, e, l, end)
  BY <1>1 DEF Entering, Entered
<1>6. ~ModePending(items, s, e, l, end)
  BY <1>1 DEF ModePending
<1>7. ~ExitPending(items, s, e, l, end)
  <2>1. \A item : <<item>> # items
    OBVIOUS
  <2> QED
    BY <2>1 DEF ExitPending
<1> QED
  BY <1>2, <1>3, <1>4, <1>5, <1>6, <1>7 DEF Phase

\* What an idle daemon shows is what it is.
IdleView == View(st, children["EnterSafeMode"], children["LeaveManualMode"])

LEMMA IdleShows ==
  ASSUME st' \in State, seen' = Observation(st', children')
  PROVE  Shows(IdleView)'
<1> DEFINE s == st'
           scripts == children'
           obs == seen'
<1>1. s \in State /\ obs = Observation(s, scripts)
  OBVIOUS
<1> HIDE DEF s, scripts, obs
<1>2. Reads(obs, View(s, scripts["EnterSafeMode"], scripts["LeaveManualMode"]))
  BY <1>1, BeaconShows
<1> QED
  BY <1>2 DEF s, scripts, obs, Shows, IdleView

LEMMA IdleEnd ==
  ASSUME agenda' = <<>>, children' \in [Kind -> Nat], NEW end, PhaseNow(end)'
  PROVE  end = IdleView'
<1>1. ASSUME NEW kind \in ModeScripts PROVE Promised(kind)' = children'[kind]
  <2>1. Count(agenda', {Spawn(kind)}) = 0
    <3>1. \A i \in DOMAIN agenda' : agenda'[i] \notin {Spawn(kind)}
      OBVIOUS
    <3> QED
      BY <3>1, CountNone
  <2>2. children'[kind] \in Nat
    BY ModeScriptsAre
  <2> QED
    BY <2>1, <2>2 DEF Promised
<1> DEFINE e == children'["EnterSafeMode"]
           l == children'["LeaveManualMode"]
           s == st'
           items == agenda'
<1>2. Promised("EnterSafeMode")' = e /\ Promised("LeaveManualMode")' = l
  BY <1>1 DEF ModeScripts
<1>3. items = <<>>
  OBVIOUS
<1> HIDE DEF e, l, items, s
<1>4. Phase(items, s, e, l, end)
  BY <1>2 DEF PhaseNow, items, s
<1>5. end = View(s, e, l)
  BY <1>3, <1>4, EmptyPhase
<1> QED
  BY <1>5 DEF IdleView, e, l, s

\* A daemon that has just been started.
LEMMA StartShows ==
  ASSUME NEW s, Start(s), NEW obs, Reads(obs, View(s, 0, 0))
  PROVE  /\ obs.beacon[1] = 0
         /\ (obs.beacon[2] = 1) <=> StartManual
         /\ ~(obs.beacon[3] = 1)
         /\ obs.beacon[4] + 256 * obs.beacon[5] = BatteryTreshold
         /\ <<"OK", "WARN", "ALARM">>[obs.beacon[6] + 1] = "WARN"
         /\ obs.entering = 0 /\ obs.leaving = 0
<1>1. PICK wait \in LeopChecks, garbage \in EnforcedGarbage :
        s = InitialState(CheckedLeop(exec(wait)), garbage)
  BY DEF Start
<1> DEFINE leop == CheckedLeop(exec(wait))
           view == View(s, 0, 0)
<1>2. s = InitialState(leop, garbage)
  BY <1>1
<1> HIDE DEF leop
<1>3. /\ s.safemode = 0 /\ (s.manualmode <=> StartManual) /\ ~s.maneuvermode
      /\ s.battery_level = BatteryTreshold /\ s.all_temp = "WARN"
  BY <1>2 DEF InitialState
<1>4. /\ view.safemode = s.safemode /\ view.manual = s.manualmode
      /\ view.maneuver = s.maneuvermode /\ view.temp = s.all_temp
      /\ view.battery = s.battery_level /\ view.entering = 0 /\ view.leaving = 0
  BY ViewFields
<1> HIDE DEF view
<1>5. Reads(obs, view)
  BY DEF view
<1> QED
  BY <1>3, <1>4, <1>5 DEF Reads

\* What ground sees is kept while a handler runs.
LEMMA SeenKept ==
  ASSUME seen' = seen
  PROVE  /\ UNCHANGED Ground!mode
         /\ \A end : Caused(end) => Caused(end)'
<1>1. UNCHANGED Ground!mode
  BY DEF Ground!mode
<1>2. ASSUME NEW end, Caused(end) PROVE Caused(end)'
  <2>1. PICK s \in State, e \in Nat, l \in Nat :
          /\ ~Emergency(s) /\ Shows(View(s, e, l))
          /\ CausedByEvent(s, e, l, end) \/ CausedByScript(s, e, l, end)
    BY <1>2 DEF Caused
  <2>2. Shows(View(s, e, l))'
    BY <2>1 DEF Shows
  <2> QED
    BY <2>1, <2>2 DEF Caused
<1> QED
  BY <1>1, <1>2

-----------------------------------------------------------------------------
(* What ground sees follows Modes *)

\* What ModesKept needs: an idle daemon is as it was seen last, and what ground
\* will see when a handler is through was caused by what it was called for.
BeaconInv ==
  /\ Running \/ MayCrash
  /\ Running /\ agenda = <<>> => Shows(IdleView)
  /\ Running /\ agenda # <<>> => \E end : PhaseNow(end) /\ Caused(end)

Observe == seen' = IF agenda' = <<>> THEN Observation(st', children') ELSE seen

Allowed == BeaconInv' /\ [Ground!ModesNext]_(Ground!mode)

LEMMA RestartAllowed ==
  ASSUME IInv', BeaconInv, Restart, Observe
  PROVE  Allowed
<1> DEFINE s == st'
           obs == seen'
<1>1. /\ Start(s) /\ agenda' = <<>> /\ children' = None /\ daemon' = "running" /\ MayCrash
  BY DEF Restart, BeaconInv
<1>2. Shows(IdleView)'
  <2>1. st' \in State
    BY DEF IInv, TypeOK
  <2> QED
    BY <1>1, <2>1, IdleShows DEF Observe
<1>3. None["EnterSafeMode"] = 0 /\ None["LeaveManualMode"] = 0
  BY DEF None, Kind
<1>4. Reads(obs, View(s, 0, 0))
  BY <1>1, <1>2, <1>3 DEF Shows, IdleView
<1> HIDE DEF s, obs
<1>5. /\ obs.beacon[1] = 0
      /\ (obs.beacon[2] = 1) <=> StartManual
      /\ ~(obs.beacon[3] = 1)
      /\ obs.beacon[4] + 256 * obs.beacon[5] = BatteryTreshold
      /\ <<"OK", "WARN", "ALARM">>[obs.beacon[6] + 1] = "WARN"
      /\ obs.entering = 0 /\ obs.leaving = 0
  BY <1>1, <1>4, StartShows
<1>6. Ground!ModesInit'
  BY <1>5, StartManualAssumption DEF Ground!ModesInit, obs
<1>7. BeaconInv'
  BY <1>1, <1>2 DEF BeaconInv, Running
<1> QED
  BY <1>1, <1>6, <1>7 DEF Allowed, Ground!Restarted, Ground!ModesNext

LEMMA CrashAllowed ==
  ASSUME IInv', BeaconInv, Crash, Observe
  PROVE  Allowed
<1>1. /\ MayCrash /\ Running /\ daemon' = "dead" /\ st' = st /\ agenda' = agenda
      /\ children' = children
  BY DEF Crash
<1>2. BeaconInv'
  BY <1>1 DEF BeaconInv, Running
<1>3. UNCHANGED Ground!mode
  <2>1. CASE agenda = <<>>
    <3>1. Shows(IdleView)'
      <4>1. st' \in State
        BY DEF IInv, TypeOK
      <4> QED
        BY <1>1, <2>1, <4>1, IdleShows DEF Observe
    <3>2. IdleView' = IdleView
      BY <1>1 DEF IdleView
    <3>3. PICK same : same = IdleView
      OBVIOUS
    <3>4. Shows(same) /\ Shows(same)'
      BY <1>1, <2>1, <3>1, <3>2, <3>3 DEF BeaconInv, Shows
    <3> QED
      BY <3>4, ShowsSame
  <2>2. CASE agenda # <<>>
    <3>1. seen' = seen
      BY <1>1, <2>2 DEF Observe
    <3> QED
      BY <3>1, SeenKept
  <2> QED
    BY <2>1, <2>2
<1> QED
  BY <1>2, <1>3 DEF Allowed

LEMMA HandlerAllowed ==
  ASSUME Undisturbed, Calm, IInv', BeaconInv, Handler, Observe
  PROVE  Allowed
<1>1. PICK end : agenda # <<>> => PhaseNow(end) /\ Caused(end)
  BY DEF BeaconInv, Calm
<1>2. PhaseNow(end)' /\ Running' /\ agenda # <<>>
  BY <1>1, HandlerPhase
<1>3. CASE agenda' # <<>>
  <2>1. seen' = seen
    BY <1>3 DEF Observe
  <2>2. Caused(end)' /\ UNCHANGED Ground!mode
    BY <1>1, <1>2, <2>1, SeenKept
  <2> QED
    BY <1>2, <1>3, <2>2 DEF Allowed, BeaconInv
<1>4. CASE agenda' = <<>>
  <2>1. st' \in State /\ children' \in [Kind -> Nat]
    BY DEF IInv, TypeOK
  <2>2. end = IdleView'
    BY <1>2, <1>4, <2>1, IdleEnd
  <2>3. Shows(IdleView)'
    BY <1>4, <2>1, IdleShows DEF Observe
  <2>4. Shows(end)'
    BY <2>2, <2>3 DEF Shows
  <2>5. [Ground!ModesNext]_(Ground!mode)
    BY <1>1, <1>2, <2>4, CausedAllowed
  <2> QED
    BY <1>2, <1>4, <2>3, <2>5 DEF Allowed, BeaconInv
<1> QED
  BY <1>3, <1>4

LEMMA DeliverAllowed ==
  ASSUME Calm, BeaconInv, NEW ev \in Sent, Deliver(ev), Observe
  PROVE  Allowed
<1> DEFINE e == children["EnterSafeMode"]
           l == children["LeaveManualMode"]
           s == st
<1>1. PICK end : end = Foreseen(ev)
  OBVIOUS
<1>2. PhaseNow(end)' /\ Running' /\ agenda' # <<>> /\ ~Emergency(st)
  BY <1>1, DeliverPhase
<1>3. agenda = <<>> /\ Running
  BY DEF Deliver, Idle
<1>4. s \in State /\ e \in Nat /\ l \in Nat
  BY CalmState, ModeScriptsAre DEF ModeScripts
<1>5. Shows(View(s, e, l))
  BY <1>3 DEF BeaconInv, IdleView
<1>6. end = EventEffect(s, e, l, ev)
  BY <1>1 DEF Foreseen
<1>7. ~Emergency(s)
  BY <1>2
<1> HIDE DEF s, e, l
<1>8. Caused(end)
  BY <1>4, <1>5, <1>6, <1>7 DEF Caused, CausedByEvent
<1>9. seen' = seen
  BY <1>2 DEF Observe
<1>10. Caused(end)' /\ UNCHANGED Ground!mode
  BY <1>8, <1>9, SeenKept
<1> QED
  BY <1>2, <1>10 DEF Allowed, BeaconInv

LEMMA ScriptExitsAllowed ==
  ASSUME Calm, BeaconInv, NEW kind \in Kind, NEW success \in BOOLEAN,
         ScriptExits(kind, success), Observe
  PROVE  Allowed
<1> DEFINE e == children["EnterSafeMode"]
           l == children["LeaveManualMode"]
           e2 == Gone("EnterSafeMode", kind)
           l2 == Gone("LeaveManualMode", kind)
           s == st
<1>1. PICK end : end = Ended(kind, success)
  OBVIOUS
<1>2. PhaseNow(end)' /\ Running' /\ agenda' # <<>> /\ ~Emergency(st)
  BY <1>1, ScriptExitsPhase
<1>3. agenda = <<>> /\ Running /\ children[kind] > 0
  BY DEF ScriptExits, Idle
<1>4. s \in State /\ e \in Nat /\ l \in Nat /\ children \in [Kind -> Nat]
  BY CalmState, ModeScriptsAre DEF ModeScripts
<1>5. Shows(View(s, e, l))
  BY <1>3 DEF BeaconInv, IdleView
<1>6. end = ScriptEffect(s, e2, l2, kind, success)
  BY <1>1 DEF Ended
<1>7. /\ e2 = e - Adds(Plain(kind), "EnterSafeMode")
      /\ l2 = l - Adds(Plain(kind), "LeaveManualMode")
  BY DEF Gone
<1>8. e2 \in Nat /\ l2 \in Nat
  BY <1>3, <1>4, ModeScriptsAre DEF Gone, Adds, Plain
<1>9. ~Emergency(s)
  BY <1>2
<1> HIDE DEF s, e, l, e2, l2
<1>10. CausedByScript(s, e, l, end)
  BY <1>6, <1>7, <1>8 DEF CausedByScript
<1>11. Caused(end)
  BY <1>4, <1>5, <1>9, <1>10 DEF Caused
<1>12. seen' = seen
  BY <1>2 DEF Observe
<1>13. Caused(end)' /\ UNCHANGED Ground!mode
  BY <1>11, <1>12, SeenKept
<1> QED
  BY <1>2, <1>13 DEF Allowed, BeaconInv

\* A script that is killed: no handler runs, a mode may lose its script.
LEMMA ScriptTerminatedAllowed ==
  ASSUME Calm, IInv', BeaconInv, NEW kind \in Kind, ScriptTerminated(kind), Observe
  PROVE  Allowed
<1> DEFINE e == children["EnterSafeMode"]
           l == children["LeaveManualMode"]
           s == st
<1>1. /\ MayTerminate /\ agenda = <<>> /\ Running /\ children[kind] > 0
      /\ children' = [children EXCEPT ![kind] = @ - 1]
      /\ st' = st /\ agenda' = <<>> /\ daemon' = daemon
  BY DEF ScriptTerminated, Idle
<1>2. s \in State /\ e \in Nat /\ l \in Nat /\ children \in [Kind -> Nat]
  BY CalmState, ModeScriptsAre DEF ModeScripts
<1>3. st' \in State
  BY <1>1, <1>2
<1>4. Shows(IdleView)'
  BY <1>1, <1>3, IdleShows DEF Observe
<1>5. BeaconInv'
  BY <1>1, <1>4 DEF BeaconInv, Running
<1>6. PICK e2, l2 : e2 = children'["EnterSafeMode"] /\ l2 = children'["LeaveManualMode"]
  OBVIOUS
<1>7. /\ e2 = IF kind = "EnterSafeMode" THEN e - 1 ELSE e
      /\ l2 = IF kind = "LeaveManualMode" THEN l - 1 ELSE l
      /\ kind = "EnterSafeMode" => e > 0
      /\ kind = "LeaveManualMode" => l > 0
  BY <1>1, <1>2, <1>6, ModeScriptsAre DEF ModeScripts
<1>8. Shows(View(s, e, l))
  BY <1>1 DEF BeaconInv, IdleView
<1>9. PICK u, n, m : u = s /\ n = e /\ m = l
  OBVIOUS
<1>10. IdleView' = View(u, e2, l2)
  BY <1>1, <1>6, <1>9 DEF IdleView
<1>11. Shows(View(u, e2, l2))' /\ Shows(View(u, n, m))
  BY <1>4, <1>8, <1>9, <1>10 DEF Shows
<1> HIDE DEF s, e, l
<1>12. /\ u \in State /\ n \in Int /\ m \in Int /\ e2 \in Int /\ l2 \in Int
  BY <1>2, <1>7, <1>9
<1>13. /\ e2 = n /\ m = l2 => UNCHANGED Ground!mode
       /\ n > 0 /\ e2 = n - 1 /\ l2 = m => Ground!ScriptKilled
       /\ m > 0 /\ e2 = n /\ l2 = m - 1 => Ground!ScriptKilled
  BY <1>1, <1>11, <1>12, ShowsEnded
<1>14. [Ground!ModesNext]_(Ground!mode)
  <2>1. CASE kind = "EnterSafeMode"
    BY <1>7, <1>9, <1>13, <2>1 DEF Ground!ModesNext
  <2>2. CASE kind = "LeaveManualMode"
    BY <1>7, <1>9, <1>13, <2>2 DEF Ground!ModesNext
  <2>3. CASE kind \notin {"EnterSafeMode", "LeaveManualMode"}
    BY <1>7, <1>9, <1>13, <2>3
  <2> QED
    BY <2>1, <2>2, <2>3
<1> QED
  BY <1>5, <1>14 DEF Allowed

LEMMA StepAllowed ==
  ASSUME Undisturbed, IInv, IInv', ModeInv, PhaseInv, BeaconInv, Next, Observe
  PROVE  Allowed
<1>1. Handler \/ Methods \/ Signals \/ ScriptEnds => Calm
  <2>1. Methods \/ Signals => Running
    BY SentEvents DEF Deliver, Idle
  <2>2. ScriptEnds => Running
    BY DEF ScriptEnds, ScriptExits, ScriptTerminated, Idle
  <2>3. Handler => Running
    BY DEF Handler, HandleEvent, PerformAction, SpawnProcess, SpawnFails, ExitCallback,
           RemoveAction, AssignToFreed, StackOverflow, Doing
  <2> QED
    BY <2>1, <2>2, <2>3 DEF Calm, PhaseInv
<1>2. CASE Handler
  BY <1>1, <1>2, HandlerAllowed
<1>3. CASE Methods \/ Signals
  BY <1>1, <1>3, SentEvents, DeliverAllowed
<1>4. CASE ScriptEnds
  <2>1. PICK kind \in Kind : \/ \E success \in BOOLEAN : ScriptExits(kind, success)
                             \/ ScriptTerminated(kind)
    BY <1>4 DEF ScriptEnds
  <2> QED
    BY <1>1, <1>4, <2>1, ScriptExitsAllowed, ScriptTerminatedAllowed
<1>5. CASE Crash
  BY <1>5, CrashAllowed
<1>6. CASE Restart
  BY <1>6, RestartAllowed
<1> QED
  BY <1>2, <1>3, <1>4, <1>5, <1>6 DEF Next

LEMMA SeenFirst ==
  ASSUME Init, seen = Observation(st, children)
  PROVE  Ground!ModesInit /\ BeaconInv
<1> DEFINE s == st
           scripts == children
           obs == seen
<1>1. /\ Start(st) /\ children = None /\ agenda = <<>> /\ Running
  BY DEF Init, SatelliteInit, Running
<1>2. s \in State
  BY <1>1, StartProperty
<1>3. obs = Observation(s, scripts)
  OBVIOUS
<1>4. None["EnterSafeMode"] = 0 /\ None["LeaveManualMode"] = 0
  BY DEF None, Kind
<1>5. Start(s) /\ scripts = None
  BY <1>1
<1> HIDE DEF s, scripts, obs
<1>6. Reads(obs, View(s, scripts["EnterSafeMode"], scripts["LeaveManualMode"]))
  BY <1>2, <1>3, BeaconShows
<1>7. Reads(obs, View(s, 0, 0))
  BY <1>4, <1>5, <1>6
<1>8. /\ obs.beacon[1] = 0
      /\ (obs.beacon[2] = 1) <=> StartManual
      /\ ~(obs.beacon[3] = 1)
      /\ obs.beacon[4] + 256 * obs.beacon[5] = BatteryTreshold
      /\ <<"OK", "WARN", "ALARM">>[obs.beacon[6] + 1] = "WARN"
      /\ obs.entering = 0 /\ obs.leaving = 0
  BY <1>5, <1>7, StartShows
<1>9. Ground!ModesInit
  BY <1>8, StartManualAssumption DEF Ground!ModesInit, obs
<1>10. BeaconInv
  BY <1>1, <1>6 DEF BeaconInv, Shows, IdleView, s, scripts, obs
<1> QED
  BY <1>9, <1>10

\* What ground sees of the modes in the beacon changes only as Modes says, for
\* every threshold, every order of events and ends of scripts, and any number
\* of scripts at a time: a handler that calls itself through events shows, when
\* it is through, one step of Modes (dbus.cpp:205-246, state.cpp:37-84,
\* enter_safemode.cpp:23-42, leave_manualmode.cpp:22-40).
THEOREM BeaconFollowsModes == Undisturbed => (ObservedSpec => ModesKept)
<1> SUFFICES ASSUME Undisturbed PROVE ObservedSpec => ModesKept
  OBVIOUS
<1>1. Init /\ seen = Observation(st, children) => Ground!ModesInit /\ BeaconInv
  BY SeenFirst
<1>2. ASSUME IInv /\ ModeInv /\ PhaseInv /\ BeaconInv, (IInv /\ ModeInv)',
             [ObservedNext]_<<vars, seen>>
      PROVE  BeaconInv' /\ [Ground!ModesNext]_(Ground!mode)
  <2>1. CASE ObservedNext
    BY <1>2, <2>1, StepAllowed DEF ObservedNext, Observe, Allowed
  <2>2. CASE UNCHANGED <<vars, seen>>
    <3>1. seen' = seen /\ UNCHANGED vars
      BY <2>2
    <3>2. UNCHANGED Ground!mode
      BY <3>1, SeenKept
    <3>3. ASSUME NEW end, PhaseNow(end), Caused(end) PROVE PhaseNow(end)' /\ Caused(end)'
      BY <3>1, <3>3, SeenKept DEF vars, PhaseNow, Promised
    <3>4. Shows(IdleView) => Shows(IdleView)'
      BY <3>1 DEF vars, Shows, IdleView
    <3>5. BeaconInv'
      BY <1>2, <3>1, <3>3, <3>4 DEF BeaconInv, vars, Running
    <3> QED
      BY <3>2, <3>5
  <2> QED
    BY <1>2, <2>1, <2>2
<1>3. [ObservedNext]_<<vars, seen>> => [Next]_vars
  BY DEF ObservedNext
<1> QED
  BY <1>1, <1>2, <1>3, ModeInvariance, PhaseInvariance, PTL
     DEF ObservedSpec, Spec, ModesKept, Ground!ModesSpec

=============================================================================
