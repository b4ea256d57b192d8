---------------------------- MODULE ServiceProofs ----------------------------
(***************************************************************************)
(* Types of the service, for every start limit and every bound on outages: *)
(* systemd never counts more starts than the burst, and the daemon has one *)
(* of the three LEOP states whatever check_leop.sh returned.  And that     *)
(* systemd does not give HORST up, where the limit leaves room for it.     *)
(***************************************************************************)
EXTENDS Service, TLAPS

LEMMA InitTypes == Init => TypeOK
<1>1. [age |-> 0, count |-> 0]
        \in [age : 0 .. StartLimitInterval + 1, count : 0 .. StartLimitBurst]
  BY ServiceAssumption
<1>2. {0, OnBootSec} \subseteq 0 .. OnBootSec /\ 0 \in 0 .. MaxOutage + MinCalm
  BY ServiceAssumption
<1> QED
  BY <1>1, <1>2 DEF Init, TypeOK

LEMMA StartTypes == TypeOK /\ Start => TypeOK'
<1> SUFFICES ASSUME TypeOK, Start PROVE TypeOK'
  OBVIOUS
<1>1. started' \in [age : 0 .. StartLimitInterval + 1, count : 0 .. StartLimitBurst]
  <2>1. CASE started' = started
    BY <2>1 DEF TypeOK
  <2>2. CASE started' = [age |-> 0, count |-> 1]
    BY <2>2, ServiceAssumption
  <2>3. CASE started.count < StartLimitBurst
             /\ started' = [started EXCEPT !.count = @ + 1]
    BY <2>3, ServiceAssumption DEF TypeOK
  <2> QED
    BY <2>1, <2>2, <2>3 DEF Start
<1>2. daemon' \in {"starting", daemon} /\ unit' \in {"active", "failed"}
  BY DEF Start
<1>3. UNCHANGED <<leop, bus, trouble, sciops, timer, deploying, told>>
  BY DEF Start, outside, deployment
<1> QED
  BY <1>1, <1>2, <1>3 DEF TypeOK

LEMMA TickTypes == TypeOK /\ Tick => TypeOK'
<1> SUFFICES ASSUME TypeOK, Tick PROVE TypeOK'
  OBVIOUS
<1>1. started' \in [age : 0 .. StartLimitInterval + 1, count : 0 .. StartLimitBurst]
  BY ServiceAssumption DEF TypeOK, Tick, Older
<1>2. trouble' \in 0 .. MaxOutage + MinCalm
  BY ServiceAssumption DEF TypeOK, Tick
<1>3. unit' \in {"starting", unit}
  BY DEF Tick
<1>4. UNCHANGED <<daemon, leop, bus, sciops, told>> /\ deploying' \in BOOLEAN
  BY DEF TypeOK, Tick, daemonVars
<1>5. timer' \in 0 .. OnBootSec
  BY ServiceAssumption DEF TypeOK, Tick
<1> QED
  BY <1>1, <1>2, <1>3, <1>4, <1>5 DEF TypeOK

LEMMA CheckLeopTypes == TypeOK /\ CheckLeop => TypeOK'
<1> SUFFICES ASSUME TypeOK, CheckLeop PROVE TypeOK'
  OBVIOUS
<1>1. leop' \in {"UNDEPLOYED", "DEPLOYED", "DONE"}
  BY DEF CheckLeop
<1> QED
  BY <1>1 DEF TypeOK, CheckLeop, outside, deployment

\* The steps that change neither the count of starts nor the check of LEOP.
LEMMA OtherTypes ==
  ASSUME TypeOK,
         \/ connect \/ Dies \/ DiesWithoutBus \/ BusLost \/ BusReturns
         \/ SciopsActivated \/ LeopNow \/ DeployedSignal
  PROVE  TypeOK'
<1>1. CASE connect
  BY <1>1 DEF TypeOK, connect, Ends, outside, deployment
<1>. 0 \in 0 .. MaxOutage + MinCalm /\ MinCalm \in 0 .. MaxOutage + MinCalm
  BY ServiceAssumption
<1>2. CASE Dies
  BY <1>2 DEF TypeOK, Dies, Ends, deployment
<1>3. CASE DiesWithoutBus
  BY <1>3 DEF TypeOK, DiesWithoutBus, Ends, outside, deployment
<1>4. CASE BusLost
  BY <1>4 DEF TypeOK, BusLost, deployment
<1>5. CASE BusReturns
  BY <1>5 DEF TypeOK, BusReturns, Ends, deployment
<1>6. CASE SciopsActivated
  BY <1>6 DEF TypeOK, SciopsActivated, leopStateChange, deployment
<1>7. CASE DeployedSignal
  BY <1>7 DEF TypeOK, DeployedSignal, leopStateChange
<1>8. CASE LeopNow
  BY <1>8 DEF TypeOK, LeopNow, daemonVars
<1> QED
  BY <1>1, <1>2, <1>3, <1>4, <1>5, <1>6, <1>7, <1>8

LEMMA NextTypes == TypeOK /\ [Next]_vars => TypeOK'
<1> SUFFICES ASSUME TypeOK, [Next]_vars PROVE TypeOK'
  OBVIOUS
<1>1. CASE UNCHANGED vars
  BY <1>1 DEF TypeOK, vars, daemonVars, outside, deployment
<1>2. CASE Next
  BY <1>2, StartTypes, TickTypes, CheckLeopTypes, OtherTypes DEF Next
<1> QED
  BY <1>1, <1>2

\* Every variable keeps its type, whatever limits the unit gives
\* (horst.service:5-6, horst.cpp:123-138).
THEOREM TypeCorrect == Spec => []TypeOK
BY InitTypes, NextTypes, PTL DEF Spec

-----------------------------------------------------------------------------
(* The start limit *)

\* The limit leaves room for the longest outage, with one start for each of its
\* ticks, one before it and one after it; and a time in which starts are counted
\* that holds a calm holds no more starts than the limit besides.
OutagesFit ==
  /\ MaxOutage + 2 <= StartLimitBurst
  /\ StartLimitInterval + 2 <= StartLimitBurst + MinCalm

\* The starts that count, with the one that is due now, or as soon as a tick has
\* passed.
DueNow == started.count + (IF unit = "starting" THEN 1 ELSE 0)
DueSoon == started.count + (IF unit \in {"starting", "waiting"} THEN 1 ELSE 0)

\* No more than one start at a time.
OneAtATime == DueNow <= started.age + 1

\* A calm has passed since the first start that counts, or is passing; or all
\* starts that count belong to this outage.
AwayCounted ==
  \/ DueNow <= started.age + 2 - MinCalm
  \/ DueNow <= trouble + 1
CalmCounted ==
  \/ DueSoon <= started.age + 2 - MinCalm + trouble
  \/ DueSoon <= 1

\* The start that follows an outage or a death is within the limit.
RestartFits ==
  /\ unit = "waiting" =>
       started.count <= started.age + 2 - MinCalm \/ started.count <= MaxOutage + 1
  /\ unit = "starting" =>
       started.count <= started.age + 1 - MinCalm \/ started.count <= MaxOutage + 1

\* Once the interval is over, nothing that was counted matters.
Counted ==
  started.age <= StartLimitInterval =>
    /\ OneAtATime
    /\ ~bus => AwayCounted
    /\ bus => CalmCounted /\ RestartFits

\* What the steps assume of each other: a process runs while the unit is active.
Matched ==
  /\ unit = "active" <=> daemon # "none"
  /\ bus => daemon # "deaf"
  /\ ~bus => trouble <= MaxOutage

ServiceInv == TypeOK /\ Matched /\ Counted /\ NotGivenUp

\* Numbers that the invariant speaks of.
LEMMA Numbers ==
  ASSUME TypeOK
  PROVE  /\ started.age \in Nat /\ started.count \in Nat /\ trouble \in Nat
         /\ StartLimitInterval \in Nat /\ StartLimitBurst \in Nat \ {0}
         /\ MaxOutage \in Nat /\ MinCalm \in Nat
BY ServiceAssumption DEF TypeOK

LEMMA InitServiceInv == Init => ServiceInv
<1> SUFFICES ASSUME Init PROVE ServiceInv
  OBVIOUS
<1>1. TypeOK
  BY InitTypes
<1>2. started.age = 0 /\ started.count = 0 /\ unit = "starting" /\ bus
  BY DEF Init
<1>3. Counted
  BY <1>1, <1>2, Numbers DEF Counted, OneAtATime, CalmCounted, RestartFits, DueNow, DueSoon
<1>4. Matched /\ NotGivenUp
  BY DEF Init, Matched, NotGivenUp
<1> QED
  BY <1>1, <1>3, <1>4 DEF ServiceInv

\* A step that starts nothing, with the same bus.
LEMMA NothingStarts ==
  ASSUME ServiceInv, UNCHANGED <<unit, started, bus, trouble>>
  PROVE  Counted' /\ NotGivenUp'
BY DEF ServiceInv, Counted, OneAtATime, AwayCounted, CalmCounted, RestartFits, DueNow,
   DueSoon, NotGivenUp

\* systemd starts the unit: it is never one time too many.
LEMMA StartCounts ==
  ASSUME OutagesFit, ServiceInv, Start
  PROVE  Counted' /\ Matched' /\ NotGivenUp'
<1>0. /\ started.age \in Nat /\ started.count \in Nat /\ trouble \in Nat
      /\ StartLimitInterval \in Nat /\ StartLimitBurst \in Nat \ {0}
      /\ MaxOutage \in Nat /\ MinCalm \in Nat
  BY Numbers DEF ServiceInv
<1>1. unit = "starting" /\ UNCHANGED <<bus, trouble>>
  BY DEF Start, outside
<1>2. started.age <= StartLimitInterval => started.count < StartLimitBurst
  <2> SUFFICES ASSUME started.age <= StartLimitInterval
               PROVE  started.count < StartLimitBurst
    OBVIOUS
  <2>1. CASE bus
    BY <1>0, <1>1, <2>1 DEF OutagesFit, ServiceInv, Counted, RestartFits
  <2>2. CASE ~bus
    BY <1>0, <1>1, <2>2
    DEF OutagesFit, ServiceInv, Counted, AwayCounted, DueNow, Matched
  <2> QED
    BY <2>1, <2>2
<1>3. unit' = "active" /\ daemon' = "starting"
  BY <1>0, <1>2 DEF Start
<1>4. CASE started.age > StartLimitInterval
  <2>1. started'.age = 0 /\ started'.count = 1
    BY <1>0, <1>4 DEF Start
  <2>2. Counted'
    BY <1>0, <1>1, <1>3, <2>1
    DEF Counted, OneAtATime, AwayCounted, CalmCounted, RestartFits, DueNow, DueSoon
  <2> QED
    BY <1>1, <1>3, <2>2 DEF ServiceInv, Matched, NotGivenUp
<1>5. CASE ~(started.age > StartLimitInterval)
  <2>1. started' = [started EXCEPT !.count = @ + 1]
    BY <1>0, <1>2, <1>5 DEF Start
  <2>2. started'.age = started.age /\ started'.count = started.count + 1
    BY <2>1 DEF ServiceInv, TypeOK
  <2>3. started.age <= StartLimitInterval
    BY <1>0, <1>5
  <2>4. Counted'
    BY <1>0, <1>1, <1>3, <2>2, <2>3
    DEF ServiceInv, Counted, OneAtATime, AwayCounted, CalmCounted, RestartFits, DueNow,
        DueSoon
  <2> QED
    BY <1>1, <1>3, <2>4 DEF ServiceInv, Matched, NotGivenUp
<1> QED
  BY <1>4, <1>5

\* A tick makes a start that waits due.
LEMMA TickCounts ==
  ASSUME ServiceInv, Tick
  PROVE  Counted' /\ Matched' /\ NotGivenUp'
<1>0. /\ started.age \in Nat /\ started.count \in Nat /\ trouble \in Nat
      /\ StartLimitInterval \in Nat /\ MaxOutage \in Nat /\ MinCalm \in Nat
  BY Numbers DEF ServiceInv
<1>1. /\ unit # "starting" /\ UNCHANGED <<bus, daemon>>
      /\ unit' = IF unit = "waiting" THEN "starting" ELSE unit
      /\ ~bus => trouble < MaxOutage /\ trouble' = trouble + 1
      /\ bus => trouble' = IF trouble > 0 THEN trouble - 1 ELSE 0
  BY DEF Tick, Busy, daemonVars
<1>2. /\ started'.count = started.count
      /\ started'.age = Older(started.age, StartLimitInterval)
  BY DEF Tick, ServiceInv, TypeOK
<1>3. started'.age <= StartLimitInterval
        => started'.age = started.age + 1 /\ started.age <= StartLimitInterval
  BY <1>0, <1>2 DEF Older
<1>4. Counted'
  <2> SUFFICES ASSUME started'.age <= StartLimitInterval
               PROVE  OneAtATime' /\ (~bus' => AwayCounted')
                      /\ (bus' => CalmCounted' /\ RestartFits')
    BY DEF Counted
  <2>1. Counted
    BY DEF ServiceInv
  <2>2. OneAtATime'
    BY <1>0, <1>1, <1>2, <1>3, <2>1 DEF Counted, OneAtATime, DueNow
  <2>3. CASE ~bus
    <3>1. AwayCounted'
      BY <1>0, <1>1, <1>2, <1>3, <2>1, <2>3 DEF Counted, AwayCounted, DueNow
    <3> QED
      BY <1>1, <2>2, <2>3, <3>1
  <2>4. CASE bus
    <3>1. CalmCounted'
      BY <1>0, <1>1, <1>2, <1>3, <2>1, <2>4 DEF Counted, CalmCounted, DueSoon
    <3>2. RestartFits'
      BY <1>0, <1>1, <1>2, <1>3, <2>1, <2>4 DEF Counted, RestartFits
    <3> QED
      BY <1>1, <2>2, <2>4, <3>1, <3>2
  <2> QED
    BY <2>3, <2>4
<1>5. Matched' /\ NotGivenUp'
  BY <1>0, <1>1 DEF ServiceInv, Matched, NotGivenUp
<1> QED
  BY <1>4, <1>5

\* The process ends; nobody has started it more than once at a time.
LEMMA EndCounts ==
  ASSUME ServiceInv, Dies \/ DiesWithoutBus \/ BusLost \/ BusReturns
  PROVE  Counted' /\ Matched' /\ NotGivenUp'
<1>0. /\ started.age \in Nat /\ started.count \in Nat /\ trouble \in Nat
      /\ StartLimitInterval \in Nat /\ MaxOutage \in Nat /\ MinCalm \in Nat
  BY Numbers DEF ServiceInv
<1>1. CASE Dies
  <2>1. /\ bus /\ trouble = 0 /\ unit = "active" /\ unit' = "waiting" /\ bus'
        /\ trouble' = MinCalm /\ started' = started /\ daemon' = "none"
    BY <1>1 DEF Dies, Calm, Ends, ServiceInv, Matched
  <2>2. Counted'
    BY <1>0, <2>1
    DEF ServiceInv, Counted, OneAtATime, CalmCounted, RestartFits, DueNow, DueSoon
  <2> QED
    BY <2>1, <2>2 DEF Matched, NotGivenUp
<1>2. CASE DiesWithoutBus
  <2>1. /\ ~bus /\ unit = "active" /\ unit' = "waiting" /\ ~bus'
        /\ trouble' = trouble /\ started' = started /\ daemon' = "none"
    BY <1>2 DEF DiesWithoutBus, Ends, outside, ServiceInv, Matched, TypeOK
  <2>2. Counted'
    BY <1>0, <2>1 DEF ServiceInv, Counted, OneAtATime, AwayCounted, DueNow
  <2> QED
    BY <2>1, <2>2 DEF ServiceInv, Matched, NotGivenUp
<1>3. CASE BusLost
  <2>1. /\ bus /\ trouble = 0 /\ unit' = unit /\ ~bus' /\ trouble' = 0
        /\ started' = started
        /\ daemon' = IF daemon = "listening" THEN "deaf" ELSE daemon
    BY <1>3 DEF BusLost, Calm, ServiceInv, TypeOK
  <2>2. Counted'
    BY <1>0, <2>1
    DEF ServiceInv, Counted, OneAtATime, AwayCounted, CalmCounted, DueNow, DueSoon
  <2> QED
    BY <1>0, <2>1, <2>2 DEF ServiceInv, Matched, NotGivenUp
<1>4. CASE BusReturns
  <2>1. /\ ~bus /\ bus' /\ trouble' = MinCalm /\ started' = started
        /\ \/ daemon' = "none" /\ unit = "active" /\ unit' = "waiting"
           \/ daemon # "deaf" /\ daemon' = daemon /\ unit' = unit
    BY <1>4 DEF BusReturns, Ends, ServiceInv, Matched, TypeOK
  <2>2. CalmCounted' \/ ~(started.age <= StartLimitInterval)
    BY <1>0, <2>1 DEF ServiceInv, Counted, OneAtATime, CalmCounted, DueNow, DueSoon
  <2>3. RestartFits' \/ ~(started.age <= StartLimitInterval)
    BY <1>0, <2>1 DEF ServiceInv, Counted, AwayCounted, RestartFits, DueNow, Matched
  <2>4. OneAtATime' \/ ~(started.age <= StartLimitInterval)
    BY <1>0, <2>1 DEF ServiceInv, Counted, OneAtATime, DueNow
  <2> QED
    BY <2>1, <2>2, <2>3, <2>4 DEF Counted, ServiceInv, Matched, NotGivenUp
<1> QED
  BY <1>1, <1>2, <1>3, <1>4

\* connect() without a bus ends the process.
LEMMA ConnectCounts ==
  ASSUME ServiceInv, connect
  PROVE  Counted' /\ Matched' /\ NotGivenUp'
<1>0. /\ started.age \in Nat /\ started.count \in Nat /\ trouble \in Nat
      /\ StartLimitInterval \in Nat /\ MaxOutage \in Nat /\ MinCalm \in Nat
  BY Numbers DEF ServiceInv
<1>1. UNCHANGED <<started, bus, trouble>> /\ unit = "active"
  BY DEF connect, outside, ServiceInv, Matched
<1>2. CASE unit' = unit
  <2>1. daemon' = "listening"
    BY <1>1, <1>2 DEF connect, Ends
  <2> QED
    BY <1>1, <1>2, <2>1, NothingStarts DEF ServiceInv, Matched
<1>3. CASE unit' # unit
  <2>1. ~bus /\ unit' = "waiting" /\ daemon' = "none"
    BY <1>3 DEF connect, Ends
  <2>2. Counted'
    BY <1>0, <1>1, <2>1 DEF ServiceInv, Counted, OneAtATime, AwayCounted, DueNow
  <2> QED
    BY <1>1, <2>1, <2>2 DEF ServiceInv, Matched, NotGivenUp
<1> QED
  BY <1>2, <1>3

LEMMA NextServiceInv ==
  ASSUME OutagesFit, ServiceInv, [Next]_vars
  PROVE  ServiceInv'
<1>1. TypeOK'
  BY NextTypes DEF ServiceInv
<1>2. Counted' /\ Matched' /\ NotGivenUp'
  <2>1. CASE \/ CheckLeop \/ SciopsActivated \/ LeopNow \/ DeployedSignal
            \/ UNCHANGED vars
    <3>1. /\ UNCHANGED <<unit, started, bus, trouble>>
          /\ \/ daemon' = daemon
             \/ daemon = "starting" /\ daemon' = "connecting"
      BY <2>1
      DEF CheckLeop, SciopsActivated, LeopNow, DeployedSignal, vars, daemonVars, outside
    <3> QED
      BY <3>1, NothingStarts DEF ServiceInv, Matched
  <2>2. CASE Start \/ Tick \/ connect
    BY <2>2, StartCounts, TickCounts, ConnectCounts
  <2>3. CASE Dies \/ DiesWithoutBus \/ BusLost \/ BusReturns
    BY <2>3, EndCounts
  <2> QED
    BY <2>1, <2>2, <2>3 DEF Next
<1> QED
  BY <1>1, <1>2 DEF ServiceInv

\* systemd never gives HORST up, for every start limit that leaves room for the
\* longest outage and for a calm: however outages and deaths follow each other,
\* though every start without a bus ends at once (satellite.cpp:55-58,
\* horst.service:4-5).
THEOREM NeverGivenUp == OutagesFit => (Spec => []NotGivenUp)
<1> SUFFICES ASSUME OutagesFit PROVE Spec => []NotGivenUp
  OBVIOUS
<1>1. Init => ServiceInv
  BY InitServiceInv
<1>2. ServiceInv /\ [Next]_vars => ServiceInv'
  BY NextServiceInv
<1>3. ServiceInv => NotGivenUp
  BY DEF ServiceInv
<1> QED
  BY <1>1, <1>2, <1>3, PTL DEF Spec

=============================================================================
