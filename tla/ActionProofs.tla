----------------------------- MODULE ActionProofs -----------------------------
(***************************************************************************)
(* Every action HORST creates is freed once, after everything that uses    *)
(* it, and every command given to exec is run once: ActionsAccounted and   *)
(* CommandRunsOnce of Horst, for every value of the constants.  Both count *)
(* work items of the agenda, so the proofs rest on how a step changes the  *)
(* number of items of a kind.                                              *)
(***************************************************************************)
EXTENDS ModeProofs, FiniteSetTheorems

-----------------------------------------------------------------------------
(* Counting the items of a list *)

LEMMA CountType ==
  ASSUME NEW S, NEW items \in Seq(S), NEW these
  PROVE  /\ IsFiniteSet({i \in DOMAIN items : items[i] \in these})
         /\ Count(items, these) \in Nat
<1>1. Len(items) \in Nat /\ DOMAIN items = 1 .. Len(items)
  BY LenProperties
<1>2. IsFiniteSet(1 .. Len(items))
  BY <1>1, FS_Interval
<1>3. {i \in DOMAIN items : items[i] \in these} \in SUBSET (1 .. Len(items))
  BY <1>1
<1>4. IsFiniteSet({i \in DOMAIN items : items[i] \in these})
  BY <1>2, <1>3, FS_Subset
<1> QED
  BY <1>4, FS_CardinalityType DEF Count

LEMMA CountNone ==
  ASSUME NEW items, NEW these, \A i \in DOMAIN items : items[i] \notin these
  PROVE  Count(items, these) = 0
<1>1. {i \in DOMAIN items : items[i] \in these} = {}
  OBVIOUS
<1> QED
  BY <1>1, FS_EmptySet DEF Count

LEMMA CountOne ==
  ASSUME NEW items, NEW these, NEW k \in DOMAIN items,
         \A i \in DOMAIN items : i # k => items[i] \notin these
  PROVE  Count(items, these) = IF items[k] \in these THEN 1 ELSE 0
<1>1. CASE items[k] \in these
  <2>1. {i \in DOMAIN items : items[i] \in these} = {k}
    BY <1>1
  <2> QED
    BY <1>1, <2>1, FS_Singleton DEF Count
<1>2. CASE items[k] \notin these
  BY <1>2, CountNone
<1> QED
  BY <1>1, <1>2

\* Replacing the head of a list adds what is new and removes the head.
LEMMA CountSpliced ==
  ASSUME NEW items \in Seq(WorkItem), items # <<>>, NEW new \in Seq(WorkItem), NEW these
  PROVE  Count(new \o Tail(items), these)
           = Count(new, these) + Count(items, these)
             - (IF Head(items) \in these THEN 1 ELSE 0)
<1> DEFINE all == new \o Tail(items)
           A == {i \in DOMAIN new : new[i] \in these}
           B == {i \in 2 .. Len(items) : items[i] \in these}
           C == {k \in DOMAIN all : k \notin 1 .. Len(new) /\ all[k] \in these}
           shift == [i \in B |-> Len(new) + i - 1]
<1>1. Spliced(items, new, all)
  BY Places
<1> HIDE DEF all
<1>2. {k \in DOMAIN all : all[k] \in these} = A \cup C
  BY <1>1 DEF Spliced
<1>3. A \cap C = {}
  BY <1>1 DEF Spliced
<1>4. {i \in DOMAIN items : items[i] \in these}
        = IF Head(items) \in these THEN B \cup {1} ELSE B
  <2>1. \A i : i \in DOMAIN items <=> i = 1 \/ i \in 2 .. Len(items)
    BY <1>1 DEF Spliced
  <2>2. Head(items) = items[1]
    BY <1>1 DEF Spliced
  <2> QED
    BY <2>1, <2>2
<1>5. IsFiniteSet(A) /\ Cardinality(A) = Count(new, these)
  BY CountType DEF Count
<1>6. IsFiniteSet(B) /\ Cardinality(B) \in Nat
  <2>1. B \in SUBSET (2 .. Len(items)) /\ Len(items) \in Nat
    BY <1>1 DEF Spliced
  <2>2. IsFiniteSet(2 .. Len(items))
    BY <2>1, FS_Interval
  <2>3. IsFiniteSet(B)
    BY <2>1, <2>2, FS_Subset
  <2> QED
    BY <2>3, FS_CardinalityType
<1>7. ExistsBijection(B, C)
  <2>1. \A i \in B : Len(new) + i - 1 \in C
    BY <1>1 DEF Spliced
  <2>2. \A k \in C : \E i \in B : k = Len(new) + i - 1
    BY <1>1 DEF Spliced
  <2>3. \A i, j \in B : Len(new) + i - 1 = Len(new) + j - 1 => i = j
    BY <1>1 DEF Spliced
  <2> HIDE DEF B, C
  <2>4. shift \in [B -> C]
    BY <2>1
  <2>5. shift \in Injection(B, C)
    BY <2>3, <2>4 DEF Injection, IsInjective
  <2>6. shift \in Surjection(B, C)
    BY <2>2, <2>4 DEF Surjection
  <2> QED
    BY <2>5, <2>6 DEF ExistsBijection, Bijection
<1>8. IsFiniteSet(C) /\ Cardinality(C) = Cardinality(B)
  BY <1>6, <1>7, FS_Bijection
<1>9. 1 \notin B
  OBVIOUS
<1> HIDE DEF A, B, C
<1>10. Cardinality(A \cup C) = Cardinality(A) + Cardinality(C) - Cardinality({})
  <2>1. Cardinality(A \cup C) = Cardinality(A) + Cardinality(C) - Cardinality(A \cap C)
    BY <1>5, <1>8, FS_Union
  <2> QED
    BY <1>3, <2>1
<1>11. Count(all, these) = Cardinality(A) + Cardinality(B)
  <2>1. Cardinality({}) = 0 /\ Cardinality(A) \in Nat
    BY <1>5, FS_EmptySet, FS_CardinalityType
  <2>2. Count(all, these) = Cardinality(A \cup C)
    BY <1>2 DEF Count
  <2> QED
    BY <1>6, <1>8, <1>10, <2>1, <2>2
<1>12. Count(items, these)
         = Cardinality(B) + (IF Head(items) \in these THEN 1 ELSE 0)
  <2>1. CASE Head(items) \in these
    <3>1. Count(items, these) = Cardinality(B \cup {1})
      BY <1>4, <2>1 DEF Count
    <3>2. Cardinality(B \cup {1}) = Cardinality(B) + 1
      BY <1>6, <1>9, FS_AddElement
    <3> QED
      BY <2>1, <3>1, <3>2
  <2>2. CASE Head(items) \notin these
    <3>1. Count(items, these) = Cardinality(B)
      BY <1>4, <2>2 DEF Count
    <3> QED
      BY <1>6, <2>2, <3>1
  <2> QED
    BY <2>1, <2>2
<1>13. Count(new, these) \in Nat
  BY CountType
<1> QED
  BY <1>5, <1>6, <1>11, <1>12, <1>13 DEF all

-----------------------------------------------------------------------------
(* Actions and the calls that use them *)

\* Which work items use an action of a kind.
LEMMA Users ==
  ASSUME NEW kind \in Kind
  PROVE  /\ \A k : Spawn(k) \in UsersOf(kind) <=> k = kind
         /\ \A k : Remove(k) \in UsersOf(kind) <=> k = kind
         /\ \A k : \A success \in BOOLEAN : Exited(k, success) \in UsersOf(kind) <=> k = kind
         /\ \A item : item.op \in {"on_event", "perform", "assign"}
              => item \notin UsersOf(kind)
<1>1. \A k : Spawn(k) \in UsersOf(kind) <=> k = kind
  BY DEF UsersOf, Spawn, Exited, Remove
<1>2. \A k : Remove(k) \in UsersOf(kind) <=> k = kind
  BY DEF UsersOf, Spawn, Exited, Remove
<1>3. ASSUME NEW k, NEW success \in BOOLEAN
      PROVE  Exited(k, success) \in UsersOf(kind) <=> k = kind
  <2>1. success = TRUE \/ success = FALSE
    OBVIOUS
  <2>2. k = kind => Exited(k, success) \in UsersOf(kind)
    BY <2>1 DEF UsersOf
  <2>3. ASSUME Exited(k, success) \in UsersOf(kind)
        PROVE  k = kind
    <3>1. Exited(k, success).op = "exited" /\ Exited(k, success).kind = k
      BY DEF Exited
    <3>2. \A item \in UsersOf(kind) : item.kind = kind
      BY DEF UsersOf, Spawn, Exited, Remove
    <3> QED
      BY <2>3, <3>1, <3>2
  <2> QED
    BY <2>2, <2>3
<1>4. \A item : item.op \in {"on_event", "perform", "assign"} => item \notin UsersOf(kind)
  BY DEF UsersOf, Spawn, Exited, Remove
<1> QED
  BY <1>1, <1>2, <1>3, <1>4

LEMMA FailedStartUses ==
  ASSUME NEW kind \in Kind, NEW k
  PROVE  Exited(k, FALSE) \in UsersOf(kind) <=> k = kind
<1>1. ASSUME NEW success \in BOOLEAN
      PROVE  Exited(k, success) \in UsersOf(kind) <=> k = kind
  BY Users
<1> QED
  BY <1>1

LEMMA PendingType ==
  ASSUME TypeOK, NEW kind \in Kind
  PROVE  Pending(kind) \in Nat
BY CountType DEF TypeOK, Pending

\* What is pending after the head of the agenda has been replaced.
LEMMA PendingSpliced ==
  ASSUME TypeOK, agenda # <<>>, NEW new \in Seq(WorkItem),
         agenda' = new \o Tail(agenda), NEW kind \in Kind
  PROVE  Count(agenda', UsersOf(kind))
           = Count(new, UsersOf(kind)) + Pending(kind)
             - (IF Head(agenda) \in UsersOf(kind) THEN 1 ELSE 0)
<1>1. agenda \in Seq(WorkItem) /\ agenda' \in Seq(WorkItem)
  BY ReplaceHead DEF TypeOK
<1>2. Count(agenda', UsersOf(kind))
        = Count(new, UsersOf(kind)) + Count(agenda, UsersOf(kind))
          - (IF Head(agenda) \in UsersOf(kind) THEN 1 ELSE 0)
  BY <1>1, CountSpliced
<1> QED
  BY <1>2 DEF Pending

\* Some calls and then one that may use the action.
LEMMA CountLast ==
  ASSUME NEW first \in Seq(WorkItem), NEW item \in WorkItem, NEW kind \in Kind,
         \A i \in DOMAIN first : first[i].op = "on_event"
  PROVE  /\ first \o <<item>> \in Seq(WorkItem)
         /\ Count(first \o <<item>>, UsersOf(kind))
              = IF item \in UsersOf(kind) THEN 1 ELSE 0
<1> DEFINE new == first \o <<item>>
           n == Len(first) + 1
<1>1. /\ new \in Seq(WorkItem) /\ n \in DOMAIN new /\ new[n] = item
      /\ \A i \in DOMAIN new : i # n => i \in DOMAIN first /\ new[i] = first[i]
  OBVIOUS
<1> HIDE DEF new, n
<1>2. \A i \in DOMAIN new : i # n => new[i] \notin UsersOf(kind)
  BY <1>1, Users
<1>3. Count(new, UsersOf(kind)) = IF new[n] \in UsersOf(kind) THEN 1 ELSE 0
  BY <1>1, <1>2, CountOne
<1> QED
  BY <1>1, <1>3 DEF new

\* As many actions of a kind as before are without a user.
Accounted(kind) == Orphans(kind)' = Orphans(kind)

\* When a call is carried out some users of the actions come and some go, and
\* what comes and does not go is what becomes of the scripts and the actions.
Moves(kind, come, gone) ==
  /\ come \in Nat /\ gone \in Nat
  /\ Count(agenda', UsersOf(kind)) = come + Pending(kind) - gone
  /\ actions'[kind] \in Int /\ children'[kind] \in Nat
  /\ come - gone = (actions'[kind] - actions[kind]) - (children'[kind] - children[kind])

LEMMA AccountKept ==
  ASSUME TypeOK, NEW kind \in Kind, NEW come, NEW gone, Moves(kind, come, gone)
  PROVE  Accounted(kind)
<1> DEFINE before == Pending(kind)
           after == Count(agenda', UsersOf(kind))
<1>1. /\ before \in Nat /\ come \in Nat /\ gone \in Nat
      /\ actions[kind] \in Int /\ children[kind] \in Nat
  BY PendingType DEF TypeOK, Moves
<1>2. /\ after = come + before - gone
      /\ actions'[kind] \in Int /\ children'[kind] \in Nat
      /\ come - gone = (actions'[kind] - actions[kind]) - (children'[kind] - children[kind])
  BY DEF Moves
<1> HIDE DEF before, after
<1>3. actions'[kind] - children'[kind] - after = actions[kind] - children[kind] - before
  BY <1>1, <1>2
<1> QED
  BY <1>3 DEF Accounted, Orphans, Pending, before, after

LEMMA PerformAccounted ==
  ASSUME IInv, NEW kind \in Kind, PerformAction
  PROVE  Accounted(kind)
<1> DEFINE action == Head(agenda).action
           first == Prelude(action)
           d == IF action.kind = kind THEN 1 ELSE 0
<1>1. /\ TypeOK /\ agenda # <<>> /\ agenda \in Seq(WorkItem) /\ Head(agenda).op = "perform"
      /\ actions' = [actions EXCEPT ![action.kind] = @ + 1] /\ children' = children
      /\ agenda' = (first \o <<Spawn(action.kind)>>) \o Tail(agenda)
      /\ actions \in [Kind -> Int] /\ children \in [Kind -> Nat]
  BY DEF IInv, TypeOK, PerformAction, Doing
<1>2. action \in Action /\ action.kind \in Kind
  BY <1>1, HeadFields DEF Action
<1>3. /\ first \in Seq(WorkItem) /\ \A i \in DOMAIN first : first[i].op = "on_event"
      /\ Spawn(action.kind) \in WorkItem
  BY <1>2, PreludeEvents DEF OnEvent, Spawn, WorkItem
<1>4. Spawn(action.kind) \in UsersOf(kind) <=> action.kind = kind
  BY Users
<1>5. Head(agenda) \notin UsersOf(kind)
  BY <1>1, Users
<1>6. /\ actions[kind] \in Int /\ actions'[kind] = actions[kind] + d
      /\ children'[kind] = children[kind] /\ children[kind] \in Nat /\ d \in Nat
  BY <1>1, <1>2
<1> HIDE DEF action, first
<1>7. /\ first \o <<Spawn(action.kind)>> \in Seq(WorkItem)
      /\ Count(first \o <<Spawn(action.kind)>>, UsersOf(kind)) = d
  BY <1>3, <1>4, CountLast
<1> HIDE DEF d
<1>8. Count(agenda', UsersOf(kind)) = d + Pending(kind) - 0
  BY <1>1, <1>5, <1>7, PendingSpliced
<1>9. Moves(kind, d, 0)
  BY <1>6, <1>8 DEF Moves
<1> QED
  BY <1>1, <1>9, AccountKept

LEMMA HandleEventAccounted ==
  ASSUME IInv, NEW kind \in Kind, HandleEvent
  PROVE  Accounted(kind)
<1> DEFINE todo == TransformTo(Current(st, Head(agenda).event), Target(st, Head(agenda).event))
           new == [i \in DOMAIN todo |-> Perform(todo[i])]
<1>1. /\ TypeOK /\ agenda # <<>> /\ Head(agenda).op = "on_event"
      /\ actions' = actions /\ children' = children
      /\ todo \in Seq(Action) /\ agenda' = new \o Tail(agenda)
  BY HandleEventShape DEF IInv, HandleEvent
<1>2. new \in Seq(WorkItem)
  BY <1>1, PerformAll
<1>3. \A i \in DOMAIN new : new[i].op = "perform"
  BY DEF Perform
<1> HIDE DEF new
<1>4. Count(new, UsersOf(kind)) = 0
  BY <1>3, Users, CountNone
<1>5. Head(agenda) \notin UsersOf(kind)
  BY <1>1, Users
<1>6. /\ actions[kind] \in Int /\ actions'[kind] = actions[kind]
      /\ children'[kind] = children[kind] /\ children[kind] \in Nat
  BY <1>1 DEF TypeOK
<1>7. Count(agenda', UsersOf(kind)) = 0 + Pending(kind) - 0
  BY <1>1, <1>2, <1>4, <1>5, PendingSpliced
<1>8. Moves(kind, 0, 0)
  BY <1>6, <1>7 DEF Moves
<1> QED
  BY <1>1, <1>8, AccountKept

LEMMA SpawnAccounted ==
  ASSUME IInv, NEW kind \in Kind, SpawnProcess
  PROVE  Accounted(kind)
<1> DEFINE k == Head(agenda).kind
           d == IF k = kind THEN 1 ELSE 0
<1>1. /\ TypeOK /\ agenda # <<>> /\ agenda \in Seq(WorkItem)
      /\ Head(agenda).op = "spawn" /\ k \in Kind
      /\ actions' = actions /\ children' = [children EXCEPT ![k] = @ + 1]
      /\ agenda' = Tail(agenda) /\ children \in [Kind -> Nat]
  BY HeadFields DEF IInv, TypeOK, SpawnProcess, Doing
<1>2. Head(agenda) = Spawn(k)
  BY <1>1, HeadTailRange DEF WorkItem, Spawn, AssignProcess
<1>3. Head(agenda) \in UsersOf(kind) <=> k = kind
  BY <1>2, Users
<1>4. agenda' = <<>> \o Tail(agenda) /\ <<>> \in Seq(WorkItem)
  BY <1>1, HeadTailRange
<1>5. Count(<<>>, UsersOf(kind)) = 0
  BY CountNone, EmptySeq
<1> HIDE DEF k
<1>6. /\ children'[kind] = children[kind] + d /\ children[kind] \in Nat /\ d \in Nat
      /\ actions'[kind] = actions[kind] /\ actions[kind] \in Int
  BY <1>1 DEF TypeOK
<1>7. d = IF Head(agenda) \in UsersOf(kind) THEN 1 ELSE 0
  BY <1>3
<1> HIDE DEF d
<1>8. Count(agenda', UsersOf(kind)) = 0 + Pending(kind) - d
  BY <1>1, <1>4, <1>5, <1>7, PendingSpliced
<1>9. Moves(kind, 0, d)
  BY <1>6, <1>8 DEF Moves
<1> QED
  BY <1>1, <1>9, AccountKept

LEMMA SpawnFailsAccounted ==
  ASSUME IInv, NEW kind \in Kind, SpawnFails
  PROVE  Accounted(kind)
<1> DEFINE k == Head(agenda).kind
           item == Exited(k, FALSE)
           new == <<item, AssignProcess>>
           d == IF Head(agenda) \in UsersOf(kind) THEN 1 ELSE 0
<1>1. /\ TypeOK /\ agenda # <<>> /\ agenda \in Seq(WorkItem)
      /\ Head(agenda).op = "spawn" /\ k \in Kind
      /\ actions' = actions /\ children' = children /\ agenda' = new \o Tail(agenda)
  BY HeadFields DEF IInv, TypeOK, SpawnFails, Doing
<1>2. Head(agenda) = Spawn(k)
  BY <1>1, HeadTailRange DEF WorkItem, Spawn, AssignProcess
<1>3. item \in WorkItem /\ AssignProcess \in WorkItem
  BY <1>1 DEF Exited, WorkItem
<1>4. /\ Head(agenda) \in UsersOf(kind) <=> k = kind
      /\ item \in UsersOf(kind) <=> k = kind
      /\ AssignProcess \notin UsersOf(kind)
  <2>1. AssignProcess.op = "assign"
    BY DEF AssignProcess
  <2>2. item \in UsersOf(kind) <=> k = kind
    BY FailedStartUses
  <2> HIDE DEF item
  <2> QED
    BY <1>2, <2>1, <2>2, Users
<1> HIDE DEF k, item
<1>5. new \in Seq(WorkItem)
  BY <1>3
<1>6. /\ 1 \in DOMAIN new /\ new[1] = item
      /\ \A i \in DOMAIN new : i # 1 => new[i] = AssignProcess
  OBVIOUS
<1> HIDE DEF new
<1>7. Count(new, UsersOf(kind)) = IF new[1] \in UsersOf(kind) THEN 1 ELSE 0
  BY <1>4, <1>6, CountOne
<1>8. Count(new, UsersOf(kind)) = d
  BY <1>4, <1>6, <1>7
<1>9. Count(agenda', UsersOf(kind)) = d + Pending(kind) - d /\ d \in Nat
  BY <1>1, <1>5, <1>8, PendingSpliced
<1>10. /\ actions[kind] \in Int /\ actions'[kind] = actions[kind]
       /\ children'[kind] = children[kind] /\ children[kind] \in Nat
  BY <1>1 DEF TypeOK
<1> HIDE DEF d
<1>11. Moves(kind, d, d)
  BY <1>9, <1>10 DEF Moves
<1> QED
  BY <1>1, <1>11, AccountKept

LEMMA ExitCallbackAccounted ==
  ASSUME IInv, NEW kind \in Kind, ExitCallback
  PROVE  Accounted(kind)
<1> DEFINE k == Head(agenda).kind
           success == Head(agenda).success
           first == Callback(st, k, success)
           d == IF Head(agenda) \in UsersOf(kind) THEN 1 ELSE 0
<1>1. /\ TypeOK /\ agenda # <<>> /\ agenda \in Seq(WorkItem) /\ st \in State
      /\ Head(agenda).op = "exited" /\ k \in Kind /\ success \in BOOLEAN
      /\ actions' = actions /\ children' = children
      /\ agenda' = (first \o <<Remove(k)>>) \o Tail(agenda)
  BY HeadFields DEF IInv, TypeOK, ExitCallback, Doing
<1>2. Head(agenda) = Exited(k, success)
  <2>1. Head(agenda) \in [op : {"exited"}, kind : Kind, success : BOOLEAN]
    BY <1>1, HeadTailRange DEF WorkItem, AssignProcess
  <2> QED
    BY <2>1 DEF Exited
<1>3. /\ first \in Seq(WorkItem) /\ \A i \in DOMAIN first : first[i].op = "on_event"
      /\ Remove(k) \in WorkItem
  BY <1>1, CallbackEvents DEF OnEvent, Remove, WorkItem
<1>4. /\ Head(agenda) \in UsersOf(kind) <=> k = kind
      /\ Remove(k) \in UsersOf(kind) <=> k = kind
  BY <1>1, <1>2, Users
<1> HIDE DEF k, success, first
<1>5. /\ first \o <<Remove(k)>> \in Seq(WorkItem)
      /\ Count(first \o <<Remove(k)>>, UsersOf(kind)) = d
  BY <1>3, <1>4, CountLast
<1>6. Count(agenda', UsersOf(kind)) = d + Pending(kind) - d /\ d \in Nat
  BY <1>1, <1>5, PendingSpliced
<1>7. /\ actions[kind] \in Int /\ actions'[kind] = actions[kind]
      /\ children'[kind] = children[kind] /\ children[kind] \in Nat
  BY <1>1 DEF TypeOK
<1> HIDE DEF d
<1>8. Moves(kind, d, d)
  BY <1>6, <1>7 DEF Moves
<1> QED
  BY <1>1, <1>8, AccountKept

LEMMA RemoveAccounted ==
  ASSUME IInv, NEW kind \in Kind, RemoveAction
  PROVE  Accounted(kind)
<1> DEFINE k == Head(agenda).kind
           d == IF k = kind THEN 1 ELSE 0
<1>1. /\ TypeOK /\ agenda # <<>> /\ agenda \in Seq(WorkItem)
      /\ Head(agenda).op = "remove" /\ k \in Kind
      /\ actions' = [actions EXCEPT ![k] = @ - 1] /\ children' = children
      /\ agenda' = Tail(agenda) /\ actions \in [Kind -> Int]
  BY HeadFields DEF IInv, TypeOK, RemoveAction, Doing
<1>2. Head(agenda) = Remove(k)
  BY <1>1, HeadTailRange DEF WorkItem, Remove, AssignProcess
<1>3. Head(agenda) \in UsersOf(kind) <=> k = kind
  BY <1>2, Users
<1>4. agenda' = <<>> \o Tail(agenda) /\ <<>> \in Seq(WorkItem)
  BY <1>1, HeadTailRange
<1>5. Count(<<>>, UsersOf(kind)) = 0
  BY CountNone, EmptySeq
<1> HIDE DEF k
<1>6. /\ children'[kind] = children[kind] /\ children[kind] \in Nat /\ d \in Nat
      /\ actions'[kind] = actions[kind] - d /\ actions[kind] \in Int
  BY <1>1 DEF TypeOK
<1>7. d = IF Head(agenda) \in UsersOf(kind) THEN 1 ELSE 0
  BY <1>3
<1> HIDE DEF d
<1>8. Count(agenda', UsersOf(kind)) = 0 + Pending(kind) - d
  BY <1>1, <1>4, <1>5, <1>7, PendingSpliced
<1>9. Moves(kind, 0, d)
  BY <1>6, <1>8 DEF Moves
<1> QED
  BY <1>1, <1>9, AccountKept

LEMMA AssignAccounted ==
  ASSUME IInv, NEW kind \in Kind, AssignToFreed
  PROVE  Accounted(kind)
<1>1. /\ TypeOK /\ agenda # <<>> /\ agenda \in Seq(WorkItem)
      /\ Head(agenda).op = "assign" /\ actions' = actions /\ children' = children
      /\ agenda' = Tail(agenda)
  BY DEF IInv, TypeOK, AssignToFreed, Doing
<1>2. Head(agenda) \notin UsersOf(kind)
  BY <1>1, Users
<1>3. agenda' = <<>> \o Tail(agenda) /\ <<>> \in Seq(WorkItem)
  BY <1>1, HeadTailRange
<1>4. Count(<<>>, UsersOf(kind)) = 0
  BY CountNone, EmptySeq
<1>5. /\ actions[kind] \in Int /\ actions'[kind] = actions[kind]
      /\ children'[kind] = children[kind] /\ children[kind] \in Nat
  BY <1>1 DEF TypeOK
<1>6. Count(agenda', UsersOf(kind)) = 0 + Pending(kind) - 0
  BY <1>1, <1>2, <1>3, <1>4, PendingSpliced
<1>7. Moves(kind, 0, 0)
  BY <1>5, <1>6 DEF Moves
<1> QED
  BY <1>1, <1>7, AccountKept

\* Nothing is pending in an idle daemon; what arrives is one item.
LEMMA ArrivalPending ==
  ASSUME Idle, NEW item \in WorkItem, agenda' = <<item>>, NEW kind \in Kind
  PROVE  /\ Pending(kind) = 0
         /\ Count(agenda', UsersOf(kind)) = IF item \in UsersOf(kind) THEN 1 ELSE 0
<1>1. DOMAIN agenda = {}
  BY DEF Idle
<1>2. Pending(kind) = 0
  BY <1>1, CountNone DEF Pending
<1>3. DOMAIN agenda' = {1} /\ agenda'[1] = item
  OBVIOUS
<1>4. Count(agenda', UsersOf(kind)) = IF agenda'[1] \in UsersOf(kind) THEN 1 ELSE 0
  BY <1>3, CountOne
<1> QED
  BY <1>2, <1>3, <1>4

LEMMA DeliverAccounted ==
  ASSUME IInv, NEW kind \in Kind, NEW ev \in Event, Deliver(ev)
  PROVE  Accounted(kind)
<1> DEFINE item == OnEvent(ev)
<1>1. /\ TypeOK /\ Idle /\ agenda' = <<item>> /\ actions' = actions /\ children' = children
      /\ item \in WorkItem /\ item.op = "on_event"
  BY DEF IInv, Deliver, OnEvent, WorkItem
<1> HIDE DEF item
<1>2. Pending(kind) = 0 /\ Count(agenda', UsersOf(kind)) = 0
  BY <1>1, Users, ArrivalPending
<1>3. /\ actions[kind] \in Int /\ actions'[kind] = actions[kind]
      /\ children'[kind] = children[kind] /\ children[kind] \in Nat
  BY <1>1 DEF TypeOK
<1>4. Moves(kind, 0, 0)
  BY <1>2, <1>3 DEF Moves
<1> QED
  BY <1>1, <1>4, AccountKept

LEMMA ScriptExitsAccounted ==
  ASSUME IInv, NEW kind \in Kind,
         NEW k \in Kind, NEW success \in BOOLEAN, ScriptExits(k, success)
  PROVE  Accounted(kind)
<1> DEFINE item == Exited(k, success)
           d == IF k = kind THEN 1 ELSE 0
<1>1. /\ TypeOK /\ Idle /\ agenda' = <<item>> /\ actions' = actions
      /\ children' = [children EXCEPT ![k] = @ - 1] /\ children[k] > 0
      /\ item \in WorkItem
  BY DEF IInv, ScriptExits, Exited, WorkItem
<1>2. item \in UsersOf(kind) <=> k = kind
  BY Users
<1> HIDE DEF item
<1>3. Pending(kind) = 0 /\ Count(agenda', UsersOf(kind)) = d /\ d \in Nat
  BY <1>1, <1>2, ArrivalPending
<1>4. /\ actions[kind] \in Int /\ actions'[kind] = actions[kind]
      /\ children'[kind] = children[kind] - d /\ children[kind] \in Nat
      /\ children'[kind] \in Nat
  BY <1>1 DEF TypeOK
<1> HIDE DEF d
<1>5. Moves(kind, d, 0)
  BY <1>3, <1>4 DEF Moves
<1> QED
  BY <1>1, <1>5, AccountKept

\* A script that SIGTERM killed leaves its action behind, and no other.
LEMMA ScriptTerminatedLeaves ==
  ASSUME IInv, NEW kind \in Kind, NEW k \in Kind, ScriptTerminated(k)
  PROVE  Orphans(kind)' = Orphans(kind) + IF ScriptTerminated(kind) THEN 1 ELSE 0
<1>1. /\ TypeOK /\ agenda' = agenda /\ actions' = actions
      /\ children' = [children EXCEPT ![k] = @ - 1]
  BY DEF ScriptTerminated, IInv
<1>2. Pending(kind) \in Nat /\ actions[kind] \in Int /\ children[kind] \in Nat
  BY <1>1, PendingType DEF TypeOK
<1>3. /\ actions'[kind] = actions[kind]
      /\ children'[kind] = children[kind] - IF k = kind THEN 1 ELSE 0
  BY <1>1, <1>2 DEF TypeOK
<1>4. ScriptTerminated(kind) <=> k = kind
  <2>1. ScriptTerminated(kind) => children'[kind] = children[kind] - 1
    BY <1>1 DEF ScriptTerminated, TypeOK
  <2> QED
    BY <1>2, <1>3, <2>1
<1>5. Count(agenda', UsersOf(kind)) = Pending(kind)
  BY <1>1 DEF Pending
<1> DEFINE d == IF k = kind THEN 1 ELSE 0
           before == Pending(kind)
           after == Count(agenda', UsersOf(kind))
<1> HIDE DEF before, after
<1>6. actions'[kind] - children'[kind] - after = actions[kind] - children[kind] - before + d
  BY <1>2, <1>3, <1>5 DEF before, after
<1> HIDE DEF d
<1>7. Orphans(kind)' = Orphans(kind) + d
  BY <1>6 DEF Orphans, Pending, before, after
<1> QED
  BY <1>4, <1>7 DEF d

LEMMA StepAccounted ==
  ASSUME IInv, Next, Running, Running', NEW kind \in Kind
  PROVE  Orphans(kind)' = Orphans(kind) + IF ScriptTerminated(kind) THEN 1 ELSE 0
<1>1. CASE \E k \in Kind : ScriptTerminated(k)
  BY <1>1, ScriptTerminatedLeaves
<1>2. CASE ~\E k \in Kind : ScriptTerminated(k)
  <2>1. Accounted(kind)
    <3>1. CASE Methods \/ Signals
      BY <3>1, InputType, DeliverAccounted
    <3>2. CASE ScriptEnds
      BY <1>2, <3>2, ScriptExitsAccounted DEF ScriptEnds
    <3>3. CASE Handler
      <4>1. ~StackOverflow
        BY DEF StackOverflow, Running
      <4> QED
        BY <3>3, <4>1, HandleEventAccounted, PerformAccounted, SpawnAccounted,
           SpawnFailsAccounted, ExitCallbackAccounted, RemoveAccounted, AssignAccounted
           DEF Handler
    <3>4. ~Crash /\ ~Restart
      BY DEF Crash, Restart, Running
    <3> QED
      BY <3>1, <3>2, <3>3, <3>4 DEF Next
  <2>2. Orphans(kind) \in Int
    BY PendingType DEF Orphans, IInv, TypeOK
  <2> QED
    BY <1>2, <2>1, <2>2 DEF Accounted
<1> QED
  BY <1>1, <1>2

\* No script and no call in progress ever finds its action freed, and only a
\* script that died of SIGTERM leaves one behind, for all values of the
\* constants (satellite.cpp:152-170).
THEOREM ActionsAlwaysAccounted == Spec => ActionsAccounted
<1> DEFINE Step == \A kind \in Kind :
             Orphans(kind)' = Orphans(kind) + IF ScriptTerminated(kind) THEN 1 ELSE 0
<1>1. IInv /\ [Next]_vars => [Running /\ Running' => Step]_vars
  BY StepAccounted
<1> QED
  BY <1>1, Invariance, PTL DEF Spec, ActionsAccounted

-----------------------------------------------------------------------------
(* Commands given to exec *)

Command == Plain("ShellCommand")
NoCommand == {action \in Action : action # Command}

\* The first n actions of a list are commands, the others are not.
CommandsFirst(todo, n) ==
  n <= Len(todo) /\ \A i \in DOMAIN todo : todo[i] = Command <=> i <= n

LEMMA CommandsStayFirst ==
  ASSUME NEW a \in Seq(Action), NEW b \in Seq(Action), NEW n \in Nat,
         CommandsFirst(a, n), Range(b) \subseteq NoCommand
  PROVE  a \o b \in Seq(Action) /\ CommandsFirst(a \o b, n)
<1> DEFINE all == a \o b
<1>1. /\ all \in Seq(Action) /\ Len(all) = Len(a) + Len(b)
      /\ Len(a) \in Nat /\ Len(b) \in Nat
      /\ DOMAIN a = 1 .. Len(a) /\ DOMAIN b = 1 .. Len(b) /\ DOMAIN all = 1 .. Len(all)
  OBVIOUS
<1>2. \A i \in 1 .. Len(all) : all[i] = IF i <= Len(a) THEN a[i] ELSE b[i - Len(a)]
  OBVIOUS
<1>3. n <= Len(a) /\ \A i \in 1 .. Len(a) : a[i] = Command <=> i <= n
  BY <1>1 DEF CommandsFirst
<1>4. \A i \in 1 .. Len(b) : b[i] # Command
  BY <1>1 DEF Range, NoCommand
<1> HIDE DEF all
<1>5. ASSUME NEW i \in 1 .. Len(all)
      PROVE  all[i] = Command <=> i <= n
  <2>1. CASE i <= Len(a)
    <3>1. i \in 1 .. Len(a) /\ all[i] = a[i]
      BY <1>1, <1>2, <2>1
    <3> QED
      BY <1>3, <3>1
  <2>2. CASE ~(i <= Len(a))
    <3>1. i - Len(a) \in 1 .. Len(b) /\ all[i] = b[i - Len(a)] /\ ~(i <= n)
      BY <1>1, <1>2, <1>3, <2>2
    <3> QED
      BY <1>4, <3>1
  <2> QED
    BY <2>1, <2>2
<1>6. n <= Len(all)
  BY <1>1, <1>3
<1> QED
  BY <1>1, <1>5, <1>6 DEF CommandsFirst, all

\* The rules ask for no command.
LEMMA RulesAskNoCommand ==
  ASSUME NEW s \in State, NEW target \in State
  PROVE  RuleActions(s, target) \in Seq(Action) /\ Range(RuleActions(s, target)) \subseteq NoCommand
<1> DEFINE safe == EmergencyActions(s)
           measuring == When(target.daemon = "WANTMEASURE" /\ FitForMeasuring(s),
                             Plain("TriggerMeasuring"))
           adcs == AdcsActions(s)
<1>1. \A kind \in {"TriggerMeasuring", "TriggerDetumbling", "TriggerSunpointing"} :
        Plain(kind) \in Action /\ Plain(kind) \in NoCommand
  BY DEF Plain, Action, Kind, Safemode, NoCommand, Command
<1>2. \A reason \in {1, 2} :
        EnterSafeMode(reason) \in Action /\ EnterSafeMode(reason) \in NoCommand
  BY DEF EnterSafeMode, Plain, Action, Kind, Safemode, NoCommand, Command
<1>3. safe \in Seq(Action) /\ Range(safe) \subseteq NoCommand
  BY <1>2, WhenAll, ConcatAll DEF EmergencyActions
<1>4. measuring \in Seq(Action) /\ Range(measuring) \subseteq NoCommand
  BY <1>1, WhenAll
<1>5. adcs \in Seq(Action) /\ Range(adcs) \subseteq NoCommand
  BY <1>1, WhenAll, ConcatAll DEF AdcsActions
<1>6. CASE RulesApply(s)
  <2>1. RuleActions(s, target) = (safe \o measuring) \o adcs
    BY <1>6 DEF RuleActions
  <2> HIDE DEF safe, measuring, adcs
  <2>2. safe \o measuring \in Seq(Action) /\ Range(safe \o measuring) \subseteq NoCommand
    BY <1>3, <1>4, ConcatAll
  <2>3. /\ (safe \o measuring) \o adcs \in Seq(Action)
        /\ Range((safe \o measuring) \o adcs) \subseteq NoCommand
    BY <1>5, <2>2, ConcatAll
  <2> QED
    BY <2>1, <2>3
<1>7. CASE ~RulesApply(s)
  <2>1. RuleActions(s, target) = <<>>
    BY <1>7 DEF RuleActions
  <2>2. Range(<<>>) = {} /\ <<>> \in Seq(Action)
    BY EmptySeq DEF Range
  <2> QED
    BY <2>1, <2>2
<1> QED
  BY <1>6, <1>7

\* The table asks for the commands of the target state, and for no other.
LEMMA CommandsOfTarget ==
  ASSUME NEW cur \in State, NEW target \in State
  PROVE  /\ TransformTo(cur, target) \in Seq(Action)
         /\ CommandsFirst(TransformTo(cur, target), target.shell_commands)
<1> DEFINE n == target.shell_commands
           shell == ShellActions(target)
           manual == ManualmodeActions(cur, target)
           safe == SafemodeActions(cur, target)
           leop == LeopActions(cur, target)
           rules == RuleActions(Settle(cur, target), target)
<1>1. \A kind \in {"EnterManualMode", "LeaveManualMode", "LeaveSafeMode", "FinishLEOP"} :
        Plain(kind) \in Action /\ Plain(kind) \in NoCommand
  BY DEF Plain, Action, Kind, Safemode, NoCommand, Command
<1>2. EnterSafeMode(3) \in Action /\ EnterSafeMode(3) \in NoCommand
  BY DEF EnterSafeMode, Plain, Action, Kind, Safemode, NoCommand, Command
<1>3. n \in Nat /\ shell \in Seq(Action) /\ CommandsFirst(shell, n)
  <2>1. n \in Nat
    BY DEF State
  <2>2. Command \in Action
    BY DEF Command, Plain, Action, Kind, Safemode
  <2>3. shell = [i \in 1 .. n |-> Command]
    BY DEF ShellActions, Command
  <2>4. shell \in Seq(Action) /\ Len(shell) = n /\ DOMAIN shell = 1 .. n
    BY <2>1, <2>2, <2>3
  <2> QED
    BY <2>1, <2>3, <2>4 DEF CommandsFirst
<1>4. manual \in Seq(Action) /\ Range(manual) \subseteq NoCommand
  BY <1>1, WhenAll, ConcatAll DEF ManualmodeActions
<1>5. safe \in Seq(Action) /\ Range(safe) \subseteq NoCommand
  BY <1>1, <1>2, WhenAll, ConcatAll DEF SafemodeActions
<1>6. leop \in Seq(Action) /\ Range(leop) \subseteq NoCommand
  BY <1>1, WhenAll DEF LeopActions
<1>7. rules \in Seq(Action) /\ Range(rules) \subseteq NoCommand
  BY TransformToProperty, RulesAskNoCommand
<1>8. TransformTo(cur, target) = (((shell \o manual) \o safe) \o leop) \o rules
  BY DEF TransformTo
<1> HIDE DEF n, shell, manual, safe, leop, rules
<1>9. shell \o manual \in Seq(Action) /\ CommandsFirst(shell \o manual, n)
  BY <1>3, <1>4, CommandsStayFirst
<1>10. /\ (shell \o manual) \o safe \in Seq(Action)
       /\ CommandsFirst((shell \o manual) \o safe, n)
  BY <1>3, <1>5, <1>9, CommandsStayFirst
<1>11. /\ ((shell \o manual) \o safe) \o leop \in Seq(Action)
       /\ CommandsFirst(((shell \o manual) \o safe) \o leop, n)
  BY <1>3, <1>6, <1>10, CommandsStayFirst
<1>12. /\ (((shell \o manual) \o safe) \o leop) \o rules \in Seq(Action)
       /\ CommandsFirst((((shell \o manual) \o safe) \o leop) \o rules, n)
  BY <1>3, <1>7, <1>11, CommandsStayFirst
<1> QED
  BY <1>8, <1>12 DEF n

LEMMA CommandsOfEvent ==
  ASSUME IInv, ModeInv, HandleEvent
  PROVE  Count(agenda', {Perform(Command)})
           = Count(agenda, {Perform(Command)})
             + IF Head(agenda).event = ShellCommandReq THEN 1 ELSE 0
<1> DEFINE ev == Head(agenda).event
           target == Target(st, ev)
           n == target.shell_commands
           todo == TransformTo(Current(st, ev), target)
           new == [i \in DOMAIN todo |-> Perform(todo[i])]
           these == {Perform(Command)}
<1>1. /\ ev \in Event /\ st \in State /\ agenda \in Seq(WorkItem) /\ agenda # <<>>
      /\ Head(agenda).op = "on_event"
      /\ Current(st, ev) \in State /\ target \in State
      /\ todo \in Seq(Action) /\ agenda' = new \o Tail(agenda)
  BY HandleEventShape
<1>2. n = IF ev = ShellCommandReq THEN 1 ELSE 0
  <2>1. n = IF ev[1] = "ShellCommandReq" THEN st.shell_commands + 1 ELSE st.shell_commands
    BY <1>1, UpdateFields DEF Target
  <2>2. st.shell_commands = 0
    BY DEF ModeInv, NoCommandLeft
  <2>3. ev[1] = "ShellCommandReq" <=> ev = ShellCommandReq
    BY <1>1 DEF Event, ShellCommandReq
  <2> HIDE DEF ev, n
  <2> QED
    BY <2>1, <2>2, <2>3
<1>3. CommandsFirst(todo, n)
  BY <1>1, CommandsOfTarget
<1>4. new \in Seq(WorkItem)
  BY <1>1, PerformAll
<1>5. \A i \in DOMAIN todo : new[i] \in these <=> todo[i] = Command
  BY DEF Perform
<1>6. DOMAIN new = DOMAIN todo /\ DOMAIN todo = 1 .. Len(todo) /\ Len(todo) \in Nat
  BY <1>1
<1>7. Head(agenda) \notin these
  BY <1>1 DEF Perform
<1>8. n \in Nat
  BY <1>2
<1> HIDE DEF ev, target, todo, new, these, n
<1>9. {i \in DOMAIN new : new[i] \in these} = 1 .. n
  BY <1>3, <1>5, <1>6, <1>8 DEF CommandsFirst
<1>10. Count(new, these) = n
  <2>1. Cardinality(1 .. n) = n
    BY <1>8, FS_Interval
  <2>2. Count(new, these) = Cardinality({i \in DOMAIN new : new[i] \in these})
    BY DEF Count
  <2> QED
    BY <1>9, <2>1, <2>2
<1>11. Count(new \o Tail(agenda), these)
         = Count(new, these) + Count(agenda, these)
           - (IF Head(agenda) \in these THEN 1 ELSE 0)
  BY <1>1, <1>4, CountSpliced
<1>12. Count(agenda, these) \in Nat
  BY <1>1, CountType
<1>13. Count(agenda', these) = Count(agenda, these) + n
  BY <1>1, <1>7, <1>8, <1>10, <1>11, <1>12
<1> QED
  BY <1>2, <1>13 DEF ev, these

\* A command given to exec is run once, whatever events come before and after
\* it, for all values of the constants (computer.cpp:20-28).
THEOREM CommandsRunOnce == Spec => CommandRunsOnce
<1>1. IInv /\ ModeInv /\ [Next]_vars =>
        [HandleEvent => Count(agenda', {Perform(Command)})
                        = Count(agenda, {Perform(Command)})
                          + IF Head(agenda).event = ShellCommandReq THEN 1 ELSE 0]_vars
  BY CommandsOfEvent
<1> QED
  BY <1>1, ModeInvariance, PTL DEF Spec, CommandRunsOnce, Command

=============================================================================
