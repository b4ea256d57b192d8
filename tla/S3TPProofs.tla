----------------------------- MODULE S3TPProofs ------------------------------
(***************************************************************************)
(* That the S3TP server handles data of the right type, and what it rests  *)
(* on: the order of the calls that a callback has still to do, and what    *)
(* they may assume of the connection and of the timer.                     *)
(***************************************************************************)
EXTENDS S3TPServer, SequenceTheorems, TLAPS

-----------------------------------------------------------------------------
(* The stack of calls *)

\* The name of a call; that of send() is the type of what it sends.
Name(call) == IF call.fn = "send" THEN call.msg.type ELSE call.fn

\* How deep in the stack a call is found.
Depth(name) ==
  CASE name \in {"reconnect", "close"} -> 1
    [] name = "send_buf" -> 2
    [] name \in {"update_events", "STDOUT", "ENDOFFILE"} -> 3
    [] name = "forget" -> 4
    [] name = "disconnect" -> 5
    [] name \in {"spawn", "assign"} -> 6
    [] name = "STARTED" -> 7
    [] name = "start_output" -> 8
    [] name \in {"header", "body", "erase"} -> 9

Names(stack) == {Name(stack[i]) : i \in DOMAIN stack}

\* The calls lie on each other in one order, so that none occurs twice.
Ordered(stack) ==
  \A i, j \in DOMAIN stack : i < j => Depth(Name(stack[i])) < Depth(Name(stack[j]))

IsStack(stack) == stack \in Seq(CallItem) /\ Ordered(stack)

\* name may be called while the names of rest wait.
Above(name, rest) == \A below \in rest : Depth(name) < Depth(below)

\* stack is made of a call of that name and of rest.
Pushed(name, rest, stack) ==
  /\ IsStack(stack) /\ stack # <<>>
  /\ Names(stack) = {name} \cup Names(rest)

-----------------------------------------------------------------------------
\* The empty stack.
LEMMA Empty == IsStack(<<>>) /\ Names(<<>>) = {}
BY DEF IsStack, Ordered, Names

\* What the innermost call leaves behind.
LEMMA Pop ==
  ASSUME NEW stack, IsStack(stack), stack # <<>>
  PROVE  /\ IsStack(Tail(stack)) /\ Head(stack) \in CallItem
         /\ Above(Name(Head(stack)), Names(Tail(stack)))
         /\ Names(stack) = {Name(Head(stack))} \cup Names(Tail(stack))
<1> DEFINE rest == Tail(stack)
<1>1. /\ stack \in Seq(CallItem) /\ rest \in Seq(CallItem) /\ Head(stack) = stack[1]
      /\ Head(stack) \in CallItem
      /\ Len(rest) = Len(stack) - 1 /\ Len(stack) \in Nat \ {0}
      /\ \A i \in 1 .. Len(rest) : rest[i] = stack[i + 1]
  BY DEF IsStack
<1>2. DOMAIN stack = 1 .. Len(stack) /\ DOMAIN rest = 1 .. Len(rest)
  BY <1>1
<1> HIDE DEF rest
<1>3. \A i \in DOMAIN rest : i + 1 \in DOMAIN stack /\ rest[i] = stack[i + 1] /\ 1 < i + 1
  BY <1>1, <1>2
<1>4. 1 \in DOMAIN stack
  BY <1>1, <1>2
<1>5. \A i \in DOMAIN stack : i = 1 \/ (i - 1 \in DOMAIN rest /\ rest[i - 1] = stack[i])
  BY <1>1, <1>2
<1>6. Ordered(rest)
  <2> SUFFICES ASSUME NEW i \in DOMAIN rest, NEW j \in DOMAIN rest, i < j
               PROVE  Depth(Name(rest[i])) < Depth(Name(rest[j]))
    BY DEF Ordered
  <2>1. i + 1 < j + 1
    BY <1>2
  <2> QED
    BY <2>1, <1>3 DEF Ordered, IsStack
<1>7. Above(Name(Head(stack)), Names(rest))
  BY <1>1, <1>3, <1>4 DEF Above, Names, IsStack, Ordered
<1>8. Names(stack) = {Name(Head(stack))} \cup Names(rest)
  <2>1. \A name : name \in Names(stack) <=> \E i \in DOMAIN stack : name = Name(stack[i])
    BY DEF Names
  <2>2. \A name : name \in Names(rest) <=> \E i \in DOMAIN rest : name = Name(rest[i])
    BY DEF Names
  <2> QED
    BY <2>1, <2>2, <1>1, <1>3, <1>4, <1>5
<1> QED
  BY <1>1, <1>6, <1>7, <1>8 DEF IsStack, rest

\* A call is put on a stack.
LEMMA Push ==
  ASSUME NEW call \in CallItem, NEW rest, IsStack(rest),
         Above(Name(call), Names(rest))
  PROVE  Pushed(Name(call), rest, <<call>> \o rest) /\ Head(<<call>> \o rest) = call
<1> DEFINE stack == <<call>> \o rest
<1>1. /\ rest \in Seq(CallItem) /\ stack \in Seq(CallItem) /\ stack # <<>>
      /\ Head(stack) = call /\ stack[1] = call
      /\ Len(rest) = Len(stack) - 1 /\ Len(stack) \in Nat \ {0}
      /\ \A i \in 1 .. Len(rest) : rest[i] = stack[i + 1]
  BY DEF IsStack
<1>2. DOMAIN stack = 1 .. Len(stack) /\ DOMAIN rest = 1 .. Len(rest)
  BY <1>1
<1> HIDE DEF stack
<1>4. 1 \in DOMAIN stack
  BY <1>1, <1>2
<1>5. \A i \in DOMAIN stack : i = 1 \/ (i - 1 \in DOMAIN rest /\ rest[i - 1] = stack[i])
  BY <1>1, <1>2
<1>3. \A i \in DOMAIN rest : i + 1 \in DOMAIN stack /\ rest[i] = stack[i + 1]
  BY <1>1, <1>2
<1>6. Ordered(stack)
  <2> SUFFICES ASSUME NEW i \in DOMAIN stack, NEW j \in DOMAIN stack, i < j
               PROVE  Depth(Name(stack[i])) < Depth(Name(stack[j]))
    BY DEF Ordered
  <2>1. j # 1 /\ (i # 1 => i - 1 < j - 1)
    BY <1>2
  <2>2. CASE i = 1
    BY <2>1, <2>2, <1>1, <1>5 DEF Above, Names
  <2>3. CASE i # 1
    BY <2>1, <2>3, <1>5 DEF IsStack, Ordered
  <2> QED
    BY <2>2, <2>3
<1>7. Names(stack) = {Name(call)} \cup Names(rest)
  <2>1. \A name : name \in Names(stack) <=> \E i \in DOMAIN stack : name = Name(stack[i])
    BY DEF Names
  <2>2. \A name : name \in Names(rest) <=> \E i \in DOMAIN rest : name = Name(rest[i])
    BY DEF Names
  <2> QED
    BY <2>1, <2>2, <1>1, <1>3, <1>4, <1>5
<1> QED
  BY <1>1, <1>6, <1>7 DEF IsStack, Pushed, stack

-----------------------------------------------------------------------------
(* What each step does to the stack *)

Pending == Names(calls)

\* The innermost call is that name, and gives way to the calls of new.
Turns(name, new) ==
  /\ IsStack(calls')
  /\ Above(name, Names(Tail(calls)))
  /\ Pending = {name} \cup Names(Tail(calls))
  /\ Names(calls') = new \cup Names(Tail(calls))

LEMMA HeadNamed ==
  ASSUME IsStack(calls), NEW fn, Doing(fn)
  PROVE  /\ calls # <<>> /\ Head(calls) \in CallItem /\ Head(calls).fn = fn
         /\ fn # "send" => Name(Head(calls)) = fn
         /\ fn = "send" => /\ Head(calls).msg \in ServerMessage
                           /\ Name(Head(calls)) = Head(calls).msg.type
<1>1. calls # <<>> /\ Head(calls) \in CallItem /\ Head(calls).fn = fn
  BY Pop DEF Doing
<1>2. fn # "send" => Name(Head(calls)) = fn
  BY <1>1 DEF Name
<1>3. fn = "send" => Head(calls) \in [fn : {"send"}, msg : ServerMessage]
  BY <1>1 DEF CallItem
<1> QED
  BY <1>1, <1>2, <1>3 DEF Name

\* The calls that are pushed, and their names.
LEMMA CallNames ==
  /\ \A fn \in {"reconnect", "close", "send_buf", "update_events", "header",
                "spawn", "assign", "start_output", "erase", "forget",
                "disconnect"} : Call(fn) \in CallItem /\ Name(Call(fn)) = fn
  /\ \A msg \in ServerMessage :
        SendCall(msg) \in CallItem /\ Name(SendCall(msg)) = msg.type
  /\ \A type \in MessageType :
        BodyCall(type) \in CallItem /\ Name(BodyCall(type)) = "body"
BY DEF Call, SendCall, BodyCall, Name, CallItem

LEMMA MessageTypes ==
  /\ Started \in ServerMessage /\ Started.type = "STARTED"
  /\ Exit \in ServerMessage /\ Exit.type = "ENDOFFILE"
  /\ \A n \in Nat : Output(n) \in ServerMessage /\ Output(n).type = "STDOUT"
  /\ \A msg \in ServerMessage : msg.type \in {"STARTED", "STDOUT", "ENDOFFILE"}
BY DEF Started, Exit, Output, ServerMessage

\* Sequences of calls, and what they are on a stack.
LEMMA Two ==
  ASSUME NEW S, NEW a \in S, NEW b \in S
  PROVE  <<a, b>> = <<a>> \o <<b>>
<1> DEFINE x == <<a>> \o <<b>>
           y == <<a, b>>
<1>1. x \in Seq(S) /\ Len(x) = 2 /\ x[1] = a /\ x[2] = b
  OBVIOUS
<1>2. y \in Seq(S) /\ Len(y) = 2 /\ y[1] = a /\ y[2] = b
  OBVIOUS
<1> HIDE DEF x, y
<1>3. x = y
  BY <1>1, <1>2, SeqEqual
<1> QED
  BY <1>3 DEF x, y

LEMMA Three ==
  ASSUME NEW S, NEW a \in S, NEW b \in S, NEW c \in S
  PROVE  <<a, b, c>> = <<a>> \o <<b, c>>
<1> DEFINE x == <<a>> \o <<b, c>>
           y == <<a, b, c>>
<1>1. x \in Seq(S) /\ Len(x) = 3 /\ x[1] = a /\ x[2] = b /\ x[3] = c
  OBVIOUS
<1>2. y \in Seq(S) /\ Len(y) = 3 /\ y[1] = a /\ y[2] = b /\ y[3] = c
  OBVIOUS
<1> HIDE DEF x, y
<1>3. x = y
  BY <1>1, <1>2, SeqEqual
<1> QED
  BY <1>3 DEF x, y

LEMMA TwoOn ==
  ASSUME NEW S, NEW rest \in Seq(S), NEW a \in S, NEW b \in S
  PROVE  <<a, b>> \o rest = <<a>> \o (<<b>> \o rest)
<1> DEFINE first == <<a>>
           second == <<b>>
           whole == <<a, b>>
<1>1. whole = first \o second
  BY Two
<1>2. first \in Seq(S) /\ second \in Seq(S)
  OBVIOUS
<1> HIDE DEF first, second, whole
<1>3. whole \o rest = first \o (second \o rest)
  BY <1>1, <1>2, ConcatAssociative
<1> QED
  BY <1>3 DEF first, second, whole

LEMMA ThreeOn ==
  ASSUME NEW rest \in Seq(CallItem), NEW a \in CallItem, NEW b \in CallItem,
         NEW c \in CallItem
  PROVE  <<a, b, c>> \o rest = <<a>> \o (<<b, c>> \o rest)
<1> DEFINE first == <<a>>
           second == <<b, c>>
           whole == <<a, b, c>>
<1>1. whole = first \o second
  BY Three
<1>2. first \in Seq(CallItem) /\ second \in Seq(CallItem)
  OBVIOUS
<1> HIDE DEF first, second, whole
<1>3. whole \o rest = first \o (second \o rest)
  BY <1>1, <1>2, ConcatAssociative
<1> QED
  BY <1>3 DEF first, second, whole

LEMMA FourOn ==
  ASSUME NEW rest \in Seq(CallItem), NEW a \in CallItem, NEW b \in CallItem,
         NEW c \in CallItem, NEW d \in CallItem
  PROVE  <<a, b, c, d>> \o rest = <<a>> \o (<<b, c, d>> \o rest)
<1> DEFINE first == <<a>>
           second == <<b, c, d>>
           whole == <<a, b, c, d>>
           both == first \o second
<1>1. /\ both \in Seq(CallItem) /\ Len(both) = 4
      /\ both[1] = a /\ both[2] = b /\ both[3] = c /\ both[4] = d
  OBVIOUS
<1>2. /\ whole \in Seq(CallItem) /\ Len(whole) = 4
      /\ whole[1] = a /\ whole[2] = b /\ whole[3] = c /\ whole[4] = d
  OBVIOUS
<1>3. first \in Seq(CallItem)
  OBVIOUS
<1>4. second \in Seq(CallItem)
  OBVIOUS
<1> HIDE DEF both, whole
<1>5. whole = both
  BY <1>1, <1>2, SeqEqual
<1> HIDE DEF first, second, whole
<1>6. whole \o rest = first \o (second \o rest)
  BY <1>3, <1>4, <1>5, ConcatAssociative DEF both
<1> QED
  BY <1>6 DEF first, second, whole

\* The names of calls, and their depths.
CallName ==
  {"reconnect", "close", "header", "body", "spawn", "send_buf", "STDOUT",
   "ENDOFFILE", "update_events", "forget", "disconnect", "assign", "STARTED",
   "start_output", "erase"}

LEMMA Depths ==
  /\ Depth("reconnect") = 1 /\ Depth("close") = 1 /\ Depth("send_buf") = 2
  /\ Depth("update_events") = 3 /\ Depth("STDOUT") = 3 /\ Depth("ENDOFFILE") = 3
  /\ Depth("forget") = 4 /\ Depth("disconnect") = 5
  /\ Depth("spawn") = 6 /\ Depth("assign") = 6
  /\ Depth("STARTED") = 7 /\ Depth("start_output") = 8
  /\ Depth("header") = 9 /\ Depth("body") = 9 /\ Depth("erase") = 9
BY DEF Depth

LEMMA NamesAreNames ==
  ASSUME NEW stack, IsStack(stack)
  PROVE  Names(stack) \subseteq CallName
<1>1. \A call \in CallItem : Name(call) \in CallName
  BY MessageTypes DEF CallItem, Name, CallName
<1>2. \A i \in DOMAIN stack : stack[i] \in CallItem
  BY DEF IsStack
<1> QED
  BY <1>1, <1>2 DEF Names

\* What may be called over rest may be called over it with a call in between.
LEMMA AboveMore ==
  ASSUME NEW rest, IsStack(rest), NEW name \in CallName, NEW under \in CallName,
         Above(under, Names(rest)), Depth(name) <= Depth(under)
  PROVE  Above(name, Names(rest))
<1>1. \A m \in CallName : Depth(m) \in Int
  BY Depths DEF CallName
<1> QED
  BY <1>1, NamesAreNames DEF Above

LEMMA PushOne ==
  ASSUME NEW rest, IsStack(rest), NEW a \in CallItem, Above(Name(a), Names(rest))
  PROVE  /\ IsStack(<<a>> \o rest)
         /\ Names(<<a>> \o rest) = {Name(a)} \cup Names(rest)
BY Push DEF Pushed

LEMMA PushTwo ==
  ASSUME NEW rest, IsStack(rest), NEW a \in CallItem, NEW b \in CallItem,
         Above(Name(b), Names(rest)), Name(a) \in CallName, Name(b) \in CallName,
         Depth(Name(a)) < Depth(Name(b))
  PROVE  /\ IsStack(<<a, b>> \o rest)
         /\ Names(<<a, b>> \o rest) = {Name(a), Name(b)} \cup Names(rest)
<1> DEFINE second == <<b>> \o rest
<1>1. IsStack(second) /\ Names(second) = {Name(b)} \cup Names(rest)
  BY PushOne
<1>2. Depth(Name(a)) <= Depth(Name(b))
  BY Depths DEF CallName
<1>3. Above(Name(a), Names(rest))
  BY <1>2, AboveMore
<1>4. Above(Name(a), Names(second))
  BY <1>1, <1>3 DEF Above
<1>5. <<a, b>> \o rest = <<a>> \o second
  BY TwoOn DEF IsStack
<1> HIDE DEF second
<1>6. /\ IsStack(<<a>> \o second)
      /\ Names(<<a>> \o second) = {Name(a)} \cup Names(second)
  BY <1>1, <1>4, PushOne
<1> QED
  BY <1>1, <1>5, <1>6

LEMMA PushThree ==
  ASSUME NEW rest, IsStack(rest),
         NEW a \in CallItem, NEW b \in CallItem, NEW c \in CallItem,
         Above(Name(c), Names(rest)),
         Name(a) \in CallName, Name(b) \in CallName, Name(c) \in CallName,
         Depth(Name(a)) < Depth(Name(b)), Depth(Name(b)) < Depth(Name(c))
  PROVE  /\ IsStack(<<a, b, c>> \o rest)
         /\ Names(<<a, b, c>> \o rest) = {Name(a), Name(b), Name(c)} \cup Names(rest)
<1> DEFINE second == <<b, c>> \o rest
<1>1. IsStack(second) /\ Names(second) = {Name(b), Name(c)} \cup Names(rest)
  BY PushTwo
<1>2. Depth(Name(a)) <= Depth(Name(c)) /\ Depth(Name(a)) < Depth(Name(c))
  BY Depths DEF CallName
<1>3. Above(Name(a), Names(rest))
  BY <1>2, AboveMore
<1>4. Above(Name(a), Names(second))
  BY <1>1, <1>2, <1>3 DEF Above
<1>5. <<a, b, c>> \o rest = <<a>> \o second
  <2>1. rest \in Seq(CallItem)
    BY DEF IsStack
  <2> QED
    BY <2>1, ThreeOn, SMTT(30)
<1> HIDE DEF second
<1>6. /\ IsStack(<<a>> \o second)
      /\ Names(<<a>> \o second) = {Name(a)} \cup Names(second)
  BY <1>1, <1>4, PushOne
<1> QED
  BY <1>1, <1>5, <1>6

LEMMA PushFour ==
  ASSUME NEW rest, IsStack(rest), NEW a \in CallItem, NEW b \in CallItem,
         NEW c \in CallItem, NEW d \in CallItem, Above(Name(d), Names(rest)),
         Name(a) \in CallName, Name(b) \in CallName, Name(c) \in CallName,
         Name(d) \in CallName,
         Depth(Name(a)) < Depth(Name(b)), Depth(Name(b)) < Depth(Name(c)),
         Depth(Name(c)) < Depth(Name(d))
  PROVE  /\ IsStack(<<a, b, c, d>> \o rest)
         /\ Names(<<a, b, c, d>> \o rest)
              = {Name(a), Name(b), Name(c), Name(d)} \cup Names(rest)
<1> DEFINE second == <<b, c, d>> \o rest
<1>1. IsStack(second) /\ Names(second) = {Name(b), Name(c), Name(d)} \cup Names(rest)
  BY PushThree
<1>2. /\ Depth(Name(a)) <= Depth(Name(d)) /\ Depth(Name(a)) < Depth(Name(d))
      /\ Depth(Name(a)) < Depth(Name(c))
  BY Depths DEF CallName
<1>3. Above(Name(a), Names(rest))
  BY <1>2, AboveMore
<1>4. Above(Name(a), Names(second))
  BY <1>1, <1>2, <1>3 DEF Above
<1>5. <<a, b, c, d>> \o rest = <<a>> \o second
  <2>1. rest \in Seq(CallItem)
    BY DEF IsStack
  <2> HIDE DEF second
  <2>2. <<a, b, c, d>> \o rest = <<a>> \o (<<b, c, d>> \o rest)
    BY <2>1, FourOn, SMTT(60)
  <2> QED
    BY <2>2 DEF second
<1> HIDE DEF second
<1>6. /\ IsStack(<<a>> \o second)
      /\ Names(<<a>> \o second) = {Name(a)} \cup Names(second)
  BY <1>1, <1>4, PushOne
<1> QED
  BY <1>1, <1>5, <1>6

-----------------------------------------------------------------------------
(* What the handlers do to the stack *)

LEMMA TurnsNone ==
  ASSUME IsStack(calls), NEW fn, Doing(fn), Continue(<<>>)
  PROVE  Turns(Name(Head(calls)), {})
<1>1. calls # <<>>
  BY HeadNamed
<1>2. IsStack(Tail(calls))
  BY <1>1, Pop
<1>3. calls' = Tail(calls)
  BY <1>2, ConcatEmptySeq DEF Continue, IsStack
<1> QED
  BY <1>1, <1>3, Pop DEF Turns, Pending

LEMMA TurnsOne ==
  ASSUME IsStack(calls), NEW fn, Doing(fn), NEW a \in CallItem, Continue(<<a>>),
         Above(Name(a), Names(Tail(calls)))
  PROVE  Turns(Name(Head(calls)), {Name(a)})
<1>1. calls # <<>>
  BY HeadNamed
<1>2. IsStack(Tail(calls))
  BY <1>1, Pop
<1>3. /\ IsStack(<<a>> \o Tail(calls))
      /\ Names(<<a>> \o Tail(calls)) = {Name(a)} \cup Names(Tail(calls))
  BY <1>2, PushOne
<1> QED
  BY <1>1, <1>3, Pop DEF Turns, Pending, Continue

\* What may be called in place of the innermost call.
LEMMA AboveTail ==
  ASSUME IsStack(calls), calls # <<>>, NEW name \in CallName,
         Name(Head(calls)) \in CallName, Depth(name) <= Depth(Name(Head(calls)))
  PROVE  Above(name, Names(Tail(calls)))
BY Pop, AboveMore

\* The calls of a handler that has the names of new, in the order of their
\* depths.
LEMMA HandlerTurns ==
  ASSUME IsStack(calls)
  PROVE  /\ KillFirst \/ BindSucceeds \/ BindFails => Turns("reconnect", {})
         /\ close => Turns("close", {"reconnect"})
         /\ send => Turns(Head(calls).msg.type, {"send_buf", "update_events"})
         /\ SendSucceeds \/ SendFindsFull => Turns("send_buf", {})
         /\ SendFails => Turns("send_buf", {"close"})
         /\ Return => Turns(Name(Head(calls)), {})
         /\ HeaderKnown => Turns("header", {"body"})
         /\ ReceiveInput => Turns("body", {"erase"})
         /\ ReceiveCommand =>
              Turns("body", {"spawn", "STARTED", "start_output", "erase"})
         /\ SpawnSucceeds => Turns("spawn", {})
         /\ SpawnFails =>
              Turns("spawn", {"ENDOFFILE", "forget", "disconnect", "assign"})
         /\ AssignFailed => Turns("assign", {})
         /\ start_output => Turns("start_output", {})
         /\ EraseMessage => Turns("erase", {})
         /\ ForgetProcess => Turns("forget", {})
         /\ SendRemaining => Turns("disconnect", {"send_buf"})
         /\ Disconnect => Turns("disconnect", {})
<1>1. \A fn : Doing(fn) /\ Continue(<<>>) => Turns(Name(Head(calls)), {})
  BY TurnsNone
<1>2. \A fn : Doing(fn) => calls # <<>> /\ (fn # "send" => Name(Head(calls)) = fn)
  BY HeadNamed
<1>3. ASSUME NEW fn, Doing(fn), NEW a \in CallItem, Continue(<<a>>),
             Name(a) \in CallName, Name(Head(calls)) \in CallName,
             Depth(Name(a)) <= Depth(Name(Head(calls)))
      PROVE  Turns(Name(Head(calls)), {Name(a)})
  <2>1. Above(Name(a), Names(Tail(calls)))
    BY <1>2, <1>3, AboveTail
  <2> QED
    BY <1>3, <2>1, TurnsOne
<1>4. KillFirst \/ BindSucceeds \/ BindFails => Turns("reconnect", {})
  BY <1>1, <1>2 DEF KillFirst, BindSucceeds, BindFails, Reconnecting
<1>5. SendSucceeds \/ SendFindsFull => Turns("send_buf", {})
  BY <1>1, <1>2 DEF SendSucceeds, SendFindsFull, Sending
<1>6. Return => Turns(Name(Head(calls)), {})
  BY <1>1 DEF Return
<1>7. /\ SpawnSucceeds => Turns("spawn", {})
      /\ AssignFailed => Turns("assign", {})
      /\ start_output => Turns("start_output", {})
      /\ ForgetProcess => Turns("forget", {})
  BY <1>1, <1>2 DEF SpawnSucceeds, AssignFailed, start_output, ForgetProcess, SetProcess
<1>8. /\ EraseMessage => Turns("erase", {})
      /\ Disconnect => Turns("disconnect", {})
  BY <1>1, <1>2 DEF EraseMessage, Disconnect
<1>9. close => Turns("close", {"reconnect"})
  <2> SUFFICES ASSUME close PROVE Turns("close", {"reconnect"})
    OBVIOUS
  <2>1. Doing("close") /\ Name(Head(calls)) = "close"
    BY <1>2 DEF close
  <2>2. Continue(<<Call("reconnect")>>)
    BY DEF close, LoseChannel, Continue
  <2>3. Call("reconnect") \in CallItem /\ Name(Call("reconnect")) = "reconnect"
    BY CallNames
  <2> QED
    BY <2>1, <2>2, <2>3, <1>3, Depths DEF CallName
<1>10. SendFails => Turns("send_buf", {"close"})
  <2> SUFFICES ASSUME SendFails PROVE Turns("send_buf", {"close"})
    OBVIOUS
  <2>1. Doing("send_buf") /\ Name(Head(calls)) = "send_buf"
    BY <1>2 DEF SendFails, Sending
  <2>2. Continue(<<Call("close")>>)
    BY DEF SendFails
  <2>3. Call("close") \in CallItem /\ Name(Call("close")) = "close"
    BY CallNames
  <2> QED
    BY <2>1, <2>2, <2>3, <1>3, Depths DEF CallName
<1>11. HeaderKnown => Turns("header", {"body"})
  <2> SUFFICES ASSUME HeaderKnown PROVE Turns("header", {"body"})
    OBVIOUS
  <2>1. Doing("header") /\ Name(Head(calls)) = "header"
    BY <1>2 DEF HeaderKnown
  <2>2. PICK type \in MessageType : Continue(<<BodyCall(type)>>)
    BY DEF HeaderKnown
  <2>3. BodyCall(type) \in CallItem /\ Name(BodyCall(type)) = "body"
    BY CallNames
  <2> QED
    BY <2>1, <2>2, <2>3, <1>3, Depths DEF CallName
<1>12. ReceiveInput => Turns("body", {"erase"})
  <2> SUFFICES ASSUME ReceiveInput PROVE Turns("body", {"erase"})
    OBVIOUS
  <2>1. Doing("body") /\ Name(Head(calls)) = "body"
    BY <1>2 DEF ReceiveInput
  <2>2. Continue(<<Call("erase")>>)
    BY DEF ReceiveInput
  <2>3. Call("erase") \in CallItem /\ Name(Call("erase")) = "erase"
    BY CallNames
  <2> QED
    BY <2>1, <2>2, <2>3, <1>3, Depths DEF CallName
<1>13. SendRemaining => Turns("disconnect", {"send_buf"})
  <2> SUFFICES ASSUME SendRemaining PROVE Turns("disconnect", {"send_buf"})
    OBVIOUS
  <2>1. Doing("disconnect") /\ Name(Head(calls)) = "disconnect"
    BY <1>2 DEF SendRemaining
  <2>2. Continue(<<Call("send_buf")>>)
    BY DEF SendRemaining
  <2>3. Call("send_buf") \in CallItem /\ Name(Call("send_buf")) = "send_buf"
    BY CallNames
  <2> QED
    BY <2>1, <2>2, <2>3, <1>3, Depths DEF CallName
<1>14. send => Turns(Head(calls).msg.type, {"send_buf", "update_events"})
  <2> SUFFICES ASSUME send
               PROVE Turns(Head(calls).msg.type, {"send_buf", "update_events"})
    OBVIOUS
  <2> DEFINE a == Call("send_buf")
             b == Call("update_events")
             rest == Tail(calls)
             type == Head(calls).msg.type
  <2>1. Doing("send") /\ calls' = <<a, b>> \o rest
    BY DEF send, Continue
  <2>2. calls # <<>> /\ Name(Head(calls)) = type /\ type \in {"STARTED", "STDOUT", "ENDOFFILE"}
    BY <2>1, HeadNamed, MessageTypes
  <2>3. /\ IsStack(rest) /\ Above(type, Names(rest))
        /\ Pending = {type} \cup Names(rest)
    BY <2>2, Pop DEF Pending
  <2>4. /\ a \in CallItem /\ Name(a) = "send_buf"
        /\ b \in CallItem /\ Name(b) = "update_events"
    BY CallNames
  <2>5. /\ type \in CallName /\ Name(a) \in CallName /\ Name(b) \in CallName
        /\ Depth(Name(a)) < Depth(Name(b)) /\ Depth(Name(b)) <= Depth(type)
    BY <2>2, <2>4, Depths DEF CallName
  <2> HIDE DEF a, b, rest, type
  <2>6. Above(Name(b), Names(rest))
    BY <2>3, <2>5, AboveMore
  <2>7. /\ IsStack(<<a, b>> \o rest)
        /\ Names(<<a, b>> \o rest) = {Name(a), Name(b)} \cup Names(rest)
    BY <2>3, <2>4, <2>5, <2>6, PushTwo
  <2> QED
    BY <2>1, <2>3, <2>4, <2>7 DEF Turns, type, rest
<1>15. ReceiveCommand => Turns("body", {"spawn", "STARTED", "start_output", "erase"})
  <2> SUFFICES ASSUME ReceiveCommand
               PROVE Turns("body", {"spawn", "STARTED", "start_output", "erase"})
    OBVIOUS
  <2> DEFINE a == Call("spawn")
             b == SendCall(Started)
             c == Call("start_output")
             d == Call("erase")
             rest == Tail(calls)
  <2>1. Doing("body") /\ calls' = <<a, b, c, d>> \o rest
    BY DEF ReceiveCommand, Continue
  <2>2. calls # <<>> /\ Name(Head(calls)) = "body"
    BY <2>1, <1>2
  <2>3. /\ IsStack(rest) /\ Above("body", Names(rest))
        /\ Pending = {"body"} \cup Names(rest)
    BY <2>2, Pop DEF Pending
  <2>4. /\ a \in CallItem /\ Name(a) = "spawn"
        /\ b \in CallItem /\ Name(b) = "STARTED"
        /\ c \in CallItem /\ Name(c) = "start_output"
        /\ d \in CallItem /\ Name(d) = "erase"
    BY CallNames, MessageTypes
  <2>5. /\ Name(a) \in CallName /\ Name(b) \in CallName
        /\ Name(c) \in CallName /\ Name(d) \in CallName
        /\ Depth(Name(a)) < Depth(Name(b)) /\ Depth(Name(b)) < Depth(Name(c))
        /\ Depth(Name(c)) < Depth(Name(d)) /\ Depth(Name(d)) <= Depth("body")
        /\ "body" \in CallName
    BY <2>4, Depths DEF CallName
  <2> HIDE DEF a, b, c, d, rest
  <2>6. Above(Name(d), Names(rest))
    BY <2>3, <2>5, AboveMore
  <2>7. /\ IsStack(<<a, b, c, d>> \o rest)
        /\ Names(<<a, b, c, d>> \o rest)
             = {Name(a), Name(b), Name(c), Name(d)} \cup Names(rest)
    BY <2>3, <2>4, <2>5, <2>6, PushFour
  <2>8. Names(calls') = {"spawn", "STARTED", "start_output", "erase"} \cup Names(rest)
    BY <2>1, <2>4, <2>7
  <2> QED
    BY <2>1, <2>3, <2>7, <2>8 DEF Turns, rest
<1>16. SpawnFails => Turns("spawn", {"ENDOFFILE", "forget", "disconnect", "assign"})
  <2> SUFFICES ASSUME SpawnFails
               PROVE Turns("spawn", {"ENDOFFILE", "forget", "disconnect", "assign"})
    OBVIOUS
  <2> DEFINE a == SendCall(Exit)
             b == Call("forget")
             c == Call("disconnect")
             d == Call("assign")
             rest == Tail(calls)
             under == <<d>> \o rest
  <2>1. Doing("spawn") /\ calls' = (ExitCallback \o <<d>>) \o rest
    BY DEF SpawnFails, Continue
  <2>2. calls # <<>> /\ Name(Head(calls)) = "spawn"
    BY <2>1, <1>2
  <2>3. /\ IsStack(rest) /\ Above("spawn", Names(rest))
        /\ Pending = {"spawn"} \cup Names(rest)
    BY <2>2, Pop DEF Pending
  <2>4. /\ a \in CallItem /\ Name(a) = "ENDOFFILE"
        /\ b \in CallItem /\ Name(b) = "forget"
        /\ c \in CallItem /\ Name(c) = "disconnect"
        /\ d \in CallItem /\ Name(d) = "assign"
    BY CallNames, MessageTypes
  <2>5. /\ Name(a) \in CallName /\ Name(b) \in CallName
        /\ Name(c) \in CallName /\ Name(d) \in CallName
        /\ Depth(Name(a)) < Depth(Name(b)) /\ Depth(Name(b)) < Depth(Name(c))
        /\ Depth(Name(c)) < Depth(Name(d)) /\ Depth(Name(c)) <= Depth(Name(d))
        /\ Depth(Name(d)) <= Depth("spawn") /\ "spawn" \in CallName
    BY <2>4, Depths DEF CallName
  <2>6. ExitCallback = <<a, b, c>>
    BY DEF ExitCallback
  <2> HIDE DEF a, b, c, d, rest, under
  <2>7. Above(Name(d), Names(rest))
    BY <2>3, <2>5, AboveMore
  <2>8. IsStack(under) /\ Names(under) = {Name(d)} \cup Names(rest)
    BY <2>3, <2>4, <2>7, PushOne DEF under
  <2>9. Above(Name(c), Names(rest))
    BY <2>3, <2>5, <2>7, AboveMore
  <2>10. Above(Name(c), Names(under))
    BY <2>5, <2>8, <2>9 DEF Above
  <2>11. /\ IsStack(<<a, b, c>> \o under)
         /\ Names(<<a, b, c>> \o under) = {Name(a), Name(b), Name(c)} \cup Names(under)
    BY <2>4, <2>5, <2>8, <2>10, PushThree
  <2>12. calls' = ExitCallback \o under
    <3>1. ExitCallback \in Seq(CallItem) /\ <<d>> \in Seq(CallItem)
      BY <2>4, <2>6
    <3> QED
      BY <3>1, <2>1, <2>3, ConcatAssociative DEF IsStack, under
  <2>13. Names(calls') = {"ENDOFFILE", "forget", "disconnect", "assign"} \cup Names(rest)
    BY <2>4, <2>6, <2>8, <2>11, <2>12
  <2> QED
    BY <2>3, <2>6, <2>11, <2>12, <2>13 DEF Turns, rest
<1> QED
  BY <1>4, <1>5, <1>6, <1>7, <1>8, <1>9, <1>10, <1>11, <1>12, <1>13, <1>14,
     <1>15, <1>16

-----------------------------------------------------------------------------
(* The inductive invariant *)

\* What the pending calls assume of the connection and of the timer: a timer
\* runs only while there is no channel, and nobody reads what was received
\* unless there is one.
Linked ==
  /\ ~Connected => channel = NoChannel
  /\ Connected => timer = "off"
  /\ "reconnect" \in Pending => ~Connected /\ timer = "off"
  /\ "close" \in Pending => Connected
  /\ \A name \in {"header", "body"} :
       name \in Pending => Pending = {name} /\ Connected

\* The bytes of a connection are those of messages sent on it, and a header is
\* read when it is there.
Known ==
  /\ Connected => /\ \A i \in DOMAIN buf : buf[i].message \in DOMAIN channel.sent
                  /\ \A i \in DOMAIN channel.upstream :
                        channel.upstream[i].message \in DOMAIN channel.sent
  /\ "header" \in Pending => Len(buf) >= HeaderSize

TypeInv == TypeOK /\ Ordered(calls) /\ Linked /\ Known

LEMMA TypeInvStack == TypeInv => IsStack(calls)
BY DEF TypeInv, TypeOK, IsStack

\* The stack when the loop calls back.
LEMMA Single ==
  ASSUME NEW a \in CallItem
  PROVE  IsStack(<<a>>) /\ Names(<<a>>) = {Name(a)}
<1>1. Above(Name(a), Names(<<>>))
  BY Empty DEF Above
<1>2. IsStack(<<a>> \o <<>>) /\ Names(<<a>> \o <<>>) = {Name(a)} \cup Names(<<>>)
  BY <1>1, Empty, PushOne
<1>3. <<a>> \o <<>> = <<a>>
  BY ConcatEmptySeq
<1> QED
  BY <1>2, <1>3, Empty

LEMMA IdleStack ==
  ASSUME Idle
  PROVE  calls = <<>> /\ Pending = {}
BY Empty DEF Idle, Pending

LEMMA LoopCalls ==
  ASSUME TypeOK
  PROVE  /\ onDisconnected \/ KillTimer \/ RetryTimer \/ Restart =>
              IsStack(calls') /\ Names(calls') = {"reconnect"}
         /\ onBufferEmpty => IsStack(calls') /\ Names(calls') = {"send_buf"}
         /\ read_callback => IsStack(calls') /\ Names(calls') = {"STDOUT"}
         /\ HandleClosed =>
              \/ calls' = <<>>
              \/ IsStack(calls') /\ Names(calls') = {"ENDOFFILE", "forget", "disconnect"}
         /\ \A n \in 1 .. Len(channel.upstream) : onDataReceived(n) =>
              \/ calls' = <<>>
              \/ /\ IsStack(calls') /\ Names(calls') = {"header"}
                 /\ Len(buf') >= HeaderSize
<1>1. IsStack(<<Call("reconnect")>>) /\ Names(<<Call("reconnect")>>) = {"reconnect"}
  BY CallNames, Single
<1>2. IsStack(<<Call("send_buf")>>) /\ Names(<<Call("send_buf")>>) = {"send_buf"}
  BY CallNames, Single
<1>3. IsStack(<<Call("header")>>) /\ Names(<<Call("header")>>) = {"header"}
  BY CallNames, Single
<1>4. onDisconnected \/ KillTimer \/ RetryTimer \/ Restart => calls' = <<Call("reconnect")>>
  <2>1. <<Call("reconnect")>> \o <<>> = <<Call("reconnect")>>
    BY CallNames, ConcatEmptySeq
  <2> QED
    BY <2>1 DEF onDisconnected, LoseChannel, KillTimer, RetryTimer, Restart
<1>5. read_callback => IsStack(calls') /\ Names(calls') = {"STDOUT"}
  <2> SUFFICES ASSUME read_callback
               PROVE IsStack(calls') /\ Names(calls') = {"STDOUT"}
    OBVIOUS
  <2> DEFINE message == Output(process.read + 1)
  <2>1. calls' = <<SendCall(message)>>
    BY DEF read_callback
  <2>2. message \in ServerMessage /\ message.type = "STDOUT"
    BY MessageTypes DEF TypeOK
  <2> HIDE DEF message
  <2>3. SendCall(message) \in CallItem /\ Name(SendCall(message)) = "STDOUT"
    BY <2>2, CallNames
  <2> QED
    BY <2>1, <2>3, Single
<1>6. HandleClosed =>
        \/ calls' = <<>>
        \/ IsStack(calls') /\ Names(calls') = {"ENDOFFILE", "forget", "disconnect"}
  <2> DEFINE a == SendCall(Exit)
             b == Call("forget")
             c == Call("disconnect")
  <2>1. /\ a \in CallItem /\ Name(a) = "ENDOFFILE"
        /\ b \in CallItem /\ Name(b) = "forget"
        /\ c \in CallItem /\ Name(c) = "disconnect"
    BY CallNames, MessageTypes
  <2>2. /\ Name(a) \in CallName /\ Name(b) \in CallName /\ Name(c) \in CallName
        /\ Depth(Name(a)) < Depth(Name(b)) /\ Depth(Name(b)) < Depth(Name(c))
    BY <2>1, Depths DEF CallName
  <2>3. ExitCallback = <<a, b, c>>
    BY DEF ExitCallback
  <2> HIDE DEF a, b, c
  <2>4. /\ IsStack(<<a, b, c>> \o <<>>)
        /\ Names(<<a, b, c>> \o <<>>) = {Name(a), Name(b), Name(c)} \cup Names(<<>>)
    <3> DEFINE none == <<>>
    <3>1. IsStack(none) /\ Above(Name(c), Names(none))
      BY Empty DEF Above
    <3> HIDE DEF none
    <3>2. /\ IsStack(<<a, b, c>> \o none)
          /\ Names(<<a, b, c>> \o none) = {Name(a), Name(b), Name(c)} \cup Names(none)
      BY <2>1, <2>2, <3>1, PushThree
    <3> QED
      BY <3>2 DEF none
  <2>5. ExitCallback \o <<>> = ExitCallback
    <3>1. ExitCallback \in Seq(CallItem)
      BY <2>1, <2>3
    <3> QED
      BY <3>1, ConcatEmptySeq
  <2>6. IsStack(ExitCallback) /\ Names(ExitCallback) = {"ENDOFFILE", "forget", "disconnect"}
    BY <2>1, <2>3, <2>4, <2>5, Empty
  <2> QED
    BY <2>6 DEF HandleClosed, Idle
<1>7. \A n \in 1 .. Len(channel.upstream) : onDataReceived(n) =>
        \/ calls' = <<>>
        \/ calls' = <<Call("header")>> /\ ~(Len(buf') < HeaderSize)
  BY DEF onDataReceived
<1>8. \A n \in 1 .. Len(channel.upstream) :
        onDataReceived(n) /\ ~(Len(buf') < HeaderSize) => Len(buf') >= HeaderSize
  <2> SUFFICES ASSUME NEW n \in 1 .. Len(channel.upstream), onDataReceived(n),
                      ~(Len(buf') < HeaderSize)
               PROVE  Len(buf') >= HeaderSize
    OBVIOUS
  <2>1. SubSeq(channel.upstream, 1, n) \in Seq(Byte)
    BY DEF TypeOK
  <2>2. Len(buf') \in Nat
    BY <2>1, ConcatProperties, LenProperties DEF onDataReceived, TypeOK
  <2> QED
    BY <2>2 DEF HeaderSize
<1>9. onBufferEmpty => calls' = <<Call("send_buf")>>
  BY DEF onBufferEmpty
<1> QED
  BY <1>1, <1>2, <1>3, <1>4, <1>5, <1>6, <1>7, <1>8, <1>9

-----------------------------------------------------------------------------
(* A step preserves the invariant *)

ProcessType ==
  [child : {"null", "failed", "running", "exited", "killed", "reaped"},
   termed : BOOLEAN, reading : BOOLEAN, has_in : BOOLEAN,
   written : Nat, read : Nat]

LEMMA ProcessTypes ==
  /\ NoProcess \in ProcessType
  /\ \A child \in {"failed", "running"} : NewProcess(child) \in ProcessType
  /\ \A p \in ProcessType :
       /\ StartOutput(p) \in ProcessType /\ StopOutput(p) \in ProcessType
       /\ StartOutput(p).child = p.child /\ StopOutput(p).child = p.child
       /\ StartOutput(p).read = p.read /\ StopOutput(p).read = p.read
       /\ StartOutput(p).reading => p.child = "running"
       /\ ~StopOutput(p).reading
<1>1. /\ NoProcess \in ProcessType
      /\ \A child \in {"failed", "running"} : NewProcess(child) \in ProcessType
  BY DEF NoProcess, NewProcess, ProcessType
<1>2. ASSUME NEW p \in ProcessType
      PROVE  /\ StartOutput(p) \in ProcessType /\ StopOutput(p) \in ProcessType
             /\ StartOutput(p).child = p.child /\ StopOutput(p).child = p.child
             /\ StartOutput(p).read = p.read /\ StopOutput(p).read = p.read
             /\ StartOutput(p).reading => p.child = "running"
             /\ ~StopOutput(p).reading
  <2>1. ASSUME NEW b \in BOOLEAN
        PROVE  LET q == [p EXCEPT !.reading = b]
               IN /\ q \in ProcessType /\ q.child = p.child /\ q.read = p.read
                  /\ q.reading = b
    BY DEF ProcessType
  <2>2. (p.child = "running") \in BOOLEAN
    OBVIOUS
  <2>3. StopOutput(p) = [p EXCEPT !.reading = FALSE]
    BY DEF StopOutput
  <2>4. /\ p.child = "running" => StartOutput(p) = [p EXCEPT !.reading = TRUE]
        /\ p.child # "running" => StartOutput(p) = [p EXCEPT !.reading = FALSE]
    BY Zenon DEF StartOutput
  <2> QED
    BY <2>1, <2>3, <2>4
<1> QED
  BY <1>1, <1>2

\* A call that gives way to others than those of which Linked speaks, and
\* leaves the connection and the timer as they are.
LEMMA LinkedKept ==
  ASSUME TypeInv, NEW name, NEW new, Turns(name, new),
         Connected' <=> Connected, ~Connected' => channel' = channel,
         timer' = timer,
         \A other \in {"reconnect", "close", "header", "body"} : other \notin new
  PROVE  Linked' /\ "header" \notin Pending'
<1>1. \A other \in {"reconnect", "close", "header", "body"} :
        other \in Pending' => other \in Pending /\ other \in Names(Tail(calls))
  BY DEF Turns, Pending
<1>2. name \in Pending
  BY DEF Turns
<1>3. \A other \in {"header", "body"} : other \notin Pending'
  <2> SUFFICES ASSUME NEW other \in {"header", "body"}, other \in Pending'
               PROVE  FALSE
    OBVIOUS
  <2>1. other \in Pending /\ other \in Names(Tail(calls))
    BY <1>1
  <2>2. name = other
    BY <2>1, <1>2 DEF TypeInv, Linked
  <2>3. Depth(other) < Depth(other)
    BY <2>1, <2>2 DEF Turns, Above
  <2> QED
    BY <2>3, Depths
<1> QED
  BY <1>1, <1>3 DEF TypeInv, Linked

LEMMA KnownKept ==
  ASSUME TypeInv, "header" \notin Pending', Connected' => Connected,
         channel'.upstream = channel.upstream, channel'.sent = channel.sent,
         buf' = buf
  PROVE  Known'
BY DEF TypeInv, Known

\* Handlers that touch neither the connection nor the timer.
LEMMA QuietHandlers ==
  ASSUME TypeInv,
         \/ send \/ Return \/ SpawnSucceeds \/ SpawnFails \/ AssignFailed
         \/ start_output \/ ForgetProcess \/ SendRemaining
  PROVE  TypeInv'
<1>0. IsStack(calls)
  BY TypeInvStack
<1>1. channel' = channel /\ timer' = timer /\ fate' = fate /\ buf' = buf /\ expected' = expected
  BY DEF send, Return, SpawnSucceeds, SpawnFails, AssignFailed, start_output,
         ForgetProcess, SendRemaining, SetProcess, buffers
<1>2. \E name, new : Turns(name, new) /\
        \A other \in {"reconnect", "close", "header", "body"} : other \notin new
  <2>1. /\ send => Turns(Head(calls).msg.type, {"send_buf", "update_events"})
        /\ Return => Turns(Name(Head(calls)), {})
        /\ SpawnSucceeds => Turns("spawn", {})
        /\ SpawnFails => Turns("spawn", {"ENDOFFILE", "forget", "disconnect", "assign"})
        /\ AssignFailed => Turns("assign", {})
        /\ start_output => Turns("start_output", {})
        /\ ForgetProcess => Turns("forget", {})
        /\ SendRemaining => Turns("disconnect", {"send_buf"})
    BY <1>0, HandlerTurns
  <2> QED
    BY <2>1
<1>3. Linked' /\ "header" \notin Pending'
  BY <1>1, <1>2, LinkedKept DEF Connected, TypeInv, Linked
<1>4. Known'
  BY <1>1, <1>3, KnownKept DEF Connected
<1>5. calls' \in Seq(CallItem) /\ Ordered(calls')
  BY <1>2 DEF Turns, IsStack
<1>6. outbuf' \in Seq(ServerMessage)
  <2>1. CASE send
    <3>1. Head(calls).msg \in ServerMessage
      BY <1>0, <2>1, HeadNamed DEF send
    <3> QED
      BY <2>1, <3>1 DEF send, Queued, TypeInv, TypeOK
  <2>2. CASE ~send
    BY <2>2 DEF Return, SpawnSucceeds, SpawnFails, AssignFailed, start_output,
         ForgetProcess, SendRemaining, SetProcess, buffers, TypeInv, TypeOK
  <2> QED
    BY <2>1, <2>2
<1>7. process' \in ProcessType
  <2>1. process' = process \/ process' = StartOutput(process) \/ process' = NoProcess
        \/ process' = NewProcess("running") \/ process' = NewProcess("failed")
    BY DEF send, Return, SpawnSucceeds, SpawnFails, AssignFailed, start_output,
         ForgetProcess, SendRemaining, SetProcess
  <2> QED
    BY <2>1, ProcessTypes DEF TypeInv, TypeOK, ProcessType
<1> QED
  BY <1>1, <1>3, <1>4, <1>5, <1>6, <1>7 DEF TypeInv, TypeOK, ProcessType

ChannelType ==
  [state : {"none", "open", "closing"}, full : BOOLEAN,
   upstream : Seq(Byte), sent : Seq(ClientMessage),
   received : Seq(ServerMessage), taken : Seq(Use)]

LEMMA ChannelTypes ==
  /\ NoChannel \in ChannelType /\ NewChannel \in ChannelType
  /\ NoChannel.state = "none" /\ NewChannel.state = "open"
  /\ NoChannel.sent = <<>> /\ NoChannel.upstream = <<>> /\ NoChannel.taken = <<>>
  /\ NewChannel.sent = <<>> /\ NewChannel.upstream = <<>> /\ NewChannel.taken = <<>>
  /\ NoChannel.received = <<>> /\ NewChannel.received = <<>>
<1>1. /\ NoChannel \in ChannelType /\ NoChannel.state = "none"
      /\ NoChannel.sent = <<>> /\ NoChannel.upstream = <<>> /\ NoChannel.taken = <<>>
      /\ NoChannel.received = <<>>
  BY DEF ChannelType, NoChannel
<1>2. ASSUME NEW c \in ChannelType
      PROVE  LET new == [c EXCEPT !.state = "open"]
             IN /\ new \in ChannelType /\ new.state = "open" /\ new.sent = c.sent
                /\ new.upstream = c.upstream /\ new.taken = c.taken
                /\ new.received = c.received
  BY DEF ChannelType
<1> QED
  BY <1>1, <1>2 DEF NewChannel

\* The daemon goes down.
LEMMA Down ==
  ASSUME TypeInv, KillsItself \/ NullChannel \/ EraseBeyondEnd \/ FreedInUse
  PROVE  TypeInv'
<1>1. /\ UNCHANGED <<channel, buffers, process, timer, calls>>
      /\ fate' \in {"null_channel", "freed_process", "killed_itself", "bad_erase"}
  BY DEF KillsItself, NullChannel, EraseBeyondEnd, FreedInUse, GoesDown
<1> QED
  BY <1>1 DEF TypeInv, TypeOK, Linked, Known, Connected, Pending, buffers

\* The connection is lost or given up.
LEMMA Closes ==
  ASSUME TypeInv, close \/ onDisconnected
  PROVE  TypeInv'
<1>0. IsStack(calls)
  BY TypeInvStack
<1>1. channel' = NoChannel /\ UNCHANGED <<buffers, process, timer, fate>>
  BY DEF close, onDisconnected, LoseChannel
<1>2. Connected /\ IsStack(calls') /\ "reconnect" \in Pending'
      /\ \A name \in {"close", "header", "body"} : name \notin Pending'
  <2>1. CASE onDisconnected
    BY <2>1, LoopCalls DEF onDisconnected, TypeInv, Pending
  <2>2. CASE close
    <3>1. Turns("close", {"reconnect"})
      BY <1>0, <2>2, HandlerTurns
    <3>2. Connected /\ "close" \in Pending
      BY <3>1 DEF Turns, TypeInv, Linked
    <3>3. \A name \in {"header", "body"} : name \notin Names(Tail(calls))
      BY <3>1, <3>2 DEF Turns, TypeInv, Linked, Pending
    <3>4. "close" \notin Names(Tail(calls))
      BY <3>1, Depths DEF Turns, Above
    <3> QED
      BY <3>1, <3>2, <3>3, <3>4 DEF Turns, Pending
  <2> QED
    BY <2>1, <2>2
<1>3. ~Connected' /\ channel' \in ChannelType
  BY <1>1, ChannelTypes DEF Connected
<1>4. TypeOK' /\ Ordered(calls')
  BY <1>1, <1>2, <1>3 DEF TypeInv, TypeOK, IsStack, ChannelType, buffers
<1>5. Linked'
  BY <1>1, <1>2, <1>3 DEF TypeInv, Linked
<1>6. Known'
  BY <1>2, <1>3 DEF Known
<1> QED
  BY <1>4, <1>5, <1>6 DEF TypeInv

\* reconnect()
LEMMA Reconnects ==
  ASSUME TypeInv, KillFirst \/ BindSucceeds \/ BindFails
  PROVE  TypeInv'
<1>0. IsStack(calls)
  BY TypeInvStack
<1>1. Turns("reconnect", {})
  BY <1>0, HandlerTurns
<1>2. /\ IsStack(calls') /\ "reconnect" \in Pending
      /\ \A name \in {"reconnect", "close", "header", "body"} : name \notin Pending'
  <2>1. "reconnect" \in Pending /\ Pending' = Names(Tail(calls))
    BY <1>1 DEF Turns, Pending
  <2>2. "reconnect" \notin Pending' /\ "close" \notin Pending'
    BY <1>1, <2>1, Depths DEF Turns, Above
  <2>3. \A name \in {"header", "body"} : name \notin Pending'
    BY <1>1, <2>1 DEF Turns, TypeInv, Linked
  <2> QED
    BY <2>1, <2>2, <2>3, <1>1 DEF Turns
<1>3. ~Connected /\ timer = "off" /\ channel = NoChannel
  BY <1>2 DEF TypeInv, Linked
<1>4. CASE KillFirst
  <2>1. channel' = channel /\ UNCHANGED <<buffers, fate>> /\ timer' = "kill"
    BY <1>4 DEF KillFirst
  <2>2. process' \in ProcessType
    <3>1. \A b \in BOOLEAN : [process EXCEPT !.termed = b] \in ProcessType
      BY DEF TypeInv, TypeOK, ProcessType
    <3>2. \/ process' = [process EXCEPT !.termed = TRUE]
          \/ process' = [process EXCEPT !.termed = FALSE]
      BY <1>4, Zenon DEF KillFirst
    <3> QED
      BY <3>1, <3>2
  <2>3. TypeOK' /\ Ordered(calls')
    BY <2>1, <2>2, <1>2 DEF TypeInv, TypeOK, IsStack, ProcessType, buffers
  <2>4. Linked' /\ Known'
    BY <2>1, <1>2, <1>3 DEF Linked, Known, Connected
  <2> QED
    BY <2>3, <2>4 DEF TypeInv
<1>5. CASE BindSucceeds
  <2>1. /\ channel' = NewChannel /\ UNCHANGED <<process, timer, fate>>
        /\ buf' = <<>> /\ expected' = 0 /\ outbuf' = <<>>
    BY <1>5 DEF BindSucceeds, Reset
  <2>2. Connected' /\ channel' \in ChannelType /\ channel'.upstream = <<>>
    BY <2>1, ChannelTypes DEF Connected
  <2>3. TypeOK' /\ Ordered(calls')
    BY <2>1, <2>2, <1>2 DEF TypeInv, TypeOK, IsStack, ChannelType
  <2>4. Linked' /\ Known'
    BY <2>1, <2>2, <1>2, <1>3 DEF Linked, Known
  <2> QED
    BY <2>3, <2>4 DEF TypeInv
<1>6. CASE BindFails
  <2>1. /\ channel' = channel /\ UNCHANGED <<process, fate>> /\ timer' = "retry"
        /\ buf' = <<>> /\ expected' = 0 /\ outbuf' = <<>>
    BY <1>6 DEF BindFails, Reset, Retry
  <2>3. TypeOK' /\ Ordered(calls')
    BY <2>1, <1>2 DEF TypeInv, TypeOK, IsStack
  <2>4. Linked' /\ Known'
    BY <2>1, <1>2, <1>3 DEF Linked, Known, Connected
  <2> QED
    BY <2>3, <2>4 DEF TypeInv
<1> QED
  BY <1>4, <1>5, <1>6

\* send_buf()
LEMMA Sends ==
  ASSUME TypeInv, SendSucceeds \/ SendFindsFull \/ SendFails
  PROVE  TypeInv'
<1>0. IsStack(calls) /\ Connected
  BY TypeInvStack DEF SendSucceeds, SendFindsFull, SendFails, Sending
<1>1. channel \in ChannelType /\ process \in ProcessType /\ outbuf \in Seq(ServerMessage)
  BY DEF TypeInv, TypeOK, ChannelType, ProcessType
<1>2. CASE SendSucceeds
  <2>1. Turns("send_buf", {})
    BY <1>0, <1>2, HandlerTurns
  <2>2. outbuf' = <<>> /\ UNCHANGED <<buf, expected, process, timer, fate>>
    BY <1>2 DEF SendSucceeds
  <2>3. /\ Connected' /\ channel' \in ChannelType
        /\ channel'.upstream = channel.upstream /\ channel'.sent = channel.sent
    <3> DEFINE all == channel.received \o outbuf
               state == IF HasProcess THEN channel.state ELSE "closing"
    <3>1. channel' = [channel EXCEPT !.received = all, !.state = state]
      BY <1>2 DEF SendSucceeds
    <3>2. all \in Seq(ServerMessage)
      BY <1>1, ConcatProperties DEF ChannelType
    <3>3. state \in {"none", "open", "closing"} /\ state # "none"
      BY <1>0, <1>1 DEF Connected, ChannelType
    <3> HIDE DEF all, state
    <3> QED
      BY <3>1, <3>2, <3>3, <1>1 DEF Connected, ChannelType
  <2>4. Linked' /\ "header" \notin Pending'
    BY <2>1, <2>2, <2>3, <1>0, LinkedKept
  <2>5. Known'
    BY <2>2, <2>3, <2>4, <1>0, KnownKept
  <2> QED
    BY <2>1, <2>2, <2>3, <2>4, <2>5 DEF TypeInv, TypeOK, Turns, IsStack, ChannelType
<1>3. CASE SendFindsFull
  <2>1. Turns("send_buf", {})
    BY <1>0, <1>3, HandlerTurns
  <2>2. /\ UNCHANGED <<buffers, timer, fate>> /\ process' = StopOutput(process)
        /\ channel' = [channel EXCEPT !.full = TRUE]
    BY <1>3 DEF SendFindsFull, BufferIsFull
  <2>3. /\ Connected' /\ channel' \in ChannelType
        /\ channel'.upstream = channel.upstream /\ channel'.sent = channel.sent
    BY <2>2, <1>0, <1>1 DEF Connected, ChannelType
  <2>4. Linked' /\ "header" \notin Pending'
    BY <2>1, <2>2, <2>3, <1>0, LinkedKept
  <2>5. Known'
    BY <2>2, <2>3, <2>4, <1>0, KnownKept DEF buffers
  <2>6. process' \in ProcessType
    BY <2>2, <1>1, ProcessTypes
  <2> QED
    BY <2>1, <2>2, <2>3, <2>4, <2>5, <2>6
    DEF TypeInv, TypeOK, Turns, IsStack, ChannelType, ProcessType, buffers
<1>4. CASE SendFails
  <2>1. Turns("send_buf", {"close"})
    BY <1>0, <1>4, HandlerTurns
  <2>2. UNCHANGED <<channel, buffers, process, timer, fate>>
    BY <1>4 DEF SendFails
  <2>3. /\ "send_buf" \in Pending
        /\ \A name \in Pending' : name = "close" \/ name \in Pending
    BY <2>1 DEF Turns, Pending
  <2>4. "reconnect" \notin Pending'
    BY <2>1, <2>3, <1>0 DEF TypeInv, Linked
  <2>5. \A name \in {"header", "body"} : name \notin Pending'
    BY <2>3 DEF TypeInv, Linked
  <2>6. Linked' /\ Known'
    BY <2>2, <2>4, <2>5, <1>0 DEF TypeInv, Linked, Known, Connected, buffers
  <2> QED
    BY <2>1, <2>2, <2>6 DEF TypeInv, TypeOK, Turns, IsStack, buffers
<1> QED
  BY <1>2, <1>3, <1>4

\* What a header says, and what is called for it.
LEMMA HeaderRead ==
  ASSUME TypeInv, ReceiveHeader
  PROVE  /\ Pending = {"header"} /\ Connected /\ IsStack(calls')
         /\ Pending' = {IF expected' = 0 THEN "close" ELSE "body"}
         /\ expected' \in Nat /\ 1 \in DOMAIN buf /\ expected' = LengthAt(buf[1])
<1>0. IsStack(calls) /\ channel \in ChannelType
  BY TypeInvStack DEF TypeInv, TypeOK, ChannelType
<1>1. Doing("header") /\ expected' = LengthAt(buf[1])
  BY DEF ReceiveHeader
<1>2. calls # <<>> /\ Name(Head(calls)) = "header"
  BY <1>0, <1>1, HeadNamed
<1>3. /\ IsStack(Tail(calls)) /\ Above("header", Names(Tail(calls)))
      /\ Pending = {"header"} \cup Names(Tail(calls))
  BY <1>0, <1>2, Pop DEF Pending
<1>4. Pending = {"header"} /\ Connected /\ Names(Tail(calls)) = {}
  <2>1. "header" \notin Names(Tail(calls))
    BY <1>3, Depths DEF Above
  <2> QED
    BY <1>3, <2>1 DEF TypeInv, Linked
<1>5. /\ 1 \in DOMAIN buf /\ 2 \in DOMAIN buf
      /\ buf[1] \in Byte /\ buf[1].message \in DOMAIN channel.sent
      /\ buf[2] \in Byte /\ buf[2].message \in DOMAIN channel.sent
  <2>1. Len(buf) >= 2 /\ buf \in Seq(Byte)
    BY <1>4 DEF TypeInv, TypeOK, Known, HeaderSize
  <2>2. 1 \in DOMAIN buf /\ 2 \in DOMAIN buf /\ buf[1] \in Byte /\ buf[2] \in Byte
    BY <2>1
  <2> QED
    BY <2>2, <1>4 DEF TypeInv, Known
<1>6. expected' \in Nat /\ TypeAt(buf[2]) \in MessageType
  <2>1. \A k \in DOMAIN channel.sent :
          channel.sent[k].len \in Nat /\ channel.sent[k].type \in MessageType
    <3>1. \A k \in DOMAIN channel.sent : channel.sent[k] \in ClientMessage
      BY <1>0 DEF ChannelType
    <3> QED
      BY <3>1 DEF ClientMessage, MessageType
  <2> QED
    BY <1>1, <1>5, <2>1 DEF LengthAt, TypeAt
<1>7. IsStack(calls') /\ Names(calls') = {IF expected' = 0 THEN "close" ELSE "body"}
  <2>1. PICK a \in CallItem : /\ Name(a) = IF expected' = 0 THEN "close" ELSE "body"
                              /\ calls' = <<a>> \o Tail(calls)
    <3>1. calls' = (IF expected' = 0 THEN <<Call("close")>>
                    ELSE <<BodyCall(TypeAt(buf[2]))>>) \o Tail(calls)
      BY DEF ReceiveHeader, Continue
    <3>2. CASE expected' = 0
      BY <3>1, <3>2, CallNames
    <3>3. CASE expected' # 0
      BY <3>1, <3>3, <1>6, CallNames
    <3> QED
      BY <3>2, <3>3
  <2>2. Above(Name(a), Names(Tail(calls)))
    BY <1>4 DEF Above
  <2> QED
    BY <2>1, <2>2, <1>3, <1>4, PushOne
<1> QED
  BY <1>1, <1>4, <1>5, <1>6, <1>7 DEF Pending

\* onDataReceived(), after the bytes have been put into the buffer.
LEMMA Receives ==
  ASSUME TypeInv, ReceiveHeader \/ HeaderKnown \/ ReceiveInput \/ ReceiveCommand
  PROVE  TypeInv'
<1>0. IsStack(calls) /\ channel \in ChannelType /\ process \in ProcessType
  BY TypeInvStack DEF TypeInv, TypeOK, ChannelType, ProcessType
<1>1. CASE ReceiveHeader
  <2>1. UNCHANGED <<channel, buf, outbuf, process, timer, fate>>
    BY <1>1 DEF ReceiveHeader
  <2>7. /\ Pending = {"header"} /\ Connected /\ IsStack(calls')
        /\ Pending' \in {{"close"}, {"body"}} /\ expected' \in Nat
    BY <1>1, HeaderRead
  <2>8. Linked' /\ Known'
    BY <2>1, <2>7 DEF TypeInv, Linked, Known, Connected
  <2> QED
    BY <2>1, <2>7, <2>8 DEF TypeInv, TypeOK, IsStack
<1>2. CASE HeaderKnown
  <2>1. Turns("header", {"body"}) /\ UNCHANGED <<channel, buffers, process, timer, fate>>
    BY <1>0, <1>2, HandlerTurns DEF HeaderKnown
  <2>2. Pending = {"header"} /\ Connected /\ Names(calls') = {"body"}
    <3>1. "header" \notin Names(Tail(calls))
      BY <2>1, Depths DEF Turns, Above
    <3> QED
      BY <2>1, <3>1 DEF Turns, TypeInv, Linked
  <2>3. Linked' /\ Known'
    BY <2>1, <2>2 DEF TypeInv, Linked, Known, Connected, Pending, buffers
  <2> QED
    BY <2>1, <2>3 DEF TypeInv, TypeOK, Turns, IsStack, buffers
<1>3. ASSUME NEW use \in {"command", "input", "eof"}, Take(use), MessageComplete
      PROVE  /\ channel' \in ChannelType /\ channel'.state = channel.state
             /\ channel'.upstream = channel.upstream /\ channel'.sent = channel.sent
  <2>1. buf \in Seq(Byte) /\ expected \in Nat /\ Len(buf) \in Nat
        /\ Len(buf) >= 2 + expected
    BY <1>3 DEF TypeInv, TypeOK, MessageComplete, HeaderSize
  <2> DEFINE bytes == SubSeq(buf, HeaderSize + 1, HeaderSize + expected)
  <2>2. bytes \in Seq(Byte)
    <3>1. \A i \in 3 .. 2 + expected : buf[i] \in Byte
      BY <2>1
    <3> QED
      BY <2>1, <3>1, SubSeqProperties DEF HeaderSize
  <2>3. channel' = [channel EXCEPT !.taken = Append(@, [use |-> use, bytes |-> bytes])]
    BY <1>3 DEF Take
  <2> HIDE DEF bytes
  <2>4. [use |-> use, bytes |-> bytes] \in Use
    BY <2>2 DEF Use
  <2> DEFINE more == Append(channel.taken, [use |-> use, bytes |-> bytes])
  <2>5. more \in Seq(Use)
    BY <2>4, <1>0, AppendProperties DEF ChannelType
  <2>6. channel' = [channel EXCEPT !.taken = more]
    BY <2>3
  <2> HIDE DEF more
  <2> QED
    BY <2>5, <2>6, <1>0 DEF ChannelType
<1>4. CASE ReceiveInput
  <2>1. Turns("body", {"erase"}) /\ UNCHANGED <<buffers, timer, fate>>
    BY <1>0, <1>4, HandlerTurns DEF ReceiveInput
  <2>2. /\ channel' \in ChannelType /\ channel'.state = channel.state
        /\ channel'.upstream = channel.upstream /\ channel'.sent = channel.sent
    BY <1>3, <1>4 DEF ReceiveInput
  <2>3. process' \in ProcessType
    <3>1. process' = process \/ process' = [process EXCEPT !.has_in = FALSE]
      BY <1>4 DEF ReceiveInput
    <3> QED
      BY <3>1, <1>0 DEF ProcessType
  <2>4. "body" \in Pending
    BY <2>1 DEF Turns
  <2>5. Connected /\ Connected'
    BY <2>2, <2>4 DEF TypeInv, Linked, Connected
  <2>6. Linked' /\ "header" \notin Pending'
    BY <2>1, <2>5, LinkedKept
  <2>7. Known'
    BY <2>1, <2>2, <2>5, <2>6, KnownKept DEF buffers
  <2> QED
    BY <2>1, <2>2, <2>3, <2>6, <2>7
    DEF TypeInv, TypeOK, Turns, IsStack, ChannelType, ProcessType, buffers
<1>5. CASE ReceiveCommand
  <2>1. /\ Turns("body", {"spawn", "STARTED", "start_output", "erase"})
        /\ UNCHANGED <<buffers, process, timer, fate>>
    BY <1>0, <1>5, HandlerTurns DEF ReceiveCommand
  <2>2. /\ channel' \in ChannelType /\ channel'.state = channel.state
        /\ channel'.upstream = channel.upstream /\ channel'.sent = channel.sent
    BY <1>3, <1>5 DEF ReceiveCommand
  <2>4. "body" \in Pending
    BY <2>1 DEF Turns
  <2>5. Connected /\ Connected'
    BY <2>2, <2>4 DEF TypeInv, Linked, Connected
  <2>6. Linked' /\ "header" \notin Pending'
    BY <2>1, <2>5, LinkedKept
  <2>7. Known'
    BY <2>1, <2>2, <2>5, <2>6, KnownKept DEF buffers
  <2> QED
    BY <2>1, <2>2, <2>6, <2>7
    DEF TypeInv, TypeOK, Turns, IsStack, ChannelType, buffers
<1> QED
  BY <1>1, <1>2, <1>4, <1>5

\* The message is taken from the buffer; the connection is closed.
LEMMA Finishes ==
  ASSUME TypeInv, EraseMessage \/ Disconnect
  PROVE  TypeInv'
<1>0. IsStack(calls) /\ channel \in ChannelType
  BY TypeInvStack DEF TypeInv, TypeOK, ChannelType
<1>1. CASE EraseMessage
  <2>1. /\ Turns("erase", {}) /\ UNCHANGED <<channel, outbuf, process, timer, fate>>
        /\ MessageComplete /\ expected' = 0
        /\ buf' = SubSeq(buf, HeaderSize + expected + 1, Len(buf))
    BY <1>0, <1>1, HandlerTurns DEF EraseMessage, Rest
  <2>2. Linked' /\ "header" \notin Pending'
    BY <2>1, LinkedKept DEF Connected
  <2> DEFINE size == HeaderSize + expected
  <2>3. /\ buf \in Seq(Byte) /\ Len(buf) \in Nat /\ size \in Nat /\ size <= Len(buf)
    BY <2>1 DEF TypeInv, TypeOK, MessageComplete, HeaderSize
  <2> HIDE DEF size
  <2>4. /\ buf' \in Seq(Byte)
        /\ \A i \in DOMAIN buf' : \E k \in DOMAIN buf : buf'[i] = buf[k]
    <3>1. buf' = SubSeq(buf, size + 1, Len(buf))
      BY <2>1 DEF size
    <3>2. \A i \in size + 1 .. Len(buf) : i \in DOMAIN buf /\ buf[i] \in Byte
      BY <2>3
    <3>3. /\ buf' \in Seq(Byte)
          /\ Len(buf') = IF size + 1 <= Len(buf) THEN Len(buf) - (size + 1) + 1 ELSE 0
          /\ \A i \in 1 .. Len(buf) - (size + 1) + 1 : buf'[i] = buf[size + 1 + i - 1]
      BY <3>1, <3>2, <2>3, SubSeqProperties
    <3>4. ASSUME NEW i \in DOMAIN buf' PROVE \E k \in DOMAIN buf : buf'[i] = buf[k]
      <4>1. i \in 1 .. Len(buf')
        BY <3>3
      <4>2. i \in 1 .. Len(buf) - (size + 1) + 1
        BY <4>1, <3>3, <2>3
      <4>3. size + 1 + i - 1 \in DOMAIN buf
        BY <4>2, <2>3
      <4>4. buf'[i] = buf[size + 1 + i - 1]
        BY <4>2, <3>3
      <4> QED
        BY <4>3, <4>4
    <3> QED
      BY <3>3, <3>4
  <2>5. Known'
    BY <2>1, <2>2, <2>4 DEF TypeInv, Known, Connected
  <2> QED
    BY <2>1, <2>2, <2>4, <2>5 DEF TypeInv, TypeOK, Turns, IsStack
<1>2. CASE Disconnect
  <2>1. /\ Turns("disconnect", {}) /\ UNCHANGED <<buffers, process, timer, fate>>
        /\ Connected /\ channel' = [channel EXCEPT !.state = "closing"]
    BY <1>0, <1>2, HandlerTurns DEF Disconnect
  <2>2. /\ Connected' /\ channel' \in ChannelType
        /\ channel'.upstream = channel.upstream /\ channel'.sent = channel.sent
    BY <2>1, <1>0 DEF Connected, ChannelType
  <2>3. Linked' /\ "header" \notin Pending'
    BY <2>1, <2>2, LinkedKept
  <2>4. Known'
    BY <2>1, <2>2, <2>3, KnownKept DEF buffers
  <2> QED
    BY <2>1, <2>2, <2>3, <2>4 DEF TypeInv, TypeOK, Turns, IsStack, ChannelType, buffers
<1> QED
  BY <1>1, <1>2

\* A chunk arrives.
LEMMA DataArrives ==
  ASSUME TypeInv, NEW n \in 1 .. Len(channel.upstream), onDataReceived(n)
  PROVE  TypeInv'
<1> DEFINE up == channel.upstream
           new == SubSeq(up, 1, n)
           rest == SubSeq(up, n + 1, Len(up))
<1>1. /\ Idle /\ UNCHANGED <<expected, outbuf, process, timer, fate>>
      /\ channel.state \in {"open", "closing"} /\ n <= Len(up)
      /\ buf' = buf \o new
      /\ channel' = [channel EXCEPT !.upstream = rest]
  BY DEF onDataReceived
<1>2. channel \in ChannelType /\ up \in Seq(Byte) /\ Len(up) \in Nat /\ buf \in Seq(Byte)
  BY DEF TypeInv, TypeOK, ChannelType
<1> HIDE DEF up
<1>3. /\ new \in Seq(Byte) /\ rest \in Seq(Byte)
      /\ Len(new) = n /\ \A i \in 1 .. n : new[i] = up[i]
      /\ Len(rest) = Len(up) - n /\ \A i \in 1 .. Len(up) - n : rest[i] = up[n + i]
  <2>1. n \in Nat /\ n >= 1 /\ n <= Len(up)
    BY <1>1 DEF up
  <2>2. /\ \A i \in 1 .. n : up[i] \in Byte
        /\ \A i \in n + 1 .. Len(up) : up[i] \in Byte
    BY <2>1, <1>2
  <2>3. new \in Seq(Byte) /\ Len(new) = n /\ \A i \in 1 .. n : new[i] = up[i]
    <3>1. /\ SubSeq(up, 1, n) \in Seq(Byte)
          /\ Len(SubSeq(up, 1, n)) = IF 1 <= n THEN n - 1 + 1 ELSE 0
          /\ \A i \in 1 .. n - 1 + 1 : SubSeq(up, 1, n)[i] = up[1 + i - 1]
      BY <2>1, <2>2, SubSeqProperties
    <3> QED
      BY <2>1, <3>1
  <2>4. /\ rest \in Seq(Byte) /\ Len(rest) = Len(up) - n
        /\ \A i \in 1 .. Len(up) - n : rest[i] = up[n + i]
    <3>1. /\ SubSeq(up, n + 1, Len(up)) \in Seq(Byte)
          /\ Len(SubSeq(up, n + 1, Len(up)))
               = IF n + 1 <= Len(up) THEN Len(up) - (n + 1) + 1 ELSE 0
          /\ \A i \in 1 .. Len(up) - (n + 1) + 1 :
                SubSeq(up, n + 1, Len(up))[i] = up[n + 1 + i - 1]
      BY <2>1, <2>2, <1>2, SubSeqProperties
    <3> QED
      BY <2>1, <1>2, <3>1
  <2> QED
    BY <2>3, <2>4
<1> HIDE DEF new, rest
<1>4. /\ channel' \in ChannelType /\ channel'.state = channel.state
      /\ channel'.upstream = rest /\ channel'.sent = channel.sent
  BY <1>1, <1>2, <1>3 DEF ChannelType
<1>5. /\ buf' \in Seq(Byte)
      /\ \A i \in DOMAIN buf' : \/ \E k \in DOMAIN buf : buf'[i] = buf[k]
                                \/ \E k \in DOMAIN up : buf'[i] = up[k]
  <2>1. /\ buf' \in Seq(Byte) /\ Len(buf') = Len(buf) + n
        /\ \A i \in 1 .. Len(buf) + n :
              buf'[i] = IF i <= Len(buf) THEN buf[i] ELSE new[i - Len(buf)]
    BY <1>1, <1>2, <1>3, ConcatProperties
  <2>2. ASSUME NEW i \in DOMAIN buf'
        PROVE  \/ \E k \in DOMAIN buf : buf'[i] = buf[k]
               \/ \E k \in DOMAIN up : buf'[i] = up[k]
    <3>1. i \in 1 .. Len(buf) + n /\ Len(buf) \in Nat
      BY <2>1, <1>2
    <3>2. CASE i <= Len(buf)
      BY <3>1, <3>2, <2>1, <1>2
    <3>3. CASE ~(i <= Len(buf))
      <4>1. i - Len(buf) \in 1 .. n /\ i - Len(buf) \in 1 .. Len(up)
        BY <3>1, <3>3, <1>1, <1>2
      <4> QED
        BY <4>1, <3>1, <3>3, <2>1, <1>2, <1>3
    <3> QED
      BY <3>2, <3>3
  <2> QED
    BY <2>1, <2>2
<1>6. \A i \in DOMAIN rest : \E k \in DOMAIN up : rest[i] = up[k]
  BY <1>1, <1>2, <1>3
<1>7. /\ IsStack(calls')
      /\ \/ Pending' = {}
         \/ Pending' = {"header"} /\ Len(buf') >= HeaderSize
  BY LoopCalls, Empty DEF TypeInv, Pending
<1>8. Connected /\ Connected'
  BY <1>1, <1>4 DEF Connected
<1>9. Linked'
  BY <1>1, <1>7, <1>8 DEF TypeInv, Linked
<1>10. Known'
  BY <1>4, <1>5, <1>6, <1>7, <1>8 DEF TypeInv, Known, up
<1> QED
  BY <1>1, <1>4, <1>5, <1>7, <1>9, <1>10 DEF TypeInv, TypeOK, IsStack, ChannelType

\* The other callbacks of the loop, and the command.
LEMMA LoopRuns ==
  ASSUME TypeInv,
         \/ onBufferFull \/ onBufferEmpty \/ read_callback \/ HandleClosed
         \/ KillTimer \/ RetryTimer \/ ChildWrites
         \/ \E sigterm \in BOOLEAN : ChildExits(sigterm)
  PROVE  TypeInv'
<1>0. channel \in ChannelType /\ process \in ProcessType /\ TypeOK
  BY DEF TypeInv, TypeOK, ChannelType, ProcessType
<1>1. Idle /\ UNCHANGED <<buffers, fate>>
  BY DEF onBufferFull, BufferIsFull, onBufferEmpty, BufferIsEmpty, read_callback,
         HandleClosed, KillTimer, RetryTimer, ChildWrites, ChildExits
<1>2. Pending = {} /\ calls = <<>>
  BY <1>1, IdleStack
<1>3. /\ channel' \in ChannelType /\ (Connected' <=> Connected)
      /\ channel'.upstream = channel.upstream /\ channel'.sent = channel.sent
      /\ ~Connected => channel' = channel
  <2>1. CASE channel' = channel
    BY <2>1, <1>0 DEF Connected
  <2>2. CASE channel' # channel
    <3>1. Connected /\ \E full \in BOOLEAN : channel' = [channel EXCEPT !.full = full]
      BY <2>2 DEF onBufferFull, BufferIsFull, onBufferEmpty, BufferIsEmpty,
         read_callback, HandleClosed, KillTimer, RetryTimer, ChildWrites, ChildExits
    <3> QED
      BY <3>1, <1>0 DEF Connected, ChannelType
  <2> QED
    BY <2>1, <2>2
<1>4. process' \in ProcessType
  <2>1. CASE onBufferFull \/ onBufferEmpty
    BY <2>1, <1>0, ProcessTypes
    DEF onBufferFull, BufferIsFull, onBufferEmpty, BufferIsEmpty
  <2>2. CASE read_callback \/ ChildWrites
    BY <2>2, <1>0 DEF read_callback, ChildWrites, ProcessType
  <2>3. CASE HandleClosed \/ KillTimer \/ RetryTimer
    BY <2>3, <1>0, ProcessTypes DEF HandleClosed, KillTimer, RetryTimer, ProcessType
  <2>4. CASE \E sigterm \in BOOLEAN : ChildExits(sigterm)
    <3>1. \E child \in {"killed", "exited"} :
            process' = [process EXCEPT !.child = child, !.reading = FALSE,
                                       !.has_in = FALSE]
      BY <2>4 DEF ChildExits
    <3> QED
      BY <3>1, <1>0 DEF ProcessType
  <2> QED
    BY <2>1, <2>2, <2>3, <2>4
<1>5. /\ IsStack(calls')
      /\ \A name \in {"close", "header", "body"} : name \notin Pending'
      /\ timer' \in {"off", timer}
      /\ "reconnect" \in Pending' => ~Connected /\ timer' = "off"
  <2>1. CASE KillTimer \/ RetryTimer
    <3>1. ~Connected
      BY <2>1 DEF KillTimer, RetryTimer, TypeInv, Linked
    <3> QED
      BY <2>1, <3>1, <1>0, LoopCalls DEF KillTimer, RetryTimer, Pending
  <2>2. CASE onBufferEmpty \/ read_callback \/ HandleClosed
    BY <2>2, <1>0, LoopCalls, Empty
    DEF onBufferEmpty, BufferIsEmpty, read_callback, HandleClosed, Pending
  <2>3. CASE \/ onBufferFull \/ ChildWrites
             \/ \E sigterm \in BOOLEAN : ChildExits(sigterm)
    BY <2>3, <1>2, Empty DEF onBufferFull, BufferIsFull, ChildWrites, ChildExits, Pending
  <2> QED
    BY <2>1, <2>2, <2>3
<1>6. Linked'
  BY <1>3, <1>5 DEF TypeInv, Linked
<1>7. Known'
  BY <1>1, <1>3, <1>5, KnownKept
  DEF buffers
<1> QED
  BY <1>0, <1>1, <1>3, <1>4, <1>5, <1>6, <1>7
  DEF TypeInv, TypeOK, IsStack, ChannelType, ProcessType, buffers

\* The bytes of a message.
LEMMA BytesShape ==
  ASSUME NEW message \in Nat, NEW len \in Nat
  PROVE  /\ Bytes(message, len) \in Seq(Byte)
         /\ DOMAIN Bytes(message, len) = 1 .. HeaderSize + len
         /\ Len(Bytes(message, len)) = HeaderSize + len
         /\ \A i \in 1 .. HeaderSize + len :
               Bytes(message, len)[i] = [message |-> message, offset |-> i]
<1> DEFINE n == HeaderSize + len
           bytes == [i \in 1 .. n |-> [message |-> message, offset |-> i]]
<1>1. n \in Nat
  BY DEF HeaderSize
<1>2. \A i \in 1 .. n : [message |-> message, offset |-> i] \in Byte
  BY <1>1 DEF Byte
<1> HIDE DEF n
<1>3. bytes \in [1 .. n -> Byte]
  BY <1>2
<1>4. bytes \in Seq(Byte)
  BY <1>1, <1>3, SeqDef
<1>5. DOMAIN bytes = 1 .. n /\ \A i \in 1 .. n : bytes[i] = [message |-> message, offset |-> i]
  OBVIOUS
<1>6. Len(bytes) = n
  BY <1>1
<1> QED
  BY <1>4, <1>5, <1>6 DEF Bytes, n

\* The client sends a message.
LEMMA ClientActs ==
  ASSUME TypeInv, ClientSpeaks
  PROVE  TypeInv'
<1>1. PICK msg \in ClientMessage : ClientSends(msg)
  <2>1. \A len \in CommandLengths : Command(len) \in ClientMessage
    BY ClientAssumption DEF Command, ClientMessage
  <2>2. ClientMessages \subseteq ClientMessage
    BY ClientAssumption DEF ClientMessage
  <2> QED
    BY <2>1, <2>2 DEF ClientSpeaks
<1> DEFINE bytes == Bytes(Len(channel.sent) + 1, msg.len)
           sent == Append(channel.sent, msg)
           up == channel.upstream \o bytes
<1>2. channel \in ChannelType /\ Len(channel.sent) \in Nat /\ msg.len \in Nat
  BY DEF TypeInv, TypeOK, ChannelType, ClientMessage
<1>3. /\ Idle /\ channel.state = "open"
      /\ channel' = [channel EXCEPT !.sent = sent, !.upstream = up]
      /\ UNCHANGED <<buffers, process, timer, calls, fate>>
  BY <1>1 DEF ClientSends
<1>4. /\ bytes \in Seq(Byte) /\ DOMAIN bytes = 1 .. 2 + msg.len
      /\ \A i \in DOMAIN bytes : bytes[i].message = Len(channel.sent) + 1
  <2>1. Len(channel.sent) + 1 \in Nat
    BY <1>2
  <2>2. /\ bytes \in Seq(Byte) /\ DOMAIN bytes = 1 .. HeaderSize + msg.len
        /\ \A i \in 1 .. HeaderSize + msg.len :
              bytes[i] = [message |-> Len(channel.sent) + 1, offset |-> i]
    BY <1>2, <2>1, BytesShape
  <2> HIDE DEF bytes
  <2>3. ASSUME NEW i \in DOMAIN bytes PROVE bytes[i].message = Len(channel.sent) + 1
    <3>1. i \in 1 .. HeaderSize + msg.len
      BY <2>2
    <3>2. bytes[i] = [message |-> Len(channel.sent) + 1, offset |-> i]
      BY <2>2, <3>1
    <3> QED
      BY <3>2
  <2> QED
    BY <2>2, <2>3 DEF HeaderSize
<1>5. /\ sent \in Seq(ClientMessage) /\ DOMAIN sent = 1 .. Len(channel.sent) + 1
      /\ DOMAIN channel.sent = 1 .. Len(channel.sent)
  BY <1>2, AppendProperties, LenProperties DEF ChannelType
<1>6. /\ up \in Seq(Byte)
      /\ \A i \in DOMAIN up :
           \/ i \in DOMAIN channel.upstream /\ up[i] = channel.upstream[i]
           \/ \E k \in DOMAIN bytes : up[i] = bytes[k]
  <2> DEFINE old == channel.upstream
             n == Len(old)
             l == Len(bytes)
  <2>0. old \in Seq(Byte) /\ n \in Nat /\ l \in Nat
        /\ DOMAIN old = 1 .. n /\ DOMAIN bytes = 1 .. l
    BY <1>2, <1>4, LenProperties DEF ChannelType
  <2> HIDE DEF bytes, old
  <2>1. /\ up \in Seq(Byte) /\ Len(up) = n + l
        /\ \A i \in 1 .. n + l : up[i] = IF i <= n THEN old[i] ELSE bytes[i - n]
    BY <2>0, <1>4, ConcatProperties DEF old
  <2> HIDE DEF up, n, l
  <2>2. ASSUME NEW i \in DOMAIN up
        PROVE  \/ i \in DOMAIN old /\ up[i] = old[i]
               \/ \E k \in DOMAIN bytes : up[i] = bytes[k]
    <3>1. i \in 1 .. n + l
      BY <2>1, LenProperties
    <3>2. CASE i <= n
      BY <3>1, <3>2, <2>1, <2>0
    <3>3. CASE ~(i <= n)
      <4>1. i - n \in 1 .. l
        BY <3>1, <3>3, <2>0
      <4> QED
        BY <4>1, <3>1, <3>3, <2>1, <2>0
    <3> QED
      BY <3>2, <3>3
  <2> QED
    BY <2>1, <2>2 DEF old
<1> HIDE DEF bytes, sent, up
<1>7. /\ channel' \in ChannelType /\ channel'.state = "open"
      /\ channel'.sent = sent /\ channel'.upstream = up
  BY <1>2, <1>3, <1>5, <1>6 DEF ChannelType
<1>8. Pending = {} /\ Pending' = {} /\ Connected /\ Connected'
  BY <1>3, <1>7, IdleStack DEF Pending, Connected
<1>9. Linked'
  BY <1>3, <1>8 DEF TypeInv, Linked
<1>10. Known'
  <2>1. DOMAIN channel.sent \subseteq DOMAIN sent /\ Len(channel.sent) + 1 \in DOMAIN sent
    BY <1>2, <1>5
  <2>2. \A i \in DOMAIN up : up[i].message \in DOMAIN sent
    BY <1>4, <1>6, <1>8, <2>1 DEF TypeInv, Known
  <2>3. \A i \in DOMAIN buf : buf[i].message \in DOMAIN sent
    BY <1>8, <2>1 DEF TypeInv, Known
  <2> QED
    BY <1>3, <1>7, <1>8, <2>2, <2>3 DEF Known, buffers
<1> QED
  BY <1>3, <1>7, <1>9, <1>10 DEF TypeInv, TypeOK, ChannelType, buffers

LEMMA Restarts ==
  ASSUME TypeInv, Restart
  PROVE  TypeInv'
<1>1. IsStack(calls') /\ Pending' = {"reconnect"}
  BY LoopCalls DEF TypeInv, Pending
<1>2. /\ channel' = NoChannel /\ buf' = <<>> /\ expected' = 0 /\ outbuf' = <<>>
      /\ process' = NoProcess /\ timer' = "off" /\ fate' = "up"
  BY DEF Restart
<1>3. channel' \in ChannelType /\ ~Connected' /\ process' \in ProcessType
  BY <1>2, ChannelTypes, ProcessTypes DEF Connected
<1> QED
  BY <1>1, <1>2, <1>3
  DEF TypeInv, TypeOK, Linked, Known, IsStack, ChannelType, ProcessType

-----------------------------------------------------------------------------
(* The theorems *)

LEMMA InitTypeInv == Init => TypeInv
<1> SUFFICES ASSUME Init PROVE TypeInv
  OBVIOUS
<1>1. IsStack(calls) /\ Pending = {"reconnect"}
  BY CallNames, Single DEF Init, ServerInit, Pending
<1>2. channel \in ChannelType /\ ~Connected /\ process \in ProcessType
  BY ChannelTypes, ProcessTypes DEF Init, ServerInit, Connected
<1> QED
  BY <1>1, <1>2 DEF Init, ServerInit, TypeInv, TypeOK, Linked, Known, IsStack,
     ChannelType, ProcessType

LEMMA NextTypeInv == TypeInv /\ [Next]_vars => TypeInv'
<1> SUFFICES ASSUME TypeInv, [Next]_vars PROVE TypeInv'
  OBVIOUS
<1>1. CASE Handler
  BY <1>1, QuietHandlers, Down, Closes, Reconnects, Sends, Receives, Finishes
  DEF Handler
<1>2. CASE Loop
  BY <1>2, DataArrives, LoopRuns, Closes, Down DEF Loop
<1>3. CASE Environment
  BY <1>3, ClientActs, LoopRuns DEF Environment
<1>4. CASE Restart
  BY <1>4, Restarts
<1>5. CASE UNCHANGED vars
  BY <1>5 DEF vars, buffers, TypeInv, TypeOK, Linked, Known, Connected, Pending
<1> QED
  BY <1>1, <1>2, <1>3, <1>4, <1>5 DEF Next

\* The calls of a callback are made in their order and find the connection and
\* the timer as they expect them, and the bytes of a connection are those of
\* messages sent on it, however callbacks call each other (s3tp.cpp:55-308).
THEOREM TypeInvariance == Spec => []TypeInv
BY InitTypeInv, NextTypeInv, PTL DEF Spec

\* Every variable has its type: no length and no type of a message is read
\* from a header that is not there (s3tp.cpp:171-192).
THEOREM TypeCorrect == Spec => []TypeOK
<1>1. TypeInv => TypeOK
  BY DEF TypeInv
<1> QED
  BY <1>1, TypeInvariance, PTL

=============================================================================
