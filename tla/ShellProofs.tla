----------------------------- MODULE ShellProofs -----------------------------
(***************************************************************************)
(* That the S3TP server is the remote shell the ground is promised:        *)
(* OutputInOrder, CommandOwnsConnection and ShellKept of S3TPServer, for   *)
(* every value of the constants.                                           *)
(***************************************************************************)
EXTENDS S3TPProofs

-----------------------------------------------------------------------------
(* The inductive invariant *)

\* All messages for the client of this connection.
Messages == channel.received \o outbuf

\* What the last of them says: no command runs, or the n-th block of output.
Quiet(all) == all = <<>> \/ all[Len(all)] = Exit
Said(all, n) ==
  all # <<>> /\ all[Len(all)] = IF n = 0 THEN Started ELSE Output(n)
Told(all) == \E k \in DOMAIN all : all[k] = Started

\* What the pending calls assume of the process, and that the client of a
\* command has been sent what was read from it.
Running ==
  /\ \A name \in {"spawn", "assign", "ENDOFFILE", "forget", "disconnect"} :
       name \in Pending => process.child # "running"
  /\ \A name \in {"spawn", "assign"} : name \in Pending => "STARTED" \in Pending
  /\ "STARTED" \in Pending /\ "spawn" \notin Pending /\ "assign" \notin Pending
       => HasProcess /\ process.read = 0
  /\ "STARTED" \in Pending /\ "forget" \in Pending => "assign" \in Pending
  /\ "STDOUT" \in Pending =>
       /\ process.child = "running" /\ process.read > 0
       /\ Pending = {"STDOUT"} /\ Head(calls) = SendCall(Output(process.read))
       /\ Connected => Said(Messages, process.read - 1)
  /\ Connected /\ process.child = "running" /\ "STARTED" \notin Pending
       /\ "STDOUT" \notin Pending => Said(Messages, process.read)
  /\ process.reading => process.child = "running"

\* While no process stands for a command, or its end has been announced, the
\* next command may be.
Quieted ==
  Connected =>
    \/ HasProcess /\ "STARTED" \notin Pending
         /\ ("forget" \in Pending => "ENDOFFILE" \in Pending)
    \/ Quiet(Messages)

\* The client has been told of the process.
Announced ==
  Connected /\ HasProcess /\ "STARTED" \notin Pending => Told(Messages)

ShellInv == TypeInv /\ Running /\ Quieted /\ Announced /\ OutputInOrder

-----------------------------------------------------------------------------
(* Steps that do not matter to the client *)

\* The calls of which the invariant speaks.
Spoken == {"spawn", "assign", "STARTED", "ENDOFFILE", "forget"}

\* Nothing is said, and the process and the calls that matter to it are as
\* they were; the connection may be lost.
Neutral ==
  /\ \A name \in Spoken : name \in Pending' <=> name \in Pending
  /\ "disconnect" \in Pending' => "disconnect" \in Pending
  /\ "STDOUT" \notin Pending /\ "STDOUT" \notin Pending'
  /\ process'.child = process.child /\ process'.read = process.read
  /\ process'.reading => process'.child = "running"
  /\ Connected' => /\ Connected
                   /\ Messages' = Messages

\* OutputInOrder, of what was said.
InOrder(all) ==
  \A k \in DOMAIN all : all[k].type = "STDOUT" =>
     /\ k > 1
     /\ all[k - 1] = IF all[k].n = 1 THEN Started ELSE Output(all[k].n - 1)

LEMMA OutputOrder == OutputInOrder <=> (Connected => InOrder(Messages))
BY DEF OutputInOrder, InOrder, Messages

LEMMA OutputOrderNext == OutputInOrder' <=> (Connected' => InOrder(Messages'))
BY DEF OutputInOrder, InOrder, Messages

LEMMA NeutralStep ==
  ASSUME ShellInv, TypeInv', Neutral
  PROVE  ShellInv'
<1>1. Connected' => Connected /\ Messages' = Messages
  BY DEF Neutral
<1>2. HasProcess' <=> HasProcess
  BY DEF Neutral, HasProcess
<1>4. Running'
  BY <1>1, <1>2 DEF Neutral, ShellInv, Running, Spoken
<1>5. Quieted'
  BY <1>1, <1>2 DEF Neutral, ShellInv, Quieted, Spoken
<1>6. Announced'
  BY <1>1, <1>2 DEF Neutral, ShellInv, Announced, Spoken
<1>7. OutputInOrder'
  BY <1>1, OutputOrder, OutputOrderNext DEF ShellInv
<1> QED
  BY <1>4, <1>5, <1>6, <1>7 DEF ShellInv

LEMMA NeutralTurn ==
  ASSUME ShellInv, TypeInv', NEW name, NEW new, Turns(name, new),
         name \notin Spoken, name # "STDOUT",
         \A other \in Spoken \cup {"STDOUT", "disconnect"} : other \notin new,
         process'.child = process.child, process'.read = process.read,
         process'.reading => process'.child = "running",
         Connected' => Connected /\ Messages' = Messages
  PROVE  ShellInv'
<1>1. /\ Pending = {name} \cup Names(Tail(calls))
      /\ Pending' = new \cup Names(Tail(calls))
  BY DEF Turns, Pending
<1>2. "STDOUT" \notin Pending
  BY <1>1 DEF ShellInv, Running
<1>3. Neutral
  BY <1>1, <1>2 DEF Neutral, Spoken
<1> QED
  BY <1>3, NeutralStep

\* Handlers that are neutral.
LEMMA NeutralHandlers ==
  ASSUME ShellInv, TypeInv',
         \/ KillFirst \/ BindFails \/ close \/ SendSucceeds \/ SendFindsFull
         \/ SendFails \/ ReceiveHeader \/ HeaderKnown \/ ReceiveInput
         \/ start_output \/ EraseMessage \/ SendRemaining \/ Disconnect
  PROVE  ShellInv'
<1>0. /\ IsStack(calls) /\ process \in ProcessType /\ channel \in ChannelType
      /\ outbuf \in Seq(ServerMessage) /\ TypeInv /\ Running
  BY TypeInvStack DEF ShellInv, TypeInv, TypeOK, ProcessType, ChannelType
<1>1. process.reading => process.child = "running"
  BY <1>0 DEF Running
<1>2. Messages \in Seq(ServerMessage)
  BY <1>0, ConcatProperties DEF Messages, ChannelType
<1>3. CASE KillFirst \/ BindFails
  <2>1. Turns("reconnect", {})
    BY <1>0, <1>3, HandlerTurns
  <2>2. ~Connected'
    BY <1>3 DEF KillFirst, BindFails, Reconnecting, Connected
  <2>3. /\ process'.child = process.child /\ process'.read = process.read
        /\ process'.reading = process.reading
    <3>1. CASE KillFirst
      <4>1. \A b \in BOOLEAN :
              LET p == [process EXCEPT !.termed = b]
              IN p.child = process.child /\ p.read = process.read
                 /\ p.reading = process.reading
        BY <1>0 DEF ProcessType
      <4>2. \/ process' = [process EXCEPT !.termed = TRUE]
            \/ process' = [process EXCEPT !.termed = FALSE]
        BY <3>1, Zenon DEF KillFirst
      <4> QED
        BY <4>1, <4>2
    <3>2. CASE BindFails
      BY <3>2 DEF BindFails
    <3> QED
      BY <1>3, <3>1, <3>2
  <2> QED
    BY <1>1, <2>1, <2>2, <2>3, NeutralTurn DEF Spoken
<1>4. CASE close
  <2>1. Turns("close", {"reconnect"})
    BY <1>0, <1>4, HandlerTurns
  <2>2. process' = process /\ ~Connected'
    BY <1>4, ChannelTypes DEF close, LoseChannel, Connected
  <2> QED
    BY <1>1, <2>1, <2>2, NeutralTurn DEF Spoken
<1>5. CASE SendSucceeds
  <2>1. Turns("send_buf", {})
    BY <1>0, <1>5, HandlerTurns
  <2>2. process' = process /\ Connected
    BY <1>5 DEF SendSucceeds, Sending
  <2>3. Messages' = Messages
    <3> DEFINE all == channel.received \o outbuf
               state == IF HasProcess THEN channel.state ELSE "closing"
    <3>1. channel' = [channel EXCEPT !.received = all, !.state = state] /\ outbuf' = <<>>
      BY <1>5 DEF SendSucceeds
    <3> HIDE DEF all, state
    <3>2. channel'.received = all
      BY <3>1, <1>0 DEF ChannelType
    <3>3. all = Messages
      BY DEF all, Messages
    <3>4. Messages' = all \o <<>>
      BY <3>1, <3>2 DEF Messages
    <3> QED
      BY <3>3, <3>4, <1>2, ConcatEmptySeq
  <2> QED
    BY <1>1, <2>1, <2>2, <2>3, NeutralTurn DEF Spoken
<1>6. CASE SendFindsFull
  <2>1. Turns("send_buf", {})
    BY <1>0, <1>6, HandlerTurns
  <2>2. /\ process' = StopOutput(process) /\ Connected /\ outbuf' = outbuf
        /\ channel' = [channel EXCEPT !.full = TRUE]
    BY <1>6 DEF SendFindsFull, Sending, BufferIsFull, buffers
  <2>3. Messages' = Messages
    BY <2>2, <1>0 DEF Messages, ChannelType
  <2>4. /\ process'.child = process.child /\ process'.read = process.read
        /\ ~process'.reading
    BY <2>2, <1>0, ProcessTypes
  <2> QED
    BY <2>1, <2>2, <2>3, <2>4, NeutralTurn DEF Spoken
<1>7. CASE SendFails \/ HeaderKnown \/ SendRemaining \/ EraseMessage
  <2>1. \E name, new :
          /\ Turns(name, new) /\ name \notin Spoken /\ name # "STDOUT"
          /\ \A other \in Spoken \cup {"STDOUT", "disconnect"} : other \notin new
    <3>1. /\ SendFails => Turns("send_buf", {"close"})
          /\ HeaderKnown => Turns("header", {"body"})
          /\ SendRemaining => Turns("disconnect", {"send_buf"})
          /\ EraseMessage => Turns("erase", {})
      BY <1>0, HandlerTurns
    <3> QED
      BY <1>7, <3>1 DEF Spoken
  <2>2. channel' = channel /\ outbuf' = outbuf /\ process' = process
    BY <1>7 DEF SendFails, HeaderKnown, SendRemaining, EraseMessage, buffers
  <2>3. Messages' = Messages /\ (Connected' <=> Connected)
    BY <2>2 DEF Messages, Connected
  <2> QED
    BY <1>1, <2>1, <2>2, <2>3, NeutralTurn
<1>8. CASE ReceiveHeader
  <2>1. Pending = {"header"} /\ Pending' \in {{"close"}, {"body"}}
    BY <1>0, <1>8, HeaderRead
  <2>2. channel' = channel /\ outbuf' = outbuf /\ process' = process
    BY <1>8 DEF ReceiveHeader
  <2>3. Messages' = Messages /\ (Connected' <=> Connected)
    BY <2>2 DEF Messages, Connected
  <2>4. Neutral
    BY <1>1, <2>1, <2>2, <2>3 DEF Neutral, Spoken
  <2> QED
    BY <2>4, NeutralStep
<1>9. CASE ReceiveInput
  <2>1. Turns("body", {"erase"}) /\ outbuf' = outbuf
    BY <1>0, <1>9, HandlerTurns DEF ReceiveInput, buffers
  <2>2. channel'.received = channel.received /\ channel'.state = channel.state
    BY <1>0, <1>9 DEF ReceiveInput, Take, ChannelType
  <2>3. Messages' = Messages /\ (Connected' <=> Connected)
    BY <2>1, <2>2 DEF Messages, Connected
  <2>4. /\ process'.child = process.child /\ process'.read = process.read
        /\ process'.reading = process.reading
    BY <1>0, <1>9 DEF ReceiveInput, ProcessType
  <2> QED
    BY <1>1, <2>1, <2>3, <2>4, NeutralTurn DEF Spoken
<1>10. CASE start_output
  <2>1. /\ Turns("start_output", {}) /\ outbuf' = outbuf /\ channel' = channel
        /\ process' = StartOutput(process)
    BY <1>0, <1>10, HandlerTurns DEF start_output, SetProcess, buffers
  <2>2. Messages' = Messages /\ (Connected' <=> Connected)
    BY <2>1 DEF Messages, Connected
  <2>3. /\ process'.child = process.child /\ process'.read = process.read
        /\ process'.reading => process'.child = "running"
    BY <2>1, <1>0, ProcessTypes
  <2> QED
    BY <2>1, <2>2, <2>3, NeutralTurn DEF Spoken
<1>11. CASE Disconnect
  <2>1. /\ Turns("disconnect", {}) /\ outbuf' = outbuf /\ process' = process
        /\ channel' = [channel EXCEPT !.state = "closing"] /\ Connected
    BY <1>0, <1>11, HandlerTurns DEF Disconnect, buffers
  <2>2. Messages' = Messages
    BY <2>1, <1>0 DEF Messages, ChannelType
  <2> QED
    BY <1>1, <2>1, <2>2, NeutralTurn DEF Spoken
<1> QED
  BY <1>3, <1>4, <1>5, <1>6, <1>7, <1>8, <1>9, <1>10, <1>11

\* Callbacks that are neutral.
LEMMA NeutralCallbacks ==
  ASSUME ShellInv, TypeInv',
         \/ onDisconnected \/ onBufferFull \/ onBufferEmpty \/ RetryTimer
         \/ \E n \in 1 .. Len(channel.upstream) : onDataReceived(n)
         \/ ClientSpeaks \/ ChildWrites
  PROVE  ShellInv'
<1>0. /\ process \in ProcessType /\ channel \in ChannelType
      /\ TypeInv /\ TypeOK /\ Running
  BY DEF ShellInv, TypeInv, TypeOK, ProcessType, ChannelType
<1>1. process.reading => process.child = "running"
  BY <1>0 DEF Running
<1>2. calls = <<>> /\ Pending = {}
  BY IdleStack
  DEF onDisconnected, onBufferFull, onBufferEmpty, BufferIsEmpty, RetryTimer,
      onDataReceived, ClientSpeaks, ClientSends, ChildWrites
<1>3. \A name \in Spoken \cup {"STDOUT", "disconnect"} : name \notin Pending'
  <2>1. CASE onDisconnected \/ onBufferEmpty \/ RetryTimer
    BY <2>1, <1>0, LoopCalls DEF Pending, Spoken
  <2>2. CASE \E n \in 1 .. Len(channel.upstream) : onDataReceived(n)
    BY <2>2, <1>0, LoopCalls, Empty DEF Pending, Spoken
  <2>3. CASE onBufferFull \/ ClientSpeaks \/ ChildWrites
    BY <2>3, <1>2, Empty
    DEF onBufferFull, ClientSpeaks, ClientSends, ChildWrites, Pending
  <2> QED
    BY <2>1, <2>2, <2>3
<1>4. /\ process'.child = process.child /\ process'.read = process.read
      /\ process'.reading => process'.child = "running"
  <2>1. CASE onBufferFull \/ onBufferEmpty
    BY <2>1, <1>0, ProcessTypes
    DEF onBufferFull, BufferIsFull, onBufferEmpty, BufferIsEmpty
  <2>2. CASE ChildWrites
    BY <2>2, <1>0, <1>1 DEF ChildWrites, ProcessType
  <2>3. CASE \/ onDisconnected \/ RetryTimer \/ ClientSpeaks
             \/ \E n \in 1 .. Len(channel.upstream) : onDataReceived(n)
    BY <2>3, <1>1
    DEF onDisconnected, LoseChannel, RetryTimer, ClientSpeaks, ClientSends,
        onDataReceived
  <2> QED
    BY <2>1, <2>2, <2>3
<1>5. Connected' => Connected /\ Messages' = Messages
  <2>1. CASE onDisconnected
    BY <2>1, ChannelTypes DEF onDisconnected, LoseChannel, Connected
  <2>2. CASE \/ onBufferFull \/ onBufferEmpty \/ RetryTimer \/ ClientSpeaks \/ ChildWrites
             \/ \E n \in 1 .. Len(channel.upstream) : onDataReceived(n)
    <3>1. outbuf' = outbuf
      BY <2>2
      DEF onBufferFull, BufferIsFull, onBufferEmpty, BufferIsEmpty, RetryTimer,
          ClientSpeaks, ClientSends, ChildWrites, onDataReceived, buffers
    <3>2. channel'.received = channel.received /\ channel'.state = channel.state
      <4>1. CASE onBufferFull \/ onBufferEmpty \/ RetryTimer \/ ChildWrites
        BY <4>1, <1>0
        DEF onBufferFull, BufferIsFull, onBufferEmpty, BufferIsEmpty, RetryTimer,
            ChildWrites, ChannelType
      <4>2. CASE ClientSpeaks
        <5>1. \E sent, up : channel' = [channel EXCEPT !.sent = sent, !.upstream = up]
          BY <4>2 DEF ClientSpeaks, ClientSends
        <5> QED
          BY <5>1, <1>0 DEF ChannelType
      <4>3. CASE \E n \in 1 .. Len(channel.upstream) : onDataReceived(n)
        <5>1. \E up : channel' = [channel EXCEPT !.upstream = up]
          BY <4>3 DEF onDataReceived
        <5> QED
          BY <5>1, <1>0 DEF ChannelType
      <4> QED
        BY <2>2, <4>1, <4>2, <4>3
    <3> QED
      BY <3>1, <3>2 DEF Messages, Connected
  <2> QED
    BY <2>1, <2>2
<1>6. Neutral
  BY <1>2, <1>3, <1>4, <1>5 DEF Neutral
<1> QED
  BY <1>6, NeutralStep

\* The daemon goes down.
LEMMA DownShell ==
  ASSUME ShellInv, TypeInv', UNCHANGED <<channel, outbuf, process, calls>>
  PROVE  ShellInv'
BY DEF ShellInv, Running, Quieted, Announced, OutputInOrder, Messages, Pending,
       Connected, HasProcess

-----------------------------------------------------------------------------
(* Steps that matter *)

\* What is said last.
LEMMA Saying ==
  ASSUME NEW all \in Seq(ServerMessage), NEW msg \in ServerMessage
  PROVE  /\ Append(all, msg) \in Seq(ServerMessage)
         /\ msg = Exit => Quiet(Append(all, msg))
         /\ msg = Started => Said(Append(all, msg), 0) /\ Told(Append(all, msg))
         /\ \A n \in Nat \ {0} : msg = Output(n) => Said(Append(all, msg), n)
         /\ Told(all) => Told(Append(all, msg))
         /\ InOrder(all) /\ msg.type # "STDOUT" => InOrder(Append(all, msg))
         /\ \A n \in Nat \ {0} :
              InOrder(all) /\ msg = Output(n) /\ Said(all, n - 1)
                => InOrder(Append(all, msg))
<1> DEFINE new == Append(all, msg)
<1>1. /\ new \in Seq(ServerMessage) /\ new # <<>> /\ Len(all) \in Nat
      /\ Len(new) = Len(all) + 1 /\ new[Len(all) + 1] = msg
      /\ \A i \in 1 .. Len(all) : new[i] = all[i]
      /\ DOMAIN all = 1 .. Len(all) /\ DOMAIN new = 1 .. Len(all) + 1
  BY AppendProperties, LenProperties
<1> HIDE DEF new
<1>2. msg = Exit => Quiet(new)
  BY <1>1 DEF Quiet
<1>3. msg = Started => Said(new, 0) /\ Told(new)
  BY <1>1 DEF Said, Told
<1>4. \A n \in Nat \ {0} : msg = Output(n) => Said(new, n)
  BY <1>1 DEF Said
<1>5. Told(all) => Told(new)
  BY <1>1 DEF Told
<1>6. InOrder(all) /\ msg.type # "STDOUT" => InOrder(new)
  <2> SUFFICES ASSUME InOrder(all), msg.type # "STDOUT", NEW k \in DOMAIN new,
                      new[k].type = "STDOUT"
               PROVE  /\ k > 1
                      /\ new[k - 1] = IF new[k].n = 1 THEN Started
                                      ELSE Output(new[k].n - 1)
    BY DEF InOrder
  <2>1. k \in 1 .. Len(all)
    BY <1>1
  <2>2. /\ k > 1
        /\ all[k - 1] = IF all[k].n = 1 THEN Started ELSE Output(all[k].n - 1)
    BY <1>1, <2>1 DEF InOrder
  <2>3. k - 1 \in 1 .. Len(all)
    BY <2>1, <2>2, <1>1
  <2> QED
    BY <2>1, <2>2, <2>3, <1>1
<1>7. ASSUME NEW n \in Nat \ {0}, InOrder(all), msg = Output(n), Said(all, n - 1)
      PROVE  InOrder(new)
  <2> SUFFICES ASSUME NEW k \in DOMAIN new, new[k].type = "STDOUT"
               PROVE  /\ k > 1
                      /\ new[k - 1] = IF new[k].n = 1 THEN Started
                                      ELSE Output(new[k].n - 1)
    BY DEF InOrder
  <2>1. CASE k \in 1 .. Len(all)
    <3>2. /\ k > 1
          /\ all[k - 1] = IF all[k].n = 1 THEN Started ELSE Output(all[k].n - 1)
      BY <1>1, <1>7, <2>1 DEF InOrder
    <3>3. k - 1 \in 1 .. Len(all)
      BY <2>1, <3>2, <1>1
    <3> QED
      BY <2>1, <3>2, <3>3, <1>1
  <2>2. CASE k = Len(all) + 1
    <3>1. Len(all) \in 1 .. Len(all) /\ all # <<>>
      BY <1>1, <1>7, EmptySeq DEF Said
    <3>2. new[k - 1] = all[Len(all)] /\ k > 1
      BY <3>1, <2>2, <1>1
    <3>3. new[k].n = n
      BY <1>1, <1>7, <2>2 DEF Output
    <3>4. all[Len(all)] = IF n - 1 = 0 THEN Started ELSE Output(n - 1)
      BY <1>7 DEF Said
    <3>5. n - 1 = 0 <=> n = 1
      OBVIOUS
    <3> QED
      BY <3>2, <3>3, <3>4, <3>5
  <2> QED
    BY <2>1, <2>2, <1>1
<1> QED
  BY <1>1, <1>2, <1>3, <1>4, <1>5, <1>6, <1>7 DEF new

\* What may still be pending when a call returns.
LEMMA Remains ==
  ASSUME NEW name \in CallName, NEW new, Turns(name, new),
         NEW other \in CallName, Depth(other) <= Depth(name)
  PROVE  other \notin Names(Tail(calls))
<1>1. Depth(other) \in Int /\ Depth(name) \in Int
  BY Depths DEF CallName
<1> QED
  BY <1>1 DEF Turns, Above

LEMMA AppendLast ==
  ASSUME NEW a \in Seq(ServerMessage), NEW b \in Seq(ServerMessage),
         NEW m \in ServerMessage
  PROVE  a \o Append(b, m) = Append(a \o b, m)
<1> DEFINE last == <<m>>
           ab == a \o b
<1>1. last \in Seq(ServerMessage) /\ ab \in Seq(ServerMessage)
  BY ConcatProperties
<1>2. Append(b, m) = b \o last /\ Append(ab, m) = ab \o last
  BY <1>1, AppendIsConcat
<1> HIDE DEF last
<1>3. (a \o b) \o last = a \o (b \o last)
  BY <1>1, ConcatAssociative
<1> QED
  BY <1>2, <1>3

LEMMA Sent ==
  ASSUME ShellInv, TypeInv', send
  PROVE  ShellInv'
<1> DEFINE msg == Head(calls).msg
           type == msg.type
           rest == Names(Tail(calls))
<1>0. /\ IsStack(calls) /\ TypeInv /\ Running
      /\ channel.received \in Seq(ServerMessage) /\ outbuf \in Seq(ServerMessage)
      /\ process.read \in Nat
  BY TypeInvStack DEF ShellInv, TypeInv, TypeOK
<1>1. /\ Doing("send") /\ Connected /\ outbuf' = Append(outbuf, msg)
      /\ UNCHANGED <<channel, process>>
  BY DEF send, Queued
<1>2. /\ msg \in ServerMessage /\ Turns(type, {"send_buf", "update_events"})
      /\ Head(calls).fn = "send"
  BY <1>0, <1>1, HeadNamed, HandlerTurns
<1>3. /\ type \in {"STARTED", "STDOUT", "ENDOFFILE"}
      /\ type = "STARTED" => msg = Started
      /\ type = "ENDOFFILE" => msg = Exit
  BY <1>2 DEF ServerMessage, Started, Exit
<1> HIDE DEF msg, type
<1>4. /\ Pending = {type} \cup rest
      /\ Pending' = {"send_buf", "update_events"} \cup rest
      /\ \A other \in CallName : Depth(other) <= Depth(type) => other \notin rest
  <2>1. type \in CallName
    BY <1>3 DEF CallName
  <2> QED
    BY <1>2, <2>1, Remains DEF Turns, Pending
<1> HIDE DEF rest
<1>5. Messages \in Seq(ServerMessage) /\ Messages' = Append(Messages, msg)
  BY <1>0, <1>1, <1>2, AppendLast, ConcatProperties DEF Messages
<1>6. /\ Connected' /\ (HasProcess' <=> HasProcess) /\ process' = process
  BY <1>1 DEF Connected, HasProcess
<1>7. InOrder(Messages)
  BY <1>1, OutputOrder DEF ShellInv
<1>8. CASE type = "STARTED"
  <2>1. msg = Started
    BY <1>3, <1>8
  <2>2. \A other \in {"spawn", "assign", "ENDOFFILE", "forget", "disconnect",
                      "STARTED", "STDOUT"} : other \notin rest
    BY <1>4, <1>8, Depths DEF CallName
  <2>3. HasProcess /\ process.read = 0
    BY <1>0, <1>4, <1>8, <2>2 DEF Running
  <2>4. Said(Messages', 0) /\ Told(Messages') /\ InOrder(Messages')
    BY <1>2, <1>5, <1>7, <1>8, <2>1, Saying DEF type
  <2>5. Running'
    BY <1>0, <1>4, <1>6, <2>2, <2>3, <2>4 DEF Running
  <2>6. Quieted' /\ Announced'
    BY <1>4, <1>6, <2>2, <2>3, <2>4 DEF Quieted, Announced
  <2> QED
    BY <2>4, <2>5, <2>6, OutputOrderNext DEF ShellInv
<1>9. CASE type = "ENDOFFILE"
  <2>1. msg = Exit
    BY <1>3, <1>9
  <2>2. \A other \in {"ENDOFFILE", "STDOUT"} : other \notin rest
    BY <1>4, <1>9, Depths DEF CallName
  <2>3. process.child # "running"
    BY <1>0, <1>4, <1>9 DEF Running
  <2>4. /\ Quiet(Messages') /\ InOrder(Messages')
        /\ Told(Messages) => Told(Messages')
    BY <1>2, <1>5, <1>7, <1>9, <2>1, Saying DEF type
  <2>5. Running'
    BY <1>0, <1>4, <1>6, <1>9, <2>2, <2>3 DEF Running
  <2>6. Quieted' /\ Announced'
    BY <1>1, <1>4, <1>6, <1>9, <2>2, <2>4 DEF ShellInv, Quieted, Announced
  <2> QED
    BY <2>4, <2>5, <2>6, OutputOrderNext DEF ShellInv
<1>10. CASE type = "STDOUT"
  <2>1. /\ process.child = "running" /\ process.read > 0
        /\ Pending = {"STDOUT"} /\ Head(calls) = SendCall(Output(process.read))
        /\ Said(Messages, process.read - 1)
    BY <1>0, <1>1, <1>4, <1>10 DEF Running
  <2>2. msg = Output(process.read)
    BY <2>1 DEF msg, SendCall
  <2>3. "STDOUT" \notin rest
    BY <1>4, <1>10, Depths DEF CallName
  <2>4. Pending' = {"send_buf", "update_events"}
    BY <1>4, <2>1, <2>3
  <2>5. HasProcess /\ Told(Messages) /\ process.read \in Nat \ {0}
    BY <2>1, <1>0, <1>1 DEF HasProcess, ShellInv, Announced
  <2>6. Said(Messages', process.read) /\ Told(Messages') /\ InOrder(Messages')
    BY <1>2, <1>5, <1>7, <2>1, <2>2, <2>5, Saying
  <2>7. Running'
    BY <1>0, <1>6, <2>1, <2>4, <2>6 DEF Running
  <2>8. Quieted' /\ Announced'
    BY <1>6, <2>4, <2>5, <2>6 DEF Quieted, Announced
  <2> QED
    BY <2>6, <2>7, <2>8, OutputOrderNext DEF ShellInv
<1> QED
  BY <1>3, <1>8, <1>9, <1>10

LEMMA Returned ==
  ASSUME ShellInv, TypeInv', Return
  PROVE  ShellInv'
<1>0. IsStack(calls) /\ TypeInv /\ Running
  BY TypeInvStack DEF ShellInv
<1>1. /\ Turns(Name(Head(calls)), {})
      /\ UNCHANGED <<channel, outbuf, process>>
  BY <1>0, HandlerTurns DEF Return, buffers
<1>2. /\ (Connected' <=> Connected) /\ Messages' = Messages
      /\ (HasProcess' <=> HasProcess)
  BY <1>1 DEF Connected, Messages, HasProcess
<1>3. CASE Doing("send") /\ ~Connected
  <2> DEFINE type == Head(calls).msg.type
             rest == Names(Tail(calls))
  <2>1. /\ Name(Head(calls)) = type
        /\ type \in {"STARTED", "STDOUT", "ENDOFFILE"} /\ type \in CallName
    BY <1>0, <1>3, HeadNamed, MessageTypes DEF CallName
  <2> HIDE DEF type
  <2>2. Pending = {type} \cup rest /\ Pending' = rest
    BY <1>1, <2>1 DEF Turns, Pending
  <2>3. \A other \in CallName : Depth(other) <= Depth(type) => other \notin rest
    BY <1>1, <2>1, Remains
  <2> HIDE DEF rest
  <2>4. type = "STARTED" => "spawn" \notin rest /\ "assign" \notin rest
    BY <2>3, Depths DEF CallName
  <2>5. "STDOUT" \notin rest
    BY <2>1, <2>3, Depths DEF CallName
  <2>6. Running'
    BY <1>0, <1>1, <1>2, <1>3, <2>1, <2>2, <2>4, <2>5 DEF Running
  <2> QED
    BY <1>2, <1>3, <2>6 DEF ShellInv, Quieted, Announced, OutputInOrder
<1>4. CASE ~(Doing("send") /\ ~Connected)
  <2>1. Name(Head(calls)) \in {"send_buf", "update_events", "body"}
    <3>1. \E fn \in {"send_buf", "update_events", "body"} : Doing(fn)
      BY <1>4 DEF Return
    <3> QED
      BY <1>0, <3>1, HeadNamed
  <2>2. process.reading => process.child = "running"
    BY <1>0 DEF Running
  <2> QED
    BY <1>1, <1>2, <2>1, <2>2, NeutralTurn DEF Spoken
<1> QED
  BY <1>3, <1>4

\* The process is made for a command.
LEMMA Spawned ==
  ASSUME ShellInv, TypeInv',
         ReceiveCommand \/ SpawnSucceeds \/ SpawnFails \/ AssignFailed
  PROVE  ShellInv'
<1> DEFINE rest == Names(Tail(calls))
<1>0. /\ IsStack(calls) /\ TypeInv /\ Running /\ process \in ProcessType
      /\ channel \in ChannelType
  BY TypeInvStack DEF ShellInv, TypeInv, TypeOK, ProcessType, ChannelType
<1>1. /\ outbuf' = outbuf /\ channel'.received = channel.received
      /\ channel'.state = channel.state
  BY <1>0
  DEF ReceiveCommand, Take, SpawnSucceeds, SpawnFails, AssignFailed, SetProcess,
      buffers, ChannelType
<1>2. (Connected' <=> Connected) /\ Messages' = Messages
  BY <1>1 DEF Connected, Messages
<1>3. OutputInOrder'
  BY <1>2, OutputOrder, OutputOrderNext DEF ShellInv
<1>4. CASE ReceiveCommand
  <2>1. /\ Turns("body", {"spawn", "STARTED", "start_output", "erase"})
        /\ process' = process /\ ~HasProcess
    BY <1>0, <1>4, HandlerTurns DEF ReceiveCommand
  <2>2. /\ Pending = {"body"} \cup rest
        /\ Pending' = {"spawn", "STARTED", "start_output", "erase"} \cup rest
    BY <2>1 DEF Turns, Pending
  <2>3. rest = {}
    <3>1. "body" \notin rest
      BY <2>1, Remains, Depths DEF CallName
    <3> HIDE DEF rest
    <3> QED
      BY <2>2, <3>1, <1>0 DEF TypeInv, Linked
  <2> HIDE DEF rest
  <2>4. Running'
    BY <1>0, <1>2, <2>1, <2>2, <2>3 DEF Running, HasProcess
  <2>5. Quieted' /\ Announced'
    BY <1>2, <2>1, <2>2, <2>3 DEF ShellInv, Quieted, Announced, HasProcess
  <2> QED
    BY <1>3, <2>4, <2>5 DEF ShellInv
<1>5. CASE SpawnSucceeds
  <2>1. Turns("spawn", {}) /\ process' = NewProcess("running")
    BY <1>0, <1>5, HandlerTurns DEF SpawnSucceeds, SetProcess
  <2>2. /\ Pending = {"spawn"} \cup rest /\ Pending' = rest
        /\ \A other \in {"spawn", "assign", "ENDOFFILE", "forget", "disconnect",
                         "STDOUT"} : other \notin rest
    BY <2>1, Remains, Depths DEF Turns, Pending, CallName
  <2>3. /\ process'.child = "running" /\ process'.read = 0 /\ HasProcess'
    BY <2>1 DEF NewProcess, NoProcess, HasProcess
  <2> HIDE DEF rest
  <2>4. "STARTED" \in Pending'
    BY <2>2, <1>0 DEF Running
  <2>5. Running'
    BY <2>2, <2>3, <2>4 DEF Running
  <2>6. Quieted' /\ Announced'
    BY <1>2, <2>2, <2>4 DEF ShellInv, Quieted, Announced
  <2> QED
    BY <1>3, <2>5, <2>6 DEF ShellInv
<1>6. CASE SpawnFails
  <2>1. /\ Turns("spawn", {"ENDOFFILE", "forget", "disconnect", "assign"})
        /\ process' = process
    BY <1>0, <1>6, HandlerTurns DEF SpawnFails
  <2>2. /\ Pending = {"spawn"} \cup rest
        /\ Pending' = {"ENDOFFILE", "forget", "disconnect", "assign"} \cup rest
        /\ "STDOUT" \notin rest
    BY <2>1, Remains, Depths DEF Turns, Pending, CallName
  <2> HIDE DEF rest
  <2>4. "STARTED" \in Pending /\ "STARTED" \in Pending' /\ "assign" \in Pending'
    BY <2>2, <1>0 DEF Running
  <2>5. Running'
    BY <1>0, <2>1, <2>2, <2>4 DEF Running
  <2>6. Quieted' /\ Announced'
    BY <1>2, <2>1, <2>2, <2>4 DEF ShellInv, Quieted, Announced
  <2> QED
    BY <1>3, <2>5, <2>6 DEF ShellInv
<1>7. CASE AssignFailed
  <2>1. Turns("assign", {}) /\ process' = NewProcess("failed")
    BY <1>0, <1>7, HandlerTurns DEF AssignFailed, SetProcess
  <2>2. /\ Pending = {"assign"} \cup rest /\ Pending' = rest
        /\ \A other \in {"spawn", "assign", "ENDOFFILE", "forget", "disconnect",
                         "STDOUT"} : other \notin rest
    BY <2>1, Remains, Depths DEF Turns, Pending, CallName
  <2>3. /\ process'.child = "failed" /\ process'.read = 0 /\ HasProcess'
        /\ process'.reading = FALSE
    BY <2>1 DEF NewProcess, NoProcess, HasProcess
  <2> HIDE DEF rest
  <2>4. "STARTED" \in Pending /\ "STARTED" \in Pending'
    BY <2>2, <1>0 DEF Running
  <2>5. Running'
    BY <2>2, <2>3, <2>4 DEF Running
  <2>6. Quieted' /\ Announced'
    BY <1>2, <2>2, <2>4 DEF ShellInv, Quieted, Announced
  <2> QED
    BY <1>3, <2>5, <2>6 DEF ShellInv
<1> QED
  BY <1>4, <1>5, <1>6, <1>7

\* The process is forgotten, or there is a new connection.
LEMMA Cleared ==
  ASSUME ShellInv, TypeInv', ForgetProcess \/ BindSucceeds
  PROVE  ShellInv'
<1> DEFINE rest == Names(Tail(calls))
<1>0. IsStack(calls) /\ TypeInv /\ Running
  BY TypeInvStack DEF ShellInv
<1>1. CASE ForgetProcess
  <2>1. /\ Turns("forget", {}) /\ process' = NoProcess
        /\ channel' = channel /\ outbuf' = outbuf
    BY <1>0, <1>1, HandlerTurns DEF ForgetProcess, SetProcess, buffers
  <2>2. /\ Pending = {"forget"} \cup rest /\ Pending' = rest
        /\ \A other \in {"ENDOFFILE", "forget", "STDOUT"} : other \notin rest
    BY <2>1, Remains, Depths DEF Turns, Pending, CallName
  <2>3. process'.child = "null" /\ process'.reading = FALSE /\ ~HasProcess'
    BY <2>1 DEF NoProcess, HasProcess
  <2>4. (Connected' <=> Connected) /\ Messages' = Messages
    BY <2>1 DEF Connected, Messages
  <2> HIDE DEF rest
  <2>5. Running'
    BY <1>0, <2>2, <2>3 DEF Running
  <2>6. Quieted' /\ Announced'
    BY <2>2, <2>3, <2>4 DEF ShellInv, Quieted, Announced
  <2>7. OutputInOrder'
    BY <2>4, OutputOrder, OutputOrderNext DEF ShellInv
  <2> QED
    BY <2>5, <2>6, <2>7 DEF ShellInv
<1>2. CASE BindSucceeds
  <2>1. /\ Turns("reconnect", {}) /\ process' = process /\ ~HasProcess
        /\ channel' = NewChannel /\ outbuf' = <<>>
    BY <1>0, <1>2, HandlerTurns DEF BindSucceeds, Reconnecting, Reset
  <2>2. Pending = {"reconnect"} \cup rest /\ Pending' = rest
    BY <2>1 DEF Turns, Pending
  <2> HIDE DEF rest
  <2>3. "STDOUT" \notin Pending'
    BY <1>0, <2>2 DEF Running
  <2>4. Messages' = <<>>
    <3>1. <<>> \o <<>> = <<>>
      BY ConcatEmptySeq
    <3> QED
      BY <2>1, <3>1, ChannelTypes DEF Messages
  <2>5. Running'
    BY <1>0, <2>1, <2>2, <2>3 DEF Running, HasProcess
  <2>6. Quieted' /\ Announced'
    BY <2>1, <2>4 DEF Quieted, Announced, Quiet, HasProcess
  <2>7. OutputInOrder'
    BY <2>4, OutputOrderNext DEF InOrder
  <2> QED
    BY <2>5, <2>6, <2>7 DEF ShellInv
<1> QED
  BY <1>1, <1>2

\* The callbacks of the process and of its timer.
LEMMA ProcessCallbacks ==
  ASSUME ShellInv, TypeInv',
         \/ read_callback \/ HandleClosed \/ KillTimer
         \/ \E sigterm \in BOOLEAN : ChildExits(sigterm)
  PROVE  ShellInv'
<1>0. TypeInv /\ TypeOK /\ Running /\ process \in ProcessType
  BY DEF ShellInv, TypeInv, TypeOK, ProcessType
<1>1. calls = <<>> /\ Pending = {}
  BY IdleStack DEF read_callback, HandleClosed, KillTimer, ChildExits
<1>2. /\ (Connected' <=> Connected) /\ Messages' = Messages
  BY DEF read_callback, HandleClosed, KillTimer, ChildExits, Connected, Messages,
         buffers
<1>3. OutputInOrder'
  BY <1>2, OutputOrder, OutputOrderNext DEF ShellInv
<1>4. CASE read_callback
  <2>1. /\ process.reading /\ process' = [process EXCEPT !.read = @ + 1]
        /\ calls' = <<SendCall(Output(process.read + 1))>>
    BY <1>4 DEF read_callback
  <2>2. process.child = "running" /\ (Connected => Said(Messages, process.read))
    BY <1>0, <1>1, <2>1 DEF Running
  <2>3. /\ process'.child = "running" /\ process'.read = process.read + 1
        /\ process.read \in Nat
    BY <2>1, <2>2, <1>0 DEF ProcessType
  <2>4. Pending' = {"STDOUT"}
    BY <1>0, <1>4, LoopCalls DEF Pending
  <2>5. Head(calls') = SendCall(Output(process'.read))
    BY <2>1, <2>3
  <2>6. process'.read > 0 /\ process'.read - 1 = process.read
    BY <2>3
  <2>7. Running'
    BY <1>2, <2>2, <2>3, <2>4, <2>5, <2>6 DEF Running
  <2>8. Quieted' /\ Announced'
    BY <1>1, <1>2, <2>2, <2>3, <2>4 DEF ShellInv, Quieted, Announced, HasProcess
  <2> QED
    BY <1>3, <2>7, <2>8 DEF ShellInv
<1>5. CASE HandleClosed
  <2>1. /\ process.child \in {"exited", "killed"}
        /\ process' \in {process, [process EXCEPT !.child = "reaped"]}
    BY <1>5 DEF HandleClosed, Closing
  <2>2. /\ process'.child \in {"exited", "killed", "reaped"}
        /\ process'.reading = process.reading
    BY <2>1, <1>0 DEF ProcessType
  <2>3. Pending' \in {{}, {"ENDOFFILE", "forget", "disconnect"}}
    BY <1>0, <1>5, LoopCalls, Empty DEF Pending
  <2>4. Running'
    BY <1>0, <1>2, <2>1, <2>2, <2>3 DEF Running
  <2>5. Quieted' /\ Announced'
    BY <1>1, <1>2, <2>1, <2>2, <2>3 DEF ShellInv, Quieted, Announced, HasProcess
  <2> QED
    BY <1>3, <2>4, <2>5 DEF ShellInv
<1>6. CASE KillTimer
  <2>1. ~Connected /\ process' = NoProcess /\ Pending' = {"reconnect"}
    BY <1>0, <1>6, LoopCalls DEF KillTimer, TypeInv, Linked, Pending
  <2>2. process'.child = "null" /\ process'.reading = FALSE
    BY <2>1 DEF NoProcess
  <2>3. Running'
    BY <2>1, <2>2 DEF Running
  <2>4. Quieted' /\ Announced'
    BY <1>2, <2>1 DEF Quieted, Announced
  <2> QED
    BY <1>3, <2>3, <2>4 DEF ShellInv
<1>7. CASE \E sigterm \in BOOLEAN : ChildExits(sigterm)
  <2>1. /\ process.child = "running" /\ calls' = calls
        /\ \E child \in {"killed", "exited"} :
             process' = [process EXCEPT !.child = child, !.reading = FALSE,
                                        !.has_in = FALSE]
    BY <1>7 DEF ChildExits
  <2>2. process'.child \in {"exited", "killed"} /\ process'.reading = FALSE
    BY <2>1, <1>0 DEF ProcessType
  <2>3. Pending' = {}
    BY <2>1, <1>1 DEF Pending
  <2>4. Running'
    BY <2>2, <2>3 DEF Running
  <2>5. Quieted' /\ Announced'
    BY <1>1, <1>2, <2>1, <2>2, <2>3 DEF ShellInv, Quieted, Announced, HasProcess
  <2> QED
    BY <1>3, <2>4, <2>5 DEF ShellInv
<1> QED
  BY <1>4, <1>5, <1>6, <1>7

LEMMA RestartShell ==
  ASSUME ShellInv, TypeInv', Restart
  PROVE  ShellInv'
<1>1. ~Connected' /\ process' = NoProcess /\ Pending' = {"reconnect"}
  BY LoopCalls, ChannelTypes DEF ShellInv, TypeInv, Restart, Connected, Pending
<1>2. process'.child = "null" /\ process'.reading = FALSE
  BY <1>1 DEF NoProcess
<1> QED
  BY <1>1, <1>2 DEF ShellInv, Running, Quieted, Announced, OutputInOrder

-----------------------------------------------------------------------------
(* The theorems about the states *)

LEMMA InitShellInv == Init => ShellInv
<1> SUFFICES ASSUME Init PROVE ShellInv
  OBVIOUS
<1>1. Pending = {"reconnect"} /\ ~Connected /\ process = NoProcess
  BY CallNames, Single, ChannelTypes DEF Init, ServerInit, Pending, Connected
<1>2. process.child = "null" /\ process.reading = FALSE
  BY <1>1 DEF NoProcess
<1> QED
  BY <1>1, <1>2, InitTypeInv
  DEF ShellInv, Running, Quieted, Announced, OutputInOrder

LEMMA NextShellInv == ShellInv /\ [Next]_vars => ShellInv'
<1> SUFFICES ASSUME ShellInv, [Next]_vars PROVE ShellInv'
  OBVIOUS
<1>0. TypeInv'
  BY NextTypeInv DEF ShellInv
<1>1. CASE KillsItself \/ NullChannel \/ EraseBeyondEnd \/ FreedInUse
  <2>1. UNCHANGED <<channel, outbuf, process, calls>>
    BY <1>1 DEF KillsItself, NullChannel, EraseBeyondEnd, FreedInUse, GoesDown, buffers
  <2> QED
    BY <1>0, <2>1, DownShell
<1>2. CASE Handler
  BY <1>0, <1>1, <1>2, NeutralHandlers, Sent, Returned, Spawned, Cleared DEF Handler
<1>3. CASE Loop
  BY <1>0, <1>1, <1>3, NeutralCallbacks, ProcessCallbacks DEF Loop
<1>4. CASE Environment
  BY <1>0, <1>4, NeutralCallbacks, ProcessCallbacks DEF Environment
<1>5. CASE Restart
  BY <1>0, <1>5, RestartShell
<1>6. CASE UNCHANGED vars
  BY <1>0, <1>6, DownShell DEF vars, buffers
<1> QED
  BY <1>2, <1>3, <1>4, <1>5, <1>6 DEF Next

-----------------------------------------------------------------------------
(* The invariants *)

\* The calls that wait, the process and the messages for the client agree: a
\* running command has said on this connection all that was read from it, and
\* without a command the last word is its exit message (s3tp.cpp:150-308).
THEOREM ShellInvariance == Spec => []ShellInv
BY InitShellInv, NextShellInv, PTL DEF Spec

\* What the client gets and what waits for it is the output of its command, each
\* block once and in order after STARTED, however the buffer fills, reading
\* stops and starts, and connections are lost (s3tp.cpp:238-308).
THEOREM OutputAlwaysInOrder == Spec => []OutputInOrder
<1>1. ShellInv => OutputInOrder
  BY DEF ShellInv
<1> QED
  BY <1>1, ShellInvariance, PTL

\* No command is left over from a connection that was lost: reconnect() makes a
\* channel only when the process is gone (s3tp.cpp:65-83).
THEOREM CommandsOwnConnection == Spec => []CommandOwnsConnection
<1>1. ShellInv => CommandOwnsConnection
  <2> SUFFICES ASSUME ShellInv, Idle, Connected, HasProcess PROVE Told(Messages)
    BY DEF CommandOwnsConnection, Told, Messages
  <2>1. Pending = {}
    BY IdleStack
  <2> QED
    BY <2>1 DEF ShellInv, Announced
<1> QED
  BY <1>1, ShellInvariance, PTL

-----------------------------------------------------------------------------
(* The server implements the remote shell *)

\* What the client has been sent changes only by these handlers.
LEMMA ReceivedBy ==
  ASSUME TypeInv, [Next]_vars, Connected', ~send, ~SendSucceeds, ~BindSucceeds
  PROVE  /\ Connected /\ outbuf' = outbuf
         /\ channel'.received = channel.received
<1>0. channel \in ChannelType
  BY DEF TypeInv, TypeOK, ChannelType
<1>1. ~(close \/ onDisconnected \/ Restart)
  BY ChannelTypes DEF close, onDisconnected, LoseChannel, Restart, Connected
<1>2. ~(BindFails \/ KillFirst)
  BY DEF BindFails, KillFirst, Reconnecting, Connected
<1>3. outbuf' = outbuf
  <2>1. CASE Handler
    BY <2>1, <1>1, <1>2
    DEF Handler, KillsItself, SendFindsFull, BufferIsFull, SendFails, NullChannel,
        Return, ReceiveHeader, HeaderKnown, ReceiveInput, ReceiveCommand,
        SpawnSucceeds, SpawnFails, AssignFailed, start_output, EraseMessage,
        EraseBeyondEnd, ForgetProcess, SendRemaining, Disconnect, SetProcess,
        GoesDown, buffers
  <2>2. CASE Loop
    BY <2>2, <1>1
    DEF Loop, onBufferFull, BufferIsFull, onBufferEmpty, BufferIsEmpty,
        onDataReceived, read_callback, HandleClosed, KillTimer, FreedInUse,
        RetryTimer, GoesDown, buffers
  <2>3. CASE Environment \/ UNCHANGED vars
    BY <2>3
    DEF Environment, ClientSpeaks, ClientSends, ChildWrites, ChildExits, vars, buffers
  <2> QED
    BY <2>1, <2>2, <2>3, <1>1 DEF Next
<1>4. \/ channel' = channel
      \/ \E full : channel' = [channel EXCEPT !.full = full]
      \/ Connected /\ \E state : channel' = [channel EXCEPT !.state = state]
      \/ \E taken : channel' = [channel EXCEPT !.taken = taken]
      \/ \E up : channel' = [channel EXCEPT !.upstream = up]
      \/ \E sent, up : channel' = [channel EXCEPT !.sent = sent, !.upstream = up]
  <2>1. CASE Handler
    <3>1. CASE SendFindsFull
      BY <3>1 DEF SendFindsFull, BufferIsFull
    <3>2. CASE ReceiveInput \/ ReceiveCommand
      BY <3>2 DEF ReceiveInput, ReceiveCommand, Take
    <3>3. CASE Disconnect
      BY <3>3 DEF Disconnect
    <3>4. CASE \/ KillsItself \/ SendFails \/ NullChannel \/ Return \/ ReceiveHeader
               \/ HeaderKnown \/ SpawnSucceeds \/ SpawnFails \/ AssignFailed
               \/ start_output \/ EraseMessage \/ EraseBeyondEnd
               \/ ForgetProcess \/ SendRemaining
      BY <3>4
      DEF KillsItself, SendFails, NullChannel, Return, ReceiveHeader, HeaderKnown,
          SpawnSucceeds, SpawnFails, AssignFailed, start_output, EraseMessage,
          EraseBeyondEnd, ForgetProcess, SendRemaining, SetProcess, GoesDown
    <3> QED
      BY <2>1, <3>1, <3>2, <3>3, <3>4, <1>1, <1>2 DEF Handler
  <2>2. CASE Loop
    <3>1. CASE onBufferFull \/ onBufferEmpty
      BY <3>1 DEF onBufferFull, BufferIsFull, onBufferEmpty, BufferIsEmpty
    <3>2. CASE \E n \in 1 .. Len(channel.upstream) : onDataReceived(n)
      BY <3>2 DEF onDataReceived
    <3>3. CASE read_callback \/ HandleClosed \/ KillTimer \/ FreedInUse \/ RetryTimer
      BY <3>3 DEF read_callback, HandleClosed, KillTimer, FreedInUse, RetryTimer,
         GoesDown
    <3> QED
      BY <2>2, <3>1, <3>2, <3>3, <1>1 DEF Loop
  <2>3. CASE Environment
    <3>1. CASE ClientSpeaks
      BY <3>1 DEF ClientSpeaks, ClientSends
    <3>2. CASE ChildWrites \/ \E sigterm \in BOOLEAN : ChildExits(sigterm)
      BY <3>2 DEF ChildWrites, ChildExits
    <3> QED
      BY <2>3, <3>1, <3>2 DEF Environment
  <2>4. CASE UNCHANGED vars
    BY <2>4 DEF vars
  <2> QED
    BY <2>1, <2>2, <2>3, <2>4, <1>1 DEF Next
<1>5. channel'.received = channel.received
  BY <1>0, <1>4 DEF ChannelType
<1>6. Connected
  <2>1. Connected \/ channel'.state = channel.state
    BY <1>0, <1>4 DEF ChannelType
  <2> QED
    BY <2>1 DEF Connected
<1> QED
  BY <1>3, <1>5, <1>6

\* The mapping of the states.
LEMMA Mapping ==
  ASSUME ShellInv
  PROVE  /\ Connected => Messages \in Seq(ServerMessage)
         /\ ~Connected => Len(channel.received) = 0
         /\ channel.received \in Seq(ServerMessage) /\ outbuf \in Seq(ServerMessage)
         /\ Len(channel.received) \in Nat
<1>1. channel.received \in Seq(ServerMessage) /\ outbuf \in Seq(ServerMessage)
  BY DEF ShellInv, TypeInv, TypeOK
<1>2. ~Connected => channel.received = <<>>
  BY ChannelTypes DEF ShellInv, TypeInv, Linked
<1> QED
  BY <1>1, <1>2, ConcatProperties, EmptySeq, LenProperties DEF Messages

LEMMA ShellStep ==
  ASSUME ShellInv, ShellInv', [Next]_vars
  PROVE  [Shell!ShellNext]_(Shell!shell)
<1> DEFINE line == IF Connected THEN "up" ELSE "down"
           all == IF Connected THEN Messages ELSE <<>>
           sent == Len(channel.received)
<1>0. TypeInv /\ Running /\ channel \in ChannelType
  BY DEF ShellInv, TypeInv, TypeOK, ChannelType
<1>1. /\ Shell!shell = <<line, all, sent>>
      /\ Shell!shell' = <<line', all', sent'>>
  BY DEF Shell!shell, Messages
<1>2. CASE ~Connected /\ ~Connected'
  <2>1. line' = line /\ all' = all
    BY <1>2
  <2>2. channel' = channel
    BY <1>2 DEF ShellInv, TypeInv, Linked
  <2> HIDE DEF line, all
  <2> QED
    BY <1>1, <2>1, <2>2
<1>3. CASE Connected /\ ~Connected'
  <2>1. channel' = NoChannel
    BY <1>3 DEF ShellInv, TypeInv, Linked
  <2>2. sent' = 0
    BY <2>1, ChannelTypes, EmptySeq
  <2>3. Shell!Lose
    BY <1>3, <2>2 DEF Shell!Lose
  <2> QED
    BY <2>3 DEF Shell!ShellNext
<1>4. CASE ~Connected /\ Connected'
  <2>1. BindSucceeds
    BY <1>0, <1>4, ReceivedBy DEF send, SendSucceeds, Sending
  <2>2. channel' = NewChannel /\ outbuf' = <<>>
    BY <2>1 DEF BindSucceeds, Reset
  <2>3. channel'.received = <<>> /\ channel'.received \o outbuf' = <<>>
    BY <2>2, ChannelTypes, ConcatEmptySeq
  <2>4. sent' = 0
    BY <2>3, EmptySeq
  <2>5. Shell!Connect
    BY <1>4, <2>3, <2>4 DEF Shell!Connect
  <2> QED
    BY <2>5 DEF Shell!ShellNext
<1>5. CASE Connected /\ Connected'
  <2>1. CASE ~send /\ ~SendSucceeds
    <3>1. ~BindSucceeds
      BY <1>5 DEF BindSucceeds, Reconnecting
    <3>2. outbuf' = outbuf /\ channel'.received = channel.received
      BY <1>0, <1>5, <2>1, <3>1, ReceivedBy
    <3>3. line' = line /\ all' = all /\ sent' = sent
      BY <1>5, <3>2 DEF Messages
    <3> HIDE DEF line, all, sent
    <3> QED
      BY <1>1, <3>3
  <2>2. CASE SendSucceeds
    <3>1. /\ outbuf # <<>> /\ outbuf' = <<>>
          /\ channel'.received = channel.received \o outbuf
      <4> DEFINE new == channel.received \o outbuf
                 state == IF HasProcess THEN channel.state ELSE "closing"
      <4>1. /\ channel' = [channel EXCEPT !.received = new, !.state = state]
            /\ outbuf # <<>> /\ outbuf' = <<>>
        BY <2>2 DEF SendSucceeds, Sending
      <4> HIDE DEF new, state
      <4>2. channel'.received = new
        BY <4>1, <1>0 DEF ChannelType
      <4> QED
        BY <4>1, <4>2 DEF new
    <3>2. channel'.received \o outbuf' = Messages
      BY <3>1, Mapping, ConcatEmptySeq, <1>5 DEF Messages
    <3>3. Len(channel.received) < Len(Messages)
      <4>1. /\ Len(Messages) = Len(channel.received) + Len(outbuf)
            /\ Len(channel.received) \in Nat
        BY Mapping, ConcatProperties DEF Messages
      <4>2. Len(outbuf) \in Nat \ {0}
        BY <3>1, Mapping, EmptySeq
      <4> QED
        BY <4>1, <4>2
    <3>4. Shell!Deliver
      BY <1>5, <3>1, <3>2, <3>3 DEF Shell!Deliver, Messages
    <3> QED
      BY <3>4 DEF Shell!ShellNext
  <2>3. CASE send
    <3> DEFINE msg == Head(calls).msg
    <3>1. /\ Doing("send") /\ outbuf' = Append(outbuf, msg) /\ channel' = channel
      BY <2>3 DEF send, Queued
    <3>2. msg \in ServerMessage /\ msg.type \in Pending
      <4>1. IsStack(calls) /\ calls # <<>>
        BY <1>0, <3>1, TypeInvStack DEF Doing
      <4> QED
        BY <4>1, <3>1, HeadNamed, Pop DEF Pending
    <3> HIDE DEF msg
    <3>3. Messages' = Append(Messages, msg) /\ sent' = sent
      BY <3>1, <3>2, Mapping, AppendLast DEF Messages
    <3>4. Shell!Say(msg)
      BY <1>5, <3>3 DEF Shell!Say, Messages
    <3>5. Shell!Quiet <=> Quiet(Messages)
      BY <1>5 DEF Shell!Quiet, Quiet, Messages, Shell!Exit, Exit
    <3>6. CASE msg.type = "STARTED"
      <4>1. msg = Shell!Started
        BY <3>2, <3>6 DEF ServerMessage, Started, Exit, Shell!Started
      <4>2. Quiet(Messages)
        BY <1>5, <3>2, <3>6 DEF ShellInv, Quieted
      <4> QED
        BY <3>4, <3>5, <4>1, <4>2 DEF Shell!CommandStarts, Shell!ShellNext
    <3>7. CASE msg.type = "ENDOFFILE"
      <4>1. msg = Shell!Exit
        BY <3>2, <3>7 DEF ServerMessage, Started, Exit, Shell!Exit
      <4> QED
        BY <3>4, <4>1 DEF Shell!CommandEnds, Shell!CommandFails, Shell!ShellNext
    <3>8. CASE msg.type = "STDOUT"
      <4>1. /\ process.read > 0 /\ process.read \in Nat /\ msg = Output(process.read)
            /\ Said(Messages, process.read - 1)
        BY <1>0, <1>5, <3>2, <3>8 DEF Running, msg, SendCall, TypeInv, TypeOK
      <4>2. ~Quiet(Messages) /\ Messages[Len(Messages)].n + 1 = process.read
        BY <4>1 DEF Quiet, Said, Exit, Started, Output
      <4>3. msg = Shell!Output(Messages[Len(Messages)].n + 1)
        BY <4>1, <4>2 DEF Output, Shell!Output
      <4>4. Shell!Last = Messages[Len(Messages)]
        BY <1>5 DEF Shell!Last, Messages
      <4> QED
        BY <3>4, <3>5, <4>2, <4>3, <4>4 DEF Shell!CommandWrites, Shell!ShellNext
    <3> QED
      BY <3>2, <3>6, <3>7, <3>8, MessageTypes
  <2> QED
    BY <2>1, <2>2, <2>3
<1> QED
  BY <1>2, <1>3, <1>4, <1>5

LEMMA ShellStart == Init => Shell!ShellInit
<1> SUFFICES ASSUME Init PROVE Shell!ShellInit
  OBVIOUS
<1>1. channel = NoChannel /\ ~Connected
  BY ChannelTypes DEF Init, ServerInit, Connected
<1>2. Len(channel.received) = 0
  BY <1>1, ChannelTypes, EmptySeq
<1> QED
  BY <1>1, <1>2 DEF Shell!ShellInit

\* The server is the remote shell the ground is promised: each of its steps is
\* one of RemoteShell or changes nothing the client can see
\* (s3tp.cpp:150-308).
THEOREM ImplementsShell == Spec => ShellKept
<1>1. Spec => []ShellInv
  BY ShellInvariance
<1>2. ShellInv /\ ShellInv' /\ [Next]_vars => [Shell!ShellNext]_(Shell!shell)
  BY ShellStep
<1> QED
  BY <1>1, <1>2, ShellStart, PTL DEF Spec, ShellKept, Shell!ShellSpec

=============================================================================
