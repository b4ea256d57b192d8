----------------------------- MODULE S3TPServer ------------------------------
(***************************************************************************)
(* The server through which the ground runs a shell command and talks to   *)
(* it: src/src/server/s3tp.cpp with the Process (src/src/process.cpp) it   *)
(* owns, one action per function or callback.                              *)
(*                                                                         *)
(* A function calls others, and libuv or the S3TP library call it: calls   *)
(* is the stack of what the running callback still has to do, the          *)
(* innermost first.  When it is empty the loop delivers the next event.    *)
(*                                                                         *)
(* A byte is known by its message and its place in it.  The header of a    *)
(* message (length and type, 5 bytes) is two of them, so that it may       *)
(* arrive in parts.  stdout and stderr are handled alike: one is modelled. *)
(***************************************************************************)
EXTENDS Integers, Sequences

CONSTANTS
  ClientMessages,  \* what a client sends after its command
  CommandLengths,  \* lengths of the command
  MaxMessages,     \* bound: messages on one connection
  MaxOutput,       \* bound: blocks of output of one command
  SpawnMayFail,    \* uv_spawn may fail
  SendMayFail,     \* the channel may refuse data for good
  BindMayFail,     \* the S3TP daemon may be away
  MayBeTerminated, \* a command may die of a SIGTERM that HORST did not send
  MayOutliveKill,  \* a command may go on 100 ms after SIGTERM
  LateData         \* the S3TP library may deliver data after disconnect()

ASSUME ClientAssumption ==
  /\ ClientMessages \subseteq [type : {"STDIN", "ENDOFFILE"}, len : Nat]
  /\ CommandLengths \subseteq Nat \ {0}
ASSUME ServerBounds == {MaxMessages, MaxOutput} \subseteq Nat
ASSUME ServerFaults ==
  {SpawnMayFail, SendMayFail, BindMayFail, MayBeTerminated, MayOutliveKill,
   LateData} \subseteq BOOLEAN

VARIABLES
  channel,   \* S3TPServer::channel and the connection behind it
  buf,       \* bytes received and not yet handled
  expected,  \* length of the message being received, 0 if its header is not read
  outbuf,    \* messages waiting to be sent
  process,   \* S3TPServer::process and its child
  timer,     \* what the only timer will do: "off", "kill", "retry"
  calls,     \* what the running callback still has to do
  fate       \* "up", or how the daemon went down

buffers == <<buf, expected, outbuf>>
vars == <<channel, buffers, process, timer, calls, fate>>

-----------------------------------------------------------------------------
(* Messages *)

MessageType == {"NONE", "STDIN", "STDOUT", "STARTED", "ENDOFFILE"}

\* What the client sends, and what it is sent.  n numbers the output.
Command(len) == [type |-> "NONE", len |-> len]
Started      == [type |-> "STARTED", n |-> 0]
Output(n)    == [type |-> "STDOUT", n |-> n]
Exit         == [type |-> "ENDOFFILE", n |-> 0]

HeaderSize == 2

Bytes(message, len) ==
  [i \in 1 .. HeaderSize + len |-> [message |-> message, offset |-> i]]
Payload(message, len) ==
  SubSeq(Bytes(message, len), HeaderSize + 1, HeaderSize + len)

(* The connection.  sent, received and taken are the messages the client   *)
(* has sent, those the channel has accepted for it, and what the server    *)
(* took for a message and how it used it.                                  *)

NoChannel == [state |-> "none", full |-> FALSE, upstream |-> <<>>,
              sent |-> <<>>, received |-> <<>>, taken |-> <<>>]
NewChannel == [NoChannel EXCEPT !.state = "open"]

Connected == channel.state # "none"

\* Mistake: the header is counted in the length.
LengthAt_WithHeader(byte) ==
  IF byte.offset = 1 THEN channel.sent[byte.message].len - HeaderSize ELSE 1

\* What the bytes of a header say.  A byte of another kind, read as a length,
\* is some number.
LengthAt(byte) ==
  IF byte.offset = 1 THEN channel.sent[byte.message].len ELSE 1
TypeAt(byte) == channel.sent[byte.message].type

(* The process: child is "null" when the pointer is null, "failed" when    *)
(* uv_spawn failed, then "running"; "exited" or "killed" when exit_cb has  *)
(* run, "reaped" when the handle of a killed child is closed as well.      *)

NoProcess == [child |-> "null", termed |-> FALSE, reading |-> FALSE,
              has_in |-> FALSE, written |-> 0, read |-> 0]
NewProcess(child) == [NoProcess EXCEPT !.child = child, !.has_in = TRUE]

HasProcess == process.child # "null"
StopOutput(p) == [p EXCEPT !.reading = FALSE]
\* Reading from a pipe that is closed or has no child fails and changes nothing.
StartOutput(p) == [p EXCEPT !.reading = p.child = "running"]

-----------------------------------------------------------------------------
(* The stack of calls *)

Call(fn)       == [fn |-> fn]
SendCall(msg)  == [fn |-> "send", msg |-> msg]
BodyCall(type) == [fn |-> "body", type |-> type]

Up == fate = "up"
Idle == Up /\ calls = <<>>
Doing(fn) == Up /\ calls # <<>> /\ Head(calls).fn = fn
Continue(steps) == calls' = steps \o Tail(calls)

GoesDown(why) ==
  /\ fate' = why
  /\ UNCHANGED <<channel, buffers, process, timer, calls>>

\* The object is made and start() calls reconnect().
ServerInit ==
  /\ channel = NoChannel
  /\ buf = <<>> /\ expected = 0 /\ outbuf = <<>>
  /\ process = NoProcess
  /\ timer = "off"
  /\ calls = <<Call("reconnect")>>
  /\ fate = "up"

-----------------------------------------------------------------------------
(* reconnect(), close(), onDisconnected() and the timer *)

\* Nothing calls reconnect() while there is a channel, so that its first early
\* return is not needed: a call that met it would deadlock this model.
KillFirst ==
  /\ Doing("reconnect") /\ ~Connected /\ HasProcess
  /\ process' = [process EXCEPT !.termed = process.child = "running"]
  /\ timer' = "kill"
  /\ Continue(<<>>)
  /\ UNCHANGED <<channel, buffers, fate>>

\* A process that could not be forked has pid 0, and kill() signals the
\* process group of the daemon itself.
KillsItself ==
  /\ Doing("reconnect") /\ ~Connected /\ process.child = "failed"
  /\ GoesDown("killed_itself")

\* Mistake: output of the last connection is kept.
Reset_KeepOutput == buf' = <<>> /\ expected' = 0 /\ UNCHANGED outbuf

Reset == buf' = <<>> /\ expected' = 0 /\ outbuf' = <<>>

\* Mistake: a running command does not stand in the way.
Reconnecting_KeepProcess == Doing("reconnect") /\ ~Connected

Reconnecting == Doing("reconnect") /\ ~Connected /\ ~HasProcess

BindSucceeds ==
  /\ Reconnecting /\ Reset
  /\ channel' = NewChannel
  /\ Continue(<<>>)
  /\ UNCHANGED <<process, timer, fate>>

\* Mistake: nobody tries again.
Retry_Never == UNCHANGED timer

Retry == timer' = "retry"

BindFails ==
  /\ BindMayFail
  /\ Reconnecting /\ Reset /\ Retry
  /\ Continue(<<>>)
  /\ UNCHANGED <<channel, process, fate>>

\* The channel goes, and all that was on it.
LoseChannel(rest) ==
  /\ channel' = NoChannel
  /\ calls' = <<Call("reconnect")>> \o rest
  /\ UNCHANGED <<buffers, process, timer, fate>>

close == Doing("close") /\ LoseChannel(Tail(calls))

onDisconnected == Idle /\ Connected /\ LoseChannel(<<>>)

\* 100 ms after kill(): the Process is freed, whatever became of the child.
KillTimer ==
  /\ Idle /\ timer = "kill" /\ process.child \in {"null", "reaped"}
  /\ process' = NoProcess
  /\ timer' = "off"
  /\ calls' = <<Call("reconnect")>>
  /\ UNCHANGED <<channel, buffers, fate>>

\* Handles that the loop still uses are freed with it: that of a child which
\* goes on, or the pipes of one that was never started.
FreedInUse ==
  /\ Idle /\ timer = "kill"
  /\ process.child = "failed" \/ (MayOutliveKill /\ process.child = "running")
  /\ GoesDown("freed_process")

RetryTimer ==
  /\ Idle /\ timer = "retry"
  /\ timer' = "off"
  /\ calls' = <<Call("reconnect")>>
  /\ UNCHANGED <<channel, buffers, process, fate>>

-----------------------------------------------------------------------------
(* send(), send_buf(), update_events() *)

\* Mistake: the exit message goes before the output that waits.
Queued_ExitFirst(msg) ==
  IF msg = Exit THEN <<msg>> \o outbuf ELSE Append(outbuf, msg)

Queued(msg) == Append(outbuf, msg)

send ==
  /\ Doing("send") /\ Connected
  /\ outbuf' = Queued(Head(calls).msg)
  /\ Continue(<<Call("send_buf"), Call("update_events")>>)
  /\ UNCHANGED <<channel, buf, expected, process, timer, fate>>

Sending == Doing("send_buf") /\ outbuf # <<>> /\ Connected

\* After the end of the process the connection is closed with the last data.
SendSucceeds ==
  /\ Sending /\ ~channel.full
  /\ channel' = [channel EXCEPT !.received = @ \o outbuf,
                               !.state = IF HasProcess THEN @ ELSE "closing"]
  /\ outbuf' = <<>>
  /\ Continue(<<>>)
  /\ UNCHANGED <<buf, expected, process, timer, fate>>

BufferIsFull ==
  /\ channel' = [channel EXCEPT !.full = TRUE]
  /\ process' = StopOutput(process)
  /\ UNCHANGED <<buffers, timer, fate>>

SendFindsFull == Sending /\ BufferIsFull /\ Continue(<<>>)

SendFails ==
  /\ SendMayFail
  /\ Sending
  /\ Continue(<<Call("close")>>)
  /\ UNCHANGED <<channel, buffers, process, timer, fate>>

\* S3TPServer::channel is used and there is none.
NullChannel ==
  /\ ~Connected
  /\ \/ Doing("update_events")
     \/ Doing("send_buf") /\ outbuf # <<>>
     \/ Doing("disconnect") /\ outbuf = <<>>
  /\ GoesDown("null_channel")

onBufferFull ==
  Idle /\ Connected /\ ~channel.full /\ BufferIsFull /\ UNCHANGED calls

BufferIsEmpty ==
  /\ Idle /\ Connected /\ channel.full
  /\ channel' = [channel EXCEPT !.full = FALSE]
  /\ process' = StartOutput(process)
  /\ UNCHANGED <<buffers, timer, fate>>

\* Mistake: what waits in the buffer is not sent.
onBufferEmpty_OutputOnly == BufferIsEmpty /\ UNCHANGED calls

onBufferEmpty == BufferIsEmpty /\ calls' = <<Call("send_buf")>>

-----------------------------------------------------------------------------
(* onDataReceived() *)

\* A chunk of n bytes arrives.
onDataReceived(n) ==
  /\ Idle /\ n <= Len(channel.upstream)
  /\ channel.state = "open" \/ (LateData /\ channel.state = "closing")
  /\ buf' = buf \o SubSeq(channel.upstream, 1, n)
  /\ channel' = [channel EXCEPT !.upstream = SubSeq(@, n + 1, Len(@))]
  /\ calls' = IF Len(buf') < HeaderSize THEN <<>> ELSE <<Call("header")>>
  /\ UNCHANGED <<expected, outbuf, process, timer, fate>>

ReceiveHeader ==
  /\ Doing("header") /\ expected = 0
  /\ expected' = LengthAt(buf[1])
  /\ Continue(IF expected' = 0 THEN <<Call("close")>>
              ELSE <<BodyCall(TypeAt(buf[2]))>>)
  /\ UNCHANGED <<channel, buf, outbuf, process, timer, fate>>

\* The header came with an earlier chunk: the local variable type is not set.
HeaderKnown ==
  /\ Doing("header") /\ expected # 0
  /\ \E garbage \in MessageType : Continue(<<BodyCall(garbage)>>)
  /\ UNCHANGED <<channel, buffers, process, timer, fate>>

MessageComplete == Len(buf) >= HeaderSize + expected

\* The calls that return at once.
Return ==
  /\ \/ Doing("send") /\ ~Connected
     \/ Doing("send_buf") /\ outbuf = <<>>
     \/ Doing("update_events") /\ Connected
     \/ Doing("body") /\ ~MessageComplete
  /\ Continue(<<>>)
  /\ UNCHANGED <<channel, buffers, process, timer, fate>>

Take(use) == channel' = [channel EXCEPT !.taken = Append(@,
  [use |-> use, bytes |-> SubSeq(buf, HeaderSize + 1, HeaderSize + expected)])]

ReceiveInput ==
  /\ Doing("body") /\ MessageComplete /\ HasProcess
  /\ IF Head(calls).type = "ENDOFFILE"
     THEN Take("eof") /\ process' = [process EXCEPT !.has_in = FALSE]
     ELSE Take("input") /\ UNCHANGED process
  /\ Continue(<<Call("erase")>>)
  /\ UNCHANGED <<buffers, timer, fate>>

ReceiveCommand ==
  /\ Doing("body") /\ MessageComplete /\ ~HasProcess
  /\ Take("command")
  /\ Continue(<<Call("spawn"), SendCall(Started), Call("start_output"),
                Call("erase")>>)
  /\ UNCHANGED <<buffers, process, timer, fate>>

SetProcess(p) ==
  process' = p /\ Continue(<<>>) /\ UNCHANGED <<channel, buffers, timer, fate>>

SpawnSucceeds == Doing("spawn") /\ SetProcess(NewProcess("running"))

\* The exit callback the server gives to the process.
ExitCallback == <<SendCall(Exit), Call("forget"), Call("disconnect")>>

\* The constructor runs the exit callback before process points to the object.
SpawnFails ==
  /\ SpawnMayFail
  /\ Doing("spawn")
  /\ Continue(ExitCallback \o <<Call("assign")>>)
  /\ UNCHANGED <<channel, buffers, process, timer, fate>>

AssignFailed == Doing("assign") /\ SetProcess(NewProcess("failed"))

start_output == Doing("start_output") /\ SetProcess(StartOutput(process))

\* A reconnect inside the call may have emptied buf: erase() past its end.
EraseBeyondEnd == Doing("erase") /\ ~MessageComplete /\ GoesDown("bad_erase")

\* Mistake: the header stays in the buffer.
Rest_WithHeader == SubSeq(buf, expected + 1, Len(buf))

Rest == SubSeq(buf, HeaderSize + expected + 1, Len(buf))

EraseMessage ==
  /\ Doing("erase") /\ MessageComplete
  /\ buf' = Rest /\ expected' = 0
  /\ Continue(<<>>)
  /\ UNCHANGED <<channel, outbuf, process, timer, fate>>

-----------------------------------------------------------------------------
(* The process: output, exit_cb, the callback of uv_close, on_exit *)

read_callback ==
  /\ Idle /\ process.reading /\ process.read < process.written
  /\ process' = [process EXCEPT !.read = @ + 1]
  /\ calls' = <<SendCall(Output(process.read + 1))>>
  /\ UNCHANGED <<channel, buffers, timer, fate>>

\* exit_cb closes the pipes: output that was not read is lost.
ChildExits(sigterm) ==
  /\ Idle /\ process.child = "running"
  /\ sigterm => process.termed \/ MayBeTerminated
  /\ process' = [process EXCEPT !.child = IF sigterm THEN "killed" ELSE "exited",
                               !.reading = FALSE, !.has_in = FALSE]
  /\ UNCHANGED <<channel, buffers, timer, calls, fate>>

\* exit_cb has run, and the loop closes the handle before it looks at the
\* timers again.
Closing == process.child \in {"exited", "killed"}

HandleClosed ==
  /\ Idle /\ Closing
  /\ IF process.child = "killed"
     THEN process' = [process EXCEPT !.child = "reaped"] /\ UNCHANGED calls
     ELSE calls' = ExitCallback /\ UNCHANGED process
  /\ UNCHANGED <<channel, buffers, timer, fate>>

ForgetProcess == Doing("forget") /\ SetProcess(NoProcess)

SendRemaining ==
  /\ Doing("disconnect") /\ outbuf # <<>>
  /\ Continue(<<Call("send_buf")>>)
  /\ UNCHANGED <<channel, buffers, process, timer, fate>>

\* A soft close: onDisconnected follows when the library has sent the rest.
Disconnect ==
  /\ Doing("disconnect") /\ outbuf = <<>> /\ Connected
  /\ channel' = [channel EXCEPT !.state = "closing"]
  /\ Continue(<<>>)
  /\ UNCHANGED <<buffers, process, timer, fate>>

-----------------------------------------------------------------------------
(* The client and the command *)

ClientSends(msg) ==
  /\ Idle /\ channel.state = "open" /\ Len(channel.sent) < MaxMessages
  /\ channel' = [channel EXCEPT
       !.sent = Append(@, msg),
       !.upstream = @ \o Bytes(Len(channel.sent) + 1, msg.len)]
  /\ UNCHANGED <<buffers, process, timer, calls, fate>>

\* remoteexec sends the command first, then what it reads.
ClientSpeaks ==
  IF channel.sent = <<>>
  THEN \E len \in CommandLengths : ClientSends(Command(len))
  ELSE \E msg \in ClientMessages : ClientSends(msg)

ChildWrites ==
  /\ Idle /\ process.child = "running" /\ process.written < MaxOutput
  /\ process' = [process EXCEPT !.written = @ + 1]
  /\ UNCHANGED <<channel, buffers, timer, calls, fate>>

\* systemd starts the daemon again.
Restart ==
  /\ ~Up
  /\ channel' = NoChannel
  /\ buf' = <<>> /\ expected' = 0 /\ outbuf' = <<>>
  /\ process' = NoProcess
  /\ timer' = "off"
  /\ calls' = <<Call("reconnect")>>
  /\ fate' = "up"

-----------------------------------------------------------------------------
(* The specification *)

Handler ==
  \/ KillFirst \/ KillsItself \/ BindSucceeds \/ BindFails \/ close
  \/ send \/ SendSucceeds \/ SendFindsFull \/ SendFails \/ NullChannel \/ Return
  \/ ReceiveHeader \/ HeaderKnown \/ ReceiveInput \/ ReceiveCommand
  \/ SpawnSucceeds \/ SpawnFails \/ AssignFailed \/ start_output
  \/ EraseMessage \/ EraseBeyondEnd
  \/ ForgetProcess \/ SendRemaining \/ Disconnect

Loop ==
  \/ onDisconnected \/ onBufferFull \/ onBufferEmpty
  \/ \E n \in 1 .. Len(channel.upstream) : onDataReceived(n)
  \/ read_callback \/ HandleClosed \/ KillTimer \/ FreedInUse \/ RetryTimer

Environment ==
  ClientSpeaks \/ ChildWrites \/ \E sigterm \in BOOLEAN : ChildExits(sigterm)

Init == ServerInit

Next == Handler \/ Loop \/ Environment \/ Restart

Spec == Init /\ [][Next]_vars

\* The thread runs; every iteration of the loop looks at the timers and at the
\* handles to close, however busy it is; the S3TP daemon is not away, and the
\* link not jammed, for ever.
FairSpec ==
  /\ Spec
  /\ WF_vars(Handler)
  /\ SF_vars(KillTimer \/ FreedInUse) /\ SF_vars(RetryTimer)
  /\ SF_vars(HandleClosed)
  /\ WF_vars(onBufferEmpty)
  /\ SF_vars(BindSucceeds) /\ SF_vars(SendSucceeds)

-----------------------------------------------------------------------------
(* Properties *)

ClientMessage == [type : {"NONE", "STDIN", "ENDOFFILE"}, len : Nat]
ServerMessage == {Started, Exit} \cup [type : {"STDOUT"}, n : Nat]
Byte == [message : Nat, offset : Nat]
Use == [use : {"command", "input", "eof"}, bytes : Seq(Byte)]
CallItem ==
  [fn : {"reconnect", "close", "send_buf", "update_events", "header", "spawn",
         "assign", "start_output", "erase", "forget", "disconnect"}]
  \cup [fn : {"send"}, msg : ServerMessage]
  \cup [fn : {"body"}, type : MessageType]

\* Every variable has its type.
TypeOK ==
  /\ channel \in [state : {"none", "open", "closing"}, full : BOOLEAN,
                  upstream : Seq(Byte), sent : Seq(ClientMessage),
                  received : Seq(ServerMessage), taken : Seq(Use)]
  /\ buf \in Seq(Byte) /\ expected \in Nat /\ outbuf \in Seq(ServerMessage)
  /\ process \in
       [child : {"null", "failed", "running", "exited", "killed", "reaped"},
        termed : BOOLEAN, reading : BOOLEAN, has_in : BOOLEAN,
        written : Nat, read : Nat]
  /\ timer \in {"off", "kill", "retry"}
  /\ calls \in Seq(CallItem)
  /\ fate \in {"up", "null_channel", "freed_process", "killed_itself", "bad_erase"}

\* However the bytes are cut into chunks, and whatever was left of an earlier
\* connection, what the server takes for the payload of the k-th message is the
\* payload of the k-th message the client sent (s3tp.cpp:171-234).
FramingKept ==
  \A k \in DOMAIN channel.taken :
    channel.taken[k].bytes = Payload(k, channel.sent[k].len)

\* What the client gets and what waits for it is the output of its command,
\* each block once and in order after STARTED, although the buffer fills up,
\* reading stops and starts, and connections are lost (s3tp.cpp:238-308).
OutputInOrder ==
  LET all == channel.received \o outbuf
  IN Connected => \A k \in DOMAIN all : all[k].type = "STDOUT" =>
       /\ k > 1
       /\ all[k - 1] = IF all[k].n = 1 THEN Started ELSE Output(all[k].n - 1)

Shell == INSTANCE RemoteShell WITH
  line      <- IF Connected THEN "up" ELSE "down",
  messages  <- IF Connected THEN channel.received \o outbuf ELSE <<>>,
  delivered <- Len(channel.received)

\* The server is the remote shell the ground is promised: what goes to the
\* client is started, written and ended in that order by one command after the
\* other, and nothing is taken back (s3tp.cpp:150-308).
ShellKept == Shell!ShellSpec

\* A running command belongs to the client of this connection, which has been
\* told that it runs: none is left over from a connection that was lost
\* (s3tp.cpp:65-83, "Cancel any running command").
CommandOwnsConnection ==
  Idle /\ Connected /\ HasProcess =>
    \E k \in DOMAIN (channel.received \o outbuf) :
      (channel.received \o outbuf)[k] = Started

\* When a command exits the client gets the exit message, unless the
\* connection ends: output that waits for a full buffer does not hold it back
\* (s3tp.cpp:204-221, operation_manual.md:107-108).  The exit message of an
\* earlier command of the connection would satisfy it, too; a command killed by
\* somebody else's SIGTERM is outside it: its exit is never reported
\* (process.cpp:50), whatever the manual promises.
CommandCompleted ==
  process.child = "exited" /\ Connected
    ~> \/ ~Connected \/ ~Up
       \/ \E k \in DOMAIN channel.received : channel.received[k] = Exit

\* A lost connection is established again, after the command that ran on it
\* has been killed (s3tp.cpp:55-135, operation_manual.md:15).
ReconnectsRegularly == ~Connected ~> Connected \/ ~Up

-----------------------------------------------------------------------------
(* What documents and clients expect and the code does not do *)

\* "Horst will automatically retry to connect regularly"
\* (operation_manual.md:15): losing the connection does not end the daemon.
SurvivesDisconnect == fate # "null_channel"

\* What the client sends after its command is input of that command
\* (s3tp_proto.h:14-15): only a message of type NONE is executed.
InputNotExecuted ==
  \A k \in DOMAIN channel.taken :
    channel.taken[k].use = "command" => channel.sent[k].type = "NONE"

\* remoteexec ends the input with a message of type ENDOFFILE and length 0
\* (src/test/s3tp/remoteexec.cpp:197), for which s3tp.cpp:194-196 closes the
\* input of the command: the connection stays.
EndOfInputAccepted ==
  [][Doing("header") /\ expected = 0 /\ TypeAt(buf[2]) = "ENDOFFILE"
       => calls' # <<Call("close")>>]_vars

=============================================================================
