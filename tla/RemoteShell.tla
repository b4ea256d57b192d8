----------------------------- MODULE RemoteShell -----------------------------
(***************************************************************************)
(* What the ground is promised of the remote shell: one line at a time,    *)
(* on which each command is announced, gives its output block by block,    *)
(* and ends once.  Messages wait, but none is lost, doubled or overtaken   *)
(* while the line stands; when it is lost all that was on it is gone.      *)
(***************************************************************************)
EXTENDS Integers, Sequences

VARIABLES
  line,      \* "down" or "up"
  messages,  \* all messages for the client of this line, in order
  delivered  \* how many of them have been sent

shell == <<line, messages, delivered>>

Started   == [type |-> "STARTED", n |-> 0]
Output(n) == [type |-> "STDOUT", n |-> n]
Exit      == [type |-> "ENDOFFILE", n |-> 0]

\* No command runs: none was started on this line, or the last one has ended.
Quiet == messages = <<>> \/ messages[Len(messages)] = Exit

Last == messages[Len(messages)]

-----------------------------------------------------------------------------
Connect ==
  /\ line = "down" /\ line' = "up"
  /\ messages' = <<>> /\ delivered' = 0

Lose ==
  /\ line = "up" /\ line' = "down"
  /\ messages' = <<>> /\ delivered' = 0

Say(message) ==
  /\ line = "up"
  /\ messages' = Append(messages, message)
  /\ UNCHANGED <<line, delivered>>

CommandStarts == Quiet /\ Say(Started)

CommandWrites == ~Quiet /\ Say(Output(Last.n + 1))

CommandEnds == ~Quiet /\ Say(Exit)

\* A command that cannot be started is reported as ended, and then announced.
CommandFails == Quiet /\ Say(Exit)

Deliver ==
  /\ line = "up" /\ delivered < Len(messages)
  /\ delivered' = Len(messages)
  /\ UNCHANGED <<line, messages>>

-----------------------------------------------------------------------------
ShellInit == line = "down" /\ messages = <<>> /\ delivered = 0

ShellNext ==
  \/ Connect \/ Lose \/ Deliver
  \/ CommandStarts \/ CommandWrites \/ CommandEnds \/ CommandFails

ShellSpec == ShellInit /\ [][ShellNext]_shell

=============================================================================
