----------------------------- MODULE CommandLink -----------------------------
(***************************************************************************)
(* The way of a command to the turret: mqtt_init, the callbacks and        *)
(* mqtt_guard_ps_set of src/src/paho_c_pub.c, as draw_result calls it      *)
(* (src/src/image_handle.cc) while the teasing switch is on; the Paho      *)
(* client's command queue and socket, and the broker with the turret       *)
(* behind it.  sendWhileDisconnected = 1: commands are accepted while      *)
(* there is no connection, up to maxBufferedMessages, and sent later.      *)
(*                                                                         *)
(* Commands are numbered in the order draw_result decides to send them;    *)
(* when it may is the matter of TurretControl.                             *)
(***************************************************************************)
EXTENDS Integers, Sequences, FiniteSets, PahoConnection

CONSTANTS
  MaxBuffered,   \* createOptions.maxBufferedMessages (100)
  SocketSize,    \* packets the TCP connection holds
  MaxCommands,   \* bound: commands draw_result decides to send
  MaxFaults      \* bound: connections that fail or break

ASSUME LinkAssumption ==
  /\ MaxBuffered \in Nat \ {0} /\ SocketSize \in Nat \ {0}
  /\ MaxCommands \in Nat /\ MaxFaults \in Nat

VARIABLES
  pc,            \* main: "init", "run", "send", "exit"
  client,        \* "null", "made"
  should,        \* the client's shouldBeConnected
  connected, published,          \* statics of paho_c_pub.c
  Teasing_sw,
  next,          \* number of the next command
  buffer,        \* PUBLISH commands in the library's queue
  writing,       \* the command whose packet is only partly written
  socket,        \* packets on their way to the broker
  executed,      \* commands the turret has got, in its order
  accepted,      \* commands MQTTAsync_send has accepted
  late,          \* commands the turret got since the switch went off
  faults

reports  == <<connected, published>>
pipeline == <<buffer, writing, socket>>
history  == <<executed, accepted, late>>
vars     == <<pc, client, should, connection, reports, Teasing_sw, next,
              pipeline, history, faults>>

Numbers == 1..MaxCommands

TypeOK ==
  /\ pc \in {"init", "run", "send", "exit"}
  /\ client \in {"null", "made"} /\ should \in BOOLEAN
  /\ ConnectionTypes
  /\ connected \in {0, -1} /\ published \in {0, 1, -1}
  /\ Teasing_sw \in {0, 1}
  /\ next \in 1..(MaxCommands + 1)
  /\ buffer \in Seq(Numbers) /\ Len(buffer) <= MaxBuffered
  /\ writing \in Seq(Numbers) /\ Len(writing) <= 1
  /\ socket \in Seq(Numbers) /\ Len(socket) <= SocketSize
  /\ executed \in Seq(Numbers) /\ accepted \subseteq Numbers
  /\ late \in Nat /\ faults \in 0..MaxFaults

Init ==
  /\ pc = "init" /\ client = "null" /\ should = FALSE /\ Unconnected
  /\ connected = 0 /\ published = 0
  /\ Teasing_sw = 1
  /\ next = 1
  /\ buffer = <<>> /\ writing = <<>> /\ socket = <<>>
  /\ executed = <<>> /\ accepted = {} /\ late = 0
  /\ faults = 0

-----------------------------------------------------------------------------
(* mqtt_init: without a client, or without its callbacks, it returns        *)
(* EXIT_FAILURE, which main does not look at; if the connection cannot be   *)
(* begun myconnect leaves the program.                                      *)
Mqtt_init ==
  /\ pc = "init"
  /\ \/ pc' = "run" /\ UNCHANGED <<client, should, connection>>
     \/ pc' = "run" /\ client' = "made" /\ UNCHANGED <<should, connection>>
     \/ pc' = "exit" /\ client' = "made" /\ UNCHANGED <<should, connection>>
     \/ pc' = "run" /\ client' = "made" /\ should' = TRUE /\ QueueConnect
  /\ connected' = 0
  /\ UNCHANGED <<published, Teasing_sw, next, pipeline, history, faults>>

(* Mutant: the switch is not tested.                                        *)
Decide_NoSwitch ==
  /\ pc = "run" /\ next <= MaxCommands
  /\ pc' = "send"
  /\ UNCHANGED <<client, should, connection, reports, Teasing_sw, next,
                 pipeline, history, faults>>

(* draw_result has a cat, the interval has passed and Get_TeasingSW() is 1. *)
Decide ==
  /\ pc = "run" /\ Teasing_sw = 1 /\ next <= MaxCommands
  /\ pc' = "send"
  /\ UNCHANGED <<client, should, connection, reports, Teasing_sw, next,
                 pipeline, history, faults>>

(* MQTTAsync_send accepts the command.                                      *)
Accepts_Unbounded == client = "made" /\ (link = "up" \/ should)       \* mutant
Accepts ==
  /\ client = "made"
  /\ link = "up" \/ should
  /\ Len(buffer) < MaxBuffered

(* mqtt_guard_ps_set; a refused command is dropped without notice.  The     *)
(* tests of MQTTAsync_send take no lock that a connection attempt holds.    *)
Mqtt_guard_ps_set ==
  /\ pc = "send" /\ pc' = "run"
  /\ next' = next + 1
  /\ IF Accepts THEN /\ buffer' = Append(buffer, next)
                     /\ accepted' = accepted \cup {next}
                ELSE UNCHANGED <<buffer, accepted>>
  /\ UNCHANGED <<client, should, connection, reports, Teasing_sw, writing,
                 socket, executed, late, faults>>

(* messageArrived_s, on the other client's thread.                          *)
Switch ==
  /\ pc \in {"run", "send"}
  /\ Teasing_sw' = 1 - Teasing_sw
  /\ late' = 0
  /\ UNCHANGED <<pc, client, should, connection, reports, next, pipeline,
                 executed, accepted, faults>>

-----------------------------------------------------------------------------
(* The library's threads.                                                   *)

Fault == faults < MaxFaults /\ faults' = faults + 1

(* A connection breaks; one that has failed already breaks at no new cost.  *)
Breaks == IF "error" \in ending THEN UNCHANGED faults ELSE Fault

others == <<pc, client, should, Teasing_sw, next>>

(* onConnectFailure5; onConnect5 does nothing.                              *)
OnConnectFailure5(called) == connected' = IF called THEN -1 ELSE connected

TakeConnect ==
  /\ StartConnect /\ should
  /\ UNCHANGED <<others, reports, pipeline, history, faults>>

(* A failing attempt goes through MQTTAsync_disconnect, which clears        *)
(* shouldBeConnected, and sets it again.                                    *)
ConnectRefused ==
  /\ conn # "none" /\ link = "idle" /\ should /\ Fault
  /\ should' = FALSE
  /\ UNCHANGED <<pc, client, Teasing_sw, next, connection, reports, pipeline, history>>

(* Mutant: shouldBeConnected is not set again.                              *)
ConnectFails_Forgets ==
  /\ ConnectError /\ ~should
  /\ OnConnectFailure5(conn = "armed")
  /\ UNCHANGED <<others, published, pipeline, history, faults>>

ConnectFails ==
  /\ ConnectError /\ ~should /\ should' = TRUE
  /\ OnConnectFailure5(conn = "armed")
  /\ UNCHANGED <<pc, client, Teasing_sw, next, published, pipeline, history, faults>>

Reconnect ==
  /\ QueueReconnect
  /\ UNCHANGED <<others, reports, pipeline, history, faults>>

(* With the new session the broker drops what is left of the old one.       *)
Connected ==
  /\ Connack
  /\ socket' = <<>>
  /\ UNCHANGED <<others, reports, buffer, writing, history, faults>>

(* Mutant: closing the session empties the command queue, too.              *)
CloseSession_DropsQueue ==
  /\ writing' = <<>> /\ buffer' = <<>>
  /\ published' = IF writing = <<>> THEN published ELSE -1
  /\ UNCHANGED socket

(* What of the last packet was not written is gone, with onPublishFailure5; *)
(* the packets already in the socket may still reach the broker.            *)
CloseSession ==
  /\ writing' = <<>>
  /\ published' = IF writing = <<>> THEN published ELSE -1
  /\ UNCHANGED <<buffer, socket>>

Close ==
  /\ NextOrClose /\ Breaks
  /\ OnConnectFailure5(armed)
  /\ CloseSession
  /\ UNCHANGED <<others, history>>

TakeDisconnect ==
  /\ Disconnect
  /\ OnConnectFailure5(GivesUpAttempt)
  /\ IF link = "idle" THEN UNCHANGED <<published, pipeline>> ELSE CloseSession
  /\ UNCHANGED <<others, history, faults>>

(* The next command goes out when nothing is being written.  A packet that  *)
(* does not fit is written later; onPublish5 is called when it is written.  *)
Sendable_NotFull ==                                                \* mutant
  Ready /\ writing = <<>> /\ Len(buffer) \in 1..(MaxBuffered - 1)
Sendable == Ready /\ writing = <<>> /\ buffer # <<>>

SendPublish ==
  /\ Sendable /\ "error" \notin ending
  /\ buffer' = Tail(buffer)
  /\ IF Len(socket) < SocketSize
       THEN /\ socket' = Append(socket, Head(buffer))
            /\ published' = 1
            /\ UNCHANGED writing
       ELSE /\ writing' = <<Head(buffer)>>
            /\ UNCHANGED <<socket, published>>
  /\ UNCHANGED <<others, connection, connected, history, faults>>

(* Mutant: the command that failed is queued again, behind the others.      *)
SendPublishFails_Requeues ==
  /\ Sendable /\ DisconnectInternal /\ Breaks
  /\ buffer' = Append(Tail(buffer), Head(buffer))
  /\ published' = -1
  /\ UNCHANGED <<others, connected, writing, socket, history>>

(* A write error: onPublishFailure5, and the command is gone.  On a socket  *)
(* that has failed before there is no other outcome.                        *)
SendPublishFails ==
  /\ Sendable /\ DisconnectInternal /\ Breaks
  /\ buffer' = Tail(buffer)
  /\ published' = -1
  /\ UNCHANGED <<others, connected, writing, socket, history>>

WriteComplete ==
  /\ link = "up" /\ writing # <<>> /\ Len(socket) < SocketSize
  /\ socket' = Append(socket, Head(writing))
  /\ writing' = <<>>
  /\ published' = 1
  /\ UNCHANGED <<others, connection, connected, buffer, history, faults>>

(* The receive thread cannot write the rest: writeComplete gives the        *)
(* command up with onPublishFailure5 and leaves the mutex before it takes   *)
(* it again to close the connection.                                        *)
WriteFails ==
  /\ link = "up" /\ writing # <<>> /\ "error" \notin ending /\ Fault
  /\ writing' = <<>>
  /\ published' = -1
  /\ ending' = ending \cup {"error"}
  /\ UNCHANGED <<others, link, armed, conn, retrying, connected, buffer, socket, history>>

-----------------------------------------------------------------------------
(* The broker hands a packet to the turret.                                 *)
Deliver ==
  /\ socket # <<>>
  /\ socket' = Tail(socket)
  /\ executed' = Append(executed, Head(socket))
  /\ late' = IF Teasing_sw = 0 THEN late + 1 ELSE late
  /\ UNCHANGED <<others, connection, reports, buffer, writing, accepted, faults>>

Main == Mqtt_init \/ Decide \/ Mqtt_guard_ps_set
SendThread == TakeConnect \/ ConnectRefused \/ ConnectFails \/ Reconnect
                \/ SendPublish \/ SendPublishFails \/ TakeDisconnect
ReceiveThread == Connected \/ Close \/ WriteComplete \/ WriteFails

Next == Main \/ Switch \/ SendThread \/ ReceiveThread \/ Deliver

Spec == Init /\ [][Next]_vars

(* The library's threads run and a standing connection moves packets on.    *)
FairSpec ==
  /\ Spec
  /\ WF_vars(TakeConnect) /\ WF_vars(TakeDisconnect)
  /\ WF_vars(SendPublish \/ SendPublishFails)
  /\ WF_vars(WriteComplete \/ WriteFails)
  /\ WF_vars("error" \in ending /\ Close)
  /\ WF_vars(Deliver)

-----------------------------------------------------------------------------
(* Properties.                                                              *)

(* However often the connection breaks, the turret never gets a command     *)
(* twice, nor one that is older than a command it already has: it never     *)
(* turns back to where the cat was.                                         *)
InOrderAtMostOnce ==
  \A i, j \in 1..Len(executed) : i < j => executed[i] < executed[j]

(* Turning the switch off stops the source, not the commands under way: the *)
(* turret still moves, but no more often than the library's buffer, the     *)
(* socket and the one command draw_result had decided on allow, even if the *)
(* link was down for hours.                                                 *)
LateIsBounded == late <= MaxBuffered + SocketSize + 2

(* A broken connection costs the commands in the socket, the one being      *)
(* written and the one the send thread writes before the receive thread     *)
(* has closed the socket, never those that stay buffered.                   *)
OnTheWay == {buffer[i] : i \in 1..Len(buffer)}
              \cup {writing[i] : i \in 1..Len(writing)}
              \cup {socket[i] : i \in 1..Len(socket)}
Lost == accepted \ (OnTheWay \cup {executed[i] : i \in 1..Len(executed)})
LossIsBounded == Cardinality(Lost) <= faults * (SocketSize + 2)

(* sendWhileDisconnected: a command is refused when the buffer is full,     *)
(* when the connection was never begun, or while the send thread gives up   *)
(* an attempt to connect it has taken off the queue, but not because the    *)
(* link is down or an attempt waits its turn.                               *)
NeverBegun == link = "idle" /\ conn = "none" /\ ~retrying
GivingUp   == link = "idle" /\ conn # "none" /\ ~should
AcceptedWhileDown ==
  [][next' # next /\ accepted' = accepted =>
       Len(buffer) = MaxBuffered \/ NeverBegun \/ GivingUp]_vars

(* A connection that stands in the end empties the buffer.                  *)
BufferDrains ==
  <>[](link = "up") => <>[](buffer = <<>> /\ writing = <<>> /\ socket = <<>>)
=============================================================================
