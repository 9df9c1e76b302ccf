----------------------------- MODULE SwitchLink -----------------------------
(***************************************************************************)
(* The way of the teasing switch into the program: mqttsub_init and the    *)
(* callbacks of src/src/paho_c_sub.c, the Paho client they are registered  *)
(* with, the broker and the user who publishes.  The topic is subscribed   *)
(* by onConnect5_s, with QoS 0; sessions start clean and end with the      *)
(* connection.                                                             *)
(***************************************************************************)
EXTENDS Naturals, Sequences, TeasingSwitch, PahoConnection

CONSTANTS
  Retain,        \* the user publishes with the retain flag
  MaxFaults,     \* bound: connections that fail or break
  MaxMessages    \* bound: messages the user publishes

ASSUME LinkAssumption ==
  Retain \in BOOLEAN /\ MaxFaults \in Nat /\ MaxMessages \in Nat

VARIABLES
  pc,            \* "init", "run", "exit" (exit(EXIT_FAILURE) in mqttsub_init)
  Teasing_sw, finished, subscribed,      \* globals of paho_c_sub.c
  queued, sent,  \* SUBSCRIBE commands in the queue; awaited at the broker
  session,       \* the broker has the subscription
  wire,          \* what the broker has sent to the client
  board,         \* the retained message
  wanted,        \* the switch, if all that was forwarded had arrived
  faults, messages,
  cut            \* a fault has cost the subscription

flags   == <<finished, subscribed>>
request == <<queued, sent>>
broker  == <<session, wire, board, wanted, messages>>
vars    == <<pc, connection, Teasing_sw, flags, request, broker, faults, cut>>

Answers == {"suback", "nack"}

TypeOK ==
  /\ pc \in {"init", "run", "exit"}
  /\ ConnectionTypes
  /\ Teasing_sw \in {0, 1} /\ finished \in {0, 1} /\ subscribed \in {0, 1}
  /\ queued \in Nat /\ sent \in Nat
  /\ session \in BOOLEAN
  /\ wire \in Seq(Payloads \cup Answers)
  /\ board \in Payloads \cup {"none"}
  /\ wanted \in {0, 1}
  /\ faults \in 0..MaxFaults /\ messages \in 0..MaxMessages
  /\ cut \in BOOLEAN

Init ==
  /\ pc = "init" /\ Unconnected
  /\ Teasing_sw = 1 /\ finished = 0 /\ subscribed = 0
  /\ queued = 0 /\ sent = 0
  /\ session = FALSE /\ wire = <<>> /\ board = "none" /\ wanted = 1
  /\ faults = 0 /\ messages = 0 /\ cut = FALSE

-----------------------------------------------------------------------------
(* mqttsub_init: each of its three library calls may fail.                  *)
Mqttsub_init ==
  /\ pc = "init"
  /\ \/ pc' = "run" /\ QueueConnect
     \/ pc' = "exit" /\ UNCHANGED connection
  /\ UNCHANGED <<Teasing_sw, flags, request, broker, faults, cut>>

(* Mutant: the first connection is taken for a resumed session.             *)
OnConnect5_s_NoSubscribe == UNCHANGED <<queued, sent, flags, cut>>

(* onConnect5_s: MQTTAsync_subscribe queues a SUBSCRIBE or fails.           *)
OnConnect5_s ==
  /\ \/ queued' = queued + 1 /\ UNCHANGED <<finished, cut>>
     \/ finished' = 1 /\ cut' = TRUE /\ UNCHANGED queued
  /\ UNCHANGED <<sent, subscribed>>

(* onConnectFailure5_s, onSubscribeFailure5_s: nobody reads finished.       *)
OnFailure5_s == finished' = 1 /\ UNCHANGED subscribed

-----------------------------------------------------------------------------
(* The library's threads.                                                   *)

Fault == faults < MaxFaults /\ faults' = faults + 1

(* The session ends with the connection: the broker forgets the             *)
(* subscription; for the requests that await an answer the library calls    *)
(* onSubscribeFailure5_s.  Commands in the queue stay there.                *)
AwaitsAnswer == sent > 0 \/ \E i \in DOMAIN wire : wire[i] \in Answers

CloseSession(failed) ==
  /\ session' = FALSE /\ wire' = <<>> /\ sent' = 0
  /\ wanted' = Teasing_sw
  /\ IF failed \/ AwaitsAnswer THEN OnFailure5_s ELSE UNCHANGED flags
  /\ UNCHANGED <<board, messages>>

TakeConnect ==
  /\ StartConnect
  /\ UNCHANGED <<pc, Teasing_sw, flags, request, broker, faults, cut>>

ConnectFails ==
  /\ ConnectError /\ Fault
  /\ IF conn = "armed" THEN OnFailure5_s ELSE UNCHANGED flags
  /\ UNCHANGED <<pc, Teasing_sw, request, broker, cut>>

Reconnect ==
  /\ QueueReconnect
  /\ UNCHANGED <<pc, Teasing_sw, flags, request, broker, faults, cut>>

(* Mutant: onConnect5_s called on every connection.                         *)
Connected_Always ==
  /\ Connack
  /\ OnConnect5_s
  /\ UNCHANGED <<pc, Teasing_sw, broker, faults>>

Connected ==
  /\ Connack
  /\ IF armed THEN OnConnect5_s ELSE UNCHANGED <<flags, request, cut>>
  /\ UNCHANGED <<pc, Teasing_sw, broker, faults>>

(* The receive thread gives the connection up.                              *)
Close ==
  /\ NextOrClose /\ Fault
  /\ CloseSession(armed)
  /\ cut' = (cut \/ armed \/ session \/ sent > 0)
  /\ UNCHANGED <<pc, Teasing_sw, queued>>

(* Mutant: the queue is not tested.                                         *)
SendSubscribe_NoTest ==
  /\ Ready
  /\ queued' = queued - 1 /\ sent' = sent + 1
  /\ UNCHANGED <<pc, connection, Teasing_sw, flags, broker, faults, cut>>

(* The head of the command queue goes out once the connection stands.       *)
SendSubscribe ==
  /\ Ready /\ queued > 0
  /\ queued' = queued - 1 /\ sent' = sent + 1
  /\ UNCHANGED <<pc, connection, Teasing_sw, flags, broker, faults, cut>>

SendSubscribeFails ==
  /\ queued > 0 /\ DisconnectInternal /\ Fault
  /\ queued' = queued - 1
  /\ OnFailure5_s
  /\ cut' = TRUE
  /\ UNCHANGED <<pc, Teasing_sw, sent, broker>>

TakeDisconnect ==
  /\ Disconnect
  /\ IF link = "idle" THEN UNCHANGED <<sent, broker, flags>>
                      ELSE CloseSession(GivesUpAttempt)
  /\ cut' = (cut \/ GivesUpAttempt)
  /\ UNCHANGED <<pc, Teasing_sw, queued, faults>>

(* A SUBACK: onSubscribe5_s or onSubscribeFailure5_s.                       *)
SubscribeAnswered(answer) ==
  IF answer = "suback" THEN subscribed' = 1 /\ UNCHANGED finished ELSE OnFailure5_s

(* A PUBLISH goes to messageArrived_s, which keeps nothing of it back.      *)
ProcessPublication(payload) == Teasing_sw' = SwitchValue(payload, Teasing_sw)

(* The receive thread takes the next packet.                                *)
Receive ==
  /\ link = "up" /\ wire # <<>>
  /\ wire' = Tail(wire)
  /\ IF Head(wire) \in Answers
       THEN SubscribeAnswered(Head(wire)) /\ UNCHANGED Teasing_sw
       ELSE ProcessPublication(Head(wire)) /\ UNCHANGED flags
  /\ UNCHANGED <<pc, connection, request, session, board, wanted, faults,
                 messages, cut>>

-----------------------------------------------------------------------------
(* The broker and the user.                                                 *)

BrokerSubscribes ==
  /\ sent > 0 /\ sent' = sent - 1
  /\ session' = TRUE
  /\ IF board = "none"
       THEN wire' = Append(wire, "suback") /\ UNCHANGED wanted
       ELSE wire' = wire \o <<"suback", board>> /\ wanted' = SwitchValue(board, wanted)
  /\ UNCHANGED <<pc, connection, Teasing_sw, flags, queued, board, faults,
                 messages, cut>>

BrokerRefuses ==
  /\ sent > 0 /\ sent' = sent - 1
  /\ wire' = Append(wire, "nack")
  /\ cut' = TRUE
  /\ UNCHANGED <<pc, connection, Teasing_sw, flags, queued, session, board,
                 wanted, faults, messages>>

Publish ==
  /\ messages < MaxMessages /\ messages' = messages + 1
  /\ \E payload \in Payloads :
       /\ board' = IF Retain THEN payload ELSE board
       /\ IF session THEN /\ wire' = Append(wire, payload)
                          /\ wanted' = SwitchValue(payload, wanted)
                     ELSE UNCHANGED <<wire, wanted>>
  /\ UNCHANGED <<pc, connection, Teasing_sw, flags, request, session, faults, cut>>

SendThread == TakeConnect \/ ConnectFails \/ Reconnect \/ SendSubscribe
                \/ SendSubscribeFails \/ TakeDisconnect
ReceiveThread == Connected \/ Close \/ Receive
Broker == BrokerSubscribes \/ BrokerRefuses

Next == Mqttsub_init \/ SendThread \/ ReceiveThread \/ Broker \/ Publish

Spec == Init /\ [][Next]_vars

(* The program and the library's threads run; the broker answers.  Nothing  *)
(* is assumed of the network or the user.                                   *)
FairSpec ==
  /\ Spec
  /\ WF_vars(Mqttsub_init) /\ WF_vars(TakeConnect \/ ConnectFails)
  /\ WF_vars(SendSubscribe \/ SendSubscribeFails) /\ WF_vars(TakeDisconnect)
  /\ WF_vars(Receive) /\ WF_vars(Broker)

-----------------------------------------------------------------------------
(* Properties.                                                              *)

(* Unless a fault has cost the subscription (the only attempt to subscribe  *)
(* failed, or its connection broke), a connection that stands in the end    *)
(* makes the switch what the user set it to last.  This includes a          *)
(* connection that breaks while the SUBSCRIBE still waits in the queue.     *)
UserIsObeyed ==
  []~cut /\ <>[](link = "up") => <>[](session /\ Teasing_sw = wanted)

(* The callbacks are spent and nothing asks the broker any more.            *)
Deaf ==
  /\ pc = "run" /\ armed = FALSE /\ conn # "armed"
  /\ queued = 0 /\ sent = 0 /\ session = FALSE /\ wire = <<>>

(* onConnect5_s is the only place that subscribes, and the library does not *)
(* call it after an automatic reconnection: once deaf the program stays     *)
(* deaf, and the turret keeps the setting it had, however often the client  *)
(* reconnects.                                                              *)
StaysDeaf == [][Deaf => Deaf' /\ UNCHANGED Teasing_sw]_vars
=============================================================================
