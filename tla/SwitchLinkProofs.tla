-------------------------- MODULE SwitchLinkProofs --------------------------
(***************************************************************************)
(* Proofs about SwitchLink, for any number of faults and messages, with    *)
(* and without the retain flag.                                            *)
(***************************************************************************)
EXTENDS SwitchLink, TLAPS

(* Every step of a deaf program leaves it deaf, with the switch as it was.  *)
LEMMA DeafStep == Deaf /\ [Next]_vars => Deaf' /\ UNCHANGED Teasing_sw
<1> SUFFICES ASSUME Deaf, [Next]_vars PROVE Deaf' /\ UNCHANGED Teasing_sw
  OBVIOUS
<1> USE DEF Deaf
<1>1. CASE Mqttsub_init
  BY <1>1 DEF Mqttsub_init
<1>2. CASE TakeConnect
  BY <1>2 DEF TakeConnect, StartConnect, request, broker
<1>3. CASE ConnectFails
  BY <1>3 DEF ConnectFails, ConnectError, request, broker
<1>4. CASE Reconnect
  BY <1>4 DEF Reconnect, QueueReconnect, request, broker
<1>5. CASE Connected
  BY <1>5 DEF Connected, Connack, request, broker
<1>6. CASE Close
  BY <1>6 DEF Close, NextOrClose, CloseSession
<1>7. CASE SendSubscribe \/ SendSubscribeFails
  BY <1>7 DEF SendSubscribe, SendSubscribeFails
<1>12. CASE TakeDisconnect
  BY <1>12 DEF TakeDisconnect, Disconnect, GivesUpAttempt, CloseSession, broker
<1>8. CASE Receive
  BY <1>8 DEF Receive, SubscribeAnswered, ProcessPublication
<1>9. CASE Broker
  BY <1>9 DEF Broker, BrokerSubscribes, BrokerRefuses
<1>10. CASE Publish
  BY <1>10 DEF Publish, connection, request
<1>11. CASE UNCHANGED vars
  BY <1>11 DEF vars, connection, request, broker
<1> QED
  BY <1>1, <1>2, <1>3, <1>4, <1>5, <1>6, <1>7, <1>8, <1>9, <1>10, <1>11,
     <1>12
     DEF Next, SendThread, ReceiveThread

(* Once its callbacks are spent the program never hears the switch again,   *)
(* however often the library reconnects.                                    *)
THEOREM Deafness == Spec => StaysDeaf
<1>1. [Next]_vars => [Deaf => Deaf' /\ UNCHANGED Teasing_sw]_vars
  BY DeafStep
<1> QED
  BY <1>1, PTL DEF Spec, StaysDeaf

-----------------------------------------------------------------------------
(* Types, and no request, answer or subscription without a connection.      *)

Packets == Payloads \cup Answers

TypeInv ==
  /\ TypeOK
  /\ link # "up" => sent = 0 /\ wire = <<>> /\ session = FALSE

(* messageArrived_s leaves the switch at 0 or 1 whatever the payload.       *)
LEMMA SwitchValues ==
  ASSUME NEW payload, NEW sw \in {0, 1} PROVE SwitchValue(payload, sw) \in {0, 1}
BY DEF SwitchValue

(* The packets on the wire, one taken off and one or two put on.            *)
LEMMA WireTypes ==
  ASSUME NEW q \in Seq(Packets)
  PROVE  /\ <<>> \in Seq(Packets)
         /\ q # <<>> => Head(q) \in Packets /\ Tail(q) \in Seq(Packets)
         /\ \A e \in Packets : Append(q, e) \in Seq(Packets)
         /\ \A e, f \in Packets : q \o <<e, f>> = Append(Append(q, e), f)
OBVIOUS

(* Nothing is sent, granted or on the wire before mqttsub_init connects.    *)
LEMMA TypeInvInit == Init => TypeInv
<1> SUFFICES ASSUME Init PROVE TypeInv
  OBVIOUS
<1>1. <<>> \in Seq(Payloads \cup Answers)
  OBVIOUS
<1>2. 0 \in 0..MaxFaults /\ 0 \in 0..MaxMessages
  BY LinkAssumption
<1>3. TypeOK
  BY <1>1, <1>2 DEF Init, TypeOK, Unconnected, ConnectionTypes
<1> QED
  BY <1>3 DEF Init, TypeInv

(* What each step does to the types, one step after the other.              *)
LEMMA TypeInvStep == TypeInv /\ [Next]_vars => TypeInv'
<1> SUFFICES ASSUME TypeInv, [Next]_vars PROVE TypeInv'
  OBVIOUS
<1> USE LinkAssumption DEF TypeInv, TypeOK, ConnectionTypes
<1>0. /\ wire \in Seq(Packets) /\ <<>> \in Seq(Packets)
      /\ wire # <<>> => Head(wire) \in Packets /\ Tail(wire) \in Seq(Packets)
      /\ \A e \in Packets : Append(wire, e) \in Seq(Packets)
  <2>1. wire \in Seq(Packets)
    BY DEF Packets
  <2> QED
    BY <2>1, WireTypes
<1>a. Fault => faults' \in 0..MaxFaults
  BY DEF Fault
<1>b. \A failed \in BOOLEAN : CloseSession(failed) =>
        /\ session' = FALSE /\ wire' = <<>> /\ sent' = 0
        /\ wanted' \in {0, 1} /\ finished' \in {0, 1} /\ subscribed' \in {0, 1}
        /\ UNCHANGED <<board, messages>>
  BY DEF CloseSession, OnFailure5_s, flags
<1>1. CASE Mqttsub_init
  <2>1. UNCHANGED <<Teasing_sw, flags, request, broker, faults, cut>>
    BY <1>1 DEF Mqttsub_init
  <2>2. pc' \in {"run", "exit"} /\ ConnectionTypes' /\ link' = link
    <3>1. CASE pc' = "run" /\ QueueConnect
      BY <3>1 DEF QueueConnect
    <3>2. CASE pc' = "exit" /\ UNCHANGED connection
      BY <3>2 DEF connection
    <3> QED
      BY <1>1, <3>1, <3>2, Zenon DEF Mqttsub_init
  <2> QED
    BY <2>1, <2>2 DEF flags, request, broker
<1>2. CASE TakeConnect
  BY <1>2 DEF TakeConnect, StartConnect, flags, request, broker
<1>3. CASE ConnectFails
  BY <1>3, <1>a DEF ConnectFails, ConnectError, OnFailure5_s, flags, request, broker
<1>4. CASE Reconnect
  BY <1>4 DEF Reconnect, QueueReconnect, flags, request, broker
<1>5. CASE Connected
  <2>1. /\ finished' \in {0, 1} /\ queued' \in Nat /\ cut' \in BOOLEAN
        /\ UNCHANGED <<sent, subscribed>>
    <3>1. CASE armed
      <4>1. OnConnect5_s
        BY <1>5, <3>1 DEF Connected
      <4>2. CASE queued' = queued + 1 /\ UNCHANGED <<finished, cut>>
        BY <4>1, <4>2 DEF OnConnect5_s
      <4>3. CASE finished' = 1 /\ cut' = TRUE /\ UNCHANGED queued
        BY <4>1, <4>3 DEF OnConnect5_s
      <4> QED
        BY <4>1, <4>2, <4>3 DEF OnConnect5_s
    <3>2. CASE ~armed
      BY <1>5, <3>2 DEF Connected, flags, request
    <3> QED
      BY <3>1, <3>2
  <2> QED
    BY <1>5, <2>1 DEF Connected, Connack, broker
<1>6. CASE Close
  <2>1. CloseSession(armed) /\ armed \in BOOLEAN
    BY <1>6 DEF Close
  <2>2. cut' \in BOOLEAN
    BY <1>6 DEF Close
  <2>3. ConnectionTypes' /\ link' # "up"
    BY <1>6 DEF Close, NextOrClose
  <2>4. /\ session' = FALSE /\ wire' = <<>> /\ sent' = 0
        /\ wanted' \in {0, 1} /\ finished' \in {0, 1} /\ subscribed' \in {0, 1}
        /\ UNCHANGED <<board, messages>>
    BY <1>b, <2>1
  <2> QED
    BY <1>0, <1>6, <1>a, <2>2, <2>3, <2>4 DEF Close, Packets
<1>7. CASE SendSubscribe
  BY <1>7 DEF SendSubscribe, Ready, connection, flags, broker
<1>8. CASE SendSubscribeFails
  BY <1>8, <1>a DEF SendSubscribeFails, DisconnectInternal, Ready, OnFailure5_s, broker
<1>9. CASE TakeDisconnect
  <2>1. CASE link = "idle"
    BY <1>9, <2>1 DEF TakeDisconnect, Disconnect, GivesUpAttempt, flags, broker
  <2>2. CASE link # "idle"
    <3>1. CloseSession(GivesUpAttempt)
      BY <1>9, <2>2 DEF TakeDisconnect
    <3>2. /\ session' = FALSE /\ wire' = <<>> /\ sent' = 0
          /\ wanted' \in {0, 1} /\ finished' \in {0, 1} /\ subscribed' \in {0, 1}
          /\ UNCHANGED <<board, messages>>
      <4>1. GivesUpAttempt \in BOOLEAN
        BY Zenon DEF GivesUpAttempt
      <4> QED
        BY <1>b, <3>1, <4>1
    <3> QED
      BY <1>0, <1>9, <3>2 DEF TakeDisconnect, Disconnect, GivesUpAttempt, Packets
  <2> QED
    BY <2>1, <2>2
<1>10. CASE Receive
  <2>1. Teasing_sw' \in {0, 1} /\ finished' \in {0, 1} /\ subscribed' \in {0, 1}
    BY <1>10, SwitchValues
       DEF Receive, SubscribeAnswered, ProcessPublication, OnFailure5_s, flags
  <2> QED
    BY <1>0, <1>10, <2>1 DEF Receive, connection, request, Packets
<1>11. CASE BrokerSubscribes
  <2>1. wire' \in Seq(Packets) /\ wanted' \in {0, 1}
    <3>1. CASE board = "none"
      BY <1>0, <1>11, <3>1 DEF BrokerSubscribes, Packets, Answers
    <3>2. CASE board # "none"
      <4>1. board \in Packets /\ "suback" \in Packets
        BY <3>2 DEF Packets, Answers
      <4>2. wire' = Append(Append(wire, "suback"), board)
        BY <1>0, <1>11, <3>2, <4>1, WireTypes DEF BrokerSubscribes
      <4>3. wanted' \in {0, 1}
        BY <1>11, <3>2, SwitchValues DEF BrokerSubscribes
      <4> QED
        BY <1>0, <4>1, <4>2, <4>3, WireTypes
    <3> QED
      BY <3>1, <3>2
  <2> QED
    BY <1>11, <2>1 DEF BrokerSubscribes, connection, flags, Packets
<1>12. CASE BrokerRefuses
  BY <1>0, <1>12 DEF BrokerRefuses, connection, flags, Packets, Answers
<1>13. CASE Publish
  <2>1. PICK payload \in Payloads :
          /\ board' = IF Retain THEN payload ELSE board
          /\ IF session THEN /\ wire' = Append(wire, payload)
                             /\ wanted' = SwitchValue(payload, wanted)
                        ELSE UNCHANGED <<wire, wanted>>
    BY <1>13 DEF Publish
  <2>2. wire' \in Seq(Packets) /\ wanted' \in {0, 1}
    BY <1>0, <2>1, SwitchValues DEF Packets
  <2>3. messages' \in 0..MaxMessages /\ board' \in Payloads \cup {"none"}
    BY <1>13, <2>1 DEF Publish
  <2>4. session = FALSE => wire' = wire
    BY <2>1
  <2> QED
    BY <1>13, <2>2, <2>3, <2>4 DEF Publish, connection, flags, request, Packets
<1>14. CASE UNCHANGED vars
  BY <1>14 DEF vars, connection, flags, request, broker
<1> QED
  BY <1>1, <1>2, <1>3, <1>4, <1>5, <1>6, <1>7, <1>8, <1>9, <1>10, <1>11,
     <1>12, <1>13, <1>14
     DEF Next, SendThread, ReceiveThread, Broker

(* Requests, answers and subscriptions need a connection, in every state.   *)
LEMMA TypeInvariant == Spec => []TypeInv
  BY TypeInvInit, TypeInvStep, PTL DEF Spec

(* The switch stays 0 or 1, and every request, answer and message has its   *)
(* place, whatever the network and the user do.                             *)
THEOREM TypeCorrect == Spec => []TypeOK
<1>1. TypeInv => TypeOK
  BY DEF TypeInv
<1> QED
  BY <1>1, TypeInvariant, PTL

-----------------------------------------------------------------------------
(* Why the program can go deaf.                                             *)

(* The CONNECT that the library repeats carries the callbacks on, and what  *)
(* onConnect5_s has asked for is in the queue, at the broker or granted.    *)
SubscriptionInv ==
  /\ conn = "bare" => armed = FALSE
  /\ "disconnect" \in ending => cut = TRUE
  /\ pc = "run" /\ cut = FALSE =>
       armed = TRUE \/ conn = "armed" \/ queued > 0 \/ sent > 0 \/ session = TRUE

(* Nothing makes the program deaf but a fault that costs the subscription:  *)
(* a connection that fails or breaks before it is asked for costs nothing.  *)
DeafOnlyWhenCut == Deaf => cut = TRUE

(* Every step of the library, the broker and the callbacks passes the way   *)
(* to a subscription on, unless a fault is charged with its loss.           *)
LEMMA SubscriptionStep ==
  TypeInv /\ SubscriptionInv /\ [Next]_vars => SubscriptionInv'
<1> SUFFICES ASSUME TypeInv, SubscriptionInv, [Next]_vars PROVE SubscriptionInv'
  OBVIOUS
<1> USE DEF SubscriptionInv
<1>0. /\ armed \in {TRUE, FALSE} /\ session \in {TRUE, FALSE} /\ cut \in {TRUE, FALSE}
      /\ queued \in Nat /\ sent \in Nat
      /\ conn \in {"none", "armed", "bare"}
      /\ link # "up" => sent = 0 /\ session = FALSE
  BY DEF TypeInv, TypeOK, ConnectionTypes
<1>1. CASE Mqttsub_init
  BY <1>0, <1>1 DEF Mqttsub_init, QueueConnect, connection, request, broker,
     TypeInv, TypeOK
<1>2. CASE TakeConnect
  BY <1>0, <1>2 DEF TakeConnect, StartConnect, request, broker
<1>3. CASE ConnectFails
  BY <1>0, <1>3 DEF ConnectFails, ConnectError, request, broker
<1>4. CASE Reconnect
  BY <1>0, <1>4 DEF Reconnect, QueueReconnect, request, broker
<1>5. CASE Connected
  <2>1. CASE armed
    <3>1. OnConnect5_s /\ Connack /\ pc' = pc /\ session' = session
      BY <1>5, <2>1 DEF Connected, broker
    <3>2. CASE queued' = queued + 1 /\ UNCHANGED <<finished, cut>>
      BY <1>0, <3>1, <3>2 DEF Connack
    <3>3. CASE finished' = 1 /\ cut' = TRUE /\ UNCHANGED queued
      BY <1>0, <3>1, <3>3 DEF Connack
    <3> QED
      BY <3>1, <3>2, <3>3 DEF OnConnect5_s
  <2>2. CASE ~armed
    BY <1>0, <1>5, <2>2 DEF Connected, Connack, flags, request, broker
  <2> QED
    BY <2>1, <2>2
<1>6. CASE Close
  <2>1. /\ armed' = FALSE /\ pc' = pc /\ conn' = conn /\ queued' = queued
        /\ ending' = ending \ {"error"}
    BY <1>6 DEF Close, NextOrClose
  <2>2. CASE armed \/ session \/ sent > 0
    BY <1>0, <1>6, <2>1, <2>2 DEF Close
  <2>3. CASE ~(armed \/ session \/ sent > 0)
    <3>1. cut' = cut
      BY <1>0, <1>6, <2>3 DEF Close
    <3> QED
      BY <1>0, <2>1, <2>3, <3>1
  <2> QED
    BY <2>2, <2>3
<1>7. CASE SendSubscribe
  BY <1>0, <1>7 DEF SendSubscribe, connection, broker
<1>8. CASE SendSubscribeFails
  BY <1>0, <1>8 DEF SendSubscribeFails, DisconnectInternal
<1>9. CASE TakeDisconnect
  <2>1. cut = TRUE /\ conn' = conn /\ ending' = {}
    BY <1>9 DEF TakeDisconnect, Disconnect
  <2>2. cut' = TRUE
    BY <1>9, <2>1, Zenon DEF TakeDisconnect
  <2>3. armed = FALSE => armed' = FALSE
    BY <1>9, Zenon DEF TakeDisconnect, Disconnect, GivesUpAttempt
  <2> QED
    BY <2>1, <2>2, <2>3
<1>10. CASE Receive
  BY <1>0, <1>10 DEF Receive, connection, request
<1>11. CASE BrokerSubscribes
  BY <1>0, <1>11 DEF BrokerSubscribes, connection
<1>12. CASE BrokerRefuses
  BY <1>0, <1>12 DEF BrokerRefuses, connection
<1>13. CASE Publish
  BY <1>0, <1>13 DEF Publish, connection, request
<1>14. CASE UNCHANGED vars
  BY <1>0, <1>14 DEF vars, connection, request, broker
<1> QED
  BY <1>1, <1>2, <1>3, <1>4, <1>5, <1>6, <1>7, <1>8, <1>9, <1>10, <1>11,
     <1>12, <1>13, <1>14
     DEF Next, SendThread, ReceiveThread, Broker

(* Whenever the program is deaf, a fault that can cost the subscription has *)
(* been noted in cut: the exception UserIsObeyed makes covers every way in  *)
(* which the user can come to be ignored for good.                          *)
THEOREM DeafOnlyByFault == Spec => []DeafOnlyWhenCut
<1>1. Init => SubscriptionInv
  BY DEF Init, Unconnected, SubscriptionInv
<1>2. TypeInv /\ SubscriptionInv => DeafOnlyWhenCut
  BY DEF SubscriptionInv, DeafOnlyWhenCut, Deaf, TypeInv, TypeOK
<1> QED
  BY <1>1, <1>2, SubscriptionStep, TypeInvariant, PTL DEF Spec

-----------------------------------------------------------------------------
(* What is on the wire is what the switch still lacks.                      *)

(* The messages that decide; a short one and an answer leave the switch.    *)
Decides(packet) == packet \in Payloads /\ packet # "short"

Switched(packet, sw) == IF packet \in Payloads THEN SwitchValue(packet, sw) ELSE sw

(* The last packet of q that decides makes w of the switch sw, or w is sw.  *)
Leads(q, sw, w) ==
  /\ (\A i \in 1..Len(q) : ~Decides(q[i])) => w = sw
  /\ \A i \in 1..Len(q) :
       Decides(q[i]) /\ (\A j \in (i + 1)..Len(q) : ~Decides(q[j]))
         => w = SwitchValue(q[i], 0)

WireInv == Leads(wire, Teasing_sw, wanted)

(* When the program has taken all that was forwarded to it, the switch is   *)
(* what the user wanted: no message overtakes another or is taken twice.    *)
NothingPending == wire = <<>> => Teasing_sw = wanted

(* A message that decides sets the switch whatever it was; any other packet *)
(* leaves it alone.                                                         *)
LEMMA Decision ==
  ASSUME NEW packet, NEW sw
  PROVE  IF Decides(packet) THEN Switched(packet, sw) = SwitchValue(packet, 0)
                            ELSE Switched(packet, sw) = sw
BY DEF Decides, Switched, SwitchValue, Payloads

(* The broker puts a packet behind those on the wire: the last one that     *)
(* decides is this one, or the same as before.                              *)
LEMMA LeadsAppend ==
  ASSUME NEW q \in Seq(Packets), NEW e \in Packets, NEW sw, NEW w, Leads(q, sw, w)
  PROVE  Leads(Append(q, e), sw, Switched(e, w))
<1> DEFINE r == Append(q, e)
<1>1. /\ Len(q) \in Nat /\ Len(r) = Len(q) + 1 /\ r[Len(q) + 1] = e
      /\ \A i \in 1..Len(q) : r[i] = q[i]
  OBVIOUS
<1> HIDE DEF r
<1>2. ASSUME Decides(e) PROVE Leads(r, sw, Switched(e, w))
  <2>1. Switched(e, w) = SwitchValue(e, 0)
    BY <1>2, Decision
  <2>2. \A i \in 1..Len(r) : i = Len(q) + 1 \/ Len(q) + 1 \in (i + 1)..Len(r)
    BY <1>1
  <2> QED
    BY <1>1, <1>2, <2>1, <2>2 DEF Leads
<1>3. ASSUME ~Decides(e) PROVE Leads(r, sw, Switched(e, w))
  <2>1. Switched(e, w) = w
    BY <1>3, Decision
  <2>2. (\A i \in 1..Len(r) : ~Decides(r[i])) => w = sw
    BY <1>1 DEF Leads
  <2>3. ASSUME NEW i \in 1..Len(r), Decides(r[i]),
               \A j \in (i + 1)..Len(r) : ~Decides(r[j])
        PROVE  w = SwitchValue(r[i], 0)
    <3>1. i \in 1..Len(q)
      BY <1>1, <1>3, <2>3
    <3>2. \A j \in (i + 1)..Len(q) : ~Decides(q[j])
      BY <1>1, <2>3
    <3> QED
      BY <1>1, <2>3, <3>1, <3>2 DEF Leads
  <2> QED
    BY <2>1, <2>2, <2>3 DEF Leads
<1> QED
  BY <1>2, <1>3 DEF r

(* The receive thread takes the first packet: what it makes of the switch   *)
(* is what the rest starts from.                                            *)
LEMMA LeadsTail ==
  ASSUME NEW q \in Seq(Packets), q # <<>>, NEW sw, NEW w, Leads(q, sw, w)
  PROVE  Leads(Tail(q), Switched(Head(q), sw), w)
<1> DEFINE r == Tail(q)
           v == Switched(Head(q), sw)
<1>1. /\ Len(q) \in Nat /\ Len(q) = Len(r) + 1 /\ Len(r) \in Nat
      /\ \A i \in 1..Len(r) : r[i] = q[i + 1]
      /\ Head(q) = q[1]
  OBVIOUS
<1> HIDE DEF r, v
<1>2. ASSUME \A i \in 1..Len(r) : ~Decides(r[i]) PROVE w = v
  <2>1. \A j \in 2..Len(q) : ~Decides(q[j])
    <3>1. TAKE j \in 2..Len(q)
    <3>2. j - 1 \in 1..Len(r) /\ q[j] = r[j - 1]
      BY <1>1
    <3> QED
      BY <1>2, <3>2
  <2>2. CASE Decides(Head(q))
    <3>1. v = SwitchValue(Head(q), 0)
      BY <2>2, Decision DEF v
    <3>2. w = SwitchValue(q[1], 0)
      BY <1>1, <2>1, <2>2 DEF Leads
    <3> QED
      BY <1>1, <3>1, <3>2
  <2>3. CASE ~Decides(Head(q))
    <3>1. v = sw
      BY <2>3, Decision DEF v
    <3>2. \A i \in 1..Len(q) : ~Decides(q[i])
      BY <1>1, <2>1, <2>3
    <3> QED
      BY <3>1, <3>2 DEF Leads
  <2> QED
    BY <2>2, <2>3
<1>3. ASSUME NEW i \in 1..Len(r), Decides(r[i]),
             \A j \in (i + 1)..Len(r) : ~Decides(r[j])
      PROVE  w = SwitchValue(r[i], 0)
  <2>1. i + 1 \in 1..Len(q) /\ Decides(q[i + 1])
    BY <1>1, <1>3
  <2>2. \A j \in (i + 2)..Len(q) : ~Decides(q[j])
    <3>1. TAKE j \in (i + 2)..Len(q)
    <3>2. j - 1 \in (i + 1)..Len(r) /\ q[j] = r[j - 1]
      BY <1>1
    <3> QED
      BY <1>3, <3>2
  <2>3. (i + 1) + 1 = i + 2
    OBVIOUS
  <2> QED
    BY <1>1, <2>1, <2>2, <2>3 DEF Leads
<1> QED
  BY <1>2, <1>3 DEF Leads, r, v

(* With nothing on the wire the switch is what it should be.                *)
LEMMA LeadsEmpty == \A sw : Leads(<<>>, sw, sw)
  BY DEF Leads

(* Every step keeps what is on the wire the difference between the switch   *)
(* and what the user wanted.                                                *)
LEMMA WireStep == TypeInv /\ WireInv /\ [Next]_vars => WireInv'
<1> SUFFICES ASSUME TypeInv, WireInv, [Next]_vars PROVE WireInv'
  OBVIOUS
<1> USE DEF WireInv
<1>0. wire \in Seq(Packets) /\ Answers \cap Payloads = {}
  BY DEF TypeInv, TypeOK, Packets, Answers, Payloads
<1>1. CASE wire' = <<>> /\ wanted' = Teasing_sw /\ Teasing_sw' = Teasing_sw
  BY <1>1, LeadsEmpty
<1>2. CASE UNCHANGED <<wire, wanted, Teasing_sw>>
  BY <1>2
<1>3. CASE Close \/ TakeDisconnect
  BY <1>1, <1>2, <1>3 DEF Close, TakeDisconnect, CloseSession, broker
<1>4. CASE Receive
  <2>1. wire # <<>> /\ wire' = Tail(wire) /\ wanted' = wanted
    BY <1>4 DEF Receive
  <2>2. Head(wire) \in Packets
    BY <1>0, <2>1, WireTypes
  <2>3. Teasing_sw' = Switched(Head(wire), Teasing_sw)
    BY <1>0, <1>4, <2>2
       DEF Receive, SubscribeAnswered, ProcessPublication, Switched, Packets,
           Answers, Payloads, SwitchValue
  <2> QED
    BY <1>0, <2>1, <2>3, LeadsTail
<1>5. CASE BrokerSubscribes
  <2>1. "suback" \in Packets /\ Switched("suback", wanted) = wanted
    BY DEF Packets, Answers, Payloads, Switched
  <2>2. Leads(Append(wire, "suback"), Teasing_sw, wanted)
    BY <1>0, <2>1, LeadsAppend
  <2>3. CASE board = "none"
    BY <1>5, <2>2, <2>3 DEF BrokerSubscribes
  <2>4. CASE board # "none"
    <3>1. board \in Payloads /\ board \in Packets
      BY <2>4 DEF TypeInv, TypeOK, Packets
    <3>2. wire' = Append(Append(wire, "suback"), board)
      BY <1>0, <1>5, <2>1, <2>4, <3>1, WireTypes DEF BrokerSubscribes
    <3>3. wanted' = Switched(board, wanted) /\ Teasing_sw' = Teasing_sw
      BY <1>5, <2>4, <3>1 DEF BrokerSubscribes, Switched
    <3>4. Append(wire, "suback") \in Seq(Packets)
      BY <1>0, <2>1, WireTypes
    <3> QED
      BY <2>2, <3>1, <3>2, <3>3, <3>4, LeadsAppend
  <2> QED
    BY <2>3, <2>4
<1>6. CASE BrokerRefuses
  <2>1. "nack" \in Packets /\ Switched("nack", wanted) = wanted
    BY DEF Packets, Answers, Payloads, Switched
  <2>2. Leads(Append(wire, "nack"), Teasing_sw, wanted)
    BY <1>0, <2>1, LeadsAppend
  <2> QED
    BY <1>6, <2>2 DEF BrokerRefuses
<1>7. CASE Publish
  <2>1. PICK payload \in Payloads :
          IF session THEN /\ wire' = Append(wire, payload)
                          /\ wanted' = SwitchValue(payload, wanted)
                     ELSE UNCHANGED <<wire, wanted>>
    BY <1>7 DEF Publish
  <2>2. Teasing_sw' = Teasing_sw
    BY <1>7 DEF Publish
  <2>3. CASE session
    <3>1. Leads(Append(wire, payload), Teasing_sw, Switched(payload, wanted))
      BY <1>0, LeadsAppend DEF Packets
    <3> QED
      BY <2>1, <2>2, <2>3, <3>1 DEF Switched
  <2>4. CASE ~session
    BY <1>2, <2>1, <2>2, <2>4
  <2> QED
    BY <2>3, <2>4
<1> QED
  BY <1>2, <1>3, <1>4, <1>5, <1>6, <1>7
     DEF Next, SendThread, ReceiveThread, Broker, Mqttsub_init, TakeConnect,
         ConnectFails, Reconnect, Connected, SendSubscribe,
         SendSubscribeFails, broker, vars

(* The switch follows the user: what was forwarded to the program and is    *)
(* not yet in Teasing_sw is on the wire, or went with a broken connection.  *)
THEOREM SwitchFollows == Spec => []NothingPending
<1>1. Init => WireInv
  BY LeadsEmpty DEF Init, WireInv
<1>2. WireInv => NothingPending
  BY DEF WireInv, NothingPending, Leads
<1> QED
  BY <1>1, <1>2, WireStep, TypeInvariant, PTL DEF Spec

-----------------------------------------------------------------------------
(* What UserIsObeyed rests on besides fairness: a connection that stands    *)
(* has the subscription or has asked for it, and what is under way between  *)
(* the queue, the broker and messageArrived_s runs out.                     *)

(* A queued SUBSCRIBE is sent, answered by up to two packets, which are     *)
(* received.                                                                *)
Pending == 4 * queued + 3 * sent + Len(wire)

(* onConnect5_s is called when the connection is made, or what it has asked *)
(* for is still in the queue.                                               *)
AskedInv ==
  /\ pc # "run" => link = "idle" /\ conn = "none" /\ retrying = FALSE
  /\ link = "connecting" /\ cut = FALSE => armed = TRUE \/ queued > 0
  /\ link = "up" /\ cut = FALSE => queued > 0 \/ sent > 0 \/ session = TRUE

(* Every step that makes a connection, or changes it, keeps the request.    *)
LEMMA AskedStep ==
  TypeInv /\ SubscriptionInv /\ AskedInv /\ [Next]_vars => AskedInv'
<1> SUFFICES ASSUME TypeInv, SubscriptionInv, AskedInv, [Next]_vars
             PROVE  AskedInv'
  OBVIOUS
<1> USE DEF AskedInv
<1>0. /\ armed \in {TRUE, FALSE} /\ session \in {TRUE, FALSE} /\ cut \in {TRUE, FALSE}
      /\ retrying \in {TRUE, FALSE} /\ queued \in Nat /\ sent \in Nat
      /\ link \in {"idle", "connecting", "up"}
      /\ conn \in {"none", "armed", "bare"}
      /\ link # "up" => sent = 0 /\ session = FALSE
  BY DEF TypeInv, TypeOK, ConnectionTypes
<1>1. CASE Mqttsub_init
  BY <1>0, <1>1 DEF Mqttsub_init, QueueConnect, connection, request, broker
<1>2. CASE TakeConnect
  <2>1. /\ conn # "none" /\ conn' = "none" /\ armed' = (conn = "armed")
        /\ link' = IF link = "idle" THEN "connecting" ELSE link
        /\ UNCHANGED <<pc, retrying, queued, sent, session, cut>>
    BY <1>2 DEF TakeConnect, StartConnect, request, broker
  <2>2. pc = "run"
    BY <2>1
  <2>3. conn = "bare" => armed = FALSE
    BY DEF SubscriptionInv
  <2>4. link = "idle" /\ conn = "bare" /\ cut = FALSE => queued > 0
    BY <1>0, <2>2, <2>3 DEF SubscriptionInv
  <2> QED
    BY <1>0, <2>1, <2>2, <2>3, <2>4
<1>3. CASE ConnectFails
  BY <1>0, <1>3 DEF ConnectFails, ConnectError, request, broker
<1>4. CASE Reconnect
  BY <1>0, <1>4 DEF Reconnect, QueueReconnect, request, broker
<1>5. CASE Connected
  <2>1. /\ link = "connecting" /\ link' = "up" /\ retrying' = FALSE
        /\ UNCHANGED <<pc, conn, sent, session>>
    BY <1>5 DEF Connected, Connack, broker, OnConnect5_s, request
  <2>2. CASE armed
    BY <1>0, <1>5, <2>1, <2>2 DEF Connected, OnConnect5_s
  <2>3. CASE ~armed
    BY <1>0, <1>5, <2>1, <2>3 DEF Connected, request
  <2> QED
    BY <2>2, <2>3
<1>6. CASE Close
  <2>1. link # "idle" /\ link' = "idle" /\ UNCHANGED <<pc, conn>>
    BY <1>6 DEF Close, NextOrClose
  <2> QED
    BY <2>1
<1>7. CASE SendSubscribe
  BY <1>0, <1>7 DEF SendSubscribe, Ready, connection, broker
<1>8. CASE SendSubscribeFails
  BY <1>0, <1>8 DEF SendSubscribeFails, DisconnectInternal, Ready
<1>9. CASE TakeDisconnect
  <2>1. cut = TRUE
    BY <1>0, <1>9 DEF TakeDisconnect, Disconnect, SubscriptionInv
  <2>2. /\ link' = "idle" /\ UNCHANGED <<pc, conn>>
        /\ retrying' = (retrying \/ link # "idle")
    BY <1>9 DEF TakeDisconnect, Disconnect
  <2> QED
    BY <1>0, <2>1, <2>2
<1>10. CASE Receive
  BY <1>0, <1>10 DEF Receive, connection, request
<1>11. CASE BrokerSubscribes
  BY <1>0, <1>11 DEF BrokerSubscribes, connection
<1>12. CASE BrokerRefuses
  BY <1>0, <1>12 DEF BrokerRefuses, connection
<1>13. CASE Publish
  BY <1>0, <1>13 DEF Publish, connection, request
<1>14. CASE UNCHANGED vars
  BY <1>0, <1>14 DEF vars, connection, request, broker
<1> QED
  BY <1>1, <1>2, <1>3, <1>4, <1>5, <1>6, <1>7, <1>8, <1>9, <1>10, <1>11,
     <1>12, <1>13, <1>14
     DEF Next, SendThread, ReceiveThread, Broker

(* On a connection that stands nothing is pending any more: the user is     *)
(* obeyed, unless a fault has cost the subscription.                        *)
ObeyedWhenSettled ==
  link = "up" /\ cut = FALSE /\ Pending = 0 => session = TRUE /\ Teasing_sw = wanted

(* A connection that stands, has lost no subscription and has nothing under *)
(* way is subscribed, and the switch is where the user has put it.          *)
THEOREM SettledIsObeyed == Spec => []ObeyedWhenSettled
<1>1. Init => SubscriptionInv /\ AskedInv
  BY DEF Init, Unconnected, SubscriptionInv, AskedInv
<1>2. TypeInv /\ AskedInv /\ NothingPending => ObeyedWhenSettled
  <2> SUFFICES ASSUME TypeInv, AskedInv, NothingPending,
                      link = "up", cut = FALSE, Pending = 0
               PROVE  session = TRUE /\ Teasing_sw = wanted
    BY DEF ObeyedWhenSettled
  <2>1. queued \in Nat /\ sent \in Nat /\ Len(wire) \in Nat
    BY DEF TypeInv, TypeOK
  <2>2. queued = 0 /\ sent = 0 /\ Len(wire) = 0
    BY <2>1 DEF Pending
  <2>3. wire = <<>>
    BY <2>2 DEF TypeInv, TypeOK
  <2> QED
    BY <2>2, <2>3 DEF AskedInv, NothingPending
<1> QED
  BY <1>1, <1>2, SubscriptionStep, AskedStep, TypeInvariant, SwitchFollows, PTL
     DEF Spec

(* A subscription lasts as long as its connection, and what is pending only *)
(* gets less, but for the messages the user goes on to publish.             *)
SettlesStep ==
  link = "up" /\ link' = "up" =>
    /\ session = TRUE => session' = TRUE
    /\ \/ UNCHANGED <<request, wire>>
       \/ Pending' < Pending
       \/ Publish /\ Pending' = Pending + 1

(* While the connection stands every step of the library and of the broker  *)
(* that touches a request, an answer or a message brings it nearer to its   *)
(* end: nothing is asked for again, and nothing is delivered twice.         *)
THEOREM StandingLinkSettles == Spec => [][SettlesStep]_vars
<1>1. TypeInv /\ [Next]_vars => [SettlesStep]_vars
  <2> SUFFICES ASSUME TypeInv, Next, link = "up", link' = "up"
               PROVE  /\ session = TRUE => session' = TRUE
                      /\ \/ UNCHANGED <<request, wire>>
                         \/ Pending' < Pending
                         \/ Publish /\ Pending' = Pending + 1
    BY DEF SettlesStep
  <2>1. queued \in Nat /\ sent \in Nat /\ Len(wire) \in Nat /\ wire \in Seq(Packets)
    BY DEF TypeInv, TypeOK, Packets
  <2>2. CASE Mqttsub_init \/ TakeConnect \/ Reconnect
    BY <2>2 DEF Mqttsub_init, TakeConnect, Reconnect, broker
  <2>3. CASE ConnectFails \/ Connected \/ Close \/ TakeDisconnect
    BY <2>3 DEF ConnectFails, ConnectError, Connected, Connack, Close, NextOrClose,
       TakeDisconnect, Disconnect
  <2>4. CASE SendSubscribe
    <3>1. queued' = queued - 1 /\ sent' = sent + 1 /\ wire' = wire /\ session' = session
      BY <2>4 DEF SendSubscribe, broker
    <3> QED
      BY <2>1, <3>1 DEF Pending
  <2>5. CASE SendSubscribeFails
    <3>1. queued' = queued - 1 /\ sent' = sent /\ wire' = wire /\ session' = session
      BY <2>5 DEF SendSubscribeFails, broker
    <3> QED
      BY <2>1, <3>1 DEF Pending
  <2>6. CASE Receive
    <3>1. Len(wire)' = Len(wire) - 1
      BY <2>1, <2>6 DEF Receive
    <3>2. UNCHANGED <<queued, sent, session>>
      BY <2>6 DEF Receive, request
    <3> QED
      BY <2>1, <3>1, <3>2 DEF Pending
  <2>7. CASE BrokerSubscribes
    <3>1. Len(wire)' <= Len(wire) + 2 /\ Len(wire)' \in Nat
      <4>1. CASE board = "none"
        BY <2>1, <2>7, <4>1 DEF BrokerSubscribes, Packets, Answers
      <4>2. CASE board # "none"
        BY <2>1, <2>7, <4>2, WireTypes DEF BrokerSubscribes, TypeInv, TypeOK,
           Packets, Answers
      <4> QED
        BY <4>1, <4>2
    <3>2. queued' = queued /\ sent' = sent - 1 /\ session' = TRUE
      BY <2>7 DEF BrokerSubscribes
    <3> QED
      BY <2>1, <3>1, <3>2 DEF Pending
  <2>8. CASE BrokerRefuses
    <3>1. Len(wire)' = Len(wire) + 1
      BY <2>1, <2>8 DEF BrokerRefuses, Packets, Answers
    <3>2. queued' = queued /\ sent' = sent - 1 /\ session' = session
      BY <2>8 DEF BrokerRefuses
    <3> QED
      BY <2>1, <3>1, <3>2 DEF Pending
  <2>9. CASE Publish
    <3>1. UNCHANGED <<queued, sent, session>>
      BY <2>9 DEF Publish, request
    <3>2. CASE session
      <4>1. PICK payload \in Payloads : wire' = Append(wire, payload)
        BY <2>9, <3>2 DEF Publish
      <4>2. Len(wire)' = Len(wire) + 1
        BY <2>1, <4>1 DEF Packets
      <4> QED
        BY <2>1, <2>9, <3>1, <4>2 DEF Pending
    <3>3. CASE ~session
      BY <2>9, <3>1, <3>3 DEF Publish, request
    <3> QED
      BY <3>2, <3>3
  <2> QED
    BY <2>2, <2>3, <2>4, <2>5, <2>6, <2>7, <2>8, <2>9
       DEF Next, SendThread, ReceiveThread, Broker
<1> QED
  BY <1>1, TypeInvariant, PTL DEF Spec
=============================================================================
