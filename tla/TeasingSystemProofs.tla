------------------------- MODULE TeasingSystemProofs -------------------------
(***************************************************************************)
(* Proofs about the publisher's connection (CommandLink), for every size   *)
(* of the library's buffer and of the socket, any number of commands and   *)
(* any number of faults; and then about the two clients joined in one      *)
(* program, which behave as CommandLink and SwitchLink say, so that what   *)
(* is proved of each holds of the program.                                 *)
(*                                                                         *)
(* The first part speaks of Spec, CommandLink's, and of none of the        *)
(* variables TeasingSystem adds.                                           *)
(***************************************************************************)
EXTENDS TeasingSystem, SequenceTheorems, FiniteSetTheorems, TLAPS

-----------------------------------------------------------------------------
(* The publisher.                                                          *)

(* Taking the head of a queue of commands and adding one at its end.        *)
LEMMA Queue ==
  ASSUME NEW S, NEW q \in Seq(S), NEW e \in S
  PROVE  /\ Append(q, e) \in Seq(S) /\ Len(Append(q, e)) = Len(q) + 1
         /\ q # <<>> => /\ Head(q) \in S
                        /\ Tail(q) \in Seq(S)
                        /\ Len(Tail(q)) = Len(q) - 1
                        /\ Len(q) >= 1
         /\ <<e>> \in Seq(S) /\ Len(<<e>>) = 1
         /\ <<>> \in Seq(S) /\ Len(<<>>) = 0
  OBVIOUS

(* The steps of the connection keep the types of its state.                 *)
LEMMA ConnectionStep ==
  ASSUME ConnectionTypes,
         \/ QueueConnect \/ StartConnect \/ ConnectError \/ QueueReconnect
         \/ Connack \/ NextOrClose \/ DisconnectInternal \/ Disconnect
         \/ UNCHANGED connection
  PROVE  ConnectionTypes'
  BY DEF ConnectionTypes, QueueConnect, StartConnect, ConnectError,
         QueueReconnect, Connack, NextOrClose, DisconnectInternal,
         Disconnect, connection

(* draw_result decides only on commands that still have a number.           *)
Numbered == pc = "send" => next <= MaxCommands

TypeInv == TypeOK /\ Numbered

(* The types hold initially.                                                *)
LEMMA TypeInvInit == Init => TypeInv
<1> SUFFICES ASSUME Init PROVE TypeInv
  OBVIOUS
<1>1. ConnectionTypes
  BY DEF Init, Unconnected, ConnectionTypes
<1>2. <<>> \in Seq(Numbers) /\ Len(<<>>) = 0
  OBVIOUS
<1>3. /\ buffer \in Seq(Numbers) /\ Len(buffer) <= MaxBuffered
      /\ writing \in Seq(Numbers) /\ Len(writing) <= 1
      /\ socket \in Seq(Numbers) /\ Len(socket) <= SocketSize
      /\ executed \in Seq(Numbers) /\ accepted \subseteq Numbers
  BY <1>2, LinkAssumption DEF Init
<1>4. /\ next \in 1..(MaxCommands + 1) /\ late \in Nat /\ faults \in 0..MaxFaults
      /\ connected \in {0, -1} /\ published \in {0, 1, -1}
      /\ Teasing_sw \in {0, 1}
  BY LinkAssumption DEF Init
<1>5. /\ pc \in {"init", "run", "send", "exit"} /\ pc # "send"
      /\ client \in {"null", "made"} /\ should \in BOOLEAN
  BY DEF Init
<1> QED
  BY <1>1, <1>3, <1>4, <1>5 DEF TypeInv, TypeOK, Numbered

(* Every step keeps the types and the bounds of buffer, writing and socket. *)
LEMMA TypeInvStep == TypeInv /\ [Next]_vars => TypeInv'
<1> SUFFICES ASSUME TypeInv, [Next]_vars PROVE TypeInv'
  OBVIOUS
<1> USE LinkAssumption DEF TypeInv, TypeOK, Numbered
<1>0. ConnectionTypes'
  <2>1. CASE WriteFails
    BY <2>1 DEF WriteFails, ConnectionTypes
  <2>2. CASE ~WriteFails
    BY <2>2, ConnectionStep
       DEF Next, Main, SendThread, ReceiveThread, Mqtt_init, Decide,
           Mqtt_guard_ps_set, Switch, TakeConnect, ConnectRefused,
           ConnectFails, Reconnect, Connected, Close, TakeDisconnect,
           SendPublish, SendPublishFails, WriteComplete, Deliver, vars
  <2> QED
    BY <2>1, <2>2
<1>1. CASE Mqtt_init
  BY <1>0, <1>1 DEF Mqtt_init, pipeline, history
<1>2. CASE Decide
  BY <1>0, <1>2 DEF Decide, pipeline, history, reports
<1>3. CASE Mqtt_guard_ps_set
  <2>1. next \in Numbers /\ next + 1 \in 1..(MaxCommands + 1)
    BY <1>3 DEF Mqtt_guard_ps_set, Numbers
  <2>2. /\ buffer' \in Seq(Numbers) /\ Len(buffer') <= MaxBuffered
        /\ accepted' \subseteq Numbers
    <3>1. CASE Accepts
      <4>1. /\ Append(buffer, next) \in Seq(Numbers)
            /\ Len(Append(buffer, next)) = Len(buffer) + 1
        BY <2>1
      <4>2. buffer' = Append(buffer, next) /\ accepted' = accepted \cup {next}
        BY <3>1, <1>3 DEF Mqtt_guard_ps_set
      <4>3. Len(buffer) + 1 <= MaxBuffered
        BY <3>1 DEF Accepts
      <4> QED
        BY <4>1, <4>2, <4>3, <2>1
    <3>2. CASE ~Accepts
      BY <3>2, <1>3 DEF Mqtt_guard_ps_set
    <3> QED
      BY <3>1, <3>2
  <2> QED
    BY <1>0, <1>3, <2>1, <2>2 DEF Mqtt_guard_ps_set, reports
<1>4. CASE Switch
  BY <1>0, <1>4 DEF Switch, pipeline, reports
<1>5. CASE TakeConnect \/ Reconnect
  BY <1>0, <1>5 DEF TakeConnect, Reconnect, others, reports, pipeline, history
<1>6. CASE ConnectFails
  BY <1>0, <1>6
     DEF ConnectFails, OnConnectFailure5, pipeline, history
<1>14. CASE ConnectRefused
  <2>1. faults' \in 0..MaxFaults /\ should' = FALSE
    BY <1>14 DEF ConnectRefused, Fault
  <2> QED
    BY <1>0, <1>14, <2>1 DEF ConnectRefused, reports, pipeline, history
<1>7. CASE Connected
  BY <1>0, <1>7 DEF Connected, others, reports, history
<1>8. CASE Close
  <2>1. writing' = <<>> /\ <<>> \in Seq(Numbers) /\ Len(<<>>) = 0
    BY <1>8 DEF Close, CloseSession
  <2> QED
    BY <1>0, <1>8, <2>1
       DEF Close, CloseSession, Breaks, Fault, OnConnectFailure5, others, history
<1>15. CASE TakeDisconnect
  <2>0. connected' \in {0, -1}
    BY <1>15 DEF TakeDisconnect, OnConnectFailure5
  <2>1. CASE link = "idle"
    BY <1>0, <1>15, <2>0, <2>1 DEF TakeDisconnect, others, pipeline, history
  <2>2. CASE link # "idle"
    <3>1. writing' = <<>> /\ <<>> \in Seq(Numbers) /\ Len(<<>>) = 0
      BY <1>15, <2>2 DEF TakeDisconnect, CloseSession
    <3> QED
      BY <1>0, <1>15, <2>0, <2>2, <3>1
         DEF TakeDisconnect, CloseSession, others, history
  <2> QED
    BY <2>1, <2>2
<1>16. CASE WriteFails
  <2>1. writing' = <<>> /\ <<>> \in Seq(Numbers) /\ Len(<<>>) = 0
    BY <1>16 DEF WriteFails
  <2> QED
    BY <1>0, <1>16, <2>1 DEF WriteFails, Fault, others, history
<1>9. CASE SendPublish
  <2>1. Head(buffer) \in Numbers
    BY <1>9, Queue DEF SendPublish, Sendable
  <2>2. buffer' \in Seq(Numbers) /\ Len(buffer') <= MaxBuffered
    BY <1>9, <2>1, Queue DEF SendPublish, Sendable
  <2>3. /\ socket' \in Seq(Numbers) /\ Len(socket') <= SocketSize
        /\ writing' \in Seq(Numbers) /\ Len(writing') <= 1
        /\ published' \in {0, 1, -1}
    <3>1. CASE Len(socket) < SocketSize
      <4>1. /\ Append(socket, Head(buffer)) \in Seq(Numbers)
            /\ Len(Append(socket, Head(buffer))) = Len(socket) + 1
        BY <2>1
      <4>2. /\ socket' = Append(socket, Head(buffer)) /\ published' = 1
            /\ writing' = writing
        BY <1>9, <3>1 DEF SendPublish
      <4> QED
        BY <3>1, <4>1, <4>2
    <3>2. CASE ~(Len(socket) < SocketSize)
      <4>1. <<Head(buffer)>> \in Seq(Numbers) /\ Len(<<Head(buffer)>>) = 1
        BY <2>1
      <4>2. /\ writing' = <<Head(buffer)>>
            /\ socket' = socket /\ published' = published
        BY <1>9, <3>2 DEF SendPublish
      <4> QED
        BY <4>1, <4>2
    <3> QED
      BY <3>1, <3>2
  <2> QED
    BY <1>0, <1>9, <2>2, <2>3 DEF SendPublish, others, history
<1>10. CASE SendPublishFails
  BY <1>0, <1>10 DEF SendPublishFails, Sendable, Breaks, Fault, others, history
<1>11. CASE WriteComplete
  <2>1. Head(writing) \in Numbers
    BY <1>11 DEF WriteComplete
  <2> QED
    BY <1>0, <1>11, <2>1, Queue DEF WriteComplete, others, history
<1>12. CASE Deliver
  <2>1. Head(socket) \in Numbers
    BY <1>12 DEF Deliver
  <2> QED
    BY <1>0, <1>12, <2>1, Queue DEF Deliver, others, reports
<1>13. CASE UNCHANGED vars
  BY <1>0, <1>13 DEF vars, others, reports, pipeline, history
<1> QED
  BY <1>1, <1>2, <1>3, <1>4, <1>5, <1>6, <1>7, <1>8, <1>9, <1>10, <1>11,
     <1>12, <1>13, <1>14, <1>15, <1>16 DEF Next, Main, SendThread, ReceiveThread

(* The types in every state of the program.                                 *)
LEMMA TypeInvariant == Spec => []TypeInv
  BY TypeInvInit, TypeInvStep, PTL DEF Spec

(* The variables keep their types: in particular the buffer never exceeds   *)
(* maxBufferedMessages, and at most one packet is half written.             *)
THEOREM TypeCorrect == Spec => []TypeOK
<1>1. TypeInv => TypeOK
  BY DEF TypeInv
<1> QED
  BY <1>1, TypeInvariant, PTL

-----------------------------------------------------------------------------
(* The commands the program has committed itself to.                        *)
Committed == Len(buffer) + Len(writing) + Len(socket)
               + (IF pc = "send" THEN 1 ELSE 0)

(* While the switch is off nothing is added to what is committed, so what   *)
(* has been executed and what is committed stay together below the bound.   *)
LateInv == IF Teasing_sw = 1
             THEN late = 0
             ELSE late + Committed <= MaxBuffered + SocketSize + 2

(* Every step keeps the sum of late and committed commands bounded.         *)
LEMMA LateStep == TypeInv /\ TypeInv' /\ LateInv /\ [Next]_vars => LateInv'
<1> SUFFICES ASSUME TypeInv, TypeInv', LateInv, [Next]_vars PROVE LateInv'
  OBVIOUS
<1>1. /\ Len(buffer) \in Nat /\ Len(writing) \in Nat /\ Len(socket) \in Nat
      /\ late \in Nat /\ MaxBuffered \in Nat /\ SocketSize \in Nat
      /\ Teasing_sw \in {0, 1}
      /\ Len(buffer) <= MaxBuffered /\ Len(writing) <= 1
      /\ Len(socket) <= SocketSize
  BY LinkAssumption, SMTT(30) DEF TypeInv, TypeOK
<1>2. /\ Len(buffer)' \in Nat /\ Len(writing)' \in Nat /\ Len(socket)' \in Nat
      /\ late' \in Nat /\ Teasing_sw' \in {0, 1}
  BY SMTT(30) DEF TypeInv, TypeOK
<1>3. Committed' <= Committed /\ late' = late /\ Teasing_sw' = Teasing_sw => LateInv'
  BY <1>1, <1>2 DEF LateInv, Committed
<1>4. CASE Mqtt_init
  BY <1>4, <1>3, <1>1 DEF Mqtt_init, Committed, pipeline, history
<1>5. CASE Decide
  BY <1>5, <1>1 DEF Decide, LateInv, history
<1>6. CASE Mqtt_guard_ps_set
  <2>1. Len(buffer)' <= Len(buffer) + 1
    <3>1. CASE Accepts
      BY <1>6, <3>1 DEF Mqtt_guard_ps_set, TypeInv, TypeOK
    <3>2. CASE ~Accepts
      BY <1>6, <1>1, <3>2 DEF Mqtt_guard_ps_set
    <3> QED
      BY <3>1, <3>2
  <2>2. Committed' <= Committed
    BY <1>6, <1>1, <1>2, <2>1 DEF Mqtt_guard_ps_set, Committed
  <2> QED
    BY <1>6, <1>3, <2>2 DEF Mqtt_guard_ps_set
<1>7. CASE Switch
  <2>1. /\ Committed' = Committed /\ late' = 0
        /\ Committed <= MaxBuffered + SocketSize + 2 /\ Committed \in Nat
    BY <1>7, <1>1 DEF Switch, Committed, pipeline
  <2> QED
    BY <1>1, <2>1 DEF LateInv
<1>8. CASE TakeConnect \/ Reconnect \/ ConnectRefused \/ ConnectFails
  BY <1>8, <1>3, <1>1, SMTT(30) DEF TakeConnect, Reconnect, ConnectRefused,
     ConnectFails, Committed, others, pipeline, history
<1>9. CASE Connected
  BY <1>9, <1>3, <1>1 DEF Connected, Committed, others, history
<1>10. CASE Close \/ TakeDisconnect \/ WriteFails
  BY <1>10, <1>3, <1>1, SMTT(30)
     DEF Close, TakeDisconnect, WriteFails, CloseSession,
     Committed, others, pipeline, history
<1>11. CASE SendPublish
  <2>1. Len(buffer)' = Len(buffer) - 1
    BY <1>11 DEF SendPublish, Sendable, TypeInv, TypeOK
  <2>2. Len(writing)' + Len(socket)' <= Len(writing) + Len(socket) + 1
    <3>1. CASE Len(socket) < SocketSize
      BY <1>11, <1>1, <3>1 DEF SendPublish, TypeInv, TypeOK
    <3>2. CASE ~(Len(socket) < SocketSize)
      BY <1>11, <1>1, <3>2 DEF SendPublish, TypeInv, TypeOK
    <3> QED
      BY <3>1, <3>2
  <2>3. Committed' <= Committed
    BY <1>11, <1>1, <1>2, <2>1, <2>2, SMTT(30)
       DEF SendPublish, Committed, others
  <2> QED
    BY <1>11, <1>3, <2>3 DEF SendPublish, others, history
<1>12. CASE SendPublishFails
  <2>1. Len(buffer)' = Len(buffer) - 1
    BY <1>12 DEF SendPublishFails, Sendable, TypeInv, TypeOK
  <2> QED
    BY <1>12, <1>3, <1>1, <2>1 DEF SendPublishFails, Committed, others, history
<1>13. CASE WriteComplete
  <2>1. /\ Len(writing)' = 0 /\ Len(writing) >= 1
        /\ Len(socket)' = Len(socket) + 1
    BY <1>13 DEF WriteComplete, TypeInv, TypeOK
  <2>2. Committed' <= Committed
    BY <1>13, <1>1, <1>2, <2>1 DEF WriteComplete, Committed, others
  <2> QED
    BY <1>13, <1>3, <2>2 DEF WriteComplete, others, history
<1>14. CASE Deliver
  <2>1. Len(socket)' = Len(socket) - 1
    BY <1>14 DEF Deliver, TypeInv, TypeOK
  <2>2. Committed' = Committed - 1
    BY <1>14, <1>1, <1>2, <2>1 DEF Deliver, Committed, others
  <2>3. Committed \in Nat
    BY <1>1 DEF Committed
  <2> QED
    BY <1>14, <1>1, <2>2, <2>3 DEF Deliver, LateInv, others
<1>15. CASE UNCHANGED vars
  BY <1>15, <1>3, <1>1 DEF vars, Committed, pipeline, history
<1> QED
  BY <1>4, <1>5, <1>6, <1>7, <1>8, <1>9, <1>10, <1>11, <1>12, <1>13, <1>14,
     <1>15 DEF Next, Main, SendThread, ReceiveThread

(* However long the link was down, turning the switch off leaves the turret *)
(* at most the commands that the library's buffer, the socket, the packet   *)
(* being written and draw_result's last decision can hold.                  *)
THEOREM LateCommands == Spec => []LateIsBounded
<1>1. Init => LateInv
  BY DEF Init, LateInv
<1>2. TypeInv /\ LateInv => LateIsBounded
  <2> SUFFICES ASSUME TypeInv, LateInv PROVE LateIsBounded
    OBVIOUS
  <2>1. /\ Committed \in Nat /\ late \in Nat
        /\ MaxBuffered \in Nat /\ SocketSize \in Nat /\ Teasing_sw \in {0, 1}
    BY LinkAssumption DEF TypeInv, TypeOK, Committed
  <2> QED
    BY <2>1 DEF LateInv, LateIsBounded
<1> QED
  BY <1>1, <1>2, TypeInvariant, LateStep, PTL DEF Spec

-----------------------------------------------------------------------------
(* shouldBeConnected is clear only before the connection is begun and while *)
(* an attempt is failing, and a number is accepted at most once.            *)
AttemptInv ==
  /\ client = "null" => NeverBegun
  /\ ~should => NeverBegun \/ (link = "idle" /\ conn # "none")
  /\ \A c \in accepted : c < next

(* Every step keeps shouldBeConnected in line with the connection.          *)
LEMMA AttemptStep == TypeInv /\ AttemptInv /\ [Next]_vars => AttemptInv'
<1> SUFFICES ASSUME TypeInv, AttemptInv, [Next]_vars PROVE AttemptInv'
  OBVIOUS
<1> USE DEF AttemptInv, NeverBegun
<1>0. next \in Nat /\ accepted \subseteq Numbers
  BY LinkAssumption DEF TypeInv, TypeOK
<1>1. CASE Mqtt_init
  BY <1>1 DEF Mqtt_init, QueueConnect, connection, history
<1>2. CASE Mqtt_guard_ps_set
  <2>1. UNCHANGED <<client, should, link, conn, retrying>>
    BY <1>2 DEF Mqtt_guard_ps_set, connection
  <2>2. next' = next + 1 /\ accepted' \subseteq accepted \cup {next}
    BY <1>2 DEF Mqtt_guard_ps_set
  <2>3. \A c \in accepted : c \in Nat
    BY <1>0 DEF Numbers
  <2>4. \A c \in accepted' : c < next'
    BY <1>0, <2>2, <2>3
  <2> QED
    BY <2>1, <2>4
<1>3. CASE Decide \/ Switch
  BY <1>3 DEF Decide, Switch, connection, history
<1>4. CASE TakeConnect
  BY <1>4 DEF TakeConnect, StartConnect, others, history
<1>5. CASE ConnectRefused \/ ConnectFails
  BY <1>5 DEF ConnectRefused, ConnectFails, ConnectError, connection, history
<1>6. CASE Reconnect
  BY <1>6 DEF Reconnect, QueueReconnect, others, history
<1>7. CASE Connected \/ Close
  BY <1>7 DEF Connected, Connack, Close, NextOrClose, others, history
<1>8. CASE TakeDisconnect
  BY <1>8 DEF TakeDisconnect, Disconnect, others, history
<1>9. CASE SendPublish \/ WriteComplete \/ Deliver
  BY <1>9 DEF SendPublish, WriteComplete, Deliver, connection, others, history
<1>10. CASE SendPublishFails \/ WriteFails
  BY <1>10 DEF SendPublishFails, DisconnectInternal, WriteFails, others, history
<1>11. CASE UNCHANGED vars
  BY <1>11 DEF vars, connection, history
<1> QED
  BY <1>1, <1>2, <1>3, <1>4, <1>5, <1>6, <1>7, <1>8, <1>9, <1>10, <1>11
     DEF Next, Main, SendThread, ReceiveThread

(* While the link is merely down commands are buffered: one is refused only *)
(* when the buffer is full, before the connection is begun, or while the    *)
(* send thread gives up an attempt to connect.                              *)
THEOREM RefusedForAReason == Spec => AcceptedWhileDown
<1> DEFINE Reason == Len(buffer) = MaxBuffered \/ NeverBegun \/ GivingUp
           Refused == next' # next /\ accepted' = accepted => Reason
<1>1. Init => AttemptInv
  BY DEF Init, Unconnected, AttemptInv, NeverBegun
<1>2. TypeInv /\ AttemptInv /\ [Next]_vars => [Refused]_vars
  <2> SUFFICES ASSUME TypeInv, AttemptInv, [Next]_vars,
                      next' # next, accepted' = accepted
               PROVE  Reason
    OBVIOUS
  <2>1. Mqtt_guard_ps_set
    BY DEF Next, Main, SendThread, ReceiveThread, Mqtt_init, Decide, Switch,
           TakeConnect, ConnectRefused, ConnectFails, Reconnect, Connected,
           Close, TakeDisconnect, SendPublish, SendPublishFails,
           WriteComplete, WriteFails, Deliver, others, vars
  <2>2. ~Accepts
    <3>1. next \notin accepted
      BY LinkAssumption DEF AttemptInv, TypeInv, TypeOK
    <3> QED
      BY <2>1, <3>1 DEF Mqtt_guard_ps_set
  <2>3. CASE ~(Len(buffer) < MaxBuffered)
    BY <2>3, LinkAssumption DEF TypeInv, TypeOK
  <2>4. CASE client # "made" \/ (link # "up" /\ ~should)
    BY <2>4 DEF AttemptInv, TypeInv, TypeOK, GivingUp
  <2> QED
    BY <2>2, <2>3, <2>4 DEF Accepts
<1> QED
  BY <1>1, <1>2, TypeInvariant, AttemptStep, PTL DEF Spec, AcceptedWhileDown

-----------------------------------------------------------------------------
(* The commands in a queue, as a set and by their order.                    *)
Elements(s) == {s[i] : i \in 1..Len(s)}
Increasing(s) == \A i, j \in 1..Len(s) : i < j => s[i] < s[j]
Before(S, T) == \A x \in S, y \in T : x < y

(* Where a command goes when the head of a queue is taken or one is added.  *)
LEMMA QueueElements ==
  ASSUME NEW q \in Seq(Numbers), NEW e \in Numbers
  PROVE  /\ Elements(q) \subseteq Numbers
         /\ Elements(<<>>) = {} /\ Elements(<<e>>) = {e}
         /\ Elements(Append(q, e)) = Elements(q) \cup {e}
         /\ q # <<>> => Elements(q) = {Head(q)} \cup Elements(Tail(q))
         /\ q # <<>> /\ Len(q) <= 1 => Elements(q) = {Head(q)}
<1> USE DEF Elements
<1>1. Elements(q) \subseteq Numbers /\ Elements(<<>>) = {} /\ Elements(<<e>>) = {e}
  OBVIOUS
<1>2. Elements(Append(q, e)) = Elements(q) \cup {e}
  <2>1. /\ Len(Append(q, e)) = Len(q) + 1 /\ Len(q) \in Nat
        /\ \A i \in 1..Len(q) : Append(q, e)[i] = q[i]
        /\ Append(q, e)[Len(q) + 1] = e
    BY AppendProperties
  <2>2. 1..(Len(q) + 1) = (1..Len(q)) \cup {Len(q) + 1}
    BY <2>1
  <2> QED
    BY <2>1, <2>2
<1>3. ASSUME q # <<>> PROVE Elements(q) = {Head(q)} \cup Elements(Tail(q))
  <2>1. /\ Len(Tail(q)) = Len(q) - 1 /\ Len(q) \in Nat \ {0} /\ Head(q) = q[1]
        /\ \A i \in 1..Len(Tail(q)) : Tail(q)[i] = q[i + 1]
    BY <1>3, HeadTailProperties, EmptySeq
  <2>2. \A x \in Elements(q) : x = Head(q) \/ x \in Elements(Tail(q))
    <3> SUFFICES ASSUME NEW i \in 1..Len(q), i # 1
                 PROVE  q[i] \in Elements(Tail(q))
      BY <2>1
    <3>1. i - 1 \in 1..Len(Tail(q)) /\ (i - 1) + 1 = i
      BY <2>1
    <3>2. Tail(q)[i - 1] = q[i]
      BY <2>1, <3>1
    <3> QED
      BY <3>1, <3>2
  <2>3. \A x \in Elements(Tail(q)) : x \in Elements(q)
    BY <2>1
  <2>4. Head(q) \in Elements(q)
    BY <2>1
  <2> QED
    BY <2>2, <2>3, <2>4
<1>4. q # <<>> /\ Len(q) <= 1 => Elements(q) = {Head(q)}
  OBVIOUS
<1> QED
  BY <1>1, <1>2, <1>3, <1>4

(* An increasing queue stays increasing when its head leaves or a later     *)
(* command is added.                                                        *)
LEMMA QueueOrder ==
  ASSUME NEW q \in Seq(Numbers), NEW e \in Numbers, Increasing(q)
  PROVE  /\ Before(Elements(q), {e}) => Increasing(Append(q, e))
         /\ q # <<>> => /\ Increasing(Tail(q))
                        /\ Before({Head(q)}, Elements(Tail(q)))
<1>1. ASSUME Before(Elements(q), {e}) PROVE Increasing(Append(q, e))
  <2>1. \A i \in 1..Len(q) : q[i] < e
    BY <1>1 DEF Before, Elements
  <2> QED
    BY <2>1, AppendProperties DEF Increasing
<1>2. ASSUME q # <<>>
      PROVE  Increasing(Tail(q)) /\ Before({Head(q)}, Elements(Tail(q)))
  <2>1. /\ Len(Tail(q)) = Len(q) - 1 /\ Len(q) \in Nat \ {0} /\ Head(q) = q[1]
        /\ \A i \in 1..Len(Tail(q)) : Tail(q)[i] = q[i + 1]
    BY <1>2, HeadTailProperties, EmptySeq
  <2> QED
    BY <2>1 DEF Increasing, Before, Elements
<1> QED
  BY <1>1, <1>2

(* All commands stand in the order of their decisions: those the turret has *)
(* got, those in the socket, the one being written, those in the buffer,    *)
(* and the next one.                                                        *)
OrderInv ==
  /\ Increasing(executed) /\ Increasing(socket) /\ Increasing(buffer)
  /\ Before(Elements(executed),
            Elements(socket) \cup Elements(writing) \cup Elements(buffer))
  /\ Before(Elements(socket), Elements(writing) \cup Elements(buffer))
  /\ Before(Elements(writing), Elements(buffer))
  /\ Before(Elements(executed) \cup Elements(socket) \cup Elements(writing)
              \cup Elements(buffer), {next})

(* Every step keeps the commands in order; some steps lose one.             *)
LEMMA OrderStep == TypeInv /\ OrderInv /\ [Next]_vars => OrderInv'
<1> SUFFICES ASSUME TypeInv, OrderInv, [Next]_vars PROVE OrderInv'
  OBVIOUS
<1> USE DEF OrderInv
<1>0. /\ executed \in Seq(Numbers) /\ socket \in Seq(Numbers)
      /\ writing \in Seq(Numbers) /\ buffer \in Seq(Numbers)
      /\ Len(writing) <= 1 /\ next \in Nat /\ Numbers \subseteq Nat
  BY LinkAssumption DEF TypeInv, TypeOK, Numbers
<1>1. Elements(<<>>) = {} /\ Increasing(<<>>)
  BY DEF Elements, Increasing
<1>9. \A x \in Elements(executed) \cup Elements(socket) \cup Elements(writing)
               \cup Elements(buffer) : x \in Nat
  <2>1. \A q \in Seq(Numbers) : \A i \in 1..Len(q) : q[i] \in Nat
    BY <1>0, ElementOfSeq
  <2> QED
    BY <1>0, <2>1 DEF Elements
<1>2. CASE Mqtt_guard_ps_set
  <2>0. UNCHANGED <<executed, socket, writing>> /\ next' = next + 1
    BY <1>2 DEF Mqtt_guard_ps_set
  <2>1. CASE Accepts
    <3>1. buffer' = Append(buffer, next) /\ next \in Numbers
      BY <1>2, <2>1 DEF Mqtt_guard_ps_set, TypeInv, TypeOK, Numbered, Numbers
    <3>2. Elements(buffer') = Elements(buffer) \cup {next}
      BY <1>0, <3>1, QueueElements
    <3>3. Increasing(buffer')
      BY <1>0, <3>1, QueueOrder DEF Before
    <3> QED
      BY <1>0, <1>9, <2>0, <3>2, <3>3 DEF Before
  <2>2. CASE ~Accepts
    <3>1. buffer' = buffer
      BY <1>2, <2>2 DEF Mqtt_guard_ps_set
    <3> QED
      BY <1>0, <1>9, <2>0, <3>1 DEF Before
  <2> QED
    BY <2>1, <2>2
<1>3. CASE Connected
  <2>1. socket' = <<>> /\ UNCHANGED <<executed, writing, buffer, next>>
    BY <1>3 DEF Connected, others, history
  <2> QED
    BY <1>1, <2>1 DEF Before
<1>4. CASE Close \/ TakeDisconnect \/ WriteFails
  <2>1. /\ UNCHANGED <<executed, socket, buffer, next>>
        /\ writing' = <<>> \/ writing' = writing
    BY <1>4 DEF Close, TakeDisconnect, WriteFails, CloseSession, others,
       history, pipeline
  <2> QED
    BY <1>1, <2>1 DEF Before
<1>5. CASE SendPublish \/ SendPublishFails
  <2>1. /\ buffer # <<>> /\ writing = <<>> /\ buffer' = Tail(buffer)
        /\ UNCHANGED <<executed, next>>
    BY <1>5 DEF SendPublish, SendPublishFails, Sendable, others, history
  <2>0. Head(buffer) \in Numbers
    BY <1>0, <2>1, HeadTailProperties
  <2>2. Elements(buffer) = {Head(buffer)} \cup Elements(buffer')
    BY <1>0, <2>0, <2>1, QueueElements
  <2>3. Increasing(buffer') /\ Before({Head(buffer)}, Elements(buffer'))
    BY <1>0, <2>0, <2>1, <2>2, QueueOrder
  <2>4. CASE SendPublishFails
    <3>1. UNCHANGED <<socket, writing>>
      BY <2>4 DEF SendPublishFails
    <3> QED
      BY <2>1, <2>2, <2>3, <3>1 DEF Before
  <2>5. CASE SendPublish /\ Len(socket) < SocketSize
    <3>1. socket' = Append(socket, Head(buffer)) /\ writing' = writing
      BY <2>5 DEF SendPublish
    <3>2. Elements(socket') = Elements(socket) \cup {Head(buffer)}
      BY <1>0, <2>0, <2>2, <3>1, QueueElements
    <3>3. Increasing(socket')
      BY <1>0, <2>0, <2>2, <3>1, QueueOrder DEF Before
    <3> QED
      BY <1>1, <2>1, <2>2, <2>3, <3>1, <3>2, <3>3 DEF Before
  <2>6. CASE SendPublish /\ ~(Len(socket) < SocketSize)
    <3>1. writing' = <<Head(buffer)>> /\ socket' = socket
      BY <2>6 DEF SendPublish
    <3>2. Elements(writing') = {Head(buffer)}
      BY <1>0, <2>0, <2>2, <3>1, QueueElements
    <3> QED
      BY <2>1, <2>2, <2>3, <3>1, <3>2 DEF Before
  <2> QED
    BY <1>5, <2>4, <2>5, <2>6
<1>6. CASE WriteComplete
  <2>1. /\ writing # <<>> /\ socket' = Append(socket, Head(writing))
        /\ writing' = <<>> /\ UNCHANGED <<executed, buffer, next>>
    BY <1>6 DEF WriteComplete, others, history
  <2>0. Head(writing) \in Numbers
    BY <1>0, <2>1, HeadTailProperties
  <2>2. Elements(writing) = {Head(writing)}
    BY <1>0, <2>0, <2>1, QueueElements
  <2>3. Elements(socket') = Elements(socket) \cup {Head(writing)}
    BY <1>0, <2>0, <2>1, <2>2, QueueElements
  <2>4. Increasing(socket')
    BY <1>0, <2>0, <2>1, <2>2, QueueOrder DEF Before
  <2> QED
    BY <1>1, <2>1, <2>2, <2>3, <2>4 DEF Before
<1>7. CASE Deliver
  <2>1. /\ socket # <<>> /\ socket' = Tail(socket)
        /\ executed' = Append(executed, Head(socket))
        /\ UNCHANGED <<writing, buffer, next>>
    BY <1>7 DEF Deliver, others
  <2>0. Head(socket) \in Numbers
    BY <1>0, <2>1, HeadTailProperties
  <2>2. Elements(socket) = {Head(socket)} \cup Elements(socket')
    BY <1>0, <2>0, <2>1, QueueElements
  <2>3. Increasing(socket') /\ Before({Head(socket)}, Elements(socket'))
    BY <1>0, <2>0, <2>1, <2>2, QueueOrder
  <2>4. Elements(executed') = Elements(executed) \cup {Head(socket)}
    BY <1>0, <2>0, <2>1, <2>2, QueueElements
  <2>5. Increasing(executed')
    BY <1>0, <2>0, <2>1, <2>2, QueueOrder DEF Before
  <2> QED
    BY <2>1, <2>2, <2>3, <2>4, <2>5, SMTT(30) DEF Before
<1>8. CASE UNCHANGED <<pipeline, executed, next>>
  BY <1>8 DEF pipeline
<1> QED
  BY <1>2, <1>3, <1>4, <1>5, <1>6, <1>7, <1>8
     DEF Next, Main, SendThread, ReceiveThread, Mqtt_init, Decide, Switch,
         TakeConnect, ConnectRefused, ConnectFails, Reconnect, others,
         history, vars

(* The turret never gets a command twice, nor one older than a command it   *)
(* has, however often the connection breaks.                                *)
THEOREM InOrder == Spec => []InOrderAtMostOnce
<1>1. Init => OrderInv
  BY DEF Init, OrderInv, Increasing, Before, Elements
<1>2. OrderInv => InOrderAtMostOnce
  BY DEF OrderInv, Increasing, InOrderAtMostOnce
<1> QED
  BY <1>1, <1>2, TypeInvariant, OrderStep, PTL DEF Spec

-----------------------------------------------------------------------------
(* What a step may lose, as sets.                                           *)

(* The commands of a queue are no more than its length.                     *)
LEMMA QueueCardinality ==
  ASSUME NEW q \in Seq(Numbers)
  PROVE  IsFiniteSet(Elements(q)) /\ Cardinality(Elements(q)) <= Len(q)
<1>1. q \in Surjection(1..Len(q), Elements(q))
  BY LenProperties DEF Surjection, Elements
<1>2. /\ IsFiniteSet(1..Len(q)) /\ Cardinality(1..Len(q)) = Len(q)
  <2>1. Len(q) \in Nat
    OBVIOUS
  <2> QED
    BY <2>1, FS_Interval, SMTT(30)
<1> QED
  BY <1>1, <1>2, FS_Surjection

(* Losing more commands costs at most as many as are lost.                  *)
LEMMA LostMore ==
  ASSUME NEW S \in SUBSET Numbers, NEW T \in SUBSET Numbers,
         NEW q \in Seq(Numbers), T \subseteq S \cup Elements(q)
  PROVE  /\ Cardinality(S) \in Nat /\ Cardinality(T) \in Nat
         /\ Cardinality(T) <= Cardinality(S) + Len(q)
<1>1. IsFiniteSet(Numbers)
  BY LinkAssumption, FS_Interval DEF Numbers
<1>2. IsFiniteSet(S) /\ IsFiniteSet(T)
  BY <1>1, FS_Subset
<1>3. IsFiniteSet(Elements(q)) /\ Cardinality(Elements(q)) <= Len(q)
  BY QueueCardinality
<1>4. IsFiniteSet(S \cap Elements(q))
  BY <1>2, FS_Intersection
<1>5. /\ Cardinality(S) \in Nat /\ Cardinality(T) \in Nat
      /\ Cardinality(Elements(q)) \in Nat
      /\ Cardinality(S \cap Elements(q)) \in Nat
  BY <1>2, <1>3, <1>4, FS_CardinalityType
<1>6. /\ IsFiniteSet(S \cup Elements(q))
      /\ Cardinality(S \cup Elements(q)) = Cardinality(S)
           + Cardinality(Elements(q)) - Cardinality(S \cap Elements(q))
  BY <1>2, <1>3, FS_Union
<1>7. Cardinality(T) <= Cardinality(S \cup Elements(q))
  BY <1>6, FS_Subset
<1>8. Len(q) \in Nat
  OBVIOUS
<1> QED
  BY <1>3, <1>5, <1>6, <1>7, <1>8

(* What a fault that has been counted may still cost: the packets that were *)
(* in the socket, and one command more when the send thread has not seen    *)
(* yet that the socket is broken.                                           *)
Debt ==
  IF link = "up" /\ ending = {} THEN 0
  ELSE Len(socket)
         + (IF "error" \in ending /\ "disconnect" \notin ending THEN 1 ELSE 0)

(* A packet is half written on a sound connection only, and what is lost    *)
(* and what may still be lost have been paid for.                           *)
LossInv ==
  /\ link # "up" => "error" \notin ending
  /\ writing # <<>> => link = "up" /\ ending = {}
  /\ Cardinality(Lost) + Debt <= faults * (SocketSize + 2)

(* What each step may lose: the packets of the old session, the packet that *)
(* is half written, the command that cannot be sent.                        *)
LEMMA LostStep ==
  ASSUME TypeInv, [Next]_vars
  PROVE  /\ Connected => Lost' \subseteq Lost \cup Elements(socket)
         /\ Close \/ TakeDisconnect \/ WriteFails
              => Lost' \subseteq Lost \cup Elements(writing)
         /\ SendPublishFails => Lost' \subseteq Lost \cup {Head(buffer)}
         /\ ~(Connected \/ Close \/ TakeDisconnect \/ WriteFails \/ SendPublishFails)
              => Lost' \subseteq Lost
<1> DEFINE Held == Elements(buffer) \cup Elements(writing) \cup Elements(socket)
                     \cup Elements(executed)
<1>0. /\ executed \in Seq(Numbers) /\ socket \in Seq(Numbers)
      /\ writing \in Seq(Numbers) /\ buffer \in Seq(Numbers)
      /\ Len(writing) <= 1 /\ Numbers \subseteq Nat
  BY DEF TypeInv, TypeOK, Numbers
<1>1. Lost = accepted \ Held /\ Elements(<<>>) = {}
  BY DEF Lost, OnTheWay, Elements
<1>2. Lost' = accepted' \ Held'
  BY DEF Lost, OnTheWay, Elements
<1> HIDE DEF Held
<1>3. \A S : accepted' = accepted /\ Held \subseteq Held' \cup S
               => Lost' \subseteq Lost \cup S
  BY <1>1, <1>2
<1> USE DEF Held
<1>4. Connected => Lost' \subseteq Lost \cup Elements(socket)
  <2> SUFFICES ASSUME Connected PROVE Lost' \subseteq Lost \cup Elements(socket)
    OBVIOUS
  <2>1. UNCHANGED <<buffer, writing, executed, accepted>>
    BY DEF Connected, history
  <2>2. Held \subseteq Held' \cup Elements(socket)
    BY <2>1
  <2> QED
    BY <1>3, <2>1, <2>2
<1>5. Close \/ TakeDisconnect \/ WriteFails
        => Lost' \subseteq Lost \cup Elements(writing)
  <2> SUFFICES ASSUME Close \/ TakeDisconnect \/ WriteFails
               PROVE  Lost' \subseteq Lost \cup Elements(writing)
    OBVIOUS
  <2>1. UNCHANGED <<buffer, socket, executed, accepted>>
    BY DEF Close, TakeDisconnect, WriteFails, CloseSession, history, pipeline
  <2>2. Held \subseteq Held' \cup Elements(writing)
    BY <2>1
  <2> QED
    BY <1>3, <2>1, <2>2
<1>6. SendPublish \/ SendPublishFails =>
        /\ accepted' = accepted
        /\ Elements(buffer) \subseteq Elements(buffer') \cup {Head(buffer)}
        /\ Elements(writing) = {} /\ Elements(executed') = Elements(executed)
        /\ Head(buffer) \in Numbers
  <2> SUFFICES ASSUME SendPublish \/ SendPublishFails
               PROVE  /\ accepted' = accepted
                      /\ Elements(buffer) \subseteq Elements(buffer') \cup {Head(buffer)}
                      /\ Elements(writing) = {} /\ Elements(executed') = Elements(executed)
                      /\ Head(buffer) \in Numbers
    OBVIOUS
  <2>1. /\ buffer # <<>> /\ writing = <<>> /\ buffer' = Tail(buffer)
        /\ UNCHANGED <<executed, accepted>>
    BY DEF SendPublish, SendPublishFails, Sendable, history
  <2>2. Head(buffer) \in Numbers
    BY <1>0, <2>1, HeadTailProperties
  <2> QED
    BY <1>0, <1>1, <2>1, <2>2, QueueElements
<1>7. SendPublishFails => Lost' \subseteq Lost \cup {Head(buffer)}
  <2> SUFFICES ASSUME SendPublishFails PROVE Lost' \subseteq Lost \cup {Head(buffer)}
    OBVIOUS
  <2>1. UNCHANGED <<writing, socket>>
    BY DEF SendPublishFails
  <2>2. Held \subseteq Held' \cup {Head(buffer)}
    BY <1>6, <2>1
  <2> QED
    BY <1>3, <1>6, <2>2
<1>8. ASSUME ~(Connected \/ Close \/ TakeDisconnect \/ WriteFails \/ SendPublishFails)
      PROVE  Lost' \subseteq Lost
  <2>1. CASE SendPublish
    <3>0. Head(buffer) \in Numbers
      BY <1>6, <2>1
    <3>1. /\ {Head(buffer)} \subseteq Elements(socket') \cup Elements(writing')
          /\ Elements(socket) \subseteq Elements(socket')
      <4>1. CASE Len(socket) < SocketSize
        <5>1. socket' = Append(socket, Head(buffer))
          BY <2>1, <4>1 DEF SendPublish
        <5>2. Elements(socket') = Elements(socket) \cup {Head(buffer)}
          BY <1>0, <3>0, <5>1, QueueElements
        <5> QED
          BY <5>2
      <4>2. CASE ~(Len(socket) < SocketSize)
        <5>1. socket' = socket /\ writing' = <<Head(buffer)>>
          BY <2>1, <4>2 DEF SendPublish
        <5> QED
          BY <1>0, <3>0, <5>1, QueueElements
      <4> QED
        BY <4>1, <4>2
    <3>3. Held \subseteq Held'
      BY <1>6, <2>1, <3>1
    <3> QED
      BY <1>3, <1>6, <2>1, <3>3
  <2>2. CASE WriteComplete
    <3>1. /\ writing # <<>> /\ socket' = Append(socket, Head(writing))
          /\ UNCHANGED <<executed, buffer, accepted>>
      BY <2>2 DEF WriteComplete, history
    <3>2. Head(writing) \in Numbers
      BY <1>0, <3>1, HeadTailProperties
    <3>3. Elements(writing) = {Head(writing)}
      BY <1>0, <3>1, <3>2, QueueElements
    <3>4. Elements(socket') = Elements(socket) \cup {Head(writing)}
      BY <1>0, <3>1, <3>2, QueueElements
    <3>5. Held \subseteq Held'
      BY <3>1, <3>3, <3>4
    <3> QED
      BY <1>3, <3>1, <3>5
  <2>3. CASE Deliver
    <3>1. /\ socket # <<>> /\ socket' = Tail(socket)
          /\ executed' = Append(executed, Head(socket))
          /\ UNCHANGED <<buffer, writing, accepted>>
      BY <2>3 DEF Deliver
    <3>2. Head(socket) \in Numbers
      BY <1>0, <3>1, HeadTailProperties
    <3>3. /\ Elements(socket) = {Head(socket)} \cup Elements(socket')
          /\ Elements(executed') = Elements(executed) \cup {Head(socket)}
      BY <1>0, <3>1, <3>2, QueueElements
    <3>4. Held \subseteq Held'
      BY <3>1, <3>3
    <3> QED
      BY <1>3, <3>1, <3>4
  <2>4. CASE Mqtt_guard_ps_set
    <3>1. UNCHANGED <<writing, socket, executed>>
      BY <2>4 DEF Mqtt_guard_ps_set
    <3>2. CASE Accepts
      <4>1. /\ buffer' = Append(buffer, next) /\ accepted' = accepted \cup {next}
            /\ next \in Numbers
        BY <2>4, <3>2
           DEF Mqtt_guard_ps_set, TypeInv, TypeOK, Numbered, Numbers
      <4>2. Elements(buffer') = Elements(buffer) \cup {next}
        BY <1>0, <4>1, QueueElements
      <4>3. Held' = Held \cup {next}
        BY <3>1, <4>2
      <4> HIDE DEF Held
      <4> QED
        BY <1>1, <1>2, <4>1, <4>3
    <3>3. CASE ~Accepts
      <4>1. UNCHANGED <<buffer, accepted>>
        BY <2>4, <3>3 DEF Mqtt_guard_ps_set
      <4> QED
        BY <1>3, <3>1, <4>1
    <3> QED
      BY <3>2, <3>3
  <2>5. CASE UNCHANGED <<pipeline, executed, accepted>>
    <3>1. Held' = Held
      BY <2>5 DEF pipeline
    <3> QED
      BY <1>3, <2>5, <3>1
  <2> QED
    BY <1>8, <2>1, <2>2, <2>3, <2>4, <2>5
       DEF Next, Main, SendThread, ReceiveThread, Mqtt_init, Decide, Switch,
           TakeConnect, ConnectRefused, ConnectFails, Reconnect, history, vars
<1> QED
  BY <1>4, <1>5, <1>7, <1>8

(* What a step adds to the commands lost and to the debt it takes from the  *)
(* debt, or it has a fault to pay for it.                                   *)
LEMMA LossStep == TypeInv /\ LossInv /\ [Next]_vars => LossInv'
<1> SUFFICES ASSUME TypeInv, LossInv, [Next]_vars PROVE LossInv'
  OBVIOUS
<1> DEFINE P == Cardinality(Lost)
<1>0. /\ faults \in Nat /\ SocketSize \in Nat
      /\ buffer \in Seq(Numbers) /\ socket \in Seq(Numbers)
      /\ writing \in Seq(Numbers) /\ Len(writing) \in Nat /\ Len(writing) <= 1
      /\ Len(socket) \in Nat /\ Len(socket) <= SocketSize
      /\ ending \subseteq {"disconnect", "error"}
      /\ accepted \subseteq Numbers
  BY LinkAssumption DEF TypeInv, TypeOK, ConnectionTypes
<1>1. TypeInv'
  BY TypeInvStep
<1>2. Lost \in SUBSET Numbers /\ Lost' \in SUBSET Numbers
  BY <1>0, <1>1 DEF Lost, TypeInv, TypeOK
<1>3. P \in Nat /\ P' \in Nat /\ (Lost' \subseteq Lost => P' <= P)
  <2>1. <<>> \in Seq(Numbers) /\ Len(<<>>) = 0 /\ Elements(<<>>) = {}
    BY DEF Elements
  <2>2. Lost \subseteq Lost \cup Elements(<<>>) /\ P \in Nat
    BY <1>2, <2>1, LostMore
  <2>3. P' \in Nat
    <3>1. Lost' \subseteq Lost' \cup Elements(<<>>)
      OBVIOUS
    <3> QED
      BY <1>2, <2>1, <3>1, LostMore
  <2>4. ASSUME Lost' \subseteq Lost PROVE P' <= P
    <3>1. Lost' \subseteq Lost \cup Elements(<<>>)
      BY <2>4
    <3>2. P' <= P + Len(<<>>)
      BY <1>2, <2>1, <3>1, LostMore
    <3> QED
      BY <2>1, <2>2, <2>3, <3>2
  <2> QED
    BY <2>2, <2>3, <2>4
<1>4. \A q \in Seq(Numbers) : Lost' \subseteq Lost \cup Elements(q) => P' <= P + Len(q)
  BY <1>2, LostMore
<1> HIDE DEF P
<1>5. Debt \in Nat /\ Debt <= Len(socket) + 1
  BY <1>0 DEF Debt
<1>6. Debt' \in Nat
  <2>1. socket' \in Seq(Numbers) /\ Len(socket') \in Nat
    BY <1>1 DEF TypeInv, TypeOK
  <2> QED
    BY <2>1 DEF Debt
<1>7. PICK p \in Nat, p1 \in Nat, d \in Nat, d1 \in Nat :
        p = P /\ p1 = P' /\ d = Debt /\ d1 = Debt'
  BY <1>3, <1>5, <1>6
<1>8. p + d <= faults * (SocketSize + 2) /\ d <= SocketSize + 1
  BY <1>0, <1>5, <1>7 DEF LossInv, P
<1> DEFINE Paid == \/ faults' = faults /\ p1 + d1 <= p + d
                   \/ faults' = faults + 1 /\ p1 + d1 <= p + (SocketSize + 2)
           Half == /\ link' # "up" => "error" \notin ending'
                   /\ writing' # <<>> => link' = "up" /\ ending' = {}
<1>9. ASSUME Half, Paid PROVE LossInv'
  <2>1. CASE faults' = faults /\ p1 + d1 <= p + d
    <3>1. p1 + d1 <= faults * (SocketSize + 2)
      BY <1>0, <1>8, <2>1
    <3>2. P' + Debt' <= faults' * (SocketSize + 2)
      BY <1>7, <2>1, <3>1, Zenon
    <3> QED
      BY <1>9, <3>2 DEF LossInv, P
  <2>2. CASE faults' = faults + 1 /\ p1 + d1 <= p + (SocketSize + 2)
    <3>1. (faults + 1) * (SocketSize + 2)
            = faults * (SocketSize + 2) + (SocketSize + 2)
      BY <1>0
    <3>2. p1 + d1 <= (faults + 1) * (SocketSize + 2)
      BY <1>0, <1>8, <2>2, <3>1
    <3>3. P' + Debt' <= faults' * (SocketSize + 2)
      BY <1>7, <2>2, <3>2, Zenon
    <3> QED
      BY <1>9, <3>3 DEF LossInv, P
  <2> QED
    BY <1>9, <2>1, <2>2
<1>10. Lost' \subseteq Lost => p1 <= p
  BY <1>3, <1>7, Zenon
<1>11. \A q \in Seq(Numbers) : Lost' \subseteq Lost \cup Elements(q) => p1 <= p + Len(q)
  BY <1>4, <1>7, Zenon
<1>12. CASE Connected
  <2>1. /\ link = "connecting" /\ link' = "up" /\ socket' = <<>>
        /\ ending' = ending /\ writing' = writing /\ faults' = faults
    BY <1>12 DEF Connected, Connack
  <2>2. "error" \notin ending /\ writing = <<>>
    BY <2>1 DEF LossInv
  <2>3. d = Len(socket) /\ d1 = 0
    BY <1>0, <1>7, <2>1, <2>2 DEF Debt
  <2>4. p1 <= p + Len(socket)
    BY <1>0, <1>11, <1>12, LostStep
  <2>5. Paid
    BY <1>0, <2>1, <2>3, <2>4
  <2> QED
    BY <1>9, <2>1, <2>2, <2>5
<1>13. CASE Close
  <2>1. /\ link # "idle" /\ link' = "idle" /\ ending' = ending \ {"error"}
        /\ writing' = <<>> /\ socket' = socket
    BY <1>13 DEF Close, NextOrClose, CloseSession
  <2>2. d1 = Len(socket)
    BY <1>0, <1>7, <2>1 DEF Debt
  <2>3. p1 <= p + Len(writing)
    BY <1>0, <1>11, <1>13, LostStep
  <2>4. Paid
    <3>1. CASE "error" \in ending
      <4>1. faults' = faults
        BY <1>13, <3>1 DEF Close, Breaks
      <4>2. Len(writing) = 0
        BY <3>1 DEF LossInv
      <4>3. Len(socket) <= d
        BY <1>0, <1>7, <3>1 DEF Debt
      <4> QED
        BY <1>0, <2>2, <2>3, <4>1, <4>2, <4>3
    <3>2. CASE "error" \notin ending
      <4>1. faults' = faults + 1
        BY <1>13, <3>2 DEF Close, Breaks, Fault
      <4> QED
        BY <1>0, <2>2, <2>3, <4>1
    <3> QED
      BY <3>1, <3>2
  <2> QED
    BY <1>9, <2>1, <2>4
<1>14. CASE TakeDisconnect
  <2>1. /\ "disconnect" \in ending /\ ending' = {} /\ link' = "idle"
        /\ socket' = socket /\ faults' = faults
        /\ writing' = <<>> \/ writing' = writing
    BY <1>14 DEF TakeDisconnect, Disconnect, CloseSession, pipeline
  <2>2. writing = <<>> /\ Len(writing) = 0
    BY <2>1 DEF LossInv
  <2>3. d = Len(socket) /\ d1 = Len(socket)
    BY <1>0, <1>7, <2>1 DEF Debt
  <2>4. p1 <= p + Len(writing)
    BY <1>0, <1>11, <1>14, LostStep
  <2>5. Paid
    BY <1>0, <2>1, <2>2, <2>3, <2>4
  <2> QED
    BY <1>9, <2>1, <2>2, <2>5
<1>15. CASE SendPublishFails
  <2>1. /\ link = "up" /\ "disconnect" \notin ending /\ buffer # <<>>
        /\ ending' = ending \cup {"disconnect"}
        /\ writing = <<>> /\ UNCHANGED <<link, writing, socket>>
    BY <1>15 DEF SendPublishFails, Sendable, Ready, DisconnectInternal
  <2>2. d1 = Len(socket)
    BY <1>0, <1>7, <2>1 DEF Debt
  <2>3. p1 <= p + 1
    <3>1. Head(buffer) \in Numbers
      BY <1>0, <2>1, HeadTailProperties
    <3>2. /\ <<Head(buffer)>> \in Seq(Numbers) /\ Len(<<Head(buffer)>>) = 1
          /\ Elements(<<Head(buffer)>>) = {Head(buffer)}
      BY <1>0, <3>1, QueueElements
    <3> QED
      BY <1>11, <1>15, <3>2, LostStep
  <2>4. Paid
    <3>1. CASE "error" \in ending
      <4>1. faults' = faults
        BY <1>15, <3>1 DEF SendPublishFails, Breaks
      <4>2. d = Len(socket) + 1
        BY <1>0, <1>7, <2>1, <3>1 DEF Debt
      <4> QED
        BY <1>0, <2>2, <2>3, <4>1, <4>2
    <3>2. CASE "error" \notin ending
      <4>1. faults' = faults + 1
        BY <1>15, <3>2 DEF SendPublishFails, Breaks, Fault
      <4> QED
        BY <1>0, <2>2, <2>3, <4>1
    <3> QED
      BY <3>1, <3>2
  <2> QED
    BY <1>9, <2>1, <2>4
<1>16. CASE WriteFails
  <2>1. /\ link = "up" /\ writing # <<>> /\ writing' = <<>>
        /\ ending' = ending \cup {"error"} /\ faults' = faults + 1
        /\ UNCHANGED <<link, socket>>
    BY <1>16 DEF WriteFails, Fault
  <2>2. d1 <= Len(socket) + 1
    BY <1>0, <1>7, <2>1 DEF Debt
  <2>3. p1 <= p + Len(writing)
    BY <1>0, <1>11, <1>16, LostStep
  <2>4. Paid
    BY <1>0, <2>1, <2>2, <2>3
  <2> QED
    BY <1>9, <2>1, <2>4
<1>17. CASE SendPublish \/ WriteComplete
  <2>1. /\ link = "up" /\ ending = {}
        /\ link' = link /\ ending' = ending /\ faults' = faults
    BY <1>0, <1>17 DEF SendPublish, WriteComplete, Sendable, Ready, connection, LossInv
  <2>2. d1 = 0
    BY <1>7, <2>1 DEF Debt
  <2>3. p1 <= p
    <3>1. ~(Connected \/ Close \/ TakeDisconnect)
      BY <2>1 DEF Connected, Connack, Close, NextOrClose, TakeDisconnect, Disconnect
    <3>2. ~(WriteFails \/ SendPublishFails)
      BY <2>1 DEF WriteFails, SendPublishFails, DisconnectInternal
    <3> QED
      BY <1>10, <3>1, <3>2, LostStep
  <2>4. Paid
    BY <1>0, <2>1, <2>2, <2>3
  <2> QED
    BY <1>9, <2>1, <2>4
<1>18. CASE Deliver
  <2>1. /\ UNCHANGED <<link, ending, writing, faults, buffer>>
        /\ socket' = Tail(socket) /\ socket # <<>>
    BY <1>18 DEF Deliver, connection
  <2>2. Len(socket') \in Nat /\ Len(socket') <= Len(socket)
    BY <1>0, <2>1, HeadTailProperties
  <2>3. d1 <= d
    BY <1>0, <1>7, <2>1, <2>2 DEF Debt
  <2>4. p1 <= p
    <3>1. ~(Connected \/ Close \/ TakeDisconnect \/ WriteFails \/ SendPublishFails)
      <4>1. socket' # socket
        BY <1>0, <2>1, HeadTailProperties
      <4> QED
        BY <1>18, <4>1
           DEF Deliver, Connected, Close, CloseSession, TakeDisconnect, WriteFails,
               SendPublishFails, pipeline, history, Connack, connection
    <3> QED
      BY <1>10, <3>1, LostStep
  <2>5. Paid
    BY <1>0, <2>1, <2>3, <2>4
  <2>6. Half
    BY <2>1 DEF LossInv
  <2> QED
    BY <1>9, <2>5, <2>6
<1>19. CASE UNCHANGED <<ending, pipeline, executed, accepted>>
              /\ (link' = "up") = (link = "up")
              /\ (faults' = faults \/ faults' = faults + 1)
  <2>1. d1 = d
    BY <1>7, <1>19 DEF Debt, pipeline
  <2>2. p1 <= p
    <3>1. Lost' \subseteq Lost
      BY <1>19 DEF Lost, OnTheWay, pipeline
    <3> QED
      BY <1>10, <3>1
  <2>3. Paid
    BY <1>0, <1>8, <1>19, <2>1, <2>2
  <2>4. Half
    BY <1>19 DEF LossInv, pipeline
  <2> QED
    BY <1>9, <2>3, <2>4
<1>20. CASE Mqtt_guard_ps_set
  <2>1. /\ pc = "send" /\ pc' = "run"
        /\ UNCHANGED <<link, ending, writing, socket, faults>>
    BY <1>20 DEF Mqtt_guard_ps_set, connection
  <2>2. d1 = d
    BY <1>7, <2>1 DEF Debt
  <2>3. p1 <= p
    <3>1. ~(Connected \/ Close \/ TakeDisconnect \/ WriteFails \/ SendPublishFails)
      BY <2>1 DEF Connected, Close, TakeDisconnect, WriteFails, SendPublishFails, others
    <3> QED
      BY <1>10, <3>1, LostStep
  <2>4. Paid
    BY <1>0, <2>1, <2>2, <2>3
  <2>5. Half
    BY <2>1 DEF LossInv
  <2> QED
    BY <1>9, <2>4, <2>5
<1> QED
  BY <1>12, <1>13, <1>14, <1>15, <1>16, <1>17, <1>18, <1>19, <1>20
     DEF Next, Main, SendThread, ReceiveThread, Mqtt_init, Decide, Switch,
         Reconnect, QueueReconnect, QueueConnect, TakeConnect, StartConnect,
         ConnectRefused, ConnectFails, ConnectError, Fault,
         connection, pipeline, history, others, vars

(* A broken connection costs at most the commands in the socket, the one    *)
(* being written and the one the send thread writes before the receive      *)
(* thread has closed the socket: what is buffered is never lost, however    *)
(* often and whenever the link breaks.                                      *)
THEOREM LossBounded == Spec => []LossIsBounded
<1>1. Init => LossInv
  <2> SUFFICES ASSUME Init PROVE LossInv
    OBVIOUS
  <2>1. /\ link = "idle" /\ ending = {} /\ socket = <<>> /\ writing = <<>>
        /\ faults = 0 /\ accepted = {}
    BY DEF Init, Unconnected
  <2>2. Lost = {} /\ Debt = 0
    BY <2>1 DEF Lost, Debt
  <2>3. Cardinality(Lost) = 0
    BY <2>2, FS_EmptySet
  <2>4. SocketSize \in Nat
    BY LinkAssumption
  <2>5. 0 + 0 <= 0 * (SocketSize + 2)
    BY <2>4
  <2>6. Cardinality(Lost) + Debt <= faults * (SocketSize + 2)
    BY <2>1, <2>2, <2>3, <2>5, Zenon
  <2> QED
    BY <2>1, <2>6 DEF LossInv
<1>2. TypeInv /\ LossInv => LossIsBounded
  <2> SUFFICES ASSUME TypeInv, LossInv PROVE LossIsBounded
    OBVIOUS
  <2>1. /\ faults \in Nat /\ SocketSize \in Nat /\ Len(socket) \in Nat
        /\ Lost \in SUBSET Numbers
    BY LinkAssumption DEF TypeInv, TypeOK, Lost
  <2>2. Debt \in Nat
    BY <2>1 DEF Debt
  <2>3. Cardinality(Lost) \in Nat
    <3>1. <<>> \in Seq(Numbers) /\ Lost \subseteq Lost \cup Elements(<<>>)
      OBVIOUS
    <3> QED
      BY <2>1, <3>1, LostMore
  <2> QED
    BY <2>1, <2>2, <2>3 DEF LossInv, LossIsBounded
<1> QED
  BY <1>1, <1>2, TypeInvariant, LossStep, PTL DEF Spec

-----------------------------------------------------------------------------
(* What BufferDrains and OffMeansRest rest on besides fairness: the moves   *)
(* left to the commands under way, three for a buffered one (written partly *)
(* first), two for one half written, one for one in the socket.             *)
Moves == 3 * Len(buffer) + 2 * Len(writing) + Len(socket)

Idle   == UNCHANGED <<pipeline, executed>>
Moved  == Moves' < Moves
Queues == Mqtt_guard_ps_set /\ executed' = executed /\ Moves' = Moves + 3

(* Only mqtt_guard_ps_set adds a command to those under way; every other    *)
(* step that touches one brings it nearer to the turret or drops it.        *)
LEMMA MovesStep ==
  ASSUME TypeInv, [Next]_vars
  PROVE  Idle \/ Moved \/ Queues
<1>1. /\ Len(buffer) \in Nat /\ Len(writing) \in Nat /\ Len(socket) \in Nat
      /\ Len(<<>>) = 0
  BY SMTT(30) DEF TypeInv, TypeOK
<1>2. /\ buffer \in Seq(Numbers) /\ writing \in Seq(Numbers)
      /\ socket \in Seq(Numbers) /\ next \in 1..(MaxCommands + 1)
  BY DEF TypeInv, TypeOK
<1>3. CASE Mqtt_guard_ps_set
  <2>1. CASE Accepts
    <3>1. next \in Numbers
      BY <1>2, <1>3 DEF Mqtt_guard_ps_set, TypeInv, Numbered, Numbers
    <3>2. Len(buffer)' = Len(buffer) + 1
      BY <1>2, <1>3, <2>1, <3>1, Queue DEF Mqtt_guard_ps_set
    <3>3. UNCHANGED <<writing, socket, executed>>
      BY <1>3 DEF Mqtt_guard_ps_set
    <3> QED
      BY <1>1, <1>3, <3>2, <3>3 DEF Queues, Moves
  <2>2. CASE ~Accepts
    BY <1>3, <2>2 DEF Mqtt_guard_ps_set, Idle, pipeline
  <2> QED
    BY <2>1, <2>2
<1>4. CASE Mqtt_init \/ Decide \/ Switch \/ TakeConnect \/ Reconnect
             \/ ConnectRefused \/ ConnectFails \/ UNCHANGED vars
  BY <1>4 DEF Mqtt_init, Decide, Switch, TakeConnect, Reconnect, ConnectRefused,
     ConnectFails, Idle, vars, pipeline, history
<1>5. CASE Connected
  <2>1. socket' = <<>> /\ UNCHANGED <<buffer, writing, executed>>
    BY <1>5 DEF Connected, history
  <2>2. CASE socket = <<>>
    BY <2>1, <2>2 DEF Idle, pipeline
  <2>3. CASE socket # <<>>
    <3>1. Len(socket) >= 1
      BY <1>2, <2>3
    <3> QED
      BY <1>1, <2>1, <3>1 DEF Moved, Moves
  <2> QED
    BY <2>2, <2>3
<1>6. CASE Close \/ TakeDisconnect \/ WriteFails
  <2>1. /\ UNCHANGED <<buffer, socket, executed>>
        /\ writing' = writing \/ writing' = <<>>
    BY <1>6 DEF Close, TakeDisconnect, WriteFails, CloseSession, pipeline, history
  <2>2. CASE writing' = writing
    BY <2>1, <2>2 DEF Idle, pipeline
  <2>3. CASE writing # <<>> /\ writing' = <<>>
    <3>1. Len(writing) >= 1
      BY <1>2, <2>3
    <3> QED
      BY <1>1, <2>1, <2>3, <3>1 DEF Moved, Moves
  <2> QED
    BY <2>1, <2>2, <2>3
<1>7. CASE SendPublish
  <2>1. /\ writing = <<>> /\ buffer # <<>> /\ buffer' = Tail(buffer)
        /\ Head(buffer) \in Numbers
    BY <1>2, <1>7, Queue DEF SendPublish, Sendable
  <2>2. Len(buffer)' = Len(buffer) - 1
    BY <1>2, <2>1, Queue
  <2>3. CASE Len(socket) < SocketSize
    <3>1. writing' = writing /\ socket' = Append(socket, Head(buffer))
      BY <1>7, <2>3 DEF SendPublish
    <3>2. Len(socket)' = Len(socket) + 1
      BY <1>2, <2>1, <3>1, Queue
    <3> QED
      BY <1>1, <2>2, <3>1, <3>2 DEF Moved, Moves
  <2>4. CASE ~(Len(socket) < SocketSize)
    <3>1. socket' = socket /\ writing' = <<Head(buffer)>>
      BY <1>7, <2>4 DEF SendPublish
    <3>2. Len(writing)' = 1 /\ Len(writing) = 0
      BY <2>1, <3>1
    <3> QED
      BY <1>1, <2>2, <3>1, <3>2 DEF Moved, Moves
  <2> QED
    BY <2>3, <2>4
<1>8. CASE SendPublishFails
  <2>1. buffer # <<>> /\ buffer' = Tail(buffer) /\ UNCHANGED <<writing, socket>>
    BY <1>8 DEF SendPublishFails, Sendable
  <2>2. Len(buffer)' = Len(buffer) - 1
    BY <1>2, <2>1, Queue
  <2> QED
    BY <1>1, <2>1, <2>2 DEF Moved, Moves
<1>9. CASE WriteComplete
  <2>1. /\ writing # <<>> /\ writing' = <<>> /\ buffer' = buffer
        /\ socket' = Append(socket, Head(writing)) /\ Head(writing) \in Numbers
    BY <1>2, <1>9, Queue DEF WriteComplete
  <2>2. Len(socket)' = Len(socket) + 1 /\ Len(writing) >= 1 /\ Len(writing)' = 0
    BY <1>1, <1>2, <2>1, Queue
  <2> QED
    BY <1>1, <2>1, <2>2 DEF Moved, Moves
<1>10. CASE Deliver
  <2>1. socket # <<>> /\ socket' = Tail(socket) /\ UNCHANGED <<buffer, writing>>
    BY <1>10 DEF Deliver
  <2>2. Len(socket)' = Len(socket) - 1
    BY <1>2, <2>1, Queue
  <2> QED
    BY <1>1, <2>1, <2>2 DEF Moved, Moves
<1> QED
  BY <1>3, <1>4, <1>5, <1>6, <1>7, <1>8, <1>9, <1>10
     DEF Next, Main, SendThread, ReceiveThread

(* A command under way only moves on: no error path, reconnection or partly *)
(* written packet puts one back into the queue.  A connection that stands   *)
(* therefore empties the queue, if the library's threads run.               *)
THEOREM CommandsMoveOn == Spec => [][Idle \/ Moved \/ Queues]_vars
<1>1. TypeInv /\ [Next]_vars => [Idle \/ Moved \/ Queues]_vars
  BY MovesStep
<1> QED
  BY <1>1, TypeInvariant, PTL DEF Spec

(* Once the switch is off and draw_result has sent what it had decided to   *)
(* send, nothing is decided until the switch goes on again, and the turret  *)
(* executes and the library writes only what is left, which is bounded by   *)
(* the sizes of the buffer and of the socket.                               *)
THEOREM OffDrains ==
  Spec => /\ [](Moves \in 0..(3 * MaxBuffered + SocketSize + 2))
          /\ [][Teasing_sw = 0 /\ pc # "send"
                  => pc' # "send" /\ (Idle \/ Moved)]_vars
<1>1. TypeInv => Moves \in 0..(3 * MaxBuffered + SocketSize + 2)
  <2> SUFFICES ASSUME TypeInv
               PROVE  Moves \in 0..(3 * MaxBuffered + SocketSize + 2)
    OBVIOUS
  <2>1. /\ Len(buffer) \in Nat /\ Len(writing) \in Nat /\ Len(socket) \in Nat
        /\ Len(buffer) <= MaxBuffered /\ Len(writing) <= 1
        /\ Len(socket) <= SocketSize
        /\ MaxBuffered \in Nat /\ SocketSize \in Nat
    BY LinkAssumption, SMTT(30) DEF TypeInv, TypeOK
  <2>2. \A b, w, s, m, k \in Nat :
          b <= m /\ w <= 1 /\ s <= k => 3 * b + 2 * w + s \in 0..(3 * m + k + 2)
    OBVIOUS
  <2> QED
    BY <2>1, <2>2 DEF Moves
<1>2. TypeInv /\ [Next]_vars
        => [Teasing_sw = 0 /\ pc # "send" => pc' # "send" /\ (Idle \/ Moved)]_vars
  <2> SUFFICES ASSUME TypeInv, Next, Teasing_sw = 0, pc # "send"
               PROVE  pc' # "send" /\ (Idle \/ Moved)
    OBVIOUS
  <2>1. ~Queues
    BY DEF Queues, Mqtt_guard_ps_set
  <2>2. pc' # "send"
    BY DEF Next, Main, SendThread, ReceiveThread, Mqtt_init, Decide,
       Mqtt_guard_ps_set, Switch, TakeConnect, ConnectRefused, ConnectFails,
       Reconnect, SendPublish, SendPublishFails, TakeDisconnect, Connected,
       Close, WriteComplete, WriteFails, Deliver, others
  <2> QED
    BY <2>1, <2>2, MovesStep
<1> QED
  BY <1>1, <1>2, TypeInvariant, PTL DEF Spec

-----------------------------------------------------------------------------
(* The two clients in one program.                                          *)

SubProofs == INSTANCE SwitchLinkProofs WITH
         pc <- subPc, link <- subLink, armed <- subArmed, conn <- subConn,
         retrying <- subRetrying, ending <- subEnding, faults <- subFaults

(* The subscriber has no connection before mqttsub_init, which comes after  *)
(* mqtt_init.                                                               *)
Started ==
  /\ subLink # "idle" \/ subConn # "none" \/ subRetrying => subPc = "run"
  /\ subPc = "run" => pc \in {"run", "send"}

SysInv == Teasing_sw \in {0, 1} /\ Started

(* Neither client is started when main begins.                              *)
LEMMA SysInvInit == SystemInit => SysInv
  BY DEF SystemInit, Init, Sub!Init, Sub!Unconnected, SysInv, Started

(* The subscriber's connection leads to no connection before mqttsub_init.  *)
LEMMA SubscriberStep ==
  ASSUME SysInv, Subscriber PROVE SysInv'
<1> USE DEF SysInv, Started
<1>0. UNCHANGED <<pc, Teasing_sw>>
  BY DEF Subscriber, vars
<1>1. CASE Sub!TakeConnect
  BY <1>0, <1>1 DEF Sub!TakeConnect, Sub!StartConnect
<1>2. CASE Sub!ConnectFails
  BY <1>0, <1>2 DEF Sub!ConnectFails, Sub!ConnectError
<1>3. CASE Sub!Reconnect
  BY <1>0, <1>3 DEF Sub!Reconnect, Sub!QueueReconnect
<1>4. CASE Sub!SendSubscribe
  BY <1>0, <1>4 DEF Sub!SendSubscribe, Sub!connection
<1>5. CASE Sub!SendSubscribeFails
  BY <1>0, <1>5 DEF Sub!SendSubscribeFails, Sub!DisconnectInternal
<1>6. CASE Sub!TakeDisconnect
  BY <1>0, <1>6 DEF Sub!TakeDisconnect, Sub!Disconnect
<1>7. CASE Sub!Connected
  BY <1>0, <1>7 DEF Sub!Connected, Sub!Connack
<1>8. CASE Sub!Close
  BY <1>0, <1>8 DEF Sub!Close, Sub!NextOrClose
<1> QED
  BY <1>1, <1>2, <1>3, <1>4, <1>5, <1>6, <1>7, <1>8
     DEF Subscriber, Sub!SendThread

(* The publisher's threads and the turret do not touch the switch.          *)
LEMMA PublisherStep ==
  ASSUME SendThread \/ ReceiveThread \/ Deliver
  PROVE  UNCHANGED <<pc, Teasing_sw>>
<1>1. CASE TakeConnect \/ Reconnect
  BY <1>1 DEF TakeConnect, Reconnect, others
<1>2. CASE ConnectRefused \/ ConnectFails
  BY <1>2 DEF ConnectRefused, ConnectFails
<1>3. CASE SendPublish
  BY <1>3 DEF SendPublish, others
<1>4. CASE SendPublishFails
  BY <1>4 DEF SendPublishFails, others
<1>5. CASE TakeDisconnect
  BY <1>5 DEF TakeDisconnect, others
<1>6. CASE Connected \/ Close
  BY <1>6 DEF Connected, Close, others
<1>7. CASE WriteComplete \/ WriteFails
  BY <1>7 DEF WriteComplete, WriteFails, others
<1>8. CASE Deliver
  BY <1>8 DEF Deliver, others
<1> QED
  BY <1>1, <1>2, <1>3, <1>4, <1>5, <1>6, <1>7, <1>8
     DEF SendThread, ReceiveThread

(* Every step of the program keeps the order of its initialisation.         *)
LEMMA SysInvStep == SysInv /\ [SystemNext]_systemVars => SysInv'
<1> SUFFICES ASSUME SysInv, [SystemNext]_systemVars PROVE SysInv'
  OBVIOUS
<1> USE DEF SysInv, Started
<1>1. CASE StartPublisher
  BY <1>1 DEF StartPublisher, Mqtt_init, subVars
<1>2. CASE StartSubscriber
  BY <1>2 DEF StartSubscriber, Sub!Mqttsub_init, Sub!QueueConnect,
     Sub!connection, vars
<1>3. CASE DecideToSend \/ Send
  BY <1>3 DEF DecideToSend, Send, Decide, Mqtt_guard_ps_set, subVars
<1>4. CASE Publisher \/ Turret
  <2>1. UNCHANGED <<pc, Teasing_sw>>
    BY <1>4, PublisherStep DEF Publisher, Turret
  <2> QED
    BY <1>4, <2>1 DEF Publisher, Turret, subVars
<1>5. CASE Subscriber
  BY <1>5, SubscriberStep
<1>6. CASE MessageArrived
  BY <1>6 DEF MessageArrived, Sub!Receive, Sub!SubscribeAnswered,
     Sub!ProcessPublication, Sub!SwitchValue, Sub!connection, Sub!OnFailure5_s
<1>7. CASE BrokerAndUser
  BY <1>7 DEF BrokerAndUser, Sub!Broker, Sub!BrokerSubscribes,
     Sub!BrokerRefuses, Sub!Publish, Sub!connection, vars
<1>8. CASE UNCHANGED systemVars
  BY <1>8 DEF systemVars, vars, subVars
<1> QED
  BY <1>1, <1>2, <1>3, <1>4, <1>5, <1>6, <1>7, <1>8 DEF SystemNext, Program

(* A message that changes the switch is CommandLink's Switch, any other     *)
(* leaves the publisher alone.                                              *)
LEMMA MessageIsSwitch ==
  ASSUME SysInv, MessageArrived PROVE Switch \/ UNCHANGED vars
<1>1. pc \in {"run", "send"}
  BY DEF SysInv, Started, MessageArrived, Sub!Receive
<1>2. Teasing_sw' \in {0, 1}
  BY DEF SysInv, MessageArrived, Sub!Receive, Sub!ProcessPublication, Sub!SwitchValue
<1>3. CASE Teasing_sw' = Teasing_sw
  BY <1>3 DEF MessageArrived, vars, connection, reports, pipeline, history
<1>4. CASE Teasing_sw' # Teasing_sw
  <2>1. Teasing_sw' = 1 - Teasing_sw
    BY <1>2, <1>4 DEF SysInv
  <2> QED
    BY <1>1, <1>4, <2>1 DEF MessageArrived, Switch
<1> QED
  BY <1>3, <1>4

(* The publisher in the program is the publisher of CommandLink: what holds *)
(* for a switch that changes at any time holds for the one the user sets.   *)
LEMMA PublisherAsSpecified == SystemSpec => Spec
<1>1. SystemInit => Init
  BY DEF SystemInit
<1>2. SysInv /\ [SystemNext]_systemVars => [Next]_vars
  <2> SUFFICES ASSUME SysInv, [SystemNext]_systemVars PROVE [Next]_vars
    OBVIOUS
  <2>1. CASE MessageArrived
    BY <2>1, MessageIsSwitch DEF Next
  <2>2. CASE ~MessageArrived
    BY <2>2 DEF SystemNext, Program, StartPublisher, StartSubscriber,
       DecideToSend, Send, Publisher, Subscriber, Turret, BrokerAndUser,
       systemVars, Next, Main
  <2> QED
    BY <2>1, <2>2
<1> QED
  BY <1>1, <1>2, SysInvInit, SysInvStep, PTL
     DEF SystemSpec, Spec

(* The subscriber in the program is the subscriber of SwitchLink.           *)
LEMMA SubscriberAsSpecified == SystemSpec => Sub!Spec
<1>1. SystemInit => Sub!Init
  BY DEF SystemInit
<1>2. [SystemNext]_systemVars => [Sub!Next]_(Sub!vars)
  <2> SUFFICES ASSUME [SystemNext]_systemVars PROVE [Sub!Next]_(Sub!vars)
    OBVIOUS
  <2>1. CASE StartPublisher \/ DecideToSend \/ Send \/ Publisher \/ Turret
    <3>1. UNCHANGED Teasing_sw
      BY <2>1, PublisherStep DEF StartPublisher, Mqtt_init, DecideToSend,
         Decide, Send, Mqtt_guard_ps_set, Publisher, Turret
    <3>2. UNCHANGED subVars
      BY <2>1 DEF StartPublisher, DecideToSend, Send, Publisher, Turret
    <3> QED
      BY <3>1, <3>2 DEF subVars, Sub!vars, Sub!connection, Sub!flags,
         Sub!request, Sub!broker
  <2>2. CASE StartSubscriber \/ Subscriber \/ MessageArrived \/ BrokerAndUser
    BY <2>2 DEF StartSubscriber, Subscriber, MessageArrived, BrokerAndUser,
       Sub!Next, Sub!ReceiveThread
  <2>3. CASE UNCHANGED systemVars
    BY <2>3 DEF systemVars, vars, subVars, Sub!vars, Sub!connection,
       Sub!flags, Sub!request, Sub!broker
  <2> QED
    BY <2>1, <2>2, <2>3 DEF SystemNext, Program
<1> QED
  BY <1>1, <1>2, PTL DEF SystemSpec, Sub!Spec

(* Joined in one program, each of the two clients behaves as its own        *)
(* specification says.                                                      *)
THEOREM LinksAsSpecified == SystemSpec => ImplementsLinks
  BY PublisherAsSpecified, SubscriberAsSpecified DEF ImplementsLinks

(* In the whole program the turret gets a bounded number of commands after  *)
(* a message of the user has turned the switch off.                         *)
THEOREM LateInProgram == SystemSpec => []LateIsBounded
  BY PublisherAsSpecified, LateCommands

(* In the whole program a command is refused only for a reason.             *)
THEOREM RefusedInProgram == SystemSpec => AcceptedWhileDown
  BY PublisherAsSpecified, RefusedForAReason

(* In the whole program the turret gets the commands in their order, none   *)
(* of them twice.                                                           *)
THEOREM OrderInProgram == SystemSpec => []InOrderAtMostOnce
  BY PublisherAsSpecified, InOrder

(* In the whole program what is in the buffer survives every fault of the   *)
(* publisher's connection.                                                  *)
THEOREM LossInProgram == SystemSpec => []LossIsBounded
  BY PublisherAsSpecified, LossBounded

(* Of the program: while the switch is off and nothing is decided, what is  *)
(* under way to the turret only gets less, whatever the subscriber does.    *)
THEOREM OffDrainsInProgram ==
  SystemSpec => /\ [](Moves \in 0..(3 * MaxBuffered + SocketSize + 2))
                /\ [][Teasing_sw = 0 /\ pc # "send"
                        => pc' # "send" /\ (Idle \/ Moved)]_vars
  BY PublisherAsSpecified, OffDrains

(* SwitchLinkProofs instantiated for the program speaks of the same         *)
(* initial states, steps and deafness as SwitchLink does.                   *)
LEMMA SameInit == Sub!Init => SubProofs!Init
  BY DEF Sub!Init, SubProofs!Init, Sub!Unconnected, SubProofs!Unconnected

(* The steps are the same, definition by definition.                        *)
LEMMA SameStep == [Sub!Next]_(Sub!vars) => [SubProofs!Next]_(SubProofs!vars)
  BY SMTT(60) DEF Sub!vars, SubProofs!vars, Sub!connection,
         SubProofs!connection, Sub!flags, SubProofs!flags, Sub!request,
         SubProofs!request, Sub!broker, SubProofs!broker, Sub!Next,
         SubProofs!Next, Sub!Mqttsub_init, SubProofs!Mqttsub_init,
         Sub!QueueConnect, SubProofs!QueueConnect, Sub!SendThread,
         SubProofs!SendThread, Sub!ReceiveThread, SubProofs!ReceiveThread,
         Sub!Broker, SubProofs!Broker, Sub!Publish, SubProofs!Publish,
         Sub!TakeConnect, SubProofs!TakeConnect, Sub!StartConnect,
         SubProofs!StartConnect, Sub!ConnectFails, SubProofs!ConnectFails,
         Sub!ConnectError, SubProofs!ConnectError, Sub!Reconnect,
         SubProofs!Reconnect, Sub!QueueReconnect, SubProofs!QueueReconnect,
         Sub!SendSubscribe, SubProofs!SendSubscribe, Sub!Ready,
         SubProofs!Ready, Sub!SendSubscribeFails,
         SubProofs!SendSubscribeFails, Sub!DisconnectInternal,
         SubProofs!DisconnectInternal, Sub!TakeDisconnect,
         SubProofs!TakeDisconnect, Sub!Disconnect, SubProofs!Disconnect,
         Sub!Connected, SubProofs!Connected, Sub!Connack, SubProofs!Connack,
         Sub!Close, SubProofs!Close, Sub!NextOrClose, SubProofs!NextOrClose,
         Sub!GivesUpAttempt, SubProofs!GivesUpAttempt,
         Sub!Receive, SubProofs!Receive, Sub!SubscribeAnswered,
         SubProofs!SubscribeAnswered, Sub!ProcessPublication,
         SubProofs!ProcessPublication, Sub!BrokerSubscribes,
         SubProofs!BrokerSubscribes, Sub!BrokerRefuses,
         SubProofs!BrokerRefuses, Sub!OnConnect5_s, SubProofs!OnConnect5_s,
         Sub!OnFailure5_s, SubProofs!OnFailure5_s, Sub!Fault, SubProofs!Fault,
         Sub!CloseSession, SubProofs!CloseSession, Sub!AwaitsAnswer,
         SubProofs!AwaitsAnswer, Sub!Answers, SubProofs!Answers,
         Sub!SwitchValue, SubProofs!SwitchValue, Sub!Payloads,
         SubProofs!Payloads

(* To be deaf is the same in both.                                          *)
LEMMA SameDeaf == SubProofs!Deaf <=> Sub!Deaf
  BY DEF Sub!Deaf, SubProofs!Deaf

(* In the whole program, too, a subscription that is lost stays lost.       *)
THEOREM DeafInProgram == SystemSpec => Sub!StaysDeaf
<1>1. [SubProofs!Deaf => SubProofs!Deaf' /\ UNCHANGED Teasing_sw]_(SubProofs!vars)
        => [Sub!Deaf => Sub!Deaf' /\ UNCHANGED Teasing_sw]_(Sub!vars)
  BY DEF Sub!vars, SubProofs!vars, Sub!connection, SubProofs!connection,
         Sub!flags, SubProofs!flags, Sub!request, SubProofs!request,
         Sub!broker, SubProofs!broker, Sub!Deaf, SubProofs!Deaf
<1>2. Sub!Spec => SubProofs!Spec
  BY SameInit, SameStep, PTL DEF Sub!Spec, SubProofs!Spec
<1>3. SubProofs!StaysDeaf => Sub!StaysDeaf
  BY <1>1, PTL DEF Sub!StaysDeaf, SubProofs!StaysDeaf
<1>4. SubProofs!LinkAssumption
  BY LinkAssumption, SystemAssumption DEF SubProofs!LinkAssumption
<1>5. SubProofs!Spec => SubProofs!StaysDeaf
  BY <1>4, SubProofs!Deafness
<1> QED
  BY <1>2, <1>3, <1>5, SubscriberAsSpecified, PTL

(* In the whole program, too, no message of the user is skipped or taken    *)
(* twice, and the program goes deaf only by a fault.                        *)
THEOREM SwitchInProgram ==
  SystemSpec => []SubProofs!NothingPending /\ []SubProofs!DeafOnlyWhenCut
<1>1. Sub!Spec => SubProofs!Spec
  BY SameInit, SameStep, PTL DEF Sub!Spec, SubProofs!Spec
<1>2. SubProofs!LinkAssumption
  BY LinkAssumption, SystemAssumption DEF SubProofs!LinkAssumption
<1>3. SubProofs!Spec => []SubProofs!NothingPending
  BY <1>2, SubProofs!SwitchFollows
<1>4. SubProofs!Spec => []SubProofs!DeafOnlyWhenCut
  BY <1>2, SubProofs!DeafOnlyByFault
<1> QED
  BY <1>1, <1>3, <1>4, SubscriberAsSpecified, PTL

(* In the whole program, too, a subscriber whose connection stands and has  *)
(* nothing under way has set the switch where the user wants it.            *)
THEOREM SettledInProgram ==
  SystemSpec => []SubProofs!ObeyedWhenSettled
<1>1. Sub!Spec => SubProofs!Spec
  BY SameInit, SameStep, PTL DEF Sub!Spec, SubProofs!Spec
<1>2. SubProofs!LinkAssumption
  BY LinkAssumption, SystemAssumption DEF SubProofs!LinkAssumption
<1>3. SubProofs!Spec => []SubProofs!ObeyedWhenSettled
  BY <1>2, SubProofs!SettledIsObeyed
<1> QED
  BY <1>1, <1>3, SubscriberAsSpecified, PTL
=============================================================================
