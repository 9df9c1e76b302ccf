---------------------------- MODULE TeasingSystem ----------------------------
(***************************************************************************)
(* The program's two MQTT clients together (main in                        *)
(* src/src/rtsp_opencv.cc): the publisher of CommandLink and the           *)
(* subscriber of SwitchLink share the process, the library's send and      *)
(* receive threads, and Teasing_sw.  CommandLink lets the switch change at *)
(* any time; here it changes when a message of the user arrives.           *)
(*                                                                         *)
(* The library keeps the commands of both clients in one list.  A client   *)
(* whose first command has to wait does not hold up the other              *)
(* (processCommand skips it), so that each client sees a list of its own.  *)
(***************************************************************************)
EXTENDS CommandLink

CONSTANTS Retain, MaxMessages        \* as in SwitchLink

ASSUME SystemAssumption == Retain \in BOOLEAN /\ MaxMessages \in Nat

VARIABLES
  subPc, subLink, subArmed, subConn, subRetrying, subEnding,
  finished, subscribed, queued, sent,
  session, wire, board, wanted, messages,
  subFaults, cut

Sub == INSTANCE SwitchLink WITH
         pc <- subPc, link <- subLink, armed <- subArmed, conn <- subConn,
         retrying <- subRetrying, ending <- subEnding, faults <- subFaults

subVars == <<subPc, subLink, subArmed, subConn, subRetrying, subEnding,
             finished, subscribed, queued, sent,
             session, wire, board, wanted, messages, subFaults, cut>>
systemVars == <<vars, subVars>>

SystemInit == Init /\ Sub!Init

-----------------------------------------------------------------------------
(* main: mqtt_init, then mqttsub_init, then the loop with draw_result.      *)
StartPublisher == Mqtt_init /\ UNCHANGED subVars

(* Mutant: mqttsub_init may come first.                                     *)
StartSubscriber_AnyTime == pc # "exit" /\ Sub!Mqttsub_init /\ UNCHANGED vars
StartSubscriber == pc = "run" /\ Sub!Mqttsub_init /\ UNCHANGED vars

DecideToSend == subPc = "run" /\ Decide /\ UNCHANGED subVars
Send == Mqtt_guard_ps_set /\ UNCHANGED subVars

-----------------------------------------------------------------------------
(* The library's threads.                                                   *)
Publisher == (SendThread \/ ReceiveThread) /\ UNCHANGED subVars

Subscriber == (Sub!SendThread \/ Sub!Connected \/ Sub!Close) /\ UNCHANGED vars

(* messageArrived_s and the answers to the SUBSCRIBE.  The history variable *)
(* late counts from the message that changes the switch.                    *)
MessageArrived ==
  /\ Sub!Receive
  /\ late' = IF Teasing_sw' = Teasing_sw THEN late ELSE 0
  /\ UNCHANGED <<pc, client, should, connection, reports, next, pipeline,
                 executed, accepted, faults>>

-----------------------------------------------------------------------------
(* The broker, the turret and the user outlive the program.                 *)
Turret == Deliver /\ UNCHANGED subVars
BrokerAndUser == (Sub!Broker \/ Sub!Publish) /\ UNCHANGED vars

Program ==
  \/ StartPublisher \/ StartSubscriber \/ DecideToSend \/ Send
  \/ Publisher \/ Subscriber \/ MessageArrived

Runs == pc # "exit" /\ subPc # "exit"

SystemNext == (Runs /\ Program) \/ Turret \/ BrokerAndUser

SystemSpec == SystemInit /\ [][SystemNext]_systemVars

(* The fairness of both links, and main finishes what it has decided.       *)
SystemFairSpec ==
  /\ SystemSpec
  /\ WF_systemVars(Runs /\ StartPublisher) /\ WF_systemVars(Runs /\ StartSubscriber)
  /\ WF_systemVars(Runs /\ Send)
  /\ WF_systemVars(Runs /\ TakeConnect /\ UNCHANGED subVars)
  /\ WF_systemVars(Runs /\ TakeDisconnect /\ UNCHANGED subVars)
  /\ WF_systemVars(Runs /\ (SendPublish \/ SendPublishFails) /\ UNCHANGED subVars)
  /\ WF_systemVars(Runs /\ (WriteComplete \/ WriteFails) /\ UNCHANGED subVars)
  /\ WF_systemVars(Runs /\ "error" \in ending /\ Close /\ UNCHANGED subVars)
  /\ WF_systemVars(Turret)
  /\ WF_systemVars(Runs /\ (Sub!TakeConnect \/ Sub!ConnectFails) /\ UNCHANGED vars)
  /\ WF_systemVars(Runs /\ (Sub!SendSubscribe \/ Sub!SendSubscribeFails) /\ UNCHANGED vars)
  /\ WF_systemVars(Runs /\ Sub!TakeDisconnect /\ UNCHANGED vars)
  /\ WF_systemVars(Runs /\ MessageArrived)
  /\ WF_systemVars(Sub!Broker /\ UNCHANGED vars)

-----------------------------------------------------------------------------
(* Properties.                                                              *)

(* What CommandLink and SwitchLink assume of each other holds: joined in    *)
(* one program each behaves as its own specification says.  In particular   *)
(* no message of the user arrives before main is through with mqtt_init.    *)
ImplementsLinks == Spec /\ Sub!Spec

(* From the user to the turret: when the last message the user has left on  *)
(* the topic says off, no fault has cost the subscription and both          *)
(* connections stand in the end, the switch goes off, the buffer and the    *)
(* socket run empty and the turret comes to rest.                           *)
OffMeansRest ==
  /\ Retain /\ []~cut
  /\ <>[](link = "up" /\ subLink = "up" /\ board = "???")
  => <>[](/\ Teasing_sw = 0 /\ pc = "run"
          /\ buffer = <<>> /\ writing = <<>> /\ socket = <<>>)
=============================================================================
