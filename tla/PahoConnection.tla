--------------------------- MODULE PahoConnection ---------------------------
(***************************************************************************)
(* One client of the Paho MQTT C library (src/mqttlib/paho), as the        *)
(* program uses it: MQTT 5, a clean start, no session expiry, one server,  *)
(* automaticReconnect = 1.  Its connection, and what becomes of the        *)
(* callbacks onSuccess5 and onFailure5 handed over in the connect options. *)
(*                                                                         *)
(* The library's send thread takes the commands CONNECT and DISCONNECT     *)
(* off the head of the command queue; its receive thread completes the     *)
(* connection or closes it.  All take mqttasync_mutex, so each of their    *)
(* steps is atomic.  A queued CONNECT carries its own copy of the          *)
(* callbacks: taken off the queue when the connection is already being     *)
(* made, or stands, it still overwrites the callbacks of the client.       *)
(***************************************************************************)
VARIABLES
  link,       \* "idle", "connecting", "up"
  armed,      \* m->connect.onSuccess5 and onFailure5 are still set
  conn,       \* the queued CONNECT: "none", "armed" or "bare" of callbacks
  retrying,   \* m->retrying
  ending      \* what is about to close the connection: "disconnect", an
              \* internal DISCONNECT at the head of the queue; "error", a
              \* socket error the receive thread has seen

connection == <<link, armed, conn, retrying, ending>>

ConnectionTypes ==
  /\ link \in {"idle", "connecting", "up"}
  /\ armed \in BOOLEAN
  /\ conn \in {"none", "armed", "bare"}
  /\ retrying \in BOOLEAN
  /\ ending \subseteq {"disconnect", "error"}

Unconnected ==
  /\ link = "idle" /\ armed = FALSE /\ conn = "none"
  /\ retrying = FALSE /\ ending = {}

(* MQTTAsync_connect queues the CONNECT and returns.                        *)
QueueConnect ==
  /\ conn' = "armed" /\ armed' = TRUE
  /\ UNCHANGED <<link, retrying, ending>>

(* processCommand: the TCP connection is begun, or the CONNECT comes too    *)
(* late; m->connect becomes the command.                                    *)
StartConnect ==
  /\ conn # "none" /\ conn' = "none"
  /\ armed' = (conn = "armed")
  /\ link' = IF link = "idle" THEN "connecting" ELSE link
  /\ UNCHANGED <<retrying, ending>>

(* processCommand: no TCP connection.  The command's onFailure5, if it has  *)
(* one, is called and kept.                                                 *)
ConnectError ==
  /\ conn # "none" /\ link = "idle"
  /\ conn' = "none"
  /\ armed' = (conn = "armed")
  /\ retrying' = TRUE
  /\ UNCHANGED <<link, ending>>

(* checkTimeouts, on the send thread, which first empties the queue of      *)
(* CONNECT and DISCONNECT.                                                  *)
QueueReconnect ==
  /\ retrying /\ conn = "none" /\ "disconnect" \notin ending
  /\ conn' = IF armed THEN "armed" ELSE "bare"
  /\ UNCHANGED <<link, armed, retrying, ending>>

(* completeConnection: a good CONNACK; onSuccess5 is called if armed, and   *)
(* neither callback is kept.                                                *)
Connack ==
  /\ link = "connecting" /\ link' = "up"
  /\ armed' = FALSE /\ retrying' = FALSE
  /\ UNCHANGED <<conn, ending>>

(* nextOrClose, after a bad CONNACK, a timeout, a missing PINGRESP or a     *)
(* closed socket: onFailure5 is called if armed, neither callback is kept.  *)
NextOrClose ==
  /\ link # "idle" /\ link' = "idle"
  /\ armed' = FALSE /\ retrying' = TRUE
  /\ ending' = ending \ {"error"}
  /\ UNCHANGED conn

(* processCommand: neither CONNECT nor DISCONNECT is at the head of the      *)
(* queue, and the connection stands: other commands may go out.             *)
Ready == link = "up" /\ conn = "none" /\ "disconnect" \notin ending

(* A command could not be written: the send thread queues a DISCONNECT.     *)
DisconnectInternal ==
  /\ Ready
  /\ ending' = ending \cup {"disconnect"}
  /\ UNCHANGED <<link, armed, conn, retrying>>

(* processCommand, checkDisconnect: the DISCONNECT closes the session, if   *)
(* the receive thread has not done so.  In the middle of a connection       *)
(* attempt onFailure5 is called if armed, and neither callback is kept.     *)
GivesUpAttempt == armed /\ link = "connecting"
Disconnect ==
  /\ "disconnect" \in ending /\ ending' = {}
  /\ link' = "idle"
  /\ armed' = (armed /\ ~GivesUpAttempt)
  /\ retrying' = (retrying \/ link # "idle")
  /\ UNCHANGED conn
=============================================================================
