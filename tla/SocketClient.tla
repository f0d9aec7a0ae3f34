---------------------------- MODULE SocketClient ----------------------------
(***************************************************************************)
(* ConversationSocketClient: the one WebSocket of a browser tab, and the   *)
(* WebSocket server's subscription behind it. The socket's URL names the   *)
(* conversation, so a socket delivers the frames of the conversation that  *)
(* was wanted when it was opened, in the order they were published.        *)
(***************************************************************************)
EXTENDS Naturals, Sequences

CONSTANTS Conversations,
          None           \* no conversation

ASSUME NoneAssumption == None \notin Conversations

VARIABLES
  wanted,  \* conversationId; it is None exactly when the close was intentional
  socket,  \* ws: "none", "connecting", "open", or "closed" before its onclose
  timer,   \* reconnectTimer is set
  inbox    \* frames on their way to the open socket

socketVars == <<wanted, socket, timer, inbox>>

\* At most one connection is made at a time, and none without a conversation.
SocketTypeOK ==
  /\ wanted \in Conversations \union {None}
  /\ socket \in {"none", "connecting", "open", "closed"}
  /\ timer \in BOOLEAN
  /\ timer => socket = "none"
  /\ wanted = None => socket = "none" /\ ~timer

\* The page is opened at a conversation, or at none.
SocketInit(c) ==
  /\ wanted = c
  /\ socket = IF c = None THEN "none" ELSE "connecting"
  /\ timer = FALSE /\ inbox = <<>>

-----------------------------------------------------------------------------
(* Calls of the page                                                       *)

Connected(c) == wanted = c /\ socket \in {"connecting", "open"}

\* connect: the old socket loses its handlers and is closed, the timer cleared.
Connect(c) ==
  IF Connected(c) THEN UNCHANGED socketVars
  ELSE /\ wanted' = c
       /\ socket' = "connecting" /\ timer' = FALSE /\ inbox' = <<>>

Disconnect ==
  /\ wanted' = None
  /\ socket' = "none" /\ timer' = FALSE /\ inbox' = <<>>

-----------------------------------------------------------------------------
(* Events of the socket                                                    *)

\* The server's open subscribes the socket.
Opens ==
  /\ socket = "connecting"
  /\ socket' = "open"
  /\ UNCHANGED <<wanted, timer, inbox>>

\* The connection fails or is lost, with what had not arrived.
Drops ==
  /\ socket \in {"connecting", "open"}
  /\ socket' = "closed" /\ inbox' = <<>>
  /\ UNCHANGED <<wanted, timer>>

\* Mutant of OnClose: nobody reconnects.
OnCloseGivesUp ==
  /\ socket = "closed"
  /\ socket' = "none"
  /\ UNCHANGED <<wanted, timer, inbox>>

\* onclose: teardownSocket removes the handler, so the close was not intentional.
\* A timer that is set already stays.
OnClose ==
  /\ socket = "closed"
  /\ socket' = "none" /\ timer' = TRUE
  /\ UNCHANGED <<wanted, inbox>>

\* The backoff only sets the delay.
TimerFires ==
  /\ timer
  /\ timer' = FALSE
  /\ socket' = IF wanted # None THEN "connecting" ELSE socket
  /\ UNCHANGED <<wanted, inbox>>

\* The WebSocket server relays a frame to the sockets subscribed at that time.
Publish(c, frame) ==
  /\ inbox' = IF socket = "open" /\ wanted = c THEN Append(inbox, frame) ELSE inbox
  /\ UNCHANGED <<wanted, socket, timer>>

=============================================================================
