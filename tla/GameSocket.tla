----------------------------- MODULE GameSocket -----------------------------
(***************************************************************************)
(* The browser's side of an online connection, fe/src/services/socket.js:  *)
(* one GameSocket object that opens WebSockets, buffers what is sent while *)
(* none is open, and opens a new one when the last has closed.             *)
(*                                                                         *)
(* The operations are functions of its state; the modules that use them    *)
(* hold it in a variable.  It is kept together with the WebSockets the     *)
(* browser still holds for it, which outlive the reference this.ws: one    *)
(* that was told to close ends later, and its onclose runs then.  Status   *)
(* and backoff are only displayed and are left out, the retry delay may be *)
(* of any length.                                                          *)
(***************************************************************************)
EXTENDS Naturals, Sequences, FiniteSetsExt

CONSTANTS
  MaxSockets,  \* bound: WebSockets the browser holds at one time
  MaxPending,  \* bound: messages in the buffer, or on their way on a socket
  MaxStrays    \* bound: reconnect timers nobody refers to any more

ASSUME SocketAssumption ==
  /\ MaxSockets \in Nat \ {0}
  /\ MaxPending \in Nat \ {0}
  /\ MaxStrays \in Nat

Sockets == 1 .. MaxSockets
NoSocket == 0

(* ws, wanted (shouldReconnect), queue; timer and strays are the reconnect  *)
(* timers, the one _reconnectTimer names and those it no longer does; state *)
(* is the readyState of every WebSocket, "none" once it is gone, and sent   *)
(* what is on its way to the server.                                        *)
NewGameSocket ==
  [ws |-> NoSocket, wanted |-> FALSE, queue |-> <<>>, timer |-> FALSE,
   strays |-> 0, state |-> [s \in Sockets |-> "none"],
   sent |-> [s \in Sockets |-> <<>>]]

IsOpen(l, s) == s \in Sockets /\ l.state[s] = "open"
Live(l, s) == s \in Sockets /\ l.state[s] \in {"connecting", "open"}
Unused(l) == {s \in Sockets : l.state[s] = "none"}

(* The browser has room for what an operation needs: a socket, a message.   *)
CanOpen(l) == l.ws # NoSocket \/ Unused(l) # {}
CanSend(l) ==
  Len(IF IsOpen(l, l.ws) THEN l.sent[l.ws] ELSE l.queue) < MaxPending

-----------------------------------------------------------------------------
(* _open: nothing to do while there is a WebSocket.                         *)
OpenSocket(l) ==
  IF l.ws # NoSocket THEN l
  ELSE LET s == Min(Unused(l))
       IN [l EXCEPT !.ws = s, !.state[s] = "connecting"]

(* connect.                                                                 *)
Connect(l, token) ==
  IF token THEN OpenSocket([l EXCEPT !.wanted = TRUE]) ELSE l

(* Broken: what is sent before the socket is open is lost.                  *)
SendIfOpen(l, m) ==
  IF IsOpen(l, l.ws) THEN [l EXCEPT !.sent[l.ws] = Append(@, m)] ELSE l

(* send.                                                                    *)
Send(l, m) ==
  IF IsOpen(l, l.ws) THEN [l EXCEPT !.sent[l.ws] = Append(@, m)]
                     ELSE [l EXCEPT !.queue = Append(@, m)]

(* Broken: the buffer outlives the connection it was meant for.             *)
DisconnectKeepsQueue(l) ==
  [l EXCEPT !.wanted = FALSE, !.timer = FALSE, !.ws = NoSocket,
            !.state = [s \in Sockets |-> IF s = l.ws THEN "closing" ELSE @[s]]]

(* disconnect: no reconnect, no buffer, no timer, and the WebSocket closes. *)
Disconnect(l) ==
  [l EXCEPT !.wanted = FALSE, !.queue = <<>>, !.timer = FALSE,
            !.ws = NoSocket,
            !.state = [s \in Sockets |-> IF s = l.ws THEN "closing" ELSE @[s]]]

(* onopen: the buffer goes out on the WebSocket that opened.                *)
Opened(l, s) ==
  [l EXCEPT !.state[s] = "open", !.sent[s] = l.queue, !.queue = <<>>]

(* Broken: a socket that was told to reconnect does so only once.           *)
ClosedOnce(l, s) ==
  [l EXCEPT !.ws = NoSocket, !.state[s] = "none", !.sent[s] = <<>>]

(* onclose of WebSocket s.  It clears this.ws whichever WebSocket that is,  *)
(* and overwrites _reconnectTimer, whose timer still fires.                 *)
Closed(l, s) ==
  [l EXCEPT !.ws = NoSocket, !.state[s] = "none", !.sent[s] = <<>>,
            !.timer = @ \/ l.wanted,
            !.strays = IF l.wanted /\ l.timer THEN @ + 1 ELSE @]

(* Broken: a timer opens a socket although nobody wants one any more.       *)
ReopenAnyway(l, token) == IF token THEN OpenSocket(l) ELSE l

(* What a reconnect timer does.                                             *)
Reopen(l, token) == IF l.wanted /\ token THEN OpenSocket(l) ELSE l

TimerFired(l, token) == Reopen([l EXCEPT !.timer = FALSE], token)
StrayFired(l, token) == Reopen([l EXCEPT !.strays = @ - 1], token)
=============================================================================
