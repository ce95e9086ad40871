------------------------------- MODULE Monitor -------------------------------
(***************************************************************************)
(* The plugin's WebSocket monitor (plugin/src/monitor.ts) and the outbound *)
(* path that uses it (plugin/src/outbound.ts): one loop that connects and  *)
(* reconnects, event handlers on its sockets, calls of stop(), and a chain *)
(* of sends of which each waits for the acknowledgement of the one before. *)
(*                                                                         *)
(* JavaScript runs one callback at a time, so an action is an event with   *)
(* everything that runs in the same turn: the close event of a socket      *)
(* rejects the pending send and moves every coroutine that awaits it.      *)
(***************************************************************************)
EXTENDS Naturals, Sequences

CONSTANTS Sends,       \* calls of sendClawMsgMessage
          Callers,     \* calls of stop(): the abort listener, stopAccount
          None,
          MaxSockets   \* how many sockets the loop may create

ASSUME NoneIsNothing == None \notin Sends /\ None \notin Nat
ASSUME MaxSocketsIsNat == MaxSockets \in Nat

Sockets == 1..MaxSockets

VARIABLES
    ws,             \* socket -> its readyState; "none" before it is created
    attached,       \* sockets that attachEventHandlers was called for
    socket,         \* the variable socket
    connected,      \* the variable connected
    stopRequested,  \* the variable stopRequested
    loop,           \* where connectLoop awaits, and the socket it awaits
    stops,          \* caller -> the same for its stop()
    chain,          \* sendQueue: the sends in the order of their calls
    result,         \* send -> how its promise stands
    pendingAck,     \* the send whose ack is awaited
    acked,          \* send -> the message that its acknowledgement was for
    wire,           \* socket -> frames the broker has not answered
    outcome,        \* send -> what sendClawMsgMessage made of it
    written         \* history: the sends whose frame was written

connection == <<ws, attached, socket, connected, stopRequested, loop, stops>>
sending == <<chain, result, pendingAck, acked, wire, outcome, written>>
vars == <<ws, attached, socket, connected, stopRequested, loop, stops,
          chain, result, pendingAck, acked, wire, outcome, written>>

-----------------------------------------------------------------------------
States == {"none", "connecting", "open", "closing", "closed"}

At(place, w) == [at |-> place, on |-> w]

(* How a promise of sendQueue was rejected.                                *)
Rejections == {"not connected", "timed out", "socket closed"}

Rejected(s) == result[s] \in Rejections

(* The sockets that closeSocket closes, and waits for.                     *)
Closable(states) == {w \in Sockets : states[w] \in {"connecting", "open"}}

IsConnected == connected /\ socket # None /\ ws[socket] = "open"

Init ==
    /\ ws = [w \in Sockets |-> "none"]
    /\ attached = {}
    /\ socket = None
    /\ connected = FALSE
    /\ stopRequested = FALSE
    /\ loop = At("delay", None)
    /\ stops = [c \in Callers |-> At("idle", None)]
    /\ chain = << >>
    /\ result = [s \in Sends |-> "none"]
    /\ pendingAck = None
    /\ acked = [s \in Sends |-> None]
    /\ wire = [w \in Sockets |-> << >>]
    /\ outcome = [s \in Sends |-> "none"]
    /\ written = {}

-----------------------------------------------------------------------------
(* connectLoop, closeSocket and stop.                                      *)

(* A mutant of ClearPendingAck: the promise is forgotten.                  *)
ClearPendingAckSilently(clear) ==
    /\ pendingAck' = IF clear THEN None ELSE pendingAck
    /\ UNCHANGED result

(* clearPendingAck rejects the send that waits for its acknowledgement.    *)
ClearPendingAck(clear) ==
    /\ pendingAck' = IF clear THEN None ELSE pendingAck
    /\ result' = [s \in Sends |-> IF clear /\ s = pendingAck THEN "socket closed"
                                  ELSE result[s]]

(* A new WebSocket becomes the socket; states is ws so far.                *)
Open(states) ==
    \E w \in Sockets :
        /\ states[w] = "none"
        /\ \A v \in Sockets : states[v] = "none" => w <= v
        /\ ws' = [states EXCEPT ![w] = "connecting"]
        /\ socket' = w
        /\ loop' = At("opening", w)

(* A mutant of EndLoop: the runner's finally clause does not close.        *)
EndLoopOnly(states) ==
    /\ ws' = states
    /\ socket' = socket
    /\ loop' = At("ended", None)

(* The loop is left: the runner's finally clause closes the socket.        *)
EndLoop(states) ==
    /\ socket' = None
    /\ IF socket \in Closable(states)
       THEN ws' = [states EXCEPT ![socket] = "closing"] /\ loop' = At("ending", socket)
       ELSE ws' = states /\ loop' = At("ended", None)

(* An attempt is over, by an error or by the end of its session.           *)
EndAttempt(states) ==
    IF stopRequested THEN EndLoop(states)
    ELSE ws' = states /\ loop' = At("delay", None) /\ UNCHANGED socket

(* A mutant of Attempt: the old socket is dropped and not closed.          *)
AttemptAnew ==
    /\ loop.at = "delay" /\ ~ stopRequested
    /\ \E w \in Sockets : ws[w] = "none"
    /\ connected' = FALSE
    /\ Open(ws)
    /\ UNCHANGED <<attached, stopRequested, stops, sending>>

(* After the delay, or at the start: await closeSocket(), new WebSocket.   *)
(* The number of sockets is capped by MaxSockets.                          *)
Attempt ==
    /\ loop.at = "delay" /\ ~ stopRequested
    /\ \E w \in Sockets : ws[w] = "none"
    /\ connected' = FALSE
    /\ IF socket \in Closable(ws)
       THEN /\ ws' = [ws EXCEPT ![socket] = "closing"]
            /\ loop' = At("closing", socket)
            /\ socket' = None
       ELSE Open(ws)
    /\ UNCHANGED <<attached, stopRequested, stops, sending>>

(* After the delay a stop was requested: the loop ends.                    *)
LeaveLoop ==
    /\ loop.at = "delay" /\ stopRequested
    /\ connected' = FALSE
    /\ EndLoop(ws)
    /\ ClearPendingAck(TRUE)
    /\ UNCHANGED <<attached, stopRequested, stops, chain, acked, wire, outcome, written>>

(* The socket is open: the auth frame is sent.                             *)
Opened(w) ==
    /\ ws[w] = "connecting" /\ loop = At("opening", w)
    /\ ws' = [ws EXCEPT ![w] = "open"]
    /\ loop' = At("authing", w)
    /\ UNCHANGED <<attached, socket, connected, stopRequested, stops, sending>>

(* auth.ok arrives, which it still may when stop() has begun to close.     *)
AuthOk(w) ==
    /\ loop = At("authing", w) /\ ws[w] \in {"open", "closing"}
    /\ connected' = TRUE
    /\ attached' = attached \cup {w}
    /\ loop' = At("serving", w)
    /\ UNCHANGED <<ws, socket, stopRequested, stops, sending>>

(* auth.fail, a frame that cannot be parsed, or no answer in time; the     *)
(* socket stays as it is until the next attempt closes it.                 *)
AuthFails(w) ==
    /\ loop = At("authing", w)
    /\ EndAttempt(ws)
    /\ connected' = (connected /\ ~ stopRequested)
    /\ ClearPendingAck(stopRequested)
    /\ UNCHANGED <<attached, stopRequested, stops, chain, acked, wire, outcome, written>>

(* The broker closes, or the link breaks.                                  *)
PeerCloses(w) ==
    /\ ws[w] = "open"
    /\ ws' = [ws EXCEPT ![w] = "closing"]
    /\ UNCHANGED <<attached, socket, connected, stopRequested, loop, stops, sending>>

(* The close event, of a socket that is being closed or that could not be  *)
(* opened: event handlers, connectLoop and stop() react to it.             *)
Closed(w) ==
    /\ ws[w] \in {"connecting", "closing"}
    /\ LET now == [ws EXCEPT ![w] = "closed"]
           ends == loop.on = w /\ loop.at \in {"opening", "authing", "serving"}
       IN /\ connected' = (connected /\ w \notin attached /\ ~ (ends /\ stopRequested))
          /\ ClearPendingAck(w \in attached \/ (ends /\ stopRequested))
          /\ \/ ends /\ EndAttempt(now)
             \/ loop = At("closing", w) /\ Open(now)
             \/ loop = At("ending", w) /\ ws' = now
                /\ loop' = At("ended", None) /\ UNCHANGED socket
             \/ loop.on # w /\ ws' = now /\ UNCHANGED <<loop, socket>>
          /\ stops' = [c \in Callers |-> IF stops[c] = At("closing", w)
                                         THEN At("waiting", None) ELSE stops[c]]
    /\ UNCHANGED <<attached, stopRequested, chain, acked, wire, outcome, written>>

(* A mutant of Stop: the socket is let go but not closed.                  *)
StopWithoutClosing(c) ==
    /\ stops[c].at = "idle"
    /\ stopRequested' = TRUE
    /\ connected' = FALSE
    /\ socket' = None
    /\ stops' = [stops EXCEPT ![c] = At("waiting", None)]
    /\ UNCHANGED <<ws, attached, loop, sending>>

(* stop(): closeSocket, then wait for the runner.                          *)
Stop(c) ==
    /\ stops[c].at = "idle"
    /\ stopRequested' = TRUE
    /\ connected' = FALSE
    /\ socket' = None
    /\ IF socket \in Closable(ws)
       THEN /\ ws' = [ws EXCEPT ![socket] = "closing"]
            /\ stops' = [stops EXCEPT ![c] = At("closing", socket)]
       ELSE /\ stops' = [stops EXCEPT ![c] = At("waiting", None)]
            /\ UNCHANGED ws
    /\ UNCHANGED <<attached, loop, sending>>

StopReturns(c) ==
    /\ stops[c].at = "waiting" /\ loop.at = "ended"
    /\ stops' = [stops EXCEPT ![c] = At("done", None)]
    /\ UNCHANGED <<ws, attached, socket, connected, stopRequested, loop, sending>>

-----------------------------------------------------------------------------
(* sendText and sendClawMsgMessage.                                        *)

(* A message is to be sent: over HTTP, or at the end of the chain.         *)
Send(s) ==
    /\ outcome[s] = "none"
    /\ IF IsConnected
       THEN /\ chain' = Append(chain, s)
            /\ result' = [result EXCEPT ![s] = "queued"]
            /\ outcome' = [outcome EXCEPT ![s] = "waiting"]
       ELSE /\ outcome' = [outcome EXCEPT ![s] = "http"]
            /\ UNCHANGED <<chain, result>>
    /\ UNCHANGED <<pendingAck, acked, wire, written, connection>>

(* The sends whose results the then() of s awaits: the one before, if any. *)
Before(s) ==
    {p \in Sends : \E i \in 1..(Len(chain) - 1) : chain[i] = p /\ chain[i + 1] = s}

(* A mutant of MayRun: a failed send does not stop the next.               *)
MayRunAfterFailure(s) ==
    result[s] = "queued" /\ \A p \in Before(s) : result[p] = "acked" \/ Rejected(p)

(* The callback of then() runs when the promise before is fulfilled.       *)
MayRun(s) == result[s] = "queued" /\ \A p \in Before(s) : result[p] = "acked"

(* It writes the frame, or throws.                                         *)
Write(s) ==
    /\ MayRun(s)
    /\ IF IsConnected
       THEN /\ pendingAck' = s
            /\ wire' = [wire EXCEPT ![socket] = Append(@, s)]
            /\ result' = [result EXCEPT ![s] = "written"]
            /\ written' = written \cup {s}
       ELSE /\ result' = [result EXCEPT ![s] = "not connected"]
            /\ UNCHANGED <<pendingAck, wire, written>>
    /\ UNCHANGED <<chain, acked, outcome, connection>>

(* A rejected promise rejects the next with the same error.                *)
PassOn(s) ==
    /\ result[s] = "queued"
    /\ \E p \in Before(s) : Rejected(p) /\ result' = [result EXCEPT ![s] = result[p]]
    /\ UNCHANGED <<chain, pendingAck, acked, wire, outcome, written, connection>>

(* A message.ack frame resolves whichever send is pending.                 *)
AckArrives(w) ==
    /\ wire[w] # << >> /\ ws[w] \in {"open", "closing"} /\ w \in attached
    /\ wire' = [wire EXCEPT ![w] = Tail(@)]
    /\ IF pendingAck = None THEN UNCHANGED <<result, acked>>
       ELSE /\ result' = [result EXCEPT ![pendingAck] = "acked"]
            /\ acked' = [acked EXCEPT ![pendingAck] = Head(wire[w])]
    /\ pendingAck' = None
    /\ UNCHANGED <<chain, outcome, written, connection>>

(* The broker answers a message with an error frame, which is only logged. *)
ErrorArrives(w) ==
    /\ wire[w] # << >> /\ ws[w] \in {"open", "closing"}
    /\ wire' = [wire EXCEPT ![w] = Tail(@)]
    /\ UNCHANGED <<chain, result, pendingAck, acked, outcome, written, connection>>

(* A mutant of Timeout: pendingAck is kept.                                *)
TimeoutOnly(s) ==
    /\ pendingAck = s
    /\ result' = [result EXCEPT ![s] = "timed out"]
    /\ UNCHANGED <<chain, pendingAck, acked, wire, outcome, written, connection>>

(* ACK_TIMEOUT_MS have passed.                                             *)
Timeout(s) ==
    /\ pendingAck = s
    /\ pendingAck' = None
    /\ result' = [result EXCEPT ![s] = "timed out"]
    /\ UNCHANGED <<chain, acked, wire, outcome, written, connection>>

(* The callback of current.send() reports an error.                        *)
WriteFails(s) ==
    /\ result[s] = "written"
    /\ \E w \in Sockets :
          /\ ws[w] \in {"closing", "closed"}
          /\ \E i \in 1..Len(wire[w]) : wire[w][i] = s
    /\ pendingAck' = None
    /\ result' = [result EXCEPT ![s] = "socket closed"]
    /\ UNCHANGED <<chain, acked, wire, outcome, written, connection>>

(* A mutant of Falls: every failed send is repeated over HTTP.             *)
FallsAlways(s) == Rejected(s)

(* Only the error "not connected" makes outbound.ts fall back to HTTP.     *)
Falls(s) == result[s] = "not connected"

(* sendClawMsgMessage learns the result.                                   *)
Settle(s) ==
    /\ outcome[s] = "waiting"
    /\ result[s] = "acked" \/ Rejected(s)
    /\ outcome' = [outcome EXCEPT ![s] = IF result[s] = "acked" THEN "ws"
                                         ELSE IF Falls(s) THEN "http" ELSE "error"]
    /\ UNCHANGED <<chain, result, pendingAck, acked, wire, written, connection>>

-----------------------------------------------------------------------------
ConnectionStep ==
    \/ Attempt \/ LeaveLoop
    \/ \E w \in Sockets :
          Opened(w) \/ AuthOk(w) \/ AuthFails(w) \/ PeerCloses(w) \/ Closed(w)
    \/ \E c \in Callers : Stop(c) \/ StopReturns(c)

SendStep ==
    \/ \E s \in Sends :
          Send(s) \/ Write(s) \/ PassOn(s) \/ Timeout(s) \/ WriteFails(s) \/ Settle(s)
    \/ \E w \in Sockets : AckArrives(w) \/ ErrorArrives(w)

Next == ConnectionStep \/ SendStep

Spec == Init /\ [][Next]_vars

(* Timers fire, callbacks run, and a socket that is being opened or closed *)
(* is closed in the end.  Nothing makes the broker accept or answer.       *)
Fairness ==
    /\ WF_vars(Attempt) /\ WF_vars(LeaveLoop)
    /\ \A w \in Sockets : WF_vars(AuthFails(w)) /\ WF_vars(Closed(w))
    /\ \A c \in Callers : WF_vars(StopReturns(c))
    /\ \A s \in Sends : /\ WF_vars(Write(s)) /\ WF_vars(PassOn(s))
                        /\ WF_vars(Timeout(s)) /\ WF_vars(Settle(s))

FairSpec == Spec /\ Fairness

-----------------------------------------------------------------------------
(* Properties                                                              *)

Places == {"delay", "closing", "opening", "authing", "serving", "ending", "ended"}

TypeOK ==
    /\ ws \in [Sockets -> States]
    /\ attached \subseteq Sockets
    /\ socket \in Sockets \cup {None}
    /\ connected \in BOOLEAN /\ stopRequested \in BOOLEAN
    /\ loop \in [at : Places, on : Sockets \cup {None}]
    /\ stops \in [Callers -> [at : {"idle", "closing", "waiting", "done"},
                              on : Sockets \cup {None}]]
    /\ \A i \in 1..Len(chain) : chain[i] \in Sends
    /\ result \in [Sends -> {"none", "queued", "written", "acked"} \cup Rejections]
    /\ pendingAck \in Sends \cup {None}
    /\ pendingAck # None => result[pendingAck] = "written"
    /\ acked \in [Sends -> Sends \cup {None}]
    /\ \A w \in Sockets : \A i \in 1..Len(wire[w]) : wire[w][i] \in Sends
    /\ outcome \in [Sends -> {"none", "waiting", "ws", "http", "error"}]
    /\ written \subseteq Sends

(* A message reported as delivered was acknowledged itself: although any   *)
(* message.ack resolves the pending send, the late answer to one that      *)
(* timed out is never taken for the answer to a later one.                 *)
AckMatchesSend ==
    \A s \in Sends : outcome[s] = "ws" => acked[s] = s

(* The fall-back to HTTP never repeats a message that was written to a     *)
(* socket, where the broker may have taken it.                             *)
NeverSentTwice == \A s \in written : outcome[s] # "http"

(* The loop never holds two connections: the broker would deliver every    *)
(* message on both.                                                        *)
OneSocket == \A v, w \in Closable(ws) : v = w

(* Once stop() has returned nothing is open, nothing waits for an          *)
(* acknowledgement, and so it stays.                                       *)
StoppedIsClosed ==
    (\E c \in Callers : stops[c].at = "done") =>
        Closable(ws) = {} /\ ~ connected /\ pendingAck = None

(* No send hangs: whatever becomes of its socket and of the sends before,  *)
(* it is reported as sent or as failed.                                    *)
SendsSettle == \A s \in Sends : outcome[s] = "waiting" ~> outcome[s] # "waiting"

(* stop() returns, unless it catches the loop while that waits for an old  *)
(* socket to close.                                                        *)
StopUsuallyReturns ==
    \A c \in Callers :
        stops[c].at # "idle" /\ socket = None /\ loop.at # "closing"
            ~> stops[c].at = "done"
=============================================================================
