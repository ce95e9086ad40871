------------------------------ MODULE Delivery ------------------------------
(***************************************************************************)
(* How the broker delivers messages: WebSocket sessions, the registry of   *)
(* connections, the fan-out of a message, the offline queue and presence   *)
(* (server/routes_ws.py, broker.py, offline_queue.py, presence.py and the  *)
(* send route of routes_messages.py).                                      *)
(*                                                                         *)
(* The broker is one asyncio process: coroutines interleave only where     *)
(* they await.  An action runs a coroutine from one await to the next; a   *)
(* database statement takes effect in the step that its own program        *)
(* counter value announces, and a step that needs no await is part of the  *)
(* action that reaches it.                                                 *)
(***************************************************************************)
EXTENDS Broker, OfflineQueue

CONSTANTS Agents,      \* registered agents (ids)
          Conns,       \* WebSocket connections, each used for one session
          Msgs,        \* messages, each sent once
          Http,        \* a message posted by HTTP arrives over no session
          Nobody,      \* the owner of a connection that is not authenticated
          MaxCrashes   \* how often the broker may die and restart

ASSUME ConnsFinite == IsFiniteSet(Conns)
ASSUME HttpIsNoConn == Http \notin Conns
ASSUME NobodyIsNoAgent == Nobody \notin Agents
ASSUME MaxCrashesIsNat == MaxCrashes \in Nat

VARIABLES
    \* WebSocketBroker._connections
    connections,   \* agent -> the set of its registered sockets
    seat,          \* socket -> its place in the order of registration
    detached,      \* messages whose send_to_agent iterates over a deleted list
    \* websocket_endpoint, one coroutine per connection
    session,       \* connection -> where its coroutine is
    owner,         \* connection -> the agent it authenticated as
    batch,         \* connection -> queued messages still to be flushed to it
    up,            \* connections whose link still works
    inbox,         \* connection -> frames written, not yet seen by the client
    acks,          \* connection -> acks sent by the client, not yet read
    \* the handler of a message.send frame or of POST /messages/
    handler,       \* message -> where its coroutine is
    from, via,     \* message -> its sender, and the session it came over
    todo,          \* message -> agents the fan-out has still to serve
    inRoom,        \* message -> TRUE while the room's members are to be read
    send,          \* message -> the frame of the running send_to_agent
    \* the database
    queue, stale, status,
    \* history: agents a message was meant for, agents of which some socket
    \* took it, agents for which it was stored
    asked, wrote, kept,
    crashes

brokerVars  == <<connections, seat, detached>>
sessionVars == <<session, owner, batch>>
linkVars    == <<up, inbox, acks>>
handlerVars == <<handler, from, via, todo, inRoom, send>>
dbVars      == <<queue, stale, status>>
history     == <<asked, wrote, kept>>

vars == <<brokerVars, sessionVars, linkVars, handlerVars, dbVars, history, crashes>>

-----------------------------------------------------------------------------
(* The locals of send_to_agent: the agent served, the socket being written *)
(* to, how many items the iterator has yielded, and the sockets whose      *)
(* write returned and whose write raised.                                  *)
Frames == [to: Agents \cup {Nobody}, cur: Conns \cup {Http}, next: Nat,
           ok: SUBSET Conns, dead: SUBSET Conns]

NoFrame == [to |-> Nobody, cur |-> Http, next |-> 0, ok |-> {}, dead |-> {}]

(* The sockets a running send_to_agent has awaited, the present one too.   *)
Tried(m) == send[m].ok \cup send[m].dead \cup {send[m].cur}

(* The list a running send_to_agent holds a reference to.                  *)
LiveList(m) == IF m \in detached THEN {} ELSE connections[send[m].to]

(* Coroutines iterating over the list of an agent.                         *)
SendingTo(a) == {m \in Msgs : handler[m] = "sending" /\ send[m].to = a}

(* Sessions that have registered, ever.                                    *)
Registered == {c \in Conns : owner[c] # Nobody}

Init ==
    /\ connections = [a \in Agents |-> {}]
    /\ seat = [c \in Conns |-> 0]
    /\ detached = {}
    /\ session = [c \in Conns |-> "new"]
    /\ owner = [c \in Conns |-> Nobody]
    /\ batch = [c \in Conns |-> {}]
    /\ up = {}
    /\ inbox = [c \in Conns |-> {}]
    /\ acks = [c \in Conns |-> {}]
    /\ handler = [m \in Msgs |-> "idle"]
    /\ from = [m \in Msgs |-> Nobody]
    /\ via = [m \in Msgs |-> Http]
    /\ todo = [m \in Msgs |-> {}]
    /\ inRoom = [m \in Msgs |-> FALSE]
    /\ send = [m \in Msgs |-> NoFrame]
    /\ queue = [row \in Msgs \X Agents |-> "none"]
    /\ stale = {}
    /\ status = [a \in Agents |-> "offline"]
    /\ asked = [m \in Msgs |-> {}]
    /\ wrote = [m \in Msgs |-> {}]
    /\ kept = [m \in Msgs |-> {}]
    /\ crashes = 0

-----------------------------------------------------------------------------
(* A WebSocket session                                                     *)

(* The handshake succeeded: broker.register, then set_online is awaited.   *)
Connect(c, a) ==
    /\ session[c] = "new"
    /\ session' = [session EXCEPT ![c] = "online"]
    /\ owner' = [owner EXCEPT ![c] = a]
    /\ up' = up \cup {c}
    /\ connections' = Register(connections, a, c)
    /\ seat' = [seat EXCEPT ![c] = Cardinality(Registered)]
    /\ UNCHANGED <<detached, batch, inbox, acks, handlerVars, dbVars, history, crashes>>

SetOnline(c) ==
    /\ session[c] = "online"
    /\ status' = [status EXCEPT ![owner[c]] = "online"]
    /\ session' = [session EXCEPT ![c] = "select"]
    /\ UNCHANGED <<brokerVars, owner, batch, linkVars, handlerVars, queue, stale, history, crashes>>

(* flush_for_agent reads the rows; without any it returns at once.         *)
FlushSelect(c) ==
    /\ session[c] = "select"
    /\ batch' = [batch EXCEPT ![c] = SelectPending(queue, stale, Msgs, owner[c])]
    /\ session' = [session EXCEPT ![c] = IF batch'[c] = {} THEN "loop" ELSE "mark"]
    /\ UNCHANGED <<brokerVars, owner, linkVars, handlerVars, dbVars, history, crashes>>

(* A mutant of FlushMark: the rows are read after they were marked.        *)
FlushMarkThenSelect(c) ==
    /\ session[c] = "mark"
    /\ queue' = MarkDelivered(queue, owner[c])
    /\ batch' = [batch EXCEPT ![c] = SelectPending(queue', stale, Msgs, owner[c])]
    /\ session' = [session EXCEPT ![c] = "loop"]
    /\ UNCHANGED <<brokerVars, owner, linkVars, handlerVars, stale, status, history, crashes>>

(* flush_for_agent marks the rows, before anything is written to the socket. *)
FlushMark(c) ==
    /\ session[c] = "mark"
    /\ queue' = MarkDelivered(queue, owner[c])
    /\ session' = [session EXCEPT ![c] = "flush"]
    /\ UNCHANGED <<brokerVars, owner, batch, linkVars, handlerVars, stale, status, history, crashes>>

(* A write that returns: the frame travels to the client if the link is    *)
(* up; on a broken link it is lost and the write may still return.         *)
Write(c, m) == inbox' = IF c \in up THEN [inbox EXCEPT ![c] = @ \cup {m}] ELSE inbox

(* The send loop of the flush, one message.                                *)
FlushSend(c, m) ==
    /\ session[c] = "flush" /\ m \in batch[c]
    /\ Write(c, m)
    /\ wrote' = [wrote EXCEPT ![m] = @ \cup {owner[c]}]
    /\ batch' = [batch EXCEPT ![c] = @ \ {m}]
    /\ session' = [session EXCEPT ![c] = IF batch'[c] = {} THEN "loop" ELSE "flush"]
    /\ UNCHANGED <<brokerVars, owner, up, acks, handlerVars, dbVars, asked, kept, crashes>>

(* A write of the flush raises: break, the rest of the batch is dropped.   *)
FlushBreak(c) ==
    /\ session[c] = "flush" /\ c \notin up
    /\ batch' = [batch EXCEPT ![c] = {}]
    /\ session' = [session EXCEPT ![c] = "loop"]
    /\ UNCHANGED <<brokerVars, owner, linkVars, handlerVars, dbVars, history, crashes>>

(* A message.ack frame: mark_acked for the session's own agent.            *)
HandleAck(c, m) ==
    /\ session[c] = "loop" /\ m \in acks[c]
    /\ acks' = [acks EXCEPT ![c] = @ \ {m}]
    /\ queue' = MarkAcked(queue, m, owner[c])
    /\ UNCHANGED <<brokerVars, sessionVars, up, inbox, handlerVars, stale, status, history, crashes>>

(* unregister, as far as the coroutines iterating over the list see it.    *)
Detach(a, gone) ==
    detached \cup (IF DropsList(connections, a, gone) THEN SendingTo(a) ELSE {})

(* A mutant of Leave: no finally, the coroutine just ends.                 *)
LeaveRegistered(c) ==
    /\ UNCHANGED <<connections, detached>>
    /\ session' = [session EXCEPT ![c] = "offline"]

(* A mutant of Leave: presence is not written.                             *)
LeaveSilently(c) ==
    /\ connections' = Unregister(connections, owner[c], {c})
    /\ detached' = Detach(owner[c], {c})
    /\ session' = [session EXCEPT ![c] = "closed"]

(* The finally clause: unregister at once, then await set_offline.         *)
Leave(c) ==
    /\ connections' = Unregister(connections, owner[c], {c})
    /\ detached' = Detach(owner[c], {c})
    /\ session' = [session EXCEPT ![c] = "offline"]

(* receive_text, a ping or an answer raises since the peer has gone.       *)
Disconnect(c) ==
    /\ session[c] = "loop" /\ c \notin up
    /\ Leave(c)
    /\ UNCHANGED <<seat, owner, batch, linkVars, handlerVars, dbVars, history, crashes>>

(* The loop raises although the link works, and the session ends: a frame  *)
(* that is no JSON object, a message.ack whose payload is none, a database *)
(* error before the fan-out or in mark_acked.                              *)
Abort(c) ==
    /\ session[c] = "loop"
    /\ Leave(c)
    /\ UNCHANGED <<seat, owner, batch, linkVars, handlerVars, dbVars, history, crashes>>

SetOffline(c) ==
    /\ session[c] = "offline"
    /\ status' = [status EXCEPT ![owner[c]] = "offline"]
    /\ session' = [session EXCEPT ![c] = "closed"]
    /\ UNCHANGED <<brokerVars, owner, batch, linkVars, handlerVars, queue, stale, history, crashes>>

-----------------------------------------------------------------------------
(* Sending a message                                                       *)

(* The request passed its checks and the message row was committed.  An    *)
(* agent d is addressed directly, a room is, or both.  A frame occupies    *)
(* its session until the handler is done; an HTTP request has none.        *)
Accept(m, s, v, d, r) ==
    /\ handler[m] = "idle"
    /\ d # Nobody \/ r
    /\ v # Http => session[v] = "loop" /\ owner[v] = s
    /\ handler' = [handler EXCEPT ![m] = "next"]
    /\ from' = [from EXCEPT ![m] = s]
    /\ via' = [via EXCEPT ![m] = v]
    /\ todo' = [todo EXCEPT ![m] = {d} \ {Nobody}]
    /\ asked' = [asked EXCEPT ![m] = {d} \ {Nobody}]
    /\ inRoom' = [inRoom EXCEPT ![m] = r]
    /\ session' = IF v = Http THEN session ELSE [session EXCEPT ![v] = "handling"]
    /\ UNCHANGED <<brokerVars, owner, batch, linkVars, send, dbVars, wrote, kept, crashes>>

(* SELECT agent_id FROM room_members: who is a member at this moment.      *)
ReadMembers(m, members) ==
    /\ handler[m] = "next" /\ todo[m] = {} /\ inRoom[m]
    /\ inRoom' = [inRoom EXCEPT ![m] = FALSE]
    /\ todo' = [todo EXCEPT ![m] = members \ {from[m]}]
    /\ asked' = [asked EXCEPT ![m] = @ \cup (members \ {from[m]})]
    /\ UNCHANGED <<brokerVars, sessionVars, linkVars, handler, from, via, send, dbVars, wrote, kept, crashes>>

(* send_to_agent is called: nobody is connected, or the first write starts. *)
SendToAgent(m, a) ==
    /\ handler[m] = "next" /\ a \in todo[m]
    /\ IF connections[a] = {}
       THEN /\ handler' = [handler EXCEPT ![m] = "enqueue"]
            /\ send' = [send EXCEPT ![m] = [NoFrame EXCEPT !.to = a]]
       ELSE /\ handler' = [handler EXCEPT ![m] = "sending"]
            /\ \E c \in connections[a] :
                 /\ Index(connections[a], seat, c) = 0
                 /\ send' = [send EXCEPT ![m] = [NoFrame EXCEPT !.to = a, !.cur = c, !.next = 1]]
    /\ UNCHANGED <<brokerVars, sessionVars, linkVars, from, via, todo, inRoom, dbVars, history, crashes>>

(* The iterator goes on: the frame f of m's send_to_agent, the item at     *)
(* index f.next of the list as it is now.                                  *)
NextSocket(m, f) ==
    /\ HasNext(LiveList(m), f.next)
    /\ \E c \in LiveList(m) :
         /\ Index(LiveList(m), seat, c) = f.next
         /\ send' = [send EXCEPT ![m] = [f EXCEPT !.cur = c, !.next = @ + 1]]
    /\ UNCHANGED <<connections, detached, handler, todo>>

(* The loop is over: unregister the dead and return.  The handler goes on  *)
(* to its next target, or stores the message for this one.                 *)
Return(m, f) ==
    /\ ~ HasNext(LiveList(m), f.next)
    /\ connections' = Unregister(connections, f.to, f.dead)
    /\ detached' = Detach(f.to, f.dead) \ {m}
    /\ IF Delivered(LiveList(m) \ f.dead, f.dead)
       THEN /\ handler' = [handler EXCEPT ![m] = "next"]
            /\ todo' = [todo EXCEPT ![m] = @ \ {f.to}]
            /\ send' = [send EXCEPT ![m] = NoFrame]
       ELSE /\ handler' = [handler EXCEPT ![m] = "enqueue"]
            /\ send' = [send EXCEPT ![m] = [NoFrame EXCEPT !.to = f.to]]
            /\ UNCHANGED todo

(* await ws.send_text(data) returned.                                      *)
SendOk(m) ==
    /\ handler[m] = "sending"
    /\ Write(send[m].cur, m)
    /\ wrote' = [wrote EXCEPT ![m] = @ \cup {send[m].to}]
    /\ LET f == [send[m] EXCEPT !.ok = @ \cup {send[m].cur}]
       IN NextSocket(m, f) \/ Return(m, f)
    /\ UNCHANGED <<seat, sessionVars, up, acks, from, via, inRoom, dbVars, asked, kept, crashes>>

(* await ws.send_text(data) raised, which takes a broken link.             *)
SendFails(m) ==
    /\ handler[m] = "sending" /\ send[m].cur \notin up
    /\ LET f == [send[m] EXCEPT !.dead = @ \cup {send[m].cur}]
       IN NextSocket(m, f) \/ Return(m, f)
    /\ UNCHANGED <<seat, sessionVars, linkVars, from, via, inRoom, dbVars, history, crashes>>

(* A mutant of Enqueue: the fan-out tries the same agent again.            *)
EnqueueAndRetry(m) ==
    /\ handler[m] = "enqueue"
    /\ queue' = InsertOrIgnore(queue, m, send[m].to)
    /\ kept' = [kept EXCEPT ![m] = @ \cup {send[m].to}]
    /\ handler' = [handler EXCEPT ![m] = "next"]
    /\ send' = [send EXCEPT ![m] = NoFrame]
    /\ UNCHANGED <<brokerVars, sessionVars, linkVars, from, via, todo, inRoom, stale, status, asked, wrote, crashes>>

(* send_to_agent returned False: the message is stored for the agent.      *)
Enqueue(m) ==
    /\ handler[m] = "enqueue"
    /\ queue' = InsertOrIgnore(queue, m, send[m].to)
    /\ kept' = [kept EXCEPT ![m] = @ \cup {send[m].to}]
    /\ todo' = [todo EXCEPT ![m] = @ \ {send[m].to}]
    /\ handler' = [handler EXCEPT ![m] = "next"]
    /\ send' = [send EXCEPT ![m] = NoFrame]
    /\ UNCHANGED <<brokerVars, sessionVars, linkVars, from, via, inRoom, stale, status, asked, wrote, crashes>>

(* Every target was served; "sent" is reported to the sender.  Writing the *)
(* ack to a session whose link broke may raise, which ends that session.   *)
Finish(m) ==
    /\ handler[m] = "next" /\ todo[m] = {} /\ ~ inRoom[m]
    /\ handler' = [handler EXCEPT ![m] = "done"]
    /\ \/ /\ via[m] = Http
          /\ UNCHANGED <<connections, detached, session>>
       \/ /\ via[m] # Http
          /\ session' = [session EXCEPT ![via[m]] = "loop"]
          /\ UNCHANGED <<connections, detached>>
       \/ /\ via[m] # Http /\ via[m] \notin up
          /\ Leave(via[m])
    /\ UNCHANGED <<seat, owner, batch, linkVars, from, via, todo, inRoom, send, dbVars, history, crashes>>

(* The database refuses to read the members of the room or to store the    *)
(* message: the request is answered with an error, or its session ends.    *)
HandlerFails(m) ==
    /\ \/ handler[m] = "enqueue"
       \/ handler[m] = "next" /\ todo[m] = {} /\ inRoom[m]
    /\ handler' = [handler EXCEPT ![m] = "lost"]
    /\ todo' = [todo EXCEPT ![m] = {}]
    /\ inRoom' = [inRoom EXCEPT ![m] = FALSE]
    /\ send' = [send EXCEPT ![m] = NoFrame]
    /\ \/ via[m] = Http /\ UNCHANGED <<connections, detached, session>>
       \/ via[m] # Http /\ Leave(via[m])
    /\ UNCHANGED <<seat, owner, batch, linkVars, from, via, dbVars, history, crashes>>

-----------------------------------------------------------------------------
(* Clients, links, time, errors and crashes                                *)

(* The client reads a message.receive frame and answers with an ack.       *)
ClientAck(c, m) ==
    /\ c \in up /\ m \in inbox[c]
    /\ inbox' = [inbox EXCEPT ![c] = @ \ {m}]
    /\ acks' = [acks EXCEPT ![c] = @ \cup {m}]
    /\ UNCHANGED <<brokerVars, sessionVars, up, handlerVars, dbVars, history, crashes>>

(* The link breaks, or is closed by the server after its session ended:    *)
(* what the client has not read is lost, acks it sent may still be in the  *)
(* server's buffer.                                                        *)
LinkDown(c) ==
    /\ c \in up
    /\ up' = up \ {c}
    /\ inbox' = [inbox EXCEPT ![c] = {}]
    /\ UNCHANGED <<brokerVars, sessionVars, acks, handlerVars, dbVars, history, crashes>>

(* OFFLINE_QUEUE_TTL_DAYS pass for a row.                                  *)
Expire(m, a) ==
    /\ queue[<<m, a>>] # "none" /\ <<m, a>> \notin stale
    /\ stale' = stale \cup {<<m, a>>}
    /\ UNCHANGED <<brokerVars, sessionVars, linkVars, handlerVars, queue, status, history, crashes>>

(* cleanup_expired, run by the loop that the lifespan starts.              *)
Cleanup ==
    /\ stale # {}
    /\ queue' = DeleteExpired(queue, stale)
    /\ stale' = {}
    /\ UNCHANGED <<brokerVars, sessionVars, linkVars, handlerVars, status, history, crashes>>

(* The process dies and starts again: the database is all that remains.    *)
Crash ==
    /\ crashes < MaxCrashes
    /\ crashes' = crashes + 1
    /\ connections' = [a \in Agents |-> {}]
    /\ detached' = {}
    /\ session' = [c \in Conns |-> IF session[c] = "new" THEN "new" ELSE "closed"]
    /\ batch' = [c \in Conns |-> {}]
    /\ up' = {}
    /\ inbox' = [c \in Conns |-> {}]
    /\ acks' = [c \in Conns |-> {}]
    /\ handler' = [m \in Msgs |-> IF handler[m] \in {"idle", "done"} THEN handler[m] ELSE "lost"]
    /\ todo' = [m \in Msgs |-> {}]
    /\ inRoom' = [m \in Msgs |-> FALSE]
    /\ send' = [m \in Msgs |-> NoFrame]
    /\ UNCHANGED <<seat, owner, from, via, dbVars, history>>

-----------------------------------------------------------------------------
SessionStep(c) ==
    \/ SetOnline(c)
    \/ FlushSelect(c)
    \/ FlushMark(c)
    \/ \E m \in Msgs : FlushSend(c, m) \/ HandleAck(c, m)
    \/ FlushBreak(c)
    \/ Disconnect(c)
    \/ SetOffline(c)

HandlerStep(m) ==
    \/ \E members \in SUBSET Agents : ReadMembers(m, members)
    \/ \E a \in Agents : SendToAgent(m, a)
    \/ SendOk(m)
    \/ SendFails(m)
    \/ Enqueue(m)
    \/ Finish(m)

Request ==
    \/ \E c \in Conns, a \in Agents : Connect(c, a)
    \/ \E m \in Msgs, s \in Agents, v \in Conns \cup {Http},
          d \in Agents \cup {Nobody}, r \in BOOLEAN : Accept(m, s, v, d, r)

Environment ==
    \/ \E c \in Conns, m \in Msgs : ClientAck(c, m)
    \/ \E c \in Conns : LinkDown(c) \/ Abort(c)
    \/ \E m \in Msgs : HandlerFails(m)
    \/ \E m \in Msgs, a \in Agents : Expire(m, a)
    \/ Cleanup
    \/ Crash

Next ==
    \/ \E c \in Conns : SessionStep(c)
    \/ \E m \in Msgs : HandlerStep(m)
    \/ Request
    \/ Environment

Spec == Init /\ [][Next]_vars

(* The event loop resumes every coroutine whose await completed: sessions  *)
(* and handlers that can run do run.  Nothing obliges a client to connect, *)
(* to send, to acknowledge or to stay, nor an error to happen.             *)
Fairness ==
    /\ \A c \in Conns : WF_vars(SessionStep(c))
    /\ \A m \in Msgs : WF_vars(HandlerStep(m))

LiveSpec == Spec /\ Fairness

-----------------------------------------------------------------------------
(* Properties                                                              *)

TypeOK ==
    /\ connections \in [Agents -> SUBSET Conns]
    /\ seat \in [Conns -> Nat]
    /\ detached \subseteq Msgs
    /\ session \in [Conns -> {"new", "online", "select", "mark", "flush",
                              "loop", "handling", "offline", "closed"}]
    /\ owner \in [Conns -> Agents \cup {Nobody}]
    /\ batch \in [Conns -> SUBSET Msgs]
    /\ up \subseteq Conns
    /\ inbox \in [Conns -> SUBSET Msgs]
    /\ acks \in [Conns -> SUBSET Msgs]
    /\ handler \in [Msgs -> {"idle", "next", "sending", "enqueue", "done", "lost"}]
    /\ from \in [Msgs -> Agents \cup {Nobody}]
    /\ via \in [Msgs -> Conns \cup {Http}]
    /\ todo \in [Msgs -> SUBSET Agents]
    /\ inRoom \in [Msgs -> BOOLEAN]
    /\ send \in [Msgs -> Frames]
    /\ queue \in [Msgs \X Agents -> RowStatus]
    /\ stale \subseteq Msgs \X Agents
    /\ status \in [Agents -> {"online", "offline"}]
    /\ asked \in [Msgs -> SUBSET Agents]
    /\ wrote \in [Msgs -> SUBSET Agents]
    /\ kept \in [Msgs -> SUBSET Agents]
    /\ crashes \in 0..MaxCrashes

(* A message reported as sent was, for every agent it was meant for,       *)
(* written to some socket of that agent or stored in the offline queue:    *)
(* however registration, disconnection and other sends interleave with     *)
(* send_to_agent, it never claims a delivery that no write backs.          *)
Accounted ==
    \A m \in Msgs : handler[m] = "done" => asked[m] \subseteq wrote[m] \cup kept[m]

(* Although the list changes under the iteration, one send_to_agent writes *)
(* a message to no socket twice.                                           *)
OncePerSend ==
    \A m \in Msgs : handler[m] = "sending" => send[m].cur \notin send[m].ok \cup send[m].dead

(* The registry leaks no socket: a registered one belongs to the agent it  *)
(* is listed under and to a session that is still running.                 *)
NoLeakedSocket ==
    \A a \in Agents : \A c \in connections[a] :
        owner[c] = a /\ session[c] \notin {"new", "offline", "closed"}

(* A session that goes on is reachable as long as its link works: neither  *)
(* failed sends of other messages nor the end of other sessions of its     *)
(* agent unregister it.  Only its own end does, which a frame that the     *)
(* loop does not survive may bring about while the link still works.       *)
LiveIsReachable ==
    \A c \in up : session[c] \notin {"offline", "closed"} => c \in connections[owner[c]]

(* Messages reported as sent, and agents with an authenticated session.    *)
Told == {m \in Msgs : handler[m] = "done"}

Attached == {owner[c] : c \in {c \in Conns : session[c] \notin {"new", "closed"}}}

Promise ==
    INSTANCE Mailbox WITH taken <- wrote, stored <- kept, told <- Told,
                          box <- queue, expired <- stale, attached <- Attached

(* The broker keeps the promises of Mailbox: whatever the interleaving of   *)
(* sessions, fan-outs, acks, cleanup and crashes, only agents that a       *)
(* message is meant for are given it; a sender is told "sent" only when    *)
(* each of them was served or has a copy; a copy leaves the queue only     *)
(* into a session of its own agent or by its age; it is acked only after   *)
(* a socket of the same agent took the message, and then for good.         *)
KeepsPromise == Promise!Spec

(* As long as the broker has not crashed, an agent shown as online has a   *)
(* session that will still set it offline.                                 *)
OnlineHasSession ==
    crashes = 0 =>
        \A a \in Agents : status[a] = "online" =>
            \E c \in Conns : owner[c] = a /\ session[c] \notin {"online", "closed"}

(* Every accepted message is fanned out to the end, even though the lists  *)
(* it iterates over may grow meanwhile; only a crash or a database error   *)
(* cuts it short.                                                          *)
HandlersFinish ==
    \A m \in Msgs : handler[m] = "next" ~> handler[m] \in {"done", "lost"}

(* A message that waits, unexpired, when its agent's session comes to read *)
(* the queue is taken out of the queue, unless it expires or the broker    *)
(* crashes first.                                                          *)
ReconnectDrains ==
    \A c \in Conns, m \in Msgs, a \in Agents, n \in 0..MaxCrashes :
        /\ session[c] = "select" /\ owner[c] = a /\ crashes = n
        /\ m \in SelectPending(queue, stale, Msgs, a)
        ~> queue[<<m, a>>] # "pending" \/ <<m, a>> \in stale \/ crashes # n

(* A message the flush has read from the queue is written to a socket of  *)
(* the agent as long as the link of the flushing session holds.            *)
FlushHandsOver ==
    \A c \in Conns, m \in Msgs :
        (session[c] = "mark" /\ m \in batch[c]) ~> (owner[c] \in wrote[m] \/ c \notin up)
=============================================================================
