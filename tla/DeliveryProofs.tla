--------------------------- MODULE DeliveryProofs ---------------------------
(***************************************************************************)
(* Proofs about Delivery, for any number of agents, connections, messages  *)
(* and crashes.                                                            *)
(***************************************************************************)
EXTENDS Delivery, FiniteSetTheorems, TLAPS

(* A session that is past the handshake belongs to an agent, for good.     *)
Owned ==
    /\ \A c \in Conns : session[c] = "new" <=> owner[c] = Nobody
    /\ \A m \in Msgs : via[m] # Http => owner[via[m]] # Nobody

(* A running send_to_agent has an agent to serve and a socket to await.    *)
Aimed ==
    \A m \in Msgs :
        /\ handler[m] \in {"sending", "enqueue"} => send[m].to \in Agents
        /\ handler[m] = "sending" => send[m].cur \in Conns

(* TypeOK is not inductive by itself: what a step writes depends on the    *)
(* agent of a session and on the target of a send.                         *)
Typed == TypeOK /\ Owned /\ Aimed

LEMMA RegisteredFinite ==
    /\ IsFiniteSet(Registered)
    /\ Cardinality(Registered) \in Nat
  <1>1. Registered \in SUBSET Conns
    BY DEF Registered
  <1> QED
    BY <1>1, ConnsFinite, FS_Subset, FS_CardinalityType

(* The frames send_to_agent's steps build from a frame.                    *)
LEMMA NoFrameType ==
    /\ NoFrame \in Frames
    /\ \A a \in Agents :
         /\ [NoFrame EXCEPT !.to = a] \in Frames
         /\ [NoFrame EXCEPT !.to = a].to = a
  BY DEF Frames, NoFrame

LEMMA NextFrame ==
  ASSUME NEW f \in Frames, NEW c \in Conns
  PROVE  LET g == [f EXCEPT !.cur = c, !.next = @ + 1]
         IN /\ g \in Frames
            /\ g.to = f.to /\ g.cur = c /\ g.next = f.next + 1
            /\ g.ok = f.ok /\ g.dead = f.dead
  <1> DEFINE n == f.next + 1
             g == [f EXCEPT !.cur = c, !.next = n]
  <1>1. n \in Nat
    BY DEF Frames
  <1> HIDE DEF n
  <1>2. /\ g \in Frames
        /\ g.to = f.to /\ g.cur = c /\ g.next = n /\ g.ok = f.ok /\ g.dead = f.dead
    BY <1>1 DEF Frames
  <1> QED
    BY <1>2 DEF n

LEMMA TriedFrame ==
  ASSUME NEW f \in Frames, f.cur \in Conns
  PROVE  LET g == [f EXCEPT !.ok = @ \cup {f.cur}]
             h == [f EXCEPT !.dead = @ \cup {f.cur}]
         IN /\ g \in Frames /\ h \in Frames
            /\ g.to = f.to /\ g.next = f.next /\ g.ok = f.ok \cup {f.cur} /\ g.dead = f.dead
            /\ h.to = f.to /\ h.next = f.next /\ h.ok = f.ok /\ h.dead = f.dead \cup {f.cur}
  BY DEF Frames

(* Both ends of a write keep the types, given the frame the write left.    *)
LEMMA AdvanceTyped ==
  ASSUME Typed, NEW m \in Msgs, handler[m] = "sending",
         NEW f \in Frames, f.to = send[m].to,
         NextSocket(m, f) \/ Return(m, f)
  PROVE  /\ connections' \in [Agents -> SUBSET Conns]
         /\ detached' \subseteq Msgs
         /\ handler' \in [Msgs -> {"idle", "next", "sending", "enqueue", "done", "lost"}]
         /\ todo' \in [Msgs -> SUBSET Agents]
         /\ send' \in [Msgs -> Frames]
         /\ Aimed'
  <1>1. f.to \in Agents /\ LiveList(m) \subseteq Conns
    BY DEF Typed, TypeOK, Aimed, LiveList
  <1>2. CASE NextSocket(m, f)
    <2>1. PICK c \in LiveList(m) : send' = [send EXCEPT ![m] = [f EXCEPT !.cur = c, !.next = @ + 1]]
      BY <1>2 DEF NextSocket
    <2>2. c \in Conns
      BY <1>1, <2>1
    <2>3. UNCHANGED <<connections, detached, handler, todo>>
      BY <1>2 DEF NextSocket
    <2> DEFINE g == [f EXCEPT !.cur = c, !.next = @ + 1]
    <2>4. g \in Frames /\ g.to = f.to /\ g.cur = c
      BY <2>2, NextFrame
    <2>5. send' = [send EXCEPT ![m] = g]
      BY <2>1
    <2> HIDE DEF g
    <2> QED
      BY <1>1, <2>2, <2>3, <2>4, <2>5 DEF Typed, TypeOK, Aimed
  <1>3. CASE Return(m, f)
    <2>1. connections' \in [Agents -> SUBSET Conns] /\ detached' \subseteq Msgs
      BY <1>1, <1>3 DEF Typed, TypeOK, Return, Unregister, Detach, SendingTo
    <2>2. CASE handler' = [handler EXCEPT ![m] = "next"]
               /\ todo' = [todo EXCEPT ![m] = @ \ {f.to}] /\ send' = [send EXCEPT ![m] = NoFrame]
      BY <2>1, <2>2, NoFrameType DEF Typed, TypeOK, Aimed
    <2>3. CASE handler' = [handler EXCEPT ![m] = "enqueue"]
               /\ todo' = todo /\ send' = [send EXCEPT ![m] = [NoFrame EXCEPT !.to = f.to]]
      BY <1>1, <2>1, <2>3, NoFrameType DEF Typed, TypeOK, Aimed
    <2> QED
      BY <1>3, <2>2, <2>3 DEF Return
  <1> QED
    BY <1>2, <1>3

LEMMA InitTyped == Init => Typed
  BY MaxCrashesIsNat DEF Init, Typed, TypeOK, Owned, Aimed, Frames, NoFrame, RowStatus

(* Disconnect is Abort with a broken link.                                 *)
LEMMA DisconnectAborts ==
  ASSUME NEW c \in Conns, Disconnect(c)
  PROVE  Abort(c)
  BY DEF Disconnect, Abort

LEMMA NextTyped == Typed /\ [Next]_vars => Typed'
  <1> SUFFICES ASSUME Typed, [Next]_vars PROVE Typed'
    OBVIOUS
  <1> USE HttpIsNoConn, NobodyIsNoAgent, MaxCrashesIsNat
  <1>1. ASSUME NEW c \in Conns, NEW a \in Agents, Connect(c, a) PROVE Typed'
    BY <1>1, RegisteredFinite DEF Typed, TypeOK, Owned, Aimed, Connect, Register,
       brokerVars, sessionVars, linkVars, handlerVars, dbVars, history
  <1>2. ASSUME NEW c \in Conns, SetOnline(c) PROVE Typed'
    BY <1>2 DEF Typed, TypeOK, Owned, Aimed, SetOnline,
       brokerVars, sessionVars, linkVars, handlerVars, dbVars, history
  <1>3. ASSUME NEW c \in Conns, FlushSelect(c) PROVE Typed'
    BY <1>3 DEF Typed, TypeOK, Owned, Aimed, FlushSelect, SelectPending,
       brokerVars, sessionVars, linkVars, handlerVars, dbVars, history
  <1>4. ASSUME NEW c \in Conns, FlushMark(c) PROVE Typed'
    BY <1>4 DEF Typed, TypeOK, Owned, Aimed, FlushMark, MarkDelivered, RowStatus,
       brokerVars, sessionVars, linkVars, handlerVars, dbVars, history
  <1>5. ASSUME NEW c \in Conns, NEW m \in Msgs, FlushSend(c, m) PROVE Typed'
    BY <1>5 DEF Typed, TypeOK, Owned, Aimed, FlushSend, Write,
       brokerVars, sessionVars, linkVars, handlerVars, dbVars, history
  <1>6. ASSUME NEW c \in Conns, FlushBreak(c) PROVE Typed'
    BY <1>6 DEF Typed, TypeOK, Owned, Aimed, FlushBreak,
       brokerVars, sessionVars, linkVars, handlerVars, dbVars, history
  <1>7. ASSUME NEW c \in Conns, NEW m \in Msgs, HandleAck(c, m) PROVE Typed'
    BY <1>7 DEF Typed, TypeOK, Owned, Aimed, HandleAck, MarkAcked, RowStatus,
       brokerVars, sessionVars, linkVars, handlerVars, dbVars, history
  <1>8. ASSUME NEW c \in Conns, Abort(c) PROVE Typed'
    BY <1>8 DEF Typed, TypeOK, Owned, Aimed, Abort, Leave, Unregister, Detach, SendingTo,
       brokerVars, sessionVars, linkVars, handlerVars, dbVars, history
  <1>9. ASSUME NEW c \in Conns, SetOffline(c) PROVE Typed'
    BY <1>9 DEF Typed, TypeOK, Owned, Aimed, SetOffline,
       brokerVars, sessionVars, linkVars, handlerVars, dbVars, history
  <1>10. ASSUME NEW m \in Msgs, NEW s \in Agents, NEW v \in Conns \cup {Http}, NEW d \in Agents \cup {Nobody}, NEW r \in BOOLEAN, Accept(m, s, v, d, r) PROVE Typed'
    BY <1>10 DEF Typed, TypeOK, Owned, Aimed, Accept,
       brokerVars, sessionVars, linkVars, handlerVars, dbVars, history
  <1>11. ASSUME NEW m \in Msgs, NEW members \in SUBSET Agents, ReadMembers(m, members) PROVE Typed'
    BY <1>11 DEF Typed, TypeOK, Owned, Aimed, ReadMembers,
       brokerVars, sessionVars, linkVars, handlerVars, dbVars, history
  <1>12. ASSUME NEW m \in Msgs, NEW a \in Agents, SendToAgent(m, a) PROVE Typed'
    <2>1. UNCHANGED <<brokerVars, sessionVars, linkVars, from, via, todo, inRoom, dbVars, history, crashes>>
      BY <1>12 DEF SendToAgent
    <2>2. \E g \in Frames, pc \in {"enqueue", "sending"} :
            /\ send' = [send EXCEPT ![m] = g] /\ g.to = a
            /\ handler' = [handler EXCEPT ![m] = pc]
            /\ pc = "sending" => g.cur \in Conns
      <3>1. CASE connections[a] = {}
        BY <1>12, <3>1, NoFrameType DEF SendToAgent
      <3>2. CASE connections[a] # {}
        <4>1. PICK c \in connections[a] :
                send' = [send EXCEPT ![m] = [NoFrame EXCEPT !.to = a, !.cur = c, !.next = 1]]
          BY <1>12, <3>2 DEF SendToAgent
        <4>2. c \in Conns
          BY <4>1 DEF Typed, TypeOK
        <4>3. handler' = [handler EXCEPT ![m] = "sending"]
          BY <1>12, <3>2 DEF SendToAgent
        <4> DEFINE g == [NoFrame EXCEPT !.to = a, !.cur = c, !.next = 1]
        <4>4. g \in Frames /\ g.to = a /\ g.cur = c
          BY <4>2 DEF Frames, NoFrame
        <4>5. send' = [send EXCEPT ![m] = g]
          BY <4>1
        <4> HIDE DEF g
        <4> QED
          BY <4>2, <4>3, <4>4, <4>5
      <3> QED
        BY <3>1, <3>2
    <2> QED
      BY <2>1, <2>2 DEF Typed, TypeOK, Owned, Aimed,
         brokerVars, sessionVars, linkVars, dbVars, history
  <1>13. ASSUME NEW m \in Msgs, SendOk(m) PROVE Typed'
    <2> DEFINE f == [send[m] EXCEPT !.ok = @ \cup {send[m].cur}]
    <2>1. send[m] \in Frames /\ send[m].cur \in Conns
      BY <1>13 DEF Typed, TypeOK, Aimed, SendOk
    <2>2. f \in Frames /\ f.to = send[m].to
      BY <2>1, TriedFrame
    <2>3. NextSocket(m, f) \/ Return(m, f)
      BY <1>13 DEF SendOk
    <2> HIDE DEF f
    <2> QED
      BY <1>13, <2>2, <2>3, AdvanceTyped DEF Typed, TypeOK, Owned, Aimed, SendOk, Write,
         sessionVars, dbVars
  <1>14. ASSUME NEW m \in Msgs, SendFails(m) PROVE Typed'
    <2> DEFINE f == [send[m] EXCEPT !.dead = @ \cup {send[m].cur}]
    <2>1. send[m] \in Frames /\ send[m].cur \in Conns
      BY <1>14 DEF Typed, TypeOK, Aimed, SendFails
    <2>2. f \in Frames /\ f.to = send[m].to
      BY <2>1, TriedFrame
    <2>3. NextSocket(m, f) \/ Return(m, f)
      BY <1>14 DEF SendFails
    <2> HIDE DEF f
    <2> QED
      BY <1>14, <2>2, <2>3, AdvanceTyped DEF Typed, TypeOK, Owned, SendFails,
         sessionVars, linkVars, dbVars, history
  <1>15. ASSUME NEW m \in Msgs, Enqueue(m) PROVE Typed'
    <2>1. send[m].to \in Agents
      BY <1>15 DEF Enqueue, Typed, Aimed
    <2>2. queue' \in [Msgs \X Agents -> RowStatus]
      BY <1>15, <2>1 DEF Typed, TypeOK, Enqueue, InsertOrIgnore, RowStatus
    <2>3. send' \in [Msgs -> Frames]
      BY <1>15, NoFrameType DEF Typed, TypeOK, Enqueue
    <2>4. Aimed'
      BY <1>15 DEF Typed, TypeOK, Aimed, Enqueue
    <2>5. /\ todo' \in [Msgs -> SUBSET Agents]
          /\ kept' \in [Msgs -> SUBSET Agents]
          /\ handler' \in [Msgs -> {"idle", "next", "sending", "enqueue", "done", "lost"}]
      BY <1>15, <2>1 DEF Typed, TypeOK, Enqueue
    <2>6. UNCHANGED <<brokerVars, sessionVars, linkVars, from, via, inRoom, stale, status, asked, wrote, crashes>>
      BY <1>15 DEF Enqueue
    <2>7. TypeOK'
      BY <2>2, <2>3, <2>5, <2>6 DEF Typed, TypeOK, brokerVars, sessionVars, linkVars
    <2>8. Owned'
      BY <2>6 DEF Typed, Owned, sessionVars
    <2> QED
      BY <2>4, <2>7, <2>8 DEF Typed
  <1>16. ASSUME NEW m \in Msgs, Finish(m) PROVE Typed'
    <2>1. /\ handler' = [handler EXCEPT ![m] = "done"]
          /\ UNCHANGED <<seat, owner, batch, linkVars, from, via, todo, inRoom, send, dbVars, history, crashes>>
      BY <1>16 DEF Finish
    <2>2. \/ UNCHANGED session
          \/ via[m] \in Conns /\ \E pc \in {"loop", "offline"} :
               session' = [session EXCEPT ![via[m]] = pc]
      BY <1>16 DEF Finish, Leave, Typed, TypeOK
    <2>3. session' \in [Conns -> {"new", "online", "select", "mark", "flush",
                                  "loop", "handling", "offline", "closed"}]
      BY <2>2 DEF Typed, TypeOK
    <2>4. Owned'
      BY <2>1, <2>2 DEF Typed, TypeOK, Owned
    <2>5. connections' \in [Agents -> SUBSET Conns] /\ detached' \subseteq Msgs
      BY <1>16 DEF Finish, Leave, Unregister, Detach, SendingTo, Typed, TypeOK
    <2>6. Aimed'
      BY <2>1 DEF Typed, TypeOK, Aimed
    <2>7. TypeOK'
      BY <2>1, <2>3, <2>5 DEF Typed, TypeOK, linkVars, dbVars, history
    <2> QED
      BY <2>4, <2>6, <2>7 DEF Typed
  <1>17. ASSUME NEW c \in Conns, NEW m \in Msgs, ClientAck(c, m) PROVE Typed'
    BY <1>17 DEF Typed, TypeOK, Owned, Aimed, ClientAck,
       brokerVars, sessionVars, linkVars, handlerVars, dbVars, history
  <1>18. ASSUME NEW c \in Conns, LinkDown(c) PROVE Typed'
    BY <1>18 DEF Typed, TypeOK, Owned, Aimed, LinkDown,
       brokerVars, sessionVars, linkVars, handlerVars, dbVars, history
  <1>19. ASSUME NEW m \in Msgs, NEW a \in Agents, Expire(m, a) PROVE Typed'
    BY <1>19 DEF Typed, TypeOK, Owned, Aimed, Expire,
       brokerVars, sessionVars, linkVars, handlerVars, dbVars, history
  <1>20. ASSUME Cleanup PROVE Typed'
    BY <1>20 DEF Typed, TypeOK, Owned, Aimed, Cleanup, DeleteExpired, RowStatus,
       brokerVars, sessionVars, linkVars, handlerVars, dbVars, history
  <1>21. ASSUME Crash PROVE Typed'
    BY <1>21 DEF Typed, TypeOK, Owned, Aimed, Crash, Frames, NoFrame,
       brokerVars, sessionVars, linkVars, handlerVars, dbVars, history
  <1>22. ASSUME NEW m \in Msgs, HandlerFails(m) PROVE Typed'
    <2>1. /\ handler' = [handler EXCEPT ![m] = "lost"]
          /\ todo' = [todo EXCEPT ![m] = {}]
          /\ inRoom' = [inRoom EXCEPT ![m] = FALSE]
          /\ send' = [send EXCEPT ![m] = NoFrame]
          /\ UNCHANGED <<seat, owner, batch, linkVars, from, via, dbVars, history, crashes>>
      BY <1>22 DEF HandlerFails
    <2>2. UNCHANGED session \/ (via[m] \in Conns /\ session' = [session EXCEPT ![via[m]] = "offline"])
      BY <1>22 DEF HandlerFails, Leave, Typed, TypeOK
    <2>3. session' \in [Conns -> {"new", "online", "select", "mark", "flush",
                                  "loop", "handling", "offline", "closed"}]
      BY <2>2 DEF Typed, TypeOK
    <2>4. Owned'
      BY <2>1, <2>2 DEF Typed, TypeOK, Owned
    <2>5. connections' \in [Agents -> SUBSET Conns] /\ detached' \subseteq Msgs
      <3>1. CASE UNCHANGED <<connections, detached>>
        BY <3>1 DEF Typed, TypeOK
      <3>2. CASE Leave(via[m])
        <4>1. connections' \in [Agents -> SUBSET Conns]
          BY <3>2 DEF Leave, Unregister, Typed, TypeOK
        <4>2. detached' \subseteq Msgs
          BY <3>2 DEF Leave, Detach, SendingTo, Typed, TypeOK
        <4> QED
          BY <4>1, <4>2
      <3> QED
        BY <1>22, <3>1, <3>2 DEF HandlerFails
    <2>6. Aimed'
      BY <2>1 DEF Typed, TypeOK, Aimed
    <2>7. send' \in [Msgs -> Frames] /\ todo' \in [Msgs -> SUBSET Agents]
          /\ inRoom' \in [Msgs -> BOOLEAN]
          /\ handler' \in [Msgs -> {"idle", "next", "sending", "enqueue", "done", "lost"}]
      BY <2>1, NoFrameType DEF Typed, TypeOK
    <2>8. TypeOK'
      BY <2>1, <2>3, <2>5, <2>7 DEF Typed, TypeOK, linkVars, dbVars, history
    <2> QED
      BY <2>4, <2>6, <2>8 DEF Typed
  <1>23. CASE UNCHANGED vars
    BY <1>23 DEF Typed, TypeOK, Owned, Aimed, vars,
       brokerVars, sessionVars, linkVars, handlerVars, dbVars, history
  <1> QED
    BY <1>1, <1>2, <1>3, <1>4, <1>5, <1>6, <1>7, <1>8, <1>9, <1>10, <1>11, <1>12, <1>13,
       <1>14, <1>15, <1>16, <1>17, <1>18, <1>19, <1>20, <1>21, <1>22, <1>23, DisconnectAborts
       DEF Next, SessionStep, HandlerStep, Request, Environment

(* Every reachable state has the declared types.                           *)
THEOREM TypeCorrect == Spec => []TypeOK
  <1>1. Typed => TypeOK
    BY DEF Typed
  <1> QED
    BY <1>1, InitTyped, NextTyped, PTL DEF Spec
-----------------------------------------------------------------------------
(* The inductive invariant behind Accounted and OncePerSend                *)

(* Only sockets that registered are listed, and they sit in the order in   *)
(* which they registered, below the seat the next one will take.           *)
Seated ==
    /\ \A a \in Agents : connections[a] \subseteq Registered
    /\ \A c \in Registered : seat[c] < Cardinality(Registered)

(* A running send_to_agent: the iterator has yielded as many items as      *)
(* there are sockets tried, all different; each of them that is still in   *)
(* the list sits before the iterator's place, for the list only shrinks    *)
(* below that place and only grows at its end; a write that returned is    *)
(* remembered, and one that raised met a broken link.                      *)
Iterating(m) ==
    /\ send[m].cur \notin send[m].ok \cup send[m].dead
    /\ send[m].ok \cap send[m].dead = {}
    /\ send[m].next = Cardinality(send[m].ok) + Cardinality(send[m].dead) + 1
    /\ Tried(m) \subseteq Registered
    /\ \A c \in Tried(m) \cap LiveList(m) : Index(LiveList(m), seat, c) < send[m].next
    /\ send[m].ok # {} => send[m].to \in wrote[m]
    /\ send[m].dead \cap up = {}

(* Whom a message is meant for is still to be served, or was.              *)
Served(m) ==
    /\ handler[m] \in {"next", "sending", "enqueue"} =>
          asked[m] \subseteq todo[m] \cup wrote[m] \cup kept[m]
    /\ handler[m] = "done" => asked[m] \subseteq wrote[m] \cup kept[m]

SendInv ==
    /\ Typed
    /\ Seated
    /\ \A m \in Msgs : handler[m] = "sending" => Iterating(m)
    /\ \A m \in Msgs : Served(m)

LEMMA ConnSetFinite ==
  ASSUME NEW S \in SUBSET Conns
  PROVE  IsFiniteSet(S) /\ Cardinality(S) \in Nat
  BY ConnsFinite, FS_Subset, FS_CardinalityType

(* Removing elements from a list moves no other element further back.      *)
LEMMA IndexShrinks ==
  ASSUME NEW list \in SUBSET Conns, NEW part \in SUBSET list, NEW s, NEW ws
  PROVE  /\ Index(part, s, ws) \in Nat
         /\ Index(list, s, ws) \in Nat
         /\ Index(part, s, ws) <= Index(list, s, ws)
  <1>1. Before(part, s, ws) \subseteq Before(list, s, ws) /\ Before(list, s, ws) \subseteq Conns
    BY DEF Before
  <1>2. Before(part, s, ws) \subseteq Conns
    BY <1>1
  <1> QED
    BY <1>1, <1>2, ConnSetFinite, FS_Subset DEF Index

(* A send that a step of another coroutine leaves alone: its list may have *)
(* shrunk meanwhile.                                                       *)
LEMMA OthersIterate ==
  ASSUME SendInv, NEW m \in Msgs, handler[m] = "sending",
         UNCHANGED <<seat, owner>>, send'[m] = send[m],
         \A a \in Agents : connections'[a] \subseteq connections[a],
         m \in detached => m \in detached',
         up' \subseteq up, wrote[m] \subseteq wrote'[m]
  PROVE  Iterating(m)'
  <1>1. Iterating(m) /\ send[m] \in Frames /\ send[m].to \in Agents
    BY DEF SendInv, Typed, TypeOK, Aimed
  <1>2. LiveList(m) \in SUBSET Conns /\ LiveList(m)' \in SUBSET LiveList(m)
    BY <1>1 DEF LiveList, SendInv, Typed, TypeOK
  <1>3. Tried(m)' = Tried(m) /\ Registered' = Registered
    BY DEF Tried, Registered
  <1>4. ASSUME NEW c \in Tried(m)' \cap LiveList(m)'
        PROVE  Index(LiveList(m), seat, c)' < send'[m].next
    <2>1. Index(LiveList(m), seat, c) < send[m].next
      BY <1>1, <1>2, <1>3, <1>4 DEF Iterating
    <2>2. Index(LiveList(m)', seat, c) <= Index(LiveList(m), seat, c)
          /\ Index(LiveList(m)', seat, c) \in Nat /\ Index(LiveList(m), seat, c) \in Nat
      BY <1>2, IndexShrinks
    <2>3. send[m].next \in Nat
      BY <1>1 DEF Frames
    <2>4. Index(LiveList(m), seat, c)' = Index(LiveList(m)', seat, c)
      BY DEF Index, Before
    <2> QED
      BY <2>1, <2>2, <2>3, <2>4
  <1> QED
    BY <1>1, <1>3, <1>4 DEF Iterating

(* Steps that register nobody keep the order of registration.              *)
LEMMA SeatedKept ==
  ASSUME SendInv, UNCHANGED <<seat, owner>>,
         \A a \in Agents : connections'[a] \subseteq connections[a]
  PROVE  Seated'
  <1>1. Registered' = Registered
    BY DEF Registered
  <1> QED
    BY <1>1 DEF SendInv, Seated

(* Steps that neither register nor unregister and run no handler.          *)
LEMMA QuietStep ==
  ASSUME SendInv, Typed',
         UNCHANGED <<connections, seat, detached, owner, handler, todo, send, asked, kept>>,
         \A m \in Msgs : wrote[m] \subseteq wrote'[m],
         up' \subseteq up
  PROVE  SendInv'
  <1>1. Seated'
    BY SeatedKept
  <1>2. ASSUME NEW m \in Msgs, handler'[m] = "sending" PROVE Iterating(m)'
    BY <1>2, OthersIterate
  <1>3. ASSUME NEW m \in Msgs PROVE Served(m)'
    BY DEF SendInv, Served
  <1> QED
    BY <1>1, <1>2, <1>3 DEF SendInv

(* A new socket takes the last seat, and no running send has tried it.     *)
LEMMA ConnectSendInv ==
  ASSUME SendInv, Typed', NEW c \in Conns, NEW a \in Agents, Connect(c, a)
  PROVE  SendInv'
  <1> DEFINE n == Cardinality(Registered)
  <1>1. /\ connections' = [connections EXCEPT ![a] = @ \cup {c}]
        /\ seat' = [seat EXCEPT ![c] = n]
        /\ owner' = [owner EXCEPT ![c] = a]
        /\ up' = up \cup {c}
        /\ UNCHANGED <<detached, handler, todo, send, asked, wrote, kept>>
    BY DEF Connect, Register, handlerVars, history
  <1>2. c \notin Registered /\ Registered' = Registered \cup {c}
    BY <1>1, NobodyIsNoAgent DEF Registered, Connect, SendInv, Typed, TypeOK, Owned
  <1>3. n \in Nat /\ Cardinality(Registered') = n + 1
    BY <1>2, RegisteredFinite, FS_AddElement
  <1>4. Seated'
    <2>1. \A b \in Agents : connections'[b] \subseteq Registered'
      BY <1>1, <1>2 DEF SendInv, Typed, TypeOK, Seated
    <2>2. ASSUME NEW d \in Registered' PROVE seat'[d] < Cardinality(Registered')
      <3>1. CASE d = c
        BY <1>1, <1>3, <3>1 DEF SendInv, Typed, TypeOK
      <3>2. CASE d # c
        <4>1. d \in Registered /\ seat'[d] = seat[d] /\ seat[d] \in Nat
          BY <1>1, <1>2, <3>2 DEF SendInv, Typed, TypeOK, Registered
        <4>2. seat[d] < n
          BY <4>1 DEF SendInv, Seated
        <4> QED
          BY <1>3, <4>1, <4>2
      <3> QED
        BY <3>1, <3>2
    <2> QED
      BY <2>1, <2>2 DEF Seated
  <1>5. ASSUME NEW m \in Msgs, handler'[m] = "sending" PROVE Iterating(m)'
    <2>1. handler[m] = "sending" /\ Iterating(m) /\ send[m].to \in Agents
      BY <1>1, <1>5 DEF SendInv, Typed, TypeOK, Aimed
    <2>2. Tried(m)' = Tried(m) /\ c \notin Tried(m) /\ Tried(m) \subseteq Registered'
      BY <1>1, <1>2, <2>1 DEF Tried, Iterating
    <2>3. LiveList(m)' = LiveList(m) \/ LiveList(m)' = LiveList(m) \cup {c}
      BY <1>1, <2>1 DEF LiveList, SendInv, Typed, TypeOK
    <2>4. LiveList(m) \in SUBSET Conns /\ c \notin LiveList(m) /\ LiveList(m) \subseteq Registered
      BY <1>2, <2>1 DEF LiveList, SendInv, Typed, TypeOK, Seated
    <2>5. ASSUME NEW d \in Tried(m)' \cap LiveList(m)'
          PROVE  Index(LiveList(m), seat, d)' < send'[m].next
      <3>1. d \in Tried(m) /\ d \in LiveList(m)
        BY <2>2, <2>3, <2>5
      <3>2. seat \in [Conns -> Nat] /\ seat[d] < n /\ seat[d] \in Nat
        BY <2>4, <3>1 DEF SendInv, Typed, TypeOK, Seated
      <3>3. Index(LiveList(m)', seat', d) = Index(LiveList(m), seat, d)
        <4>1. seat'[c] = n /\ \A e \in LiveList(m) : seat'[e] = seat[e]
          BY <1>1, <2>4, <3>2
        <4>2. n \in Nat /\ ~ (n < seat[d])
          BY <1>3, <3>2
        <4> HIDE DEF n
        <4>3. Before(LiveList(m)', seat', d) = Before(LiveList(m), seat, d)
          BY <2>3, <3>1, <3>2, <4>1, <4>2 DEF Before
        <4> QED
          BY <4>3 DEF Index
      <3>4. Index(LiveList(m), seat, d)' = Index(LiveList(m)', seat', d)
        BY DEF Index, Before
      <3> QED
        BY <1>1, <2>1, <3>1, <3>3, <3>4 DEF Iterating
    <2>6. send[m].dead \cap up' = {}
      BY <1>1, <2>1, <2>2 DEF Iterating, Tried
    <2> QED
      BY <1>1, <2>1, <2>2, <2>5, <2>6 DEF Iterating
  <1>6. ASSUME NEW m \in Msgs PROVE Served(m)'
    BY <1>1 DEF SendInv, Served
  <1> QED
    BY <1>4, <1>5, <1>6 DEF SendInv

(* A session that ends takes only its own socket out of the registry.      *)
LEMMA LeaveKeeps ==
  ASSUME SendInv, NEW c \in Conns, owner[c] \in Agents, Leave(c),
         UNCHANGED <<seat, owner, up, wrote>>
  PROVE  /\ Seated'
         /\ \A m \in Msgs : handler[m] = "sending" /\ send'[m] = send[m] => Iterating(m)'
  <1>1. connections' = [connections EXCEPT ![owner[c]] = @ \ {c}]
    BY DEF Leave, Unregister
  <1>2. \A a \in Agents : connections'[a] \subseteq connections[a]
    BY <1>1 DEF SendInv, Typed, TypeOK
  <1>3. detached \subseteq detached'
    BY DEF Leave, Detach
  <1> QED
    BY <1>2, <1>3, SeatedKept, OthersIterate

LEMMA AbortSendInv ==
  ASSUME SendInv, Typed', NEW c \in Conns, Abort(c)
  PROVE  SendInv'
  <1>1. /\ Leave(c) /\ session[c] = "loop"
        /\ UNCHANGED <<seat, owner, up, handler, todo, send, asked, wrote, kept>>
    BY DEF Abort, linkVars, handlerVars, history
  <1>2. owner[c] \in Agents
    BY <1>1 DEF SendInv, Typed, TypeOK, Owned
  <1>3. \A m \in Msgs : Served(m)'
    BY <1>1 DEF SendInv, Served
  <1> QED
    BY <1>1, <1>2, <1>3, LeaveKeeps DEF SendInv

(* Steps that end a handler, and perhaps the session that it serves.       *)
LEMMA EndSendInv ==
  ASSUME SendInv, Typed', NEW m \in Msgs,
         UNCHANGED <<seat, owner, up, asked, wrote, kept>>,
         \A k \in Msgs : Served(k)',
         \A k \in Msgs : handler'[k] = "sending" => handler[k] = "sending" /\ send'[k] = send[k],
         \/ UNCHANGED <<connections, detached>>
         \/ via[m] # Http /\ Leave(via[m])
  PROVE  SendInv'
  <1>1. CASE UNCHANGED <<connections, detached>>
    <2>1. Seated'
      BY <1>1, SeatedKept
    <2>2. \A k \in Msgs : handler'[k] = "sending" => Iterating(k)'
      BY <1>1, OthersIterate
    <2> QED
      BY <2>1, <2>2 DEF SendInv
  <1>2. CASE via[m] # Http /\ Leave(via[m])
    <2>1. via[m] \in Conns /\ owner[via[m]] \in Agents
      BY <1>2 DEF SendInv, Typed, TypeOK, Owned
    <2> QED
      BY <1>2, <2>1, LeaveKeeps DEF SendInv
  <1> QED
    BY <1>1, <1>2

LEMMA FinishSendInv ==
  ASSUME SendInv, Typed', NEW m \in Msgs, Finish(m)
  PROVE  SendInv'
  <1>1. /\ handler[m] = "next" /\ todo[m] = {}
        /\ handler' = [handler EXCEPT ![m] = "done"]
        /\ UNCHANGED <<seat, owner, up, todo, send, asked, wrote, kept>>
    BY DEF Finish, linkVars, history
  <1>2. \A k \in Msgs : Served(k)'
    BY <1>1 DEF SendInv, Typed, TypeOK, Served
  <1>3. \A k \in Msgs : handler'[k] = "sending" => handler[k] = "sending" /\ send'[k] = send[k]
    BY <1>1 DEF SendInv, Typed, TypeOK
  <1>4. UNCHANGED <<connections, detached>> \/ (via[m] # Http /\ Leave(via[m]))
    BY DEF Finish
  <1> QED
    BY <1>1, <1>2, <1>3, <1>4, EndSendInv

LEMMA HandlerFailsSendInv ==
  ASSUME SendInv, Typed', NEW m \in Msgs, HandlerFails(m)
  PROVE  SendInv'
  <1>1. /\ handler' = [handler EXCEPT ![m] = "lost"]
        /\ todo' = [todo EXCEPT ![m] = {}]
        /\ send' = [send EXCEPT ![m] = NoFrame]
        /\ UNCHANGED <<seat, owner, up, asked, wrote, kept>>
    BY DEF HandlerFails, linkVars, history
  <1>2. \A k \in Msgs : Served(k)'
    BY <1>1 DEF SendInv, Typed, TypeOK, Served
  <1>3. \A k \in Msgs : handler'[k] = "sending" => handler[k] = "sending" /\ send'[k] = send[k]
    BY <1>1 DEF SendInv, Typed, TypeOK
  <1>4. UNCHANGED <<connections, detached>> \/ (via[m] # Http /\ Leave(via[m]))
    BY DEF HandlerFails
  <1> QED
    BY <1>1, <1>2, <1>3, <1>4, EndSendInv

(* Steps of a handler that is between two sends: the others' sends and the *)
(* registry are left alone.                                                *)
LEMMA HandlerSendInv ==
  ASSUME SendInv, Typed', NEW m \in Msgs, handler[m] # "sending",
         UNCHANGED <<connections, seat, detached, owner, up>>,
         \A k \in Msgs : k # m =>
             /\ handler'[k] = handler[k] /\ send'[k] = send[k] /\ todo'[k] = todo[k]
             /\ asked'[k] = asked[k] /\ wrote'[k] = wrote[k] /\ kept'[k] = kept[k],
         handler'[m] = "sending" => Iterating(m)',
         Served(m)'
  PROVE  SendInv'
  <1>1. Seated'
    BY SeatedKept
  <1>2. ASSUME NEW k \in Msgs, handler'[k] = "sending" PROVE Iterating(k)'
    <2>1. CASE k = m
      BY <1>2, <2>1
    <2>2. CASE k # m
      <3>1. handler[k] = "sending" /\ send'[k] = send[k] /\ wrote'[k] = wrote[k]
        BY <1>2, <2>2
      <3> QED
        BY <3>1, OthersIterate
    <2> QED
      BY <2>1, <2>2
  <1>3. ASSUME NEW k \in Msgs PROVE Served(k)'
    BY DEF SendInv, Served
  <1> QED
    BY <1>1, <1>2, <1>3 DEF SendInv

LEMMA AcceptSendInv ==
  ASSUME SendInv, Typed', NEW m \in Msgs, NEW s \in Agents, NEW v \in Conns \cup {Http},
         NEW d \in Agents \cup {Nobody}, NEW r \in BOOLEAN, Accept(m, s, v, d, r)
  PROVE  SendInv'
  <1>1. /\ handler[m] = "idle"
        /\ handler' = [handler EXCEPT ![m] = "next"]
        /\ todo' = [todo EXCEPT ![m] = {d} \ {Nobody}]
        /\ asked' = [asked EXCEPT ![m] = {d} \ {Nobody}]
        /\ UNCHANGED <<connections, seat, detached, owner, up, send, wrote, kept>>
    BY DEF Accept, brokerVars, linkVars
  <1>2. Served(m)' /\ handler'[m] # "sending"
    BY <1>1 DEF Served, SendInv, Typed, TypeOK
  <1>3. \A k \in Msgs : k # m =>
          /\ handler'[k] = handler[k] /\ send'[k] = send[k] /\ todo'[k] = todo[k]
          /\ asked'[k] = asked[k] /\ wrote'[k] = wrote[k] /\ kept'[k] = kept[k]
    BY <1>1 DEF SendInv, Typed, TypeOK
  <1> QED
    BY <1>1, <1>2, <1>3, HandlerSendInv

LEMMA ReadMembersSendInv ==
  ASSUME SendInv, Typed', NEW m \in Msgs, NEW members \in SUBSET Agents, ReadMembers(m, members)
  PROVE  SendInv'
  <1>1. /\ handler[m] = "next" /\ todo[m] = {}
        /\ todo' = [todo EXCEPT ![m] = members \ {from[m]}]
        /\ asked' = [asked EXCEPT ![m] = @ \cup (members \ {from[m]})]
        /\ UNCHANGED <<connections, seat, detached, owner, up, handler, send, wrote, kept>>
    BY DEF ReadMembers, brokerVars, sessionVars, linkVars
  <1>2. Served(m)' /\ handler'[m] # "sending"
    BY <1>1 DEF Served, SendInv, Typed, TypeOK
  <1>3. \A k \in Msgs : k # m =>
          /\ handler'[k] = handler[k] /\ send'[k] = send[k] /\ todo'[k] = todo[k]
          /\ asked'[k] = asked[k] /\ wrote'[k] = wrote[k] /\ kept'[k] = kept[k]
    BY <1>1 DEF SendInv, Typed, TypeOK
  <1> QED
    BY <1>1, <1>2, <1>3, HandlerSendInv

LEMMA EnqueueSendInv ==
  ASSUME SendInv, Typed', NEW m \in Msgs, Enqueue(m)
  PROVE  SendInv'
  <1>1. /\ handler[m] = "enqueue"
        /\ handler' = [handler EXCEPT ![m] = "next"]
        /\ todo' = [todo EXCEPT ![m] = @ \ {send[m].to}]
        /\ kept' = [kept EXCEPT ![m] = @ \cup {send[m].to}]
        /\ send' = [send EXCEPT ![m] = NoFrame]
        /\ UNCHANGED <<connections, seat, detached, owner, up, asked, wrote>>
    BY DEF Enqueue, brokerVars, sessionVars, linkVars
  <1>2. Served(m)' /\ handler'[m] # "sending"
    BY <1>1 DEF Served, SendInv, Typed, TypeOK
  <1>3. \A k \in Msgs : k # m =>
          /\ handler'[k] = handler[k] /\ send'[k] = send[k] /\ todo'[k] = todo[k]
          /\ asked'[k] = asked[k] /\ wrote'[k] = wrote[k] /\ kept'[k] = kept[k]
    BY <1>1 DEF SendInv, Typed, TypeOK
  <1> QED
    BY <1>1, <1>2, <1>3, HandlerSendInv

(* The first item of a list sits before the place of the iterator.         *)
LEMMA SendToAgentSendInv ==
  ASSUME SendInv, Typed', NEW m \in Msgs, NEW a \in Agents, SendToAgent(m, a)
  PROVE  SendInv'
  <1>1. /\ handler[m] = "next"
        /\ UNCHANGED <<connections, seat, detached, owner, up, todo, asked, wrote, kept>>
    BY DEF SendToAgent, brokerVars, sessionVars, linkVars, history
  <1>2. CASE connections[a] = {}
    <2>1. handler' = [handler EXCEPT ![m] = "enqueue"]
          /\ \E g \in Frames : send' = [send EXCEPT ![m] = g]
      BY <1>2, NoFrameType DEF SendToAgent
    <2>2. Served(m)' /\ handler'[m] # "sending"
      BY <1>1, <2>1 DEF Served, SendInv, Typed, TypeOK
    <2>3. \A k \in Msgs : k # m => handler'[k] = handler[k] /\ send'[k] = send[k]
      BY <2>1 DEF SendInv, Typed, TypeOK
    <2> QED
      BY <1>1, <2>2, <2>3, HandlerSendInv
  <1>3. CASE connections[a] # {}
    <2>1. PICK c \in connections[a] :
            /\ Index(connections[a], seat, c) = 0
            /\ send' = [send EXCEPT ![m] = [NoFrame EXCEPT !.to = a, !.cur = c, !.next = 1]]
      BY <1>3 DEF SendToAgent
    <2>2. c \in Conns /\ c \in Registered
      BY <2>1 DEF SendInv, Typed, TypeOK, Seated
    <2> DEFINE g == [NoFrame EXCEPT !.to = a, !.cur = c, !.next = 1]
    <2>3. g \in Frames /\ g.to = a /\ g.cur = c /\ g.next = 1 /\ g.ok = {} /\ g.dead = {}
      BY <2>2 DEF Frames, NoFrame
    <2>4. send' = [send EXCEPT ![m] = g]
      BY <2>1
    <2> HIDE DEF g
    <2>5. handler' = [handler EXCEPT ![m] = "sending"]
      BY <1>3 DEF SendToAgent
    <2>6. Served(m)'
      BY <1>1, <2>5 DEF Served, SendInv, Typed, TypeOK
    <2>7. \A k \in Msgs : k # m => handler'[k] = handler[k] /\ send'[k] = send[k]
      BY <2>4, <2>5 DEF SendInv, Typed, TypeOK
    <2>8. Iterating(m)'
      <3>1. send'[m] = g
        BY <2>4 DEF SendInv, Typed, TypeOK
      <3>2. Tried(m)' = {c} /\ Registered' = Registered
        BY <1>1, <2>3, <3>1 DEF Tried, Registered
      <3>3. LiveList(m)' = {} \/ LiveList(m)' = connections[a]
        BY <1>1, <2>3, <3>1 DEF LiveList
      <3>4. \A d \in Tried(m)' \cap LiveList(m)' : Index(LiveList(m), seat, d)' < 1
        <4>1. CASE LiveList(m)' = {}
          BY <4>1
        <4>2. CASE LiveList(m)' = connections[a]
          <5>1. Index(LiveList(m), seat, c)' = Index(connections[a], seat, c)
            BY <1>1, <4>2 DEF Index, Before
          <5> QED
            BY <2>1, <3>2, <5>1
        <4> QED
          BY <3>3, <4>1, <4>2
      <3> QED
        BY <2>2, <2>3, <3>1, <3>2, <3>4, FS_EmptySet DEF Iterating
    <2> QED
      BY <1>1, <2>6, <2>7, <2>8, HandlerSendInv
  <1> QED
    BY <1>2, <1>3

LEMMA CrashSendInv ==
  ASSUME SendInv, Typed', Crash
  PROVE  SendInv'
  <1>1. /\ connections' = [a \in Agents |-> {}]
        /\ up' = {}
        /\ handler' = [m \in Msgs |-> IF handler[m] \in {"idle", "done"} THEN handler[m] ELSE "lost"]
        /\ UNCHANGED <<seat, owner, asked, wrote, kept>>
    BY DEF Crash, history
  <1>2. Seated'
    BY <1>1, SeatedKept
  <1>3. \A m \in Msgs : handler'[m] # "sending" /\ Served(m)'
    BY <1>1 DEF SendInv, Served
  <1> QED
    BY <1>1, <1>2, <1>3 DEF SendInv

(* A write has ended and left the frame f: the iterator goes on to a       *)
(* socket it has not tried, or send_to_agent returns, and returns True     *)
(* only if some write returned.                                            *)
LEMMA AdvanceSendInv ==
  ASSUME SendInv, Typed', NEW m \in Msgs, handler[m] = "sending",
         NEW f \in Frames, f.to = send[m].to, f.next = send[m].next,
         f.ok \cup f.dead = Tried(m), f.ok \cap f.dead = {},
         f.next = Cardinality(f.ok) + Cardinality(f.dead),
         f.dead \cap up = {},
         f.ok # {} => f.to \in wrote'[m],
         wrote[m] \subseteq wrote'[m],
         \A k \in Msgs : k # m => wrote'[k] = wrote[k],
         UNCHANGED <<seat, owner, up, asked, kept>>,
         NextSocket(m, f) \/ Return(m, f)
  PROVE  SendInv'
  <1>1. /\ Iterating(m) /\ f.to \in Agents
        /\ LiveList(m) \in SUBSET Conns /\ LiveList(m) \subseteq Registered
    BY DEF SendInv, Typed, TypeOK, Aimed, Seated, LiveList
  <1>2. /\ f.ok \in SUBSET Conns /\ f.dead \in SUBSET Conns /\ f.next \in Nat
        /\ Cardinality(f.ok) \in Nat /\ Cardinality(f.dead) \in Nat
    <2>1. f.ok \in SUBSET Conns /\ f.dead \in SUBSET Conns /\ f.next \in Nat
      BY DEF Frames
    <2> QED
      BY <2>1, ConnSetFinite
  <1>3. CASE NextSocket(m, f)
    <2>1. PICK c \in LiveList(m) :
            /\ Index(LiveList(m), seat, c) = f.next
            /\ send' = [send EXCEPT ![m] = [f EXCEPT !.cur = c, !.next = @ + 1]]
      BY <1>3 DEF NextSocket
    <2>2. UNCHANGED <<connections, detached, handler, todo>>
      BY <1>3 DEF NextSocket
    <2>3. c \in Conns /\ c \in Registered
      BY <1>1
    <2> DEFINE g == [f EXCEPT !.cur = c, !.next = @ + 1]
    <2>4. /\ g \in Frames /\ g.to = f.to /\ g.cur = c /\ g.next = f.next + 1
          /\ g.ok = f.ok /\ g.dead = f.dead
      BY <2>3, NextFrame
    <2>5. send' = [send EXCEPT ![m] = g]
      BY <2>1
    <2> HIDE DEF g
    <2>6. send'[m] = g /\ \A k \in Msgs : k # m => send'[k] = send[k]
      BY <2>5 DEF SendInv, Typed, TypeOK
    <2>7. c \notin Tried(m)
      <3>1. \A d \in Tried(m) \cap LiveList(m) : Index(LiveList(m), seat, d) < f.next
        BY <1>1 DEF Iterating
      <3> QED
        BY <1>2, <2>1, <3>1
    <2>8. Iterating(m)'
      <3>1. Tried(m)' = Tried(m) \cup {c} /\ Registered' = Registered
        BY <2>4, <2>6 DEF Tried, Registered
      <3>2. LiveList(m)' = LiveList(m)
        BY <2>2, <2>4, <2>6 DEF LiveList
      <3>3. ASSUME NEW d \in Tried(m)' \cap LiveList(m)'
            PROVE  Index(LiveList(m), seat, d)' < f.next + 1
        <4>1. Index(LiveList(m), seat, d)' = Index(LiveList(m), seat, d)
          BY <3>2 DEF Index, Before
        <4>2. Index(LiveList(m), seat, d) \in Nat
          BY <1>1, IndexShrinks
        <4>3. d # c => Index(LiveList(m), seat, d) < f.next
          BY <1>1, <3>1, <3>2, <3>3 DEF Iterating
        <4> QED
          BY <1>2, <2>1, <4>1, <4>2, <4>3
      <3>4. g.next = Cardinality(g.ok) + Cardinality(g.dead) + 1
        BY <1>2, <2>4
      <3>5. Tried(m) \subseteq Registered
        BY <1>1 DEF Iterating
      <3> QED
        BY <2>3, <2>4, <2>6, <2>7, <3>1, <3>3, <3>4, <3>5 DEF Iterating
    <2>9. \A k \in Msgs : handler'[k] = "sending" => Iterating(k)'
      BY <2>2, <2>6, <2>8, OthersIterate
    <2>10. \A k \in Msgs : Served(k)'
      BY <2>2 DEF SendInv, Served
    <2>11. Seated'
      BY <2>2, SeatedKept
    <2> QED
      BY <2>9, <2>10, <2>11 DEF SendInv
  <1>4. CASE Return(m, f)
    <2>1. connections' = [connections EXCEPT ![f.to] = @ \ f.dead]
      BY <1>4 DEF Return, Unregister
    <2>2. \A a \in Agents : connections'[a] \subseteq connections[a]
      BY <1>1, <2>1 DEF SendInv, Typed, TypeOK
    <2>3. \A k \in Msgs : k # m /\ k \in detached => k \in detached'
      BY <1>4 DEF Return, Detach
    <2>4. \A k \in Msgs : k # m =>
            handler'[k] = handler[k] /\ send'[k] = send[k] /\ todo'[k] = todo[k]
      BY <1>4 DEF Return, SendInv, Typed, TypeOK
    <2>5. handler'[m] \in {"next", "enqueue"}
      BY <1>4 DEF Return, SendInv, Typed, TypeOK
    <2>6. \A k \in Msgs : handler'[k] = "sending" => Iterating(k)'
      BY <2>2, <2>3, <2>4, <2>5, OthersIterate
    <2>7. Delivered(LiveList(m) \ f.dead, f.dead) => f.ok # {}
      <3>1. SUFFICES ASSUME Delivered(LiveList(m) \ f.dead, f.dead), f.ok = {} PROVE FALSE
        OBVIOUS
      <3>2. Cardinality(f.ok) = 0
        BY <3>1, FS_EmptySet
      <3>3. LiveList(m) \ f.dead \in SUBSET LiveList(m) /\ LiveList(m) \ f.dead \in SUBSET Conns
        BY <1>1
      <3>4. /\ Cardinality(LiveList(m)) \in Nat /\ Cardinality(LiveList(m) \ f.dead) \in Nat
            /\ Cardinality(LiveList(m) \ f.dead) <= Cardinality(LiveList(m))
        BY <1>1, <3>3, ConnSetFinite, FS_Subset
      <3>5. ~ (f.next < Cardinality(LiveList(m)))
        BY <1>4 DEF Return, HasNext
      <3> QED
        BY <1>2, <3>1, <3>2, <3>4, <3>5 DEF Delivered
    <2>8. Served(m)'
      <3>1. Served(m) /\ asked[m] \subseteq todo[m] \cup wrote[m] \cup kept[m]
        BY DEF SendInv, Served
      <3>2. CASE Delivered(LiveList(m) \ f.dead, f.dead)
        <4>1. f.to \in wrote'[m]
          BY <2>7, <3>2
        <4>2. handler'[m] = "next" /\ todo'[m] = todo[m] \ {f.to}
          BY <1>4, <3>2 DEF Return, SendInv, Typed, TypeOK
        <4> QED
          BY <3>1, <4>1, <4>2 DEF Served
      <3>3. CASE ~ Delivered(LiveList(m) \ f.dead, f.dead)
        <4>1. handler'[m] = "enqueue" /\ todo' = todo
          BY <1>4, <3>3 DEF Return, SendInv, Typed, TypeOK
        <4> QED
          BY <3>1, <4>1 DEF Served
      <3> QED
        BY <3>2, <3>3
    <2>9. \A k \in Msgs : Served(k)'
      <3>1. ASSUME NEW k \in Msgs, k # m PROVE Served(k)'
        BY <2>4, <3>1 DEF SendInv, Served
      <3> QED
        BY <2>8, <3>1
    <2> QED
      BY <2>2, <2>6, <2>9, SeatedKept DEF SendInv
  <1> QED
    BY <1>3, <1>4

LEMMA SendOkSendInv ==
  ASSUME SendInv, Typed', NEW m \in Msgs, SendOk(m)
  PROVE  SendInv'
  <1> DEFINE f == [send[m] EXCEPT !.ok = @ \cup {send[m].cur}]
  <1>1. /\ handler[m] = "sending" /\ Iterating(m)
        /\ send[m] \in Frames /\ send[m].cur \in Conns
    BY DEF SendOk, SendInv, Typed, TypeOK, Aimed
  <1>2. /\ wrote' = [wrote EXCEPT ![m] = @ \cup {send[m].to}]
        /\ UNCHANGED <<seat, owner, up, asked, kept>>
        /\ NextSocket(m, f) \/ Return(m, f)
    BY DEF SendOk, sessionVars
  <1>3. /\ f \in Frames /\ f.to = send[m].to /\ f.next = send[m].next
        /\ f.ok = send[m].ok \cup {send[m].cur} /\ f.dead = send[m].dead
    BY <1>1, TriedFrame
  <1> HIDE DEF f
  <1>4. send[m].ok \in SUBSET Conns /\ send[m].dead \in SUBSET Conns
    BY <1>1 DEF Frames
  <1>5. f.next = Cardinality(f.ok) + Cardinality(f.dead)
    <2>1. Cardinality(f.ok) = Cardinality(send[m].ok) + 1
      BY <1>1, <1>3, <1>4, ConnSetFinite, FS_AddElement DEF Iterating
    <2>2. Cardinality(send[m].ok) \in Nat /\ Cardinality(send[m].dead) \in Nat
      BY <1>4, ConnSetFinite
    <2>3. send[m].next = Cardinality(send[m].ok) + Cardinality(send[m].dead) + 1
      BY <1>1 DEF Iterating
    <2> QED
      BY <1>3, <2>1, <2>2, <2>3
  <1>6. /\ f.ok \cup f.dead = Tried(m) /\ f.ok \cap f.dead = {} /\ f.dead \cap up = {}
    BY <1>1, <1>3 DEF Iterating, Tried
  <1>7. /\ f.to \in wrote'[m] /\ wrote[m] \subseteq wrote'[m]
        /\ \A k \in Msgs : k # m => wrote'[k] = wrote[k]
    BY <1>2, <1>3 DEF SendInv, Typed, TypeOK
  <1> QED
    BY <1>1, <1>2, <1>3, <1>5, <1>6, <1>7, AdvanceSendInv

LEMMA SendFailsSendInv ==
  ASSUME SendInv, Typed', NEW m \in Msgs, SendFails(m)
  PROVE  SendInv'
  <1> DEFINE f == [send[m] EXCEPT !.dead = @ \cup {send[m].cur}]
  <1>1. /\ handler[m] = "sending" /\ Iterating(m) /\ send[m].cur \notin up
        /\ send[m] \in Frames /\ send[m].cur \in Conns
    BY DEF SendFails, SendInv, Typed, TypeOK, Aimed
  <1>2. /\ UNCHANGED <<seat, owner, up, asked, wrote, kept>>
        /\ NextSocket(m, f) \/ Return(m, f)
    BY DEF SendFails, sessionVars, linkVars, history
  <1>3. /\ f \in Frames /\ f.to = send[m].to /\ f.next = send[m].next
        /\ f.ok = send[m].ok /\ f.dead = send[m].dead \cup {send[m].cur}
    BY <1>1, TriedFrame
  <1> HIDE DEF f
  <1>4. send[m].ok \in SUBSET Conns /\ send[m].dead \in SUBSET Conns
    BY <1>1 DEF Frames
  <1>5. f.next = Cardinality(f.ok) + Cardinality(f.dead)
    <2>1. Cardinality(f.dead) = Cardinality(send[m].dead) + 1
      BY <1>1, <1>3, <1>4, ConnSetFinite, FS_AddElement DEF Iterating
    <2>2. Cardinality(send[m].ok) \in Nat /\ Cardinality(send[m].dead) \in Nat
      BY <1>4, ConnSetFinite
    <2>3. send[m].next = Cardinality(send[m].ok) + Cardinality(send[m].dead) + 1
      BY <1>1 DEF Iterating
    <2> QED
      BY <1>3, <2>1, <2>2, <2>3
  <1>6. /\ f.ok \cup f.dead = Tried(m) /\ f.ok \cap f.dead = {} /\ f.dead \cap up = {}
    BY <1>1, <1>3 DEF Iterating, Tried
  <1>7. f.ok # {} => f.to \in wrote'[m]
    BY <1>1, <1>2, <1>3 DEF Iterating
  <1> QED
    BY <1>1, <1>2, <1>3, <1>5, <1>6, <1>7, AdvanceSendInv

LEMMA InitSendInv == Init => SendInv
  <1> SUFFICES ASSUME Init PROVE SendInv
    OBVIOUS
  <1>1. Typed
    BY InitTyped
  <1>2. Registered = {} /\ up = {}
    BY DEF Init, Registered
  <1>3. Seated
    BY <1>2 DEF Init, Seated
  <1>4. \A m \in Msgs : handler[m] = "idle"
    BY DEF Init
  <1> QED
    BY <1>1, <1>3, <1>4 DEF SendInv, Served

LEMMA NextSendInv == SendInv /\ [Next]_vars => SendInv'
  <1> SUFFICES ASSUME SendInv, [Next]_vars PROVE SendInv'
    OBVIOUS
  <1> Typed'
    BY NextTyped DEF SendInv
  <1>1. ASSUME NEW c \in Conns, SessionStep(c) PROVE SendInv'
    <2>1. CASE Disconnect(c)
      BY <2>1, DisconnectAborts, AbortSendInv
    <2>2. CASE SetOnline(c) \/ FlushSelect(c) \/ FlushMark(c) \/ FlushBreak(c) \/ SetOffline(c)
      BY <2>2, QuietStep DEF SetOnline, FlushSelect, FlushMark, FlushBreak, SetOffline,
         brokerVars, linkVars, handlerVars, history
    <2>3. ASSUME NEW m \in Msgs, FlushSend(c, m) PROVE SendInv'
      <3>1. \A k \in Msgs : wrote[k] \subseteq wrote'[k]
        BY <2>3 DEF FlushSend, SendInv, Typed, TypeOK
      <3> QED
        BY <2>3, <3>1, QuietStep DEF FlushSend, brokerVars, handlerVars
    <2>4. ASSUME NEW m \in Msgs, HandleAck(c, m) PROVE SendInv'
      BY <2>4, QuietStep DEF HandleAck, brokerVars, sessionVars, handlerVars, history
    <2> QED
      BY <1>1, <2>1, <2>2, <2>3, <2>4 DEF SessionStep
  <1>2. ASSUME NEW m \in Msgs, HandlerStep(m) PROVE SendInv'
    BY <1>2, ReadMembersSendInv, SendToAgentSendInv, SendOkSendInv, SendFailsSendInv,
       EnqueueSendInv, FinishSendInv DEF HandlerStep
  <1>3. CASE Request
    BY <1>3, ConnectSendInv, AcceptSendInv DEF Request
  <1>4. CASE Environment
    <2>1. ASSUME NEW c \in Conns, NEW m \in Msgs, ClientAck(c, m) PROVE SendInv'
      BY <2>1, QuietStep DEF ClientAck, brokerVars, sessionVars, handlerVars, history
    <2>2. ASSUME NEW c \in Conns, LinkDown(c) PROVE SendInv'
      BY <2>2, QuietStep DEF LinkDown, brokerVars, sessionVars, handlerVars, history
    <2>3. ASSUME NEW m \in Msgs, NEW a \in Agents, Expire(m, a) PROVE SendInv'
      BY <2>3, QuietStep DEF Expire, brokerVars, sessionVars, linkVars, handlerVars, history
    <2>4. CASE Cleanup
      BY <2>4, QuietStep DEF Cleanup, brokerVars, sessionVars, linkVars, handlerVars, history
    <2>5. CASE Crash
      BY <2>5, CrashSendInv
    <2> QED
      BY <1>4, <2>1, <2>2, <2>3, <2>4, <2>5, AbortSendInv, HandlerFailsSendInv DEF Environment
  <1>5. CASE UNCHANGED vars
    BY <1>5, QuietStep DEF vars, brokerVars, sessionVars, linkVars, handlerVars, history
  <1> QED
    BY <1>1, <1>2, <1>3, <1>4, <1>5 DEF Next

(* However many sessions come and go while send_to_agent iterates over the *)
(* list of connections, a message reported as sent was written to a socket *)
(* of each of its targets or stored for it.                                *)
THEOREM NothingUnaccounted == Spec => []Accounted
  <1>1. SendInv => Accounted
    BY DEF SendInv, Served, Accounted
  <1> QED
    BY <1>1, InitSendInv, NextSendInv, PTL DEF Spec

(* One send_to_agent never writes to the same socket twice.                *)
THEOREM NoSocketTwice == Spec => []OncePerSend
  <1>1. SendInv => OncePerSend
    BY DEF SendInv, Iterating, OncePerSend
  <1> QED
    BY <1>1, InitSendInv, NextSendInv, PTL DEF Spec

-----------------------------------------------------------------------------
(* Presence                                                                *)

(* A session vouches for the status of its agent until it sets it offline. *)
Vouching == {c \in Conns : session[c] \notin {"new", "online", "closed"}}

LEMMA StatusKept ==
  ASSUME Typed, OnlineHasSession, UNCHANGED <<status, owner, crashes>>, Vouching \subseteq Vouching'
  PROVE  OnlineHasSession'
  <1>1. \A c \in Conns : owner[c] \in Agents => session[c] # "new"
    BY NobodyIsNoAgent DEF Typed, Owned
  <1> QED
    BY <1>1 DEF OnlineHasSession, Vouching

LEMMA NextPresence ==
  ASSUME Typed, OnlineHasSession, [Next]_vars
  PROVE  OnlineHasSession'
  <1>1. ASSUME UNCHANGED <<status, owner, crashes>>,
               \A d \in Conns : session[d] \notin {"new", "online", "closed"} =>
                                  session'[d] \notin {"new", "online", "closed"}
        PROVE  OnlineHasSession'
    BY <1>1, StatusKept DEF Vouching
  <1>2. ASSUME NEW c \in Conns, SessionStep(c) PROVE OnlineHasSession'
    <2>1. CASE SetOnline(c)
      <3>1. /\ session'[c] = "select" /\ UNCHANGED <<owner, crashes>>
            /\ status' = [status EXCEPT ![owner[c]] = "online"]
            /\ \A d \in Conns : session[d] \notin {"online", "closed"} => session'[d] \notin {"online", "closed"}
        BY <2>1 DEF SetOnline, Typed, TypeOK
      <3>2. \A a \in Agents : a # owner[c] => status'[a] = status[a]
        BY <3>1 DEF Typed, TypeOK
      <3> QED
        BY <3>1, <3>2 DEF OnlineHasSession
    <2>2. CASE SetOffline(c)
      <3>1. /\ UNCHANGED <<owner, crashes>> /\ owner[c] \in Agents
            /\ status' = [status EXCEPT ![owner[c]] = "offline"]
            /\ \A d \in Conns \ {c} : session'[d] = session[d]
        BY <2>2 DEF SetOffline, Typed, TypeOK, Owned
      <3>2. status'[owner[c]] = "offline" /\ \A a \in Agents : a # owner[c] => status'[a] = status[a]
        BY <3>1 DEF Typed, TypeOK
      <3> QED
        BY <3>1, <3>2 DEF OnlineHasSession
    <2>3. ASSUME ~ SetOnline(c), ~ SetOffline(c) PROVE OnlineHasSession'
      <3>1. UNCHANGED <<status, owner, crashes>>
        BY <1>2, <2>3 DEF SessionStep, FlushSelect, FlushMark, FlushSend, FlushBreak, HandleAck,
           Disconnect, sessionVars, dbVars
      <3>2. \A d \in Conns : session[d] \notin {"new", "online", "closed"} =>
                               session'[d] \notin {"new", "online", "closed"}
        BY <1>2, <2>3 DEF SessionStep, FlushSelect, FlushMark, FlushSend, FlushBreak, HandleAck,
           Disconnect, Leave, sessionVars, Typed, TypeOK
      <3> QED
        BY <1>1, <3>1, <3>2
    <2> QED
      BY <2>1, <2>2, <2>3
  <1>3. ASSUME NEW m \in Msgs, HandlerStep(m) PROVE OnlineHasSession'
    <2>1. UNCHANGED <<status, owner, crashes>>
      BY <1>3 DEF HandlerStep, ReadMembers, SendToAgent, SendOk, SendFails, Enqueue, Finish,
         sessionVars, dbVars
    <2>2. UNCHANGED session \/ \E pc \in {"loop", "offline"} : session' = [session EXCEPT ![via[m]] = pc]
      BY <1>3 DEF HandlerStep, ReadMembers, SendToAgent, SendOk, SendFails, Enqueue, Finish, Leave,
         sessionVars
    <2>3. \A d \in Conns : session[d] \notin {"new", "online", "closed"} =>
                             session'[d] \notin {"new", "online", "closed"}
      BY <2>2 DEF Typed, TypeOK
    <2> QED
      BY <1>1, <2>1, <2>3
  <1>4. ASSUME NEW c \in Conns, NEW a \in Agents, Connect(c, a) PROVE OnlineHasSession'
    <2>1. /\ UNCHANGED <<status, crashes>> /\ owner[c] = Nobody
          /\ \A d \in Conns \ {c} : owner'[d] = owner[d] /\ session'[d] = session[d]
      BY <1>4 DEF Connect, Typed, TypeOK, Owned, dbVars
    <2> QED
      BY <2>1, NobodyIsNoAgent DEF OnlineHasSession
  <1>5. ASSUME NEW m \in Msgs, NEW s \in Agents, NEW v \in Conns \cup {Http},
               NEW d \in Agents \cup {Nobody}, NEW r \in BOOLEAN, Accept(m, s, v, d, r)
        PROVE  OnlineHasSession'
    <2>1. UNCHANGED <<status, owner, crashes>>
      BY <1>5 DEF Accept, dbVars
    <2>2. \A c \in Conns : session[c] \notin {"new", "online", "closed"} =>
                             session'[c] \notin {"new", "online", "closed"}
      BY <1>5 DEF Accept, Typed, TypeOK
    <2> QED
      BY <1>1, <2>1, <2>2
  <1>6. CASE Environment
    <2>1. CASE Crash
      <3>1. crashes' # 0
        BY <2>1 DEF Crash, Typed, TypeOK
      <3> QED
        BY <3>1 DEF OnlineHasSession
    <2>2. ASSUME NEW c \in Conns, Abort(c) PROVE OnlineHasSession'
      <3>1. UNCHANGED <<status, owner, crashes>> /\ session' = [session EXCEPT ![c] = "offline"]
        BY <2>2 DEF Abort, Leave, dbVars
      <3> QED
        BY <1>1, <3>1 DEF Typed, TypeOK
    <2>3. ASSUME NEW m \in Msgs, HandlerFails(m) PROVE OnlineHasSession'
      <3>1. /\ UNCHANGED <<status, owner, crashes>>
            /\ UNCHANGED session \/ session' = [session EXCEPT ![via[m]] = "offline"]
        BY <2>3 DEF HandlerFails, Leave, dbVars
      <3>2. \A d \in Conns : session[d] \notin {"new", "online", "closed"} =>
                               session'[d] \notin {"new", "online", "closed"}
        BY <3>1 DEF Typed, TypeOK
      <3> QED
        BY <1>1, <3>1, <3>2
    <2> QED
      BY <1>6, <2>1, <2>2, <2>3 DEF OnlineHasSession, Environment, ClientAck, LinkDown, Expire,
         Cleanup, sessionVars, dbVars
  <1>7. CASE UNCHANGED vars
    BY <1>7 DEF OnlineHasSession, vars, sessionVars, dbVars
  <1> QED
    BY <1>2, <1>3, <1>4, <1>5, <1>6, <1>7 DEF Next, Request

(* Until the first crash, an agent that the database shows as online has a *)
(* session that will set it offline.                                       *)
THEOREM PresenceIsVouchedFor == Spec => []OnlineHasSession
  <1>1. Init => OnlineHasSession
    BY DEF Init, OnlineHasSession
  <1> QED
    BY <1>1, InitTyped, NextTyped, NextPresence, PTL DEF Spec

-----------------------------------------------------------------------------
(* The refinement of Mailbox                                               *)

Active == {"next", "sending", "enqueue"}

(* Only agents a message is meant for are served by its fan-out.           *)
Recipients ==
    \A m \in Msgs :
        /\ kept[m] \subseteq asked[m]
        /\ handler[m] = "idle" => asked[m] = {}
        /\ handler[m] \in Active => todo[m] \subseteq asked[m]
        /\ handler[m] \in {"sending", "enqueue"} => send[m].to \in asked[m]

(* What is in the queue, or was read from it by a flush, was stored.       *)
Stored ==
    /\ \A m \in Msgs, a \in Agents : queue[<<m, a>>] # "none" => a \in kept[m]
    /\ \A c \in Conns : \A m \in batch[c] : owner[c] \in kept[m]

(* A client acknowledges what was written to it.                           *)
Given == \A c \in Conns : \A m \in inbox[c] \cup acks[c] : owner[c] \in wrote[m]

(* The agent served and the socket written to belong together.             *)
Matched == \A m \in Msgs : handler[m] = "sending" => owner[send[m].cur] = send[m].to

(* A session whose message is being handled waits for this handler alone.  *)
Waiting ==
    \A m \in Msgs : handler[m] \in Active /\ via[m] # Http =>
        /\ session[via[m]] = "handling"
        /\ \A k \in Msgs : handler[k] \in Active /\ via[k] = via[m] => k = m

PromiseInv ==
    /\ SendInv
    /\ Recipients
    /\ Stored
    /\ Given
    /\ NoLeakedSocket
    /\ LiveIsReachable
    /\ Matched
    /\ Waiting

-----------------------------------------------------------------------------
LEMMA InitPromiseInv == Init => PromiseInv
  BY InitSendInv DEF Init, PromiseInv, Recipients, Stored, Given, NoLeakedSocket, LiveIsReachable, Matched,
     Waiting, Active

(* The steps of a fan-out leave its frame's agent alone.                   *)
LEMMA AdvanceFrame ==
  ASSUME Typed, NEW m \in Msgs, handler[m] = "sending",
         NEW f \in Frames, f.to = send[m].to,
         NextSocket(m, f) \/ Return(m, f)
  PROVE  /\ \A k \in Msgs \ {m} : /\ handler'[k] = handler[k]
                                  /\ todo'[k] = todo[k] /\ send'[k] = send[k]
         /\ todo'[m] \subseteq todo[m]
         /\ handler'[m] \in Active
         /\ handler'[m] \in {"sending", "enqueue"} => send'[m].to = send[m].to
         /\ handler'[m] = "sending" => send'[m].cur \in connections[send[m].to]
         /\ \A a \in Agents : connections'[a] \subseteq connections[a]
  <1>1. send[m].to \in Agents /\ handler \in [Msgs -> {"idle", "next", "sending", "enqueue", "done", "lost"}]
        /\ todo \in [Msgs -> SUBSET Agents] /\ send \in [Msgs -> Frames]
        /\ connections \in [Agents -> SUBSET Conns]
    BY DEF Typed, TypeOK, Aimed
  <1>2. CASE NextSocket(m, f)
    <2>1. PICK c \in LiveList(m) : send' = [send EXCEPT ![m] = [f EXCEPT !.cur = c, !.next = @ + 1]]
      BY <1>2 DEF NextSocket
    <2>2. c \in connections[send[m].to] /\ c \in Conns
      BY <1>1, <2>1 DEF LiveList
    <2> DEFINE g == [f EXCEPT !.cur = c, !.next = @ + 1]
    <2>3. g.to = f.to /\ g.cur = c
      BY <2>2, NextFrame
    <2>4. send' = [send EXCEPT ![m] = g]
      BY <2>1
    <2>5. UNCHANGED <<connections, detached, handler, todo>>
      BY <1>2 DEF NextSocket
    <2> HIDE DEF g
    <2> QED
      BY <1>1, <2>2, <2>3, <2>4, <2>5 DEF Active
  <1>3. CASE Return(m, f)
    <2>1. \A a \in Agents : connections'[a] \subseteq connections[a]
      BY <1>1, <1>3 DEF Return, Unregister
    <2>2. CASE handler' = [handler EXCEPT ![m] = "next"]
               /\ todo' = [todo EXCEPT ![m] = @ \ {f.to}] /\ send' = [send EXCEPT ![m] = NoFrame]
      BY <1>1, <2>1, <2>2 DEF Active
    <2>3. CASE handler' = [handler EXCEPT ![m] = "enqueue"]
               /\ todo' = todo /\ send' = [send EXCEPT ![m] = [NoFrame EXCEPT !.to = f.to]]
      BY <1>1, <2>1, <2>3, NoFrameType DEF Active
    <2> QED
      BY <1>3, <2>2, <2>3 DEF Return
  <1> QED
    BY <1>2, <1>3

(* Both results of a write move the fan-out on in this way.                *)
LEMMA WriteFrame ==
  ASSUME Typed, NEW m \in Msgs, SendOk(m) \/ SendFails(m)
  PROVE  /\ handler[m] = "sending"
         /\ \A k \in Msgs \ {m} : /\ handler'[k] = handler[k]
                                  /\ todo'[k] = todo[k] /\ send'[k] = send[k]
         /\ todo'[m] \subseteq todo[m]
         /\ handler'[m] \in Active
         /\ handler'[m] \in {"sending", "enqueue"} => send'[m].to = send[m].to
         /\ handler'[m] = "sending" => send'[m].cur \in connections[send[m].to]
         /\ \A a \in Agents : connections'[a] \subseteq connections[a]
  <1>1. handler[m] = "sending" /\ send[m] \in Frames /\ send[m].cur \in Conns
    BY DEF SendOk, SendFails, Typed, TypeOK, Aimed
  <1> DEFINE g == [send[m] EXCEPT !.ok = @ \cup {send[m].cur}]
             h == [send[m] EXCEPT !.dead = @ \cup {send[m].cur}]
  <1>2. g \in Frames /\ h \in Frames /\ g.to = send[m].to /\ h.to = send[m].to
    BY <1>1, TriedFrame
  <1>3. \/ NextSocket(m, g) \/ Return(m, g)
        \/ NextSocket(m, h) \/ Return(m, h)
    BY DEF SendOk, SendFails
  <1> HIDE DEF g, h
  <1>4. CASE NextSocket(m, g) \/ Return(m, g)
    BY <1>1, <1>2, <1>4, AdvanceFrame
  <1>5. CASE NextSocket(m, h) \/ Return(m, h)
    BY <1>1, <1>2, <1>5, AdvanceFrame
  <1> QED
    BY <1>1, <1>3, <1>4, <1>5

-----------------------------------------------------------------------------
(* Recipients                                                              *)

LEMMA RecipientsKept ==
  ASSUME PromiseInv, [Next]_vars
  PROVE  Recipients'
  <1> USE DEF PromiseInv
  <1>0. Typed
    BY DEF SendInv
  <1>1. CASE UNCHANGED <<handler, todo, send, asked, kept>>
    BY <1>1 DEF Recipients
  <1>2. ASSUME NEW c \in Conns, SessionStep(c) PROVE Recipients'
    <2>1. UNCHANGED <<handler, todo, send, asked, kept>>
      BY <1>2 DEF SessionStep, SetOnline, FlushSelect, FlushMark, FlushSend, FlushBreak, HandleAck,
         Disconnect, SetOffline, handlerVars, history
    <2> QED
      BY <1>1, <2>1
  <1>3. ASSUME NEW m \in Msgs, HandlerStep(m) PROVE Recipients'
    <2>1. ASSUME NEW members \in SUBSET Agents, ReadMembers(m, members) PROVE Recipients'
      BY <1>0, <2>1 DEF Recipients, ReadMembers, Typed, TypeOK, Active
    <2>2. ASSUME NEW a \in Agents, SendToAgent(m, a) PROVE Recipients'
      <3>1. /\ a \in todo[m] /\ handler[m] = "next" /\ UNCHANGED <<todo, asked, kept>>
            /\ \A k \in Msgs \ {m} : handler'[k] = handler[k] /\ send'[k] = send[k]
            /\ handler'[m] \in {"enqueue", "sending"}
        BY <1>0, <2>2 DEF SendToAgent, history, Typed, TypeOK
      <3>2. send'[m].to = a
        <4>1. CASE send' = [send EXCEPT ![m] = [NoFrame EXCEPT !.to = a]]
          BY <1>0, <4>1, NoFrameType DEF Typed, TypeOK
        <4>2. ASSUME NEW c \in connections[a],
                     send' = [send EXCEPT ![m] = [NoFrame EXCEPT !.to = a, !.cur = c, !.next = 1]]
              PROVE  send'[m].to = a
          BY <1>0, <4>2 DEF Typed, TypeOK, NoFrame
        <4> QED
          BY <2>2, <4>1, <4>2 DEF SendToAgent
      <3>3. send'[m].to \in asked[m]
        BY <3>1, <3>2 DEF Recipients, Active
      <3> QED
        BY <3>1, <3>3 DEF Recipients, Active
    <2>3. CASE SendOk(m) \/ SendFails(m)
      <3>1. UNCHANGED <<asked, kept>>
        BY <2>3 DEF SendOk, SendFails, history
      <3> QED
        BY <1>0, <2>3, <3>1, WriteFrame DEF Recipients, Active
    <2>4. CASE Enqueue(m)
      BY <1>0, <2>4 DEF Recipients, Enqueue, Typed, TypeOK, Active
    <2>5. CASE Finish(m)
      BY <1>0, <2>5 DEF Recipients, Finish, history, Typed, TypeOK, Active
    <2> QED
      BY <1>3, <2>1, <2>2, <2>3, <2>4, <2>5 DEF HandlerStep
  <1>4. ASSUME NEW c \in Conns, NEW a \in Agents, Connect(c, a) PROVE Recipients'
    BY <1>1, <1>4 DEF Connect, handlerVars, history
  <1>5. ASSUME NEW m \in Msgs, NEW s \in Agents, NEW v \in Conns \cup {Http},
               NEW d \in Agents \cup {Nobody}, NEW r \in BOOLEAN, Accept(m, s, v, d, r)
        PROVE  Recipients'
    BY <1>0, <1>5 DEF Recipients, Accept, Typed, TypeOK, Active
  <1>6. CASE Environment
    <2>1. CASE Crash
      BY <1>0, <2>1 DEF Recipients, Crash, history, Typed, TypeOK, Active
    <2>2. ASSUME NEW m \in Msgs, HandlerFails(m) PROVE Recipients'
      BY <1>0, <2>2 DEF Recipients, HandlerFails, history, Typed, TypeOK, Active
    <2> QED
      BY <1>1, <1>6, <2>1, <2>2 DEF Environment, ClientAck, LinkDown, Abort, Expire, Cleanup,
         handlerVars, history
  <1>7. CASE UNCHANGED vars
    BY <1>1, <1>7 DEF vars, handlerVars, history
  <1> QED
    BY <1>2, <1>3, <1>4, <1>5, <1>6, <1>7 DEF Next, Request

-----------------------------------------------------------------------------
(* Stored                                                                  *)

LEMMA StoredKept ==
  ASSUME PromiseInv, [Next]_vars
  PROVE  Stored'
  <1> USE DEF PromiseInv
  <1>0. Typed
    BY DEF SendInv
  <1>1. CASE UNCHANGED <<queue, kept, batch, owner>>
    BY <1>1 DEF Stored
  <1>2. ASSUME NEW c \in Conns, SessionStep(c) PROVE Stored'
    <2>1. CASE SetOnline(c) \/ Disconnect(c) \/ SetOffline(c)
      BY <1>1, <2>1 DEF SetOnline, Disconnect, SetOffline, dbVars, history
    <2>2. CASE FlushSelect(c)
      BY <1>0, <2>2 DEF Stored, FlushSelect, SelectPending, dbVars, history, Typed, TypeOK, Owned
    <2>3. CASE FlushMark(c)
      BY <1>0, <2>3 DEF Stored, FlushMark, MarkDelivered, history, Typed, TypeOK
    <2>4. CASE FlushBreak(c)
      BY <1>0, <2>4 DEF Stored, FlushBreak, dbVars, history, Typed, TypeOK
    <2>5. ASSUME NEW m \in Msgs, FlushSend(c, m) PROVE Stored'
      BY <1>0, <2>5 DEF Stored, FlushSend, dbVars, Typed, TypeOK
    <2>6. ASSUME NEW m \in Msgs, HandleAck(c, m) PROVE Stored'
      <3>1. \A k \in Msgs, a \in Agents : queue'[<<k, a>>] # "none" => queue[<<k, a>>] # "none"
        BY <1>0, <2>6 DEF HandleAck, MarkAcked, Typed, TypeOK
      <3> QED
        BY <2>6, <3>1 DEF Stored, HandleAck, sessionVars, history
    <2> QED
      BY <1>2, <2>1, <2>2, <2>3, <2>4, <2>5, <2>6 DEF SessionStep
  <1>3. ASSUME NEW m \in Msgs, HandlerStep(m) PROVE Stored'
    <2>1. CASE Enqueue(m)
      <3>1. send[m].to \in Agents
        BY <1>0, <2>1 DEF Enqueue, Typed, Aimed
      <3>2. \A k \in Msgs, a \in Agents : queue'[<<k, a>>] # "none" =>
                queue[<<k, a>>] # "none" \/ (k = m /\ a = send[m].to)
        BY <1>0, <2>1, <3>1 DEF Enqueue, InsertOrIgnore, Typed, TypeOK
      <3>3. \A k \in Msgs : kept[k] \subseteq kept'[k]
        BY <1>0, <2>1 DEF Enqueue, Typed, TypeOK
      <3>4. send[m].to \in kept'[m]
        BY <1>0, <2>1 DEF Enqueue, Typed, TypeOK
      <3> QED
        BY <1>0, <2>1, <3>2, <3>3, <3>4 DEF Stored, Enqueue, sessionVars, Typed, TypeOK
    <2> QED
      BY <1>1, <1>3, <2>1 DEF HandlerStep, ReadMembers, SendToAgent, SendOk, SendFails, Finish,
         sessionVars, dbVars, history
  <1>4. ASSUME NEW c \in Conns, NEW a \in Agents, Connect(c, a) PROVE Stored'
    <2>1. session[c] = "new" /\ owner[c] \notin Agents
      BY <1>0, <1>4, NobodyIsNoAgent DEF Connect, Typed, Owned
    <2>2. batch[c] = {}
      BY <1>0, <2>1 DEF Stored, Typed, TypeOK
    <2> QED
      BY <1>0, <1>4, <2>2 DEF Stored, Connect, dbVars, history, Typed, TypeOK
  <1>5. ASSUME NEW m \in Msgs, NEW s \in Agents, NEW v \in Conns \cup {Http},
               NEW d \in Agents \cup {Nobody}, NEW r \in BOOLEAN, Accept(m, s, v, d, r)
        PROVE  Stored'
    BY <1>1, <1>5 DEF Accept, dbVars
  <1>6. CASE Environment
    <2>1. CASE Crash
      BY <2>1 DEF Stored, Crash, dbVars, history
    <2>2. CASE Cleanup
      BY <1>0, <2>2 DEF Stored, Cleanup, DeleteExpired, sessionVars, history, Typed, TypeOK
    <2> QED
      BY <1>1, <1>6, <2>1, <2>2 DEF Environment, ClientAck, LinkDown, Abort, HandlerFails, Expire,
         sessionVars, dbVars, history
  <1>7. CASE UNCHANGED vars
    BY <1>1, <1>7 DEF vars, sessionVars, dbVars, history
  <1> QED
    BY <1>2, <1>3, <1>4, <1>5, <1>6, <1>7 DEF Next, Request

-----------------------------------------------------------------------------
(* Given                                                                   *)

(* A session's owner never changes once a message was written to it.       *)
LEMMA GivenKept ==
  ASSUME PromiseInv, [Next]_vars
  PROVE  Given'
  <1> USE DEF PromiseInv
  <1>0. Typed
    BY DEF SendInv
  <1>1. CASE UNCHANGED <<inbox, acks, owner, wrote>>
    BY <1>1 DEF Given
  <1>2. ASSUME NEW c \in Conns, SessionStep(c) PROVE Given'
    <2>1. ASSUME NEW m \in Msgs, FlushSend(c, m) PROVE Given'
      <3>1. /\ \A d \in Conns : inbox'[d] \subseteq inbox[d] \cup (IF d = c THEN {m} ELSE {})
            /\ UNCHANGED <<acks, owner>>
        BY <1>0, <2>1 DEF FlushSend, Write, Typed, TypeOK
      <3>2. owner[c] \in wrote'[m] /\ \A k \in Msgs : wrote[k] \subseteq wrote'[k]
        BY <1>0, <2>1, NobodyIsNoAgent DEF FlushSend, Typed, TypeOK, Owned
      <3>3. \A d \in Conns : inbox[d] \cup acks[d] \subseteq Msgs
        BY <1>0 DEF Typed, TypeOK
      <3> QED
        BY <3>1, <3>2, <3>3 DEF Given
    <2>2. ASSUME NEW m \in Msgs, HandleAck(c, m) PROVE Given'
      BY <1>0, <2>2 DEF Given, HandleAck, sessionVars, history, Typed, TypeOK
    <2> QED
      BY <1>1, <1>2, <2>1, <2>2 DEF SessionStep, SetOnline, FlushSelect, FlushMark, FlushBreak,
         Disconnect, SetOffline, linkVars, history
  <1>3. ASSUME NEW m \in Msgs, HandlerStep(m) PROVE Given'
    <2>1. CASE SendOk(m)
      <3> DEFINE c == send[m].cur
      <3>1. c \in Conns /\ owner[c] = send[m].to
        BY <1>0, <2>1 DEF SendOk, Matched, Typed, Aimed
      <3>2. /\ \A d \in Conns : inbox'[d] \subseteq inbox[d] \cup (IF d = c THEN {m} ELSE {})
            /\ UNCHANGED <<acks, owner>>
        BY <1>0, <2>1 DEF SendOk, Write, sessionVars, Typed, TypeOK
      <3>3. send[m].to \in wrote'[m] /\ \A k \in Msgs : wrote[k] \subseteq wrote'[k]
        BY <1>0, <2>1 DEF SendOk, Typed, TypeOK
      <3>4. \A d \in Conns : inbox[d] \cup acks[d] \subseteq Msgs
        BY <1>0 DEF Typed, TypeOK
      <3> HIDE DEF c
      <3> QED
        BY <3>1, <3>2, <3>3, <3>4 DEF Given
    <2> QED
      BY <1>1, <1>3, <2>1 DEF HandlerStep, ReadMembers, SendToAgent, SendFails, Enqueue, Finish,
         sessionVars, linkVars, history
  <1>4. ASSUME NEW c \in Conns, NEW a \in Agents, Connect(c, a) PROVE Given'
    <2>1. owner[c] = Nobody /\ owner' = [owner EXCEPT ![c] = a] /\ UNCHANGED <<inbox, acks, wrote>>
      BY <1>0, <1>4 DEF Connect, Typed, Owned, history
    <2>2. \A k \in Msgs : Nobody \notin wrote[k]
      BY <1>0, NobodyIsNoAgent DEF Typed, TypeOK
    <2>3. inbox[c] = {} /\ acks[c] = {}
      BY <1>0, <2>1, <2>2 DEF Given, Typed, TypeOK
    <2> QED
      BY <1>0, <2>1, <2>3 DEF Given, Typed, TypeOK
  <1>5. ASSUME NEW m \in Msgs, NEW s \in Agents, NEW v \in Conns \cup {Http},
               NEW d \in Agents \cup {Nobody}, NEW r \in BOOLEAN, Accept(m, s, v, d, r)
        PROVE  Given'
    BY <1>1, <1>5 DEF Accept, linkVars
  <1>6. CASE Environment
    <2>1. ASSUME NEW c \in Conns, NEW m \in Msgs, ClientAck(c, m) PROVE Given'
      <3>1. UNCHANGED <<owner, wrote>> /\ \A d \in Conns : inbox'[d] \cup acks'[d] = inbox[d] \cup acks[d]
        BY <1>0, <2>1 DEF ClientAck, sessionVars, history, Typed, TypeOK
      <3> QED
        BY <3>1 DEF Given
    <2>2. ASSUME NEW c \in Conns, LinkDown(c) PROVE Given'
      BY <1>0, <2>2 DEF Given, LinkDown, sessionVars, history, Typed, TypeOK
    <2>3. CASE Crash
      BY <2>3 DEF Given, Crash
    <2> QED
      BY <1>1, <1>6, <2>1, <2>2, <2>3 DEF Environment, Abort, HandlerFails, Expire, Cleanup,
         sessionVars, linkVars, history
  <1>7. CASE UNCHANGED vars
    BY <1>1, <1>7 DEF vars, sessionVars, linkVars, history
  <1> QED
    BY <1>2, <1>3, <1>4, <1>5, <1>6, <1>7 DEF Next, Request

-----------------------------------------------------------------------------
(* The sessions                                                            *)

Gone == {"new", "offline", "closed"}

(* A step that registers nobody leaks nothing, provided that the sessions  *)
(* it ends are unregistered.                                               *)
LEMMA NothingLeaks ==
  ASSUME NoLeakedSocket, UNCHANGED owner,
         \A a \in Agents : connections'[a] \subseteq connections[a],
         \A a \in Agents : \A c \in connections'[a] : session'[c] \in Gone => session[c] \in Gone
  PROVE  NoLeakedSocket'
  BY DEF NoLeakedSocket, Gone

LEMMA LeaveLeaksNothing ==
  ASSUME Typed, NoLeakedSocket, NEW c \in Conns, owner[c] \in Agents, Leave(c), UNCHANGED owner
  PROVE  NoLeakedSocket'
  <1>1. /\ \A a \in Agents : connections'[a] = IF a = owner[c] THEN connections[a] \ {c} ELSE connections[a]
        /\ \A d \in Conns \ {c} : session'[d] = session[d]
    BY DEF Leave, Unregister, Typed, TypeOK
  <1>2. \A a \in Agents : c \notin connections'[a] /\ connections'[a] \subseteq connections[a]
    BY <1>1 DEF NoLeakedSocket
  <1>3. \A a \in Agents : connections[a] \subseteq Conns
    BY DEF Typed, TypeOK
  <1> QED
    BY <1>1, <1>2, <1>3, NothingLeaks

LEMMA NoLeakKept ==
  ASSUME PromiseInv, [Next]_vars
  PROVE  NoLeakedSocket'
  <1> USE DEF PromiseInv
  <1>0. Typed
    BY DEF SendInv
  <1>1. CASE UNCHANGED <<connections, owner, session>>
    BY <1>1 DEF NoLeakedSocket
  <1>8. ASSUME NEW c \in Conns, Abort(c) PROVE NoLeakedSocket'
    <2>1. owner[c] \in Agents /\ Leave(c) /\ UNCHANGED owner
      BY <1>0, <1>8 DEF Abort, Typed, TypeOK, Owned
    <2> QED
      BY <1>0, <2>1, LeaveLeaksNothing
  <1>2. ASSUME NEW c \in Conns, SessionStep(c) PROVE NoLeakedSocket'
    <2>1. CASE Disconnect(c)
      BY <1>8, <2>1, DisconnectAborts
    <2>2. ASSUME ~ Disconnect(c) PROVE NoLeakedSocket'
      <3>1. UNCHANGED <<connections, owner>>
        BY <1>2, <2>2 DEF SessionStep, SetOnline, FlushSelect, FlushMark, FlushBreak, FlushSend,
           HandleAck, SetOffline, brokerVars, sessionVars
      <3>2. \A d \in Conns : session'[d] \in Gone => session[d] \in Gone
        BY <1>0, <1>2, <2>2 DEF SessionStep, SetOnline, FlushSelect, FlushMark, FlushBreak, FlushSend,
           HandleAck, SetOffline, sessionVars, Typed, TypeOK, Gone
      <3>3. \A a \in Agents : connections[a] \subseteq Conns
        BY <1>0 DEF Typed, TypeOK
      <3> QED
        BY <3>1, <3>2, <3>3, NothingLeaks
    <2> QED
      BY <2>1, <2>2
  <1>3. ASSUME NEW m \in Msgs, HandlerStep(m) PROVE NoLeakedSocket'
    <2>1. CASE SendOk(m) \/ SendFails(m)
      <3>1. UNCHANGED <<owner, session>>
        BY <2>1 DEF SendOk, SendFails, sessionVars
      <3> QED
        BY <1>0, <2>1, <3>1, WriteFrame, NothingLeaks
    <2>2. CASE Finish(m)
      <3>1. CASE UNCHANGED connections
        <4>1. CASE UNCHANGED session
          BY <1>1, <2>2, <3>1, <4>1 DEF Finish
        <4>2. CASE session' = [session EXCEPT ![via[m]] = "loop"]
          <5>1. \A d \in Conns : session'[d] \in Gone => session[d] \in Gone
            BY <1>0, <4>2 DEF Typed, TypeOK, Gone
          <5>2. \A a \in Agents : connections[a] \subseteq Conns
            BY <1>0 DEF Typed, TypeOK
          <5> QED
            BY <2>2, <3>1, <5>1, <5>2, NothingLeaks DEF Finish
        <4>3. CASE via[m] # Http /\ Leave(via[m])
          <5>1. via[m] \in Conns /\ owner[via[m]] \in Agents /\ UNCHANGED owner
            BY <1>0, <2>2, <4>3 DEF Finish, Typed, TypeOK, Owned
          <5> QED
            BY <1>0, <4>3, <5>1, LeaveLeaksNothing
        <4> QED
          BY <2>2, <4>1, <4>2, <4>3 DEF Finish
      <3>2. CASE via[m] # Http /\ Leave(via[m])
        <4>1. via[m] \in Conns /\ owner[via[m]] \in Agents /\ UNCHANGED owner
          BY <1>0, <2>2, <3>2 DEF Finish, Typed, TypeOK, Owned
        <4> QED
          BY <1>0, <3>2, <4>1, LeaveLeaksNothing
      <3> QED
        BY <2>2, <3>1, <3>2 DEF Finish
    <2> QED
      BY <1>1, <1>3, <2>1, <2>2 DEF HandlerStep, ReadMembers, SendToAgent, Enqueue, brokerVars, sessionVars
  <1>4. ASSUME NEW c \in Conns, NEW a \in Agents, Connect(c, a) PROVE NoLeakedSocket'
    <2>1. \A b \in Agents : c \notin connections[b] /\ connections[b] \subseteq Conns
      BY <1>0, <1>4 DEF Connect, NoLeakedSocket, Typed, TypeOK
    <2>2. /\ \A b \in Agents : connections'[b] = IF b = a THEN connections[b] \cup {c} ELSE connections[b]
          /\ \A d \in Conns \ {c} : session'[d] = session[d] /\ owner'[d] = owner[d]
          /\ session'[c] = "online" /\ owner'[c] = a
      BY <1>0, <1>4 DEF Connect, Register, Typed, TypeOK
    <2>3. ASSUME NEW b \in Agents, NEW d \in connections'[b]
          PROVE  owner'[d] = b /\ session'[d] \notin {"new", "offline", "closed"}
      <3>1. CASE d = c
        <4>1. b = a
          BY <2>1, <2>2, <2>3, <3>1
        <4> QED
          BY <2>2, <3>1, <4>1
      <3>2. CASE d # c
        <4>1. d \in connections[b] /\ d \in Conns \ {c}
          BY <2>1, <2>2, <2>3, <3>2
        <4>2. owner[d] = b /\ session[d] \notin {"new", "offline", "closed"}
          BY <4>1 DEF NoLeakedSocket
        <4> QED
          BY <2>2, <4>1, <4>2
      <3> QED
        BY <3>1, <3>2
    <2> QED
      BY <2>3 DEF NoLeakedSocket
  <1>5. ASSUME NEW m \in Msgs, NEW s \in Agents, NEW v \in Conns \cup {Http},
               NEW d \in Agents \cup {Nobody}, NEW r \in BOOLEAN, Accept(m, s, v, d, r)
        PROVE  NoLeakedSocket'
    <2>1. UNCHANGED <<connections, owner>>
      BY <1>5 DEF Accept, brokerVars
    <2>2. \A c \in Conns : session'[c] \in Gone => session[c] \in Gone
      BY <1>0, <1>5 DEF Accept, Typed, TypeOK, Gone
    <2>3. \A a \in Agents : connections[a] \subseteq Conns
      BY <1>0 DEF Typed, TypeOK
    <2> QED
      BY <2>1, <2>2, <2>3, NothingLeaks
  <1>6. CASE Environment
    <2>1. CASE Crash
      BY <2>1 DEF NoLeakedSocket, Crash
    <2>2. ASSUME NEW c \in Conns, Abort(c) PROVE NoLeakedSocket'
      BY <1>8, <2>2
    <2>3. ASSUME NEW m \in Msgs, HandlerFails(m) PROVE NoLeakedSocket'
      <3>1. CASE UNCHANGED <<connections, session>>
        BY <1>1, <2>3, <3>1 DEF HandlerFails
      <3>2. CASE via[m] # Http /\ Leave(via[m])
        <4>1. via[m] \in Conns /\ owner[via[m]] \in Agents /\ UNCHANGED owner
          BY <1>0, <2>3, <3>2 DEF HandlerFails, Typed, TypeOK, Owned
        <4> QED
          BY <1>0, <3>2, <4>1, LeaveLeaksNothing
      <3> QED
        BY <2>3, <3>1, <3>2 DEF HandlerFails
    <2> QED
      BY <1>1, <1>6, <2>1, <2>2, <2>3 DEF Environment, ClientAck, LinkDown, Expire, Cleanup,
         brokerVars, sessionVars
  <1>7. CASE UNCHANGED vars
    BY <1>1, <1>7 DEF vars, brokerVars, sessionVars
  <1> QED
    BY <1>2, <1>3, <1>4, <1>5, <1>6, <1>7 DEF Next, Request

(* A session that ends takes only its own socket out of the registry.      *)
LEMMA LeaveSparesOthers ==
  ASSUME Typed, LiveIsReachable, NEW c \in Conns, owner[c] \in Agents, Leave(c),
         UNCHANGED <<owner, up>>
  PROVE  LiveIsReachable'
  <1>1. /\ connections' = [connections EXCEPT ![owner[c]] = @ \ {c}]
        /\ session' = [session EXCEPT ![c] = "offline"]
    BY DEF Leave, Unregister
  <1> SUFFICES ASSUME NEW d \in up, session'[d] \notin {"offline", "closed"}
               PROVE  d \in connections'[owner[d]]
    BY DEF LiveIsReachable
  <1>2. d # c /\ d \in Conns /\ session'[d] = session[d]
    BY <1>1 DEF Typed, TypeOK
  <1>3. d \in connections[owner[d]]
    BY <1>2 DEF LiveIsReachable
  <1> QED
    BY <1>1, <1>2, <1>3 DEF Typed, TypeOK

(* When send_to_agent returns it unregisters sockets that raised: none of  *)
(* them has a working link.                                                *)
LEMMA WriteSparesLive ==
  ASSUME SendInv, NEW m \in Msgs, SendOk(m) \/ SendFails(m)
  PROVE  \A c \in up : c \in connections[owner[c]] => c \in connections'[owner[c]]
  <1>1. PICK f : /\ f.dead \cap up = {}
                 /\ NextSocket(m, f) \/ Return(m, f)
    <2>1. Iterating(m)
      BY DEF SendOk, SendFails, SendInv
    <2>2. send[m] \in Frames
      BY DEF SendInv, Typed, TypeOK
    <2>3. CASE SendOk(m)
      <3> DEFINE f == [send[m] EXCEPT !.ok = @ \cup {send[m].cur}]
      <3>1. f.dead = send[m].dead
        BY <2>2 DEF Frames
      <3> QED
        BY <2>1, <2>3, <3>1 DEF SendOk, Iterating
    <2>4. CASE SendFails(m)
      <3> DEFINE f == [send[m] EXCEPT !.dead = @ \cup {send[m].cur}]
      <3>1. f.dead = send[m].dead \cup {send[m].cur}
        BY <2>2 DEF Frames
      <3> QED
        BY <2>1, <2>4, <3>1 DEF SendFails, Iterating
    <2> QED
      BY <2>3, <2>4
  <1>2. UNCHANGED connections \/ connections' = [connections EXCEPT ![f.to] = @ \ f.dead]
    BY <1>1 DEF NextSocket, Return, Unregister
  <1> SUFFICES ASSUME NEW c \in up, c \in connections[owner[c]]
               PROVE  c \in connections'[owner[c]]
    OBVIOUS
  <1>3. c \notin f.dead
    BY <1>1
  <1>4. CASE UNCHANGED connections
    BY <1>4
  <1>5. CASE connections' = [connections EXCEPT ![f.to] = @ \ f.dead]
    BY <1>3, <1>5 DEF SendInv, Typed, TypeOK
  <1> QED
    BY <1>2, <1>4, <1>5

LEMMA ReachableKept ==
  ASSUME PromiseInv, [Next]_vars
  PROVE  LiveIsReachable'
  <1> USE DEF PromiseInv
  <1>0. Typed
    BY DEF SendInv
  <1>1. ASSUME UNCHANGED <<connections, owner>>, up' \subseteq up,
               \A c \in Conns : session[c] \in {"offline", "closed"} => session'[c] \in {"offline", "closed"}
        PROVE  LiveIsReachable'
    BY <1>0, <1>1 DEF LiveIsReachable, Typed, TypeOK
  <1>2. ASSUME NEW c \in Conns, Abort(c) PROVE LiveIsReachable'
    <2>1. owner[c] \in Agents /\ Leave(c) /\ UNCHANGED <<owner, up>>
      BY <1>0, <1>2 DEF Abort, linkVars, Typed, TypeOK, Owned
    <2> QED
      BY <1>0, <2>1, LeaveSparesOthers
  <1>3. ASSUME NEW m \in Msgs, Finish(m) \/ HandlerFails(m) PROVE LiveIsReachable'
    <2>1. UNCHANGED <<owner, up>>
      BY <1>3 DEF Finish, HandlerFails, linkVars
    <2>2. CASE via[m] # Http /\ Leave(via[m])
      <3>1. via[m] \in Conns /\ owner[via[m]] \in Agents
        BY <1>0, <2>2 DEF Typed, TypeOK, Owned
      <3> QED
        BY <1>0, <2>1, <2>2, <3>1, LeaveSparesOthers
    <2>3. CASE UNCHANGED <<connections, session>>
      BY <1>1, <2>1, <2>3
    <2>4. CASE /\ UNCHANGED connections
               /\ via[m] # Http /\ handler[m] = "next"
               /\ session' = [session EXCEPT ![via[m]] = "loop"]
      <3>1. session[via[m]] = "handling"
        BY <2>4 DEF Waiting, Active
      <3> QED
        BY <1>0, <1>1, <2>1, <2>4, <3>1 DEF Typed, TypeOK
    <2> QED
      BY <1>3, <2>2, <2>3, <2>4 DEF Finish, HandlerFails
  <1>4. ASSUME NEW c \in Conns, SessionStep(c) PROVE LiveIsReachable'
    <2>1. CASE Disconnect(c)
      BY <1>2, <2>1, DisconnectAborts
    <2>2. ASSUME ~ Disconnect(c) PROVE LiveIsReachable'
      BY <1>0, <1>1, <1>4, <2>2 DEF SessionStep, SetOnline, FlushSelect, FlushMark, FlushBreak,
         FlushSend, HandleAck, SetOffline, brokerVars, sessionVars, linkVars, Typed, TypeOK
    <2> QED
      BY <2>1, <2>2
  <1>5. ASSUME NEW m \in Msgs, HandlerStep(m) PROVE LiveIsReachable'
    <2>1. CASE SendOk(m) \/ SendFails(m)
      <3>1. UNCHANGED <<owner, session, up>>
        BY <2>1 DEF SendOk, SendFails, sessionVars, linkVars
      <3> QED
        BY <2>1, <3>1, WriteSparesLive DEF LiveIsReachable
    <2>2. CASE Finish(m)
      BY <1>3, <2>2
    <2>3. ASSUME ~ SendOk(m), ~ SendFails(m), ~ Finish(m) PROVE LiveIsReachable'
      BY <1>1, <1>5, <2>3 DEF HandlerStep, ReadMembers, SendToAgent, Enqueue, brokerVars,
         sessionVars, linkVars
    <2> QED
      BY <2>1, <2>2, <2>3
  <1>6. ASSUME NEW c \in Conns, NEW a \in Agents, Connect(c, a) PROVE LiveIsReachable'
    <2>1. /\ connections' = [connections EXCEPT ![a] = @ \cup {c}]
          /\ owner' = [owner EXCEPT ![c] = a]
          /\ session' = [session EXCEPT ![c] = "online"]
          /\ up' = up \cup {c}
      BY <1>6 DEF Connect, Register
    <2> SUFFICES ASSUME NEW d \in up', session'[d] \notin {"offline", "closed"}
                 PROVE  d \in connections'[owner'[d]]
      BY DEF LiveIsReachable
    <2>2. CASE d = c
      BY <1>0, <2>1, <2>2 DEF Typed, TypeOK
    <2>3. CASE d # c
      <3>1. d \in up /\ d \in Conns /\ owner'[d] = owner[d] /\ session'[d] = session[d]
        BY <1>0, <2>1, <2>3 DEF Typed, TypeOK
      <3>2. d \in connections[owner[d]]
        BY <3>1 DEF LiveIsReachable
      <3> QED
        BY <1>0, <2>1, <3>1, <3>2 DEF Typed, TypeOK
    <2> QED
      BY <2>2, <2>3
  <1>7. ASSUME NEW m \in Msgs, NEW s \in Agents, NEW v \in Conns \cup {Http},
               NEW d \in Agents \cup {Nobody}, NEW r \in BOOLEAN, Accept(m, s, v, d, r)
        PROVE  LiveIsReachable'
    BY <1>0, <1>1, <1>7 DEF Accept, brokerVars, linkVars, Typed, TypeOK
  <1>8. CASE Environment
    <2>1. CASE Crash
      BY <2>1 DEF LiveIsReachable, Crash
    <2>2. ASSUME ~ Crash, \A m \in Msgs : ~ HandlerFails(m), \A c \in Conns : ~ Abort(c)
          PROVE  LiveIsReachable'
      BY <1>1, <1>8, <2>2 DEF Environment, ClientAck, LinkDown, Expire, Cleanup, brokerVars,
         sessionVars, linkVars
    <2> QED
      BY <1>2, <1>3, <2>1, <2>2
  <1>9. CASE UNCHANGED vars
    BY <1>1, <1>9 DEF vars, brokerVars, sessionVars, linkVars
  <1> QED
    BY <1>4, <1>5, <1>6, <1>7, <1>8, <1>9 DEF Next, Request

LEMMA MatchedKept ==
  ASSUME PromiseInv, [Next]_vars
  PROVE  Matched'
  <1> USE DEF PromiseInv
  <1>0. Typed
    BY DEF SendInv
  <1>1. CASE UNCHANGED <<handler, send, owner>>
    BY <1>1 DEF Matched
  <1>2. ASSUME NEW c \in Conns, SessionStep(c) PROVE Matched'
    BY <1>1, <1>2 DEF SessionStep, SetOnline, FlushSelect, FlushMark, FlushBreak, FlushSend,
       HandleAck, Disconnect, SetOffline, sessionVars, handlerVars
  <1>3. ASSUME NEW m \in Msgs, HandlerStep(m) PROVE Matched'
    <2>1. CASE SendOk(m) \/ SendFails(m)
      <3>1. UNCHANGED owner
        BY <2>1 DEF SendOk, SendFails, sessionVars
      <3>2. send[m].to \in Agents
        BY <1>0, <2>1, WriteFrame DEF Typed, Aimed
      <3>3. handler'[m] = "sending" => owner[send'[m].cur] = send'[m].to
        BY <1>0, <2>1, <3>2, WriteFrame DEF NoLeakedSocket
      <3> QED
        BY <1>0, <2>1, <3>1, <3>3, WriteFrame DEF Matched
    <2>2. ASSUME NEW a \in Agents, SendToAgent(m, a) PROVE Matched'
      <3>1. /\ UNCHANGED owner
            /\ \A k \in Msgs \ {m} : handler'[k] = handler[k] /\ send'[k] = send[k]
        BY <1>0, <2>2 DEF SendToAgent, sessionVars, Typed, TypeOK
      <3>2. handler'[m] = "sending" => owner[send'[m].cur] = send'[m].to
        <4>1. CASE handler' = [handler EXCEPT ![m] = "enqueue"]
          BY <1>0, <4>1 DEF Typed, TypeOK
        <4>2. ASSUME NEW c \in connections[a],
                     send' = [send EXCEPT ![m] = [NoFrame EXCEPT !.to = a, !.cur = c, !.next = 1]]
              PROVE  owner[send'[m].cur] = send'[m].to
          <5>1. send'[m].cur = c /\ send'[m].to = a
            BY <1>0, <4>2 DEF Typed, TypeOK, NoFrame
          <5> QED
            BY <5>1 DEF NoLeakedSocket
        <4> QED
          BY <2>2, <4>1, <4>2 DEF SendToAgent
      <3> QED
        BY <3>1, <3>2 DEF Matched
    <2>3. CASE Enqueue(m) \/ Finish(m)
      <3>1. /\ UNCHANGED owner
            /\ \A k \in Msgs \ {m} : handler'[k] = handler[k] /\ send'[k] = send[k]
            /\ handler'[m] # "sending"
        BY <1>0, <2>3 DEF Enqueue, Finish, sessionVars, Typed, TypeOK
      <3> QED
        BY <3>1 DEF Matched
    <2> QED
      BY <1>1, <1>3, <2>1, <2>2, <2>3 DEF HandlerStep, ReadMembers, sessionVars
  <1>4. ASSUME NEW c \in Conns, NEW a \in Agents, Connect(c, a) PROVE Matched'
    <2>1. owner[c] = Nobody /\ owner' = [owner EXCEPT ![c] = a] /\ UNCHANGED <<handler, send>>
      BY <1>0, <1>4 DEF Connect, Typed, Owned, handlerVars
    <2>2. \A m \in Msgs : handler[m] = "sending" => send[m].cur # c /\ send[m].cur \in Conns
      BY <1>0, <2>1, NobodyIsNoAgent DEF Matched, Typed, Aimed
    <2> QED
      BY <1>0, <2>1, <2>2 DEF Matched, Typed, TypeOK
  <1>5. ASSUME NEW m \in Msgs, NEW s \in Agents, NEW v \in Conns \cup {Http},
               NEW d \in Agents \cup {Nobody}, NEW r \in BOOLEAN, Accept(m, s, v, d, r)
        PROVE  Matched'
    BY <1>0, <1>5 DEF Matched, Accept, Typed, TypeOK
  <1>6. CASE Environment
    <2>1. CASE Crash
      BY <2>1 DEF Matched, Crash
    <2>2. ASSUME NEW m \in Msgs, HandlerFails(m) PROVE Matched'
      BY <1>0, <2>2 DEF Matched, HandlerFails, Typed, TypeOK
    <2> QED
      BY <1>1, <1>6, <2>1, <2>2 DEF Environment, ClientAck, LinkDown, Abort, Expire, Cleanup,
         handlerVars, sessionVars
  <1>7. CASE UNCHANGED vars
    BY <1>1, <1>7 DEF vars, handlerVars, sessionVars
  <1> QED
    BY <1>2, <1>3, <1>4, <1>5, <1>6, <1>7 DEF Next, Request

LEMMA WaitingKept ==
  ASSUME PromiseInv, [Next]_vars
  PROVE  Waiting'
  <1> USE DEF PromiseInv
  <1>0. Typed
    BY DEF SendInv
  (* It is enough that no handler starts, or moves to another session, and  *)
  (* that the sessions waited in go on waiting.                             *)
  <1>1. ASSUME UNCHANGED via,
               \A m \in Msgs : handler'[m] \in Active => handler[m] \in Active,
               \A m \in Msgs : handler'[m] \in Active /\ via[m] # Http => session'[via[m]] = "handling"
        PROVE  Waiting'
    BY <1>1 DEF Waiting
  <1>2. ASSUME NEW c \in Conns, SessionStep(c) PROVE Waiting'
    <2>1. UNCHANGED <<handler, via>>
      BY <1>2 DEF SessionStep, SetOnline, FlushSelect, FlushMark, FlushBreak, FlushSend,
         HandleAck, Disconnect, SetOffline, handlerVars
    <2>2. session[c] # "handling" /\ \A d \in Conns \ {c} : session'[d] = session[d]
      BY <1>0, <1>2 DEF SessionStep, SetOnline, FlushSelect, FlushMark, FlushBreak, FlushSend,
         HandleAck, Disconnect, Leave, SetOffline, sessionVars, Typed, TypeOK
    <2>3. \A m \in Msgs : handler[m] \in Active /\ via[m] # Http => session'[via[m]] = "handling"
      BY <1>0, <2>2 DEF Waiting, Typed, TypeOK
    <2> QED
      BY <1>1, <2>1, <2>3
  <1>8. ASSUME NEW m \in Msgs, Finish(m) \/ HandlerFails(m) PROVE Waiting'
    <2>1. /\ UNCHANGED via
          /\ handler[m] \in Active /\ handler'[m] \in {"done", "lost"}
          /\ \A k \in Msgs \ {m} : handler'[k] = handler[k]
      BY <1>0, <1>8 DEF Finish, HandlerFails, Typed, TypeOK, Active
    <2>2. \A d \in Conns : d # via[m] => session'[d] = session[d]
      BY <1>0, <1>8 DEF Finish, HandlerFails, Leave, Typed, TypeOK
    <2>3. ASSUME NEW k \in Msgs, handler'[k] \in Active, via[k] # Http
          PROVE  session'[via[k]] = "handling"
      <3>1. k # m /\ handler[k] \in Active
        BY <2>1, <2>3 DEF Active
      <3>2. via[k] # via[m] /\ session[via[k]] = "handling" /\ via[k] \in Conns
        BY <1>0, <2>1, <2>3, <3>1 DEF Waiting, Typed, TypeOK
      <3> QED
        BY <2>2, <3>2
    <2>4. \A k \in Msgs : handler'[k] \in Active => handler[k] \in Active
      BY <2>1
    <2> QED
      BY <1>1, <2>1, <2>3, <2>4
  <1>3. ASSUME NEW m \in Msgs, HandlerStep(m) PROVE Waiting'
    <2>1. CASE Finish(m)
      BY <1>8, <2>1
    <2>2. CASE SendOk(m) \/ SendFails(m)
      <3>1. UNCHANGED <<via, session>>
        BY <2>2 DEF SendOk, SendFails, sessionVars
      <3>2. handler[m] \in Active /\ \A k \in Msgs \ {m} : handler'[k] = handler[k]
        BY <1>0, <2>2, WriteFrame DEF Active
      <3> QED
        BY <3>1, <3>2 DEF Waiting
    <2>3. ASSUME ~ Finish(m), ~ SendOk(m), ~ SendFails(m) PROVE Waiting'
      <3>1. UNCHANGED <<via, session>>
        BY <1>3, <2>3 DEF HandlerStep, ReadMembers, SendToAgent, Enqueue, sessionVars
      <3>2. handler[m] \in Active /\ \A k \in Msgs \ {m} : handler'[k] = handler[k]
        BY <1>0, <1>3, <2>3 DEF HandlerStep, ReadMembers, SendToAgent, Enqueue, Typed, TypeOK, Active
      <3> QED
        BY <3>1, <3>2 DEF Waiting
    <2> QED
      BY <2>1, <2>2, <2>3
  <1>4. ASSUME NEW c \in Conns, NEW a \in Agents, Connect(c, a) PROVE Waiting'
    <2>1. UNCHANGED <<handler, via>> /\ session[c] = "new"
          /\ \A d \in Conns \ {c} : session'[d] = session[d]
      BY <1>0, <1>4 DEF Connect, handlerVars, Typed, TypeOK
    <2>2. \A m \in Msgs : handler[m] \in Active /\ via[m] # Http => session'[via[m]] = "handling"
      BY <1>0, <2>1 DEF Waiting, Typed, TypeOK
    <2> QED
      BY <1>1, <2>1, <2>2
  <1>5. ASSUME NEW m \in Msgs, NEW s \in Agents, NEW v \in Conns \cup {Http},
               NEW d \in Agents \cup {Nobody}, NEW r \in BOOLEAN, Accept(m, s, v, d, r)
        PROVE  Waiting'
    <2>1. /\ handler'[m] = "next" /\ via'[m] = v
          /\ \A k \in Msgs \ {m} : handler'[k] = handler[k] /\ via'[k] = via[k]
          /\ v # Http => v \in Conns /\ session[v] = "loop" /\ session'[v] = "handling"
          /\ \A d1 \in Conns : d1 # v => session'[d1] = session[d1]
      BY <1>0, <1>5, HttpIsNoConn DEF Accept, Typed, TypeOK
    <2>2. \A k \in Msgs \ {m} : handler[k] \in Active /\ via[k] # Http =>
              via[k] # v /\ via[k] \in Conns /\ session[via[k]] = "handling"
      BY <1>0, <2>1 DEF Waiting, Typed, TypeOK
    <2>3. ASSUME NEW k \in Msgs, handler'[k] \in Active, via'[k] # Http
          PROVE  session'[via'[k]] = "handling"
      BY <2>1, <2>2, <2>3
    <2>4. ASSUME NEW k \in Msgs, handler'[k] \in Active, via'[k] # Http,
                 NEW l \in Msgs, handler'[l] \in Active, via'[l] = via'[k]
          PROVE  l = k
      <3>1. CASE k = m \/ l = m
        BY <2>1, <2>2, <2>4, <3>1
      <3>2. CASE k # m /\ l # m
        BY <2>1, <2>4, <3>2 DEF Waiting
      <3> QED
        BY <3>1, <3>2
    <2> QED
      BY <2>3, <2>4 DEF Waiting
  <1>6. CASE Environment
    <2>1. CASE Crash
      BY <2>1 DEF Waiting, Crash, Active
    <2>2. ASSUME NEW c \in Conns, Abort(c) PROVE Waiting'
      <3>1. UNCHANGED <<handler, via>> /\ session[c] # "handling"
            /\ \A d \in Conns \ {c} : session'[d] = session[d]
        BY <1>0, <2>2 DEF Abort, Leave, handlerVars, Typed, TypeOK
      <3>2. \A m \in Msgs : handler[m] \in Active /\ via[m] # Http => session'[via[m]] = "handling"
        BY <1>0, <3>1 DEF Waiting, Typed, TypeOK
      <3> QED
        BY <1>1, <3>1, <3>2
    <2>3. ASSUME NEW m \in Msgs, HandlerFails(m) PROVE Waiting'
      BY <1>8, <2>3
    <2> QED
      BY <1>6, <2>1, <2>2, <2>3 DEF Waiting, Environment, ClientAck, LinkDown, Expire, Cleanup,
         handlerVars, sessionVars
  <1>7. CASE UNCHANGED vars
    BY <1>7 DEF Waiting, vars, handlerVars, sessionVars
  <1> QED
    BY <1>2, <1>3, <1>4, <1>5, <1>6, <1>7 DEF Next, Request

LEMMA NextPromiseInv == PromiseInv /\ [Next]_vars => PromiseInv'
  <1> SUFFICES ASSUME PromiseInv, [Next]_vars PROVE PromiseInv'
    OBVIOUS
  <1>1. SendInv'
    BY NextSendInv DEF PromiseInv
  <1> QED
    BY <1>1, RecipientsKept, StoredKept, GivenKept, NoLeakKept, ReachableKept, MatchedKept,
       WaitingKept DEF PromiseInv

(* The registry lists a socket only under its own agent and only while its *)
(* session runs.                                                           *)
THEOREM NoSocketLeaks == Spec => []NoLeakedSocket
  <1>1. PromiseInv => NoLeakedSocket
    BY DEF PromiseInv
  <1> QED
    BY <1>1, InitPromiseInv, NextPromiseInv, PTL DEF Spec

(* A session that goes on stays in the registry as long as its link works. *)
THEOREM LiveStaysReachable == Spec => []LiveIsReachable
  <1>1. PromiseInv => LiveIsReachable
    BY DEF PromiseInv
  <1> QED
    BY <1>1, InitPromiseInv, NextPromiseInv, PTL DEF Spec

-----------------------------------------------------------------------------
(* The refinement                                                          *)

LEMMA ToldSame ==
  ASSUME \A m \in Msgs : handler'[m] = "done" <=> handler[m] = "done"
  PROVE  Told' = Told
  BY DEF Told

LEMMA AttachedSame ==
  ASSUME UNCHANGED owner,
         \A c \in Conns : session'[c] \in {"new", "closed"} <=> session[c] \in {"new", "closed"}
  PROVE  Attached' = Attached
  BY DEF Attached

LEMMA AttachedAgents == Typed' => Attached' \in SUBSET Agents
  BY DEF Typed, TypeOK, Owned, Attached

LEMMA SessionPromised ==
  ASSUME PromiseInv, PromiseInv', NEW c \in Conns, SessionStep(c)
  PROVE  [Promise!Next]_(Promise!boxVars)
  <1> USE DEF PromiseInv
  <1>0. Typed /\ Typed'
    BY DEF SendInv
  <1>1. Told' = Told
    BY <1>0, ToldSame DEF SessionStep, SetOnline, FlushSelect, FlushMark, FlushBreak, FlushSend,
       HandleAck, Disconnect, SetOffline, handlerVars
  <1>2. ASSUME ~ SetOffline(c) PROVE Attached' = Attached
    <2>1. UNCHANGED owner
          /\ \A d \in Conns : session'[d] \in {"new", "closed"} <=> session[d] \in {"new", "closed"}
      BY <1>0, <1>2 DEF SessionStep, SetOnline, FlushSelect, FlushMark, FlushBreak, FlushSend,
         HandleAck, Disconnect, Leave, sessionVars, Typed, TypeOK
    <2> QED
      BY <2>1, AttachedSame
  <1>3. CASE SetOnline(c) \/ FlushSelect(c) \/ FlushBreak(c) \/ Disconnect(c)
    <2>1. ~ SetOffline(c)
      BY <1>3 DEF SetOnline, FlushSelect, FlushBreak, Disconnect, SetOffline
    <2>2. UNCHANGED <<asked, wrote, kept, queue, stale>>
      BY <1>3 DEF SetOnline, FlushSelect, FlushBreak, Disconnect, dbVars, history
    <2> QED
      BY <1>1, <1>2, <2>1, <2>2 DEF Promise!boxVars
  <1>4. CASE FlushMark(c)
    <2>1. /\ owner[c] \in Agents /\ owner[c] \in Attached
          /\ queue' = MarkDelivered(queue, owner[c])
          /\ UNCHANGED <<asked, wrote, kept, stale>>
          /\ ~ SetOffline(c)
      BY <1>0, <1>4 DEF FlushMark, SetOffline, Attached, Typed, TypeOK, Owned, history
    <2>2. Promise!HandOver(owner[c])
      BY <1>0, <1>1, <1>2, <2>1 DEF Promise!HandOver, Promise!Copies, MarkDelivered, Typed, TypeOK
    <2> QED
      BY <2>1, <2>2 DEF Promise!Next
  <1>5. ASSUME NEW m \in Msgs, FlushSend(c, m) PROVE Promise!Next
    <2>1. /\ owner[c] \in Agents
          /\ wrote' = [wrote EXCEPT ![m] = @ \cup {owner[c]}]
          /\ UNCHANGED <<asked, kept, queue, stale>>
          /\ ~ SetOffline(c)
      BY <1>0, <1>5 DEF FlushSend, SetOffline, Typed, TypeOK, Owned, dbVars
    <2>2. owner[c] \in kept[m] /\ owner[c] \in asked[m]
      BY <1>5, <2>1 DEF FlushSend, Stored, Recipients
    <2>3. Promise!Deliver(m, owner[c])
      BY <1>1, <1>2, <2>1, <2>2 DEF Promise!Deliver
    <2> QED
      BY <2>1, <2>3 DEF Promise!Next
  <1>6. ASSUME NEW m \in Msgs, HandleAck(c, m) PROVE Promise!Next
    <2>1. /\ owner[c] \in Agents /\ owner[c] \in Attached
          /\ queue' = MarkAcked(queue, m, owner[c])
          /\ UNCHANGED <<asked, wrote, kept, stale>>
          /\ ~ SetOffline(c)
      BY <1>0, <1>6 DEF HandleAck, SetOffline, Attached, Typed, TypeOK, Owned, history
    <2>2. owner[c] \in wrote[m]
      BY <1>6 DEF HandleAck, Given
    <2>3. Promise!Acknowledge(m, owner[c])
      BY <1>1, <1>2, <2>1, <2>2 DEF Promise!Acknowledge, MarkAcked
    <2> QED
      BY <2>1, <2>3 DEF Promise!Next
  <1>7. CASE SetOffline(c)
    <2>1. UNCHANGED <<asked, wrote, kept, queue, stale>>
      BY <1>7 DEF SetOffline, history
    <2>2. Attached' \in SUBSET Agents
      BY <1>0, AttachedAgents
    <2>3. Promise!Attend(Attached')
      BY <1>1, <2>1 DEF Promise!Attend
    <2> QED
      BY <2>2, <2>3 DEF Promise!Next
  <1> QED
    BY <1>3, <1>4, <1>5, <1>6, <1>7 DEF SessionStep

LEMMA HandlerPromised ==
  ASSUME PromiseInv, PromiseInv', NEW m \in Msgs, HandlerStep(m)
  PROVE  [Promise!Next]_(Promise!boxVars)
  <1> USE DEF PromiseInv
  <1>0. Typed /\ Typed'
    BY DEF SendInv
  <1>1. CASE Finish(m)
    <2>1. /\ handler[m] = "next" /\ handler' = [handler EXCEPT ![m] = "done"]
          /\ UNCHANGED <<owner, via, asked, wrote, kept, queue, stale>>
      BY <1>1 DEF Finish, dbVars, history
    <2>2. m \notin Told /\ Told' = Told \cup {m}
      BY <1>0, <2>1 DEF Told, Typed, TypeOK
    <2>3. asked[m] \subseteq wrote[m] \cup kept[m]
      <3>1. handler'[m] = "done" /\ Served(m)'
        BY <1>0, <2>1 DEF SendInv, Typed, TypeOK
      <3> QED
        BY <2>1, <3>1 DEF Served
    <2>4. Attached' = Attached
      <3>1. via[m] # Http => session[via[m]] = "handling"
        BY <2>1 DEF Waiting, Active
      <3>2. \A d \in Conns : session'[d] \in {"new", "closed"} <=> session[d] \in {"new", "closed"}
        BY <1>0, <1>1, <3>1 DEF Finish, Leave, Typed, TypeOK
      <3> QED
        BY <2>1, <3>2, AttachedSame
    <2>5. Promise!Report(m)
      BY <2>1, <2>2, <2>3, <2>4 DEF Promise!Report
    <2> QED
      BY <2>5 DEF Promise!Next
  <1>2. ASSUME ~ Finish(m) PROVE [Promise!Next]_(Promise!boxVars)
    <2>1. Attached' = Attached
      <3>1. UNCHANGED <<owner, session>>
        BY <1>2 DEF HandlerStep, ReadMembers, SendToAgent, SendOk, SendFails, Enqueue, sessionVars
      <3> QED
        BY <3>1, AttachedSame
    <2>2. handler[m] \in Active /\ handler'[m] \in Active
          /\ \A k \in Msgs \ {m} : handler'[k] = handler[k]
      <3>1. CASE SendOk(m) \/ SendFails(m)
        BY <1>0, <3>1, WriteFrame DEF Active
      <3>2. CASE ~ SendOk(m) /\ ~ SendFails(m)
        <4>1. \/ handler[m] = "next" /\ handler' = handler
              \/ /\ handler[m] \in {"next", "enqueue"}
                 /\ \E pc \in Active : handler' = [handler EXCEPT ![m] = pc]
          BY <1>2, <3>2 DEF HandlerStep, ReadMembers, SendToAgent, Enqueue, Active
        <4> QED
          BY <1>0, <4>1 DEF Typed, TypeOK, Active
      <3> QED
        BY <3>1, <3>2
    <2>3. m \notin Told /\ Told' = Told
      <3>1. \A k \in Msgs : handler'[k] = "done" <=> handler[k] = "done"
        BY <2>2 DEF Active
      <3> QED
        BY <2>2, <3>1, ToldSame DEF Told, Active
    <2>4. ASSUME NEW members \in SUBSET Agents, ReadMembers(m, members) PROVE Promise!Next
      <3> DEFINE who == members \ {from[m]}
      <3>1. /\ who \in SUBSET Agents
            /\ asked' = [asked EXCEPT ![m] = @ \cup who]
            /\ UNCHANGED <<wrote, kept, queue, stale>>
        BY <2>4 DEF ReadMembers, dbVars
      <3> HIDE DEF who
      <3>2. Promise!Address(m, who)
        BY <2>1, <2>3, <3>1 DEF Promise!Address
      <3> QED
        BY <3>1, <3>2 DEF Promise!Next
    <2>5. ASSUME NEW a \in Agents, SendToAgent(m, a) PROVE UNCHANGED Promise!boxVars
      BY <2>1, <2>3, <2>5 DEF SendToAgent, dbVars, history, Promise!boxVars
    <2>6. CASE SendFails(m)
      BY <2>1, <2>3, <2>6 DEF SendFails, dbVars, history, Promise!boxVars
    <2>7. CASE SendOk(m)
      <3>1. /\ wrote' = [wrote EXCEPT ![m] = @ \cup {send[m].to}]
            /\ UNCHANGED <<asked, kept, queue, stale>>
            /\ send[m].to \in Agents /\ send[m].to \in asked[m]
        BY <1>0, <2>7 DEF SendOk, dbVars, Typed, Aimed, Recipients
      <3>2. Promise!Deliver(m, send[m].to)
        BY <2>1, <2>3, <3>1 DEF Promise!Deliver
      <3> QED
        BY <3>1, <3>2 DEF Promise!Next
    <2>8. CASE Enqueue(m)
      <3>1. /\ kept' = [kept EXCEPT ![m] = @ \cup {send[m].to}]
            /\ queue' = InsertOrIgnore(queue, m, send[m].to)
            /\ UNCHANGED <<asked, wrote, stale>>
            /\ send[m].to \in Agents /\ send[m].to \in asked[m]
        BY <1>0, <2>8 DEF Enqueue, Typed, Aimed, Recipients
      <3>2. Promise!Store(m, send[m].to)
        BY <2>1, <2>3, <3>1 DEF Promise!Store, InsertOrIgnore
      <3> QED
        BY <3>1, <3>2 DEF Promise!Next
    <2> QED
      BY <1>2, <2>4, <2>5, <2>6, <2>7, <2>8 DEF HandlerStep
  <1> QED
    BY <1>1, <1>2

LEMMA StepPromised ==
  ASSUME PromiseInv, PromiseInv', [Next]_vars
  PROVE  [Promise!Next]_(Promise!boxVars)
  <1> USE DEF PromiseInv
  <1>0. Typed /\ Typed'
    BY DEF SendInv
  <1>1. Attached' \in SUBSET Agents
    BY <1>0, AttachedAgents
  <1>2. ASSUME NEW c \in Conns, NEW a \in Agents, Connect(c, a) PROVE Promise!Next
    <2>1. UNCHANGED <<asked, wrote, kept, queue, stale>> /\ Told' = Told
      BY <1>2, ToldSame DEF Connect, handlerVars, dbVars, history
    <2>2. Promise!Attend(Attached')
      BY <2>1 DEF Promise!Attend
    <2> QED
      BY <1>1, <2>2 DEF Promise!Next
  <1>3. ASSUME NEW m \in Msgs, NEW s \in Agents, NEW v \in Conns \cup {Http},
               NEW d \in Agents \cup {Nobody}, NEW r \in BOOLEAN, Accept(m, s, v, d, r)
        PROVE  Promise!Next
    <2> DEFINE who == {d} \ {Nobody}
    <2>1. /\ who \in SUBSET Agents /\ asked[m] = {}
          /\ asked' = [asked EXCEPT ![m] = who]
          /\ UNCHANGED <<owner, wrote, kept, queue, stale>>
      BY <1>3 DEF Accept, Recipients, dbVars
    <2>2. m \notin Told /\ Told' = Told
      <3>1. handler[m] = "idle" /\ \A k \in Msgs : handler'[k] = "done" <=> handler[k] = "done"
        BY <1>0, <1>3 DEF Accept, Typed, TypeOK
      <3> QED
        BY <3>1, ToldSame DEF Told
    <2>3. Attached' = Attached
      <3>1. \A c \in Conns : session'[c] \in {"new", "closed"} <=> session[c] \in {"new", "closed"}
        BY <1>0, <1>3 DEF Accept, Typed, TypeOK
      <3> QED
        BY <2>1, <3>1, AttachedSame
    <2> HIDE DEF who
    <2>4. asked' = [asked EXCEPT ![m] = @ \cup who]
      BY <1>0, <2>1 DEF Typed, TypeOK
    <2>5. Promise!Address(m, who)
      BY <2>1, <2>2, <2>3, <2>4 DEF Promise!Address
    <2> QED
      BY <2>1, <2>5 DEF Promise!Next
  <1>4. ASSUME NEW m \in Msgs, NEW a \in Agents, Expire(m, a) PROVE Promise!Next
    <2>1. Told' = Told /\ Attached' = Attached
      BY <1>4, ToldSame, AttachedSame DEF Expire, handlerVars, sessionVars
    <2>2. Promise!Age(m, a)
      BY <1>4, <2>1 DEF Expire, history, Promise!Age
    <2> QED
      BY <2>2 DEF Promise!Next
  <1>5. CASE Cleanup
    <2>1. Told' = Told /\ Attached' = Attached
      BY <1>5, ToldSame, AttachedSame DEF Cleanup, handlerVars, sessionVars
    <2>2. Promise!Discard
      BY <1>0, <1>5, <2>1 DEF Cleanup, DeleteExpired, history, Promise!Discard, Promise!Copies, Typed, TypeOK
    <2> QED
      BY <2>2 DEF Promise!Next
  <1>6. CASE Crash
    <2>1. UNCHANGED <<asked, wrote, kept, queue, stale>>
      BY <1>6 DEF Crash, dbVars, history
    <2>2. Told' = Told
      <3>1. \A m \in Msgs : handler'[m] = "done" <=> handler[m] = "done"
        BY <1>6 DEF Crash
      <3> QED
        BY <3>1, ToldSame
    <2>3. Promise!Attend(Attached')
      BY <2>1, <2>2 DEF Promise!Attend
    <2> QED
      BY <1>1, <2>3 DEF Promise!Next
  <1>7. ASSUME (\E c \in Conns, m \in Msgs : ClientAck(c, m)) \/ (\E c \in Conns : LinkDown(c))
               \/ UNCHANGED vars
        PROVE  UNCHANGED Promise!boxVars
    <2>1. UNCHANGED <<asked, wrote, kept, queue, stale, handler, session, owner>>
      BY <1>7 DEF ClientAck, LinkDown, vars, handlerVars, sessionVars, dbVars, history
    <2> QED
      BY <2>1, ToldSame, AttachedSame DEF Promise!boxVars
  <1>8. ASSUME NEW c \in Conns, Abort(c) PROVE UNCHANGED Promise!boxVars
    <2>1. /\ UNCHANGED <<asked, wrote, kept, queue, stale, handler, owner>>
          /\ session[c] = "loop" /\ session' = [session EXCEPT ![c] = "offline"]
      BY <1>8 DEF Abort, Leave, handlerVars, dbVars, history
    <2>2. \A d \in Conns : session'[d] \in {"new", "closed"} <=> session[d] \in {"new", "closed"}
      BY <1>0, <2>1 DEF Typed, TypeOK
    <2> QED
      BY <2>1, <2>2, ToldSame, AttachedSame DEF Promise!boxVars
  <1>9. ASSUME NEW m \in Msgs, HandlerFails(m) PROVE UNCHANGED Promise!boxVars
    <2>1. /\ UNCHANGED <<asked, wrote, kept, queue, stale, owner>>
          /\ handler[m] \in Active /\ handler' = [handler EXCEPT ![m] = "lost"]
          /\ \/ UNCHANGED session
             \/ via[m] # Http /\ session' = [session EXCEPT ![via[m]] = "offline"]
      BY <1>9 DEF HandlerFails, Leave, Active, dbVars, history
    <2>2. \A k \in Msgs : handler'[k] = "done" <=> handler[k] = "done"
      BY <1>0, <2>1 DEF Typed, TypeOK, Active
    <2>3. via[m] # Http => session[via[m]] = "handling"
      BY <2>1 DEF Waiting
    <2>4. \A d \in Conns : session'[d] \in {"new", "closed"} <=> session[d] \in {"new", "closed"}
      BY <1>0, <2>1, <2>3 DEF Typed, TypeOK
    <2> QED
      BY <2>1, <2>2, <2>4, ToldSame, AttachedSame DEF Promise!boxVars
  <1> QED
    BY <1>2, <1>3, <1>4, <1>5, <1>6, <1>7, <1>8, <1>9, SessionPromised, HandlerPromised
       DEF Next, Request, Environment

(* Delivery implements Mailbox: sessions, flushes, fan-outs over changing  *)
(* lists, cleanup and crashes together do nothing that a mailbox which     *)
(* serves, stores, hands over and forgets messages one at a time may not.  *)
THEOREM Implements == Spec => KeepsPromise
  <1>1. Init => Promise!Init
    BY DEF Init, Promise!Init, Promise!Copies, Told, Attached
  <1> QED
    BY <1>1, InitPromiseInv, NextPromiseInv, StepPromised, PTL
       DEF Spec, KeepsPromise, Promise!Spec
-----------------------------------------------------------------------------
(* What becomes of a row                                                   *)

(* Seen from a row of delivery_queue: flush, ack, a second enqueue of the  *)
(* same message and cleanup, in any order, neither revive it nor take it   *)
(* away before its time, and it is acked only if a socket of its agent     *)
(* took the message.                                                       *)
RowsMoveForward ==
    [][\A m \in Msgs, a \in Agents :
          LET before == queue[<<m, a>>]
              after == queue'[<<m, a>>]
          IN  /\ before # "none" /\ after = "none" => <<m, a>> \in stale
              /\ before = "acked" => after \in {"acked", "none"}
              /\ before = "delivered" => after # "pending"
              /\ before # "acked" /\ after = "acked" => a \in wrote[m]]_vars

LEMMA RowForward ==
  ASSUME PromiseInv, PromiseInv', [Next]_vars, NEW m \in Msgs, NEW a \in Agents
  PROVE  /\ queue[<<m, a>>] # "none" /\ queue'[<<m, a>>] = "none" => <<m, a>> \in stale
         /\ queue[<<m, a>>] = "acked" => queue'[<<m, a>>] \in {"acked", "none"}
         /\ queue[<<m, a>>] = "delivered" => queue'[<<m, a>>] # "pending"
         /\ queue[<<m, a>>] # "acked" /\ queue'[<<m, a>>] = "acked" => a \in wrote[m]
  <1> DEFINE row == <<m, a>>
  <1>1. queue \in [Msgs \X Agents -> RowStatus] /\ row \in Msgs \X Agents
    BY DEF PromiseInv, SendInv, Typed, TypeOK
  <1> HIDE DEF row
  <1>2. CASE queue' = queue
    BY <1>2
  <1>3. ASSUME NEW k \in Msgs, NEW b \in Agents, Promise!Store(k, b)
        PROVE  \/ queue'[row] = queue[row]
               \/ queue[row] = "none" /\ queue'[row] = "pending"
    BY <1>1, <1>3 DEF Promise!Store
  <1>4. ASSUME NEW k \in Msgs, NEW b \in Agents, Promise!Acknowledge(k, b)
        PROVE  \/ queue'[row] = queue[row]
               \/ queue[row] # "none" /\ queue'[row] = "acked" /\ b \in wrote[k] /\ row = <<k, b>>
    BY <1>1, <1>4 DEF Promise!Acknowledge
  <1>5. ASSUME NEW b \in Agents, Promise!HandOver(b)
        PROVE  \/ queue'[row] = queue[row]
               \/ queue[row] = "pending" /\ queue'[row] = "delivered"
    BY <1>1, <1>5 DEF Promise!HandOver, Promise!Copies
  <1>6. CASE Promise!Discard
    BY <1>1, <1>6 DEF Promise!Discard, Promise!Copies, row
  <1>7. [Promise!Next]_(Promise!boxVars)
    BY StepPromised
  <1>8. CASE \/ \E who \in SUBSET Agents : Promise!Attend(who)
             \/ \E k \in Msgs :
                   \/ \E who \in SUBSET Agents : Promise!Address(k, who)
                   \/ Promise!Report(k)
                   \/ \E b \in Agents : Promise!Deliver(k, b) \/ Promise!Age(k, b)
             \/ UNCHANGED Promise!boxVars
    <2>1. queue' = queue
      BY <1>8 DEF Promise!Attend, Promise!Address, Promise!Report, Promise!Deliver, Promise!Age,
         Promise!boxVars
    <2> QED
      BY <1>2, <2>1
  <1>9. CASE \E k \in Msgs, b \in Agents : Promise!Store(k, b)
    BY <1>3, <1>9 DEF row
  <1>10. CASE \E k \in Msgs, b \in Agents : Promise!Acknowledge(k, b)
    BY <1>4, <1>10 DEF row
  <1>11. CASE \E b \in Agents : Promise!HandOver(b)
    BY <1>5, <1>11 DEF row
  <1> QED
    BY <1>6, <1>7, <1>8, <1>9, <1>10, <1>11 DEF Promise!Next

(* No order of flush, acks, enqueues and cleanup (offline_queue.py) and no *)
(* crash revives a row, or acknowledges what was not written.              *)
THEOREM RowsNeverRevive == Spec => RowsMoveForward
  <1>1. PromiseInv /\ PromiseInv' /\ [Next]_vars =>
           [\A m \in Msgs, a \in Agents :
              LET before == queue[<<m, a>>]
                  after == queue'[<<m, a>>]
              IN  /\ before # "none" /\ after = "none" => <<m, a>> \in stale
                  /\ before = "acked" => after \in {"acked", "none"}
                  /\ before = "delivered" => after # "pending"
                  /\ before # "acked" /\ after = "acked" => a \in wrote[m]]_vars
    BY RowForward
  <1> QED
    BY <1>1, InitPromiseInv, NextPromiseInv, PTL DEF Spec, RowsMoveForward

-----------------------------------------------------------------------------
(* The end of a fan-out                                                    *)

(* One send_to_agent writes to no more sockets than have ever registered.  *)
FanOutIsBounded ==
    \A m \in Msgs : handler[m] = "sending" => send[m].next <= Cardinality(Registered)

(* The agent that is served is one that is still to be served.             *)
Serving == \A m \in Msgs : handler[m] \in {"sending", "enqueue"} => send[m].to \in todo[m]

(* The handler of m comes closer to its end: it has read the members of    *)
(* the room, has one agent less to serve, or gets on with the present one. *)
Advances(m) ==
    \/ handler'[m] = "done"
    \/ inRoom[m] /\ ~ inRoom'[m]
    \/ inRoom'[m] = inRoom[m] /\ todo'[m] \subseteq todo[m] /\ todo'[m] # todo[m]
    \/ /\ inRoom'[m] = inRoom[m] /\ todo'[m] = todo[m]
       /\ \/ handler[m] = "next" /\ handler'[m] \in {"sending", "enqueue"}
          \/ handler[m] = "sending" /\ handler'[m] = "enqueue"
          \/ handler[m] = "sending" /\ handler'[m] = "sending" /\ send'[m].next = send[m].next + 1

(* Each step of a handler brings it closer to its end, and no other step   *)
(* sets it back, although sessions add to the lists that it iterates over. *)
HandlersAdvance ==
    [][\A m \in Msgs :
          /\ HandlerStep(m) => Advances(m)
          /\ handler[m] \in Active =>
                \/ UNCHANGED <<handler[m], inRoom[m], todo[m], send[m]>>
                \/ handler'[m] = "lost" \/ Advances(m)]_vars

LEMMA TriedCounted ==
  ASSUME SendInv, NEW m \in Msgs, handler[m] = "sending"
  PROVE  send[m].next <= Cardinality(Registered)
  <1>1. Iterating(m) /\ send[m] \in Frames /\ send[m].cur \in Conns
    BY DEF SendInv, Typed, TypeOK, Aimed
  <1> DEFINE A == send[m].ok
             B == send[m].dead
             c == send[m].cur
  <1>2. /\ A \in SUBSET Conns /\ B \in SUBSET Conns /\ A \cap B = {} /\ c \notin A \cup B
        /\ send[m].next = Cardinality(A) + Cardinality(B) + 1
        /\ (A \cup B) \cup {c} \subseteq Registered
    BY <1>1 DEF Iterating, Frames, Tried
  <1> HIDE DEF A, B, c
  <1>3. /\ IsFiniteSet(A) /\ IsFiniteSet(B)
        /\ Cardinality(A) \in Nat /\ Cardinality(B) \in Nat
    BY <1>2, ConnSetFinite
  <1>4. /\ IsFiniteSet(A \cup B)
        /\ Cardinality(A \cup B) = Cardinality(A) + Cardinality(B) - Cardinality(A \cap B)
    BY <1>3, FS_Union
  <1>5. Cardinality(A \cap B) = 0
    <2>1. A \cap B = {}
      BY <1>2
    <2> QED
      BY <2>1, FS_EmptySet
  <1>6. Cardinality((A \cup B) \cup {c}) = Cardinality(A) + Cardinality(B) + 1
    <2>1. Cardinality((A \cup B) \cup {c}) = Cardinality(A \cup B) + 1
      BY <1>2, <1>4, FS_AddElement
    <2> QED
      BY <2>1, <1>3, <1>4, <1>5
  <1>7. Cardinality((A \cup B) \cup {c}) <= Cardinality(Registered)
    BY <1>2, RegisteredFinite, FS_Subset
  <1> QED
    BY <1>2, <1>6, <1>7

(* The result of a write moves the iteration, or ends it.                  *)
LEMMA IterationMoves ==
  ASSUME Typed, NEW m \in Msgs, handler[m] = "sending",
         NEW f \in Frames, f.to = send[m].to, f.next = send[m].next,
         NextSocket(m, f) \/ Return(m, f)
  PROVE  \/ /\ handler' = handler /\ todo' = todo
            /\ send'[m].to = send[m].to /\ send'[m].next = send[m].next + 1
         \/ /\ handler'[m] = "next" /\ todo'[m] = todo[m] \ {send[m].to}
         \/ /\ handler'[m] = "enqueue" /\ todo' = todo
            /\ send'[m].to = send[m].to
  <1>1. /\ send[m].to \in Agents /\ send \in [Msgs -> Frames] /\ todo \in [Msgs -> SUBSET Agents]
        /\ handler \in [Msgs -> {"idle", "next", "sending", "enqueue", "done", "lost"}]
        /\ LiveList(m) \subseteq Conns
    BY DEF Typed, TypeOK, Aimed, LiveList
  <1>2. CASE NextSocket(m, f)
    <2>1. PICK c \in LiveList(m) : send' = [send EXCEPT ![m] = [f EXCEPT !.cur = c, !.next = @ + 1]]
      BY <1>2 DEF NextSocket
    <2> DEFINE g == [f EXCEPT !.cur = c, !.next = @ + 1]
    <2>2. g.to = f.to /\ g.next = f.next + 1
      BY <1>1, <2>1, NextFrame
    <2>3. send' = [send EXCEPT ![m] = g]
      BY <2>1
    <2>4. handler' = handler /\ todo' = todo
      BY <1>2 DEF NextSocket
    <2> HIDE DEF g
    <2> QED
      BY <1>1, <2>2, <2>3, <2>4
  <1>3. CASE Return(m, f)
    <2>1. CASE handler' = [handler EXCEPT ![m] = "next"] /\ todo' = [todo EXCEPT ![m] = @ \ {f.to}]
      BY <1>1, <2>1
    <2>2. CASE handler' = [handler EXCEPT ![m] = "enqueue"] /\ todo' = todo
               /\ send' = [send EXCEPT ![m] = [NoFrame EXCEPT !.to = f.to]]
      BY <1>1, <2>2, NoFrameType
    <2> QED
      BY <1>3, <2>1, <2>2 DEF Return
  <1> QED
    BY <1>2, <1>3

LEMMA WriteMoves ==
  ASSUME Typed, NEW m \in Msgs, SendOk(m) \/ SendFails(m)
  PROVE  /\ inRoom' = inRoom
         /\ \/ /\ handler' = handler /\ todo' = todo
               /\ send'[m].to = send[m].to /\ send'[m].next = send[m].next + 1
            \/ /\ handler'[m] = "next" /\ todo'[m] = todo[m] \ {send[m].to}
            \/ /\ handler'[m] = "enqueue" /\ todo' = todo
               /\ send'[m].to = send[m].to
  <1>1. handler[m] = "sending" /\ send[m] \in Frames /\ send[m].cur \in Conns /\ inRoom' = inRoom
    BY DEF SendOk, SendFails, Typed, TypeOK, Aimed
  <1> DEFINE g == [send[m] EXCEPT !.ok = @ \cup {send[m].cur}]
             h == [send[m] EXCEPT !.dead = @ \cup {send[m].cur}]
  <1>2. /\ g \in Frames /\ h \in Frames /\ g.to = send[m].to /\ h.to = send[m].to
        /\ g.next = send[m].next /\ h.next = send[m].next
    BY <1>1, TriedFrame
  <1>3. \/ NextSocket(m, g) \/ Return(m, g)
        \/ NextSocket(m, h) \/ Return(m, h)
    BY DEF SendOk, SendFails
  <1> HIDE DEF g, h
  <1>4. CASE NextSocket(m, g) \/ Return(m, g)
    BY <1>1, <1>2, <1>4, IterationMoves
  <1>5. CASE NextSocket(m, h) \/ Return(m, h)
    BY <1>1, <1>2, <1>5, IterationMoves
  <1> QED
    BY <1>1, <1>3, <1>4, <1>5

(* What a step of m's handler does to it, and that it does nothing to      *)
(* others.                                                                 *)
LEMMA HandlerMoves ==
  ASSUME Typed, Serving, NEW m \in Msgs, HandlerStep(m)
  PROVE  /\ Advances(m)
         /\ handler'[m] \in {"sending", "enqueue"} => send'[m].to \in todo'[m]
         /\ \A k \in Msgs \ {m} : UNCHANGED <<handler[k], inRoom[k], todo[k], send[k]>>
  <1>1. /\ send \in [Msgs -> Frames] /\ todo \in [Msgs -> SUBSET Agents]
        /\ inRoom \in [Msgs -> BOOLEAN]
        /\ handler \in [Msgs -> {"idle", "next", "sending", "enqueue", "done", "lost"}]
    BY DEF Typed, TypeOK
  <1>2. ASSUME NEW members \in SUBSET Agents, ReadMembers(m, members)
        PROVE  /\ handler[m] = "next" /\ handler' = handler /\ send' = send
               /\ inRoom[m] /\ ~ inRoom'[m]
               /\ \A k \in Msgs \ {m} : inRoom'[k] = inRoom[k] /\ todo'[k] = todo[k]
    BY <1>1, <1>2 DEF ReadMembers
  <1>3. ASSUME NEW a \in Agents, SendToAgent(m, a)
        PROVE  /\ handler[m] = "next" /\ handler'[m] \in {"sending", "enqueue"}
               /\ inRoom' = inRoom /\ todo' = todo /\ send'[m].to \in todo[m]
               /\ \A k \in Msgs \ {m} : handler'[k] = handler[k] /\ send'[k] = send[k]
    <2>1. /\ a \in todo[m] /\ handler[m] = "next" /\ UNCHANGED <<todo, inRoom>>
          /\ \A k \in Msgs \ {m} : handler'[k] = handler[k] /\ send'[k] = send[k]
          /\ handler'[m] \in {"enqueue", "sending"}
      BY <1>1, <1>3 DEF SendToAgent
    <2>2. send'[m].to = a
      <3>1. CASE send' = [send EXCEPT ![m] = [NoFrame EXCEPT !.to = a]]
        BY <1>1, <3>1, NoFrameType
      <3>2. ASSUME NEW c \in connections[a],
                   send' = [send EXCEPT ![m] = [NoFrame EXCEPT !.to = a, !.cur = c, !.next = 1]]
            PROVE  send'[m].to = a
        BY <1>1, <3>2 DEF NoFrame
      <3> QED
        BY <1>3, <3>1, <3>2 DEF SendToAgent
    <2> QED
      BY <2>1, <2>2
  <1>4. CASE SendOk(m) \/ SendFails(m)
    <2>1. /\ handler[m] = "sending"
          /\ \A k \in Msgs \ {m} : handler'[k] = handler[k] /\ todo'[k] = todo[k] /\ send'[k] = send[k]
      BY <1>4, WriteFrame
    <2>2. send[m].to \in todo[m]
      BY <2>1 DEF Serving
    <2> QED
      BY <1>4, <2>1, <2>2, WriteMoves DEF Advances
  <1>5. CASE Enqueue(m)
    <2>1. /\ handler[m] = "enqueue" /\ handler'[m] = "next" /\ inRoom' = inRoom
          /\ todo'[m] = todo[m] \ {send[m].to}
          /\ \A k \in Msgs \ {m} : handler'[k] = handler[k] /\ todo'[k] = todo[k] /\ send'[k] = send[k]
      BY <1>1, <1>5 DEF Enqueue
    <2>2. send[m].to \in todo[m]
      BY <2>1 DEF Serving
    <2> QED
      BY <2>1, <2>2 DEF Advances
  <1>6. CASE Finish(m)
    BY <1>1, <1>6 DEF Finish, Advances
  <1>7. ASSUME NEW members \in SUBSET Agents, ReadMembers(m, members)
        PROVE  /\ Advances(m)
               /\ handler'[m] \in {"sending", "enqueue"} => send'[m].to \in todo'[m]
               /\ \A k \in Msgs \ {m} : UNCHANGED <<handler[k], inRoom[k], todo[k], send[k]>>
    BY <1>2, <1>7 DEF Advances
  <1>8. ASSUME NEW a \in Agents, SendToAgent(m, a)
        PROVE  /\ Advances(m)
               /\ handler'[m] \in {"sending", "enqueue"} => send'[m].to \in todo'[m]
               /\ \A k \in Msgs \ {m} : UNCHANGED <<handler[k], inRoom[k], todo[k], send[k]>>
    BY <1>3, <1>8 DEF Advances
  <1> QED
    BY <1>4, <1>5, <1>6, <1>7, <1>8 DEF HandlerStep

(* No other step sets a handler back.                                      *)
LEMMA HandlersStay ==
  ASSUME Typed, Serving, [Next]_vars
  PROVE  /\ Serving'
         /\ \A m \in Msgs : handler[m] \in Active =>
               \/ UNCHANGED <<handler[m], inRoom[m], todo[m], send[m]>>
               \/ handler'[m] = "lost" \/ Advances(m)
  <1>1. CASE UNCHANGED <<handler, inRoom, todo, send>>
    BY <1>1 DEF Serving
  <1>2. ASSUME NEW c \in Conns, SessionStep(c) PROVE UNCHANGED <<handler, inRoom, todo, send>>
    BY <1>2 DEF SessionStep, SetOnline, FlushSelect, FlushMark, FlushSend, FlushBreak, HandleAck,
       Disconnect, SetOffline, handlerVars
  <1>3. ASSUME NEW m \in Msgs, HandlerStep(m)
        PROVE  /\ Serving'
               /\ \A k \in Msgs : handler[k] \in Active =>
                     \/ UNCHANGED <<handler[k], inRoom[k], todo[k], send[k]>>
                     \/ handler'[k] = "lost" \/ Advances(k)
    BY <1>3, HandlerMoves DEF Serving
  <1>4. ASSUME NEW c \in Conns, NEW a \in Agents, Connect(c, a)
        PROVE  UNCHANGED <<handler, inRoom, todo, send>>
    BY <1>4 DEF Connect, handlerVars
  <1>5. ASSUME NEW m \in Msgs, NEW s \in Agents, NEW v \in Conns \cup {Http},
               NEW d \in Agents \cup {Nobody}, NEW r \in BOOLEAN, Accept(m, s, v, d, r)
        PROVE  /\ Serving'
               /\ \A k \in Msgs : handler[k] \in Active =>
                     UNCHANGED <<handler[k], inRoom[k], todo[k], send[k]>>
    <2>1. /\ handler[m] = "idle" /\ handler'[m] = "next" /\ send' = send
          /\ \A k \in Msgs \ {m} : handler'[k] = handler[k] /\ inRoom'[k] = inRoom[k] /\ todo'[k] = todo[k]
      BY <1>5 DEF Accept, Typed, TypeOK
    <2> QED
      BY <2>1 DEF Serving, Active
  <1>6. CASE Crash
    <2>1. \A k \in Msgs : /\ handler'[k] \notin {"sending", "enqueue"}
                          /\ handler[k] \in Active => handler'[k] = "lost"
      BY <1>6 DEF Crash, Active
    <2> QED
      BY <2>1 DEF Serving
  <1>7. ASSUME NEW m \in Msgs, HandlerFails(m)
        PROVE  /\ Serving'
               /\ handler'[m] = "lost"
               /\ \A k \in Msgs \ {m} : UNCHANGED <<handler[k], inRoom[k], todo[k], send[k]>>
    <2>1. /\ handler'[m] = "lost"
          /\ \A k \in Msgs \ {m} : UNCHANGED <<handler[k], inRoom[k], todo[k], send[k]>>
      BY <1>7 DEF HandlerFails, Typed, TypeOK
    <2> QED
      BY <2>1 DEF Serving
  <1>8. CASE Environment /\ ~ Crash /\ \A m \in Msgs : ~ HandlerFails(m)
    BY <1>1, <1>8 DEF Environment, ClientAck, LinkDown, Abort, Expire, Cleanup, handlerVars
  <1>9. CASE UNCHANGED vars
    BY <1>1, <1>9 DEF vars, handlerVars
  <1> QED
    BY <1>1, <1>2, <1>3, <1>4, <1>5, <1>6, <1>7, <1>8, <1>9 DEF Next, Request

(* send_to_agent (broker.py:45) iterates over a list that others append    *)
(* to, yet it never writes to more sockets than have registered.           *)
THEOREM FanOutBounded == Spec => []FanOutIsBounded
  <1>1. SendInv => FanOutIsBounded
    BY TriedCounted DEF FanOutIsBounded
  <1> QED
    BY <1>1, InitSendInv, NextSendInv, PTL DEF Spec

(* With FanOutBounded: whatever sessions do meanwhile, a handler takes     *)
(* finitely many steps for each agent it serves, and serves each once for  *)
(* a direct target and once as a member (routes_ws.py:189).                *)
THEOREM HandlersGoOn == Spec => HandlersAdvance
  <1>1. Init => Serving
    BY DEF Init, Serving
  <1>2. Typed /\ Serving /\ [Next]_vars =>
           [\A m \in Msgs :
              /\ HandlerStep(m) => Advances(m)
              /\ handler[m] \in Active =>
                    \/ UNCHANGED <<handler[m], inRoom[m], todo[m], send[m]>>
                    \/ handler'[m] = "lost" \/ Advances(m)]_vars
    BY HandlersStay, HandlerMoves
  <1>3. Typed /\ Serving /\ [Next]_vars => Serving'
    BY HandlersStay
  <1> QED
    BY <1>1, <1>2, <1>3, InitTyped, NextTyped, PTL DEF Spec, HandlersAdvance

=============================================================================
