---------------------------- MODULE ListenerProofs ----------------------------
(***************************************************************************)
(* The SDK's listener leaves nothing behind that stop() could not end, for *)
(* any number of Connection objects, sockets, tasks, calls and faults.     *)
(***************************************************************************)
EXTENDS Listener, TLAPS

(* Where a task holds a socket, or waits for one.                          *)
Holding == {"authing", "reading", "handling"}

MainPlaces == {"idle", "connecting", "authing", "closing", "joining"}

WorkerPlaces == {"idle", "closing", "dropping", "registering"}

ListenerType ==
    /\ TypeOK
    /\ app["main"].at \in MainPlaces /\ app["worker"].at \in WorkerPlaces

(* Whatever has begun to connect has a Connection, and a socket until the  *)
(* loop sleeps or ends.                                                    *)
Equipped ==
    /\ \A t \in Tasks :
          /\ loop[t].at \in {"connecting", "sleep"} \cup Holding => loop[t].on # 0
          /\ loop[t].at \in {"connecting"} \cup Holding => loop[t].sock # 0
    /\ \A w \in {"main", "worker"} :
          app[w].at \in {"connecting", "authing", "closing"} => app[w].on # 0 /\ app[w].sock # 0

(* At most one task lives, the one that _listen_task refers to, and none   *)
(* while the program connects.                                             *)
OneTask ==
    /\ \A t \in Tasks : Alive(t) => listenTask = t
    /\ app["main"].at \in {"connecting", "authing"} => \A t \in Tasks : ~ Alive(t)

(* What stop() awaits is the last task there was.                          *)
JoinInv ==
    joined # 0 => app["main"].at \in {"closing", "joining"} /\ listenTask \in {0, joined}

(* Only what exists is cancelled.                                          *)
CancelInv == \A t \in cancelled : loop[t].at # "none"

(* What holds a socket has it in its Connection, unless that was cleared.  *)
HoldInv ==
    /\ \A t \in Tasks : loop[t].at \in Holding => ws[loop[t].on] \in {0, loop[t].sock}
    /\ app["main"].at = "authing" => ws[app["main"].on] \in {0, app["main"].sock}

Open == {s \in Sockets : sock[s] = "open"}

(* A Connection whose loop is to go on is the agent's, and is not being    *)
(* closed.                                                                 *)
RunningInv == \A k \in Connections : running[k] => k = connection /\ ~ Closing

(* Whatever is to open a socket will find the agent's connection without   *)
(* one, and not being closed.                                              *)
ConnectingInv ==
    \A k \in Connections : Connecting(k, cancelled) => k = connection /\ ws[k] = 0 /\ ~ Closing

(* What is open is in the agent's connection; while that is being closed,  *)
(* or the loop is cancelled, nothing is.                                   *)
OpenInv ==
    /\ \A s \in Open : connection # 0 /\ ws[connection] = s
    /\ Closing \/ (\E t \in cancelled : Alive(t)) => Open = {}

CleanInv == ~ overlap => RunningInv /\ ConnectingInv /\ OpenInv

ListenerInv ==
    ListenerType /\ Equipped /\ OneTask /\ JoinInv /\ CancelInv /\ HoldInv /\ CleanInv

-----------------------------------------------------------------------------
LEMMA ZeroIsNone == 0 \notin Connections /\ 0 \notin Sockets /\ 0 \notin Tasks
  BY BoundsAreNat DEF Connections, Sockets, Tasks

LEMMA PlaceFields ==
  ASSUME NEW at, NEW k, NEW s
  PROVE  /\ Place(at, k, s).at = at /\ Place(at, k, s).on = k /\ Place(at, k, s).sock = s
  BY DEF Place

LEMMA PlaceType ==
  ASSUME NEW at \in {"none", "created", "connecting", "authing", "reading", "handling",
                     "sleep", "done", "idle", "closing", "joining", "dropping", "registering"},
         NEW k \in Connections \cup {0}, NEW s \in Sockets \cup {0}
  PROVE  Place(at, k, s) \in Places
  BY DEF Place, Places

(* What the types say of one task, of one call and of the fields.          *)
LEMMA Fields ==
  ASSUME ListenerInv
  PROVE  /\ connection \in Connections \cup {0} /\ made \in Connections \cup {0}
         /\ listenTask \in Tasks \cup {0} /\ joined \in Tasks \cup {0}
         /\ token \in BOOLEAN /\ accepted \in BOOLEAN /\ overlap \in BOOLEAN
         /\ \A t \in Tasks : /\ loop[t] \in Places
                             /\ loop[t].on \in Connections \cup {0}
                             /\ loop[t].sock \in Sockets \cup {0}
         /\ \A w \in {"main", "worker"} : /\ app[w] \in Places
                                          /\ app[w].on \in Connections \cup {0}
                                          /\ app[w].sock \in Sockets \cup {0}
         /\ \A k \in Connections : ws[k] \in Sockets \cup {0} /\ running[k] \in BOOLEAN
  BY DEF ListenerInv, ListenerType, TypeOK, Places

(* Besides a task that lives there is none, and the program does not       *)
(* connect.                                                                *)
LEMMA OnlyTask ==
  ASSUME ListenerInv, NEW t \in Tasks, Alive(t)
  PROVE  /\ listenTask = t
         /\ \A u \in Tasks \ {t} : ~ Alive(u)
         /\ app["main"].at \notin {"connecting", "authing"}
  BY DEF ListenerInv, OneTask

-----------------------------------------------------------------------------
(* A task moves to x                                                       *)

LEMMA TaskMoves ==
  ASSUME ListenerInv, NEW t \in Tasks, Alive(t),
         NEW x \in Places, loop' = [loop EXCEPT ![t] = x],
         x.at # "none",
         listenTask' = listenTask \/ (x.at = "done" /\ listenTask' = 0),
         UNCHANGED <<app, joined, cancelled>>,
         x.at \in {"connecting", "sleep"} \cup Holding => x.on # 0,
         x.at \in {"connecting"} \cup Holding => x.sock # 0,
         x.at \in Holding => ws'[x.on] \in {0, x.sock}
  PROVE  /\ loop' \in [Tasks -> Places] /\ loop'[t] = x
         /\ \A u \in Tasks \ {t} : loop'[u] = loop[u] /\ ~ Alive(u)
         /\ Equipped' /\ OneTask' /\ JoinInv' /\ CancelInv' /\ HoldInv'
  <1>1. /\ loop \in [Tasks -> Places] /\ cancelled \subseteq Tasks
        /\ Equipped /\ OneTask /\ JoinInv /\ CancelInv /\ HoldInv
    BY DEF ListenerInv, ListenerType, TypeOK
  <1>2. /\ listenTask = t
        /\ \A u \in Tasks \ {t} : ~ Alive(u)
        /\ app["main"].at \notin {"connecting", "authing"}
    BY OnlyTask
  <1>3. loop' \in [Tasks -> Places] /\ loop'[t] = x /\ \A u \in Tasks \ {t} : loop'[u] = loop[u]
    BY <1>1
  <1>4. Equipped'
    BY <1>1, <1>3 DEF Equipped
  <1>5. OneTask'
    BY <1>2, <1>3 DEF OneTask, Alive
  <1>6. JoinInv'
    BY <1>1, <1>2 DEF JoinInv
  <1>7. CancelInv'
    BY <1>1, <1>3 DEF CancelInv
  <1>8. HoldInv'
    <2>1. ASSUME NEW u \in Tasks, loop'[u].at \in Holding
          PROVE  ws'[loop'[u].on] \in {0, loop'[u].sock}
      BY <1>2, <1>3, <2>1 DEF Alive, Holding
    <2> QED
      BY <1>2, <2>1 DEF HoldInv
  <1> QED
    BY <1>2, <1>3, <1>4, <1>5, <1>6, <1>7, <1>8

LEMMA TaskClean ==
  ASSUME ListenerInv, NEW t \in Tasks, Alive(t),
         NEW x, loop'[t] = x, \A u \in Tasks \ {t} : loop'[u] = loop[u],
         UNCHANGED <<app, cancelled, connection>>,
         ~ overlap' =>
            /\ \A k \in Connections : running'[k] => k = connection /\ ~ Closing
            /\ x.at = "connecting" /\ t \notin cancelled =>
                  x.on = connection /\ ws'[x.on] = 0 /\ ~ Closing
            /\ \A s \in Sockets : sock'[s] = "open" =>
                  connection # 0 /\ ws'[connection] = s /\ ~ Closing /\ t \notin cancelled
  PROVE  CleanInv'
  <1> SUFFICES ASSUME ~ overlap' PROVE RunningInv' /\ ConnectingInv' /\ OpenInv'
    BY DEF CleanInv
  <1>1. /\ \A u \in Tasks \ {t} : ~ Alive(u) /\ loop'[u].at \in {"none", "done"}
        /\ app["main"].at \notin {"connecting", "authing"}
        /\ cancelled \subseteq Tasks
    BY OnlyTask DEF Alive, ListenerInv, ListenerType, TypeOK
  <1>2. Closing' <=> Closing
    BY DEF Closing
  <1>3. RunningInv'
    BY <1>2 DEF RunningInv
  <1>4. ConnectingInv'
    <2> SUFFICES ASSUME NEW k \in Connections, Connecting(k, cancelled)'
                 PROVE  k = connection /\ ws'[k] = 0 /\ ~ Closing
      BY <1>2 DEF ConnectingInv
    <2>1. loop'[t].at = "connecting" /\ loop'[t].on = k /\ t \notin cancelled
      BY <1>1 DEF Connecting
    <2> QED
      BY <2>1
  <1>5. OpenInv'
    <2>1. \A s \in Open' : s \in Sockets /\ sock'[s] = "open"
      BY DEF Open
    <2>2. (\E u \in cancelled : Alive(u)') => t \in cancelled
      BY <1>1 DEF Alive
    <2> QED
      BY <1>2, <2>1, <2>2 DEF OpenInv
  <1> QED
    BY <1>3, <1>4, <1>5

(* As long as no call came at a bad moment, an open socket is that of a    *)
(* connection nobody closes, and no task that lives is cancelled.          *)
LEMMA OpenIs ==
  ASSUME ListenerInv, ~ overlap, NEW s \in Sockets, sock[s] = "open"
  PROVE  /\ connection # 0 /\ ws[connection] = s /\ ~ Closing
         /\ \A t \in cancelled : ~ Alive(t)
  BY DEF ListenerInv, CleanInv, OpenInv, Open

LEMMA RunningIs ==
  ASSUME ListenerInv, ~ overlap, NEW k \in Connections, running[k]
  PROVE  k = connection /\ ~ Closing
  BY DEF ListenerInv, CleanInv, RunningInv

LEMMA ConnectingIs ==
  ASSUME ListenerInv, ~ overlap, NEW k \in Connections, Connecting(k, cancelled)
  PROVE  k = connection /\ ws[k] = 0 /\ ~ Closing
  BY DEF ListenerInv, CleanInv, ConnectingInv
-----------------------------------------------------------------------------
(* The steps of a task                                                     *)

LEMMA ReturnIs ==
  ASSUME ListenerInv, NEW t \in Tasks, Return(t)
  PROVE  \E x \in Places : /\ loop' = [loop EXCEPT ![t] = x] /\ listenTask' = 0
                           /\ x.at = "done"
  <1> DEFINE x == Place("done", loop[t].on, 0)
  <1>1. x \in Places /\ x.at = "done"
    BY Fields, PlaceType, PlaceFields
  <1>2. loop' = [loop EXCEPT ![t] = x] /\ listenTask' = 0
    BY DEF Return, Now
  <1> QED
    BY <1>1, <1>2

LEMMA LapseIs ==
  ASSUME ListenerInv, NEW t \in Tasks, Lapse(t)
  PROVE  \E x \in Places :
            /\ loop' = [loop EXCEPT ![t] = x]
            /\ ws' = [ws EXCEPT ![loop[t].on] = 0]
            /\ \/ x.at = "sleep" /\ x.on = loop[t].on /\ listenTask' = listenTask
               \/ x.at = "done" /\ listenTask' = 0
  <1>1. ws' = [ws EXCEPT ![loop[t].on] = 0]
    BY DEF Lapse
  <1>2. CASE Now(t, "sleep", 0) /\ UNCHANGED listenTask
    <2> DEFINE x == Place("sleep", loop[t].on, 0)
    <2>1. x \in Places /\ x.at = "sleep" /\ x.on = loop[t].on
      BY Fields, PlaceType, PlaceFields
    <2>2. loop' = [loop EXCEPT ![t] = x]
      BY <1>2 DEF Now
    <2> QED
      BY <1>1, <1>2, <2>1, <2>2
  <1>3. CASE Return(t)
    BY <1>1, <1>3, ReturnIs
  <1> QED
    BY <1>2, <1>3 DEF Lapse

LEMMA BodyIs ==
  ASSUME ListenerInv, NEW t \in Tasks, NEW k \in Connections, Body(t, k)
  PROVE  /\ \E x \in Places :
              /\ loop' = [loop EXCEPT ![t] = x] /\ x.on = k /\ x.sock # 0
              /\ \/ x.at = "connecting" /\ ws[k] = 0
                 \/ x.at = "reading" /\ ws[k] = x.sock
         /\ sock' \in [Sockets -> {"closed", "opening", "open", "dropped", "closing"}]
         /\ \A s \in Sockets : sock'[s] = "open" => sock[s] = "open"
  <1>1. sock \in [Sockets -> {"closed", "opening", "open", "dropped", "closing"}]
    BY DEF ListenerInv, ListenerType, TypeOK
  <1>2. CASE ws[k] = 0
    <2>1. PICK s \in Sockets : /\ sock' = [sock EXCEPT ![s] = "opening"]
                               /\ loop' = [loop EXCEPT ![t] = Place("connecting", k, s)]
      BY <1>2 DEF Body
    <2> DEFINE x == Place("connecting", k, s)
    <2>2. x \in Places /\ x.at = "connecting" /\ x.on = k /\ x.sock # 0
      BY PlaceType, PlaceFields, ZeroIsNone
    <2> HIDE DEF x
    <2>3. loop' = [loop EXCEPT ![t] = x]
      BY <2>1 DEF x
    <2>4. /\ sock' \in [Sockets -> {"closed", "opening", "open", "dropped", "closing"}]
          /\ \A r \in Sockets : sock'[r] = "open" => sock[r] = "open"
      BY <1>1, <2>1
    <2> QED
      BY <1>2, <2>2, <2>3, <2>4
  <1>3. CASE ws[k] # 0
    <2> DEFINE x == Place("reading", k, ws[k])
    <2>1. loop' = [loop EXCEPT ![t] = x] /\ sock' = sock
      BY <1>3 DEF Body
    <2>2. x \in Places /\ x.at = "reading" /\ x.on = k /\ x.sock = ws[k]
      BY Fields, PlaceType, PlaceFields
    <2> HIDE DEF x
    <2> QED
      BY <1>1, <1>3, <2>1, <2>2
  <1> QED
    BY <1>2, <1>3

LEMMA StartKeeps ==
  ASSUME ListenerInv, NEW t \in Tasks, Start(t)
  PROVE  ListenerInv'
  <1>1. /\ loop[t].at = "created" /\ t \notin cancelled /\ Alive(t)
        /\ UNCHANGED <<connection, token, ws, made, cancelled, app, joined, accepted, good,
                       calls, faults>>
        /\ ListenerType
    BY DEF Start, Alive, brokerVars, ListenerInv
  <1>2. CASE connection = 0 /\ Return(t) /\ UNCHANGED <<running, sock, overlap>>
    <2>1. PICK x \in Places : /\ loop' = [loop EXCEPT ![t] = x] /\ listenTask' = 0
                              /\ x.at = "done"
      BY <1>2, ReturnIs
    <2>2. /\ loop' \in [Tasks -> Places] /\ loop'[t] = x
          /\ \A u \in Tasks \ {t} : loop'[u] = loop[u]
          /\ Equipped' /\ OneTask' /\ JoinInv' /\ CancelInv' /\ HoldInv'
      BY <1>1, <2>1, TaskMoves DEF Holding
    <2>3. ListenerType'
      BY <1>1, <1>2, <2>1, <2>2 DEF ListenerType, TypeOK
    <2>4. CleanInv'
      BY <1>1, <1>2, <2>1, <2>2, TaskClean, OpenIs, RunningIs
    <2> QED
      BY <2>2, <2>3, <2>4 DEF ListenerInv
  <1>3. CASE /\ connection # 0
             /\ running' = [running EXCEPT ![connection] = TRUE]
             /\ overlap' = (overlap \/ \E w \in {"main", "worker"} : app[w].at = "closing")
             /\ Body(t, connection)
             /\ UNCHANGED listenTask
    <2>1. connection \in Connections
      BY <1>3, Fields
    <2>2. /\ \E x \in Places :
               /\ loop' = [loop EXCEPT ![t] = x] /\ x.on = connection /\ x.sock # 0
               /\ \/ x.at = "connecting" /\ ws[connection] = 0
                  \/ x.at = "reading" /\ ws[connection] = x.sock
          /\ sock' \in [Sockets -> {"closed", "opening", "open", "dropped", "closing"}]
          /\ \A s \in Sockets : sock'[s] = "open" => sock[s] = "open"
      BY <1>3, <2>1, BodyIs
    <2>3. PICK x \in Places :
               /\ loop' = [loop EXCEPT ![t] = x] /\ x.on = connection /\ x.sock # 0
               /\ \/ x.at = "connecting" /\ ws[connection] = 0
                  \/ x.at = "reading" /\ ws[connection] = x.sock
      BY <2>2
    <2>4. /\ loop' \in [Tasks -> Places] /\ loop'[t] = x
          /\ \A u \in Tasks \ {t} : loop'[u] = loop[u]
          /\ Equipped' /\ OneTask' /\ JoinInv' /\ CancelInv' /\ HoldInv'
      BY <1>1, <1>3, <2>3, TaskMoves
    <2>5. ListenerType'
      <3>1. overlap' \in BOOLEAN
        BY <1>3
      <3> QED
        BY <1>1, <1>3, <2>1, <2>2, <2>4, <3>1 DEF ListenerType, TypeOK
    <2>6. CleanInv'
      <3>1. ~ overlap' => ~ overlap /\ ~ Closing
        BY <1>3 DEF Closing
      <3>2. ASSUME ~ overlap', NEW k \in Connections, running'[k] PROVE k = connection
        <4>1. running \in [Connections -> BOOLEAN]
          BY <1>1 DEF ListenerType, TypeOK
        <4>2. CASE k # connection
          BY <1>3, <3>1, <3>2, <4>1, <4>2, RunningIs
        <4> QED
          BY <4>2
      <3>3. ASSUME ~ overlap', NEW s \in Sockets, sock'[s] = "open"
            PROVE  connection # 0 /\ ws'[connection] = s
        BY <1>1, <2>2, <3>1, <3>3, OpenIs
      <3> QED
        BY <1>1, <2>3, <2>4, <3>1, <3>2, <3>3, TaskClean
    <2> QED
      BY <2>4, <2>5, <2>6 DEF ListenerInv
  <1> QED
    BY <1>2, <1>3 DEF Start

LEMMA WakeKeeps ==
  ASSUME ListenerInv, NEW t \in Tasks, Wake(t)
  PROVE  ListenerInv'
  <1>1. /\ loop[t].at = "sleep" /\ t \notin cancelled /\ Alive(t)
        /\ UNCHANGED <<connection, token, ws, running, made, cancelled, app, joined, accepted,
                       good, overlap, calls, faults>>
        /\ ListenerType
    BY DEF Wake, Alive, brokerVars, objectVars, ListenerInv
  <1>2. CASE Return(t) /\ UNCHANGED sock
    <2>1. PICK x \in Places : /\ loop' = [loop EXCEPT ![t] = x] /\ listenTask' = 0
                              /\ x.at = "done"
      BY <1>2, ReturnIs
    <2>2. /\ loop' \in [Tasks -> Places] /\ loop'[t] = x
          /\ \A u \in Tasks \ {t} : loop'[u] = loop[u]
          /\ Equipped' /\ OneTask' /\ JoinInv' /\ CancelInv' /\ HoldInv'
      BY <1>1, <2>1, TaskMoves DEF Holding
    <2>3. ListenerType'
      BY <1>1, <1>2, <2>1, <2>2 DEF ListenerType, TypeOK
    <2>4. CleanInv'
      BY <1>1, <1>2, <2>1, <2>2, TaskClean, OpenIs, RunningIs
    <2> QED
      BY <2>2, <2>3, <2>4 DEF ListenerInv
  <1>3. CASE running[loop[t].on] /\ Body(t, loop[t].on) /\ UNCHANGED listenTask
    <2> DEFINE k == loop[t].on
    <2>1. k \in Connections
      BY <1>1, Fields DEF ListenerInv, Equipped
    <2> HIDE DEF k
    <2>2. /\ \E x \in Places :
               /\ loop' = [loop EXCEPT ![t] = x] /\ x.on = k /\ x.sock # 0
               /\ \/ x.at = "connecting" /\ ws[k] = 0
                  \/ x.at = "reading" /\ ws[k] = x.sock
          /\ sock' \in [Sockets -> {"closed", "opening", "open", "dropped", "closing"}]
          /\ \A s \in Sockets : sock'[s] = "open" => sock[s] = "open"
      BY <1>3, <2>1, BodyIs DEF k
    <2>3. PICK x \in Places :
               /\ loop' = [loop EXCEPT ![t] = x] /\ x.on = k /\ x.sock # 0
               /\ \/ x.at = "connecting" /\ ws[k] = 0
                  \/ x.at = "reading" /\ ws[k] = x.sock
      BY <2>2
    <2>4. /\ loop' \in [Tasks -> Places] /\ loop'[t] = x
          /\ \A u \in Tasks \ {t} : loop'[u] = loop[u]
          /\ Equipped' /\ OneTask' /\ JoinInv' /\ CancelInv' /\ HoldInv'
      BY <1>1, <1>3, <2>1, <2>3, ZeroIsNone, TaskMoves
    <2>5. ListenerType'
      BY <1>1, <1>3, <2>2, <2>4 DEF ListenerType, TypeOK
    <2>6. ~ overlap => k = connection /\ ~ Closing
      BY <1>3, <2>1, RunningIs DEF k
    <2>7. CleanInv'
      BY <1>1, <2>2, <2>3, <2>4, <2>6, TaskClean, OpenIs, RunningIs
    <2> QED
      BY <2>4, <2>5, <2>7 DEF ListenerInv
  <1> QED
    BY <1>2, <1>3 DEF Wake

(* A task whose connection attempt is under way.                           *)
LEMMA ConnectingTask ==
  ASSUME ListenerInv, NEW t \in Tasks, loop[t].at = "connecting", t \notin cancelled
  PROVE  /\ loop[t].on \in Connections /\ loop[t].sock \in Sockets
         /\ ~ overlap => loop[t].on = connection /\ ws[connection] = 0 /\ ~ Closing
  <1>1. loop[t].on \in Connections /\ loop[t].sock \in Sockets
    BY Fields DEF ListenerInv, Equipped
  <1>2. Connecting(loop[t].on, cancelled)
    BY DEF Connecting
  <1> QED
    BY <1>1, <1>2, ConnectingIs

LEMMA OpenedKeeps ==
  ASSUME ListenerInv, NEW t \in Tasks, Opened(t)
  PROVE  ListenerInv'
  <1> DEFINE k == loop[t].on
             s == loop[t].sock
             x == Place("authing", k, s)
  <1>1. /\ loop[t].at = "connecting" /\ t \notin cancelled /\ Alive(t)
        /\ sock' = [sock EXCEPT ![s] = "open"]
        /\ ws' = [ws EXCEPT ![k] = s]
        /\ loop' = [loop EXCEPT ![t] = x]
        /\ UNCHANGED <<connection, listenTask, token, running, made, cancelled, app, joined,
                       accepted, good, overlap, calls, faults>>
        /\ ListenerType
    BY DEF Opened, Now, Alive, agentVars, brokerVars, ListenerInv
  <1>2. /\ k \in Connections /\ s \in Sockets
        /\ ~ overlap => k = connection /\ ws[connection] = 0 /\ ~ Closing
    BY <1>1, ConnectingTask
  <1>3. x \in Places /\ x.at = "authing" /\ x.on = k /\ x.sock = s
    BY <1>2, PlaceType, PlaceFields
  <1> HIDE DEF k, s, x
  <1>4. /\ ws \in [Connections -> Sockets \cup {0}] /\ s # 0 /\ k # 0
        /\ sock \in [Sockets -> {"closed", "opening", "open", "dropped", "closing"}]
    BY <1>1, <1>2, ZeroIsNone DEF ListenerType, TypeOK
  <1>5. /\ loop' \in [Tasks -> Places] /\ loop'[t] = x
        /\ \A u \in Tasks \ {t} : loop'[u] = loop[u]
        /\ Equipped' /\ OneTask' /\ JoinInv' /\ CancelInv' /\ HoldInv'
    BY <1>1, <1>2, <1>3, <1>4, TaskMoves
  <1>6. ListenerType'
    BY <1>1, <1>2, <1>4, <1>5 DEF ListenerType, TypeOK
  <1>7. CleanInv'
    <2>1. ASSUME ~ overlap, NEW r \in Sockets, sock'[r] = "open"
          PROVE  connection # 0 /\ ws'[connection] = r
      <3>1. CASE r = s
        BY <1>1, <1>2, <1>4, <2>1, <3>1
      <3>2. CASE r # s
        <4>1. sock[r] = "open"
          BY <1>1, <1>4, <2>1, <3>2
        <4>2. ws[connection] = r
          BY <2>1, <4>1, OpenIs
        <4> QED
          BY <1>2, <2>1, <4>2, ZeroIsNone
      <3> QED
        BY <3>1, <3>2
    <2> QED
      BY <1>1, <1>2, <1>3, <1>5, <2>1, TaskClean, RunningIs
  <1> QED
    BY <1>5, <1>6, <1>7 DEF ListenerInv

(* The finally clause of the loop does not let go of a socket that is      *)
(* open.                                                                   *)
LEMMA LapseKeeps ==
  ASSUME ListenerInv, NEW t \in Tasks, Alive(t), loop[t].on \in Connections, Lapse(t),
         UNCHANGED <<connection, token, running, made, cancelled, app, joined, accepted, good,
                     overlap, calls>>,
         faults' \in 0..MaxFaults,
         sock' \in [Sockets -> {"closed", "opening", "open", "dropped", "closing"}],
         ~ overlap => \A s \in Sockets :
                         sock'[s] = "open" => sock[s] = "open" /\ ws[loop[t].on] # s
  PROVE  ListenerInv'
  <1> DEFINE k == loop[t].on
  <1>1. PICK x \in Places :
            /\ loop' = [loop EXCEPT ![t] = x]
            /\ ws' = [ws EXCEPT ![k] = 0]
            /\ \/ x.at = "sleep" /\ x.on = k /\ listenTask' = listenTask
               \/ x.at = "done" /\ listenTask' = 0
    BY LapseIs
  <1>2. k \in Connections /\ k # 0 /\ ws \in [Connections -> Sockets \cup {0}] /\ ListenerType
    BY ZeroIsNone DEF ListenerInv, ListenerType, TypeOK
  <1>3. ~ overlap => \A s \in Sockets : sock'[s] = "open" => sock[s] = "open" /\ ws[k] # s
    OBVIOUS
  <1> HIDE DEF k
  <1>4. /\ loop' \in [Tasks -> Places] /\ loop'[t] = x
        /\ \A u \in Tasks \ {t} : loop'[u] = loop[u]
        /\ Equipped' /\ OneTask' /\ JoinInv' /\ CancelInv' /\ HoldInv'
    BY <1>1, <1>2, TaskMoves DEF Holding
  <1>5. ListenerType'
    <2>1. ws' \in [Connections -> Sockets \cup {0}]
      BY <1>1, <1>2
    <2>2. listenTask' \in Tasks \cup {0}
      BY <1>1, Fields
    <2> QED
      BY <1>2, <1>4, <2>1, <2>2 DEF ListenerType, TypeOK
  <1>6. CleanInv'
    <2>1. ASSUME ~ overlap, NEW s \in Sockets, sock'[s] = "open"
          PROVE  /\ connection # 0 /\ ws'[connection] = s /\ ~ Closing
                 /\ t \notin cancelled
      <3>1. connection # 0 /\ ws[connection] = s /\ ~ Closing /\ t \notin cancelled
        BY <1>3, <2>1, OpenIs
      <3>2. connection \in Connections /\ connection # k
        BY <1>3, <2>1, <3>1, Fields
      <3> QED
        BY <1>1, <1>2, <3>1, <3>2
    <2> QED
      BY <1>1, <1>4, <2>1, TaskClean, RunningIs
  <1> QED
    BY <1>4, <1>5, <1>6 DEF ListenerInv

LEMMA OpenFailsKeeps ==
  ASSUME ListenerInv, NEW t \in Tasks, OpenFails(t)
  PROVE  ListenerInv'
  <1>1. /\ loop[t].at = "connecting" /\ t \notin cancelled /\ Alive(t) /\ Lapse(t)
        /\ sock' = [sock EXCEPT ![loop[t].sock] = "closed"]
        /\ faults < MaxFaults /\ faults' = faults + 1
        /\ UNCHANGED <<connection, token, running, made, cancelled, app, joined, accepted, good,
                       overlap, calls>>
    BY DEF OpenFails, Alive, brokerVars
  <1>2. /\ sock \in [Sockets -> {"closed", "opening", "open", "dropped", "closing"}]
        /\ faults \in 0..MaxFaults
    BY DEF ListenerInv, ListenerType, TypeOK
  <1>3. /\ loop[t].on \in Connections /\ loop[t].sock \in Sockets
        /\ ~ overlap => loop[t].on = connection /\ ws[connection] = 0
    BY <1>1, ConnectingTask
  <1>4. sock' \in [Sockets -> {"closed", "opening", "open", "dropped", "closing"}]
    BY <1>1, <1>2
  <1>5. faults' \in 0..MaxFaults
    BY <1>1, <1>2, BoundsAreNat
  <1>6. ASSUME ~ overlap, NEW s \in Sockets, sock'[s] = "open"
        PROVE  sock[s] = "open" /\ ws[loop[t].on] # s
    <2>1. sock[s] = "open"
      BY <1>1, <1>2, <1>3, <1>6
    <2> QED
      BY <1>3, <1>6, <2>1, ZeroIsNone
  <1> QED
    BY <1>1, <1>3, <1>4, <1>5, <1>6, LapseKeeps

(* A task that holds a socket.                                             *)
LEMMA HoldingTask ==
  ASSUME ListenerInv, NEW t \in Tasks, loop[t].at \in Holding
  PROVE  /\ Alive(t)
         /\ loop[t].on \in Connections /\ loop[t].sock \in Sockets
         /\ ws[loop[t].on] \in {0, loop[t].sock}
  <1>1. loop[t].on \in Connections /\ loop[t].sock \in Sockets
    BY Fields DEF ListenerInv, Equipped
  <1> QED
    BY <1>1 DEF ListenerInv, HoldInv, Alive, Holding

LEMMA AnsweredKeeps ==
  ASSUME ListenerInv, NEW t \in Tasks, Answered(t)
  PROVE  ListenerInv'
  <1> DEFINE k == loop[t].on
             s == loop[t].sock
  <1>1. /\ loop[t].at = "authing" /\ t \notin cancelled
        /\ UNCHANGED <<connection, token, running, made, cancelled, app, joined, accepted, good,
                       overlap, calls, faults>>
    BY DEF Answered, brokerVars
  <1>2. Alive(t) /\ k \in Connections /\ s \in Sockets /\ ws[k] \in {0, s}
    BY <1>1, HoldingTask DEF Holding
  <1>3. /\ sock \in [Sockets -> {"closed", "opening", "open", "dropped", "closing"}]
        /\ faults \in 0..MaxFaults /\ ListenerType
    BY DEF ListenerInv, ListenerType, TypeOK
  <1>4. CASE /\ ws[k] # 0
             /\ Now(t, "reading", ws[k])
             /\ UNCHANGED <<sock, ws, listenTask>>
    <2> DEFINE x == Place("reading", k, ws[k])
    <2>1. loop' = [loop EXCEPT ![t] = x]
      BY <1>4 DEF Now
    <2>2. x \in Places /\ x.at = "reading" /\ x.on = k /\ x.sock = ws[k]
      BY <1>2, <1>3, PlaceType, PlaceFields DEF ListenerType, TypeOK
    <2> HIDE DEF x, k, s
    <2>3. /\ loop' \in [Tasks -> Places] /\ loop'[t] = x
          /\ \A u \in Tasks \ {t} : loop'[u] = loop[u]
          /\ Equipped' /\ OneTask' /\ JoinInv' /\ CancelInv' /\ HoldInv'
      BY <1>1, <1>2, <1>4, <2>1, <2>2, ZeroIsNone, TaskMoves
    <2>4. ListenerType'
      BY <1>1, <1>3, <1>4, <2>3 DEF ListenerType, TypeOK
    <2>5. CleanInv'
      BY <1>1, <1>2, <1>4, <2>2, <2>3, TaskClean, OpenIs, RunningIs
    <2> QED
      BY <2>3, <2>4, <2>5 DEF ListenerInv
  <1>5. CASE ws[k] = 0 /\ Lapse(t) /\ UNCHANGED sock
    BY <1>1, <1>2, <1>3, <1>5, ZeroIsNone, LapseKeeps
  <1>6. CASE sock' = [sock EXCEPT ![s] = "closed"] /\ Lapse(t)
    <2>1. \A r \in Sockets : sock'[r] = "open" => sock[r] = "open" /\ ws[k] # r
      BY <1>2, <1>3, <1>6, ZeroIsNone
    <2>2. sock' \in [Sockets -> {"closed", "opening", "open", "dropped", "closing"}]
      BY <1>3, <1>6
    <2> QED
      BY <1>1, <1>2, <1>3, <1>6, <2>1, <2>2, LapseKeeps
  <1> QED
    BY <1>4, <1>5, <1>6 DEF Answered

(* The handler begins and ends: the task keeps its socket.                 *)
LEMMA SocketKept ==
  ASSUME ListenerInv, NEW t \in Tasks, loop[t].at \in Holding, NEW at \in Holding,
         Now(t, at, loop[t].sock),
         UNCHANGED <<agentVars, objectVars, cancelled, app, joined, sock, brokerVars, overlap,
                     calls, faults>>
  PROVE  ListenerInv'
  <1> DEFINE x == Place(at, loop[t].on, loop[t].sock)
  <1>1. /\ Alive(t) /\ loop[t].on # 0 /\ loop[t].sock # 0
        /\ ws[loop[t].on] \in {0, loop[t].sock}
    BY HoldingTask, ZeroIsNone
  <1>2. loop' = [loop EXCEPT ![t] = x]
    BY DEF Now
  <1>3. x \in Places /\ x.at = at /\ x.on = loop[t].on /\ x.sock = loop[t].sock
    <2>1. at \in {"none", "created", "connecting", "authing", "reading", "handling", "sleep",
                 "done", "idle", "closing", "joining", "dropping", "registering"}
      BY DEF Holding
    <2>2. loop[t].on \in Connections \cup {0} /\ loop[t].sock \in Sockets \cup {0}
      BY Fields
    <2> QED
      BY <2>1, <2>2, PlaceType, PlaceFields
  <1> HIDE DEF x
  <1>4. UNCHANGED <<connection, listenTask, token, ws, running, made, cancelled, app, joined, sock,
                    accepted, good, overlap, calls, faults>>
    BY DEF agentVars, objectVars, brokerVars
  <1>5. /\ loop' \in [Tasks -> Places] /\ loop'[t] = x
        /\ \A u \in Tasks \ {t} : loop'[u] = loop[u]
        /\ Equipped' /\ OneTask' /\ JoinInv' /\ CancelInv' /\ HoldInv'
    BY <1>1, <1>2, <1>3, <1>4, TaskMoves DEF Holding
  <1>6. ListenerType'
    BY <1>4, <1>5 DEF ListenerInv, ListenerType, TypeOK
  <1>7. CleanInv'
    <2>1. x.at # "connecting"
      BY <1>3 DEF Holding
    <2> QED
      BY <1>1, <1>4, <1>5, <2>1, TaskClean, OpenIs, RunningIs
  <1> QED
    BY <1>5, <1>6, <1>7 DEF ListenerInv

LEMMA ReceiveKeeps ==
  ASSUME ListenerInv, NEW t \in Tasks, Receive(t)
  PROVE  ListenerInv'
  BY SocketKept DEF Receive, Holding

LEMMA HandlerEndsKeeps ==
  ASSUME ListenerInv, NEW t \in Tasks, HandlerEnds(t)
  PROVE  ListenerInv'
  BY SocketKept DEF HandlerEnds, Holding

LEMMA LostKeeps ==
  ASSUME ListenerInv, NEW t \in Tasks, Lost(t)
  PROVE  ListenerInv'
  <1>1. /\ loop[t].at \in Holding /\ Lapse(t) /\ sock[loop[t].sock] # "open"
        /\ UNCHANGED <<connection, token, running, made, cancelled, app, joined, sock, accepted,
                       good, overlap, calls, faults>>
    BY DEF Lost, Holding, brokerVars
  <1>2. /\ Alive(t) /\ loop[t].on \in Connections
        /\ ws[loop[t].on] \in {0, loop[t].sock}
    BY <1>1, HoldingTask
  <1>3. /\ sock \in [Sockets -> {"closed", "opening", "open", "dropped", "closing"}]
        /\ faults \in 0..MaxFaults
    BY DEF ListenerInv, ListenerType, TypeOK
  <1> QED
    BY <1>1, <1>2, <1>3, ZeroIsNone, LapseKeeps

LEMMA CancelledKeeps ==
  ASSUME ListenerInv, NEW t \in Tasks, Cancelled(t)
  PROVE  ListenerInv'
  <1> DEFINE k == loop[t].on
             x == Place("done", k, 0)
  <1>1. /\ t \in cancelled /\ Alive(t)
        /\ loop' = [loop EXCEPT ![t] = x]
        /\ listenTask' = listenTask \/ listenTask' = 0
        /\ UNCHANGED <<connection, token, made, cancelled, app, joined, accepted, good, overlap,
                       calls, faults>>
        /\ ListenerType
    BY DEF Cancelled, Now, brokerVars, ListenerInv
  <1>2. x \in Places /\ x.at = "done"
    BY Fields, PlaceType, PlaceFields
  <1> HIDE DEF x
  <1>3. /\ ws \in [Connections -> Sockets \cup {0}] /\ running \in [Connections -> BOOLEAN]
        /\ sock \in [Sockets -> {"closed", "opening", "open", "dropped", "closing"}]
    BY <1>1 DEF ListenerType, TypeOK
  <1>4. /\ ws' \in [Connections -> Sockets \cup {0}] /\ running' \in [Connections -> BOOLEAN]
        /\ sock' \in [Sockets -> {"closed", "opening", "open", "dropped", "closing"}]
        /\ \A c \in Connections : running'[c] => running[c]
        /\ \A s \in Sockets : sock'[s] = "open" => sock[s] = "open"
    <2>1. CASE UNCHANGED <<running, ws, sock>>
      BY <1>3, <2>1
    <2>2. CASE loop[t].at \notin {"created", "sleep"}
      <3>1. /\ running' = [running EXCEPT ![k] = FALSE] /\ ws' = [ws EXCEPT ![k] = 0]
            /\ \/ sock' = [sock EXCEPT ![loop[t].sock] = "closed"]
               \/ sock' = sock
        BY <2>2 DEF Cancelled
      <3> QED
        BY <1>3, <3>1
    <2> QED
      BY <2>1, <2>2 DEF Cancelled
  <1>5. /\ loop' \in [Tasks -> Places] /\ loop'[t] = x
        /\ \A u \in Tasks \ {t} : loop'[u] = loop[u]
        /\ Equipped' /\ OneTask' /\ JoinInv' /\ CancelInv' /\ HoldInv'
    BY <1>1, <1>2, TaskMoves DEF Holding
  <1>6. ListenerType'
    <2>1. listenTask' \in Tasks \cup {0}
      BY <1>1, Fields
    <2> QED
      BY <1>1, <1>4, <1>5, <2>1 DEF ListenerType, TypeOK
  <1>7. CleanInv'
    <2>1. ~ overlap => \A s \in Sockets : sock'[s] # "open"
      BY <1>1, <1>4, OpenIs
    <2> QED
      BY <1>1, <1>2, <1>4, <1>5, <2>1, TaskClean, RunningIs
  <1> QED
    BY <1>5, <1>6, <1>7 DEF ListenerInv

LEMMA TaskStepKeeps ==
  ASSUME ListenerInv, NEW t \in Tasks, TaskStep(t)
  PROVE  ListenerInv'
  BY StartKeeps, WakeKeeps, OpenedKeeps, OpenFailsKeeps, AnsweredKeeps, ReceiveKeeps,
     HandlerEndsKeeps, LostKeeps, CancelledKeeps DEF TaskStep

-----------------------------------------------------------------------------
(* The calls: the tasks stay where they are                                *)

LEMMA CallCounts ==
  ASSUME ListenerInv, Call
  PROVE  calls' \in 0..MaxCalls
  BY BoundsAreNat DEF ListenerInv, ListenerType, TypeOK, Call

LEMMA FaultCounts ==
  ASSUME ListenerInv, faults < MaxFaults, faults' = faults + 1
  PROVE  faults' \in 0..MaxFaults
  BY BoundsAreNat DEF ListenerInv, ListenerType, TypeOK

(* A call w moves to y.                                                    *)
LEMMA AppMoves ==
  ASSUME ListenerInv, NEW w \in {"main", "worker"}, NEW y \in Places,
         app' = [app EXCEPT ![w] = y], loop' = loop,
         w = "main" => y.at \in MainPlaces,
         w = "worker" => y.at \in WorkerPlaces,
         y.at \in {"connecting", "authing", "closing"} => y.on # 0 /\ y.sock # 0
  PROVE  /\ app' \in [{"main", "worker"} -> Places]
         /\ app'[w] = y /\ \A v \in {"main", "worker"} \ {w} : app'[v] = app[v]
         /\ app'["main"].at \in MainPlaces /\ app'["worker"].at \in WorkerPlaces
         /\ Equipped'
  <1>1. /\ app \in [{"main", "worker"} -> Places]
        /\ app["main"].at \in MainPlaces /\ app["worker"].at \in WorkerPlaces
        /\ Equipped
    BY DEF ListenerInv, ListenerType, TypeOK
  <1>2. /\ app' \in [{"main", "worker"} -> Places]
        /\ app'[w] = y /\ \A v \in {"main", "worker"} \ {w} : app'[v] = app[v]
    BY <1>1
  <1>3. app'["main"].at \in MainPlaces /\ app'["worker"].at \in WorkerPlaces
    BY <1>1, <1>2
  <1>4. Equipped'
    BY <1>1, <1>2 DEF Equipped
  <1> QED
    BY <1>2, <1>3, <1>4

LEMMA HoldKept ==
  ASSUME ListenerInv, loop' = loop,
         \A k \in Connections : ws'[k] \in {0, ws[k]},
         app'["main"].at = "authing" => app'["main"] = app["main"]
  PROVE  HoldInv'
  <1>1. HoldInv /\ Equipped
    BY DEF ListenerInv
  <1>2. ASSUME NEW t \in Tasks, loop[t].at \in Holding
        PROVE  ws'[loop[t].on] \in {0, loop[t].sock}
    BY <1>2, HoldingTask
  <1>3. ASSUME app'["main"].at = "authing"
        PROVE  ws'[app["main"].on] \in {0, app["main"].sock}
    <2>1. app["main"].at = "authing" /\ app["main"].on \in Connections
      BY <1>1, <1>3, Fields DEF Equipped
    <2> QED
      BY <1>1, <2>1 DEF HoldInv
  <1> QED
    BY <1>2, <1>3 DEF HoldInv

(* What starts nothing, closes nothing and opens nothing.                  *)
LEMMA Quiet ==
  ASSUME ListenerInv, UNCHANGED <<connection, running, loop, cancelled, overlap>>,
         Closing' => Closing,
         \A k \in Connections : ws'[k] \in {0, ws[k]},
         app'["main"].at = "connecting" => app'["main"] = app["main"],
         ~ overlap => \A s \in Sockets :
                         sock'[s] = "open" => sock[s] = "open" /\ ws'[connection] = ws[connection]
  PROVE  CleanInv'
  <1> SUFFICES ASSUME ~ overlap PROVE RunningInv' /\ ConnectingInv' /\ OpenInv'
    BY DEF CleanInv
  <1>1. RunningInv /\ ConnectingInv /\ OpenInv
    BY DEF ListenerInv, CleanInv
  <1>2. RunningInv'
    BY <1>1 DEF RunningInv
  <1>3. ConnectingInv'
    <2>1. ASSUME NEW k \in Connections, Connecting(k, cancelled)' PROVE Connecting(k, cancelled)
      BY <2>1 DEF Connecting
    <2> QED
      BY <1>1, <2>1 DEF ConnectingInv
  <1>4. OpenInv'
    <2>1. \A s \in Open' : s \in Open /\ ws'[connection] = ws[connection]
      BY DEF Open
    <2>2. (\E t \in cancelled' : Alive(t)') => \E t \in cancelled : Alive(t)
      BY DEF Alive
    <2> QED
      BY <1>1, <2>1, <2>2 DEF OpenInv
  <1> QED
    BY <1>2, <1>3, <1>4

LEMMA EnsureIs ==
  ASSUME ListenerInv, EnsureConnection
  PROVE  /\ connection' \in Connections /\ made' \in Connections \cup {0}
         /\ good' \subseteq Connections
         /\ connection # 0 => connection' = connection
  <1>1. /\ connection \in Connections \cup {0} /\ made \in Connections \cup {0}
        /\ good \subseteq Connections
    BY DEF ListenerInv, ListenerType, TypeOK
  <1>2. CASE connection # 0 /\ UNCHANGED <<connection, made, good>>
    BY <1>1, <1>2
  <1>3. CASE /\ connection = 0 /\ made < MaxConnections
             /\ made' = made + 1
             /\ connection' = made'
             /\ good' = IF accepted THEN good \cup {made'} ELSE good
    <2>1. made' \in Connections
      BY <1>1, <1>3, BoundsAreNat DEF Connections
    <2> QED
      BY <1>1, <1>3, <2>1
  <1> QED
    BY <1>2, <1>3 DEF EnsureConnection

LEMMA ListenKeeps ==
  ASSUME ListenerInv, Listen
  PROVE  ListenerInv'
  <1>1. /\ app["main"].at = "idle" /\ calls' \in 0..MaxCalls /\ EnsureConnection
        /\ UNCHANGED <<token, ws, running, cancelled, app, joined, sock, accepted, overlap, faults>>
    BY CallCounts DEF Listen
  <1>2. /\ connection' \in Connections /\ made' \in Connections \cup {0}
        /\ good' \subseteq Connections
        /\ connection # 0 => connection' = connection
    BY <1>1, EnsureIs
  <1>3. /\ ListenerType /\ Equipped /\ OneTask /\ JoinInv /\ CancelInv
        /\ loop \in [Tasks -> Places] /\ cancelled \subseteq Tasks
    BY DEF ListenerInv, ListenerType, TypeOK
  <1>4. CASE UNCHANGED <<listenTask, loop>>
    <2>1. loop' \in [Tasks -> Places] /\ listenTask' \in Tasks \cup {0}
      BY <1>3, <1>4, Fields
    <2>2. ListenerType'
      BY <1>1, <1>2, <1>3, <2>1 DEF ListenerType, TypeOK
    <2>3. Equipped' /\ OneTask' /\ JoinInv' /\ CancelInv'
      BY <1>1, <1>3, <1>4 DEF Equipped, OneTask, JoinInv, CancelInv, Alive
    <2>4. HoldInv'
      BY <1>1, <1>4, HoldKept
    <2>5. CleanInv'
      <3> SUFFICES ASSUME ~ overlap PROVE RunningInv' /\ ConnectingInv' /\ OpenInv'
        BY <1>1 DEF CleanInv
      <3>1. Closing' = Closing /\ \A t \in Tasks : Alive(t)' = Alive(t)
        BY <1>1, <1>4 DEF Closing, Alive
      <3>2. \A k \in Connections : Connecting(k, cancelled)' = Connecting(k, cancelled)
        BY <1>1, <1>4 DEF Connecting
      <3>3. RunningInv'
        BY <1>1, <1>2, <3>1, RunningIs, ZeroIsNone DEF RunningInv
      <3>4. ConnectingInv'
        BY <1>1, <1>2, <3>1, <3>2, ConnectingIs, ZeroIsNone DEF ConnectingInv
      <3>5. OpenInv'
        BY <1>1, <1>2, <1>3, <3>1, OpenIs DEF OpenInv, Open
      <3> QED
        BY <3>3, <3>4, <3>5
    <2> QED
      BY <2>2, <2>3, <2>4, <2>5 DEF ListenerInv
  <1>5. ASSUME ~ (listenTask # 0 /\ Alive(listenTask)), NEW t \in Tasks, loop[t].at = "none",
               listenTask' = t, loop' = [loop EXCEPT ![t] = Place("created", 0, 0)]
        PROVE  ListenerInv'
    <2> DEFINE x == Place("created", 0, 0)
    <2>1. x \in Places /\ x.at = "created"
      BY PlaceType, PlaceFields
    <2>2. loop' = [loop EXCEPT ![t] = x]
      BY <1>5
    <2> HIDE DEF x
    <2>3. \A u \in Tasks : ~ Alive(u)
      BY <1>3, <1>5, ZeroIsNone DEF OneTask
    <2>4. /\ loop' \in [Tasks -> Places] /\ loop'[t] = x
          /\ \A u \in Tasks \ {t} : loop'[u] = loop[u]
      BY <1>3, <2>1, <2>2
    <2>5. ListenerType'
      <3>1. listenTask' \in Tasks \cup {0}
        BY <1>5
      <3> QED
        BY <1>1, <1>2, <1>3, <2>4, <3>1 DEF ListenerType, TypeOK
    <2>6. Equipped'
      BY <1>1, <1>3, <2>1, <2>4 DEF Equipped, Holding
    <2>7. OneTask'
      BY <1>1, <1>5, <2>3, <2>4 DEF OneTask, Alive
    <2>8. JoinInv' /\ CancelInv'
      BY <1>1, <1>3, <2>1, <2>4 DEF JoinInv, CancelInv
    <2>9. HoldInv'
      BY <1>1, <2>1, <2>3, <2>4 DEF HoldInv, Alive, Holding
    <2>10. CleanInv'
      <3> SUFFICES ASSUME ~ overlap PROVE RunningInv' /\ ConnectingInv' /\ OpenInv'
        BY <1>1 DEF CleanInv
      <3>1. Closing' = Closing /\ t \notin cancelled
        BY <1>1, <1>3, <1>5 DEF Closing, CancelInv
      <3>2. \A k \in Connections : ~ Connecting(k, cancelled)'
        BY <1>1, <2>1, <2>3, <2>4 DEF Connecting, Alive
      <3>3. RunningInv'
        BY <1>1, <1>2, <3>1, RunningIs, ZeroIsNone DEF RunningInv
      <3>4. ConnectingInv'
        BY <3>2 DEF ConnectingInv
      <3>5. \A u \in cancelled : ~ Alive(u)'
        BY <1>3, <2>3, <2>4, <3>1 DEF Alive
      <3>6. OpenInv'
        BY <1>1, <1>2, <3>1, <3>5, OpenIs DEF OpenInv, Open
      <3> QED
        BY <3>3, <3>4, <3>6
    <2> QED
      BY <2>5, <2>6, <2>7, <2>8, <2>9, <2>10 DEF ListenerInv
  <1> QED
    BY <1>4, <1>5 DEF Listen

LEMMA ConnectKeeps ==
  ASSUME ListenerInv, Connect
  PROVE  ListenerInv'
  <1>1. PICK s \in Sockets : /\ sock' = [sock EXCEPT ![s] = "opening"]
                             /\ At("main", "connecting", connection', s)
    BY DEF Connect
  <1>2. /\ app["main"].at = "idle" /\ calls' \in 0..MaxCalls /\ EnsureConnection
        /\ \A t \in Tasks : ~ Alive(t)
        /\ overlap' = (overlap \/ ws[connection'] # 0 \/ Closing)
        /\ UNCHANGED <<listenTask, token, ws, running, loop, cancelled, joined, accepted, faults>>
    BY CallCounts DEF Connect
  <1>3. /\ connection' \in Connections /\ made' \in Connections \cup {0}
        /\ good' \subseteq Connections
        /\ connection # 0 => connection' = connection
    BY <1>2, EnsureIs
  <1> DEFINE y == Place("connecting", connection', s)
  <1>4. y \in Places /\ y.at = "connecting" /\ y.on = connection' /\ y.sock = s
    BY <1>3, PlaceType, PlaceFields
  <1>5. app' = [app EXCEPT !["main"] = y]
    BY <1>1 DEF At
  <1> HIDE DEF y
  <1>6. /\ app' \in [{"main", "worker"} -> Places]
        /\ app'["main"] = y /\ app'["worker"] = app["worker"]
        /\ app'["main"].at \in MainPlaces /\ app'["worker"].at \in WorkerPlaces
        /\ Equipped'
    BY <1>2, <1>3, <1>4, <1>5, ZeroIsNone, AppMoves DEF MainPlaces
  <1>7. /\ ListenerType /\ OneTask /\ JoinInv /\ CancelInv
        /\ sock \in [Sockets -> {"closed", "opening", "open", "dropped", "closing"}]
    BY DEF ListenerInv, ListenerType, TypeOK
  <1>8. ListenerType'
    <2>1. sock' \in [Sockets -> {"closed", "opening", "open", "dropped", "closing"}]
      BY <1>1, <1>7
    <2>2. overlap' \in BOOLEAN
      BY <1>2
    <2> QED
      BY <1>2, <1>3, <1>6, <1>7, <2>1, <2>2 DEF ListenerType, TypeOK
  <1>9. OneTask' /\ JoinInv' /\ CancelInv'
    BY <1>2, <1>7 DEF OneTask, JoinInv, CancelInv, Alive
  <1>10. HoldInv'
    BY <1>2, <1>4, <1>6, HoldKept
  <1>11. CleanInv'
    <2> SUFFICES ASSUME ~ overlap' PROVE RunningInv' /\ ConnectingInv' /\ OpenInv'
      BY DEF CleanInv
    <2>1. ~ overlap /\ ws[connection'] = 0 /\ ~ Closing /\ ~ Closing'
      BY <1>2, <1>4, <1>6 DEF Closing
    <2>2. RunningInv'
      BY <1>2, <1>3, <2>1, RunningIs, ZeroIsNone DEF RunningInv
    <2>3. ConnectingInv'
      BY <1>2, <1>4, <1>6, <2>1 DEF ConnectingInv, Connecting, Alive
    <2>4. Open' = {}
      <3> SUFFICES ASSUME NEW r \in Sockets, sock'[r] = "open" PROVE FALSE
        BY DEF Open
      <3>1. sock[r] = "open"
        BY <1>1, <1>7
      <3>2. connection # 0 /\ ws[connection] = r
        BY <2>1, <3>1, OpenIs
      <3> QED
        BY <1>3, <2>1, <3>2, ZeroIsNone
    <2>5. OpenInv'
      BY <2>4 DEF OpenInv
    <2> QED
      BY <2>2, <2>3, <2>5
  <1> QED
    BY <1>6, <1>8, <1>9, <1>10, <1>11 DEF ListenerInv

(* connect() of the program, while the socket is being opened: there is no *)
(* task.                                                                   *)
LEMMA MainConnecting ==
  ASSUME ListenerInv, app["main"].at = "connecting"
  PROVE  /\ app["main"].on \in Connections /\ app["main"].sock \in Sockets
         /\ \A t \in Tasks : ~ Alive(t)
         /\ ~ overlap => /\ app["main"].on = connection
                         /\ ws[connection] = 0 /\ ~ Closing
  <1>1. app["main"].on \in Connections /\ app["main"].sock \in Sockets
    BY Fields DEF ListenerInv, Equipped
  <1>2. Connecting(app["main"].on, cancelled)
    BY DEF Connecting
  <1>3. \A t \in Tasks : ~ Alive(t)
    BY DEF ListenerInv, OneTask
  <1> QED
    BY <1>1, <1>2, <1>3, ConnectingIs

LEMMA ConnectOpenedKeeps ==
  ASSUME ListenerInv, ConnectOpened
  PROVE  ListenerInv'
  <1> DEFINE k == app["main"].on
             s == app["main"].sock
             y == Place("authing", k, s)
  <1>1. /\ app["main"].at = "connecting"
        /\ sock' = [sock EXCEPT ![s] = "open"]
        /\ ws' = [ws EXCEPT ![k] = s]
        /\ app' = [app EXCEPT !["main"] = y]
        /\ UNCHANGED <<connection, listenTask, token, running, made, loop, cancelled, joined,
                       accepted, good, overlap, calls, faults>>
        /\ ListenerType /\ OneTask /\ JoinInv /\ CancelInv
    BY DEF ConnectOpened, At, agentVars, brokerVars, ListenerInv
  <1>2. /\ k \in Connections /\ s \in Sockets
        /\ \A t \in Tasks : ~ Alive(t)
        /\ ~ overlap => k = connection /\ ws[connection] = 0 /\ ~ Closing
    BY <1>1, MainConnecting
  <1>3. y \in Places /\ y.at = "authing" /\ y.on = k /\ y.sock = s
    BY <1>2, PlaceType, PlaceFields
  <1> HIDE DEF k, s, y
  <1>4. /\ app' \in [{"main", "worker"} -> Places]
        /\ app'["main"] = y /\ app'["worker"] = app["worker"]
        /\ app'["main"].at \in MainPlaces /\ app'["worker"].at \in WorkerPlaces
        /\ Equipped'
    BY <1>1, <1>2, <1>3, ZeroIsNone, AppMoves DEF MainPlaces
  <1>5. /\ ws \in [Connections -> Sockets \cup {0}]
        /\ sock \in [Sockets -> {"closed", "opening", "open", "dropped", "closing"}]
    BY <1>1 DEF ListenerType, TypeOK
  <1>6. ListenerType'
    <2>1. /\ ws' \in [Connections -> Sockets \cup {0}]
          /\ sock' \in [Sockets -> {"closed", "opening", "open", "dropped", "closing"}]
      BY <1>1, <1>2, <1>5
    <2> QED
      BY <1>1, <1>4, <2>1 DEF ListenerType, TypeOK
  <1>7. OneTask' /\ CancelInv'
    BY <1>1, <1>2 DEF OneTask, CancelInv, Alive
  <1>8. JoinInv'
    BY <1>1 DEF JoinInv
  <1>9. HoldInv'
    BY <1>1, <1>2, <1>3, <1>4, <1>5 DEF HoldInv, Alive, Holding
  <1>10. CleanInv'
    <2> SUFFICES ASSUME ~ overlap PROVE RunningInv' /\ ConnectingInv' /\ OpenInv'
      BY <1>1 DEF CleanInv
    <2>1. k = connection /\ ws[connection] = 0 /\ ~ Closing'
      BY <1>2, <1>3, <1>4 DEF Closing
    <2>2. RunningInv'
      BY <1>1, <2>1, RunningIs DEF RunningInv
    <2>3. ConnectingInv'
      BY <1>1, <1>2, <1>3, <1>4 DEF ConnectingInv, Connecting, Alive
    <2>4. ASSUME NEW r \in Sockets, sock'[r] = "open"
          PROVE  connection # 0 /\ ws'[connection] = r
      <3>1. CASE r = s
        BY <1>1, <1>2, <1>5, <2>1, <3>1, ZeroIsNone
      <3>2. CASE r # s
        <4>1. sock[r] = "open"
          BY <1>1, <1>5, <2>4, <3>2
        <4> QED
          BY <2>1, <4>1, OpenIs, ZeroIsNone
      <3> QED
        BY <3>1, <3>2
    <2>5. \A t \in cancelled : ~ Alive(t)'
      BY <1>1, <1>2 DEF Alive, ListenerType, TypeOK
    <2>6. OpenInv'
      BY <1>1, <2>1, <2>4, <2>5 DEF OpenInv, Open
    <2> QED
      BY <2>2, <2>3, <2>6
  <1> QED
    BY <1>4, <1>6, <1>7, <1>8, <1>9, <1>10 DEF ListenerInv

LEMMA EmptyPlace ==
  ASSUME NEW at \in {"idle", "joining", "dropping", "registering"}
  PROVE  Place(at, 0, 0) \in Places /\ Place(at, 0, 0).at = at
  BY PlaceType, PlaceFields

(* connect() of the program fails or ends: it holds nothing any more.      *)
LEMMA MainIdles ==
  ASSUME ListenerInv, app["main"].at \in {"connecting", "authing"}, At("main", "idle", 0, 0),
         UNCHANGED <<connection, listenTask, token, running, made, loop, cancelled, joined,
                     accepted, good, overlap, calls>>,
         faults' \in 0..MaxFaults,
         \A k \in Connections : ws'[k] \in {0, ws[k]},
         ws' \in [Connections -> Sockets \cup {0}],
         sock' \in [Sockets -> {"closed", "opening", "open", "dropped", "closing"}],
         ~ overlap => \A s \in Sockets :
                         sock'[s] = "open" => sock[s] = "open" /\ ws'[connection] = ws[connection]
  PROVE  ListenerInv'
  <1> DEFINE y == Place("idle", 0, 0)
  <1>1. y \in Places /\ y.at = "idle"
    BY EmptyPlace
  <1>2. app' = [app EXCEPT !["main"] = y]
    BY DEF At
  <1> HIDE DEF y
  <1>3. /\ app' \in [{"main", "worker"} -> Places]
        /\ app'["main"] = y /\ app'["worker"] = app["worker"]
        /\ app'["main"].at \in MainPlaces /\ app'["worker"].at \in WorkerPlaces
        /\ Equipped'
    BY <1>1, <1>2, AppMoves DEF MainPlaces
  <1>4. ListenerType /\ OneTask /\ JoinInv /\ CancelInv
    BY DEF ListenerInv
  <1>5. ListenerType'
    BY <1>3, <1>4 DEF ListenerType, TypeOK
  <1>6. OneTask' /\ JoinInv' /\ CancelInv'
    BY <1>1, <1>3, <1>4 DEF OneTask, JoinInv, CancelInv, Alive
  <1>7. HoldInv'
    BY <1>1, <1>3, HoldKept
  <1>8. CleanInv'
    <2>1. Closing' => Closing
      BY <1>1, <1>3 DEF Closing
    <2> QED
      BY <1>1, <1>3, <2>1, Quiet
  <1> QED
    BY <1>3, <1>5, <1>6, <1>7, <1>8 DEF ListenerInv

LEMMA ConnectFailsKeeps ==
  ASSUME ListenerInv, ConnectFails
  PROVE  ListenerInv'
  <1>1. /\ app["main"].at = "connecting" /\ At("main", "idle", 0, 0)
        /\ faults' \in 0..MaxFaults
        /\ sock' = [sock EXCEPT ![app["main"].sock] = "closed"]
        /\ UNCHANGED <<connection, listenTask, token, running, made, loop, cancelled, joined,
                       accepted, good, overlap, calls, ws>>
    BY FaultCounts DEF ConnectFails, agentVars, objectVars, brokerVars
  <1>2. /\ ws \in [Connections -> Sockets \cup {0}]
        /\ sock \in [Sockets -> {"closed", "opening", "open", "dropped", "closing"}]
    BY DEF ListenerInv, ListenerType, TypeOK
  <1>3. /\ sock' \in [Sockets -> {"closed", "opening", "open", "dropped", "closing"}]
        /\ \A s \in Sockets : sock'[s] = "open" => sock[s] = "open"
    BY <1>1, <1>2
  <1> QED
    BY <1>1, <1>2, <1>3, MainIdles

LEMMA ConnectEndsKeeps ==
  ASSUME ListenerInv, ConnectEnds
  PROVE  ListenerInv'
  <1> DEFINE k == app["main"].on
             s == app["main"].sock
  <1>1. /\ app["main"].at = "authing" /\ At("main", "idle", 0, 0)
        /\ UNCHANGED <<connection, listenTask, token, running, made, loop, cancelled, joined,
                       accepted, good, overlap, calls, faults>>
    BY DEF ConnectEnds, agentVars, brokerVars
  <1>2. /\ ws \in [Connections -> Sockets \cup {0}] /\ faults \in 0..MaxFaults
        /\ sock \in [Sockets -> {"closed", "opening", "open", "dropped", "closing"}]
    BY DEF ListenerInv, ListenerType, TypeOK
  <1>3. CASE UNCHANGED <<sock, ws>>
    BY <1>1, <1>2, <1>3, MainIdles
  <1>4. CASE /\ sock' = [sock EXCEPT ![s] = "closed"]
             /\ ws' = [ws EXCEPT ![k] = 0]
    <2>1. k \in Connections /\ s \in Sockets /\ ws[k] \in {0, s}
      BY <1>1, Fields DEF ListenerInv, Equipped, HoldInv
    <2> HIDE DEF k, s
    <2>2. /\ ws' \in [Connections -> Sockets \cup {0}]
          /\ sock' \in [Sockets -> {"closed", "opening", "open", "dropped", "closing"}]
          /\ \A c \in Connections : ws'[c] \in {0, ws[c]}
      BY <1>2, <1>4
    <2>3. ASSUME ~ overlap, NEW r \in Sockets, sock'[r] = "open"
          PROVE  sock[r] = "open" /\ ws'[connection] = ws[connection]
      <3>1. sock[r] = "open" /\ r # s
        BY <1>2, <1>4, <2>1, <2>3
      <3>2. ws[connection] = r
        BY <2>3, <3>1, OpenIs
      <3>3. connection # k
        BY <2>1, <3>1, <3>2, ZeroIsNone
      <3> QED
        BY <1>2, <1>4, <3>1, <3>3
    <2> QED
      BY <1>1, <1>2, <2>2, <2>3, MainIdles
  <1> QED
    BY <1>3, <1>4 DEF ConnectEnds

-----------------------------------------------------------------------------
(* The calls that end the connection                                       *)

LEMMA ThenIs ==
  ASSUME NEW w \in {"main", "worker"}, Then(w), token \in BOOLEAN
  PROVE  \E y \in Places : /\ app' = [app EXCEPT ![w] = y]
                           /\ w = "main" => y.at = "joining"
                           /\ w = "worker" => y.at = "dropping"
                           /\ token' \in BOOLEAN
  BY EmptyPlace DEF Then, At

(* While the connection is being closed there is nothing to be left        *)
(* behind.                                                                 *)
LEMMA NoneLeft ==
  ASSUME ListenerInv, ~ overlap, connection = 0 \/ Closing
  PROVE  /\ \A k \in Connections : ~ running[k]
         /\ \A k \in Connections : ~ Connecting(k, cancelled)
         /\ \A s \in Sockets : sock[s] # "open"
  BY RunningIs, ConnectingIs, OpenIs, ZeroIsNone

(* Nothing runs, nothing connects and nothing is open.                     *)
LEMMA NothingIsClean ==
  ASSUME ~ overlap' => /\ \A k \in Connections : ~ running'[k]
                       /\ \A k \in Connections : ~ Connecting(k, cancelled)'
                       /\ \A s \in Sockets : sock'[s] # "open"
  PROVE  CleanInv'
  BY DEF CleanInv, RunningInv, ConnectingInv, OpenInv, Open

(* A call of w begins to close the connection: doomed are the tasks that   *)
(* are cancelled by then.                                                  *)
LEMMA BeginCloseIs ==
  ASSUME ListenerInv, NEW w \in {"main", "worker"}, NEW doomed, BeginClose(w, doomed),
         app[w].at = "idle", cancelled \subseteq doomed, cancelled' = doomed,
         loop' = loop
  PROVE  /\ \E y \in Places : /\ app' = [app EXCEPT ![w] = y]
                              /\ w = "main" => y.at \in {"closing", "joining"}
                              /\ w = "worker" => y.at \in {"closing", "dropping"}
                              /\ y.at = "closing" => y.on # 0 /\ y.sock # 0
         /\ connection' \in Connections \cup {0} /\ token' \in BOOLEAN /\ overlap' \in BOOLEAN
         /\ running' \in [Connections -> BOOLEAN]
         /\ sock' \in [Sockets -> {"closed", "opening", "open", "dropped", "closing"}]
         /\ ws' = ws
         /\ CleanInv'
  <1>1. /\ ws \in [Connections -> Sockets \cup {0}] /\ running \in [Connections -> BOOLEAN]
        /\ sock \in [Sockets -> {"closed", "opening", "open", "dropped", "closing"}]
        /\ connection \in Connections \cup {0} /\ token \in BOOLEAN /\ overlap \in BOOLEAN
    BY DEF ListenerInv, ListenerType, TypeOK
  <1>2. ASSUME app'["main"].at = "connecting" => app'["main"] = app["main"]
        PROVE  \A k \in Connections : Connecting(k, cancelled)' =>
                  Connecting(k, doomed) /\ Connecting(k, cancelled)
    BY <1>2 DEF Connecting
  <1>3. CASE connection = 0
    <2>1. Then(w) /\ UNCHANGED <<connection, running, ws, sock, overlap>>
      BY <1>3 DEF BeginClose
    <2>2. PICK y \in Places : /\ app' = [app EXCEPT ![w] = y]
                              /\ w = "main" => y.at = "joining"
                              /\ w = "worker" => y.at = "dropping"
                              /\ token' \in BOOLEAN
      BY <1>1, <2>1, ThenIs
    <2>3. app'["main"].at = "connecting" => app'["main"] = app["main"]
      BY <2>2 DEF ListenerInv, ListenerType, TypeOK
    <2>4. CleanInv'
      BY <1>2, <1>3, <2>1, <2>3, NoneLeft, NothingIsClean
    <2> QED
      BY <1>1, <2>1, <2>2, <2>4
  <1>4. CASE /\ connection # 0
             /\ running' = [running EXCEPT ![connection] = FALSE]
             /\ overlap' = (overlap \/ Connecting(connection, doomed))
             /\ ws[connection] = 0
             /\ connection' = 0
             /\ Then(w)
             /\ UNCHANGED <<sock, ws>>
    <2>1. PICK y \in Places : /\ app' = [app EXCEPT ![w] = y]
                              /\ w = "main" => y.at = "joining"
                              /\ w = "worker" => y.at = "dropping"
                              /\ token' \in BOOLEAN
      BY <1>1, <1>4, ThenIs
    <2>2. app'["main"].at = "connecting" => app'["main"] = app["main"]
      BY <2>1 DEF ListenerInv, ListenerType, TypeOK
    <2>3. CleanInv'
      <3> SUFFICES ASSUME ~ overlap'
                   PROVE  /\ \A k \in Connections : ~ running'[k]
                          /\ \A k \in Connections : ~ Connecting(k, cancelled)'
                          /\ \A s \in Sockets : sock'[s] # "open"
        BY NothingIsClean
      <3>1. ~ overlap /\ ~ Connecting(connection, doomed)
        BY <1>4
      <3>2. \A k \in Connections : ~ running'[k]
        BY <1>1, <1>4, <3>1, RunningIs
      <3>3. \A k \in Connections : ~ Connecting(k, cancelled)'
        BY <1>2, <2>2, <3>1, ConnectingIs
      <3>4. \A s \in Sockets : sock'[s] # "open"
        BY <1>4, <3>1, OpenIs, ZeroIsNone
      <3> QED
        BY <3>2, <3>3, <3>4
    <2>4. running' \in [Connections -> BOOLEAN]
      BY <1>1, <1>4
    <2>5. overlap' \in BOOLEAN
      BY <1>4
    <2> QED
      BY <1>1, <1>4, <2>1, <2>3, <2>4, <2>5
  <1>5. CASE /\ connection # 0
             /\ running' = [running EXCEPT ![connection] = FALSE]
             /\ overlap' = (overlap \/ Connecting(connection, doomed))
             /\ ws[connection] # 0
             /\ sock' = [sock EXCEPT ![ws[connection]] = IF @ = "open" THEN "closing" ELSE @]
             /\ At(w, "closing", connection, ws[connection])
             /\ UNCHANGED <<connection, token, ws>>
    <2> DEFINE y == Place("closing", connection, ws[connection])
    <2>1. connection \in Connections /\ ws[connection] \in Sockets
      BY <1>1, <1>5
    <2>2. y \in Places /\ y.at = "closing" /\ y.on # 0 /\ y.sock # 0
      BY <1>5, <2>1, PlaceType, PlaceFields
    <2>3. app' = [app EXCEPT ![w] = y]
      BY <1>5 DEF At
    <2> HIDE DEF y
    <2>4. app'["main"].at = "connecting" => app'["main"] = app["main"]
      BY <2>2, <2>3 DEF ListenerInv, ListenerType, TypeOK
    <2>5. /\ sock' \in [Sockets -> {"closed", "opening", "open", "dropped", "closing"}]
          /\ \A s \in Sockets : sock'[s] = "open" => sock[s] = "open" /\ s # ws[connection]
      BY <1>1, <1>5, <2>1
    <2>6. CleanInv'
      <3> SUFFICES ASSUME ~ overlap'
                   PROVE  /\ \A k \in Connections : ~ running'[k]
                          /\ \A k \in Connections : ~ Connecting(k, cancelled)'
                          /\ \A s \in Sockets : sock'[s] # "open"
        BY NothingIsClean
      <3>1. ~ overlap /\ ~ Connecting(connection, doomed)
        BY <1>5
      <3>2. \A k \in Connections : ~ running'[k]
        BY <1>1, <1>5, <3>1, RunningIs
      <3>3. \A k \in Connections : ~ Connecting(k, cancelled)'
        BY <1>2, <2>4, <3>1, ConnectingIs
      <3>4. \A s \in Sockets : sock'[s] # "open"
        BY <2>5, <3>1, OpenIs
      <3> QED
        BY <3>2, <3>3, <3>4
    <2>7. running' \in [Connections -> BOOLEAN]
      BY <1>1, <1>5
    <2>8. overlap' \in BOOLEAN
      BY <1>5
    <2> QED
      BY <1>1, <1>5, <2>2, <2>3, <2>5, <2>6, <2>7, <2>8
  <1> QED
    BY <1>3, <1>4, <1>5 DEF BeginClose

(* close() and stop().                                                     *)
LEMMA MainCloses ==
  ASSUME ListenerInv, app["main"].at = "idle", NEW doomed, BeginClose("main", doomed),
         cancelled \subseteq doomed, doomed \subseteq Tasks, cancelled' = doomed,
         \A t \in doomed : loop[t].at # "none",
         joined' \in {0, listenTask}, calls' \in 0..MaxCalls,
         UNCHANGED <<listenTask, made, loop, accepted, good, faults>>
  PROVE  ListenerInv'
  <1>1. /\ \E y \in Places : /\ app' = [app EXCEPT !["main"] = y]
                             /\ y.at \in {"closing", "joining"}
                             /\ y.at = "closing" => y.on # 0 /\ y.sock # 0
        /\ connection' \in Connections \cup {0} /\ token' \in BOOLEAN /\ overlap' \in BOOLEAN
        /\ running' \in [Connections -> BOOLEAN]
        /\ sock' \in [Sockets -> {"closed", "opening", "open", "dropped", "closing"}]
        /\ ws' = ws
        /\ CleanInv'
    BY BeginCloseIs
  <1>2. PICK y \in Places : /\ app' = [app EXCEPT !["main"] = y]
                            /\ y.at \in {"closing", "joining"}
                            /\ y.at = "closing" => y.on # 0 /\ y.sock # 0
    BY <1>1
  <1>3. /\ app' \in [{"main", "worker"} -> Places]
        /\ app'["main"] = y
        /\ app'["main"].at \in MainPlaces /\ app'["worker"].at \in WorkerPlaces
        /\ Equipped'
    BY <1>2, AppMoves DEF MainPlaces
  <1>4. ListenerType /\ OneTask
    BY DEF ListenerInv
  <1>5. ListenerType'
    <2>1. joined' \in Tasks \cup {0}
      BY Fields
    <2> QED
      BY <1>1, <1>3, <1>4, <2>1 DEF ListenerType, TypeOK
  <1>6. OneTask' /\ JoinInv' /\ CancelInv'
    BY <1>2, <1>3, <1>4 DEF OneTask, JoinInv, CancelInv, Alive
  <1>7. HoldInv'
    BY <1>1, <1>2, <1>3, HoldKept
  <1> QED
    BY <1>1, <1>3, <1>5, <1>6, <1>7 DEF ListenerInv

LEMMA CloseKeeps ==
  ASSUME ListenerInv, Close
  PROVE  ListenerInv'
  <1>1. /\ app["main"].at = "idle" /\ BeginClose("main", cancelled) /\ joined' = 0
        /\ UNCHANGED <<listenTask, made, loop, cancelled, accepted, good, faults>>
        /\ calls' \in 0..MaxCalls
    BY CallCounts DEF Close, brokerVars
  <1>2. cancelled \subseteq Tasks /\ \A t \in cancelled : loop[t].at # "none"
    BY DEF ListenerInv, ListenerType, TypeOK, CancelInv
  <1> QED
    BY <1>1, <1>2, MainCloses

LEMMA StopKeeps ==
  ASSUME ListenerInv, Stop
  PROVE  ListenerInv'
  <1> DEFINE doomed == IF listenTask # 0 /\ Alive(listenTask)
                       THEN cancelled \cup {listenTask} ELSE cancelled
  <1>1. /\ app["main"].at = "idle" /\ BeginClose("main", cancelled') /\ joined' = listenTask
        /\ cancelled' = doomed
        /\ UNCHANGED <<listenTask, made, loop, accepted, good, faults>>
        /\ calls' \in 0..MaxCalls
    BY CallCounts DEF Stop, brokerVars
  <1>2. BeginClose("main", doomed)
    BY <1>1
  <1>3. cancelled \subseteq Tasks /\ \A t \in cancelled : loop[t].at # "none"
    BY DEF ListenerInv, ListenerType, TypeOK, CancelInv
  <1>4. /\ cancelled \subseteq doomed /\ doomed \subseteq Tasks
        /\ \A t \in doomed : loop[t].at # "none"
    BY <1>3, Fields DEF Alive
  <1> HIDE DEF doomed
  <1> QED
    BY <1>1, <1>2, <1>4, MainCloses

LEMMA ReauthenticateKeeps ==
  ASSUME ListenerInv, Reauthenticate
  PROVE  ListenerInv'
  <1>1. /\ app["worker"].at = "idle" /\ BeginClose("worker", cancelled)
        /\ UNCHANGED <<listenTask, made, loop, cancelled, joined, accepted, good, faults>>
        /\ calls' \in 0..MaxCalls
    BY CallCounts DEF Reauthenticate, brokerVars
  <1>2. /\ \E y \in Places : /\ app' = [app EXCEPT !["worker"] = y]
                             /\ y.at \in {"closing", "dropping"}
                             /\ y.at = "closing" => y.on # 0 /\ y.sock # 0
        /\ connection' \in Connections \cup {0} /\ token' \in BOOLEAN /\ overlap' \in BOOLEAN
        /\ running' \in [Connections -> BOOLEAN]
        /\ sock' \in [Sockets -> {"closed", "opening", "open", "dropped", "closing"}]
        /\ ws' = ws
        /\ CleanInv'
    BY <1>1, BeginCloseIs
  <1>3. PICK y \in Places : /\ app' = [app EXCEPT !["worker"] = y]
                            /\ y.at \in {"closing", "dropping"}
                            /\ y.at = "closing" => y.on # 0 /\ y.sock # 0
    BY <1>2
  <1>4. /\ app' \in [{"main", "worker"} -> Places]
        /\ app'["main"] = app["main"]
        /\ app'["main"].at \in MainPlaces /\ app'["worker"].at \in WorkerPlaces
        /\ Equipped'
    BY <1>1, <1>3, AppMoves DEF WorkerPlaces
  <1>5. ListenerType /\ OneTask /\ JoinInv /\ CancelInv
    BY DEF ListenerInv
  <1>6. ListenerType'
    BY <1>1, <1>2, <1>4, <1>5 DEF ListenerType, TypeOK
  <1>7. OneTask' /\ JoinInv' /\ CancelInv'
    BY <1>1, <1>4, <1>5 DEF OneTask, JoinInv, CancelInv, Alive
  <1>8. HoldInv'
    BY <1>1, <1>2, <1>4, HoldKept
  <1> QED
    BY <1>2, <1>4, <1>6, <1>7, <1>8 DEF ListenerInv

LEMMA EndCloseKeeps ==
  ASSUME ListenerInv, NEW w \in {"main", "worker"}, EndClose(w)
  PROVE  ListenerInv'
  <1>1. /\ app[w].at = "closing" /\ Closing
        /\ sock' = [sock EXCEPT ![app[w].sock] = "closed"]
        /\ ws' = [ws EXCEPT ![app[w].on] = 0]
        /\ connection' = 0 /\ Then(w)
        /\ UNCHANGED <<listenTask, running, made, loop, cancelled, joined, accepted, good, overlap,
                       calls, faults>>
    BY DEF EndClose, brokerVars, Closing
  <1>2. /\ ws \in [Connections -> Sockets \cup {0}] /\ token \in BOOLEAN
        /\ sock \in [Sockets -> {"closed", "opening", "open", "dropped", "closing"}]
        /\ ListenerType /\ OneTask /\ JoinInv /\ CancelInv
    BY DEF ListenerInv, ListenerType, TypeOK
  <1>3. PICK y \in Places : /\ app' = [app EXCEPT ![w] = y]
                            /\ w = "main" => y.at = "joining"
                            /\ w = "worker" => y.at = "dropping"
                            /\ token' \in BOOLEAN
    BY <1>1, <1>2, ThenIs
  <1>4. /\ app' \in [{"main", "worker"} -> Places]
        /\ app'[w] = y /\ \A v \in {"main", "worker"} \ {w} : app'[v] = app[v]
        /\ app'["main"].at \in MainPlaces /\ app'["worker"].at \in WorkerPlaces
        /\ Equipped'
    BY <1>1, <1>3, AppMoves DEF MainPlaces, WorkerPlaces
  <1>5. app'["main"].at \in {"connecting", "authing"} => app'["main"] = app["main"]
    BY <1>3, <1>4
  <1>6. /\ ws' \in [Connections -> Sockets \cup {0}]
        /\ sock' \in [Sockets -> {"closed", "opening", "open", "dropped", "closing"}]
        /\ \A k \in Connections : ws'[k] \in {0, ws[k]}
        /\ \A s \in Sockets : sock'[s] = "open" => sock[s] = "open"
    BY <1>1, <1>2
  <1>7. ListenerType'
    BY <1>1, <1>2, <1>3, <1>4, <1>6 DEF ListenerType, TypeOK
  <1>8. OneTask' /\ CancelInv'
    BY <1>1, <1>2, <1>5 DEF OneTask, CancelInv, Alive
  <1>9. JoinInv'
    BY <1>1, <1>2, <1>3, <1>4 DEF JoinInv
  <1>10. HoldInv'
    BY <1>1, <1>5, <1>6, HoldKept
  <1>11. CleanInv'
    <2>1. \A k \in Connections : Connecting(k, cancelled)' => Connecting(k, cancelled)
      BY <1>1, <1>5 DEF Connecting
    <2> QED
      BY <1>1, <1>6, <2>1, NoneLeft, NothingIsClean
  <1> QED
    BY <1>4, <1>7, <1>8, <1>9, <1>10, <1>11 DEF ListenerInv

LEMMA JoinKeeps ==
  ASSUME ListenerInv, Join
  PROVE  ListenerInv'
  <1> DEFINE y == Place("idle", 0, 0)
  <1>1. /\ app["main"].at = "joining"
        /\ \/ joined = 0 /\ listenTask' = listenTask
           \/ joined # 0 /\ ~ Alive(joined) /\ listenTask' = 0
        /\ app' = [app EXCEPT !["main"] = y]
        /\ joined' = 0
        /\ UNCHANGED <<connection, token, ws, running, made, loop, cancelled, sock, accepted, good,
                       overlap, calls, faults>>
    BY DEF Join, At, objectVars, brokerVars
  <1>2. y \in Places /\ y.at = "idle"
    BY EmptyPlace
  <1> HIDE DEF y
  <1>3. /\ app' \in [{"main", "worker"} -> Places]
        /\ app'["main"] = y /\ app'["worker"] = app["worker"]
        /\ app'["main"].at \in MainPlaces /\ app'["worker"].at \in WorkerPlaces
        /\ Equipped'
    BY <1>1, <1>2, AppMoves DEF MainPlaces
  <1>4. ListenerType /\ OneTask /\ JoinInv /\ CancelInv
    BY DEF ListenerInv
  <1>5. ListenerType'
    <2>1. listenTask' \in Tasks \cup {0}
      BY <1>1, Fields
    <2> QED
      BY <1>1, <1>3, <1>4, <2>1 DEF ListenerType, TypeOK
  <1>6. OneTask'
    <2>1. ASSUME NEW t \in Tasks, Alive(t) PROVE listenTask' = t
      BY <1>1, <1>4, <2>1, ZeroIsNone DEF OneTask, JoinInv
    <2> QED
      BY <1>1, <1>2, <1>3, <2>1 DEF OneTask, Alive
  <1>7. JoinInv' /\ CancelInv'
    BY <1>1, <1>4 DEF JoinInv, CancelInv
  <1>8. HoldInv'
    BY <1>1, <1>2, <1>3, HoldKept
  <1>9. CleanInv'
    <2>1. Closing' => Closing
      BY <1>2, <1>3 DEF Closing
    <2> QED
      BY <1>1, <1>2, <1>3, <2>1, Quiet
  <1> QED
    BY <1>3, <1>5, <1>6, <1>7, <1>8, <1>9 DEF ListenerInv

(* Re-authentication goes on once the connection is closed.                *)
LEMMA RegisteredKeeps ==
  ASSUME ListenerInv, DropToken \/ Registered
  PROVE  ListenerInv'
  <1>1. PICK at \in {"registering", "idle"} : app' = [app EXCEPT !["worker"] = Place(at, 0, 0)]
    BY DEF DropToken, Registered, At
  <1> DEFINE y == Place(at, 0, 0)
  <1>2. /\ app["worker"].at \in {"dropping", "registering"}
        /\ token' \in BOOLEAN /\ accepted' \in BOOLEAN /\ faults' \in 0..MaxFaults
        /\ app' = [app EXCEPT !["worker"] = y]
        /\ UNCHANGED <<connection, listenTask, ws, running, made, loop, cancelled, joined, sock,
                       good, overlap, calls>>
    BY <1>1, Fields, FaultCounts DEF DropToken, Registered, objectVars, brokerVars,
       ListenerInv, ListenerType, TypeOK
  <1>3. y \in Places /\ y.at \in {"registering", "idle"}
    BY EmptyPlace
  <1> HIDE DEF y
  <1>4. /\ app' \in [{"main", "worker"} -> Places]
        /\ app'["worker"] = y /\ app'["main"] = app["main"]
        /\ app'["main"].at \in MainPlaces /\ app'["worker"].at \in WorkerPlaces
        /\ Equipped'
    BY <1>2, <1>3, AppMoves DEF WorkerPlaces
  <1>5. ListenerType /\ OneTask /\ JoinInv /\ CancelInv
    BY DEF ListenerInv
  <1>6. ListenerType'
    BY <1>2, <1>4, <1>5 DEF ListenerType, TypeOK
  <1>7. OneTask' /\ JoinInv' /\ CancelInv'
    BY <1>2, <1>3, <1>4, <1>5 DEF OneTask, JoinInv, CancelInv, Alive
  <1>8. HoldInv'
    BY <1>2, <1>3, <1>4, HoldKept
  <1>9. CleanInv'
    <2>1. Closing' => Closing
      BY <1>3, <1>4 DEF Closing
    <2> QED
      BY <1>2, <1>3, <1>4, <2>1, Quiet
  <1> QED
    BY <1>4, <1>6, <1>7, <1>8, <1>9 DEF ListenerInv

-----------------------------------------------------------------------------
(* The world                                                               *)

LEMMA DropKeeps ==
  ASSUME ListenerInv, NEW s \in Sockets, Drop(s)
  PROVE  ListenerInv'
  <1>1. /\ sock' = [sock EXCEPT ![s] = "dropped"] /\ faults' \in 0..MaxFaults
        /\ UNCHANGED <<connection, listenTask, token, ws, running, made, loop, cancelled, app,
                       joined, accepted, good, overlap, calls>>
    BY FaultCounts DEF Drop, agentVars, objectVars, brokerVars
  <1>2. /\ ListenerType /\ Equipped /\ OneTask /\ JoinInv /\ CancelInv
        /\ sock \in [Sockets -> {"closed", "opening", "open", "dropped", "closing"}]
    BY DEF ListenerInv, ListenerType, TypeOK
  <1>3. /\ sock' \in [Sockets -> {"closed", "opening", "open", "dropped", "closing"}]
        /\ \A r \in Sockets : sock'[r] = "open" => sock[r] = "open"
    BY <1>1, <1>2
  <1>4. ListenerType'
    BY <1>1, <1>2, <1>3 DEF ListenerType, TypeOK
  <1>5. Equipped' /\ OneTask' /\ JoinInv' /\ CancelInv'
    BY <1>1, <1>2 DEF Equipped, OneTask, JoinInv, CancelInv, Alive
  <1>6. HoldInv'
    BY <1>1, HoldKept
  <1>7. CleanInv'
    <2>1. Closing' => Closing
      BY <1>1 DEF Closing
    <2> QED
      BY <1>1, <1>3, <2>1, Quiet
  <1> QED
    BY <1>4, <1>5, <1>6, <1>7 DEF ListenerInv

LEMMA TokenLostKeeps ==
  ASSUME ListenerInv, TokenLost
  PROVE  ListenerInv'
  <1>1. /\ accepted' = FALSE /\ good' = {} /\ faults' \in 0..MaxFaults
        /\ UNCHANGED <<connection, listenTask, token, ws, running, made, loop, cancelled, app,
                       joined, sock, overlap, calls>>
    BY FaultCounts DEF TokenLost, agentVars, objectVars
  <1>2. ListenerType /\ Equipped /\ OneTask /\ JoinInv /\ CancelInv
    BY DEF ListenerInv
  <1>3. ListenerType'
    BY <1>1, <1>2 DEF ListenerType, TypeOK
  <1>4. Equipped' /\ OneTask' /\ JoinInv' /\ CancelInv'
    BY <1>1, <1>2 DEF Equipped, OneTask, JoinInv, CancelInv, Alive
  <1>5. HoldInv'
    BY <1>1, HoldKept
  <1>6. CleanInv'
    <2>1. Closing' => Closing
      BY <1>1 DEF Closing
    <2> QED
      BY <1>1, <2>1, Quiet
  <1> QED
    BY <1>3, <1>4, <1>5, <1>6 DEF ListenerInv

-----------------------------------------------------------------------------
LEMMA Initially ==
  ASSUME Init
  PROVE  ListenerInv
  <1>1. /\ Place("none", 0, 0) \in Places /\ Place("none", 0, 0).at = "none"
        /\ Place("idle", 0, 0) \in Places /\ Place("idle", 0, 0).at = "idle"
    BY PlaceType, PlaceFields
  <1>2. loop \in [Tasks -> Places] /\ \A t \in Tasks : loop[t].at = "none"
    BY <1>1 DEF Init
  <1>3. /\ app \in [{"main", "worker"} -> Places]
        /\ app["main"].at = "idle" /\ app["worker"].at = "idle"
    BY <1>1 DEF Init
  <1>4. /\ ws \in [Connections -> Sockets \cup {0}]
        /\ running \in [Connections -> BOOLEAN] /\ \A k \in Connections : ~ running[k]
    BY DEF Init
  <1>5. /\ sock \in [Sockets -> {"closed", "opening", "open", "dropped", "closing"}]
        /\ \A s \in Sockets : sock[s] # "open"
    BY DEF Init
  <1>6. calls \in 0..MaxCalls /\ faults \in 0..MaxFaults
    BY BoundsAreNat DEF Init
  <1>7. TypeOK
    BY <1>2, <1>3, <1>4, <1>5, <1>6 DEF Init, TypeOK
  <1>8. ListenerType
    BY <1>3, <1>7 DEF ListenerType, MainPlaces, WorkerPlaces
  <1>9. Equipped /\ OneTask /\ HoldInv
    BY <1>2, <1>3 DEF Equipped, OneTask, HoldInv, Alive, Holding
  <1>10. JoinInv /\ CancelInv
    BY DEF Init, JoinInv, CancelInv
  <1>11. RunningInv
    BY <1>4 DEF RunningInv
  <1>12. ConnectingInv
    BY <1>2, <1>3 DEF ConnectingInv, Connecting
  <1>13. OpenInv
    BY <1>5 DEF OpenInv, Open
  <1> QED
    BY <1>8, <1>9, <1>10, <1>11, <1>12, <1>13 DEF ListenerInv, CleanInv

LEMMA StutterKeeps ==
  ASSUME ListenerInv, UNCHANGED vars
  PROVE  ListenerInv'
  BY DEF vars, agentVars, objectVars, brokerVars, ListenerInv, ListenerType, TypeOK, Equipped,
         OneTask, JoinInv, CancelInv, HoldInv, CleanInv, RunningInv, ConnectingInv, OpenInv,
         Alive, Closing, Connecting, Open

LEMMA Inductive ==
  ASSUME ListenerInv, [Next]_vars
  PROVE  ListenerInv'
  <1>1. CASE \E t \in Tasks : TaskStep(t)
    BY <1>1, TaskStepKeeps
  <1>2. CASE CallStep
    BY <1>2, ConnectOpenedKeeps, ConnectFailsKeeps, ConnectEndsKeeps, EndCloseKeeps, JoinKeeps
       DEF CallStep
  <1>3. CASE WorkerStep
    BY <1>3, EndCloseKeeps, RegisteredKeeps DEF WorkerStep
  <1>4. CASE Calls
    BY <1>4, ListenKeeps, ConnectKeeps, CloseKeeps, StopKeeps, ReauthenticateKeeps DEF Calls
  <1>5. CASE World
    BY <1>5, DropKeeps, TokenLostKeeps DEF World
  <1>6. CASE UNCHANGED vars
    BY <1>6, StutterKeeps
  <1> QED
    BY <1>1, <1>2, <1>3, <1>4, <1>5, <1>6 DEF Next

(* At every await of client/agent.py and client/connection.py: at most one *)
(* task lives and _listen_task is it, a coroutine finds its socket in its  *)
(* Connection or the field cleared, and, without a call at a bad moment,   *)
(* only the agent's Connection runs, opens and holds a socket.             *)
THEOREM Invariant == Spec => []ListenerInv
  <1>1. Init => ListenerInv
    BY Initially
  <1>2. ListenerInv /\ [Next]_vars => ListenerInv'
    BY Inductive
  <1> QED
    BY <1>1, <1>2, PTL DEF Spec

(* Every variable keeps its type: the fields of the agent                  *)
(* (client/agent.py), those of its connections (client/connection.py) and  *)
(* the places of the coroutines that use them.                             *)
THEOREM TypeCorrect == Spec => []TypeOK
  <1>1. ListenerInv => TypeOK
    BY DEF ListenerInv, ListenerType
  <1> QED
    BY <1>1, Invariant, PTL

(* A loop that runs is the one that _listen_task refers to, so that stop() *)
(* ends it; and as long as no close() or re-authentication came while a    *)
(* socket was being opened, no connect() while one was held, and neither   *)
(* connect() nor the start of a listener during a close(), every socket    *)
(* that is open is the one the agent's connection would close.  For any    *)
(* number of connections, sockets, tasks and calls (client/agent.py:353,   *)
(* client/connection.py:140).                                              *)
THEOREM NothingIsLeftBehind == Spec => []NothingLeftBehind
  <1>1. ListenerInv => NothingLeftBehind
    BY DEF ListenerInv, OneTask, CleanInv, OpenInv, Open, NothingLeftBehind
  <1> QED
    BY <1>1, Invariant, PTL

-----------------------------------------------------------------------------
(* What stop() awaits                                                      *)

(* stop() awaits no task that it has not cancelled and that has not ended: *)
(* such a wait would end only with the task's loop, which goes on for as   *)
(* long as its Connection is to.                                           *)
StopAwaitsTheEnd ==
    app["main"].at = "joining" /\ joined # 0 => joined \in cancelled \/ ~ Alive(joined)

(* Stronger, since it holds from the moment of the cancellation: tasks     *)
(* that ended do not come back, and _listen_task is one that was created.  *)
EndInv ==
    /\ joined # 0 => joined \in cancelled \/ loop[joined].at = "done"
    /\ listenTask # 0 => loop[listenTask].at # "none"

(* Where a task goes it is not unmade.                                     *)
Goes(t) == \E x : loop' = [loop EXCEPT ![t] = x] /\ x.at # "none"

LEMMA NowGoes ==
  ASSUME NEW t \in Tasks, NEW at, NEW s, Now(t, at, s), at # "none"
  PROVE  Goes(t)
  <1> DEFINE x == Place(at, loop[t].on, s)
  <1>1. loop' = [loop EXCEPT ![t] = x]
    BY DEF Now
  <1>2. x.at # "none"
    BY PlaceFields
  <1> HIDE DEF x
  <1> QED
    BY <1>1, <1>2 DEF Goes

LEMMA BodyGoes ==
  ASSUME NEW t \in Tasks, NEW k, Body(t, k)
  PROVE  Goes(t)
  <1>1. PICK at, s : at # "none" /\ loop' = [loop EXCEPT ![t] = Place(at, k, s)]
    BY DEF Body
  <1> DEFINE x == Place(at, k, s)
  <1>2. loop' = [loop EXCEPT ![t] = x] /\ x.at # "none"
    BY <1>1, PlaceFields
  <1> HIDE DEF x
  <1> QED
    BY <1>2 DEF Goes

LEMMA LapseGoes ==
  ASSUME NEW t \in Tasks, Lapse(t)
  PROVE  Goes(t)
  <1>1. CASE Now(t, "sleep", 0)
    BY <1>1, NowGoes
  <1>2. CASE Now(t, "done", 0)
    BY <1>2, NowGoes
  <1> QED
    BY <1>1, <1>2 DEF Lapse, Return

(* A task that moves was alive.                                            *)
LEMMA TaskGoesOn ==
  ASSUME NEW t \in Tasks, TaskStep(t)
  PROVE  /\ Alive(t) /\ Goes(t)
         /\ listenTask' \in {0, listenTask}
         /\ UNCHANGED <<joined, cancelled>>
  <1>1. UNCHANGED <<joined, cancelled>>
    BY DEF TaskStep, Start, Wake, Opened, OpenFails, Answered, Receive, HandlerEnds, Lost, Cancelled
  <1>2. Alive(t)
    BY DEF TaskStep, Start, Wake, Opened, OpenFails, Answered, Receive, HandlerEnds, Lost, Cancelled,
       Alive
  <1>3. listenTask' \in {0, listenTask}
    BY DEF TaskStep, Start, Wake, Opened, OpenFails, Answered, Receive, HandlerEnds, Lost, Cancelled,
       Lapse, Return, agentVars
  <1>4. Goes(t)
    <2>1. CASE Start(t) \/ Wake(t)
      BY <2>1, NowGoes, BodyGoes DEF Start, Wake, Return
    <2>2. CASE Opened(t) \/ Receive(t) \/ HandlerEnds(t) \/ Cancelled(t)
      BY <2>2, NowGoes DEF Opened, Receive, HandlerEnds, Cancelled
    <2>3. CASE OpenFails(t) \/ Answered(t) \/ Lost(t)
      BY <2>3, NowGoes, LapseGoes DEF OpenFails, Answered, Lost
    <2> QED
      BY <2>1, <2>2, <2>3 DEF TaskStep
  <1> QED
    BY <1>1, <1>2, <1>3, <1>4

LEMMA EndKept ==
  ASSUME ListenerInv, EndInv, [Next]_vars
  PROVE  EndInv'
  <1>1. /\ loop \in [Tasks -> Places] /\ joined \in Tasks \cup {0}
        /\ listenTask \in Tasks \cup {0}
        /\ app["main"].at = "idle" => joined = 0
    BY DEF ListenerInv, ListenerType, TypeOK, JoinInv
  <1>2. ASSUME NEW t \in Tasks, TaskStep(t) PROVE EndInv'
    <2>1. PICK x : loop' = [loop EXCEPT ![t] = x] /\ x.at # "none"
      BY <1>2, TaskGoesOn DEF Goes
    <2>2. Alive(t) /\ listenTask' \in {0, listenTask} /\ UNCHANGED <<joined, cancelled>>
      BY <1>2, TaskGoesOn
    <2> QED
      BY <1>1, <2>1, <2>2 DEF EndInv, Alive
  <1>3. CASE Listen
    <2>1. UNCHANGED <<joined, cancelled>>
      BY <1>3 DEF Listen
    <2>2. CASE UNCHANGED <<listenTask, loop>>
      BY <2>1, <2>2 DEF EndInv
    <2>3. ASSUME NEW t \in Tasks, loop[t].at = "none", listenTask' = t,
                 loop' = [loop EXCEPT ![t] = Place("created", 0, 0)]
          PROVE  EndInv'
      BY <1>1, <2>1, <2>3, PlaceFields DEF EndInv
    <2> QED
      BY <1>3, <2>2, <2>3 DEF Listen
  <1>4. CASE Stop
    <2>1. /\ joined' = listenTask /\ UNCHANGED <<listenTask, loop>>
          /\ listenTask # 0 /\ Alive(listenTask) => listenTask \in cancelled'
      BY <1>4 DEF Stop
    <2> QED
      BY <2>1 DEF EndInv, Alive
  <1>5. CASE Join
    BY <1>5 DEF Join, EndInv
  <1>6. CASE UNCHANGED <<loop, cancelled, listenTask>> /\ joined' \in {0, joined}
    BY <1>6 DEF EndInv
  <1>7. CASE Connect \/ Close \/ Reauthenticate
    BY <1>6, <1>7 DEF Connect, Close, Reauthenticate
  <1>8. CASE ConnectOpened \/ ConnectFails \/ ConnectEnds \/ EndClose("main") \/ EndClose("worker")
             \/ DropToken \/ Registered
    BY <1>6, <1>8 DEF ConnectOpened, ConnectFails, ConnectEnds, EndClose, DropToken, Registered,
       agentVars
  <1>9. CASE World \/ UNCHANGED vars
    BY <1>6, <1>9 DEF World, Drop, TokenLost, vars, agentVars
  <1> QED
    BY <1>2, <1>3, <1>4, <1>5, <1>7, <1>8, <1>9 DEF Next, CallStep, WorkerStep, Calls

(* stop() returns once the event loop has delivered its cancellation       *)
(* (client/agent.py:362): whatever other calls ran before and meanwhile,   *)
(* the task that it awaits was cancelled or has ended.                     *)
THEOREM StopAwaits == Spec => []StopAwaitsTheEnd
  <1>1. Init => EndInv
    BY DEF Init, EndInv
  <1>2. ListenerInv /\ EndInv => StopAwaitsTheEnd
    BY DEF EndInv, StopAwaitsTheEnd, Alive
  <1> QED
    BY <1>1, <1>2, Initially, Inductive, EndKept, PTL DEF Spec

=============================================================================
