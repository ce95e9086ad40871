------------------------------ MODULE Listener ------------------------------
(***************************************************************************)
(* The listener of the SDK's Agent: the loop of Connection.listen, which   *)
(* connects again whenever its socket is gone (client/connection.py), and  *)
(* the calls that start and end it (client/agent.py): listen in the        *)
(* background, connect, close, stop, and the re-authentication that any    *)
(* other operation may run into.                                           *)
(*                                                                         *)
(* Everything runs in one event loop: the program that uses the agent      *)
(* ("main"), an operation of the agent that was refused ("worker"), and    *)
(* the tasks of the listener.  An action is what one of them does from one *)
(* await to the next.  Delays have no length here; 0 stands for None.      *)
(***************************************************************************)
EXTENDS Naturals

CONSTANTS MaxConnections,  \* Connection objects that may be made
          MaxSockets,      \* sockets that exist at a time
          MaxTasks,        \* tasks that may be created
          MaxCalls,        \* calls of listen, connect, close, stop, re-authentication
          MaxFaults        \* links that break, attempts that fail, tokens that are lost

ASSUME BoundsAreNat ==
    {MaxConnections, MaxSockets, MaxTasks, MaxCalls, MaxFaults} \subseteq Nat

Connections == 1..MaxConnections
Sockets == 1..MaxSockets
Tasks == 1..MaxTasks

VARIABLES
    connection,   \* Agent._connection
    listenTask,   \* Agent._listen_task
    token,        \* has the agent a token?
    ws, running,  \* Connection object -> _ws, _running
    made,         \* how many Connection objects there are
    loop,         \* task -> where it is, its Connection, its socket
    cancelled,    \* tasks that will be thrown a CancelledError
    app,          \* "main", "worker" -> the same
    joined,       \* the task that stop() awaits
    sock,         \* socket -> its state, as the client sees it
    accepted,     \* does the broker accept the agent's token?
    good,         \* Connection objects made with a token that it accepts
    overlap,      \* history: has a call come at a bad moment?
    calls, faults

agentVars == <<connection, listenTask, token>>
objectVars == <<ws, running, made>>
brokerVars == <<accepted, good>>
vars == <<agentVars, objectVars, loop, cancelled, app, joined, sock, brokerVars,
          overlap, calls, faults>>

-----------------------------------------------------------------------------
Place(at, k, s) == [at |-> at, on |-> k, sock |-> s]

Init ==
    /\ connection = 0 /\ listenTask = 0 /\ token = TRUE
    /\ ws = [k \in Connections |-> 0]
    /\ running = [k \in Connections |-> FALSE]
    /\ made = 0
    /\ loop = [t \in Tasks |-> Place("none", 0, 0)]
    /\ cancelled = {}
    /\ app = [w \in {"main", "worker"} |-> Place("idle", 0, 0)]
    /\ joined = 0
    /\ sock = [s \in Sockets |-> "closed"]
    /\ accepted = TRUE /\ good = {}
    /\ overlap = FALSE
    /\ calls = 0 /\ faults = 0

(* task.done() does not hold.                                              *)
Alive(t) == loop[t].at \notin {"none", "done"}

(* A place for a new socket: one whose socket is gone and forgotten.       *)
Free == {s \in Sockets :
            /\ sock[s] \in {"closed", "dropped"}
            /\ \A k \in Connections : ws[k] # s
            /\ \A t \in Tasks : Alive(t) => loop[t].sock # s
            /\ \A w \in {"main", "worker"} : app[w].sock # s}

NewSocket(s) == s \in Free /\ \A r \in Free : s <= r

-----------------------------------------------------------------------------
(* Connection.listen, in a task                                            *)

Now(t, at, s) == loop' = [loop EXCEPT ![t] = Place(at, loop[t].on, s)]

(* The body of the while loop begins: connect() if there is no socket.     *)
Body(t, k) ==
    \/ /\ ws[k] = 0
       /\ \E s \in Sockets :
            /\ NewSocket(s)
            /\ sock' = [sock EXCEPT ![s] = "opening"]
            /\ loop' = [loop EXCEPT ![t] = Place("connecting", k, s)]
    \/ /\ ws[k] # 0
       /\ loop' = [loop EXCEPT ![t] = Place("reading", k, ws[k])]
       /\ UNCHANGED sock

(* The loop is left, and with it _run_listen_loop.                         *)
Return(t) ==
    /\ Now(t, "done", 0)
    /\ listenTask' = 0

(* The finally clause of the body, then the sleep or the end of the loop.  *)
Lapse(t) ==
    /\ ws' = [ws EXCEPT ![loop[t].on] = 0]
    /\ \/ running[loop[t].on] /\ Now(t, "sleep", 0) /\ UNCHANGED listenTask
       \/ ~ running[loop[t].on] /\ Return(t)

(* The task starts: _run_listen_loop takes the connection of this moment,  *)
(* and fails if there is none.                                             *)
Start(t) ==
    /\ loop[t].at = "created" /\ t \notin cancelled
    /\ \/ /\ connection = 0
          /\ Return(t)
          /\ UNCHANGED <<running, sock, overlap>>
       \/ /\ connection # 0
          /\ running' = [running EXCEPT ![connection] = TRUE]
          /\ overlap' = (overlap \/ \E w \in {"main", "worker"} : app[w].at = "closing")
          /\ Body(t, connection)
          /\ UNCHANGED listenTask
    /\ UNCHANGED <<connection, token, ws, made, cancelled, app, joined, brokerVars, calls, faults>>

(* The sleep is over: while self._running.                                 *)
Wake(t) ==
    /\ loop[t].at = "sleep" /\ t \notin cancelled
    /\ \/ running[loop[t].on] /\ Body(t, loop[t].on) /\ UNCHANGED listenTask
       \/ ~ running[loop[t].on] /\ Return(t) /\ UNCHANGED sock
    /\ UNCHANGED <<connection, token, objectVars, cancelled, app, joined, brokerVars, overlap, calls, faults>>

(* websockets.connect returns; the token is sent, its answer awaited.      *)
Opened(t) ==
    /\ loop[t].at = "connecting" /\ t \notin cancelled
    /\ sock' = [sock EXCEPT ![loop[t].sock] = "open"]
    /\ ws' = [ws EXCEPT ![loop[t].on] = loop[t].sock]
    /\ Now(t, "authing", loop[t].sock)
    /\ UNCHANGED <<agentVars, running, made, cancelled, app, joined, brokerVars, overlap, calls, faults>>

(* websockets.connect raises.                                              *)
OpenFails(t) ==
    /\ loop[t].at = "connecting" /\ t \notin cancelled
    /\ faults < MaxFaults /\ faults' = faults + 1
    /\ sock' = [sock EXCEPT ![loop[t].sock] = "closed"]
    /\ Lapse(t)
    /\ UNCHANGED <<connection, token, running, made, cancelled, app, joined, brokerVars, overlap, calls>>

(* The answer is there: the loop reads from _ws as it is now, or the token *)
(* is refused; then the broker closes the socket and connect() does too.   *)
Answered(t) ==
    /\ loop[t].at = "authing" /\ t \notin cancelled
    /\ sock[loop[t].sock] \in {"open", "closing"}
    /\ \/ /\ loop[t].on \in good /\ ws[loop[t].on] # 0
          /\ Now(t, "reading", ws[loop[t].on])
          /\ UNCHANGED <<sock, ws, listenTask>>
       \/ /\ loop[t].on \in good /\ ws[loop[t].on] = 0
          /\ Lapse(t)
          /\ UNCHANGED sock
       \/ /\ loop[t].on \notin good
          /\ sock' = [sock EXCEPT ![loop[t].sock] = "closed"]
          /\ Lapse(t)
    /\ UNCHANGED <<connection, token, running, made, cancelled, app, joined, brokerVars, overlap, calls, faults>>

(* A message comes; it is acknowledged, and its handler called.            *)
Receive(t) ==
    /\ loop[t].at = "reading" /\ sock[loop[t].sock] = "open" /\ t \notin cancelled
    /\ Now(t, "handling", loop[t].sock)
    /\ UNCHANGED <<agentVars, objectVars, cancelled, app, joined, sock, brokerVars, overlap, calls, faults>>

(* A mutant of HandlerEnds: what the handler raises ends the loop.         *)
HandlerEndsLoop(t) ==
    /\ loop[t].at = "handling" /\ t \notin cancelled
    /\ \/ Now(t, "reading", loop[t].sock) /\ UNCHANGED <<listenTask, ws>>
       \/ Return(t) /\ ws' = [ws EXCEPT ![loop[t].on] = 0]
    /\ UNCHANGED <<connection, token, running, made, cancelled, app, joined, sock, brokerVars, overlap, calls, faults>>

(* The handler returns, or raises what the loop only logs.                 *)
HandlerEnds(t) ==
    /\ loop[t].at = "handling" /\ t \notin cancelled
    /\ Now(t, "reading", loop[t].sock)
    /\ UNCHANGED <<agentVars, objectVars, cancelled, app, joined, sock, brokerVars, overlap, calls, faults>>

(* The socket is gone: async for ends, or recv raises.                     *)
Lost(t) ==
    /\ loop[t].at \in {"authing", "reading"} /\ t \notin cancelled
    /\ sock[loop[t].sock] \in {"dropped", "closed"}
    /\ Lapse(t)
    /\ UNCHANGED <<connection, token, running, made, cancelled, app, joined, sock, brokerVars, overlap, calls, faults>>

(* A mutant of Cancelled: the loop takes the cancellation for an error.    *)
CancelledAsError(t) ==
    /\ t \in cancelled /\ Alive(t)
    /\ cancelled' = cancelled \ {t}
    /\ \/ loop[t].on = 0 /\ Now(t, "done", 0) /\ UNCHANGED <<running, ws>>
       \/ /\ loop[t].on # 0
          /\ Now(t, "sleep", 0)
          /\ running' = [running EXCEPT ![loop[t].on] = TRUE]
          /\ ws' = [ws EXCEPT ![loop[t].on] = 0]
    /\ UNCHANGED <<agentVars, made, app, joined, sock, brokerVars, overlap, calls, faults>>

(* CancelledError: a task that has not started never runs; an attempt to   *)
(* connect is given up by websockets, a socket is only let go of.          *)
Cancelled(t) ==
    /\ t \in cancelled /\ Alive(t)
    /\ Now(t, "done", 0)
    /\ listenTask' = IF loop[t].at = "created" THEN listenTask ELSE 0
    /\ IF loop[t].at \in {"created", "sleep"}
       THEN UNCHANGED <<running, ws, sock>>
       ELSE /\ running' = [running EXCEPT ![loop[t].on] = FALSE]
            /\ ws' = [ws EXCEPT ![loop[t].on] = 0]
            /\ sock' = IF loop[t].at = "connecting"
                       THEN [sock EXCEPT ![loop[t].sock] = "closed"] ELSE sock
    /\ UNCHANGED <<connection, token, made, cancelled, app, joined, brokerVars, overlap, calls, faults>>

TaskStep(t) ==
    \/ Start(t) \/ Wake(t) \/ Opened(t) \/ OpenFails(t) \/ Answered(t)
    \/ Receive(t) \/ HandlerEnds(t) \/ Lost(t) \/ Cancelled(t)

-----------------------------------------------------------------------------
(* The calls of Agent                                                      *)

Call == calls < MaxCalls /\ calls' = calls + 1

At(w, at, k, s) == app' = [app EXCEPT ![w] = Place(at, k, s)]

Closing == \E w \in {"main", "worker"} : app[w].at = "closing"

(* Somebody waits for websockets.connect to return a socket for k.         *)
Connecting(k, doomed) ==
    \/ \E t \in Tasks \ doomed : loop[t].at = "connecting" /\ loop[t].on = k
    \/ app["main"].at = "connecting" /\ app["main"].on = k

(* A mutant of EnsureConnection: a Connection is made in any case.         *)
MakeConnection ==
    /\ made' = made + 1
    /\ connection' = made'
    /\ good' = IF accepted THEN good \cup {made'} ELSE good

(* _ensure_connection                                                      *)
EnsureConnection ==
    \/ /\ connection # 0
       /\ UNCHANGED <<connection, made, good>>
    \/ /\ connection = 0 /\ made < MaxConnections
       /\ made' = made + 1
       /\ connection' = made'
       /\ good' = IF accepted THEN good \cup {made'} ELSE good

(* listen(background=True): a task is created unless there is a live one.  *)
Listen ==
    /\ app["main"].at = "idle" /\ token /\ Call
    /\ EnsureConnection
    /\ \/ /\ listenTask # 0 /\ Alive(listenTask)
          /\ UNCHANGED <<listenTask, loop>>
       \/ /\ ~ (listenTask # 0 /\ Alive(listenTask))
          /\ \E t \in Tasks :
               /\ loop[t].at = "none" /\ \A u \in 1..(t - 1) : loop[u].at # "none"
               /\ listenTask' = t
               /\ loop' = [loop EXCEPT ![t] = Place("created", 0, 0)]
    /\ UNCHANGED <<token, ws, running, cancelled, app, joined, sock, accepted, overlap, faults>>

(* connect(), as a program uses it that does not listen yet.               *)
Connect ==
    /\ app["main"].at = "idle" /\ token /\ Call
    /\ \A t \in Tasks : ~ Alive(t)
    /\ EnsureConnection
    /\ overlap' = (overlap \/ ws[connection'] # 0 \/ Closing)
    /\ \E s \in Sockets :
         /\ NewSocket(s)
         /\ sock' = [sock EXCEPT ![s] = "opening"]
         /\ At("main", "connecting", connection', s)
    /\ UNCHANGED <<listenTask, token, ws, running, loop, cancelled, joined, accepted, faults>>

ConnectOpened ==
    /\ app["main"].at = "connecting"
    /\ sock' = [sock EXCEPT ![app["main"].sock] = "open"]
    /\ ws' = [ws EXCEPT ![app["main"].on] = app["main"].sock]
    /\ At("main", "authing", app["main"].on, app["main"].sock)
    /\ UNCHANGED <<agentVars, running, made, loop, cancelled, joined, brokerVars, overlap, calls, faults>>

ConnectFails ==
    /\ app["main"].at = "connecting"
    /\ faults < MaxFaults /\ faults' = faults + 1
    /\ sock' = [sock EXCEPT ![app["main"].sock] = "closed"]
    /\ At("main", "idle", 0, 0)
    /\ UNCHANGED <<agentVars, objectVars, loop, cancelled, joined, brokerVars, overlap, calls>>

(* connect() returns or raises; a refused socket is closed and let go of,  *)
(* a lost one stays where it is.                                           *)
ConnectEnds ==
    /\ app["main"].at = "authing"
    /\ At("main", "idle", 0, 0)
    /\ \/ /\ sock[app["main"].sock] \in {"dropped", "closed"} \/ app["main"].on \in good
          /\ UNCHANGED <<sock, ws>>
       \/ /\ sock[app["main"].sock] \in {"open", "closing"} /\ app["main"].on \notin good
          /\ sock' = [sock EXCEPT ![app["main"].sock] = "closed"]
          /\ ws' = [ws EXCEPT ![app["main"].on] = 0]
    /\ UNCHANGED <<agentVars, running, made, loop, cancelled, joined, brokerVars, overlap, calls, faults>>

(* What follows once the connection is closed: close() and stop() await a  *)
(* task, or nothing; re-authentication awaits the end of the HTTP client,  *)
(* and still has the refused token meanwhile.                              *)
Then(w) ==
    /\ \/ w = "main" /\ At(w, "joining", 0, 0)
       \/ w = "worker" /\ At(w, "dropping", 0, 0)
    /\ UNCHANGED token

(* A mutant of BeginClose: the socket is only let go of.                   *)
BeginCloseLazily(w, doomed) ==
    /\ connection # 0
    /\ running' = [running EXCEPT ![connection] = FALSE]
    /\ ws' = [ws EXCEPT ![connection] = 0]
    /\ connection' = 0
    /\ Then(w)
    /\ UNCHANGED <<sock, overlap>>

(* Agent closes its connection, if it has one: Connection.close ends the   *)
(* loop, and awaits the end of the socket, if there is one.                *)
BeginClose(w, doomed) ==
    \/ /\ connection = 0
       /\ Then(w)
       /\ UNCHANGED <<connection, running, ws, sock, overlap>>
    \/ /\ connection # 0
       /\ running' = [running EXCEPT ![connection] = FALSE]
       /\ overlap' = (overlap \/ Connecting(connection, doomed))
       /\ \/ /\ ws[connection] = 0
             /\ connection' = 0
             /\ Then(w)
             /\ UNCHANGED sock
          \/ /\ ws[connection] # 0
             /\ sock' = [sock EXCEPT ![ws[connection]] = IF @ = "open" THEN "closing" ELSE @]
             /\ At(w, "closing", connection, ws[connection])
             /\ UNCHANGED <<connection, token>>
       /\ UNCHANGED ws

EndClose(w) ==
    /\ app[w].at = "closing"
    /\ sock' = [sock EXCEPT ![app[w].sock] = "closed"]
    /\ ws' = [ws EXCEPT ![app[w].on] = 0]
    /\ connection' = 0
    /\ Then(w)
    /\ UNCHANGED <<listenTask, running, made, loop, cancelled, joined, brokerVars, overlap, calls, faults>>

Close ==
    /\ app["main"].at = "idle" /\ Call
    /\ BeginClose("main", cancelled)
    /\ joined' = 0
    /\ UNCHANGED <<listenTask, made, loop, cancelled, brokerVars, faults>>

(* stop(): the task is cancelled first, and awaited last.                  *)
Stop ==
    /\ app["main"].at = "idle" /\ Call
    /\ joined' = listenTask
    /\ cancelled' = IF listenTask # 0 /\ Alive(listenTask) THEN cancelled \cup {listenTask} ELSE cancelled
    /\ BeginClose("main", cancelled')
    /\ UNCHANGED <<listenTask, made, loop, brokerVars, faults>>

Join ==
    /\ app["main"].at = "joining"
    /\ \/ joined = 0 /\ UNCHANGED listenTask
       \/ joined # 0 /\ ~ Alive(joined) /\ listenTask' = 0
    /\ At("main", "idle", 0, 0)
    /\ joined' = 0
    /\ UNCHANGED <<connection, token, objectVars, loop, cancelled, sock, brokerVars, overlap, calls, faults>>

(* An operation got error 401: _reauthenticate.                            *)
Reauthenticate ==
    /\ app["worker"].at = "idle" /\ token /\ ~ accepted /\ Call
    /\ BeginClose("worker", cancelled)
    /\ UNCHANGED <<listenTask, made, loop, cancelled, joined, brokerVars, faults>>

(* The HTTP client is closed: the token is dropped and register() called.  *)
DropToken ==
    /\ app["worker"].at = "dropping"
    /\ token' = FALSE
    /\ At("worker", "registering", 0, 0)
    /\ UNCHANGED <<connection, listenTask, objectVars, loop, cancelled, joined, sock, brokerVars, overlap, calls, faults>>

(* register() returns, or raises and leaves the agent without a token.     *)
Registered ==
    /\ app["worker"].at = "registering"
    /\ \/ token' = TRUE /\ accepted' = TRUE /\ UNCHANGED faults
       \/ faults < MaxFaults /\ faults' = faults + 1 /\ UNCHANGED <<token, accepted>>
    /\ At("worker", "idle", 0, 0)
    /\ UNCHANGED <<connection, listenTask, objectVars, loop, cancelled, joined, sock, good, overlap, calls>>

-----------------------------------------------------------------------------
(* The world: links break, and the broker forgets the token.               *)
Drop(s) ==
    /\ sock[s] = "open" /\ faults < MaxFaults
    /\ sock' = [sock EXCEPT ![s] = "dropped"]
    /\ faults' = faults + 1
    /\ UNCHANGED <<agentVars, objectVars, loop, cancelled, app, joined, brokerVars, overlap, calls>>

TokenLost ==
    /\ accepted /\ faults < MaxFaults
    /\ accepted' = FALSE /\ good' = {}
    /\ faults' = faults + 1
    /\ UNCHANGED <<agentVars, objectVars, loop, cancelled, app, joined, sock, overlap, calls>>

CallStep == ConnectOpened \/ ConnectFails \/ ConnectEnds \/ EndClose("main") \/ Join

WorkerStep == EndClose("worker") \/ DropToken \/ Registered

Calls == Listen \/ Connect \/ Close \/ Stop \/ Reauthenticate

World == (\E s \in Sockets : Drop(s)) \/ TokenLost

Next == (\E t \in Tasks : TaskStep(t)) \/ CallStep \/ WorkerStep \/ Calls \/ World

Spec == Init /\ [][Next]_vars

(* The event loop resumes what can go on: the broker answers, sleeps and   *)
(* handlers end.  Nobody has to call anything.                             *)
Fairness ==
    /\ \A t \in Tasks : WF_vars(TaskStep(t))
    /\ WF_vars(CallStep) /\ WF_vars(WorkerStep)

LiveSpec == Spec /\ Fairness

-----------------------------------------------------------------------------
(* Properties                                                              *)

Places == [at : {"none", "created", "connecting", "authing", "reading", "handling", "sleep",
                 "done", "idle", "closing", "joining", "dropping", "registering"},
           on : Connections \cup {0}, sock : Sockets \cup {0}]

TypeOK ==
    /\ {connection, made} \subseteq Connections \cup {0}
    /\ {listenTask, joined} \subseteq Tasks \cup {0}
    /\ {token, accepted, overlap} \subseteq BOOLEAN
    /\ ws \in [Connections -> Sockets \cup {0}]
    /\ running \in [Connections -> BOOLEAN]
    /\ loop \in [Tasks -> Places]
    /\ cancelled \subseteq Tasks
    /\ app \in [{"main", "worker"} -> Places]
    /\ sock \in [Sockets -> {"closed", "opening", "open", "dropped", "closing"}]
    /\ good \subseteq Connections
    /\ calls \in 0..MaxCalls /\ faults \in 0..MaxFaults

(* Nothing is left behind that stop() could not end: a loop that runs is   *)
(* the one that _listen_task refers to, and, as long as no call came at a  *)
(* bad moment, an open socket is the one of the agent's connection.  The   *)
(* bad moments are: close() or re-authentication, though not stop(), while *)
(* a socket is being opened; connect() while one is held; and connect() or *)
(* the start of a listener while the connection is being closed.           *)
NothingLeftBehind ==
    /\ \A t \in Tasks : Alive(t) => listenTask = t
    /\ ~ overlap =>
          \A s \in Sockets : sock[s] = "open" => connection # 0 /\ ws[connection] = s

(* stop() and close() return, wherever they find the listener.             *)
StopReturns == app["main"].at = "joining" ~> app["main"].at = "idle"

(* A listener that nobody ended comes back: after a lost link, a failed    *)
(* attempt or a failed handler it reads from an open socket again, unless  *)
(* its Connection is closed or holds a token that is refused.              *)
ListenerComesBack ==
    \A t \in Tasks, k \in Connections :
        Alive(t) /\ loop[t].on = k /\ running[k] /\ k \in good
        ~> \/ loop[t].at = "reading" /\ sock[loop[t].sock] = "open"
           \/ ~ running[k] \/ k \notin good \/ t \in cancelled
=============================================================================
