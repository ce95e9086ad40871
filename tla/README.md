# claw-msg, verified

TLA+ models of claw-msg: the message broker (`src/src/claw_msg/server`), the
Python SDK (`src/src/claw_msg/client`) and the OpenClaw plugin
(`src/plugin/src`). TLC checks each model on a small instance; TLAPS proves the
safety properties of every one of them for all values of their constants.
Paths below are relative to the repository; `server/…` and `client/…` stand for
`src/claw_msg/server/…` and `src/claw_msg/client/…`.

`PROJECT.json` lists the components, runs, mutants, hazards, findings and
theorems, and maps every definition that models code to the lines it stands for.

## 1. The system

Agents register with a broker and get an id and a bearer token. They send
messages to agents or to rooms, by HTTP or over a WebSocket; the broker stores
each message, writes it to the sockets of the agents that are connected and
queues it for the others. The SDK and the plugin are two clients of this
protocol.

### Components

| component | state | operations | interacts with |
|---|---|---|---|
| WebSocket broker (`server/broker.py`) | agent → list of sockets | register, unregister, send_to_agent | called by sessions and by the fan-out, on the same lists, across awaits |
| Sessions (`server/routes_ws.py`) | one coroutine per connection | handshake, set_online, flush, message loop, acks, finally clause | broker, offline queue, presence |
| Fan-out (`server/routes_ws.py`, `routes_messages.py`) | one coroutine per message | store, iterate over recipients, send or enqueue, acknowledge | broker, offline queue, rooms |
| Offline queue (`server/offline_queue.py`) | rows pending / delivered / acked | enqueue, flush, mark_acked, cleanup_expired | tables of the database |
| Presence (`server/presence.py`) | agents.status | set_online, set_offline | sessions |
| Rate limiter (`server/rate_limit.py`) | a token bucket per agent, in memory | allow | both send paths |
| Registration, authentication (`server/routes_agents.py`, `auth.py`) | agents: token hash, trusted identity | register (new or by token), authenticate, PATCH me | admin key, database |
| Contacts, admin (`server/routes_contacts.py`, `routes_admin.py`) | contacts | add, remove, admin and bulk variants | admission |
| Rooms (`server/routes_rooms.py`) | rooms, room_members | create, join, leave | admission, fan-out |
| Admission (`server/message_validation.py`) | — | get_message_target_error | reads contacts, policies, members |
| Database (`server/database.py`) | one SQLite connection, one open transaction for all requests | — | every route |
| SDK agent (`client/agent.py`) | token, HTTP client, pending and early replies, a lock | ask, polling, _with_reauth, _reauthenticate | credentials file, connection, broker |
| SDK connection and listener (`client/connection.py`, `client/agent.py`) | the Connection object, its socket, the listening task | connect, listen, close, stop, the end by re-authentication | SDK agent, broker |
| SDK credentials file (`client/credentials.py`) | one JSON file for all processes of a user | store, remove, find | SDK agent, command line, bridge |
| Daemon, webhook, bridge, command line | a process per agent, which listens and forwards | registration or a given token, then the listener | credentials file, SDK connection |
| Plugin monitor (`plugin/src/monitor.ts`) | the socket, connected, sendQueue, pendingAck | connectLoop, authenticate, closeSocket, stop, sendText | broker |
| Plugin outbound (`plugin/src/outbound.ts`) | — | sendClawMsgMessage: WebSocket or HTTP | monitor |
| Plugin registration, channel | the host's configuration file | register an account, start it, add contacts | broker |

### What is hard about it

* **Interleavings at awaits.** The broker is one asyncio process and the plugin
  one JavaScript event loop, so the order of the program text says nothing
  across an await: `send_to_agent` iterates over a list that sessions append to
  and that it removes from itself; a join counts members and inserts later; a
  registration reads the row it overwrites in another statement.
* **One transaction for everybody.** All requests share one connection: a commit
  makes the half of another request durable, an error leaves a half behind.
* **Crashes and broken links.** Statuses and queue rows survive a restart,
  sessions do not; a socket may fail between the marking of a row and its write;
  a process may end after it has emptied the credentials file.
* **One file for everybody.** Every process that uses the SDK reads, changes and
  writes the same credentials file without a lock.
* **Correlation.** Acknowledgements carry no identity that `sendText` checks;
  replies race with their own request; a token that is refused is replaced while
  other operations still use it.
* **Termination.** Sends are chained, `stop()` waits for a loop or a task, a
  handler iterates over a list that grows, a listener must come back.

`PROJECT.json` gives the hazards line by line with the properties that cover them.

### What makes each component correct

* *Broker and fan-out*: a message reported as sent was written or stored for
  each recipient; nothing is written twice to one socket by one send; a session
  that goes on stays reachable while its link works; no socket outlives its
  session in the registry; every handler ends.
* *Queue*: seen from outside it is a mailbox (`Mailbox`): a copy is made only for
  an agent that the message is meant for, handed over only while that agent has a
  session, acknowledged only by an agent that was given it, and nothing is
  reported as sent before every agent was served or has its copy. A reconnecting
  agent's queue is drained.
* *Presence*: an agent shown online has a session that will set it offline.
* *Rate limiter*: bounded sends in every window; nobody below the rate is refused.
* *Registration*: only the admin key stamps an identity; an answer outlives the
  process; careful rotation stays on one agent; overwriting needs a stale read.
* *Directory* (contacts, rooms, admission): stored messages were permitted; rooms
  overfill by a bounded number; requests leave nothing uncommitted; one creation
  of a contact is reported.
* *Monitor*: an acknowledged send was itself acknowledged; HTTP never repeats
  what was written; sockets neither overlap nor leak; sends settle, stop returns.
* *SDK agent*: one registration per lost token; no client with another token
  than the one it would blame; no reply is forgotten.
* *Listener*: one loop at a time, and `_listen_task` refers to it; no open socket
  that no call will close; `stop()` returns; a listener that nobody ended reads
  again.
* *Credentials file*: a store with one entry per name and per agent, updated as a
  whole, until an update is cut off or overlaps another; even then no entry is
  made up.

## 2. Modules

| module | models | grain of an action |
|---|---|---|
| `Broker` | register, unregister and the order of `_connections` as operators | — |
| `OfflineQueue` | the SQL of `offline_queue.py` as operators on rows | — |
| `Mailbox` | abstract: what the broker promises per message and agent | — |
| `Delivery` | sessions, fan-out, presence, cleanup, restart; composes `Broker` and `OfflineQueue`, implements `Mailbox` | a coroutine from one await to the next |
| `DeliveryClaims` | two sentences of the repository about delivery that the code does not keep | — |
| `RateLimiter` | `TokenBucket`, `RateLimiter`, restart | one call of allow, one clock tick |
| `Registration` | `POST /agents/register`, `authenticate_token`, restart | one database statement |
| `Directory` | contact, admin, room and policy routes and the admission of messages over one shared transaction, restart | one database statement |
| `Monitor` | `monitor.ts` and the fall-back of `outbound.ts` | one event with all callbacks of its turn |
| `AgentClient` | `ask`, its polling task, the cache of early replies, `_with_reauth`, `_reauthenticate` | a coroutine from one await to the next |
| `Listener` | `Connection.connect`, `listen`, `close`; `Agent.listen`, `connect`, `close`, `stop` and re-authentication around them | a coroutine from one await to the next |
| `CredentialStore` | abstract: what a credentials file is meant to be | — |
| `Credentials` | `credentials.py` and its callers in agent and command line, in several processes; implements `CredentialStore` | one system call on the file, one request |
| `DeliveryProofs`, `RateLimiterProofs`, `RegistrationProofs`, `DirectoryProofs`, `MonitorProofs`, `AgentClientProofs`, `ListenerProofs`, `CredentialsProofs` | theorems | — |
| `MC…` | instances for TLC: symmetry, restricted initial states | — |

A definition whose comment begins with "A mutant of" is a plausible bug in that
operator; it is not part of the specification and shows that the properties can
fail.

### Delivery

`connections`, `seat` and `detached` are `_connections`: the set of an agent's
sockets, the order in which they were appended, and the sends that iterate over
a list which has since been deleted from the dictionary. `send[m]` holds the
locals of `send_to_agent`; its list is read again at every step, as Python's list
iterator does, so appends and removals during the iteration have their effect
(a removal before the iterator's place makes it pass over an element).
`session[c]` is the statement at which the coroutine of connection c awaits,
`handler[m]` the same for the handler of message m.

Abstractions: a message is sent once; what admission decides is an input of
`Accept` (`Directory` models it); a statement and its commit are one step where
nothing observable lies between; between two recipients of a room there is one
yield point "next" also where the code need not yield, which only adds
interleavings; a write to a socket succeeds while the link is up and fails when
it is down; what is lost after a successful write is lost, and not modelled as a
write that fails. `stale` marks rows whose `expires_at` has passed.

A session ends in three ways: its link breaks (`Disconnect`, or `Finish` when the
answer cannot be written); its loop raises although the link works (`Abort`: a
frame that is no JSON object, a `message.ack` whose payload is none, a database
error before the fan-out or in `mark_acked`); or the handler it waits for fails
(`HandlerFails`: a database error when the members are read or a row is stored,
which for an HTTP request is an error answer). In the last two the socket is
unregistered while its peer can still be written to, until the server closes it
(`LinkDown`). An error leaves no part of its statement behind. Errors of the
database in `set_online`, the flush and `set_offline` are not modelled: see the
hazard at `routes_ws.py:77`.

Clients acknowledge what they were given, once it is in their `inbox` and after
any delay, as `Connection.listen` of the SDK does (`connection.py:109`). The
route would mark any row of its own agent that a client names, also one that is
pending; a client that does this is not modelled.

`KeepsPromise` is `Mailbox!Spec` under the mapping at the end of the module: the
agents that took a message are those with a socket it was written to (`wrote`),
those it is stored for are `kept`, `told` are the messages whose handler is done,
the box of a copy is the status of its row, and an agent is attached when it has
a session between its authentication and the end of its finally clause. The mailbox knows
neither sockets nor lists nor coroutines, and its guards are the promise: no
delivery or copy to an agent the message is not meant for, no delivery after the
report except of a stored copy, no report before all are served, nothing handed
to an agent without a session, no acknowledgement of what was not given.

### Registration and Directory

A request is a program counter over the statements of its handler, with its form
or `ask`, and the values it has read. The database is two tables: what the one
connection sees and what is committed. A crash falls back to the second, and the
requests that were running are lost. In `Registration` a token is named by the
request that it was issued to, so that hashes and salts need not be modelled: a
token opens the row that stores its hash. In `Directory` one room and a set of
contact rows are enough, since nothing relates two rooms or two rows except a
bulk request, which `todo` carries.

Left out of `Directory`: alias, tags and notes of a contact; the 500 of a route
that re-reads a row which another request deleted after the commit (no state
changes); empty bulk requests, which commit and nothing else; foreign-key errors
on agents that do not exist (agents are never deleted); rooms created with
`max_members` of zero or less.

### Monitor

`loop` and `stops` say where `connectLoop` and the calls of `stop()` await and on
which socket; `ws` is the `readyState` of every socket created so far; `chain` is
`sendQueue`, and `result` the state of each promise in it. The close event runs
everything that happens in its turn: the handlers, the rejection of the pending
acknowledgement, the coroutines that await the socket.

Left out: the dispatch of inbound messages to the host, ping and pong, status
updates (none of them changes this state), and frames that arrive in the chunk of
`auth.ok` before the handlers are attached.

### AgentClient

A token stands for the agent it was issued to: a refused token is known to no
agent, so registering with it makes a new one, and the n-th registration yields
token n. The broker answers requests by what it would find; the peer's reply
comes in the second of the question or later, which is what the polling query's
timestamp tells apart; cancellation by the timeout of `ask` may hit any await.
The age of a cached reply is not kept: an entry may be too old at any moment at
which its own request is not in flight (`Pruned`). An operation may begin while
there is no token: it then names none as failed, and `Superseded` never holds for
it, as `agent.py:465` has it. `listen()`, `close()` and `stop()` are in
`Listener`. User callbacks are left out.

`connect()` is one step here and comes with a token. In the code it awaits the
connection and then creates the HTTP client with the token as it is by then; if a
re-authentication has dropped the token meanwhile, that client carries none, and
an operation refused with it registers once more (hazard at `agent.py:465`).

### Listener

`loop[t]` is where the t-th task that `listen()` created awaits, with its
Connection object and its socket; `app` is the same for the program ("main") and
for an operation that re-authenticates ("worker"); `ws` and `running` are the
fields of each Connection object, for a closed one lives on in the task that
holds it. A socket is "dropped" when the link is gone and the client has not
noticed. `good` are the Connection objects made with a token the broker accepts.

`overlap` records that a call came at a moment at which the code does leave
something behind: `close()` or a re-authentication while a socket is being
opened, `connect()` while one is held, `connect()` or the start of a listener
while the connection is being closed. `stop()` is not among them, since it
cancels the task first.

A re-authentication first closes the Connection, then awaits the close of the
HTTP client ("dropping") and only then lets go of the token: a `listen()` or
`connect()` in between makes a Connection with the token that was refused, which
is not in `good`.

Restrictions: the program calls `connect()` only when no loop is alive (else two
coroutines read one socket, which `websockets` forbids); a `listen()` in the
foreground is the same loop and is not modelled twice; delays have no length;
messages have no identity.

### Credentials

The file is read by one system call, emptied by the opening for write and filled
by the write: three steps, between which other processes run, and after any of
which the process may end. An entry is named by its token, so that what a
process has read is a set of tokens. `mishap` becomes true when a process ends
between the truncation and the write, or opens the file although it no longer
holds what the process has read. A write of two processes at once
leaves one of the texts, or a text that cannot be parsed.

`ActsAsStore` is `CredentialStore!Spec`: while the file is empty because one
process is about to write it, the store still holds what that process read.

One broker: entries of other brokers are copied along and never looked at.
`find_credentials` takes the first match, of which there is at most one.

## 3. Runs

| run | question | instance |
|---|---|---|
| `delivery` | safety of sessions, fan-out, queue, presence; refinement of `Mailbox` | 2 agents, 2 connections, 1 message to either or both, 1 crash |
| `delivery_live` | handlers end, queues drain | 1 agent, 2 connections, 1 message, 1 crash, fairness |
| `rate_limiter` | bounds in every window | 2 agents, rate 2, minute of 3 ticks, 8 ticks, restarts |
| `registration` | stamping, rotation, durability | 4 requests, 2 agents, 2 identities, 1 crash |
| `directory` | admission, rooms, contacts, the shared transaction | 2 requests of any kind, 3 agents, room for one, 1 crash |
| `monitor` | connection and sends, safety and liveness | 3 sockets, 2 sends, 2 calls of stop |
| `agent_client` | ask and re-authentication | 2 asks (4 tasks), 4 tokens, 2 expiries, cache of one reply |
| `listener` | what calls and faults leave behind, stop and recovery | 3 Connection objects, 4 sockets, 3 tasks, 5 calls, 3 faults, fairness |
| `credentials` | refinement of `CredentialStore` | 2 processes, 2 names, 3 registrations, 4 starts |
| `claim_…` | sentences of the repository that the code does not keep | as small as the counterexample |

Why these bounds: every hazard of a component is an interaction of two or three
actors, and the instance has one more than it needs where that is affordable.

* `delivery`: two agents are needed for a room message of which one copy is
  written and one stored, and for an ack or a flush that touches the wrong
  agent; two connections for a reconnect while the old session is still there;
  one crash for a status that outlives its session. Two sends that meet on one
  list of three sockets (where the iterator may pass over one and still have a
  third to write) are the instance of `claim_returns_true`; that no socket is
  written twice there either is the theorem `NoSocketTwice`.
* `registration`: four requests, because an identity can be replaced by a
  request whose stale read is of an *earlier identity* rather than of an empty
  row, which takes two stampings and a rotation before it.
* `directory`: the room bound is reached with a limit of one and two joins; the
  requests start from every state at rest, so that a third request that prepared
  the state is not needed. All initial contacts and policies are covered, the
  policies equal for all agents.
* `monitor`: three sockets are an old one, its replacement and one to come; the
  second send is the one whose acknowledgement can be confused or whose fate
  the first one decides.
* `agent_client`: two tokens may expire so that a slow operation meets the
  expiry of the token that replaced its own.
* `listener`: five calls are a start, an end that overlaps it, a second start and
  its end, with one to spare; three Connection objects and tasks are as many as
  five calls can make that matter, four sockets one more than can be held at a
  time.
* `credentials`: two processes are what overlaps; four starts let each die and
  come back; two of three registrations may be of one agent (a rotation), which
  an entry by agent and an entry by name tell apart.
* Bounds that the code does not have and where they are: `MaxCrashes`,
  `MaxSockets`, `MaxTokens`, `MaxExpired`, `MaxClock`, `MaxPairs`,
  `MaxConnections`, `MaxTasks`, `MaxCalls`, `MaxFaults`, `MaxStarts`. Each
  appears in the guard of the actions that would exceed it and only stops them. `CHECK_DEADLOCK FALSE` is set
  where all requests may be finished.

Fairness. `Delivery`: weak fairness of each session and each handler, for asyncio
resumes every coroutine whose await is complete, and the database and local
sockets answer; clients owe nothing, and errors (`Abort`, `HandlerFails`) need
not happen. `Monitor`: timers fire, promise callbacks
run, and a socket that is opened or closed reaches `closed` in the end
(`ws` destroys it after 30 s); the broker owes no `auth.ok` and no
acknowledgement. `Listener`: weak fairness of each task, of a call under way and
of the re-authentication: the event loop resumes what can go on, attempts to
connect end one way or the other, the broker answers or the link is lost, sleeps
and handlers end; nobody has to call anything, and faults are finitely many. No
strong fairness is assumed anywhere.

### Where documents and code differ

Three runs end in a counterexample; each quotes its sentence.

* `claim_returns_true`: `send_to_agent` compares the number of dead sockets with
  the length of the list it has just shortened. With one dead and one working
  socket it returns False, the message is stored as well and delivered again.
* `claim_at_least_once`: `flush_for_agent` marks the rows before they are
  written; a link that breaks loses the rest of the batch.
* `claim_ask_returns`: the exception of a failed poll replaces a reply that has
  arrived.

Seen in the models and not kept as runs: a session that ends sets its agent
offline while another of its sessions goes on; the iterator may pass over a
working connection; two registrations with one token may overwrite a trusted
identity (`routes_agents.py` answers 409 only to those that read it; see
`OnlyStaleReadsOverwrite`); `stop()` called while the loop itself waits in
`closeSocket` leaves the loop to open one more socket, and returns only when that
one has failed or closed (hence the condition in `StopUsuallyReturns`); a
rejected send rejects all later ones of the plugin's chain with its own error, of
which only "not connected" makes the plugin use HTTP, although
`plugin/prd.json:89` has it fall back. In the SDK: `close()` or re-authentication
while a socket is being opened leaves it open, and its loop reading, with nobody
to close it; `listen()` during the back-off of a loop that is about to end is
answered with that loop's task; a listener whose Connection is gone before it
starts fails without a word; re-authentication ends the background listener, and
only the next call of `listen()` starts another; a cancelled listener lets go of
its socket without closing it. In the credentials file: one that cannot be parsed
is never repaired, since every update reads it first, so each start registers a
new agent; a start during another process's write does too; an entry is removed
by agent although its token is already a newer one's; and the command line's
`Agent(token)` registers "unnamed-agent" when its token is refused.

## 4. Proofs

Every invariant and action property that a passing run checks is a theorem, and
so are both refinements; beyond them some results are stated only as theorems.
All of them hold for any number of agents, connections, messages, requests, tasks
and crashes. The assumptions are the named ASSUMEs of the modules: finiteness where
something is counted, bounds in `Nat`, and that the placeholder values
(`Http`, `Nobody`, `None`) are none of the real ones.

**Delivery** (`TypeCorrect`, `NothingUnaccounted`, `NoSocketTwice`,
`PresenceIsVouchedFor`). The invariant is `SendInv`.
`Accounted` is not inductive: a handler may end because the iterator is
exhausted, and what then holds depends on how the list was changed meanwhile.
`Iterating` says how: the sockets tried so far are distinct, their number is the
iterator's place, and those still listed sit before it, because a list only
shrinks below that place and grows at its end (`Seated`). Hence a socket that is
yielded is new, and one whose write raised has a broken link; `Served` carries
the accounting from agent to agent.

**Delivery as a mailbox** (`NoSocketLeaks`, `LiveStaysReachable`, `Implements`; in
`DeliveryProofs`). `PromiseInv` adds to `SendInv` what
the guards of the mailbox need: the fan-out serves only agents it was asked for
(`Recipients`), rows and flushed batches were stored (`Stored`), clients
acknowledge what was written to them (`Given`), the socket written to belongs to
the agent served (`Matched`), and a session that handles a message waits for that
handler alone (`Waiting`). `LiveStaysReachable` is about a session that has not come to
its finally clause: the end of a send unregisters only sockets whose link is
broken, the end of a session only its own socket (`LeaveSparesOthers`), and a
session that awaits its handler is ended by no other (`Waiting`). A session that
has passed that clause is unregistered even if its link works, so that the
theorem says nothing of it. Then each action maps to one action of `Mailbox` or to
a stutter, one lemma per action.

Of the refinement one result is a corollary: in `Mailbox` a copy never moves
backwards, so in `Delivery` a row goes from pending to delivered to acked, is
acked only by an agent that some socket took the message for, and is taken away
only after its time (`RowsNeverRevive`), whatever flushes, acks, second stores
and cleanups interleave.

Liveness cannot be proved here, but what it rests on can. `HandlersFinish`, which
TLC checks with two connections, needs that a handler cannot run for ever on a
list that sessions append to. `FanOutBounded`: the iterator of `send_to_agent`
yields no more sockets than have ever been registered, since those it has tried
are distinct (`Iterating`). `HandlersGoOn`: every step of a handler decreases
(room still to be read, agents to serve, phase, sockets left), and no step of a
session, of another handler or of the cleanup increases it; a crash or a database
error ends the handler. The induction from these two to termination is left to TLC.

**RateLimiter** (`TypeCorrect`, `RateIsBounded`, `RefusalsAreEarned`). The
invariant balances the units in the bucket, the units granted and the time since
the window began, from above and from below; multiplication is kept out of the
solver's way by naming the products.

**Registration** (`TypeCorrect`, `TrustedIsAdmins`, `AnswersSurvive`,
`StaleReadsOnly`, `RotationsStay`, `OneAgentPerToken`, `AgentsAreKept`). `RegInv` adds to the properties what a
request's locals are worth at each statement (`Local`), that a stored token was
issued to a request that wrote it (`Issued`, in the table and on disk), and that
an answer that was given is covered by the disk (`Durable`). `RotationInv` is a
second invariant, under the hypothesis that no token is presented twice: the row
that a request found is still opened by the token it presented or by its own.
From `Issued` a token opens one agent only, in the table, on disk and across a
crash; and the table never falls behind the disk (`TableKeepsUp`), so that an
agent once committed stays although any request may commit the halves of others.

**Directory** (`TypeCorrect`, `RoomStaysNearLimit`, `MessagesWerePermitted`,
`NothingLeftUncommitted`, `OneCreation`, `AnswersHold`). `Sound` ties each statement to the
kind of request that can await it. `RoomInv` counts the members together with
the requests that have passed the comparison: when one passes it, a place is
free, so that what exceeds the limit is other requests. `AdmissionInv` carries
the permission of the first target along while the second is checked, and keeps
it through commits and crashes. `CommitInv` names who owes a commit for what is
executed (`Owing`), `CreationInv` that an add is answered as a creation only
after its own insert of a row that was absent. `HeldInv` says that a message and
a room are in the table from their insert on, and on disk from their answer on,
whoever committed them; and that a refused message never was.

**Monitor** (`TypeCorrect`, `AcksMatch`, `NothingSentTwice`,
`SocketsDoNotOverlap`, `StopCloses`, `FailureStopsTheChain`, `SettledStays`). An acknowledgement names no send, so that
`AckMatchesSend` rests on the order of the chain: before a send that is written
all were acknowledged, and after one that was rejected none is ever written
(`ChainInv`). A frame still on a wire belongs to a send that was written and not
acknowledged, and is there once (`FrameInv`, `OnceInv`); while a send waits, all
others are acknowledged or not yet written, so the only frame its acknowledgement
can answer is its own. `FateInv` ties what the caller is told to what became of
the promise: what was written never falls back to HTTP. `SocketInv` says that
only the variable `socket` can hold a socket that is not closed, and `EndInv`
that a loop that ends has rejected the send that waited. From the same invariant:
after one rejected send no frame of the chain is written any more, on this or any
later socket, which is what the chain of promises in `monitor.ts` amounts to; and
nothing that comes late revises what a promise or a caller was told.

**AgentClient** (`TypeCorrect`, `OneRegistration`, `ClientStaysCurrent`,
`EarlyReplies`, `LockIsNotLeaked`, `ReauthSparesGoodTokens`,
`FileIsNeverStale`). `KnowsInv` says what a task knows at each await: the token it
names as failed is the one its request carried, and it is refused; while the
lock is held the agent has no token that is accepted, and a token just issued
is. `CountInv` pays for each registration with a token that expired or an answer
that was lost; between the loss of a token and its replacement one payment is
outstanding. `LockInv` says who is inside the lock, `PollInv` and `FutureInv`
that future and polling task begin when the message is sent, and `CacheInv` that
a reply delivered before that is in the cache or was evicted. `LockInv` itself
says that the lock is never leaked, whichever of its awaits is broken off.
`KnowsInv` yields that a token which the broker accepts is never given up,
however old the error 401 that a task has seen. The credentials file follows the
token (`FileFollowsToken`): it is emptied first and written last, under the lock.

**Listener** (`Invariant`, `TypeCorrect`, `NothingIsLeftBehind`, `StopAwaits`).
What holds at every moment: at most one task lives and `_listen_task` is it, and
the program connects only without one (`OneTask`); what `stop()` awaits is the
last task there was (`JoinInv`); whoever holds a socket finds it in its
Connection or finds the field cleared (`HoldInv`). What holds until a call comes
at a bad moment (`CleanInv`): a Connection whose loop is to go on is the agent's
and is not being closed (`RunningInv`), so that a loop which is resumed after a
`close()` ends instead of connecting again; whatever is about to open a socket
will find the agent's Connection without one (`ConnectingInv`), without which an
attempt that succeeds late would replace a socket that is open; and only the
agent's Connection has an open socket, none while it is being closed or its loop
is cancelled (`OpenInv`). Each of the three is needed to preserve the others.
`StopAwaits` is the safety half of `StopReturns`: `stop()` awaits only a task that
was cancelled or has ended. It needs that an ended task does not come back and
that `_listen_task` was created (`EndInv`).

**Credentials** (`TypeCorrect`, `Implements`). `Sane` says of each process that
what it has read and is about to store was issued by the broker, with one token
per name and agent; `FileInv` the same of the file; `TurnInv` that, as long as
nothing went wrong, the file is empty exactly while the one process that emptied
it has not written it. Under `TurnInv` a write is the abstract update of what
the process read, which is what the store holds; without it, a `Mishap`.

Only model-checked: liveness (`HandlersFinish`, `ReconnectDrains`,
`FlushHandsOver`, `SendsSettle`, `StopUsuallyReturns`, `StopReturns`,
`ListenerComesBack`), since fairness and ENABLED are out of the prover's reach,
as is induction over recursive definitions.

## 5. Not modelled

* The plugin's registration, auto-configuration and channel: their state is the
  configuration file of the host, whose reads and writes are not in this
  repository. The hazard they share with the SDK's file (a configuration read
  before a request and written whole after it) is listed.
* What the plugin does with inbound messages (`monitor.ts`, `inbound.ts`): it
  calls the host, message by message, and keeps no state of its own.
* `client/http.py`, `config.py`, the plugin's accounts, schema and protocol
  files: no state, or constants. The daemon and the bridge add to the listener a
  handler that forwards a message, and the command line a parser.
* Errors of the database itself, except in `Directory` and in the message loop and
  the handlers of `Delivery`, and failed handshakes of a WebSocket, which leave
  no state.
* Migrations of the database: they run once, before the first request. The
  index that made agent names unique is dropped by one of them; a name is
  therefore resolved only when one agent has it, which is a lookup.
* Presentation: JSON shapes, logging, text of errors.

## 6. Plan

Done, in this order: broker, queue and delivery; rate limiter; registration;
directory; monitor; SDK agent; the mailbox as abstract specification; listener;
credentials file; proofs for all of them; the safety halves of what ends
(handlers, `stop()`). What is left, most important first:

1. The safety halves of the other liveness properties, as `HandlersGoOn` is for
   the handlers: that a send of the plugin's chain is never without a step that
   brings it closer to its end (`SendsSettle`), and the same for `stop()` of the
   monitor.
2. Inbound messages of the plugin, composed with `Delivery`: frames that come in
   one chunk with `auth.ok` before the handler is attached.
3. Database errors between `register` and the `try` of a session, for which
   `NoLeakedSocket` would no longer hold, and `connect()` of the SDK in its steps,
   with the HTTP client that it makes last.
4. The plugin's accounts that start at the same time, with the host's
   configuration as an external store.
