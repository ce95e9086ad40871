----------------------------- MODULE AgentClient -----------------------------
(***************************************************************************)
(* The Python SDK's Agent (client/agent.py): ask(), which sends a message  *)
(* and waits for the reply that a WebSocket or a polling task brings, and  *)
(* _with_reauth, which registers anew when the broker refuses the token.   *)
(*                                                                         *)
(* Every ask is two coroutines, itself and its polling task; an action is  *)
(* what one of them does from one await to the next.  The broker and the   *)
(* peer are modelled by what they answer.  Since a refused token is known  *)
(* to no agent, each registration makes a new one, and a token stands for  *)
(* its agent: the n-th registration yields token n, and 0 is None.         *)
(***************************************************************************)
EXTENDS Naturals, Sequences, FiniteSets

CONSTANTS Asks,       \* calls of ask(), and the messages that they send
          None,
          MaxTokens,  \* how many tokens the broker may issue
          MaxExpired, \* how many of them may become invalid
          MaxEarly    \* _EARLY_REPLY_MAX_SIZE

ASSUME NoneIsNoTask == None \notin Asks \X {"ask", "poll"}
ASSUME SizesAreNat ==
    MaxTokens \in Nat \ {0} /\ MaxExpired \in Nat /\ MaxEarly \in Nat

Tasks == Asks \X {"ask", "poll"}
Tokens == 1..MaxTokens

(* What the broker answers to a request whose token it accepts.            *)
Answers == {"ok", "found", "nothing"}

VARIABLES
    token,       \* _token, and with it _agent_id
    http,        \* the token of the client _http, 0 if there is no client
    httpClosed,  \* is that client closed?
    ws,          \* the token that _connection authenticated with, or 0
    creds,       \* the token in the credentials file
    lock,        \* the task that holds _reauth_lock
    pc,          \* task -> where it is
    failed,      \* task -> failed_token
    client,      \* task -> the token its request carries
    again,       \* task -> is it in the second call of operation()?
    future,      \* ask -> its pending_reply; "pending": in _pending_replies
    early,       \* _early_replies, oldest first
    outcome,     \* ask -> what it returned or raised
    valid,       \* broker: tokens that it accepts
    issued,      \* broker: how many tokens it has issued
    sent,        \* broker: ask -> the token that its message was sent with
    reply,       \* broker: ask -> the reply to its message
    wasted,      \* history: registrations whose answer was not taken
    expired,     \* history: tokens that stopped being accepted
    delivered,   \* history: asks whose reply the WebSocket has brought
    evicted      \* history: asks whose early reply was dropped

session == <<token, http, httpClosed, ws, creds, lock>>
replies == <<future, early, evicted>>
broker == <<valid, issued, sent, reply, expired>>
vars == <<token, http, httpClosed, ws, creds, lock, pc, failed, client,
          again, future, early, outcome, valid, issued, sent, reply, wasted,
          expired, delivered, evicted>>

-----------------------------------------------------------------------------
Init ==
    /\ token = 1 /\ http = 1 /\ httpClosed = FALSE
    /\ ws \in {0, 1}
    /\ creds = 1
    /\ lock = None
    /\ pc = [t \in Tasks |-> "idle"]
    /\ failed = [t \in Tasks |-> 0]
    /\ client = [t \in Tasks |-> 0]
    /\ again = [t \in Tasks |-> FALSE]
    /\ future = [a \in Asks |-> "none"]
    /\ early = << >>
    /\ outcome = [a \in Asks |-> "none"]
    /\ valid = {1} /\ issued = 1
    /\ sent = [a \in Asks |-> 0]
    /\ reply = [a \in Asks |-> "none"]
    /\ wasted = 0 /\ expired = 0
    /\ delivered = {} /\ evicted = {}

-----------------------------------------------------------------------------
(* _with_reauth                                                            *)

(* operation() up to its request: _get_http finds or creates a client,     *)
(* unless there is no token, and a closed client raises at once.           *)
Request(t, tok, cl, closed) ==
    IF closed \/ (cl = 0 /\ tok = 0)
    THEN /\ pc' = [pc EXCEPT ![t] = "failed"]
         /\ http' = cl
         /\ UNCHANGED client
    ELSE /\ pc' = [pc EXCEPT ![t] = "flight"]
         /\ http' = IF cl = 0 THEN tok ELSE cl
         /\ client' = [client EXCEPT ![t] = http']

FirstCall(t) ==
    /\ failed' = [failed EXCEPT ![t] = token]
    /\ again' = [again EXCEPT ![t] = FALSE]
    /\ Request(t, token, http, httpClosed)
    /\ UNCHANGED <<token, httpClosed, ws, creds, lock, replies, outcome,
                   broker, wasted, delivered>>

(* ask() begins.                                                           *)
Ask(a) == pc[<<a, "ask">>] = "idle" /\ FirstCall(<<a, "ask">>)

(* The polling task begins, or its sleep is over.                          *)
Poll(a) ==
    LET t == <<a, "poll">>
    IN /\ pc[t] = "sleeping"
       /\ \/ future[a] # "done" /\ FirstCall(t)
          \/ /\ future[a] = "done"
             /\ pc' = [pc EXCEPT ![t] = "done"]
             /\ UNCHANGED <<session, failed, client, again, replies,
                            outcome, broker, wasted, delivered>>

(* _with_reauth is left, and its local variables are gone.                 *)
Leave(t, place) ==
    /\ pc' = [pc EXCEPT ![t] = place]
    /\ failed' = [failed EXCEPT ![t] = 0]
    /\ client' = [client EXCEPT ![t] = 0]
    /\ again' = [again EXCEPT ![t] = FALSE]

(* Error 401: the first is followed by re-authentication.                  *)
Refused(t) ==
    /\ pc[t] = "401"
    /\ \/ again[t] /\ Leave(t, "failed")
       \/ /\ ~ again[t]
          /\ pc' = [pc EXCEPT ![t] = "lock"]
          /\ client' = [client EXCEPT ![t] = 0]
          /\ UNCHANGED <<failed, again>>
    /\ UNCHANGED <<session, replies, outcome, broker, wasted, delivered>>

(* A mutant of Superseded: the token is not looked at under the lock.      *)
NeverSuperseded(t) == FALSE

(* Somebody has replaced the token that failed, if there was one.          *)
Superseded(t) == failed[t] # 0 /\ token # failed[t]

(* A mutant of Forget: the token is forgotten before the clients that use  *)
(* it are closed.                                                          *)
ForgetToken == creds' = 0 /\ token' = 0

(* remove_credentials                                                      *)
Forget == creds' = 0 /\ UNCHANGED token

(* The lock is free: _reauthenticate either has nothing to do, and         *)
(* operation() is called again, or begins to close the connection.         *)
Acquire(t) ==
    /\ pc[t] = "lock" /\ lock = None
    /\ \/ /\ Superseded(t)
          /\ again' = [again EXCEPT ![t] = TRUE]
          /\ Request(t, token, http, httpClosed)
          /\ UNCHANGED <<token, creds, lock>>
       \/ /\ ~ Superseded(t)
          /\ lock' = t
          /\ Forget
          /\ pc' = [pc EXCEPT ![t] = "closing"]
          /\ UNCHANGED <<again, http, client>>
    /\ UNCHANGED <<httpClosed, ws, failed, replies, outcome, broker, wasted,
                   delivered>>

(* The connection is closed, and the client begins to.                     *)
Close(t) ==
    /\ pc[t] = "closing"
    /\ ws' = 0
    /\ httpClosed' = (http # 0)
    /\ pc' = [pc EXCEPT ![t] = "closed"]
    /\ UNCHANGED <<token, http, creds, lock, failed, client, again, replies,
                   outcome, broker, wasted, delivered>>

(* The client is dropped and the token forgotten; POST /agents/register.   *)
Drop(t) ==
    /\ pc[t] = "closed"
    /\ token' = 0 /\ http' = 0 /\ httpClosed' = FALSE
    /\ pc' = [pc EXCEPT ![t] = "registering"]
    /\ UNCHANGED <<ws, creds, lock, failed, client, again, replies, outcome,
                   broker, wasted, delivered>>

(* The broker makes a new agent; tokens are capped by MaxTokens.           *)
ServeRegister(t) ==
    /\ pc[t] = "registering" /\ issued < MaxTokens
    /\ issued' = issued + 1
    /\ valid' = valid \cup {issued'}
    /\ client' = [client EXCEPT ![t] = issued']
    /\ pc' = [pc EXCEPT ![t] = "registered"]
    /\ UNCHANGED <<session, failed, again, replies, outcome, sent, reply,
                   expired, wasted, delivered>>

(* Registered: the new token is stored, the lock released, and operation() *)
(* called again.                                                           *)
Registered(t) ==
    /\ pc[t] = "registered"
    /\ token' = client[t] /\ creds' = client[t]
    /\ lock' = None
    /\ again' = [again EXCEPT ![t] = TRUE]
    /\ Request(t, client[t], client[t], FALSE)
    /\ httpClosed' = FALSE
    /\ UNCHANGED <<ws, failed, replies, outcome, broker, wasted, delivered>>

(* async with: the lock is released however its body is left.              *)
Release(t) == lock' = IF lock = t THEN None ELSE lock

(* A request, or its answer, is lost.                                      *)
Break(t) ==
    /\ pc[t] \in {"flight", "401", "registering", "registered"} \cup Answers
    /\ Release(t)
    /\ wasted' = IF pc[t] = "registered" THEN wasted + 1 ELSE wasted
    /\ Leave(t, "failed")
    /\ UNCHANGED <<token, http, httpClosed, ws, creds, replies, outcome, broker, delivered>>

-----------------------------------------------------------------------------
(* ask() and its replies                                                   *)

(* The broker stores the message, or says which messages it holds for the  *)
(* agent: those after the second in which the question was stored.         *)
Serve(t) ==
    /\ pc[t] = "flight"
    /\ LET a == t[1]
           answer == IF client[t] \notin valid THEN "401"
                     ELSE IF t[2] = "ask" THEN "ok"
                     ELSE IF sent[a] = client[t] /\ reply[a] = "later" THEN "found"
                     ELSE "nothing"
       IN /\ pc' = [pc EXCEPT ![t] = answer]
          /\ sent' = IF answer = "ok" THEN [sent EXCEPT ![a] = client[t]] ELSE sent
    /\ UNCHANGED <<session, failed, client, again, replies, outcome, valid, issued,
                   reply, expired, wasted, delivered>>

Entries(cache) == {cache[i] : i \in 1..Len(cache)}

(* A mutant of Pruned: the size is not bounded.                            *)
PrunedByAge(entries) ==
    {SubSeq(entries, k, Len(entries)) :
        k \in {k \in 1..(Len(entries) + 1) :
                  \A i \in 1..(k - 1) :
                     pc[<<entries[i], "ask">>] \notin {"flight", "ok"}}}

(* _prune_early_replies: entries older than a minute, which no request in  *)
(* flight is waiting for, and then the oldest ones beyond the size.        *)
Pruned(entries) ==
    {SubSeq(entries, k, Len(entries)) :
        k \in {k \in 1..(Len(entries) + 1) :
                  /\ Len(entries) - k + 1 <= MaxEarly
                  /\ \/ k = 1 \/ Len(entries) - k + 1 = MaxEarly
                     \/ \A i \in 1..(k - 1) :
                           pc[<<entries[i], "ask">>] \notin {"flight", "ok"}}}

(* Of these entries only the kept ones stay in the cache.                  *)
Keep(kept, entries) ==
    /\ early' = kept
    /\ evicted' = evicted \cup (Entries(entries) \ Entries(kept))

(* The cache is pruned before the reply is looked up and after it is added.*)
Cache(a) ==
    \E kept \in Pruned(early) :
        \/ a \in Entries(kept) /\ Keep(kept, early)
        \/ /\ a \notin Entries(kept)
           /\ \E left \in Pruned(Append(kept, a)) : Keep(left, Append(early, a))

(* _resolve_reply: the reply to a is for the pending ask, or is cached.    *)
Resolve(a) ==
    \/ /\ future[a] = "pending"
       /\ future' = [future EXCEPT ![a] = "done"]
       /\ UNCHANGED <<early, evicted>>
    \/ /\ future[a] # "pending"
       /\ Cache(a)
       /\ UNCHANGED future

(* A mutant of RegisterPending: the cache is not consulted.                *)
RegisterPendingOnly(a) ==
    /\ future' = [future EXCEPT ![a] = "pending"]
    /\ UNCHANGED <<early, evicted>>

(* _register_pending_reply: perhaps the reply was there first.             *)
RegisterPending(a) ==
    \E kept \in Pruned(early) :
        \/ \E i \in 1..Len(kept) :
              /\ kept[i] = a
              /\ future' = [future EXCEPT ![a] = "done"]
              /\ early' = SubSeq(kept, 1, i - 1) \o SubSeq(kept, i + 1, Len(kept))
              /\ evicted' = evicted \cup (Entries(early) \ Entries(kept))
        \/ /\ a \notin Entries(kept)
           /\ future' = [future EXCEPT ![a] = "pending"]
           /\ Keep(kept, early)

(* The message is sent: the ask starts its task and waits for the reply.   *)
Sent(a) ==
    LET t == <<a, "ask">>
    IN /\ pc[t] = "ok"
       /\ RegisterPending(a)
       /\ pc' = [pc EXCEPT ![t] = "waiting", ![<<a, "poll">>] = "sleeping"]
       /\ failed' = [failed EXCEPT ![t] = 0]
       /\ client' = [client EXCEPT ![t] = 0]
       /\ again' = [again EXCEPT ![t] = FALSE]
       /\ UNCHANGED <<session, outcome, broker, wasted, delivered>>

(* The polling task has its answer: it ends with the reply, or sleeps.     *)
Polled(a) ==
    LET t == <<a, "poll">>
    IN /\ pc[t] \in {"found", "nothing"}
       /\ IF pc[t] = "found" THEN Resolve(a) ELSE UNCHANGED replies
       /\ Leave(t, IF future'[a] = "done" THEN "done" ELSE "sleeping")
       /\ UNCHANGED <<session, outcome, broker, wasted, delivered>>

(* The reply is there, or the time is up; the finally clause cancels the   *)
(* polling task, at whatever await it is, and awaits it: if the task has   *)
(* failed, its exception replaces the result.                              *)
Finish(a) ==
    LET t == <<a, "poll">>
    IN /\ pc[<<a, "ask">>] = "waiting"
       /\ future[a] \in {"pending", "done"}
       /\ outcome' = [outcome EXCEPT ![a] =
              IF pc[t] = "failed" THEN "error"
              ELSE IF future[a] = "done" THEN "reply" ELSE "timeout"]
       /\ future' = [future EXCEPT ![a] = IF @ = "done" THEN "done" ELSE "cancelled"]
       /\ pc' = [pc EXCEPT ![<<a, "ask">>] = "done",
                           ![t] = IF @ \in {"failed", "done"} THEN @ ELSE "cancelled"]
       /\ failed' = [failed EXCEPT ![t] = 0]
       /\ client' = [client EXCEPT ![t] = 0]
       /\ again' = [again EXCEPT ![t] = FALSE]
       /\ Release(t)
       /\ wasted' = IF pc[t] = "registered" THEN wasted + 1 ELSE wasted
       /\ UNCHANGED <<token, http, httpClosed, ws, creds, early, evicted, broker, delivered>>

(* A reply comes over the WebSocket, to the agent that asked.              *)
Dispatch(a) ==
    /\ ws # 0 /\ ws = sent[a] /\ reply[a] # "none"
    /\ Resolve(a)
    /\ delivered' = delivered \cup {a}
    /\ UNCHANGED <<session, pc, failed, client, again, outcome, broker, wasted>>

-----------------------------------------------------------------------------
(* The world around: the peer replies, in the second of the question or    *)
(* later; the token is replaced elsewhere; the link breaks; the program    *)
(* connects (again).                                                       *)
PeerReplies(a) ==
    /\ sent[a] # 0 /\ reply[a] = "none"
    /\ \E second \in {"same", "later"} : reply' = [reply EXCEPT ![a] = second]
    /\ UNCHANGED <<session, pc, failed, client, again, replies, outcome, valid,
                   issued, sent, expired, wasted, delivered>>

Expire ==
    /\ token \in valid /\ expired < MaxExpired
    /\ valid' = valid \ {token}
    /\ expired' = expired + 1
    /\ UNCHANGED <<session, pc, failed, client, again, replies, outcome, issued,
                   sent, reply, wasted, delivered>>

LinkBreaks ==
    /\ ws # 0 /\ ws' = 0
    /\ UNCHANGED <<token, http, httpClosed, creds, lock, pc, failed, client,
                   again, replies, outcome, broker, wasted, delivered>>

(* connect(): a new client replaces the old one.                           *)
Connect ==
    /\ ws = 0 /\ token \in valid
    /\ ws' = token /\ http' = token /\ httpClosed' = FALSE
    /\ UNCHANGED <<token, creds, lock, pc, failed, client, again, replies,
                   outcome, broker, wasted, delivered>>

TaskStep(t) ==
    \/ Refused(t) \/ Acquire(t) \/ Close(t) \/ Drop(t) \/ ServeRegister(t)
    \/ Registered(t) \/ Break(t) \/ Serve(t)

AskStep(a) == Ask(a) \/ Poll(a) \/ Sent(a) \/ Polled(a) \/ Finish(a)

World ==
    \/ \E a \in Asks : PeerReplies(a) \/ Dispatch(a)
    \/ Expire \/ LinkBreaks \/ Connect

Next == (\E t \in Tasks : TaskStep(t)) \/ (\E a \in Asks : AskStep(a)) \/ World

Spec == Init /\ [][Next]_vars

-----------------------------------------------------------------------------
(* Properties                                                              *)

TypeOK ==
    /\ {token, http, ws, creds} \subseteq Tokens \cup {0}
    /\ httpClosed \in BOOLEAN
    /\ lock \in Tasks \cup {None}
    /\ pc \in [Tasks -> {"idle", "flight", "401", "lock", "closing", "closed",
                         "registering", "registered", "waiting", "sleeping", "done",
                         "failed", "cancelled"} \cup Answers]
    /\ \A t \in Tasks : {failed[t], client[t]} \subseteq Tokens \cup {0}
    /\ again \in [Tasks -> BOOLEAN]
    /\ future \in [Asks -> {"none", "pending", "done", "cancelled"}]
    /\ Len(early) <= MaxEarly /\ Entries(early) \subseteq Asks
    /\ outcome \in [Asks -> {"none", "reply", "timeout", "error"}]
    /\ valid \subseteq 1..issued /\ issued \in Tokens
    /\ \A a \in Asks : sent[a] \in Tokens \cup {0}
    /\ reply \in [Asks -> {"none", "same", "later"}]
    /\ wasted \in Nat /\ expired \in Nat
    /\ delivered \subseteq Asks /\ evicted \subseteq Asks

(* Whatever number of operations fail with one token, they register one    *)
(* new agent; only a registration whose answer is lost, or whose task is   *)
(* cancelled, may have to be repeated.                                     *)
OneRegistrationPerToken == issued <= 1 + expired + wasted

(* No operation can start with another token than the one it would name    *)
(* as failed: else its error 401 replaces a token that is good.            *)
ClientIsCurrent == http # 0 /\ ~ httpClosed => http = token

(* A reply that the WebSocket has brought is not forgotten: it resolves    *)
(* the ask even if it came before the ask knew the id of its message,      *)
(* unless the cache of early replies overflowed.                           *)
EarlyRepliesCount ==
    \A a \in delivered \ evicted : future[a] # "pending"

(* agent.py:194, "Send a message and wait for a reply that references it": *)
(* an ask whose reply has come returns it.                                 *)
AskReturnsReply ==
    \A a \in Asks : pc[<<a, "ask">>] = "done" /\ future[a] = "done" =>
        outcome[a] = "reply"
=============================================================================
