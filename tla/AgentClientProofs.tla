-------------------------- MODULE AgentClientProofs --------------------------
(***************************************************************************)
(* The SDK's agent keeps its safety properties, for any number of asks, of *)
(* tokens that expire and of registrations, and any size of the cache of   *)
(* early replies.                                                          *)
(***************************************************************************)
EXTENDS AgentClient, SequenceTheorems, TLAPS

Places == {"idle", "flight", "401", "lock", "closing", "closed", "registering",
           "registered", "waiting", "sleeping", "done", "failed", "cancelled"} \cup Answers

(* Places inside the lock.                                                 *)
Locked == {"closing", "closed", "registering", "registered"}

(* Places of an ask whose message is sent and whose future exists.         *)
After == {"waiting", "done"}

ClientType ==
    /\ {token, http, ws, creds} \subseteq 0..issued
    /\ httpClosed \in BOOLEAN
    /\ lock \in Tasks \cup {None}
    /\ pc \in [Tasks -> Places]
    /\ failed \in [Tasks -> 0..issued]
    /\ client \in [Tasks -> 0..issued]
    /\ again \in [Tasks -> BOOLEAN]
    /\ valid \subseteq 1..issued /\ issued \in Tokens
    /\ wasted \in Nat /\ expired \in Nat

ReplyType ==
    /\ future \in [Asks -> {"none", "pending", "done", "cancelled"}]
    /\ early \in Seq(Asks) /\ Len(early) <= MaxEarly
    /\ outcome \in [Asks -> {"none", "reply", "timeout", "error"}]
    /\ sent \in [Asks -> 0..issued]
    /\ reply \in [Asks -> {"none", "same", "later"}]
    /\ delivered \subseteq Asks /\ evicted \subseteq Asks

(* The lock is held by the one task that is inside it.                     *)
LockInv == \A t \in Tasks : pc[t] \in Locked <=> lock = t

(* What a task at p knows: the token that failed it is the one that its    *)
(* request carried, never none, and is refused; while the lock is held the *)
(* agent has no token that is accepted, and a token just issued is.        *)
Knows(p, second, cl, fa, tok, val) ==
    /\ p = "flight" /\ ~ second => cl = fa /\ fa # 0
    /\ p = "401" /\ ~ second => fa # 0 /\ fa \notin val
    /\ p = "lock" => fa # 0 /\ fa \notin val
    /\ p \in Locked => tok \notin val
    /\ p = "registered" => cl \in val

KnowsInv ==
    \A t \in Tasks : Knows(pc[t], again[t], client[t], failed[t], token, valid)

(* Each registration is paid for by a token that expired, or by one whose  *)
(* answer was lost; without a token, and with none on its way, one more is *)
(* paid for.                                                               *)
CountInv ==
    /\ issued <= 1 + expired + wasted
    /\ token \notin valid /\ (\A t \in Tasks : pc[t] # "registered") =>
          issued <= expired + wasted

(* The polling task of an ask starts, and its future is made, when the     *)
(* message is sent.                                                        *)
PollInv ==
    \A a \in Asks : pc[<<a, "ask">>] \notin After => pc[<<a, "poll">>] = "idle"

FutureInv ==
    \A a \in Asks : future[a] = "none" <=> pc[<<a, "ask">>] \notin After

(* A reply that was delivered before the future was made is in the cache.  *)
CacheInv ==
    \A a \in delivered \ evicted :
        /\ future[a] # "pending"
        /\ future[a] = "none" => a \in Entries(early)

ClientInv ==
    ClientType /\ LockInv /\ KnowsInv /\ CountInv /\ ClientIsCurrent /\ PollInv

ReplyInv == ReplyType /\ FutureInv /\ CacheInv

-----------------------------------------------------------------------------
LEMMA TasksAre ==
  /\ \A a \in Asks : <<a, "ask">> \in Tasks /\ <<a, "poll">> \in Tasks
  /\ \A a, b \in Asks : /\ <<a, "ask">> # <<b, "poll">>
                        /\ <<a, "ask">> = <<b, "ask">> => a = b
                        /\ <<a, "poll">> = <<b, "poll">> => a = b
  /\ \A t \in Tasks : \E a \in Asks : t = <<a, "ask">> \/ t = <<a, "poll">>
  /\ None \notin Tasks
  BY NoneIsNoTask DEF Tasks

(* One task moves, which no polling task does before it has begun, and no  *)
(* asking task into or out of the places after the message was sent.       *)
LEMMA PollKept ==
  ASSUME pc \in [Tasks -> Places], PollInv, NEW t \in Tasks, NEW x \in Places,
         pc' = [pc EXCEPT ![t] = x],
         \A a \in Asks : /\ t = <<a, "ask">> => pc[t] \notin After /\ x \notin After
                         /\ t = <<a, "poll">> => pc[t] # "idle"
  PROVE  /\ PollInv'
         /\ \A a \in Asks : pc'[<<a, "ask">>] \in After <=> pc[<<a, "ask">>] \in After
  <1> SUFFICES ASSUME NEW a \in Asks
               PROVE  /\ pc'[<<a, "ask">>] \notin After => pc'[<<a, "poll">>] = "idle"
                      /\ pc'[<<a, "ask">>] \in After <=> pc[<<a, "ask">>] \in After
    BY DEF PollInv
  <1>1. /\ <<a, "ask">> \in Tasks /\ <<a, "poll">> \in Tasks /\ <<a, "ask">> # <<a, "poll">>
        /\ pc[<<a, "ask">>] \notin After => pc[<<a, "poll">>] = "idle"
    BY TasksAre DEF PollInv
  <1>2. CASE t = <<a, "ask">>
    BY <1>1, <1>2
  <1>3. CASE t = <<a, "poll">>
    BY <1>1, <1>3
  <1>4. CASE t # <<a, "ask">> /\ t # <<a, "poll">>
    BY <1>1, <1>4
  <1> QED
    BY <1>2, <1>3, <1>4

(* The same for a task between its beginning and its end.                  *)
LEMMA PollKeptWithin ==
  ASSUME pc \in [Tasks -> Places], PollInv, NEW t \in Tasks, NEW x \in Places \ After,
         pc' = [pc EXCEPT ![t] = x],
         pc[t] \notin After \cup {"idle"}
  PROVE  /\ PollInv'
         /\ \A a \in Asks : pc'[<<a, "ask">>] \in After <=> pc[<<a, "ask">>] \in After
  BY PollKept

(* One task moves, and the lock with it.                                   *)
LEMMA LockKept ==
  ASSUME pc \in [Tasks -> Places], LockInv, NEW t \in Tasks, NEW x \in Places,
         pc' = [pc EXCEPT ![t] = x],
         \/ lock' = lock /\ (x \in Locked <=> pc[t] \in Locked)
         \/ lock = None /\ lock' = t /\ x \in Locked
         \/ lock' = (IF lock = t THEN None ELSE lock) /\ x \notin Locked
  PROVE  LockInv'
  <1> SUFFICES ASSUME NEW u \in Tasks
               PROVE  pc'[u] \in Locked <=> lock' = u
    BY DEF LockInv
  <1>1. u # None /\ t # None
    BY TasksAre
  <1>2. pc[u] \in Locked <=> lock = u
    BY DEF LockInv
  <1>3. pc'[t] = x /\ (u # t => pc'[u] = pc[u])
    OBVIOUS
  <1>4. pc[t] \in Locked <=> lock = t
    BY DEF LockInv
  <1> QED
    BY <1>1, <1>2, <1>3, <1>4

(* Replies are kept by a step that does not touch them.                    *)
LEMMA RepliesKept ==
  ASSUME ReplyInv, issued \in Nat, issued' \in Nat, issued <= issued',
         UNCHANGED <<replies, outcome, delivered>>,
         sent' \in [Asks -> 0..issued'], reply' \in [Asks -> {"none", "same", "later"}],
         \A a \in Asks : pc'[<<a, "ask">>] \in After <=> pc[<<a, "ask">>] \in After
  PROVE  ReplyInv'
  <1>1. UNCHANGED <<future, early, evicted, outcome, delivered>>
    BY DEF replies
  <1>2. ReplyType'
    BY <1>1 DEF ReplyInv, ReplyType
  <1>3. FutureInv'
    BY <1>1 DEF ReplyInv, FutureInv
  <1>4. CacheInv'
    BY <1>1 DEF ReplyInv, CacheInv, Entries
  <1> QED
    BY <1>2, <1>3, <1>4 DEF ReplyInv

-----------------------------------------------------------------------------
(* The steps of _with_reauth keep the invariant of the client              *)

LEMMA NumbersAre ==
  ASSUME ClientType
  PROVE  /\ issued \in Nat \ {0} /\ issued \in 1..MaxTokens /\ MaxTokens \in Nat
         /\ token \in 0..issued /\ http \in 0..issued /\ 0 \in 0..issued /\ 0 \notin valid
         /\ \A t \in Tasks : client[t] \in 0..issued /\ failed[t] \in 0..issued
  BY SizesAreNat DEF ClientType, Tokens

(* A call of operation() either fails at once or carries the agent's token.*)
LEMMA RequestIs ==
  ASSUME NEW t \in Tasks, NEW tok, NEW cl, NEW shut \in BOOLEAN,
         cl # 0 /\ ~ shut => cl = tok,
         Request(t, tok, cl, shut)
  PROVE  \E x \in {"failed", "flight"} :
            /\ pc' = [pc EXCEPT ![t] = x]
            /\ x = "failed" => http' = cl /\ client' = client
            /\ x = "flight" => /\ ~ shut /\ http' = tok /\ tok # 0
                               /\ client' = [client EXCEPT ![t] = tok]
  <1>1. CASE shut \/ (cl = 0 /\ tok = 0)
    <2>1. pc' = [pc EXCEPT ![t] = "failed"] /\ http' = cl /\ client' = client
      BY <1>1 DEF Request
    <2> QED
      BY <2>1
  <1>2. CASE ~ (shut \/ (cl = 0 /\ tok = 0))
    <2>1. /\ pc' = [pc EXCEPT ![t] = "flight"]
          /\ http' = IF cl = 0 THEN tok ELSE cl
          /\ client' = [client EXCEPT ![t] = http']
      BY <1>2 DEF Request
    <2>2. http' = tok /\ tok # 0
      BY <1>2, <2>1
    <2> QED
      BY <1>2, <2>1, <2>2
  <1> QED
    BY <1>1, <1>2

LEMMA FirstCallKeeps ==
  ASSUME ClientInv, NEW t \in Tasks, FirstCall(t),
         pc[t] \in {"idle", "sleeping"},
         \A a \in Asks : t = <<a, "poll">> => pc[t] # "idle"
  PROVE  /\ ClientInv'
         /\ \A a \in Asks : pc'[<<a, "ask">>] \in After <=> pc[<<a, "ask">>] \in After
  <1>1. ClientType /\ LockInv /\ KnowsInv /\ CountInv /\ ClientIsCurrent /\ PollInv
    BY DEF ClientInv
  <1>2. /\ failed' = [failed EXCEPT ![t] = token]
        /\ again' = [again EXCEPT ![t] = FALSE]
        /\ Request(t, token, http, httpClosed)
        /\ UNCHANGED <<token, httpClosed, ws, creds, lock, valid, issued, expired, wasted>>
    BY DEF FirstCall, broker
  <1>3. httpClosed \in BOOLEAN /\ (http # 0 /\ ~ httpClosed => http = token)
    BY <1>1 DEF ClientType, ClientIsCurrent
  <1>4. PICK x \in {"failed", "flight"} :
            /\ pc' = [pc EXCEPT ![t] = x]
            /\ x = "failed" => http' = http /\ client' = client
            /\ x = "flight" => /\ ~ httpClosed /\ http' = token /\ token # 0
                               /\ client' = [client EXCEPT ![t] = token]
    BY <1>2, <1>3, RequestIs
  <1>5. x \in Places \ After /\ pc \in [Tasks -> Places] /\ pc[t] \notin Locked /\ x \notin Locked
    BY <1>1 DEF Places, After, Locked, ClientType
  <1>6. ClientType'
    <2>1. failed' \in [Tasks -> 0..issued] /\ client' \in [Tasks -> 0..issued]
          /\ http' \in 0..issued
      BY <1>1, <1>2, <1>4, NumbersAre DEF ClientType
    <2>2. pc' \in [Tasks -> Places] /\ again' \in [Tasks -> BOOLEAN]
      BY <1>1, <1>2, <1>4, <1>5 DEF ClientType
    <2> QED
      BY <1>1, <1>2, <2>1, <2>2 DEF ClientType
  <1>7. LockInv'
    BY <1>1, <1>2, <1>4, <1>5, LockKept
  <1>8. KnowsInv'
    <2> SUFFICES ASSUME NEW u \in Tasks
                 PROVE  Knows(pc'[u], again'[u], client'[u], failed'[u], token, valid)
      BY <1>2 DEF KnowsInv
    <2>1. CASE u = t
      BY <1>1, <1>2, <1>4, <2>1 DEF Knows, Locked, ClientType
    <2>2. CASE u # t
      <3>1. /\ pc'[u] = pc[u] /\ again'[u] = again[u] /\ failed'[u] = failed[u]
            /\ client'[u] = client[u]
        BY <1>1, <1>2, <1>4, <2>2 DEF ClientType
      <3> QED
        BY <1>1, <3>1 DEF KnowsInv
    <2> QED
      BY <2>1, <2>2
  <1>9. CountInv'
    <2>1. pc[t] # "registered" /\ \A u \in Tasks : u # t => pc'[u] = pc[u]
      BY <1>4, <1>5 DEF Locked
    <2> QED
      BY <1>1, <1>2, <2>1 DEF CountInv
  <1>10. ClientIsCurrent'
    BY <1>2, <1>3, <1>4 DEF ClientIsCurrent
  <1>11. /\ PollInv'
         /\ \A a \in Asks : pc'[<<a, "ask">>] \in After <=> pc[<<a, "ask">>] \in After
    <2>1. pc[t] \notin After
      BY DEF After
    <2> QED
      BY <1>1, <1>4, <1>5, <2>1, PollKept
  <1> QED
    BY <1>6, <1>7, <1>8, <1>9, <1>10, <1>11 DEF ClientInv

(* One task moves, and nothing of the session or the broker changes.       *)
LEMMA AnyMoveKeeps ==
  ASSUME ClientInv, NEW t \in Tasks, NEW x \in Places \ Locked,
         \A a \in Asks : /\ t = <<a, "ask">> => pc[t] \notin After /\ x \notin After
                         /\ t = <<a, "poll">> => pc[t] # "idle",
         pc' = [pc EXCEPT ![t] = x],
         failed' \in [Tasks -> 0..issued], client' \in [Tasks -> 0..issued],
         again' \in [Tasks -> BOOLEAN],
         \A u \in Tasks : u # t => /\ failed'[u] = failed[u] /\ client'[u] = client[u]
                                   /\ again'[u] = again[u],
         Knows(x, again'[t], client'[t], failed'[t], token, valid),
         lock' = (IF lock = t THEN None ELSE lock),
         wasted' = (IF pc[t] = "registered" THEN wasted + 1 ELSE wasted),
         UNCHANGED <<token, http, httpClosed, ws, creds, valid, issued, expired>>
  PROVE  /\ ClientInv'
         /\ \A a \in Asks : pc'[<<a, "ask">>] \in After <=> pc[<<a, "ask">>] \in After
  <1>1. ClientType /\ LockInv /\ KnowsInv /\ CountInv /\ ClientIsCurrent /\ PollInv
    BY DEF ClientInv
  <1>2. pc \in [Tasks -> Places] /\ x \notin Locked /\ x \in Places /\ x # "registered"
    BY <1>1 DEF ClientType, Locked
  <1>3. ClientType'
    <2>1. pc' \in [Tasks -> Places] /\ lock' \in Tasks \cup {None} /\ wasted' \in Nat
      BY <1>1, <1>2 DEF ClientType
    <2> QED
      BY <1>1, <2>1 DEF ClientType
  <1>4. LockInv'
    BY <1>1, <1>2, LockKept
  <1>5. KnowsInv'
    <2> SUFFICES ASSUME NEW u \in Tasks
                 PROVE  Knows(pc'[u], again'[u], client'[u], failed'[u], token, valid)
      BY DEF KnowsInv
    <2>1. CASE u = t
      BY <1>2, <2>1
    <2>2. CASE u # t
      <3>1. pc'[u] = pc[u]
        BY <1>2, <2>2
      <3> QED
        BY <1>1, <2>2, <3>1 DEF KnowsInv
    <2> QED
      BY <2>1, <2>2
  <1>6. CountInv'
    <2>1. \A u \in Tasks : u # t => pc'[u] = pc[u]
      OBVIOUS
    <2>2. {issued, wasted, expired} \subseteq Nat
      BY <1>1, NumbersAre DEF ClientType
    <2>3. CASE pc[t] = "registered"
      BY <1>1, <2>2, <2>3 DEF CountInv
    <2>4. CASE pc[t] # "registered"
      BY <1>1, <2>1, <2>4 DEF CountInv
    <2> QED
      BY <2>3, <2>4
  <1>7. ClientIsCurrent'
    BY <1>1 DEF ClientIsCurrent
  <1> QED
    BY <1>1, <1>2, <1>3, <1>4, <1>5, <1>6, <1>7, PollKept DEF ClientInv

LEMMA MoveKeeps ==
  ASSUME ClientInv, NEW t \in Tasks, NEW x \in Places \ (After \cup Locked),
         pc[t] \notin After \cup {"idle"},
         pc' = [pc EXCEPT ![t] = x],
         failed' \in [Tasks -> 0..issued], client' \in [Tasks -> 0..issued],
         again' \in [Tasks -> BOOLEAN],
         \A u \in Tasks : u # t => /\ failed'[u] = failed[u] /\ client'[u] = client[u]
                                   /\ again'[u] = again[u],
         Knows(x, again'[t], client'[t], failed'[t], token, valid),
         lock' = (IF lock = t THEN None ELSE lock),
         wasted' = (IF pc[t] = "registered" THEN wasted + 1 ELSE wasted),
         UNCHANGED <<token, http, httpClosed, ws, creds, valid, issued, expired>>
  PROVE  /\ ClientInv'
         /\ \A a \in Asks : pc'[<<a, "ask">>] \in After <=> pc[<<a, "ask">>] \in After
  <1>1. /\ x \in Places \ Locked
        /\ \A a \in Asks : /\ t = <<a, "ask">> => pc[t] \notin After /\ x \notin After
                           /\ t = <<a, "poll">> => pc[t] # "idle"
    OBVIOUS
  <1> QED
    BY <1>1, AnyMoveKeeps

LEMMA LeaveIs ==
  ASSUME ClientType, NEW t \in Tasks, NEW x, Leave(t, x)
  PROVE  /\ pc' = [pc EXCEPT ![t] = x]
         /\ failed' \in [Tasks -> 0..issued] /\ client' \in [Tasks -> 0..issued]
         /\ again' \in [Tasks -> BOOLEAN]
         /\ \A u \in Tasks : u # t => /\ failed'[u] = failed[u] /\ client'[u] = client[u]
                                      /\ again'[u] = again[u]
         /\ failed'[t] = 0 /\ client'[t] = 0 /\ again'[t] = FALSE
  BY NumbersAre DEF Leave, ClientType

(* A task that leaves _with_reauth knows nothing that could be wrong.      *)
LEMMA KnowsNothing ==
  ASSUME NEW x, x \notin {"flight", "401", "lock"} \cup Locked,
         NEW second, NEW cl, NEW fa, NEW tok, NEW val
  PROVE  Knows(x, second, cl, fa, tok, val)
  BY DEF Knows, Locked

LEMMA RefusedKeeps ==
  ASSUME ClientInv, NEW t \in Tasks, Refused(t)
  PROVE  /\ ClientInv'
         /\ \A a \in Asks : pc'[<<a, "ask">>] \in After <=> pc[<<a, "ask">>] \in After
  <1>1. /\ pc[t] = "401" /\ wasted' = wasted /\ ClientType
        /\ UNCHANGED <<token, http, httpClosed, ws, creds, lock, valid, issued, expired>>
    BY DEF Refused, session, broker, ClientInv
  <1>2. lock # t /\ pc[t] \notin After \cup {"idle"}
    BY <1>1 DEF ClientInv, LockInv, Locked, After
  <1>3. CASE again[t] /\ Leave(t, "failed")
    <2>1. "failed" \in Places \ (After \cup Locked) /\ "failed" \notin {"flight", "401", "lock"} \cup Locked
      BY DEF Places, After, Locked
    <2> QED
      BY <1>1, <1>2, <1>3, <2>1, LeaveIs, KnowsNothing, MoveKeeps
  <1>4. CASE ~ again[t] /\ pc' = [pc EXCEPT ![t] = "lock"] /\ client' = [client EXCEPT ![t] = 0]
             /\ UNCHANGED <<failed, again>>
    <2>1. "lock" \in Places \ (After \cup Locked)
      BY DEF Places, After, Locked
    <2>2. failed[t] # 0 /\ failed[t] \notin valid
      BY <1>1, <1>4 DEF ClientInv, KnowsInv, Knows
    <2>3. Knows("lock", again'[t], client'[t], failed'[t], token, valid)
      BY <1>4, <2>2 DEF Knows, Locked
    <2>4. /\ failed' \in [Tasks -> 0..issued] /\ client' \in [Tasks -> 0..issued]
          /\ again' \in [Tasks -> BOOLEAN]
          /\ \A u \in Tasks : u # t => client'[u] = client[u]
      BY <1>1, <1>4, NumbersAre DEF ClientType
    <2> QED
      BY <1>1, <1>2, <1>4, <2>1, <2>3, <2>4, MoveKeeps
  <1> QED
    BY <1>3, <1>4 DEF Refused

LEMMA BreakKeeps ==
  ASSUME ClientInv, NEW t \in Tasks, Break(t)
  PROVE  /\ ClientInv'
         /\ \A a \in Asks : pc'[<<a, "ask">>] \in After <=> pc[<<a, "ask">>] \in After
  <1>1. /\ ClientType /\ Leave(t, "failed")
        /\ pc[t] \notin After \cup {"idle"}
        /\ lock' = (IF lock = t THEN None ELSE lock)
        /\ wasted' = (IF pc[t] = "registered" THEN wasted + 1 ELSE wasted)
        /\ UNCHANGED <<token, http, httpClosed, ws, creds, valid, issued, expired>>
    BY DEF Break, Release, broker, ClientInv, After, Answers
  <1>2. "failed" \in Places \ (After \cup Locked) /\ "failed" \notin {"flight", "401", "lock"} \cup Locked
    BY DEF Places, After, Locked
  <1> QED
    BY <1>1, <1>2, LeaveIs, KnowsNothing, MoveKeeps

LEMMA ServeKeeps ==
  ASSUME ClientInv, NEW t \in Tasks, Serve(t)
  PROVE  /\ ClientInv'
         /\ \A a \in Asks : pc'[<<a, "ask">>] \in After <=> pc[<<a, "ask">>] \in After
  <1>1. PICK x \in {"401"} \cup Answers : pc' = [pc EXCEPT ![t] = x] /\ (x = "401" => client[t] \notin valid)
    <2> DEFINE x == IF client[t] \notin valid THEN "401"
                    ELSE IF t[2] = "ask" THEN "ok"
                    ELSE IF sent[t[1]] = client[t] /\ reply[t[1]] = "later" THEN "found"
                    ELSE "nothing"
    <2>1. pc' = [pc EXCEPT ![t] = x]
      BY DEF Serve
    <2>2. x \in {"401"} \cup Answers /\ (x = "401" => client[t] \notin valid)
      BY DEF Answers
    <2> HIDE DEF x
    <2> QED
      BY <2>1, <2>2
  <1>2. /\ pc[t] = "flight" /\ wasted' = wasted /\ ClientType
        /\ UNCHANGED <<token, http, httpClosed, ws, creds, lock, valid, issued, expired,
                       failed, client, again>>
    BY DEF Serve, session, ClientInv
  <1>3. lock # t /\ pc[t] \notin After \cup {"idle"}
    BY <1>2 DEF ClientInv, LockInv, Locked, After
  <1>4. x \in Places \ (After \cup Locked)
    BY DEF Places, After, Locked, Answers
  <1>5. Knows(x, again'[t], client'[t], failed'[t], token, valid)
    <2>1. ~ again[t] => client[t] = failed[t] /\ failed[t] # 0
      BY <1>2 DEF ClientInv, KnowsInv, Knows
    <2> QED
      BY <1>1, <1>2, <2>1 DEF Knows, Answers, Locked
  <1> QED
    BY <1>1, <1>2, <1>3, <1>4, <1>5, MoveKeeps DEF ClientType

(* What the steps inside the lock have in common.                          *)
LEMMA HolderMoves ==
  ASSUME ClientInv, NEW t \in Tasks, NEW x \in Locked, lock = t,
         pc' = [pc EXCEPT ![t] = x], lock' = lock
  PROVE  /\ LockInv' /\ PollInv'
         /\ \A a \in Asks : pc'[<<a, "ask">>] \in After <=> pc[<<a, "ask">>] \in After
         /\ pc' \in [Tasks -> Places] /\ pc'[t] = x
         /\ \A u \in Tasks : u # t => pc'[u] = pc[u] /\ pc[u] \notin Locked
  <1>1. pc \in [Tasks -> Places] /\ LockInv /\ PollInv
    BY DEF ClientInv, ClientType
  <1>2. pc[t] \in Locked
    BY <1>1 DEF LockInv
  <1>3. x \in Places \ After /\ x \in Places /\ pc[t] \notin After \cup {"idle"}
    BY <1>2 DEF Locked, Places, After
  <1> QED
    BY <1>1, <1>2, <1>3, LockKept, PollKeptWithin DEF LockInv

LEMMA AcquireKeeps ==
  ASSUME ClientInv, NEW t \in Tasks, Acquire(t)
  PROVE  /\ ClientInv'
         /\ \A a \in Asks : pc'[<<a, "ask">>] \in After <=> pc[<<a, "ask">>] \in After
  <1>1. /\ pc[t] = "lock" /\ lock = None /\ ClientType
        /\ UNCHANGED <<httpClosed, ws, failed, valid, issued, expired, wasted>>
    BY DEF Acquire, broker, ClientInv
  <1>2. /\ pc[t] \notin After \cup {"idle"} /\ pc[t] \notin Locked /\ pc[t] # "registered"
        /\ t # None
    BY <1>1, TasksAre DEF Locked, After
  <1>3. CASE /\ again' = [again EXCEPT ![t] = TRUE]
             /\ Request(t, token, http, httpClosed)
             /\ UNCHANGED <<token, creds, lock>>
    <2>1. httpClosed \in BOOLEAN /\ (http # 0 /\ ~ httpClosed => http = token)
      BY <1>1 DEF ClientInv, ClientType, ClientIsCurrent
    <2>2. PICK x \in {"failed", "flight"} :
            /\ pc' = [pc EXCEPT ![t] = x]
            /\ x = "failed" => http' = http /\ client' = client
            /\ x = "flight" => /\ ~ httpClosed /\ http' = token /\ token # 0
                               /\ client' = [client EXCEPT ![t] = token]
      BY <1>3, <2>1, RequestIs
    <2>3. x \in Places \ After /\ x \in Places /\ x \notin Locked /\ pc \in [Tasks -> Places]
      BY <1>1 DEF Places, After, Locked, ClientType
    <2>4. LockInv'
      BY <1>1, <1>2, <1>3, <2>2, <2>3, LockKept DEF ClientInv
    <2>5. /\ PollInv'
          /\ \A a \in Asks : pc'[<<a, "ask">>] \in After <=> pc[<<a, "ask">>] \in After
      BY <1>2, <2>2, <2>3, PollKeptWithin DEF ClientInv
    <2>6. ClientType'
      <3>1. client' \in [Tasks -> 0..issued] /\ http' \in 0..issued
        BY <1>1, <2>2, NumbersAre DEF ClientType
      <3>2. pc' \in [Tasks -> Places] /\ again' \in [Tasks -> BOOLEAN]
        BY <1>1, <1>3, <2>2, <2>3 DEF ClientType
      <3> QED
        BY <1>1, <1>3, <3>1, <3>2 DEF ClientType
    <2>7. KnowsInv'
      <3> SUFFICES ASSUME NEW u \in Tasks
                   PROVE  Knows(pc'[u], again'[u], client'[u], failed'[u], token, valid)
        BY <1>1, <1>3 DEF KnowsInv
      <3>1. CASE u = t
        BY <1>1, <1>3, <2>2, <2>3, <3>1 DEF Knows, Locked, ClientType
      <3>2. CASE u # t
        <4>1. pc'[u] = pc[u] /\ again'[u] = again[u] /\ client'[u] = client[u] /\ failed'[u] = failed[u]
          BY <1>1, <1>3, <2>2, <2>3, <3>2 DEF ClientType
        <4> QED
          BY <4>1 DEF ClientInv, KnowsInv
      <3> QED
        BY <3>1, <3>2
    <2>8. CountInv'
      <3>1. \A u \in Tasks : u # t => pc'[u] = pc[u]
        BY <2>2, <2>3
      <3> QED
        BY <1>1, <1>2, <1>3, <3>1 DEF ClientInv, CountInv
    <2>9. ClientIsCurrent'
      BY <1>1, <1>3, <2>1, <2>2 DEF ClientIsCurrent
    <2> QED
      BY <2>4, <2>5, <2>6, <2>7, <2>8, <2>9 DEF ClientInv
  <1>4. CASE ~ Superseded(t) /\ lock' = t /\ Forget /\ pc' = [pc EXCEPT ![t] = "closing"]
             /\ UNCHANGED <<again, http, client>>
    <2>1. token \notin valid /\ token' = token /\ creds' = 0
      BY <1>1, <1>4 DEF Superseded, Forget, ClientInv, KnowsInv, Knows
    <2>2. "closing" \in Places \ After /\ "closing" \in Places /\ "closing" \in Locked
          /\ pc \in [Tasks -> Places]
      BY <1>1 DEF Places, After, Locked, ClientType
    <2>3. LockInv'
      BY <1>1, <1>2, <1>4, <2>2, LockKept DEF ClientInv
    <2>4. /\ PollInv'
          /\ \A a \in Asks : pc'[<<a, "ask">>] \in After <=> pc[<<a, "ask">>] \in After
      BY <1>2, <1>4, <2>2, PollKeptWithin DEF ClientInv
    <2>5. ClientType'
      BY <1>1, <1>4, <2>1, <2>2, NumbersAre DEF ClientType
    <2>6. KnowsInv'
      <3> SUFFICES ASSUME NEW u \in Tasks
                   PROVE  Knows(pc'[u], again[u], client[u], failed[u], token, valid)
        BY <1>1, <1>4, <2>1 DEF KnowsInv
      <3>1. CASE u = t
        BY <1>4, <2>1, <2>2, <3>1 DEF Knows
      <3>2. CASE u # t
        BY <1>4, <2>2, <3>2 DEF ClientInv, KnowsInv
      <3> QED
        BY <3>1, <3>2
    <2>7. CountInv'
      <3>1. \A u \in Tasks : u # t => pc'[u] = pc[u]
        BY <1>4, <2>2
      <3> QED
        BY <1>1, <1>2, <1>4, <2>1, <3>1 DEF ClientInv, CountInv
    <2>8. ClientIsCurrent'
      BY <1>1, <1>4, <2>1 DEF ClientInv, ClientIsCurrent
    <2> QED
      BY <2>3, <2>4, <2>5, <2>6, <2>7, <2>8 DEF ClientInv
  <1> QED
    BY <1>3, <1>4 DEF Acquire

LEMMA CloseKeeps ==
  ASSUME ClientInv, NEW t \in Tasks, Close(t)
  PROVE  /\ ClientInv'
         /\ \A a \in Asks : pc'[<<a, "ask">>] \in After <=> pc[<<a, "ask">>] \in After
  <1>1. /\ pc[t] = "closing" /\ ws' = 0 /\ httpClosed' = (http # 0)
        /\ pc' = [pc EXCEPT ![t] = "closed"] /\ ClientType
        /\ UNCHANGED <<token, http, creds, lock, failed, client, again, valid, issued, expired, wasted>>
    BY DEF Close, broker, ClientInv
  <1>2. lock = t /\ "closed" \in Locked
    BY <1>1 DEF ClientInv, LockInv, Locked
  <1>3. /\ LockInv' /\ PollInv'
        /\ \A a \in Asks : pc'[<<a, "ask">>] \in After <=> pc[<<a, "ask">>] \in After
        /\ pc' \in [Tasks -> Places] /\ pc'[t] = "closed"
        /\ \A u \in Tasks : u # t => pc'[u] = pc[u] /\ pc[u] \notin Locked
    BY <1>1, <1>2, HolderMoves
  <1>4. ClientType'
    BY <1>1, <1>3, NumbersAre DEF ClientType
  <1>5. token \notin valid
    BY <1>1 DEF ClientInv, KnowsInv, Knows, Locked
  <1>6. KnowsInv'
    <2> SUFFICES ASSUME NEW u \in Tasks
                 PROVE  Knows(pc'[u], again[u], client[u], failed[u], token, valid)
      BY <1>1 DEF KnowsInv
    <2>1. CASE u = t
      BY <1>3, <1>5, <2>1 DEF Knows
    <2>2. CASE u # t
      BY <1>3, <2>2 DEF ClientInv, KnowsInv
    <2> QED
      BY <2>1, <2>2
  <1>7. CountInv'
    BY <1>1, <1>3 DEF ClientInv, CountInv
  <1>8. ClientIsCurrent'
    BY <1>1 DEF ClientIsCurrent
  <1> QED
    BY <1>3, <1>4, <1>6, <1>7, <1>8 DEF ClientInv

LEMMA DropKeeps ==
  ASSUME ClientInv, NEW t \in Tasks, Drop(t)
  PROVE  /\ ClientInv'
         /\ \A a \in Asks : pc'[<<a, "ask">>] \in After <=> pc[<<a, "ask">>] \in After
  <1>1. /\ pc[t] = "closed" /\ token' = 0 /\ http' = 0 /\ httpClosed' = FALSE
        /\ pc' = [pc EXCEPT ![t] = "registering"] /\ ClientType
        /\ UNCHANGED <<ws, creds, lock, failed, client, again, valid, issued, expired, wasted>>
    BY DEF Drop, broker, ClientInv
  <1>2. lock = t /\ "registering" \in Locked
    BY <1>1 DEF ClientInv, LockInv, Locked
  <1>3. /\ LockInv' /\ PollInv'
        /\ \A a \in Asks : pc'[<<a, "ask">>] \in After <=> pc[<<a, "ask">>] \in After
        /\ pc' \in [Tasks -> Places] /\ pc'[t] = "registering"
        /\ \A u \in Tasks : u # t => pc'[u] = pc[u] /\ pc[u] \notin Locked
    BY <1>1, <1>2, HolderMoves
  <1>4. ClientType' /\ 0 \notin valid
    BY <1>1, <1>3, NumbersAre DEF ClientType
  <1>5. token \notin valid
    BY <1>1 DEF ClientInv, KnowsInv, Knows, Locked
  <1>6. KnowsInv'
    <2> SUFFICES ASSUME NEW u \in Tasks
                 PROVE  Knows(pc'[u], again[u], client[u], failed[u], 0, valid)
      BY <1>1 DEF KnowsInv
    <2>1. CASE u = t
      BY <1>3, <1>4, <2>1 DEF Knows
    <2>2. CASE u # t
      BY <1>3, <2>2 DEF ClientInv, KnowsInv, Knows
    <2> QED
      BY <2>1, <2>2
  <1>7. CountInv'
    <2>1. (\A u \in Tasks : pc'[u] # "registered") => \A u \in Tasks : pc[u] # "registered"
      BY <1>1, <1>3
    <2> QED
      BY <1>1, <1>5, <2>1 DEF ClientInv, CountInv
  <1>8. ClientIsCurrent'
    BY <1>1 DEF ClientIsCurrent
  <1> QED
    BY <1>3, <1>4, <1>6, <1>7, <1>8 DEF ClientInv
LEMMA ServeRegisterKeeps ==
  ASSUME ClientInv, NEW t \in Tasks, ServeRegister(t)
  PROVE  /\ ClientInv'
         /\ \A a \in Asks : pc'[<<a, "ask">>] \in After <=> pc[<<a, "ask">>] \in After
  <1>1. /\ pc[t] = "registering" /\ issued' = issued + 1 /\ issued < MaxTokens
        /\ valid' = valid \cup {issued'}
        /\ client' = [client EXCEPT ![t] = issued']
        /\ pc' = [pc EXCEPT ![t] = "registered"] /\ ClientType
        /\ UNCHANGED <<token, http, httpClosed, ws, creds, lock, failed, again, expired, wasted>>
    BY DEF ServeRegister, session, ClientInv
  <1>2. lock = t /\ "registered" \in Locked /\ lock' = lock
    BY <1>1 DEF ClientInv, LockInv, Locked
  <1>3. /\ LockInv' /\ PollInv'
        /\ \A a \in Asks : pc'[<<a, "ask">>] \in After <=> pc[<<a, "ask">>] \in After
        /\ pc' \in [Tasks -> Places] /\ pc'[t] = "registered"
        /\ \A u \in Tasks : u # t => pc'[u] = pc[u] /\ pc[u] \notin Locked
    BY <1>1, <1>2, HolderMoves
  <1>4. /\ issued \in Nat /\ issued' \in 1..MaxTokens /\ issued' > issued
        /\ 0..issued \subseteq 0..issued' /\ issued' \notin 0..issued /\ issued' \in 0..issued'
        /\ 1..issued \subseteq 1..issued' /\ issued' \in 1..issued'
    BY <1>1, NumbersAre
  <1>5. ClientType'
    <2>1. client' \in [Tasks -> 0..issued'] /\ failed' \in [Tasks -> 0..issued']
      BY <1>1, <1>4 DEF ClientType
    <2>2. {token', http', ws', creds'} \subseteq 0..issued'
      BY <1>1, <1>4 DEF ClientType
    <2>3. valid' \subseteq 1..issued' /\ issued' \in Tokens
      BY <1>1, <1>4 DEF ClientType, Tokens
    <2> QED
      BY <1>1, <1>3, <2>1, <2>2, <2>3 DEF ClientType
  <1>6. token \notin valid /\ token \notin valid'
    <2>1. token \notin valid
      BY <1>1 DEF ClientInv, KnowsInv, Knows, Locked
    <2> QED
      BY <1>1, <1>4, <2>1, NumbersAre
  <1>7. KnowsInv'
    <2> SUFFICES ASSUME NEW u \in Tasks
                 PROVE  Knows(pc'[u], again[u], client'[u], failed[u], token, valid')
      BY <1>1 DEF KnowsInv
    <2>1. CASE u = t
      <3>1. client'[u] = issued'
        BY <1>1, <2>1 DEF ClientType
      <3> QED
        BY <1>1, <1>3, <1>6, <2>1, <3>1 DEF Knows
    <2>2. CASE u # t
      <3>1. client'[u] = client[u] /\ failed[u] \in 0..issued
        BY <1>1, <2>2, NumbersAre DEF ClientType
      <3>2. failed[u] \notin valid => failed[u] \notin valid'
        BY <1>1, <1>4, <3>1
      <3>3. Knows(pc[u], again[u], client[u], failed[u], token, valid)
        BY DEF ClientInv, KnowsInv
      <3> QED
        BY <1>3, <2>2, <3>1, <3>2, <3>3 DEF Knows, Locked
    <2> QED
      BY <2>1, <2>2
  <1>8. CountInv'
    <2>1. \A u \in Tasks : pc[u] # "registered"
      BY <1>1, <1>3 DEF Locked
    <2>2. issued <= expired + wasted /\ expired \in Nat /\ wasted \in Nat
      BY <1>1, <1>6, <2>1 DEF ClientInv, CountInv, ClientType
    <2>3. issued' <= 1 + expired + wasted
      BY <1>1, <1>4, <2>2
    <2> QED
      BY <1>1, <1>3, <2>3 DEF CountInv
  <1>9. ClientIsCurrent'
    BY <1>1 DEF ClientInv, ClientIsCurrent
  <1> QED
    BY <1>3, <1>5, <1>7, <1>8, <1>9 DEF ClientInv

LEMMA RegisteredKeeps ==
  ASSUME ClientInv, NEW t \in Tasks, Registered(t)
  PROVE  /\ ClientInv'
         /\ \A a \in Asks : pc'[<<a, "ask">>] \in After <=> pc[<<a, "ask">>] \in After
  <1>1. /\ pc[t] = "registered" /\ token' = client[t] /\ creds' = client[t]
        /\ lock' = None /\ again' = [again EXCEPT ![t] = TRUE]
        /\ Request(t, client[t], client[t], FALSE) /\ httpClosed' = FALSE
        /\ UNCHANGED <<ws, failed, valid, issued, expired, wasted>> /\ ClientType
    BY DEF Registered, broker, ClientInv
  <1>2. PICK x \in {"failed", "flight"} :
            /\ pc' = [pc EXCEPT ![t] = x]
            /\ x = "failed" => http' = client[t] /\ client' = client
            /\ x = "flight" => /\ ~ FALSE /\ http' = client[t] /\ client[t] # 0
                               /\ client' = [client EXCEPT ![t] = client[t]]
    BY <1>1, RequestIs
  <1>3. http' = client[t] /\ client' = client
    BY <1>1, <1>2 DEF ClientType
  <1>4. /\ lock = t /\ t # None /\ client[t] \in valid /\ client[t] \in 0..issued
        /\ \A u \in Tasks : u # t => pc[u] \notin Locked
    BY <1>1, NumbersAre, TasksAre DEF ClientInv, LockInv, KnowsInv, Knows, Locked
  <1>5. x \in Places \ After /\ x \in Places /\ x \notin Locked /\ pc \in [Tasks -> Places]
        /\ pc[t] \notin After \cup {"idle"}
    BY <1>1 DEF Places, After, Locked, ClientType
  <1>6. LockInv'
    BY <1>1, <1>2, <1>4, <1>5, LockKept DEF ClientInv
  <1>7. /\ PollInv'
        /\ \A a \in Asks : pc'[<<a, "ask">>] \in After <=> pc[<<a, "ask">>] \in After
    BY <1>2, <1>5, PollKeptWithin DEF ClientInv
  <1>8. ClientType'
    <2>1. pc' \in [Tasks -> Places] /\ again' \in [Tasks -> BOOLEAN]
      BY <1>1, <1>2, <1>5 DEF ClientType
    <2> QED
      BY <1>1, <1>3, <1>4, <2>1 DEF ClientType
  <1>9. KnowsInv'
    <2> SUFFICES ASSUME NEW u \in Tasks
                 PROVE  Knows(pc'[u], again'[u], client[u], failed[u], client[t], valid)
      BY <1>1, <1>3 DEF KnowsInv
    <2>1. CASE u = t
      BY <1>1, <1>2, <1>5, <2>1 DEF Knows, Locked, ClientType
    <2>2. CASE u # t
      <3>1. pc'[u] = pc[u] /\ again'[u] = again[u]
        BY <1>1, <1>2, <1>5, <2>2 DEF ClientType
      <3>2. Knows(pc[u], again[u], client[u], failed[u], token, valid) /\ pc[u] \notin Locked
        BY <1>4, <2>2 DEF ClientInv, KnowsInv
      <3> QED
        BY <3>1, <3>2 DEF Knows, Locked
    <2> QED
      BY <2>1, <2>2
  <1>10. CountInv'
    BY <1>1, <1>4 DEF ClientInv, CountInv
  <1>11. ClientIsCurrent'
    BY <1>1, <1>3 DEF ClientIsCurrent
  <1> QED
    BY <1>6, <1>7, <1>8, <1>9, <1>10, <1>11 DEF ClientInv

(* The world around changes the session or the broker, and moves no task.  *)
LEMMA WorldKeepsClient ==
  ASSUME ClientInv,
         \/ Expire \/ LinkBreaks \/ Connect
         \/ \E a \in Asks : PeerReplies(a) \/ Dispatch(a)
  PROVE  ClientInv' /\ pc' = pc /\ issued' = issued
  <1>1. /\ UNCHANGED <<token, creds, lock, pc, failed, client, again, issued, wasted>>
        /\ ClientType
        /\ ws' \in {ws, token, 0}
        /\ \/ http' = http /\ httpClosed' = httpClosed
           \/ http' = token /\ httpClosed' = FALSE
        /\ \/ valid' = valid /\ expired' = expired
           \/ token \in valid /\ valid' = valid \ {token} /\ expired' = expired + 1
    BY DEF Expire, LinkBreaks, Connect, PeerReplies, Dispatch, session, broker, ClientInv
  <1>2. ClientType'
    <2>1. valid' \subseteq valid /\ expired' \in Nat
      BY <1>1 DEF ClientType
    <2>2. {ws', http'} \subseteq 0..issued /\ httpClosed' \in BOOLEAN
      BY <1>1, NumbersAre DEF ClientType
    <2> QED
      BY <1>1, <2>1, <2>2 DEF ClientType
  <1>3. LockInv' /\ PollInv'
    BY <1>1 DEF ClientInv, LockInv, PollInv
  <1>4. KnowsInv'
    <2> SUFFICES ASSUME NEW u \in Tasks
                 PROVE  Knows(pc[u], again[u], client[u], failed[u], token, valid')
      BY <1>1 DEF KnowsInv
    <2>1. Knows(pc[u], again[u], client[u], failed[u], token, valid)
      BY DEF ClientInv, KnowsInv
    <2>2. CASE valid' = valid
      BY <2>1, <2>2
    <2>3. CASE token \in valid /\ valid' = valid \ {token}
      <3>1. pc[u] \notin Locked
        BY <2>1, <2>3 DEF Knows
      <3> QED
        BY <2>1, <2>3, <3>1 DEF Knows, Locked
    <2> QED
      BY <1>1, <2>2, <2>3
  <1>5. CountInv'
    <2>1. expired \in Nat /\ wasted \in Nat /\ issued \in Nat
      BY <1>1, NumbersAre DEF ClientType
    <2>2. CASE valid' = valid /\ expired' = expired
      BY <1>1, <2>2 DEF ClientInv, CountInv
    <2>3. CASE expired' = expired + 1
      BY <1>1, <2>1, <2>3 DEF ClientInv, CountInv
    <2> QED
      BY <1>1, <2>2, <2>3
  <1>6. ClientIsCurrent'
    BY <1>1 DEF ClientInv, ClientIsCurrent
  <1> QED
    BY <1>1, <1>2, <1>3, <1>4, <1>5, <1>6 DEF ClientInv
-----------------------------------------------------------------------------
(* The cache of early replies                                              *)

LEMMA EntriesAre ==
  ASSUME NEW e \in Seq(Asks), NEW a \in Asks
  PROVE  /\ Append(e, a) \in Seq(Asks)
         /\ Entries(Append(e, a)) = Entries(e) \cup {a}
  <1>1. /\ Append(e, a) \in Seq(Asks) /\ Len(e) \in Nat
        /\ Len(Append(e, a)) = Len(e) + 1 /\ Append(e, a)[Len(e) + 1] = a
        /\ \A i \in 1..Len(e) : Append(e, a)[i] = e[i]
    OBVIOUS
  <1>2. ASSUME NEW b \in Entries(Append(e, a)) PROVE b \in Entries(e) \cup {a}
    <2>1. PICK i \in 1..Len(Append(e, a)) : Append(e, a)[i] = b
      BY <1>2 DEF Entries
    <2>2. i \in 1..Len(e) \/ i = Len(e) + 1
      BY <1>1
    <2> QED
      BY <1>1, <2>1, <2>2 DEF Entries
  <1>3. ASSUME NEW b \in Entries(e) PROVE b \in Entries(Append(e, a))
    <2>1. PICK i \in 1..Len(e) : e[i] = b
      BY <1>3 DEF Entries
    <2>2. i \in 1..Len(Append(e, a)) /\ Append(e, a)[i] = b
      BY <1>1, <2>1
    <2> QED
      BY <2>2 DEF Entries
  <1>4. a \in Entries(Append(e, a))
    <2>1. Len(e) + 1 \in 1..Len(Append(e, a))
      BY <1>1
    <2> QED
      BY <1>1, <2>1 DEF Entries
  <1> QED
    BY <1>1, <1>2, <1>3, <1>4

LEMMA PrunedIs ==
  ASSUME NEW e \in Seq(Asks), NEW kept \in Pruned(e)
  PROVE  /\ kept \in Seq(Asks) /\ Len(kept) <= MaxEarly
         /\ Entries(kept) \subseteq Entries(e)
  <1>1. PICK k \in 1..(Len(e) + 1) : /\ Len(e) - k + 1 <= MaxEarly
                                     /\ kept = SubSeq(e, k, Len(e))
    BY DEF Pruned
  <1>2. /\ kept \in Seq(Asks) /\ Len(kept) = Len(e) - k + 1 /\ Len(e) \in Nat
        /\ \A i \in 1..Len(kept) : i + k - 1 \in 1..Len(e) /\ kept[i] = e[i + k - 1]
    BY <1>1
  <1> QED
    BY <1>1, <1>2 DEF Entries

LEMMA TakenOut ==
  ASSUME NEW e \in Seq(Asks), NEW i \in 1..Len(e)
  PROVE  LET f == SubSeq(e, 1, i - 1) \o SubSeq(e, i + 1, Len(e))
         IN  /\ f \in Seq(Asks) /\ Len(f) <= Len(e)
             /\ Entries(e) \ {e[i]} \subseteq Entries(f)
  <1> DEFINE g == SubSeq(e, 1, i - 1)
             h == SubSeq(e, i + 1, Len(e))
             f == g \o h
  <1>0. Len(e) \in Nat /\ i \in Nat /\ 1 <= i /\ i <= Len(e)
    OBVIOUS
  <1>1. g \in Seq(Asks) /\ Len(g) = i - 1 /\ \A j \in 1..(i - 1) : g[j] = e[j]
    BY <1>0
  <1>2. /\ h \in Seq(Asks) /\ Len(h) = Len(e) - i
        /\ \A j \in 1..(Len(e) - i) : h[j] = e[i + j]
    BY <1>0
  <1> HIDE DEF g, h
  <1>3. /\ f \in Seq(Asks) /\ Len(f) = Len(g) + Len(h)
        /\ \A j \in 1..(Len(g) + Len(h)) :
              f[j] = IF j <= Len(g) THEN g[j] ELSE h[j - Len(g)]
    BY <1>1, <1>2, ConcatProperties
  <1> HIDE DEF f
  <1>4. Len(f) = Len(e) - 1
    BY <1>0, <1>1, <1>2, <1>3
  <1>5. ASSUME NEW j \in 1..Len(e), j # i
        PROVE  \E l \in 1..Len(f) : f[l] = e[j]
    <2>1. CASE j < i
      <3>1. j \in 1..(i - 1) /\ j \in 1..Len(f) /\ j \in 1..(Len(g) + Len(h)) /\ j <= Len(g)
        BY <1>0, <1>1, <1>2, <1>4, <2>1
      <3>2. f[j] = e[j]
        BY <1>1, <1>3, <3>1
      <3> QED
        BY <3>1, <3>2
    <2>2. CASE j > i
      <3>1. /\ j - i \in 1..(Len(e) - i) /\ j - 1 \in 1..Len(f)
            /\ j - 1 \in 1..(Len(g) + Len(h)) /\ ~ (j - 1 <= Len(g))
            /\ (j - 1) - Len(g) = j - i /\ i + (j - i) = j
        BY <1>0, <1>1, <1>2, <1>4, <2>2
      <3>2. f[j - 1] = h[j - i]
        BY <1>3, <3>1
      <3>3. h[j - i] = e[i + (j - i)]
        BY <1>2, <3>1
      <3> QED
        BY <3>1, <3>2, <3>3
    <2> QED
      BY <1>0, <1>5, <2>1, <2>2
  <1>6. Entries(e) \ {e[i]} \subseteq Entries(f)
    BY <1>5 DEF Entries
  <1>7. Len(f) <= Len(e)
    BY <1>0, <1>4
  <1> QED
    BY <1>3, <1>6, <1>7 DEF f, g, h

(* A reply that is brought, by whomever, is in its future, in the cache,   *)
(* or evicted from it.                                                     *)
LEMMA ResolveKeeps ==
  ASSUME ReplyInv, NEW a \in Asks, Resolve(a),
         delivered' \in {delivered, delivered \cup {a}}
  PROVE  /\ future' \in [Asks -> {"none", "pending", "done", "cancelled"}]
         /\ early' \in Seq(Asks) /\ Len(early') <= MaxEarly
         /\ evicted' \subseteq Asks /\ delivered' \subseteq Asks
         /\ \A b \in Asks : future'[b] = "none" <=> future[b] = "none"
         /\ CacheInv'
  <1>1. /\ future \in [Asks -> {"none", "pending", "done", "cancelled"}]
        /\ early \in Seq(Asks) /\ Len(early) <= MaxEarly
        /\ delivered \subseteq Asks /\ evicted \subseteq Asks /\ CacheInv
    BY DEF ReplyInv, ReplyType
  <1>2. CASE future[a] = "pending" /\ future' = [future EXCEPT ![a] = "done"]
             /\ UNCHANGED <<early, evicted>>
    <2>1. CacheInv'
      BY <1>1, <1>2 DEF CacheInv, Entries
    <2> QED
      BY <1>1, <1>2, <2>1
  <1>3. CASE future[a] # "pending" /\ Cache(a) /\ future' = future
    <2>1. PICK kept \in Pruned(early) :
            \/ a \in Entries(kept) /\ Keep(kept, early)
            \/ /\ a \notin Entries(kept)
               /\ \E left \in Pruned(Append(kept, a)) : Keep(left, Append(early, a))
      BY <1>3 DEF Cache
    <2>2. kept \in Seq(Asks) /\ Len(kept) <= MaxEarly /\ Entries(kept) \subseteq Entries(early)
      BY <1>1, PrunedIs
    <2>3. Entries(early) \subseteq Asks
      BY <1>1 DEF Entries
    <2>4. /\ early' \in Seq(Asks) /\ Len(early') <= MaxEarly /\ evicted' \subseteq Asks
          /\ evicted \subseteq evicted'
          /\ \A b \in Entries(early) \cup {a} : b \in Entries(early') \/ b \in evicted'
      <3>1. CASE a \in Entries(kept) /\ Keep(kept, early)
        BY <1>1, <2>2, <2>3, <3>1 DEF Keep
      <3>2. CASE \E left \in Pruned(Append(kept, a)) : Keep(left, Append(early, a))
        <4>1. PICK left \in Pruned(Append(kept, a)) : Keep(left, Append(early, a))
          BY <3>2
        <4>2. /\ Append(kept, a) \in Seq(Asks)
              /\ Entries(Append(early, a)) = Entries(early) \cup {a}
          BY <1>1, <2>2, EntriesAre
        <4>3. left \in Seq(Asks) /\ Len(left) <= MaxEarly
          BY <4>1, <4>2, PrunedIs
        <4> QED
          BY <1>1, <2>3, <4>1, <4>2, <4>3 DEF Keep
      <3> QED
        BY <2>1, <3>1, <3>2
    <2>5. CacheInv'
      <3> SUFFICES ASSUME NEW b \in delivered' \ evicted'
                   PROVE  future[b] # "pending" /\ (future[b] = "none" => b \in Entries(early'))
        BY <1>3 DEF CacheInv, Entries
      <3>1. CASE b = a
        BY <1>3, <2>4, <3>1
      <3>2. CASE b # a
        <4>1. b \in delivered \ evicted
          BY <2>4, <3>2
        <4> QED
          BY <1>1, <2>4, <4>1 DEF CacheInv
      <3> QED
        BY <3>1, <3>2
    <2> QED
      BY <1>1, <1>3, <2>4, <2>5
  <1> QED
    BY <1>2, <1>3 DEF Resolve

(* When an ask learns the id of its message, a reply that was there first  *)
(* resolves it.                                                            *)
LEMMA RegisterPendingKeeps ==
  ASSUME ReplyInv, NEW a \in Asks, RegisterPending(a), future[a] = "none",
         delivered' = delivered
  PROVE  /\ future' \in [Asks -> {"none", "pending", "done", "cancelled"}]
         /\ early' \in Seq(Asks) /\ Len(early') <= MaxEarly
         /\ evicted' \subseteq Asks
         /\ future'[a] # "none"
         /\ \A b \in Asks : b # a => future'[b] = future[b]
         /\ CacheInv'
  <1>1. /\ future \in [Asks -> {"none", "pending", "done", "cancelled"}]
        /\ early \in Seq(Asks) /\ Len(early) <= MaxEarly
        /\ delivered \subseteq Asks /\ evicted \subseteq Asks /\ CacheInv
    BY DEF ReplyInv, ReplyType
  <1>2. PICK kept \in Pruned(early) :
          \/ \E i \in 1..Len(kept) :
                /\ kept[i] = a
                /\ future' = [future EXCEPT ![a] = "done"]
                /\ early' = SubSeq(kept, 1, i - 1) \o SubSeq(kept, i + 1, Len(kept))
                /\ evicted' = evicted \cup (Entries(early) \ Entries(kept))
          \/ /\ a \notin Entries(kept)
             /\ future' = [future EXCEPT ![a] = "pending"]
             /\ Keep(kept, early)
    BY DEF RegisterPending
  <1>3. /\ kept \in Seq(Asks) /\ Len(kept) <= MaxEarly /\ Entries(kept) \subseteq Entries(early)
        /\ Entries(early) \subseteq Asks
    <2>1. Entries(early) \subseteq Asks
      BY <1>1 DEF Entries
    <2> QED
      BY <1>1, <2>1, PrunedIs
  <1>4. CASE \E i \in 1..Len(kept) :
                /\ kept[i] = a
                /\ future' = [future EXCEPT ![a] = "done"]
                /\ early' = SubSeq(kept, 1, i - 1) \o SubSeq(kept, i + 1, Len(kept))
                /\ evicted' = evicted \cup (Entries(early) \ Entries(kept))
    <2>1. PICK i \in 1..Len(kept) :
                /\ kept[i] = a
                /\ future' = [future EXCEPT ![a] = "done"]
                /\ early' = SubSeq(kept, 1, i - 1) \o SubSeq(kept, i + 1, Len(kept))
                /\ evicted' = evicted \cup (Entries(early) \ Entries(kept))
      BY <1>4
    <2>2. /\ early' \in Seq(Asks) /\ Len(early') <= Len(kept)
          /\ Entries(kept) \ {a} \subseteq Entries(early')
      BY <1>3, <2>1, TakenOut
    <2>3. Len(early') <= MaxEarly
      BY <1>3, <2>2, SizesAreNat
    <2>4. CacheInv'
      <3> SUFFICES ASSUME NEW b \in delivered \ evicted'
                   PROVE  future'[b] # "pending" /\ (future'[b] = "none" => b \in Entries(early'))
        BY DEF CacheInv, Entries
      <3>1. future[b] # "pending" /\ (future[b] = "none" => b \in Entries(early)) /\ b \in Asks
        BY <1>1, <2>1 DEF CacheInv
      <3> QED
        BY <1>1, <2>1, <2>2, <3>1
    <2> QED
      BY <1>1, <1>3, <2>1, <2>2, <2>3, <2>4
  <1>5. CASE /\ a \notin Entries(kept)
             /\ future' = [future EXCEPT ![a] = "pending"]
             /\ Keep(kept, early)
    <2>1. early' = kept /\ evicted' = evicted \cup (Entries(early) \ Entries(kept))
      BY <1>5 DEF Keep
    <2>2. CacheInv'
      <3> SUFFICES ASSUME NEW b \in delivered \ evicted'
                   PROVE  future'[b] # "pending" /\ (future'[b] = "none" => b \in Entries(kept))
        BY <2>1 DEF CacheInv, Entries
      <3>1. future[b] # "pending" /\ (future[b] = "none" => b \in Entries(early)) /\ b \in Asks
        BY <1>1, <2>1 DEF CacheInv
      <3>2. b # a
        BY <1>5, <2>1, <3>1
      <3> QED
        BY <1>1, <1>5, <2>1, <3>1, <3>2
    <2> QED
      BY <1>1, <1>3, <1>5, <2>1, <2>2
  <1> QED
    BY <1>2, <1>4, <1>5
-----------------------------------------------------------------------------
(* The steps of ask() and of its polling task                              *)

(* An ask and its polling task both move to places where they know nothing *)
(* that could be wrong, the ask after its message was sent.                *)
LEMMA BothMove ==
  ASSUME ClientInv, NEW a \in Asks, NEW x \in After,
         NEW y \in {"sleeping", "done", "failed", "cancelled"},
         pc[<<a, "ask">>] \in {"ok", "waiting"},
         pc' = [pc EXCEPT ![<<a, "ask">>] = x, ![<<a, "poll">>] = y],
         failed' \in [Tasks -> 0..issued], client' \in [Tasks -> 0..issued],
         again' \in [Tasks -> BOOLEAN],
         \A w \in Tasks \ {<<a, "ask">>, <<a, "poll">>} :
            failed'[w] = failed[w] /\ client'[w] = client[w] /\ again'[w] = again[w],
         lock' = (IF lock = <<a, "poll">> THEN None ELSE lock),
         wasted' = (IF pc[<<a, "poll">>] = "registered" THEN wasted + 1 ELSE wasted),
         UNCHANGED <<token, http, httpClosed, ws, creds, valid, issued, expired>>
  PROVE  /\ ClientInv'
         /\ pc'[<<a, "ask">>] \in After
         /\ \A b \in Asks : b # a => pc'[<<b, "ask">>] = pc[<<b, "ask">>]
  <1> DEFINE u == <<a, "ask">>
             v == <<a, "poll">>
  <1>1. ClientType /\ LockInv /\ KnowsInv /\ CountInv /\ ClientIsCurrent /\ PollInv
    BY DEF ClientInv
  <1>2. u \in Tasks /\ v \in Tasks /\ u # v /\ u # None /\ v # None /\ None \notin Tasks
    BY TasksAre
  <1>3. \A b \in Asks : /\ <<b, "ask">> \in Tasks /\ <<b, "poll">> \in Tasks
                        /\ <<b, "ask">> # v /\ <<b, "poll">> # u
                        /\ <<b, "ask">> = u => b = a
                        /\ <<b, "poll">> = v => b = a
    BY TasksAre
  <1>a. /\ pc[u] \in {"ok", "waiting"}
        /\ pc' = [pc EXCEPT ![u] = x, ![v] = y]
        /\ lock' = (IF lock = v THEN None ELSE lock)
        /\ wasted' = (IF pc[v] = "registered" THEN wasted + 1 ELSE wasted)
        /\ \A w \in Tasks \ {u, v} :
              failed'[w] = failed[w] /\ client'[w] = client[w] /\ again'[w] = again[w]
    OBVIOUS
  <1> HIDE DEF u, v
  <1>4. /\ pc' \in [Tasks -> Places] /\ pc'[u] = x /\ pc'[v] = y
        /\ \A w \in Tasks \ {u, v} : pc'[w] = pc[w]
    <2>1. pc \in [Tasks -> Places]
      BY <1>1 DEF ClientType
    <2>2. x \in Places /\ y \in Places
      BY DEF After, Places
    <2> QED
      BY <1>2, <1>a, <2>1, <2>2
  <1>5. /\ x \notin {"flight", "401", "lock"} \cup Locked
        /\ y \notin {"flight", "401", "lock"} \cup Locked
        /\ pc[u] \notin Locked /\ x # "registered" /\ y # "registered" /\ pc[u] # "registered"
    BY <1>a DEF After, Locked
  <1>6. ClientType'
    <2>1. lock' \in Tasks \cup {None} /\ wasted' \in Nat
      BY <1>1, <1>a DEF ClientType
    <2> QED
      BY <1>1, <1>4, <2>1 DEF ClientType
  <1>7. LockInv'
    <2> SUFFICES ASSUME NEW w \in Tasks PROVE pc'[w] \in Locked <=> lock' = w
      BY DEF LockInv
    <2>1. pc[w] \in Locked <=> lock = w
      BY <1>1 DEF LockInv
    <2>2. lock # u
      BY <1>1, <1>2, <1>5 DEF LockInv
    <2>3. w # None
      BY <1>2
    <2>4. CASE w = u
      BY <1>4, <1>5, <1>a, <2>2, <2>3, <2>4
    <2>5. CASE w = v
      BY <1>4, <1>5, <1>a, <2>3, <2>5
    <2>6. CASE w \notin {u, v}
      BY <1>4, <1>a, <2>1, <2>3, <2>6
    <2> QED
      BY <2>4, <2>5, <2>6
  <1>8. KnowsInv'
    <2> SUFFICES ASSUME NEW w \in Tasks
                 PROVE  Knows(pc'[w], again'[w], client'[w], failed'[w], token, valid)
      BY DEF KnowsInv
    <2>1. CASE w = u
      BY <1>4, <1>5, <2>1, KnowsNothing
    <2>2. CASE w = v
      BY <1>4, <1>5, <2>2, KnowsNothing
    <2>3. CASE w \notin {u, v}
      BY <1>1, <1>4, <1>a, <2>3 DEF KnowsInv
    <2> QED
      BY <2>1, <2>2, <2>3
  <1>9. CountInv'
    <2>1. {issued, wasted, expired} \subseteq Nat
      BY <1>1, NumbersAre DEF ClientType
    <2>2. CASE pc[v] = "registered"
      BY <1>1, <1>a, <2>1, <2>2 DEF CountInv
    <2>3. CASE pc[v] # "registered"
      <3>1. (\A w \in Tasks : pc'[w] # "registered") => (\A w \in Tasks : pc[w] # "registered")
        BY <1>4, <1>5, <2>3
      <3> QED
        BY <1>1, <1>a, <2>3, <3>1 DEF CountInv
    <2> QED
      BY <2>2, <2>3
  <1>10. ClientIsCurrent'
    BY <1>1 DEF ClientIsCurrent
  <1>11. \A b \in Asks : b # a => pc'[<<b, "ask">>] = pc[<<b, "ask">>]
    BY <1>3, <1>4
  <1>12. PollInv'
    <2> SUFFICES ASSUME NEW b \in Asks, pc'[<<b, "ask">>] \notin After
                 PROVE  pc'[<<b, "poll">>] = "idle"
      BY DEF PollInv
    <2>1. b # a
      BY <1>4 DEF u
    <2>2. pc[<<b, "poll">>] = "idle"
      BY <1>1, <1>11, <2>1 DEF PollInv
    <2>3. <<b, "poll">> \in Tasks \ {u, v}
      BY <1>3, <2>1
    <2> QED
      BY <1>4, <2>2, <2>3
  <1>13. pc'[<<a, "ask">>] \in After
    BY <1>4 DEF u
  <1> QED
    BY <1>6, <1>7, <1>8, <1>9, <1>10, <1>11, <1>12, <1>13 DEF ClientInv

LEMMA SentKeeps ==
  ASSUME ClientInv, ReplyInv, NEW a \in Asks, Sent(a)
  PROVE  ClientInv' /\ ReplyInv'
  <1>1. /\ pc[<<a, "ask">>] = "ok" /\ RegisterPending(a) /\ ClientType
        /\ pc' = [pc EXCEPT ![<<a, "ask">>] = "waiting", ![<<a, "poll">>] = "sleeping"]
        /\ failed' = [failed EXCEPT ![<<a, "ask">>] = 0]
        /\ client' = [client EXCEPT ![<<a, "ask">>] = 0]
        /\ again' = [again EXCEPT ![<<a, "ask">>] = FALSE]
        /\ UNCHANGED <<token, http, httpClosed, ws, creds, lock, valid, issued, expired,
                       wasted, outcome, sent, reply, delivered>>
    BY DEF Sent, session, broker, ClientInv
  <1>2. <<a, "ask">> \in Tasks /\ <<a, "poll">> \in Tasks
    BY TasksAre
  <1>3. pc[<<a, "ask">>] \notin After /\ pc[<<a, "poll">>] = "idle"
    BY <1>1 DEF ClientInv, PollInv, After
  <1>4. lock # <<a, "poll">> /\ pc[<<a, "poll">>] # "registered"
    BY <1>2, <1>3 DEF ClientInv, LockInv, Locked
  <1>5. /\ failed' \in [Tasks -> 0..issued] /\ client' \in [Tasks -> 0..issued]
        /\ again' \in [Tasks -> BOOLEAN]
        /\ \A w \in Tasks \ {<<a, "ask">>, <<a, "poll">>} :
              failed'[w] = failed[w] /\ client'[w] = client[w] /\ again'[w] = again[w]
    BY <1>1, NumbersAre DEF ClientType
  <1>6. /\ lock' = (IF lock = <<a, "poll">> THEN None ELSE lock)
        /\ wasted' = (IF pc[<<a, "poll">>] = "registered" THEN wasted + 1 ELSE wasted)
        /\ "waiting" \in After
        /\ pc[<<a, "ask">>] \in {"ok", "waiting"}
    BY <1>1, <1>4 DEF After
  <1>7. /\ ClientInv' /\ pc'[<<a, "ask">>] \in After
        /\ \A b \in Asks : b # a => pc'[<<b, "ask">>] = pc[<<b, "ask">>]
    BY <1>1, <1>5, <1>6, BothMove
  <1>8. future[a] = "none"
    BY <1>3 DEF ReplyInv, FutureInv
  <1>9. /\ future' \in [Asks -> {"none", "pending", "done", "cancelled"}]
        /\ early' \in Seq(Asks) /\ Len(early') <= MaxEarly
        /\ evicted' \subseteq Asks
        /\ future'[a] # "none"
        /\ \A b \in Asks : b # a => future'[b] = future[b]
        /\ CacheInv'
    BY <1>1, <1>8, RegisterPendingKeeps
  <1>10. ReplyType'
    BY <1>1, <1>9 DEF ReplyInv, ReplyType
  <1>11. FutureInv'
    BY <1>7, <1>9 DEF ReplyInv, FutureInv
  <1> QED
    BY <1>7, <1>9, <1>10, <1>11 DEF ReplyInv

(* A reply was brought, and no ask has entered or left the places after    *)
(* its message was sent.                                                   *)
LEMMA ResolvedKeeps ==
  ASSUME ReplyInv, NEW a \in Asks, Resolve(a),
         delivered' \in {delivered, delivered \cup {a}},
         UNCHANGED <<outcome, sent, reply, issued>>,
         \A b \in Asks : pc'[<<b, "ask">>] \in After <=> pc[<<b, "ask">>] \in After
  PROVE  ReplyInv'
  <1>1. /\ future' \in [Asks -> {"none", "pending", "done", "cancelled"}]
        /\ early' \in Seq(Asks) /\ Len(early') <= MaxEarly
        /\ evicted' \subseteq Asks /\ delivered' \subseteq Asks
        /\ \A b \in Asks : future'[b] = "none" <=> future[b] = "none"
        /\ CacheInv'
    BY ResolveKeeps
  <1>2. ReplyType'
    BY <1>1 DEF ReplyInv, ReplyType
  <1>3. FutureInv'
    BY <1>1 DEF ReplyInv, FutureInv
  <1> QED
    BY <1>1, <1>2, <1>3 DEF ReplyInv

LEMMA PolledKeeps ==
  ASSUME ClientInv, ReplyInv, NEW a \in Asks, Polled(a)
  PROVE  ClientInv' /\ ReplyInv'
  <1> DEFINE t == <<a, "poll">>
  <1>1. /\ pc[t] \in {"found", "nothing"} /\ ClientType
        /\ Resolve(a) \/ UNCHANGED replies
        /\ UNCHANGED <<token, http, httpClosed, ws, creds, lock, valid, issued, expired,
                       wasted, outcome, sent, reply, delivered>>
    BY DEF Polled, session, broker, ClientInv
  <1>2. PICK x \in {"done", "sleeping"} : Leave(t, x)
    BY DEF Polled
  <1>3. t \in Tasks /\ \A b \in Asks : t # <<b, "ask">>
    BY TasksAre
  <1> HIDE DEF t
  <1>4. /\ x \in Places \ Locked /\ x \notin {"flight", "401", "lock"} \cup Locked
        /\ pc[t] \notin Locked /\ pc[t] # "idle" /\ pc[t] # "registered"
    BY <1>1 DEF Places, Locked
  <1>5. lock # t
    BY <1>3, <1>4 DEF ClientInv, LockInv
  <1>6. /\ lock' = (IF lock = t THEN None ELSE lock)
        /\ wasted' = (IF pc[t] = "registered" THEN wasted + 1 ELSE wasted)
    BY <1>1, <1>4, <1>5
  <1>7. /\ ClientInv'
        /\ \A b \in Asks : pc'[<<b, "ask">>] \in After <=> pc[<<b, "ask">>] \in After
    <2>1. /\ pc' = [pc EXCEPT ![t] = x]
          /\ failed' \in [Tasks -> 0..issued] /\ client' \in [Tasks -> 0..issued]
          /\ again' \in [Tasks -> BOOLEAN]
          /\ \A u \in Tasks : u # t => /\ failed'[u] = failed[u] /\ client'[u] = client[u]
                                       /\ again'[u] = again[u]
      BY <1>1, <1>2, <1>3, LeaveIs
    <2>2. Knows(x, again'[t], client'[t], failed'[t], token, valid)
      BY <1>4, KnowsNothing
    <2>3. UNCHANGED <<token, http, httpClosed, ws, creds, valid, issued, expired>>
      BY <1>1
    <2>4. \A b \in Asks : /\ t = <<b, "ask">> => pc[t] \notin After /\ x \notin After
                          /\ t = <<b, "poll">> => pc[t] # "idle"
      BY <1>3, <1>4
    <2> QED
      BY <1>3, <1>4, <1>6, <2>1, <2>2, <2>3, <2>4, AnyMoveKeeps
  <1>8. CASE Resolve(a)
    BY <1>1, <1>7, <1>8, ResolvedKeeps
  <1>9. CASE UNCHANGED replies
    <2>1. /\ issued \in Nat /\ issued' \in Nat /\ issued <= issued'
          /\ sent' \in [Asks -> 0..issued'] /\ reply' \in [Asks -> {"none", "same", "later"}]
          /\ UNCHANGED <<replies, outcome, delivered>>
      BY <1>1, <1>9, NumbersAre DEF ReplyInv, ReplyType
    <2> QED
      BY <1>7, <2>1, RepliesKept
  <1> QED
    BY <1>1, <1>7, <1>8, <1>9

LEMMA FinishKeeps ==
  ASSUME ClientInv, ReplyInv, NEW a \in Asks, Finish(a)
  PROVE  ClientInv' /\ ReplyInv'
  <1> DEFINE y == IF pc[<<a, "poll">>] \in {"failed", "done"} THEN pc[<<a, "poll">>]
                  ELSE "cancelled"
             fut == IF future[a] = "done" THEN "done" ELSE "cancelled"
             out == IF pc[<<a, "poll">>] = "failed" THEN "error"
                    ELSE IF future[a] = "done" THEN "reply" ELSE "timeout"
  <1>0. <<a, "ask">> \in Tasks /\ <<a, "poll">> \in Tasks /\ <<a, "ask">> # <<a, "poll">>
    BY TasksAre
  <1>1. /\ pc[<<a, "ask">>] = "waiting" /\ ClientType /\ future[a] \in {"pending", "done"}
        /\ failed' = [failed EXCEPT ![<<a, "poll">>] = 0]
        /\ client' = [client EXCEPT ![<<a, "poll">>] = 0]
        /\ again' = [again EXCEPT ![<<a, "poll">>] = FALSE]
        /\ lock' = (IF lock = <<a, "poll">> THEN None ELSE lock)
        /\ wasted' = (IF pc[<<a, "poll">>] = "registered" THEN wasted + 1 ELSE wasted)
        /\ UNCHANGED <<token, http, httpClosed, ws, creds, early, evicted, valid, issued,
                       expired, sent, reply, delivered>>
        /\ outcome' = [outcome EXCEPT ![a] = out]
    BY DEF Finish, Release, broker, ClientInv
  <1>2. pc' = [pc EXCEPT ![<<a, "ask">>] = "done", ![<<a, "poll">>] = y]
    BY <1>0, <1>1 DEF Finish, ClientType
  <1>3. future' = [future EXCEPT ![a] = fut]
    BY DEF Finish, ReplyInv, ReplyType
  <1>4. /\ y \in {"sleeping", "done", "failed", "cancelled"}
        /\ fut \in {"done", "cancelled"} /\ out \in {"none", "reply", "timeout", "error"}
    OBVIOUS
  <1> HIDE DEF y, fut, out
  <1>5. /\ failed' \in [Tasks -> 0..issued] /\ client' \in [Tasks -> 0..issued]
        /\ again' \in [Tasks -> BOOLEAN]
        /\ \A w \in Tasks \ {<<a, "ask">>, <<a, "poll">>} :
              failed'[w] = failed[w] /\ client'[w] = client[w] /\ again'[w] = again[w]
    BY <1>1, NumbersAre DEF ClientType
  <1>6. "done" \in After /\ pc[<<a, "ask">>] \in {"ok", "waiting"} /\ pc[<<a, "ask">>] \in After
    BY <1>1 DEF After
  <1>7. /\ ClientInv' /\ pc'[<<a, "ask">>] \in After
        /\ \A b \in Asks : b # a => pc'[<<b, "ask">>] = pc[<<b, "ask">>]
    BY <1>1, <1>2, <1>4, <1>5, <1>6, BothMove
  <1>8. ReplyType'
    BY <1>1, <1>3, <1>4 DEF ReplyInv, ReplyType
  <1>9. FutureInv'
    BY <1>3, <1>4, <1>6, <1>7 DEF ReplyInv, ReplyType, FutureInv
  <1>10. CacheInv'
    BY <1>1, <1>3, <1>4 DEF ReplyInv, ReplyType, CacheInv, Entries
  <1> QED
    BY <1>7, <1>8, <1>9, <1>10 DEF ReplyInv

LEMMA PollKeeps ==
  ASSUME ClientInv, NEW a \in Asks, Poll(a)
  PROVE  /\ ClientInv' /\ UNCHANGED <<replies, outcome, delivered, sent, reply, issued>>
         /\ \A b \in Asks : pc'[<<b, "ask">>] \in After <=> pc[<<b, "ask">>] \in After
  <1> DEFINE t == <<a, "poll">>
  <1>1. pc[t] = "sleeping" /\ ClientType
    BY DEF Poll, ClientInv
  <1>2. t \in Tasks /\ \A b \in Asks : t # <<b, "ask">>
    BY TasksAre
  <1>3. \/ FirstCall(t)
        \/ /\ pc' = [pc EXCEPT ![t] = "done"]
           /\ UNCHANGED <<session, failed, client, again, replies, outcome, broker,
                          wasted, delivered>>
    BY DEF Poll
  <1> HIDE DEF t
  <1>4. CASE FirstCall(t)
    <2>1. \A b \in Asks : t = <<b, "poll">> => pc[t] # "idle"
      BY <1>1
    <2>2. UNCHANGED <<replies, outcome, delivered, sent, reply, issued>>
      BY <1>4 DEF FirstCall, broker
    <2> QED
      BY <1>1, <1>2, <1>4, <2>1, <2>2, FirstCallKeeps
  <1>5. CASE /\ pc' = [pc EXCEPT ![t] = "done"]
             /\ UNCHANGED <<session, failed, client, again, replies, outcome, broker,
                            wasted, delivered>>
    <2>1. /\ "done" \in Places \ Locked /\ "done" \notin {"flight", "401", "lock"} \cup Locked
          /\ pc[t] \notin Locked /\ pc[t] # "idle" /\ pc[t] # "registered"
      BY <1>1 DEF Places, Locked
    <2>2. lock # t
      BY <1>2, <2>1 DEF ClientInv, LockInv
    <2>3. /\ UNCHANGED <<token, http, httpClosed, ws, creds, lock, failed, client, again,
                         valid, issued, expired, wasted, sent, reply>>
          /\ UNCHANGED <<replies, outcome, delivered>>
      BY <1>5 DEF session, broker
    <2>4. /\ lock' = (IF lock = t THEN None ELSE lock)
          /\ wasted' = (IF pc[t] = "registered" THEN wasted + 1 ELSE wasted)
      BY <2>1, <2>2, <2>3
    <2>5. /\ failed' \in [Tasks -> 0..issued] /\ client' \in [Tasks -> 0..issued]
          /\ again' \in [Tasks -> BOOLEAN]
      BY <1>1, <2>3 DEF ClientType
    <2>6. Knows("done", again'[t], client'[t], failed'[t], token, valid)
      BY <2>1, KnowsNothing
    <2> QED
      BY <1>2, <1>5, <2>1, <2>3, <2>4, <2>5, <2>6, AnyMoveKeeps
  <1> QED
    BY <1>3, <1>4, <1>5

LEMMA AskKeeps ==
  ASSUME ClientInv, NEW a \in Asks, Ask(a)
  PROVE  /\ ClientInv' /\ UNCHANGED <<replies, outcome, delivered, sent, reply, issued>>
         /\ \A b \in Asks : pc'[<<b, "ask">>] \in After <=> pc[<<b, "ask">>] \in After
  <1>1. pc[<<a, "ask">>] = "idle" /\ FirstCall(<<a, "ask">>)
    BY DEF Ask
  <1>2. <<a, "ask">> \in Tasks /\ \A b \in Asks : <<a, "ask">> # <<b, "poll">>
    BY TasksAre
  <1>3. UNCHANGED <<replies, outcome, delivered, sent, reply, issued>>
    BY <1>1 DEF FirstCall, broker
  <1> QED
    BY <1>1, <1>2, <1>3, FirstCallKeeps

-----------------------------------------------------------------------------
(* All the steps together                                                  *)

AgentInv == ClientInv /\ ReplyInv

LEMMA TaskKeeps ==
  ASSUME AgentInv, NEW t \in Tasks, TaskStep(t)
  PROVE  AgentInv'
  <1>1. ClientInv /\ ReplyInv /\ ClientType
    BY DEF AgentInv, ClientInv
  <1>2. /\ ClientInv'
        /\ \A a \in Asks : pc'[<<a, "ask">>] \in After <=> pc[<<a, "ask">>] \in After
    BY <1>1, RefusedKeeps, AcquireKeeps, CloseKeeps, DropKeeps, ServeRegisterKeeps,
       RegisteredKeeps, BreakKeeps, ServeKeeps DEF TaskStep
  <1>3. issued \in Nat /\ issued' \in Nat /\ client[t] \in 0..issued
    <2>1. issued' \in Tokens
      BY <1>2 DEF ClientInv, ClientType
    <2> QED
      BY <1>1, <2>1, NumbersAre DEF Tokens
  <1>4. /\ UNCHANGED <<replies, outcome, delivered, reply>>
        /\ issued <= issued'
        /\ sent' = sent \/ sent' = [sent EXCEPT ![t[1]] = client[t]]
    <2>1. CASE Serve(t)
      BY <1>3, <2>1 DEF Serve
    <2>2. CASE ServeRegister(t)
      BY <1>3, <2>2 DEF ServeRegister
    <2>3. CASE Refused(t) \/ Acquire(t) \/ Close(t) \/ Drop(t) \/ Registered(t) \/ Break(t)
      <3>1. UNCHANGED <<replies, outcome, delivered, broker>>
        BY <2>3 DEF Refused, Acquire, Close, Drop, Registered, Break
      <3> QED
        BY <1>3, <3>1 DEF broker
    <2> QED
      BY <2>1, <2>2, <2>3 DEF TaskStep
  <1>5. t[1] \in Asks
    BY TasksAre
  <1>6. /\ reply' \in [Asks -> {"none", "same", "later"}]
        /\ sent' \in [Asks -> 0..issued']
    BY <1>1, <1>3, <1>4, <1>5 DEF ReplyInv, ReplyType
  <1> QED
    BY <1>1, <1>2, <1>3, <1>4, <1>6, RepliesKept DEF AgentInv

LEMMA AskStepKeeps ==
  ASSUME AgentInv, NEW a \in Asks, AskStep(a)
  PROVE  AgentInv'
  <1>1. ClientInv /\ ReplyInv /\ ClientType
    BY DEF AgentInv, ClientInv
  <1>2. CASE Ask(a) \/ Poll(a)
    <2>1. /\ ClientInv' /\ UNCHANGED <<replies, outcome, delivered, sent, reply, issued>>
          /\ \A b \in Asks : pc'[<<b, "ask">>] \in After <=> pc[<<b, "ask">>] \in After
      BY <1>1, <1>2, AskKeeps, PollKeeps
    <2>2. /\ issued \in Nat /\ issued' \in Nat /\ issued <= issued'
          /\ sent' \in [Asks -> 0..issued'] /\ reply' \in [Asks -> {"none", "same", "later"}]
          /\ UNCHANGED <<replies, outcome, delivered>>
      BY <1>1, <2>1, NumbersAre DEF ReplyInv, ReplyType
    <2> QED
      BY <1>1, <2>1, <2>2, RepliesKept DEF AgentInv
  <1>3. CASE Sent(a) \/ Polled(a) \/ Finish(a)
    BY <1>1, <1>3, SentKeeps, PolledKeeps, FinishKeeps DEF AgentInv
  <1> QED
    BY <1>2, <1>3 DEF AskStep

LEMMA WorldKeeps ==
  ASSUME AgentInv, World
  PROVE  AgentInv'
  <1>1. ClientInv /\ ReplyInv /\ ClientType
    BY DEF AgentInv, ClientInv
  <1>2. ClientInv' /\ pc' = pc /\ issued' = issued /\ issued \in Nat
    BY <1>1, WorldKeepsClient, NumbersAre DEF World
  <1>3. CASE \E a \in Asks : Dispatch(a)
    <2>1. PICK a \in Asks : Dispatch(a)
      BY <1>3
    <2>2. /\ Resolve(a) /\ delivered' \in {delivered, delivered \cup {a}}
          /\ UNCHANGED <<outcome, sent, reply, issued>>
      BY <2>1 DEF Dispatch, broker
    <2> QED
      BY <1>1, <1>2, <2>2, ResolvedKeeps DEF AgentInv
  <1>4. CASE Expire \/ LinkBreaks \/ Connect \/ \E a \in Asks : PeerReplies(a)
    <2>1. UNCHANGED <<replies, outcome, delivered, sent>>
      BY <1>4 DEF Expire, LinkBreaks, Connect, PeerReplies, broker
    <2>2. reply' \in [Asks -> {"none", "same", "later"}]
      <3>1. reply \in [Asks -> {"none", "same", "later"}]
        BY <1>1 DEF ReplyInv, ReplyType
      <3> QED
        BY <1>4, <3>1 DEF Expire, LinkBreaks, Connect, PeerReplies, broker
    <2>3. /\ issued <= issued' /\ issued' \in Nat /\ sent' \in [Asks -> 0..issued']
          /\ UNCHANGED <<replies, outcome, delivered>>
      BY <1>1, <1>2, <2>1 DEF ReplyInv, ReplyType
    <2> QED
      BY <1>1, <1>2, <2>2, <2>3, RepliesKept DEF AgentInv
  <1> QED
    BY <1>3, <1>4 DEF World

LEMMA Initially == Init => AgentInv
  <1> SUFFICES ASSUME Init PROVE AgentInv
    OBVIOUS
  <1>1. /\ \A t \in Tasks : pc[t] = "idle"
        /\ \A a \in Asks : pc[<<a, "ask">>] = "idle" /\ pc[<<a, "poll">>] = "idle"
    BY TasksAre DEF Init
  <1>2. ClientType
    <2>1. MaxTokens \in Nat \ {0} /\ 1 \in 1..MaxTokens
      BY SizesAreNat
    <2>2. pc \in [Tasks -> Places]
      BY DEF Init, Places
    <2>3. /\ failed \in [Tasks -> 0..issued] /\ client \in [Tasks -> 0..issued]
          /\ again \in [Tasks -> BOOLEAN] /\ httpClosed \in BOOLEAN
          /\ lock \in Tasks \cup {None}
      <3>1. /\ failed = [t \in Tasks |-> 0] /\ client = [t \in Tasks |-> 0]
            /\ issued = 1 /\ 0 \in 0..issued
        BY DEF Init
      <3>2. again \in [Tasks -> BOOLEAN] /\ httpClosed \in BOOLEAN /\ lock \in Tasks \cup {None}
        BY DEF Init
      <3> QED
        BY <3>1, <3>2
    <2>4. {token, http, ws, creds} \subseteq 0..issued /\ valid \subseteq 1..issued
      BY DEF Init
    <2>5. issued \in Tokens /\ wasted \in Nat /\ expired \in Nat
      BY <2>1 DEF Init, Tokens
    <2> QED
      BY <2>2, <2>3, <2>4, <2>5 DEF ClientType
  <1>3. LockInv /\ PollInv
    BY <1>1, TasksAre DEF Init, LockInv, Locked, PollInv
  <1>4. KnowsInv
    BY <1>1, KnowsNothing DEF KnowsInv, Locked
  <1>5. CountInv /\ ClientIsCurrent
    BY DEF Init, CountInv, ClientIsCurrent
  <1>6. ReplyType
    BY SizesAreNat DEF Init, ReplyType
  <1>7. FutureInv /\ CacheInv
    BY <1>1 DEF Init, FutureInv, CacheInv, After
  <1> QED
    BY <1>2, <1>3, <1>4, <1>5, <1>6, <1>7 DEF AgentInv, ClientInv, ReplyInv

LEMMA Inductive == AgentInv /\ [Next]_vars => AgentInv'
  <1> SUFFICES ASSUME AgentInv, [Next]_vars PROVE AgentInv'
    OBVIOUS
  <1>1. CASE \E t \in Tasks : TaskStep(t)
    BY <1>1, TaskKeeps
  <1>2. CASE \E a \in Asks : AskStep(a)
    BY <1>2, AskStepKeeps
  <1>3. CASE World
    BY <1>3, WorldKeeps
  <1>4. CASE UNCHANGED vars
    BY <1>4 DEF vars, AgentInv, ClientInv, ClientType, LockInv, KnowsInv, CountInv,
                ClientIsCurrent, PollInv, ReplyInv, ReplyType, FutureInv, CacheInv, Entries
  <1> QED
    BY <1>1, <1>2, <1>3, <1>4 DEF Next

LEMMA Always == Spec => []AgentInv
  BY Initially, Inductive, PTL DEF Spec

(* Every variable has its type in all states of the SDK's agent            *)
(* (client/agent.py); the cache of early replies never exceeds its size.   *)
THEOREM TypeCorrect == Spec => []TypeOK
  <1>1. AgentInv => TypeOK
    <2> SUFFICES ASSUME AgentInv PROVE TypeOK
      OBVIOUS
    <2>1. ClientType /\ ReplyType
      BY DEF AgentInv, ClientInv, ReplyInv
    <2>2. 0..issued \subseteq Tokens \cup {0}
      BY <2>1, NumbersAre DEF Tokens
    <2>3. {token, http, ws, creds} \subseteq Tokens \cup {0}
      BY <2>1, <2>2 DEF ClientType
    <2>4. \A t \in Tasks : {failed[t], client[t]} \subseteq Tokens \cup {0}
      BY <2>1, <2>2 DEF ClientType
    <2>5. \A a \in Asks : sent[a] \in Tokens \cup {0}
      BY <2>1, <2>2 DEF ReplyType
    <2>6. Entries(early) \subseteq Asks
      BY <2>1 DEF ReplyType, Entries
    <2> QED
      BY <2>1, <2>3, <2>4, <2>5, <2>6 DEF ClientType, ReplyType, TypeOK, Places
  <1> QED
    BY <1>1, Always, PTL

(* _with_reauth (agent.py:435): however many operations are refused with   *)
(* one token, and however their retries interleave, they register one new  *)
(* agent.                                                                  *)
THEOREM OneRegistration == Spec => []OneRegistrationPerToken
  <1>1. AgentInv => OneRegistrationPerToken
    BY DEF AgentInv, ClientInv, CountInv, OneRegistrationPerToken
  <1> QED
    BY <1>1, Always, PTL

(* The token that an operation names as the one that failed is the one     *)
(* that its client sends (agent.py:436), whoever replaced the client.      *)
THEOREM ClientStaysCurrent == Spec => []ClientIsCurrent
  <1>1. AgentInv => ClientIsCurrent
    BY DEF AgentInv, ClientInv
  <1> QED
    BY <1>1, Always, PTL

(* A reply that the WebSocket brings before the ask knows its message's id *)
(* is not lost (agent.py:378), unless the cache dropped it.                *)
THEOREM EarlyReplies == Spec => []EarlyRepliesCount
  <1>1. AgentInv => EarlyRepliesCount
    BY DEF AgentInv, ReplyInv, CacheInv, EarlyRepliesCount
  <1> QED
    BY <1>1, Always, PTL-----------------------------------------------------------------------------
(* The lock, the token and the credentials file                            *)

(* _reauth_lock (agent.py:464): it is held by the one task that is inside  *)
(* it and by no other; a broken request and an ask that cancels its        *)
(* polling task in the middle of a registration release it.                *)
THEOREM LockIsNotLeaked == Spec => []LockInv
  <1>1. AgentInv => LockInv
    BY DEF AgentInv, ClientInv
  <1> QED
    BY <1>1, Always, PTL

(* A token that the broker accepts is never given up: the error 401 that   *)
(* starts a re-authentication (agent.py:443) may be an old one, but what   *)
(* is replaced is a token that is refused.                                 *)
GoodTokenStays == [][(token \in valid) => token' = token]_vars

(* Which steps replace the token, and that the lock protects them.         *)
LEMMA TokenIsReplaced ==
  ASSUME AgentInv, [Next]_vars
  PROVE  \/ token' = token
         \/ \E t \in Tasks : (Drop(t) \/ Registered(t)) /\ pc[t] \in Locked
  <1>1. CASE \E t \in Tasks : TaskStep(t)
    <2>1. PICK t \in Tasks : TaskStep(t)
      BY <1>1
    <2>2. CASE Drop(t) \/ Registered(t)
      BY <2>2 DEF Drop, Registered, Locked
    <2>3. CASE Refused(t) \/ Acquire(t) \/ Close(t) \/ ServeRegister(t) \/ Break(t) \/ Serve(t)
      BY <2>3 DEF Refused, Acquire, Forget, Close, ServeRegister, Break, Serve, session
    <2> QED
      BY <2>1, <2>2, <2>3 DEF TaskStep
  <1>2. CASE \E a \in Asks : AskStep(a)
    BY <1>2 DEF AskStep, Ask, Poll, FirstCall, Sent, Polled, Finish, session
  <1>3. CASE World
    BY <1>3 DEF World, PeerReplies, Dispatch, Expire, LinkBreaks, Connect, session
  <1>4. CASE UNCHANGED vars
    BY <1>4 DEF vars
  <1> QED
    BY <1>1, <1>2, <1>3, <1>4 DEF Next

THEOREM ReauthSparesGoodTokens == Spec => GoodTokenStays
  <1>1. AgentInv /\ [Next]_vars => ((token \in valid) => token' = token)
    <2> SUFFICES ASSUME AgentInv, [Next]_vars, NEW t \in Tasks, pc[t] \in Locked
                 PROVE  token \notin valid
      BY TokenIsReplaced
    <2> QED
      BY DEF AgentInv, ClientInv, KnowsInv, Knows
  <1> QED
    BY <1>1, Always, PTL DEF GoodTokenStays, Spec

(* The credentials file never holds a token that the agent has given up:   *)
(* it is emptied before the registration and written after it, under the   *)
(* lock (agent.py:470), so that a process that dies in between registers   *)
(* anew and does not come back with the token that was refused.            *)
FileFollowsToken ==
    /\ creds \in {0, token}
    /\ lock # None => creds = 0

LEMMA FileKept ==
  ASSUME AgentInv, FileFollowsToken, [Next]_vars
  PROVE  FileFollowsToken'
  <1> USE DEF FileFollowsToken
  <1>1. CASE \E t \in Tasks : TaskStep(t)
    <2>1. PICK t \in Tasks : TaskStep(t)
      BY <1>1
    <2>2. t # None /\ (pc[t] \in Locked => lock = t)
      BY TasksAre DEF AgentInv, ClientInv, LockInv
    <2>3. CASE Acquire(t)
      BY <2>3 DEF Acquire, Forget
    <2>4. CASE Drop(t)
      BY <2>2, <2>4 DEF Drop, Locked
    <2>5. CASE Registered(t)
      BY <2>5 DEF Registered
    <2>6. CASE Break(t)
      BY <2>6 DEF Break, Release
    <2>7. CASE Refused(t) \/ Close(t) \/ ServeRegister(t) \/ Serve(t)
      BY <2>7 DEF Refused, Close, ServeRegister, Serve, session
    <2> QED
      BY <2>1, <2>3, <2>4, <2>5, <2>6, <2>7 DEF TaskStep
  <1>2. CASE \E a \in Asks : AskStep(a)
    <2>1. token' = token /\ creds' = creds /\ lock' \in {lock, None}
      BY <1>2 DEF AskStep, Ask, Poll, FirstCall, Sent, Polled, Finish, Release, session
    <2> QED
      BY <2>1
  <1>3. CASE World
    BY <1>3 DEF World, PeerReplies, Dispatch, Expire, LinkBreaks, Connect, session
  <1>4. CASE UNCHANGED vars
    BY <1>4 DEF vars
  <1> QED
    BY <1>1, <1>2, <1>3, <1>4 DEF Next

THEOREM FileIsNeverStale == Spec => []FileFollowsToken
  <1>1. Init => FileFollowsToken
    BY DEF Init, FileFollowsToken
  <1> QED
    BY <1>1, FileKept, Always, PTL DEF Spec
=============================================================================
