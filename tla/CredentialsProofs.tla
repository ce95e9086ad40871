-------------------------- MODULE CredentialsProofs --------------------------
(***************************************************************************)
(* The credentials file keeps its types and implements CredentialStore,    *)
(* for any number of processes, names, registrations and starts.           *)
(***************************************************************************)
EXTENDS Credentials, TLAPS

Busy == {"load", "open", "write"}

(* What a process can be.                                                  *)
Places ==
    [at : {"off", "using", "registering", "load", "open", "write"},
     job : {"none", "first", "again", "remove"},
     name : Names \cup {0}, agent : Agents \cup {0}, token : Tokens \cup {0},
     seen : SUBSET Tokens]

(* No two tokens of E belong to one agent or to one name.                  *)
Distinct(E, aO, nO) == \A t, u \in E : (aO[t] = aO[u] \/ nO[t] = nO[u]) => t = u

(* What a process r has in hand was issued by the broker, and a token that *)
(* it is about to store is its own.                                        *)
Sane(r, aO, nO, k) ==
    /\ r.token \in 0..k
    /\ r.seen \subseteq 1..k /\ Distinct(r.seen, aO, nO)
    /\ r.agent # 0 => \E t \in 1..k : aO[t] = r.agent
    /\ r.at \in Busy => r.agent # 0 /\ r.token # 0
    /\ r.at \in Busy /\ r.job # "remove" =>
          aO[r.token] = r.agent /\ nO[r.token] = r.name
    /\ r.at = "registering" => r.job \in {"first", "again"}
    /\ r.at = "using" => r.token # 0

BrokerInv ==
    /\ valid \subseteq 1..issued
    /\ \A t \in 1..issued : agentOf[t] # 0

FileInv ==
    /\ text.entries \subseteq 1..issued
    /\ Distinct(text.entries, agentOf, nameOf)
    /\ text.form # "whole" => text.entries = {}

(* As long as nothing went wrong, the file is empty exactly while the one  *)
(* process that emptied it has not written it.                             *)
TurnInv ==
    ~ mishap =>
        \/ text.form = "whole" /\ Writers = {}
        \/ text.form = "empty" /\ \E p \in Processes : Writers = {p}

StoreInv ==
    /\ TypeOK
    /\ BrokerInv
    /\ FileInv
    /\ TurnInv
    /\ \A p \in Processes : Sane(proc[p], agentOf, nameOf, issued)

-----------------------------------------------------------------------------
LEMMA OffIsSane ==
    ASSUME NEW aO, NEW nO, NEW k \in Nat
    PROVE  /\ Off \in Places /\ Off.at = "off"
           /\ Sane(Off, aO, nO, k)
  BY BoundsAreNat DEF Off, Place, Places, Tokens, Agents, Sane, Distinct, Busy

LEMMA PlaceFields ==
    ASSUME NEW at, NEW job, NEW n, NEW a, NEW t, NEW seen
    PROVE  LET r == Place(at, job, n, a, t, seen)
           IN  r.at = at /\ r.job = job /\ r.name = n /\ r.agent = a /\ r.token = t /\ r.seen = seen
  BY DEF Place

LEMMA PlaceIsPlace ==
    ASSUME NEW at \in {"off", "using", "registering", "load", "open", "write"},
           NEW job \in {"none", "first", "again", "remove"},
           NEW n \in Names \cup {0}, NEW a \in Agents \cup {0}, NEW t \in Tokens \cup {0},
           NEW seen \in SUBSET Tokens
    PROVE  Place(at, job, n, a, t, seen) \in Places
  BY DEF Place, Places

(* A step of one process that leaves broker and counters alone.            *)
LEMMA OneProcess ==
  ASSUME StoreInv, NEW p \in Processes, NEW r \in Places,
         Sane(r, agentOf, nameOf, issued),
         Become(p, r), UNCHANGED brokerVars
  PROVE  /\ proc' \in [Processes -> Places]
         /\ proc'[p] = r /\ \A q \in Processes \ {p} : proc'[q] = proc[q]
         /\ \A q \in Processes : Sane(proc'[q], agentOf', nameOf', issued')
         /\ BrokerInv'
  <1>1. proc \in [Processes -> Places]
    BY DEF StoreInv, TypeOK, Places
  <1>2. /\ proc' \in [Processes -> Places]
        /\ proc'[p] = r /\ \A q \in Processes \ {p} : proc'[q] = proc[q]
    BY <1>1 DEF Become
  <1>3. agentOf' = agentOf /\ nameOf' = nameOf /\ issued' = issued /\ valid' = valid
    BY DEF brokerVars
  <1> QED
    BY <1>2, <1>3 DEF StoreInv, BrokerInv

(* ... and, before and after it, does not write.                           *)
LEMMA NoWriter ==
  ASSUME StoreInv, NEW p \in Processes, NEW r \in Places,
         Sane(r, agentOf, nameOf, issued),
         Become(p, r), UNCHANGED brokerVars, UNCHANGED <<text, mishap>>,
         proc[p].at # "write", r.at # "write",
         starts' \in 0..MaxStarts
  PROVE  StoreInv' /\ Writers' = Writers /\ \A q \in Writers : proc'[q] = proc[q]
  <1>1. /\ proc' \in [Processes -> Places]
        /\ proc'[p] = r /\ \A q \in Processes \ {p} : proc'[q] = proc[q]
        /\ \A q \in Processes : Sane(proc'[q], agentOf', nameOf', issued')
        /\ BrokerInv'
    BY OneProcess
  <1>2. Writers' = Writers /\ \A q \in Writers : proc'[q] = proc[q]
    BY <1>1 DEF Writers
  <1>3. agentOf' = agentOf /\ nameOf' = nameOf /\ issued' = issued /\ valid' = valid
    BY DEF brokerVars
  <1>4. TypeOK'
    <2>1. proc' \in [Processes ->
          [at : {"off", "using", "registering", "load", "open", "write"},
           job : {"none", "first", "again", "remove"},
           name : Names \cup {0}, agent : Agents \cup {0}, token : Tokens \cup {0},
           seen : SUBSET Tokens]]
      BY <1>1 DEF Places
    <2>2. \A q \in Processes : proc'[q].at \in {"load", "open", "write"} => proc'[q].agent # 0
      BY <1>1 DEF Sane, Busy
    <2> QED
      BY <1>3, <2>1, <2>2 DEF StoreInv, TypeOK
  <1>5. FileInv' /\ TurnInv'
    BY <1>2, <1>3 DEF StoreInv, FileInv, TurnInv
  <1> QED
    BY <1>1, <1>2, <1>4, <1>5 DEF StoreInv
-----------------------------------------------------------------------------
(* The steps that only prepare                                             *)

Prepares(p) ==
    \/ \E n \in Names : ConnectOrRegister(p, n) \/ Register(p, n)
    \/ \E n \in Names, t \in Tokens : UseToken(p, n, t)
    \/ Connect(p) \/ Rotate(p) \/ Refused(p) \/ Load(p)
    \/ End(p) /\ proc[p].at # "write"

(* The process becomes a sane one that does not write.                     *)
Turns(p) ==
    \E r \in Places : Become(p, r) /\ Sane(r, agentOf, nameOf, issued) /\ r.at # "write"

LEMMA FreshTurns ==
  ASSUME StoreInv, NEW p \in Processes, NEW n \in Names,
         Become(p, Place("registering", "first", n, 0, 0, {}))
  PROVE  Turns(p)
  <1> DEFINE r == Place("registering", "first", n, 0, 0, {})
  <1>0. /\ n \in Names \cup {0} /\ 0 \in Agents \cup {0} /\ 0 \in Tokens \cup {0}
        /\ {} \in SUBSET Tokens
    OBVIOUS
  <1>1. r \in Places
    BY <1>0, PlaceIsPlace
  <1>2. r.at = "registering" /\ r.job = "first" /\ r.token = 0 /\ r.agent = 0 /\ r.seen = {}
    BY PlaceFields
  <1>3. issued \in Nat
    BY BoundsAreNat DEF StoreInv, TypeOK
  <1>4. Become(p, r)
    OBVIOUS
  <1> HIDE DEF r
  <1>5. Sane(r, agentOf, nameOf, issued)
    BY <1>2, <1>3 DEF Sane, Distinct, Busy
  <1> QED
    BY <1>1, <1>2, <1>4, <1>5 DEF Turns

LEMMA UsingTurns ==
  ASSUME StoreInv, NEW p \in Processes, NEW n \in Names, NEW t \in 1..issued,
         NEW a \in Agents \cup {0}, a # 0 => a = agentOf[t],
         Become(p, Place("using", "none", n, a, t, {}))
  PROVE  Turns(p)
  <1> DEFINE r == Place("using", "none", n, a, t, {})
  <1>1. issued \in 0..MaxTokens /\ t \in Tokens /\ issued \in Nat /\ t # 0
    BY BoundsAreNat DEF StoreInv, TypeOK, Tokens
  <1>0. n \in Names \cup {0} /\ t \in Tokens \cup {0} /\ {} \in SUBSET Tokens
    BY <1>1
  <1>2. r \in Places
    BY <1>0, PlaceIsPlace
  <1>3. r.at = "using" /\ r.job = "none" /\ r.token = t /\ r.agent = a /\ r.seen = {}
    BY PlaceFields
  <1>4. Become(p, r)
    OBVIOUS
  <1> HIDE DEF r
  <1>5. Sane(r, agentOf, nameOf, issued)
    BY <1>1, <1>3 DEF Sane, Distinct, Busy
  <1> QED
    BY <1>2, <1>3, <1>4, <1>5 DEF Turns

LEMMA Prepared ==
  ASSUME StoreInv, NEW p \in Processes, Prepares(p)
  PROVE  /\ Turns(p)
         /\ proc[p].at # "write"
         /\ UNCHANGED brokerVars /\ UNCHANGED <<text, mishap>>
         /\ starts' \in 0..MaxStarts
  <1>1. /\ proc[p] \in Places /\ Sane(proc[p], agentOf, nameOf, issued)
        /\ issued \in 0..MaxTokens /\ starts \in 0..MaxStarts
        /\ agentOf \in [Tokens -> Agents \cup {0}] /\ nameOf \in [Tokens -> Names \cup {0}]
    BY DEF StoreInv, TypeOK, Places
  <1>2. issued \in Nat /\ \A t \in 1..issued : t \in Tokens /\ t # 0 /\ agentOf[t] \in Agents \cup {0}
    BY <1>1, BoundsAreNat DEF Tokens
  <1>3. ASSUME NEW n \in Names, ConnectOrRegister(p, n)
        PROVE  Turns(p) /\ proc[p].at # "write" /\ UNCHANGED brokerVars
               /\ UNCHANGED <<text, mishap>> /\ starts' \in 0..MaxStarts
    <2>1. CASE Become(p, Place("registering", "first", n, 0, 0, {}))
      BY <1>1, <1>3, <2>1, FreshTurns, BoundsAreNat DEF ConnectOrRegister, Begin
    <2>2. CASE \E t \in text.entries : Become(p, Place("using", "none", n, agentOf[t], t, {}))
      <3>1. PICK t \in text.entries : Become(p, Place("using", "none", n, agentOf[t], t, {}))
        BY <2>2
      <3>2. t \in 1..issued
        BY <3>1 DEF StoreInv, FileInv
      <3> QED
        BY <1>1, <1>2, <1>3, <3>1, <3>2, UsingTurns, BoundsAreNat DEF ConnectOrRegister, Begin
    <2> QED
      BY <1>3, <2>1, <2>2 DEF ConnectOrRegister
  <1>4. ASSUME NEW n \in Names, Register(p, n)
        PROVE  Turns(p) /\ proc[p].at # "write" /\ UNCHANGED brokerVars
               /\ UNCHANGED <<text, mishap>> /\ starts' \in 0..MaxStarts
    BY <1>1, <1>4, FreshTurns, BoundsAreNat DEF Register, Begin
  <1>5. ASSUME NEW n \in Names, NEW t \in Tokens, UseToken(p, n, t)
        PROVE  Turns(p) /\ proc[p].at # "write" /\ UNCHANGED brokerVars
               /\ UNCHANGED <<text, mishap>> /\ starts' \in 0..MaxStarts
    <2>1. t \in 1..issued /\ 0 \in Agents \cup {0}
      BY <1>2, <1>5 DEF UseToken, Tokens
    <2> QED
      BY <1>1, <1>5, <2>1, UsingTurns, BoundsAreNat DEF UseToken, Begin
  <1>6. ASSUME Connect(p)
        PROVE  Turns(p) /\ proc[p].at # "write" /\ UNCHANGED brokerVars
               /\ UNCHANGED <<text, mishap>> /\ starts' \in 0..MaxStarts
    <2> DEFINE r == [proc[p] EXCEPT !.agent = agentOf[proc[p].token]]
    <2>1. proc[p].token \in 1..issued
      BY <1>6 DEF Connect, StoreInv, BrokerInv
    <2>2. /\ r \in Places /\ r.at = "using" /\ r.token = proc[p].token
          /\ r.agent = agentOf[proc[p].token] /\ r.seen = proc[p].seen
      BY <1>1, <1>2, <1>6, <2>1 DEF Connect, Places
    <2>3. Become(p, r)
      BY <1>6 DEF Connect
    <2> HIDE DEF r
    <2>4. Sane(r, agentOf, nameOf, issued)
      BY <1>1, <2>1, <2>2 DEF Sane, Busy
    <2> QED
      BY <1>1, <1>6, <2>2, <2>3, <2>4 DEF Turns, Connect
  <1>7. ASSUME NEW j \in {"again", "remove"}, NEW at \in {"registering", "load"},
               at = "registering" => j = "again",
               at = "load" => j = "remove" /\ proc[p].agent # 0,
               proc[p].at = "using",
               Become(p, [proc[p] EXCEPT !.at = at, !.job = j])
        PROVE  Turns(p)
    <2> DEFINE r == [proc[p] EXCEPT !.at = at, !.job = j]
    <2>1. /\ r \in Places /\ r.at = at /\ r.job = j /\ r.token = proc[p].token
          /\ r.agent = proc[p].agent /\ r.seen = proc[p].seen
      BY <1>1, <1>7 DEF Places
    <2>2. Become(p, r)
      BY <1>7
    <2> HIDE DEF r
    <2>3. Sane(r, agentOf, nameOf, issued)
      BY <1>1, <1>7, <2>1 DEF Sane, Busy
    <2> QED
      BY <1>7, <2>1, <2>2, <2>3 DEF Turns
  <1>8. ASSUME Rotate(p)
        PROVE  Turns(p) /\ proc[p].at # "write" /\ UNCHANGED brokerVars
               /\ UNCHANGED <<text, mishap>> /\ starts' \in 0..MaxStarts
    <2>1. Become(p, [proc[p] EXCEPT !.at = "registering", !.job = "again"]) /\ proc[p].at = "using"
      BY <1>8 DEF Rotate
    <2>2. Turns(p)
      BY <1>7, <2>1
    <2> QED
      BY <1>1, <1>8, <2>2 DEF Rotate
  <1>9. ASSUME Refused(p)
        PROVE  Turns(p) /\ proc[p].at # "write" /\ UNCHANGED brokerVars
               /\ UNCHANGED <<text, mishap>> /\ starts' \in 0..MaxStarts
    <2>1. CASE proc[p].agent # 0 /\ Become(p, [proc[p] EXCEPT !.at = "load", !.job = "remove"])
      <3>1. Turns(p)
        BY <1>7, <1>9, <2>1 DEF Refused
      <3> QED
        BY <1>1, <1>9, <3>1 DEF Refused
    <2>2. CASE Become(p, [proc[p] EXCEPT !.at = "registering", !.job = "again"])
      <3>1. Turns(p)
        BY <1>7, <1>9, <2>2 DEF Refused
      <3> QED
        BY <1>1, <1>9, <3>1 DEF Refused
    <2> QED
      BY <1>9, <2>1, <2>2 DEF Refused
  <1>10. ASSUME Become(p, Off) PROVE Turns(p)
    BY <1>2, <1>10, OffIsSane DEF Turns
  <1>11. ASSUME Load(p)
         PROVE  Turns(p) /\ proc[p].at # "write" /\ UNCHANGED brokerVars
                /\ UNCHANGED <<text, mishap>> /\ starts' \in 0..MaxStarts
    <2>1. CASE Become(p, [proc[p] EXCEPT !.at = "open", !.seen = text.entries])
      <3> DEFINE r == [proc[p] EXCEPT !.at = "open", !.seen = text.entries]
      <3>1. text.entries \subseteq Tokens /\ text.entries \subseteq 1..issued
            /\ Distinct(text.entries, agentOf, nameOf)
        BY <1>2 DEF StoreInv, FileInv
      <3>2. /\ r \in Places /\ r.at = "open" /\ r.job = proc[p].job /\ r.token = proc[p].token
            /\ r.agent = proc[p].agent /\ r.seen = text.entries /\ r.name = proc[p].name
        BY <1>1, <3>1 DEF Places
      <3>3. Become(p, r)
        BY <2>1
      <3> HIDE DEF r
      <3>4. Sane(r, agentOf, nameOf, issued)
        BY <1>1, <1>11, <3>1, <3>2 DEF Sane, Busy, Load
      <3> QED
        BY <1>1, <1>11, <3>2, <3>3, <3>4 DEF Turns, Load
    <2>2. CASE Become(p, [proc[p] EXCEPT !.at = "using", !.job = "none"])
               /\ proc[p].job # "first"
      <3> DEFINE r == [proc[p] EXCEPT !.at = "using", !.job = "none"]
      <3>1. /\ r \in Places /\ r.at = "using" /\ r.token = proc[p].token
            /\ r.agent = proc[p].agent /\ r.seen = proc[p].seen
        BY <1>1 DEF Places
      <3>2. Become(p, r)
        BY <2>2
      <3> HIDE DEF r
      <3>3. Sane(r, agentOf, nameOf, issued)
        BY <1>1, <1>11, <3>1 DEF Sane, Busy, Load
      <3> QED
        BY <1>1, <1>11, <3>1, <3>2, <3>3 DEF Turns, Load
    <2>3. CASE Become(p, Off)
      <3>1. Turns(p)
        BY <1>10, <2>3
      <3> QED
        BY <1>1, <1>11, <3>1 DEF Load
    <2> QED
      BY <1>11, <2>1, <2>2, <2>3 DEF Load
  <1>12. ASSUME End(p), proc[p].at # "write"
         PROVE  Turns(p) /\ proc[p].at # "write" /\ UNCHANGED brokerVars
                /\ UNCHANGED <<text, mishap>> /\ starts' \in 0..MaxStarts
    <2>1. mishap \in BOOLEAN /\ Turns(p)
      BY <1>10, <1>12 DEF StoreInv, TypeOK, End
    <2> QED
      BY <1>1, <1>12, <2>1 DEF End
  <1> QED
    BY <1>3, <1>4, <1>5, <1>6, <1>8, <1>9, <1>11, <1>12 DEF Prepares
-----------------------------------------------------------------------------
(* The steps of the broker and of a write                                  *)

LEMMA UpdatedHeld ==
  ASSUME StoreInv, NEW p \in Processes, proc[p].at \in Busy
  PROVE  /\ Updated(p) \subseteq 1..issued
         /\ Distinct(Updated(p), agentOf, nameOf)
  <1>1. /\ Sane(proc[p], agentOf, nameOf, issued) /\ issued \in Nat
        /\ proc[p].token \in 1..issued /\ proc[p].seen \subseteq 1..issued
        /\ Distinct(proc[p].seen, agentOf, nameOf)
    BY BoundsAreNat DEF StoreInv, TypeOK, Sane
  <1>2. CASE proc[p].job = "remove"
    BY <1>1, <1>2 DEF Updated, Others, Distinct
  <1>3. CASE proc[p].job # "remove"
    <2>1. agentOf[proc[p].token] = proc[p].agent /\ nameOf[proc[p].token] = proc[p].name
      BY <1>1, <1>3 DEF Sane
    <2> QED
      BY <1>1, <1>3, <2>1 DEF Updated, Others, Distinct
  <1> QED
    BY <1>2, <1>3

LEMMA OpenStep ==
  ASSUME StoreInv, NEW p \in Processes, Open(p)
  PROVE  /\ StoreInv'
         /\ Writers' = Writers \cup {p} /\ \A q \in Processes : proc'[q].seen = proc[q].seen
         /\ ~ mishap' => Writers = {} /\ text = Whole(proc[p].seen)
  <1> DEFINE r == [proc[p] EXCEPT !.at = "write"]
  <1>1. /\ proc[p] \in Places /\ Sane(proc[p], agentOf, nameOf, issued) /\ proc[p].at = "open"
        /\ proc \in [Processes -> Places]
    BY DEF StoreInv, TypeOK, Places, Open
  <1>2. /\ r \in Places /\ r.at = "write" /\ r.job = proc[p].job /\ r.token = proc[p].token
        /\ r.agent = proc[p].agent /\ r.seen = proc[p].seen /\ r.name = proc[p].name
    BY <1>1 DEF Places
  <1>3. Become(p, r) /\ UNCHANGED brokerVars
    BY DEF Open
  <1> HIDE DEF r
  <1>4. Sane(r, agentOf, nameOf, issued)
    BY <1>1, <1>2 DEF Sane, Busy
  <1>5. /\ proc' \in [Processes -> Places]
        /\ proc'[p] = r /\ \A q \in Processes \ {p} : proc'[q] = proc[q]
        /\ \A q \in Processes : Sane(proc'[q], agentOf', nameOf', issued')
        /\ BrokerInv'
    BY <1>2, <1>3, <1>4, OneProcess
  <1>6. Writers' = Writers \cup {p} /\ \A q \in Processes : proc'[q].seen = proc[q].seen
    BY <1>2, <1>5 DEF Writers
  <1>7. text' = [form |-> "empty", entries |-> {}] /\ mishap' = (mishap \/ text # Whole(proc[p].seen))
        /\ starts' = starts
    BY DEF Open
  <1>8. ~ mishap' => Writers = {} /\ text = Whole(proc[p].seen) /\ ~ mishap
    <2> SUFFICES ASSUME ~ mishap' PROVE Writers = {} /\ text = Whole(proc[p].seen) /\ ~ mishap
      OBVIOUS
    <2>1. text = Whole(proc[p].seen) /\ ~ mishap
      BY <1>7
    <2>2. text.form = "whole"
      BY <2>1 DEF Whole
    <2> QED
      BY <2>1, <2>2 DEF StoreInv, TurnInv
  <1>9. text'.form = "empty" /\ text'.entries = {}
    BY <1>7
  <1>10. TypeOK'
    <2>1. proc' \in [Processes ->
          [at : {"off", "using", "registering", "load", "open", "write"},
           job : {"none", "first", "again", "remove"},
           name : Names \cup {0}, agent : Agents \cup {0}, token : Tokens \cup {0},
           seen : SUBSET Tokens]]
      BY <1>5 DEF Places
    <2>2. \A q \in Processes : proc'[q].at \in {"load", "open", "write"} => proc'[q].agent # 0
      BY <1>5 DEF Sane, Busy
    <2>3. text' \in [form : {"whole", "empty", "garbled"}, entries : SUBSET Tokens]
      BY <1>7
    <2>4. mishap' \in BOOLEAN
      BY <1>7 DEF StoreInv, TypeOK
    <2> QED
      BY <1>3, <1>7, <2>1, <2>2, <2>3, <2>4 DEF StoreInv, TypeOK, brokerVars
  <1>11. FileInv'
    BY <1>9 DEF FileInv, Distinct
  <1>12. TurnInv'
    BY <1>6, <1>8, <1>9 DEF TurnInv
  <1> QED
    BY <1>5, <1>6, <1>8, <1>10, <1>11, <1>12 DEF StoreInv

(* What a write leaves in the file, and who still writes.                  *)
LEMMA WriteStep ==
  ASSUME StoreInv, NEW p \in Processes, Write(p)
  PROVE  /\ StoreInv'
         /\ UNCHANGED brokerVars /\ mishap' = mishap
         /\ \/ text' = Whole(Updated(p))
            \/ mishap /\ text' = [form |-> "garbled", entries |-> {}]
         /\ ~ mishap => Writers = {p} /\ text.form = "empty"
  <1>1. /\ proc[p] \in Places /\ Sane(proc[p], agentOf, nameOf, issued) /\ proc[p].at = "write"
        /\ proc \in [Processes -> Places] /\ issued \in 0..MaxTokens /\ issued \in Nat
    BY BoundsAreNat DEF StoreInv, TypeOK, Places, Write
  <1>2. /\ proc[p].token \in 1..issued /\ proc[p].agent # 0
        /\ \E t \in 1..issued : agentOf[t] = proc[p].agent
    BY <1>1 DEF Sane, Busy
  <1>3. UNCHANGED brokerVars /\ mishap' = mishap /\ starts' = starts
    BY DEF Write
  <1>4. PICK r \in Places : Become(p, r) /\ Sane(r, agentOf, nameOf, issued) /\ r.at # "write"
    <2>1. CASE Become(p, Place("registering", "again", proc[p].name, 0, proc[p].token, {}))
      <3> DEFINE r == Place("registering", "again", proc[p].name, 0, proc[p].token, {})
      <3>1. r \in Places
        <4>1. /\ proc[p].name \in Names \cup {0} /\ proc[p].agent \in Agents \cup {0}
              /\ proc[p].token \in Tokens \cup {0} /\ {} \in SUBSET Tokens /\ 0 \in Agents \cup {0}
          BY <1>1 DEF Places
        <4> QED
          BY <4>1, PlaceIsPlace
      <3>2. r.at = "registering" /\ r.job = "again" /\ r.token = proc[p].token /\ r.agent = 0 /\ r.seen = {}
        BY PlaceFields
      <3>3. Become(p, r)
        BY <2>1
      <3> HIDE DEF r
      <3>4. Sane(r, agentOf, nameOf, issued)
        BY <1>1, <1>2, <3>2 DEF Sane, Distinct, Busy
      <3> QED
        BY <3>1, <3>2, <3>3, <3>4
    <2>2. CASE Become(p, Place("using", "none", proc[p].name, proc[p].agent, proc[p].token, {}))
      <3> DEFINE r == Place("using", "none", proc[p].name, proc[p].agent, proc[p].token, {})
      <3>1. r \in Places
        <4>1. /\ proc[p].name \in Names \cup {0} /\ proc[p].agent \in Agents \cup {0}
              /\ proc[p].token \in Tokens \cup {0} /\ {} \in SUBSET Tokens /\ 0 \in Agents \cup {0}
          BY <1>1 DEF Places
        <4> QED
          BY <4>1, PlaceIsPlace
      <3>2. r.at = "using" /\ r.job = "none" /\ r.token = proc[p].token /\ r.agent = proc[p].agent /\ r.seen = {}
        BY PlaceFields
      <3>3. Become(p, r)
        BY <2>2
      <3> HIDE DEF r
      <3>4. Sane(r, agentOf, nameOf, issued)
        BY <1>1, <1>2, <3>2 DEF Sane, Distinct, Busy
      <3> QED
        BY <3>1, <3>2, <3>3, <3>4
    <2> QED
      BY <2>1, <2>2 DEF Write
  <1>5. /\ proc' \in [Processes -> Places]
        /\ proc'[p] = r /\ \A q \in Processes \ {p} : proc'[q] = proc[q]
        /\ \A q \in Processes : Sane(proc'[q], agentOf', nameOf', issued')
        /\ BrokerInv'
    BY <1>3, <1>4, OneProcess
  <1>6. Writers' = Writers \ {p} /\ p \in Writers
    BY <1>1, <1>4, <1>5 DEF Writers
  <1>7. ~ mishap => Writers = {p} /\ text.form = "empty"
    BY <1>6 DEF StoreInv, TurnInv
  <1>8. \/ text' = Whole(Updated(p))
        \/ mishap /\ text' = [form |-> "garbled", entries |-> {}]
    <2>1. ~ mishap => text.entries \subseteq Updated(p)
      BY <1>7 DEF StoreInv, FileInv
    <2> QED
      BY <1>7, <2>1 DEF Write
  <1>9. /\ Updated(p) \subseteq 1..issued /\ Distinct(Updated(p), agentOf, nameOf)
        /\ Updated(p) \in SUBSET Tokens
    <2>1. Updated(p) \subseteq 1..issued /\ Distinct(Updated(p), agentOf, nameOf)
      BY <1>1, UpdatedHeld DEF Busy
    <2> QED
      BY <1>1, <2>1, BoundsAreNat DEF Tokens
  <1>10. agentOf' = agentOf /\ nameOf' = nameOf /\ issued' = issued /\ valid' = valid
    BY <1>3 DEF brokerVars
  <1>11. TypeOK'
    <2>1. proc' \in [Processes ->
          [at : {"off", "using", "registering", "load", "open", "write"},
           job : {"none", "first", "again", "remove"},
           name : Names \cup {0}, agent : Agents \cup {0}, token : Tokens \cup {0},
           seen : SUBSET Tokens]]
      BY <1>5 DEF Places
    <2>2. \A q \in Processes : proc'[q].at \in {"load", "open", "write"} => proc'[q].agent # 0
      BY <1>5 DEF Sane, Busy
    <2>3. text' \in [form : {"whole", "empty", "garbled"}, entries : SUBSET Tokens]
      BY <1>8, <1>9 DEF Whole
    <2> QED
      BY <1>3, <1>10, <2>1, <2>2, <2>3 DEF StoreInv, TypeOK
  <1>12. FileInv'
    <2>1. CASE text' = Whole(Updated(p))
      <3>1. text'.form = "whole" /\ text'.entries = Updated(p)
        BY <2>1 DEF Whole
      <3> QED
        BY <1>9, <1>10, <3>1 DEF FileInv
    <2>2. CASE text' = [form |-> "garbled", entries |-> {}]
      <3>1. text'.entries = {}
        BY <2>2
      <3> QED
        BY <3>1 DEF FileInv, Distinct
    <2> QED
      BY <1>8, <2>1, <2>2
  <1>13. TurnInv'
    <2> SUFFICES ASSUME ~ mishap PROVE text'.form = "whole" /\ Writers' = {}
      BY <1>3 DEF TurnInv
    <2> QED
      BY <1>6, <1>7, <1>8 DEF Whole
  <1> QED
    BY <1>3, <1>5, <1>7, <1>8, <1>11, <1>12, <1>13 DEF StoreInv

LEMMA CutOff ==
  ASSUME StoreInv, NEW p \in Processes, End(p), proc[p].at = "write"
  PROVE  StoreInv' /\ mishap' = TRUE /\ UNCHANGED brokerVars /\ text' = text
  <1>1. issued \in Nat /\ proc \in [Processes -> Places]
    BY BoundsAreNat DEF StoreInv, TypeOK, Places
  <1>2. Become(p, Off) /\ UNCHANGED brokerVars /\ text' = text /\ starts' = starts /\ mishap' = TRUE
    BY DEF End
  <1>3. Off \in Places /\ Sane(Off, agentOf, nameOf, issued)
    BY <1>1, OffIsSane
  <1>4. /\ proc' \in [Processes -> Places]
        /\ \A q \in Processes : Sane(proc'[q], agentOf', nameOf', issued')
        /\ BrokerInv'
    BY <1>2, <1>3, OneProcess
  <1>5. agentOf' = agentOf /\ nameOf' = nameOf /\ issued' = issued /\ valid' = valid
    BY <1>2 DEF brokerVars
  <1>6. TypeOK'
    <2>1. proc' \in [Processes ->
          [at : {"off", "using", "registering", "load", "open", "write"},
           job : {"none", "first", "again", "remove"},
           name : Names \cup {0}, agent : Agents \cup {0}, token : Tokens \cup {0},
           seen : SUBSET Tokens]]
      BY <1>4 DEF Places
    <2>2. \A q \in Processes : proc'[q].at \in {"load", "open", "write"} => proc'[q].agent # 0
      BY <1>4 DEF Sane, Busy
    <2> QED
      BY <1>2, <1>5, <2>1, <2>2 DEF StoreInv, TypeOK
  <1>7. FileInv' /\ TurnInv'
    BY <1>2, <1>5 DEF StoreInv, FileInv, TurnInv
  <1> QED
    BY <1>2, <1>4, <1>6, <1>7 DEF StoreInv
-----------------------------------------------------------------------------
(* A registration adds one token and leaves the others what they are.      *)
LEMMA RegisteredStep ==
  ASSUME StoreInv, NEW p \in Processes, Registered(p)
  PROVE  /\ StoreInv'
         /\ issued' = issued + 1 /\ issued' \in Tokens /\ UNCHANGED <<text, mishap>>
         /\ \A t \in 1..issued : agentOf'[t] = agentOf[t] /\ nameOf'[t] = nameOf[t]
         /\ Writers' = Writers /\ \A q \in Processes : proc'[q].seen = proc[q].seen
  <1>1. /\ proc[p] \in Places /\ Sane(proc[p], agentOf, nameOf, issued) /\ proc[p].at = "registering"
        /\ proc \in [Processes -> Places] /\ issued \in 0..MaxTokens /\ issued \in Nat
        /\ agentOf \in [Tokens -> Agents \cup {0}] /\ nameOf \in [Tokens -> Names \cup {0}]
        /\ issued < MaxTokens /\ MaxTokens \in Nat
    BY BoundsAreNat DEF StoreInv, TypeOK, Places, Registered
  <1>2. PICK a \in Tokens :
           /\ agentOf' = [agentOf EXCEPT ![issued'] = a]
           /\ Become(p, [proc[p] EXCEPT !.at = "load", !.agent = a, !.token = issued'])
    BY DEF Registered
  <1>3. /\ issued' = issued + 1 /\ issued' \in Tokens /\ issued' \in 0..MaxTokens
        /\ UNCHANGED <<text, mishap, starts>>
        /\ nameOf' = [nameOf EXCEPT ![issued'] = proc[p].name]
        /\ valid' = (valid \ {proc[p].token}) \cup {issued'}
    BY <1>1 DEF Registered, Tokens
  <1>4. \A t \in 1..issued : t \in Tokens /\ t # issued' /\ agentOf'[t] = agentOf[t] /\ nameOf'[t] = nameOf[t]
    BY <1>1, <1>2, <1>3 DEF Tokens
  <1>5. agentOf'[issued'] = a /\ nameOf'[issued'] = proc[p].name /\ a # 0
    BY <1>1, <1>2, <1>3 DEF Tokens
  <1>6. proc[p].seen \subseteq 1..issued /\ proc[p].job \in {"first", "again"}
    BY <1>1 DEF Sane
  <1> DEFINE r == [proc[p] EXCEPT !.at = "load", !.agent = a, !.token = issued']
  <1>7. /\ r \in Places /\ r.at = "load" /\ r.job = proc[p].job /\ r.token = issued'
        /\ r.agent = a /\ r.seen = proc[p].seen /\ r.name = proc[p].name
    <2>1. a \in Agents \cup {0} /\ issued' \in Tokens \cup {0}
      BY <1>3 DEF Agents
    <2> QED
      BY <1>1, <2>1 DEF Places
  <1>8. proc' = [proc EXCEPT ![p] = r]
    BY <1>2 DEF Become
  <1> HIDE DEF r
  <1>9. /\ proc' \in [Processes -> Places] /\ proc'[p] = r
        /\ \A q \in Processes \ {p} : proc'[q] = proc[q]
    BY <1>1, <1>7, <1>8
  <1>10. Writers' = Writers /\ \A q \in Processes : proc'[q].seen = proc[q].seen
    BY <1>1, <1>7, <1>9 DEF Writers
  <1>11. ASSUME NEW E, E \subseteq 1..issued, Distinct(E, agentOf, nameOf)
         PROVE  E \subseteq 1..issued' /\ Distinct(E, agentOf', nameOf')
    BY <1>1, <1>3, <1>4, <1>11 DEF Distinct
  <1>12. ASSUME NEW q \in Processes PROVE Sane(proc'[q], agentOf', nameOf', issued')
    <2>1. Sane(proc[q], agentOf, nameOf, issued)
      BY DEF StoreInv
    <2>2. proc[q].seen \subseteq 1..issued' /\ Distinct(proc[q].seen, agentOf', nameOf')
      BY <1>11, <2>1 DEF Sane
    <2>3. CASE q = p
      <3>1. issued' \in 1..issued' /\ issued' \in 0..issued' /\ issued' # 0
        BY <1>1, <1>3
      <3> QED
        BY <1>5, <1>6, <1>7, <1>9, <2>2, <2>3, <3>1 DEF Sane, Busy
    <2>4. CASE q # p
      <3>1. proc'[q] = proc[q]
        BY <1>9, <2>4
      <3>2. proc[q].token \in 0..issued'
        BY <1>1, <1>3, <2>1 DEF Sane
      <3>3. proc[q].agent # 0 => \E t \in 1..issued' : agentOf'[t] = proc[q].agent
        <4> SUFFICES ASSUME proc[q].agent # 0
                     PROVE  \E t \in 1..issued' : agentOf'[t] = proc[q].agent
          OBVIOUS
        <4>1. PICK t \in 1..issued : agentOf[t] = proc[q].agent
          BY <2>1 DEF Sane
        <4>2. t \in 1..issued' /\ agentOf'[t] = proc[q].agent
          BY <1>1, <1>3, <1>4, <4>1
        <4> QED
          BY <4>2
      <3>4. proc[q].at \in Busy /\ proc[q].job # "remove" =>
               agentOf'[proc[q].token] = proc[q].agent /\ nameOf'[proc[q].token] = proc[q].name
        <4> SUFFICES ASSUME proc[q].at \in Busy /\ proc[q].job # "remove"
                     PROVE  agentOf'[proc[q].token] = proc[q].agent /\ nameOf'[proc[q].token] = proc[q].name
          OBVIOUS
        <4>1. proc[q].token \in 1..issued
          BY <1>1, <2>1 DEF Sane
        <4> QED
          BY <1>4, <2>1, <4>1 DEF Sane
      <3> QED
        BY <2>1, <2>2, <3>1, <3>2, <3>3, <3>4 DEF Sane
    <2> QED
      BY <2>3, <2>4
  <1>13. BrokerInv'
    <2>1. valid \subseteq 1..issued
      BY DEF StoreInv, BrokerInv
    <2>2. valid' \subseteq 1..issued'
      <3>1. issued' \in 1..issued' /\ \A t \in 1..issued : t \in 1..issued'
        BY <1>1, <1>3
      <3> QED
        BY <1>3, <2>1, <3>1
    <2>3. ASSUME NEW t \in 1..issued' PROVE agentOf'[t] # 0
      <3>1. t = issued' \/ t \in 1..issued
        BY <1>1, <1>3
      <3> QED
        BY <1>4, <1>5, <3>1 DEF StoreInv, BrokerInv
    <2> QED
      BY <2>2, <2>3 DEF BrokerInv
  <1>14. FileInv'
    <2>1. text' = text
      BY <1>3
    <2> QED
      BY <1>11, <2>1 DEF StoreInv, FileInv
  <1>15. TurnInv'
    BY <1>3, <1>10 DEF StoreInv, TurnInv
  <1>16. TypeOK'
    <2>1. proc' \in [Processes ->
          [at : {"off", "using", "registering", "load", "open", "write"},
           job : {"none", "first", "again", "remove"},
           name : Names \cup {0}, agent : Agents \cup {0}, token : Tokens \cup {0},
           seen : SUBSET Tokens]]
      BY <1>9 DEF Places
    <2>2. \A q \in Processes : proc'[q].at \in {"load", "open", "write"} => proc'[q].agent # 0
      BY <1>12 DEF Sane, Busy
    <2>3. agentOf' \in [Tokens -> Agents \cup {0}]
      BY <1>1, <1>2 DEF Agents
    <2>4. proc[p].name \in Names \cup {0}
      BY <1>1 DEF Places
    <2>5. nameOf' \in [Tokens -> Names \cup {0}]
      BY <1>1, <1>3, <2>4
    <2>6. valid' \subseteq Tokens
      BY <1>3 DEF StoreInv, TypeOK
    <2> QED
      BY <1>3, <2>1, <2>2, <2>3, <2>5, <2>6 DEF StoreInv, TypeOK
  <1> QED
    BY <1>3, <1>4, <1>10, <1>12, <1>13, <1>14, <1>15, <1>16 DEF StoreInv

LEMMA ForgetStep ==
  ASSUME StoreInv, Forget
  PROVE  StoreInv'
  <1>1. UNCHANGED <<text, proc, agentOf, nameOf, issued, mishap, starts>> /\ valid' = {}
    BY DEF Forget
  <1>2. Writers' = Writers
    BY <1>1 DEF Writers
  <1> QED
    BY <1>1, <1>2 DEF StoreInv, TypeOK, BrokerInv, FileInv, TurnInv

LEMMA InitStoreInv == Init => StoreInv
  <1> SUFFICES ASSUME Init PROVE StoreInv
    OBVIOUS
  <1>1. Off \in Places /\ Off.at = "off" /\ Sane(Off, agentOf, nameOf, issued)
    BY OffIsSane DEF Init
  <1>2. \A p \in Processes : proc[p] = Off
    BY DEF Init
  <1>3. text.form = "whole" /\ text.entries = {} /\ Writers = {}
    BY <1>1, <1>2 DEF Init, Whole, Writers
  <1>4. proc \in [Processes ->
          [at : {"off", "using", "registering", "load", "open", "write"},
           job : {"none", "first", "again", "remove"},
           name : Names \cup {0}, agent : Agents \cup {0}, token : Tokens \cup {0},
           seen : SUBSET Tokens]]
    BY <1>1 DEF Init, Places
  <1>5. text \in [form : {"whole", "empty", "garbled"}, entries : SUBSET Tokens]
    BY DEF Init, Whole
  <1>6. TypeOK
    <2>1. 0 \in 0..MaxTokens /\ 0 \in 0..MaxStarts
      BY BoundsAreNat
    <2>2. agentOf \in [Tokens -> Agents \cup {0}] /\ nameOf \in [Tokens -> Names \cup {0}]
      BY DEF Init
    <2>3. \A p \in Processes : proc[p].at \in {"load", "open", "write"} => proc[p].agent # 0
      BY <1>1, <1>2
    <2> QED
      BY <1>4, <1>5, <2>1, <2>2, <2>3 DEF Init, TypeOK
  <1>7. BrokerInv /\ FileInv /\ TurnInv
    BY <1>3 DEF Init, BrokerInv, FileInv, TurnInv, Distinct
  <1> QED
    BY <1>1, <1>2, <1>6, <1>7 DEF StoreInv

LEMMA StepStoreInv == StoreInv /\ [Next]_vars => StoreInv'
  <1> SUFFICES ASSUME StoreInv, [Next]_vars PROVE StoreInv'
    OBVIOUS
  <1>1. ASSUME NEW p \in Processes, Step(p) PROVE StoreInv'
    <2>1. CASE Prepares(p)
      <3>1. /\ Turns(p) /\ proc[p].at # "write" /\ UNCHANGED brokerVars
            /\ UNCHANGED <<text, mishap>> /\ starts' \in 0..MaxStarts
        BY <2>1, Prepared
      <3>2. PICK r \in Places : Become(p, r) /\ Sane(r, agentOf, nameOf, issued) /\ r.at # "write"
        BY <3>1 DEF Turns
      <3> QED
        BY <3>1, <3>2, NoWriter
    <2>2. CASE Registered(p)
      BY <2>2, RegisteredStep
    <2>3. CASE Open(p)
      BY <2>3, OpenStep
    <2>4. CASE Write(p)
      BY <2>4, WriteStep
    <2>5. CASE End(p) /\ proc[p].at = "write"
      BY <2>5, CutOff
    <2> QED
      BY <1>1, <2>1, <2>2, <2>3, <2>4, <2>5 DEF Step, Prepares
  <1>2. CASE Forget
    BY <1>2, ForgetStep
  <1>3. CASE UNCHANGED vars
    <2>1. UNCHANGED <<text, proc, agentOf, nameOf, issued, valid, mishap, starts>>
      BY <1>3 DEF vars, brokerVars
    <2>2. Writers' = Writers
      BY <2>1 DEF Writers
    <2> QED
      BY <2>1, <2>2 DEF StoreInv, TypeOK, BrokerInv, FileInv, TurnInv
  <1> QED
    BY <1>1, <1>2, <1>3 DEF Next

(* Types, and no update of the file without an agent.                      *)
THEOREM TypeCorrect == Spec => []TypeOK
  <1>1. StoreInv => TypeOK
    BY DEF StoreInv
  <1> QED
    BY <1>1, InitStoreInv, StepStoreInv, PTL DEF Spec
-----------------------------------------------------------------------------
(* The mapping to CredentialStore                                          *)

LEMMA EntryFields ==
  ASSUME NEW t
  PROVE  Entry(t).agent = agentOf[t] /\ Entry(t).token = t /\ Entry(t).name = nameOf[t]
  BY DEF Entry

LEMMA ContentHeld ==
  ASSUME StoreInv
  PROVE  Content \subseteq 1..issued /\ Distinct(Content, agentOf, nameOf)
  <1>1. CASE text.form = "whole"
    BY <1>1 DEF StoreInv, FileInv, Content
  <1>2. CASE text.form # "whole" /\ mishap
    BY <1>2 DEF Content, Distinct
  <1>3. CASE text.form # "whole" /\ ~ mishap
    <2>1. PICK p \in Processes : Writers = {p}
      BY <1>3 DEF StoreInv, TurnInv
    <2>2. Content = proc[p].seen
      BY <1>3, <2>1 DEF Content
    <2> QED
      BY <2>2 DEF StoreInv, Sane
  <1> QED
    BY <1>1, <1>2, <1>3

(* The same of the next state.                                             *)
LEMMA ContentHeldNext ==
  ASSUME StoreInv'
  PROVE  Content' \subseteq 1..issued' /\ Distinct(Content', agentOf', nameOf')
  <1>1. CASE text'.form = "whole"
    BY <1>1 DEF StoreInv, FileInv, Content
  <1>2. CASE text'.form # "whole" /\ mishap'
    BY <1>2 DEF Content, Distinct
  <1>3. CASE text'.form # "whole" /\ ~ mishap'
    <2>1. PICK p \in Processes : Writers' = {p}
      BY <1>3 DEF StoreInv, TurnInv
    <2>2. Content' = proc'[p].seen
      BY <1>3, <2>1 DEF Content
    <2> QED
      BY <2>2 DEF StoreInv, Sane
  <1> QED
    BY <1>1, <1>2, <1>3

LEMMA InitMaps == Init => Store!Init
  <1> SUFFICES ASSUME Init PROVE Store!Init
    OBVIOUS
  <1>1. Content = {} /\ issued = 0 /\ mishap = FALSE
    BY DEF Init, Whole, Content
  <1>2. Saved = {} /\ Known = {}
    BY <1>1 DEF Saved, Known
  <1> QED
    BY <1>1, <1>2 DEF Store!Init

(* Nothing happens to the store if what it is made of stays the same.      *)
LEMMA StutterMaps ==
  ASSUME UNCHANGED <<text, agentOf, nameOf, issued, mishap>>,
         Writers' = Writers, \A q \in Writers : proc'[q].seen = proc[q].seen
  PROVE  UNCHANGED Store!storeVars
  <1>1. Content' = Content
    BY DEF Content
  <1>2. \A t : Entry(t)' = Entry(t)
    BY DEF Entry
  <1>3. Saved' = Saved /\ Known' = Known
    BY <1>1, <1>2 DEF Saved, Known
  <1> QED
    BY <1>3 DEF Store!storeVars

(* A mishap leaves entries that were issued, one per name and agent.       *)
LEMMA MishapMaps ==
  ASSUME StoreInv', mishap' = TRUE, UNCHANGED brokerVars
  PROVE  Store!Mishap
  <1>1. Content' \subseteq 1..issued' /\ Distinct(Content', agentOf', nameOf')
    BY ContentHeldNext
  <1>2. agentOf' = agentOf /\ nameOf' = nameOf /\ issued' = issued
    BY DEF brokerVars
  <1>3. \A t : Entry(t)' = Entry(t)
    BY <1>2 DEF Entry
  <1>4. Known' = Known
    BY <1>2, <1>3 DEF Known
  <1>5. Saved' = {Entry(t) : t \in Content'}
    BY <1>3 DEF Saved
  <1>6. Saved' \subseteq Known
    BY <1>1, <1>2, <1>5 DEF Known
  <1>7. Store!OnePerName(Saved')
    <2> SUFFICES ASSUME NEW t \in Content', NEW u \in Content',
                        Entry(t).name = Entry(u).name \/ Entry(t).agent = Entry(u).agent
                 PROVE  Entry(t) = Entry(u)
      BY <1>5 DEF Store!OnePerName
    <2> QED
      BY <1>1, <1>2, EntryFields DEF Distinct
  <1> QED
    BY <1>4, <1>6, <1>7 DEF Store!Mishap

LEMMA IssueMaps ==
  ASSUME StoreInv, NEW p \in Processes, Registered(p)
  PROVE  Store!Next
  <1>1. /\ issued' = issued + 1 /\ issued' \in Tokens /\ UNCHANGED <<text, mishap>>
        /\ \A t \in 1..issued : agentOf'[t] = agentOf[t] /\ nameOf'[t] = nameOf[t]
        /\ Writers' = Writers /\ \A q \in Processes : proc'[q].seen = proc[q].seen
        /\ issued \in Nat
    BY RegisteredStep, BoundsAreNat DEF StoreInv, TypeOK
  <1>2. Content' = Content /\ Content \subseteq 1..issued
    <2>1. \A q \in Writers : proc'[q].seen = proc[q].seen
      BY <1>1 DEF Writers
    <2>2. Content' = Content
      BY <1>1, <2>1 DEF Content
    <2> QED
      BY <2>2, ContentHeld
  <1>3. \A t \in 1..issued : Entry(t)' = Entry(t)
    BY <1>1 DEF Entry
  <1>4. Saved' = Saved
    BY <1>2, <1>3 DEF Saved
  <1> DEFINE e == [agent |-> agentOf'[issued'], token |-> issued', name |-> nameOf'[issued']]
  <1>5. 1..issued' = 1..issued \cup {issued'}
    BY <1>1
  <1>6. Known' = {Entry(t)' : t \in 1..issued} \cup {e}
    <2>1. Known' = {Entry(t)' : t \in 1..issued'}
      BY DEF Known
    <2>2. \A t : Entry(t)' = [agent |-> agentOf'[t], token |-> t, name |-> nameOf'[t]]
      BY DEF Entry
    <2> QED
      BY <1>5, <2>1, <2>2
  <1>7. Known' = Known \cup {e}
    BY <1>3, <1>6 DEF Known
  <1> HIDE DEF e
  <1> QED
    BY <1>1, <1>4, <1>7 DEF Store!Next, Store!Issue

LEMMA WriteMaps ==
  ASSUME StoreInv, NEW p \in Processes, Write(p)
  PROVE  Store!Next
  <1>1. /\ StoreInv'
        /\ UNCHANGED brokerVars /\ mishap' = mishap
        /\ \/ text' = Whole(Updated(p))
           \/ mishap /\ text' = [form |-> "garbled", entries |-> {}]
        /\ ~ mishap => Writers = {p} /\ text.form = "empty"
    BY WriteStep
  <1>2. mishap \in BOOLEAN
    BY DEF StoreInv, TypeOK
  <1>3. CASE mishap
    BY <1>1, <1>2, <1>3, MishapMaps DEF Store!Next
  <1>4. CASE ~ mishap
    <2>1. agentOf' = agentOf /\ nameOf' = nameOf /\ issued' = issued
      BY <1>1 DEF brokerVars
    <2>2. \A t : Entry(t)' = Entry(t)
      BY <2>1 DEF Entry
    <2>3. Content = proc[p].seen
      BY <1>1, <1>4 DEF Content
    <2>4. text'.form = "whole" /\ text'.entries = Updated(p)
      BY <1>1, <1>4 DEF Whole
    <2>5. Content' = Updated(p)
      BY <2>4 DEF Content
    <2>6. Known' = Known
      BY <2>1, <2>2 DEF Known
    <2>7. Saved = {Entry(t) : t \in proc[p].seen}
      BY <2>3 DEF Saved
    <2>8. Saved' = {Entry(t) : t \in Updated(p)}
      BY <2>2, <2>5 DEF Saved
    <2>9. /\ Sane(proc[p], agentOf, nameOf, issued) /\ proc[p].at = "write" /\ issued \in Nat
      BY BoundsAreNat DEF StoreInv, TypeOK, Write
    <2>10. CASE proc[p].job = "remove"
      <3>1. Updated(p) = {t \in proc[p].seen : agentOf[t] # proc[p].agent}
        BY <2>10 DEF Updated, Others
      <3>2. Saved' = {f \in Saved : f.agent # proc[p].agent}
        BY <2>7, <2>8, <3>1, EntryFields
      <3>3. PICK t \in 1..issued : agentOf[t] = proc[p].agent
        BY <2>9 DEF Sane, Busy
      <3>4. proc[p].agent \in {f.agent : f \in Known}
        BY <3>3, EntryFields DEF Known
      <3> QED
        BY <1>1, <1>4, <2>6, <3>2, <3>4 DEF Store!Next, Store!Remove
    <2>11. CASE proc[p].job # "remove"
      <3> DEFINE s == proc[p].token
      <3>1. s \in 1..issued /\ agentOf[s] = proc[p].agent /\ nameOf[s] = proc[p].name
        BY <2>9, <2>11 DEF Sane, Busy
      <3>2. Updated(p) = {t \in proc[p].seen : agentOf[t] # agentOf[s] /\ nameOf[t] # nameOf[s]} \cup {s}
        BY <2>11, <3>1 DEF Updated, Others
      <3> HIDE DEF s
      <3>3. Saved' = {f \in Saved : f.agent # Entry(s).agent /\ f.name # Entry(s).name} \cup {Entry(s)}
        BY <2>7, <2>8, <3>2, EntryFields
      <3>4. Entry(s) \in Known
        BY <3>1 DEF Known
      <3> QED
        BY <1>1, <1>4, <2>6, <3>3, <3>4 DEF Store!Next, Store!Store
    <2> QED
      BY <2>10, <2>11
  <1> QED
    BY <1>2, <1>3, <1>4

LEMMA OpenMaps ==
  ASSUME StoreInv, NEW p \in Processes, Open(p)
  PROVE  [Store!Next]_(Store!storeVars)
  <1>1. /\ StoreInv'
        /\ Writers' = Writers \cup {p} /\ \A q \in Processes : proc'[q].seen = proc[q].seen
        /\ ~ mishap' => Writers = {} /\ text = Whole(proc[p].seen)
    BY OpenStep
  <1>2. UNCHANGED brokerVars /\ text' = [form |-> "empty", entries |-> {}] /\ mishap' \in BOOLEAN
        /\ (~ mishap' => ~ mishap) /\ mishap \in BOOLEAN
    BY <1>1 DEF Open, StoreInv, TypeOK
  <1>3. CASE mishap' = TRUE
    BY <1>1, <1>2, <1>3, MishapMaps DEF Store!Next
  <1>4. CASE mishap' = FALSE
    <2>1. agentOf' = agentOf /\ nameOf' = nameOf /\ issued' = issued /\ mishap = FALSE
      BY <1>2, <1>4 DEF brokerVars
    <2>2. Content = proc[p].seen
      BY <1>1, <1>4 DEF Whole, Content
    <2>3. text'.form = "empty"
      BY <1>2
    <2>4. Content' = UNION {proc'[q].seen : q \in Writers'}
      BY <1>4, <2>3 DEF Content
    <2>5. Writers' = {p} /\ proc'[p].seen = proc[p].seen
      BY <1>1, <1>4
    <2>6. Content' = Content
      BY <2>2, <2>4, <2>5
    <2>7. \A t : Entry(t)' = Entry(t)
      BY <2>1 DEF Entry
    <2>8. Saved' = Saved /\ Known' = Known
      BY <2>1, <2>6, <2>7 DEF Saved, Known
    <2> QED
      BY <1>4, <2>1, <2>8 DEF Store!storeVars
  <1> QED
    BY <1>2, <1>3, <1>4

LEMMA StepMaps == StoreInv /\ [Next]_vars => [Store!Next]_(Store!storeVars)
  <1> SUFFICES ASSUME StoreInv, [Next]_vars PROVE [Store!Next]_(Store!storeVars)
    OBVIOUS
  <1>1. ASSUME NEW p \in Processes, Step(p) PROVE [Store!Next]_(Store!storeVars)
    <2>1. CASE Prepares(p)
      <3>1. /\ Turns(p) /\ proc[p].at # "write" /\ UNCHANGED brokerVars
            /\ UNCHANGED <<text, mishap>> /\ starts' \in 0..MaxStarts
        BY <2>1, Prepared
      <3>2. PICK r \in Places : Become(p, r) /\ Sane(r, agentOf, nameOf, issued) /\ r.at # "write"
        BY <3>1 DEF Turns
      <3>3. Writers' = Writers /\ \A q \in Writers : proc'[q] = proc[q]
        BY <3>1, <3>2, NoWriter
      <3>4. UNCHANGED <<text, agentOf, nameOf, issued, mishap>>
        BY <3>1 DEF brokerVars
      <3> QED
        BY <3>3, <3>4, StutterMaps
    <2>2. CASE Registered(p)
      BY <2>2, IssueMaps
    <2>3. CASE Open(p)
      BY <2>3, OpenMaps
    <2>4. CASE Write(p)
      BY <2>4, WriteMaps
    <2>5. CASE End(p) /\ proc[p].at = "write"
      BY <2>5, CutOff, MishapMaps DEF Store!Next
    <2> QED
      BY <1>1, <2>1, <2>2, <2>3, <2>4, <2>5 DEF Step, Prepares
  <1>2. CASE UNCHANGED <<text, proc, agentOf, nameOf, issued, mishap>>
    <2>1. Writers' = Writers
      BY <1>2 DEF Writers
    <2> QED
      BY <1>2, <2>1, StutterMaps
  <1> QED
    BY <1>1, <1>2 DEF Next, Forget, vars, brokerVars

(* Every update of the file is one update of the abstract store, until one *)
(* is cut off or written from a stale reading; from then on entries may be *)
(* missing, but none is made up and no name has two.                       *)
THEOREM Implements == Spec => ActsAsStore
  <1>1. StoreInv /\ [Next]_vars => [Store!Next]_(Store!storeVars)
    BY StepMaps
  <1> QED
    BY <1>1, InitMaps, InitStoreInv, StepStoreInv, PTL DEF Spec, ActsAsStore, Store!Spec
=============================================================================
