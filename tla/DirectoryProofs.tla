--------------------------- MODULE DirectoryProofs ---------------------------
(***************************************************************************)
(* Proofs about Directory, for any number of agents, contacts, requests    *)
(* and crashes, and for any limit of the room.                             *)
(***************************************************************************)
EXTENDS Directory, FiniteSetTheorems, SequenceTheorems, TLAPS

RowKinds == {"add", "remove", "adminAdd", "bulkAdd", "bulkRemove"}
OwnKinds == {"create", "join", "leave", "policy", "send"}

(* What every request carries.                                             *)
LEMMA AskFacts ==
  ASSUME NEW q \in Asks
  PROVE  /\ q.kind \in RowKinds \cup OwnKinds
         /\ q.kind \in OwnKinds => q.by \in Agents
         /\ q.kind \in RowKinds => q.rows # << >>
         /\ q.kind = "adminAdd" => Len(q.rows) = 1
         /\ q.rows \in Seq(Pairs)
         /\ q.kind = "send" => q.to \in Agents \/ (q.to = Nobody /\ q.inRoom)
         /\ q.policy \in Policies
  <1> USE DEF RowKinds, OwnKinds, Policies
  <1>1. CASE q \in RoomAsks
    <2>1. PICK kind \in {"create", "join", "leave"}, a \in Agents : q = Ask(kind, a)
      BY <1>1 DEF RoomAsks
    <2> QED
      BY <2>1 DEF Ask, NoAsk
  <1>2. CASE q \in RowAsks
    <2>1. PICK kind \in {"add", "remove", "adminAdd"}, p \in Pairs : \E a : q = OnRows(kind, a, <<p>>)
      BY <1>2 DEF RowAsks, Strangers
    <2>2. <<p>> \in Seq(Pairs) /\ <<p>> # << >> /\ Len(<<p>>) = 1
      OBVIOUS
    <2> QED
      BY <2>1, <2>2 DEF OnRows, Ask, NoAsk
  <1>3. CASE q \in BulkAsks
    <2>1. PICK kind \in {"bulkAdd", "bulkRemove"}, ps \in Bulks : q = OnRows(kind, Nobody, ps)
      BY <1>3 DEF BulkAsks
    <2>2. PICK n \in 1..MaxPairs : ps \in [1..n -> Pairs]
      BY <2>1 DEF Bulks
    <2>3. ps \in Seq(Pairs) /\ Len(ps) = n
      BY <2>2, BoundsAreNat
    <2>4. ps # << >>
      BY <2>3
    <2> QED
      BY <2>1, <2>3, <2>4 DEF OnRows, Ask, NoAsk
  <1>4. CASE q \in PolicyAsks
    <2>1. PICK a \in Agents, p \in Policies : q = [Ask("policy", a) EXCEPT !.policy = p]
      BY <1>4 DEF PolicyAsks
    <2> QED
      BY <2>1 DEF Ask, NoAsk
  <1>5. CASE q \in MessageAsks
    <2>1. PICK a \in Agents, t \in Targets : q = Message(a, t)
      BY <1>5 DEF MessageAsks
    <2>2. PICK d \in Agents \cup {Nobody}, inRoom \in BOOLEAN : t = <<d, inRoom>>
      BY DEF Targets
    <2>3. d # Nobody \/ inRoom
      BY <2>2 DEF Targets
    <2> QED
      BY <2>1, <2>2, <2>3 DEF Message, Ask, NoAsk
  <1> QED
    BY <1>1, <1>2, <1>3, <1>4, <1>5 DEF Asks
-----------------------------------------------------------------------------
(* A request awaits only statements of its own handler, and a row as long  *)
(* as it is to process one.                                                *)
Kinds(s) ==
    CASE s \in {"insertRoom", "insertOwner"} -> {"create"}
      [] s \in {"count", "insertMember"} -> {"join"}
      [] s = "deleteMember" -> {"leave"}
      [] s = "upsert" -> {"add"}
      [] s \in {"probe", "insertRow"} -> {"adminAdd", "bulkAdd"}
      [] s = "deleteRow" -> {"remove", "bulkRemove"}
      [] s = "setPolicy" -> {"policy"}
      [] s = "findRoom" -> {"join", "send"}
      [] s \in {"readPolicy", "readContact", "readMember", "insertMessage"} -> {"send"}
      [] OTHER -> RowKinds \cup OwnKinds

RowStatements == {"upsert", "probe", "insertRow", "deleteRow"}

LocalTo(r) ==
    /\ pc[r] = "idle" => ask[r] = NoAsk
    /\ pc[r] # "idle" => ask[r] \in Asks /\ ask[r].kind \in Kinds(pc[r])
    /\ pc[r] \in RowStatements => todo[r] # << >>
    /\ pc[r] \in {"readPolicy", "readContact"} => ask[r].to \in Agents
    /\ pc[r] = "readMember" => ask[r].inRoom
    /\ pc[r] = "findRoom" /\ ask[r].kind = "send" => ask[r].inRoom

Local == \A r \in Requests : LocalTo(r)

Sound == TypeOK /\ Local

LEMMA InitSound == Init => Sound
  <1> SUFFICES ASSUME Init
               PROVE  Sound
    OBVIOUS
  <1>1. << >> \in Seq(Pairs) /\ 0 \in 0..MaxCrashes
    BY BoundsAreNat
  <1> QED
    BY <1>1 DEF Init, Sound, TypeOK, Local, LocalTo, RowStatements

(* What is common to the statements of a request: it changes its own place *)
(* and rows, and not what is durable.                                      *)
Statement(r) ==
    \/ InsertRoom(r) \/ InsertOwner(r)
    \/ FindRoom(r) \/ Count(r) \/ InsertMember(r) \/ DeleteMember(r)
    \/ Upsert(r) \/ Probe(r) \/ InsertRow(r) \/ DeleteRow(r) \/ SetPolicy(r)
    \/ ReadPolicy(r) \/ ReadContact(r) \/ ReadMember(r) \/ InsertMessage(r)

LEMMA Frame ==
  ASSUME Sound, NEW r \in Requests, Statement(r)
  PROVE  /\ pc[r] \in Statements \ {"commit"}
         /\ pc'[r] \in (Statements \ {"insertRoom"}) \cup {"refused", "failed"}
         /\ pc' = [pc EXCEPT ![r] = pc'[r]]
         /\ todo' = [todo EXCEPT ![r] = todo'[r]]
         /\ UNCHANGED <<ask, disk, crashes>>
  <1>1. /\ pc \in [Requests -> Statements \cup {"idle", "done", "refused", "failed", "lost"}]
        /\ todo \in [Requests -> Seq(Pairs)]
    BY DEF Sound, TypeOK
  <1> USE <1>1 DEF Execute, ExecuteRow, Statements
  <1>2. CASE InsertRoom(r)
    BY <1>2 DEF InsertRoom
  <1>3. CASE InsertOwner(r)
    BY <1>3 DEF InsertOwner
  <1>4. CASE FindRoom(r)
    BY <1>4 DEF FindRoom
  <1>5. CASE Count(r)
    BY <1>5 DEF Count
  <1>6. CASE InsertMember(r)
    BY <1>6 DEF InsertMember
  <1>7. CASE DeleteMember(r)
    BY <1>7 DEF DeleteMember
  <1>8. CASE Upsert(r)
    BY <1>8 DEF Upsert
  <1>9. CASE Probe(r)
    <2>1. CASE \E n \in {"insertRow", "refused"} : Execute(r, db, n)
      BY <1>9, <2>1 DEF Probe
    <2>2. CASE ExecuteRow(r, db, "probe")
      BY <1>9, <2>2 DEF Probe
    <2> QED
      BY <1>9, <2>1, <2>2 DEF Probe
  <1>10. CASE InsertRow(r)
    <2>1. CASE Execute(r, db, "failed")
      BY <1>10, <2>1 DEF InsertRow
    <2>2. CASE ExecuteRow(r, [db EXCEPT !.contacts = @ \cup {Head(todo[r])}], "probe")
      BY <1>10, <2>2 DEF InsertRow
    <2> QED
      BY <1>10, <2>1, <2>2 DEF InsertRow
  <1>11. CASE DeleteRow(r)
    BY <1>11 DEF DeleteRow
  <1>12. CASE SetPolicy(r)
    BY <1>12 DEF SetPolicy
  <1>13. CASE ReadPolicy(r)
    BY <1>13 DEF ReadPolicy, AfterAgent
  <1>14. CASE ReadContact(r)
    BY <1>14 DEF ReadContact, AfterAgent
  <1>15. CASE ReadMember(r)
    BY <1>15 DEF ReadMember
  <1>16. CASE InsertMessage(r)
    BY <1>16 DEF InsertMessage
  <1> QED
    BY <1>2, <1>3, <1>4, <1>5, <1>6, <1>7, <1>8, <1>9, <1>10, <1>11, <1>12, <1>13, <1>14, <1>15, <1>16 DEF Statement

(* A statement leaves tables, and its request where its handler may be.    *)
LEMMA StatementSound ==
  ASSUME Sound, NEW r \in Requests, Statement(r)
  PROVE  db' \in Tables /\ todo'[r] \in Seq(Pairs) /\ LocalTo(r)'
  <1>1. /\ pc \in [Requests -> Statements \cup {"idle", "done", "refused", "failed", "lost"}]
        /\ todo \in [Requests -> Seq(Pairs)]
        /\ db \in Tables
        /\ LocalTo(r)
    BY DEF Sound, TypeOK, Local
  <1>2. /\ ask' = ask
        /\ pc[r] \in Statements \ {"commit"}
        /\ ask[r] \in Asks /\ ask[r].kind \in Kinds(pc[r])
    BY <1>1, Frame DEF LocalTo, Statements
  <1>3. /\ ask[r].kind \in OwnKinds => ask[r].by \in Agents
        /\ ask[r].kind = "send" => ask[r].to \in Agents \/ (ask[r].to = Nobody /\ ask[r].inRoom)
        /\ ask[r].policy \in Policies
        /\ ask[r].kind \in RowKinds \cup OwnKinds
    BY <1>2, AskFacts
  <1>4. ASSUME pc[r] \in RowStatements
        PROVE  /\ Head(todo[r]) \in Pairs
               /\ Tail(todo[r]) \in Seq(Pairs)
               /\ Len(todo[r]) > 1 => Tail(todo[r]) # << >>
    <2> SUFFICES ASSUME NEW s \in Seq(Pairs), s # << >>
                 PROVE  /\ Head(s) \in Pairs /\ Tail(s) \in Seq(Pairs)
                        /\ Len(s) > 1 => Tail(s) # << >>
      BY <1>1, <1>4 DEF LocalTo
    <2>1. Head(s) \in Pairs /\ Tail(s) \in Seq(Pairs) /\ Len(Tail(s)) = Len(s) - 1
      BY HeadTailProperties
    <2>2. Len(s) > 1 => Len(Tail(s)) # 0
      BY <2>1
    <2>3. Len(<< >>) = 0
      OBVIOUS
    <2> QED
      BY <2>1, <2>2, <2>3
  <1>20. \A p \in Pairs : /\ [db EXCEPT !.contacts = @ \cup {p}] \in Tables
                         /\ [db EXCEPT !.contacts = @ \ {p}] \in Tables
    BY <1>1 DEF Tables
  <1>21. ASSUME todo'[r] \in Seq(Pairs), pc'[r] # "idle", ask[r].kind \in Kinds(pc'[r]),
               pc'[r] \notin {"readPolicy", "readContact", "readMember", "findRoom"},
               pc'[r] \in RowStatements => todo'[r] # << >>
        PROVE  LocalTo(r)'
    BY <1>2, <1>21 DEF LocalTo
  <1>22. /\ Kinds("upsert") = {"add"}
         /\ Kinds("probe") = {"adminAdd", "bulkAdd"} /\ Kinds("insertRow") = {"adminAdd", "bulkAdd"}
         /\ Kinds("deleteRow") = {"remove", "bulkRemove"}
         /\ \A end \in {"refused", "failed", "commit"} : Kinds(end) = RowKinds \cup OwnKinds
    BY DEF Kinds
  <1> USE DEF Execute, ExecuteRow
  <1>5. CASE InsertRoom(r)
    BY <1>5, <1>1, <1>2, <1>3 DEF InsertRoom,
           LocalTo, Tables, Statements, RowStatements, Kinds, OwnKinds, RowKinds
  <1>6. CASE InsertOwner(r)
    BY <1>6, <1>1, <1>2, <1>3 DEF InsertOwner,
           LocalTo, Tables, Statements, RowStatements, Kinds, OwnKinds, RowKinds
  <1>7. CASE FindRoom(r)
    BY <1>7, <1>1, <1>2, <1>3 DEF FindRoom,
           LocalTo, Tables, Statements, RowStatements, Kinds, OwnKinds, RowKinds
  <1>8. CASE Count(r)
    BY <1>8, <1>1, <1>2, <1>3 DEF Count,
           LocalTo, Tables, Statements, RowStatements, Kinds, OwnKinds, RowKinds
  <1>9. CASE InsertMember(r)
    BY <1>9, <1>1, <1>2, <1>3 DEF InsertMember,
           LocalTo, Tables, Statements, RowStatements, Kinds, OwnKinds, RowKinds
  <1>10. CASE DeleteMember(r)
    BY <1>10, <1>1, <1>2, <1>3 DEF DeleteMember,
           LocalTo, Tables, Statements, RowStatements, Kinds, OwnKinds, RowKinds
  <1>11. CASE Upsert(r)
    <2>1. db' \in Tables
      <3>1. PICK p \in Pairs : p = Head(todo[r])
        BY <1>11, <1>4 DEF Upsert, RowStatements
      <3>2. db' = [db EXCEPT !.contacts = @ \cup {p}]
        BY <1>11, <3>1 DEF Upsert
      <3> QED
        BY <1>20, <3>2
    <2>2. pc'[r] = "commit" /\ todo'[r] = todo[r]
      BY <1>11, <1>1 DEF Upsert
    <2> QED
      BY <2>1, <2>2, <1>1, <1>2, <1>3, <1>21, <1>22 DEF RowStatements
  <1>12. CASE Probe(r)
    <2>1. db' = db /\ pc[r] = "probe"
      BY <1>12, <1>1 DEF Probe
    <2>2. \/ pc'[r] = "refused" /\ todo'[r] = todo[r]
          \/ pc'[r] = "insertRow" /\ todo'[r] = todo[r]
          \/ pc'[r] = "probe" /\ todo'[r] = Tail(todo[r]) /\ Len(todo[r]) > 1
          \/ pc'[r] = "commit" /\ todo'[r] = Tail(todo[r])
      BY <1>12, <1>1 DEF Probe
    <2>3. todo'[r] \in Seq(Pairs) /\ (pc'[r] \in RowStatements => todo'[r] # << >>)
      BY <2>1, <2>2, <1>1, <1>4 DEF RowStatements, LocalTo
    <2>4. ask[r].kind \in Kinds(pc'[r])
      BY <2>1, <2>2, <1>2, <1>3, <1>22
    <2>5. pc'[r] \notin {"idle", "readPolicy", "readContact", "readMember", "findRoom"}
      BY <2>1, <2>2
    <2> QED
      BY <2>1, <2>3, <2>4, <2>5, <1>1, <1>21
  <1>13. CASE InsertRow(r)
    <2>1. pc[r] = "insertRow"
      BY <1>13, <1>1 DEF InsertRow
    <2>2. db' \in Tables
      <3>1. PICK p \in Pairs : p = Head(todo[r])
        BY <2>1, <1>4 DEF RowStatements
      <3>2. db' \in {db, [db EXCEPT !.contacts = @ \cup {p}]}
        BY <1>13, <3>1 DEF InsertRow
      <3> QED
        BY <1>1, <1>20, <3>2
    <2>3. \/ pc'[r] = "failed" /\ todo'[r] = todo[r]
          \/ pc'[r] = "probe" /\ todo'[r] = Tail(todo[r]) /\ Len(todo[r]) > 1
          \/ pc'[r] = "commit" /\ todo'[r] = Tail(todo[r])
      BY <1>13, <1>1 DEF InsertRow
    <2>4. todo'[r] \in Seq(Pairs) /\ (pc'[r] \in RowStatements => todo'[r] # << >>)
      BY <2>1, <2>2, <2>3, <1>1, <1>4 DEF RowStatements, LocalTo
    <2>5. ask[r].kind \in Kinds(pc'[r])
      BY <2>1, <2>2, <2>3, <1>2, <1>3, <1>22
    <2>6. pc'[r] \notin {"idle", "readPolicy", "readContact", "readMember", "findRoom"}
      BY <2>1, <2>2, <2>3
    <2> QED
      BY <2>1, <2>2, <2>4, <2>5, <2>6, <1>1, <1>21
  <1>14. CASE DeleteRow(r)
    <2>1. db' \in Tables
      BY <1>14, <1>1, <1>4 DEF DeleteRow, Tables, RowStatements
    <2>2. /\ pc[r] = "deleteRow" /\ todo'[r] = Tail(todo[r])
          /\ pc'[r] = IF Len(todo[r]) > 1 THEN "deleteRow" ELSE "commit"
      BY <1>14, <1>1 DEF DeleteRow
    <2>3. todo'[r] \in Seq(Pairs) /\ (pc'[r] \in RowStatements => todo'[r] # << >>)
      BY <2>1, <2>2, <1>1, <1>4 DEF RowStatements, LocalTo
    <2>4. ask[r].kind \in Kinds(pc'[r])
      BY <2>1, <2>2, <1>2, <1>3, <1>22
    <2>5. pc'[r] \notin {"idle", "readPolicy", "readContact", "readMember", "findRoom"}
      BY <2>1, <2>2
    <2> QED
      BY <2>1, <2>2, <2>3, <2>4, <2>5, <1>1, <1>21
  <1>15. CASE SetPolicy(r)
    BY <1>15, <1>1, <1>2, <1>3 DEF SetPolicy,
           LocalTo, Tables, Statements, RowStatements, Kinds, OwnKinds, RowKinds
  <1>16. CASE ReadPolicy(r)
    <2>1. db' = db /\ todo'[r] = todo[r] /\ ask[r].kind = "send"
      BY <1>16, <1>1, <1>2, <1>3 DEF Kinds, ReadPolicy
    <2>2. \/ pc'[r] = "findRoom" /\ ask[r].inRoom
          \/ pc'[r] = "insertMessage"
          \/ pc'[r] = "readContact" /\ pc[r] = "readPolicy"
      BY <1>16, <1>1, <1>2, <1>3 DEF Kinds, ReadPolicy, AfterAgent
    <2> QED
      BY <2>1, <2>2, <1>1, <1>2, <1>3 DEF LocalTo, Statements, RowStatements, Kinds, OwnKinds, RowKinds
  <1>17. CASE ReadContact(r)
    <2>1. db' = db /\ todo'[r] = todo[r] /\ ask[r].kind = "send"
      BY <1>17, <1>1, <1>2, <1>3 DEF Kinds, ReadContact
    <2>2. \/ pc'[r] = "findRoom" /\ ask[r].inRoom
          \/ pc'[r] = "insertMessage"
          \/ pc'[r] = "refused" /\ pc[r] = "readContact"
      BY <1>17, <1>1, <1>2, <1>3 DEF Kinds, ReadContact, AfterAgent
    <2> QED
      BY <2>1, <2>2, <1>1, <1>2, <1>3 DEF LocalTo, Statements, RowStatements, Kinds, OwnKinds, RowKinds
  <1>18. CASE ReadMember(r)
    BY <1>18, <1>1, <1>2, <1>3 DEF ReadMember,
           LocalTo, Tables, Statements, RowStatements, Kinds, OwnKinds, RowKinds
  <1>19. CASE InsertMessage(r)
    BY <1>19, <1>1, <1>2, <1>3 DEF InsertMessage,
           LocalTo, Tables, Statements, RowStatements, Kinds, OwnKinds, RowKinds
  <1> QED
    BY <1>5, <1>6, <1>7, <1>8, <1>9, <1>10, <1>11, <1>12, <1>13, <1>14, <1>15, <1>16, <1>17, <1>18, <1>19 DEF Statement

(* What is permitted to a running request is remembered.                   *)
LEMMA ObserveFacts ==
  ASSUME Observe
  PROVE  /\ granted \subseteq granted'
         /\ granted' \subseteq granted \cup (Requests \X {"agent", "room"})
         /\ \A r \in Requests : \A target \in Permits(db', ask'[r]) :
              Running(r)' => <<r, target>> \in granted'
  <1> DEFINE Now(r) == {r} \X Permits(db', ask'[r])
             Running1 == {r \in Requests : Running(r)'}
             New == UNION {Now(r) : r \in Running1}
  <1>1. granted' = granted \cup New
    BY DEF Observe
  <1>2. \A r \in Requests : Permits(db', ask'[r]) \subseteq {"agent", "room"}
    BY DEF Permits
  <1>3. ASSUME NEW g \in New
        PROVE  g \in Requests \X {"agent", "room"}
    <2>1. PICK r \in Running1 : g \in Now(r)
      OBVIOUS
    <2> QED
      BY <2>1, <1>2
  <1>4. ASSUME NEW r \in Requests, NEW target \in Permits(db', ask'[r]), Running(r)'
        PROVE  <<r, target>> \in New
    <2>1. r \in Running1 /\ <<r, target>> \in Now(r)
      BY <1>4
    <2> QED
      BY <2>1
  <1> HIDE DEF New
  <1> QED
    BY <1>1, <1>3, <1>4

(* Every step keeps the types, and every request within its handler.       *)
LEMMA SoundStep == Sound /\ [Next]_vars => Sound'
  <1> SUFFICES ASSUME Sound, [Next]_vars
               PROVE  Sound'
    OBVIOUS
  <1> DEFINE Places == Statements \cup {"idle", "done", "refused", "failed", "lost"}
  <1>1. /\ pc \in [Requests -> Places]
        /\ todo \in [Requests -> Seq(Pairs)]
        /\ ask \in [Requests -> Asks \cup {NoAsk}]
        /\ db \in Tables /\ disk \in Tables
        /\ granted \subseteq Requests \X {"agent", "room"}
        /\ crashes \in 0..MaxCrashes
        /\ \A q \in Requests : LocalTo(q)
    BY DEF Sound, TypeOK, Local
  <1>2. CASE UNCHANGED vars
    BY <1>1, <1>2 DEF vars, Sound, TypeOK, Local, LocalTo
  <1>3. Observe => granted' \subseteq Requests \X {"agent", "room"}
    BY <1>1, ObserveFacts
  <1>4. ASSUME NEW r \in Requests, Statement(r), Observe
        PROVE  Sound'
    <2>1. /\ pc'[r] \in (Statements \ {"insertRoom"}) \cup {"refused", "failed"}
          /\ pc' = [pc EXCEPT ![r] = pc'[r]]
          /\ todo' = [todo EXCEPT ![r] = todo'[r]]
          /\ UNCHANGED <<ask, disk, crashes>>
      BY <1>4, Frame
    <2>2. db' \in Tables /\ todo'[r] \in Seq(Pairs) /\ LocalTo(r)'
      BY <1>4, StatementSound
    <2>3. \A q \in Requests \ {r} : LocalTo(q)'
      BY <2>1, <1>1 DEF LocalTo
    <2> QED
      BY <1>1, <1>3, <1>4, <2>1, <2>2, <2>3 DEF Sound, TypeOK, Local
  <1>5. ASSUME NEW r \in Requests, NEW q \in Asks, Submit(r, q), Observe
        PROVE  Sound'
    <2>1. First(q) \in Statements /\ q.kind \in Kinds(First(q))
      BY AskFacts DEF First, Statements, Kinds, RowKinds, OwnKinds
    <2>2. /\ First(q) \in RowStatements => q.kind \in RowKinds
          /\ First(q) \notin {"readContact", "readMember"}
          /\ First(q) = "readPolicy" => q.kind = "send" /\ q.to # Nobody
          /\ First(q) = "findRoom" /\ q.kind = "send" => q.to = Nobody
      BY AskFacts DEF First, RowStatements, RowKinds, OwnKinds
    <2>3. /\ ask' = [ask EXCEPT ![r] = q] /\ todo' = [todo EXCEPT ![r] = q.rows]
          /\ pc' = [pc EXCEPT ![r] = First(q)]
          /\ UNCHANGED <<db, disk, crashes>>
      BY <1>5 DEF Submit
    <2>4. LocalTo(r)'
      <3>1. pc'[r] = First(q) /\ ask'[r] = q /\ todo'[r] = q.rows
        BY <1>1, <2>3
      <3>2. First(q) # "idle"
        BY <2>1 DEF Statements
      <3>3. First(q) \in RowStatements => q.rows # << >>
        BY <2>2, AskFacts
      <3>4. q.kind = "send" => q.to \in Agents \/ (q.to = Nobody /\ q.inRoom)
        BY AskFacts
      <3> QED
        BY <2>1, <2>2, <3>1, <3>2, <3>3, <3>4, NobodyIsNoAgent DEF LocalTo
    <2>5. \A s \in Requests \ {r} : LocalTo(s)'
      BY <1>1, <2>3 DEF LocalTo
    <2>6. q.rows \in Seq(Pairs)
      BY AskFacts
    <2> QED
      BY <1>1, <1>3, <1>5, <2>1, <2>3, <2>4, <2>5, <2>6 DEF Sound, TypeOK, Local
  <1>6. ASSUME NEW r \in Requests, Commit(r), Observe
        PROVE  Sound'
    <2>1. \A q \in Requests : LocalTo(q)'
      BY <1>1, <1>6, AskFacts DEF Commit, LocalTo, Statements, RowStatements, Kinds
    <2> QED
      BY <1>1, <1>3, <1>6, <2>1 DEF Commit, Sound, TypeOK, Local
  <1>7. ASSUME Crash, Observe
        PROVE  Sound'
    <2>1. \A q \in Requests : pc'[q] = pc[q] \/ (pc'[q] = "lost" /\ pc[q] # "idle")
      BY <1>7 DEF Crash, Running, Statements
    <2>2. \A q \in Requests : LocalTo(q)'
      BY <1>1, <1>7, <2>1, AskFacts DEF Crash, LocalTo, RowStatements, Kinds
    <2> QED
      BY <1>1, <1>3, <1>7, <2>2, BoundsAreNat DEF Crash, Sound, TypeOK, Local
  <1> QED
    BY <1>2, <1>4, <1>5, <1>6, <1>7 DEF Next, Step, Statement
-----------------------------------------------------------------------------
LEMMA FiniteMembers ==
  ASSUME NEW S \in SUBSET Agents
  PROVE  IsFiniteSet(S) /\ Cardinality(S) \in Nat
  BY FiniteSides, FS_Subset, FS_CardinalityType

(* What a statement does to the room, its members and the messages.        *)
LEMMA Effect ==
  ASSUME Sound, NEW r \in Requests, Statement(r)
  PROVE  /\ db'.room = (db.room \/ pc[r] = "insertRoom")
         /\ db'.members = IF pc[r] \in {"insertOwner", "insertMember"}
                          THEN db.members \cup {ask[r].by}
                          ELSE IF pc[r] = "deleteMember" THEN db.members \ {ask[r].by}
                          ELSE db.members
         /\ db'.messages = IF pc[r] = "insertMessage" THEN db.messages \cup {r} ELSE db.messages
         /\ pc'[r] = "insertOwner" => pc[r] = "insertRoom"
         /\ pc'[r] = "count" => pc[r] = "findRoom" /\ db.room
         /\ pc'[r] = "insertMember" => pc[r] = "count" /\ Cardinality(db.members) < MaxMembers
         /\ pc'[r] = "findRoom" => pc[r] \in {"readPolicy", "readContact"}
         /\ pc'[r] = "readMember" => pc[r] = "findRoom" /\ ask[r].kind # "join"
         /\ pc'[r] = "insertMessage" =>
              \/ pc[r] \in {"readPolicy", "readContact"} /\ ~ ask[r].inRoom
              \/ pc[r] = "readMember" /\ ask[r].by \in db.members
  <1>1. /\ pc \in [Requests -> Statements \cup {"idle", "done", "refused", "failed", "lost"}]
        /\ todo \in [Requests -> Seq(Pairs)]
        /\ db.members \in SUBSET Agents /\ MaxMembers \in Nat
        /\ db \in [contacts: SUBSET Pairs, policy: [Agents -> Policies],
                   room: BOOLEAN, members: SUBSET Agents, messages: SUBSET Requests]
    BY BoundsAreNat DEF Sound, TypeOK, Tables
  <1> USE DEF Execute, ExecuteRow
  <1>2. CASE InsertRoom(r)
    BY <1>2, <1>1 DEF InsertRoom
  <1>3. CASE InsertOwner(r)
    BY <1>3, <1>1 DEF InsertOwner
  <1>4. CASE FindRoom(r)
    BY <1>4, <1>1 DEF FindRoom
  <1>5. CASE Count(r)
    BY <1>5, <1>1, FiniteMembers DEF Count
  <1>6. CASE InsertMember(r)
    BY <1>6, <1>1 DEF InsertMember
  <1>7. CASE DeleteMember(r)
    BY <1>7, <1>1 DEF DeleteMember
  <1>8. CASE Upsert(r)
    BY <1>8, <1>1 DEF Upsert
  <1>9. CASE Probe(r)
    <2>1. db' = db /\ pc[r] = "probe" /\ pc'[r] \in {"refused", "insertRow", "probe", "commit"}
      BY <1>1, <1>9 DEF Probe
    <2> QED
      BY <2>1, <1>1
  <1>10. CASE InsertRow(r)
    <2>1. /\ db' \in {db, [db EXCEPT !.contacts = @ \cup {Head(todo[r])}]}
          /\ pc[r] = "insertRow" /\ pc'[r] \in {"failed", "probe", "commit"}
      BY <1>1, <1>10 DEF InsertRow
    <2> QED
      BY <2>1, <1>1
  <1>11. CASE DeleteRow(r)
    BY <1>11, <1>1 DEF DeleteRow
  <1>12. CASE SetPolicy(r)
    BY <1>12, <1>1 DEF SetPolicy
  <1>13. CASE ReadPolicy(r)
    BY <1>13, <1>1 DEF ReadPolicy, AfterAgent
  <1>14. CASE ReadContact(r)
    BY <1>14, <1>1 DEF ReadContact, AfterAgent
  <1>15. CASE ReadMember(r)
    BY <1>15, <1>1 DEF ReadMember
  <1>16. CASE InsertMessage(r)
    BY <1>16, <1>1 DEF InsertMessage
  <1> QED
    BY <1>2, <1>3, <1>4, <1>5, <1>6, <1>7, <1>8, <1>9, <1>10, <1>11, <1>12, <1>13, <1>14, <1>15, <1>16 DEF Statement
-----------------------------------------------------------------------------
(* The room.  Its limit may be passed because it is compared with a count  *)
(* taken earlier; but whoever passes the comparison found a place free, so *)
(* that what is over the limit is only other requests.                     *)
Joining == {r \in Requests : pc[r] \in {"insertMember", "insertOwner"}}

Allowed == MaxMembers + Cardinality(Requests) - 1

RoomInv ==
    /\ db.members # {} => db.room
    /\ disk.members # {} => disk.room
    /\ \A r \in Requests : pc[r] \in {"count", "insertMember", "insertOwner"} => db.room
    /\ \A r \in Requests : pc[r] = "insertRoom" => ~ db.room
    /\ \A q, r \in Requests : ask[q].kind = "create" /\ ask[r].kind = "create" => q = r
    /\ Cardinality(db.members) + Cardinality(Joining) <= Allowed
    /\ Cardinality(disk.members) <= Allowed

LEMMA InitRoom == Init => RoomInv
  <1> SUFFICES ASSUME Init
               PROVE  RoomInv
    OBVIOUS
  <1>1. Cardinality(Requests) \in Nat /\ Cardinality(Requests) >= 1
    BY FiniteSides, FS_CardinalityType, FS_EmptySet
  <1>2. Joining = {}
    BY DEF Init, Joining
  <1>3. Cardinality(Joining) = 0
    BY <1>2, FS_EmptySet
  <1>4. /\ db.members \in SUBSET Agents /\ disk = db
        /\ db.members # {} => db.room
        /\ Cardinality(db.members) <= MaxMembers
    BY DEF Init, Tables
  <1>5. Cardinality(db.members) \in Nat
    BY <1>4, FiniteMembers
  <1>6. \A r \in Requests : pc[r] = "idle" /\ ask[r].kind = "none"
    BY DEF Init, NoAsk
  <1> QED
    BY <1>1, <1>3, <1>4, <1>5, <1>6, BoundsAreNat DEF RoomInv, Allowed

LEMMA RoomStep == Sound /\ RoomInv /\ [Next]_vars => RoomInv'
  <1> SUFFICES ASSUME Sound, RoomInv, [Next]_vars
               PROVE  RoomInv'
    OBVIOUS
  <1>1. /\ pc \in [Requests -> Statements \cup {"idle", "done", "refused", "failed", "lost"}]
        /\ ask \in [Requests -> Asks \cup {NoAsk}]
        /\ db.members \in SUBSET Agents /\ disk.members \in SUBSET Agents
        /\ \A r \in Requests : pc[r] # "idle" => ask[r].kind \in Kinds(pc[r])
    BY DEF Sound, TypeOK, Tables, Local, LocalTo
  <1>2. /\ Cardinality(Requests) \in Nat /\ Cardinality(Requests) >= 1
        /\ MaxMembers \in Nat /\ MaxMembers >= 1 /\ Allowed \in Nat
    BY FiniteSides, FS_CardinalityType, FS_EmptySet, BoundsAreNat DEF Allowed
  <1>3. \A S \in SUBSET Requests : /\ IsFiniteSet(S) /\ Cardinality(S) \in Nat
                                   /\ Cardinality(S) <= Cardinality(Requests)
    BY FiniteSides, FS_Subset, FS_CardinalityType
  <1>4. Joining \in SUBSET Requests /\ Joining' \in SUBSET Requests
    BY DEF Joining
  <1>5. CASE UNCHANGED vars
    BY <1>5 DEF vars, RoomInv, Joining, Allowed
  <1>6. ASSUME NEW r \in Requests, Statement(r)
        PROVE  RoomInv'
    <2>1. /\ pc'[r] \in (Statements \ {"insertRoom"}) \cup {"refused", "failed"}
          /\ pc' = [pc EXCEPT ![r] = pc'[r]]
          /\ UNCHANGED <<ask, disk, crashes>>
      BY <1>6, Frame
    <2>2. /\ db'.room = (db.room \/ pc[r] = "insertRoom")
          /\ db'.members = IF pc[r] \in {"insertOwner", "insertMember"}
                           THEN db.members \cup {ask[r].by}
                           ELSE IF pc[r] = "deleteMember" THEN db.members \ {ask[r].by}
                           ELSE db.members
          /\ pc'[r] = "insertOwner" => pc[r] = "insertRoom"
          /\ pc'[r] = "count" => pc[r] = "findRoom" /\ db.room
          /\ pc'[r] = "insertMember" => pc[r] = "count" /\ Cardinality(db.members) < MaxMembers
      BY <1>6, Effect
    <2>3. db'.members \in SUBSET Agents
      BY <1>6, StatementSound DEF Tables
    <2>4. \A q \in Requests : pc[q] = "insertRoom" => ask[q].kind = "create"
      BY <1>1 DEF Kinds
    <2>5. Cardinality(db'.members) + Cardinality(Joining') <= Allowed
      <3>1. CASE pc'[r] \in {"insertMember", "insertOwner"}
        <4>1. db'.members = db.members /\ Cardinality(db.members) < MaxMembers
          <5>1. CASE pc'[r] = "insertMember"
            BY <2>2, <5>1
          <5>2. CASE pc'[r] = "insertOwner"
            <6>1. db.members = {} /\ db'.members = db.members
              BY <2>2, <5>2 DEF RoomInv
            <6> QED
              BY <6>1, <1>2, FS_EmptySet
          <5> QED
            BY <3>1, <5>1, <5>2
        <4> QED
          BY <4>1, <1>1, <1>2, <1>3, <1>4, FiniteMembers DEF Allowed
      <3>2. CASE pc'[r] \notin {"insertMember", "insertOwner"} /\ r \in Joining
        <4>1. Joining' = Joining \ {r}
          BY <1>1, <2>1, <3>2 DEF Joining
        <4>2. Cardinality(Joining') = Cardinality(Joining) - 1
          BY <4>1, <3>2, <1>3, <1>4, FS_RemoveElement
        <4>3. db'.members = db.members \cup {ask[r].by}
          BY <2>2, <3>2 DEF Joining
        <4>4. Cardinality(db'.members) <= Cardinality(db.members) + 1
          <5>1. IsFiniteSet(db.members) /\ Cardinality(db.members) \in Nat
            BY <1>1, FiniteMembers
          <5>2. Cardinality(db.members \cup {ask[r].by}) =
                  IF ask[r].by \in db.members THEN Cardinality(db.members)
                                              ELSE Cardinality(db.members) + 1
            BY <5>1, FS_AddElement
          <5> QED
            BY <4>3, <5>1, <5>2
        <4> QED
          BY <4>2, <4>4, <2>3, <1>1, <1>2, <1>3, <1>4, FiniteMembers DEF RoomInv
      <3>3. CASE pc'[r] \notin {"insertMember", "insertOwner"} /\ r \notin Joining
        <4>1. Joining' = Joining
          BY <1>1, <2>1, <3>3 DEF Joining
        <4>2. db'.members \subseteq db.members
          BY <2>2, <3>3 DEF Joining
        <4>3. Cardinality(db'.members) <= Cardinality(db.members)
          BY <4>2, <1>1, FiniteMembers, FS_Subset
        <4> QED
          BY <4>1, <4>3, <2>3, <1>1, <1>2, <1>3, <1>4, FiniteMembers DEF RoomInv
      <3> QED
        BY <3>1, <3>2, <3>3
    <2>6. db'.members # {} => db'.room
      BY <1>1, <2>2 DEF RoomInv
    <2>7. \A q \in Requests : pc'[q] \in {"count", "insertMember", "insertOwner"} => db'.room
      BY <1>1, <2>1, <2>2 DEF RoomInv
    <2>8. \A q \in Requests : pc'[q] = "insertRoom" => ~ db'.room
      BY <1>1, <2>1, <2>2, <2>4 DEF RoomInv
    <2> QED
      BY <2>1, <2>5, <2>6, <2>7, <2>8 DEF RoomInv, Allowed
  <1>7. ASSUME NEW r \in Requests, NEW q \in Asks, Submit(r, q)
        PROVE  RoomInv'
    <2>1. /\ ask' = [ask EXCEPT ![r] = q] /\ pc' = [pc EXCEPT ![r] = First(q)]
          /\ UNCHANGED <<db, disk>> /\ pc[r] = "idle"
          /\ q.kind = "create" =>
               ~ db.room /\ \A other \in Requests : ask[other].kind # "create"
      BY <1>7 DEF Submit
    <2>2. /\ First(q) \notin {"count", "insertMember", "insertOwner"}
          /\ First(q) = "insertRoom" => q.kind = "create"
      BY AskFacts DEF First, RowKinds, OwnKinds
    <2>3. Joining' = Joining
      BY <1>1, <2>1, <2>2 DEF Joining
    <2> QED
      BY <1>1, <2>1, <2>2, <2>3 DEF RoomInv, Allowed
  <1>8. ASSUME NEW r \in Requests, Commit(r)
        PROVE  RoomInv'
    <2>1. Joining' = Joining
      BY <1>1, <1>8 DEF Commit, Joining
    <2>2. Cardinality(db.members) <= Allowed
      BY <1>1, <1>2, <1>3, <1>4, FiniteMembers DEF RoomInv
    <2> QED
      BY <1>1, <1>8, <2>1, <2>2 DEF Commit, RoomInv, Allowed
  <1>9. ASSUME Crash
        PROVE  RoomInv'
    <2>1. /\ db' = disk /\ UNCHANGED <<disk, ask>>
          /\ \A q \in Requests : pc'[q] \notin Statements
      BY <1>1, <1>9 DEF Crash, Running, Statements
    <2>2. Joining' = {}
      BY <2>1 DEF Joining, Statements
    <2>3. Cardinality(Joining') = 0
      BY <2>2, FS_EmptySet
    <2> QED
      BY <1>1, <1>2, <2>1, <2>3, FiniteMembers DEF RoomInv, Allowed, Statements
  <1> QED
    BY <1>5, <1>6, <1>7, <1>8, <1>9 DEF Next, Step, Statement
-----------------------------------------------------------------------------
(* Admission.  A message passes each target only in a moment that permits  *)
(* it, and that moment is remembered whatever happens to the tables later. *)
AgentGranted(r) == ask[r].to # Nobody => <<r, "agent">> \in granted
RoomGranted(r) == ask[r].inRoom => <<r, "room">> \in granted

Admission(r) ==
    /\ pc[r] = "idle" => r \notin db.messages \cup disk.messages
    /\ pc[r] \in {"findRoom", "readMember"} /\ ask[r].kind = "send" => AgentGranted(r)
    /\ (pc[r] = "insertMessage" \/ r \in db.messages \cup disk.messages)
         => AgentGranted(r) /\ RoomGranted(r)

AdmissionInv == \A r \in Requests : Admission(r)

LEMMA AdmissionStep == Sound /\ AdmissionInv /\ [Next]_vars => AdmissionInv'
  <1> SUFFICES ASSUME Sound, AdmissionInv, [Next]_vars
               PROVE  AdmissionInv'
    OBVIOUS
  <1>1. /\ pc \in [Requests -> Statements \cup {"idle", "done", "refused", "failed", "lost"}]
        /\ ask \in [Requests -> Asks \cup {NoAsk}]
        /\ db.policy \in [Agents -> {"open", "contacts_only"}]
        /\ \A r \in Requests : LocalTo(r)
    BY DEF Sound, TypeOK, Local, Tables, Policies
  <1>2. CASE UNCHANGED vars
    BY <1>2 DEF vars, AdmissionInv, Admission, AgentGranted, RoomGranted
  <1>3. Observe => granted \subseteq granted'
    BY ObserveFacts
  <1>4. ASSUME NEW r \in Requests, Statement(r), Observe
        PROVE  AdmissionInv'
    <2>1. /\ pc[r] \in Statements
          /\ pc'[r] \in (Statements \ {"insertRoom"}) \cup {"refused", "failed"}
          /\ pc' = [pc EXCEPT ![r] = pc'[r]]
          /\ UNCHANGED <<ask, disk, crashes>>
      BY <1>4, Frame
    <2>2. db'.messages = IF pc[r] = "insertMessage" THEN db.messages \cup {r} ELSE db.messages
      BY <1>4, Effect
    <2>3. \A target \in Permits(db', ask[r]) : pc'[r] \in Statements => <<r, target>> \in granted'
      BY <1>4, <2>1, ObserveFacts DEF Running
    <2>4. /\ ask[r].kind = "send" => ask[r].to # Nobody \/ ask[r].inRoom
          /\ pc[r] \in {"readPolicy", "readContact"} => ask[r].to \in Agents
          /\ pc[r] = "readMember" => ask[r].kind = "send"
          /\ ask[r].kind \in Kinds(pc[r])
      <3>1. ask[r] \in Asks
        BY <1>1, <2>1 DEF LocalTo, Statements
      <3> QED
        BY <1>1, <2>1, <3>1, AskFacts, NobodyIsNoAgent DEF LocalTo, Statements, Kinds
    <2>5. ASSUME pc[r] \in {"readPolicy", "readContact"}, pc'[r] \in {"findRoom", "insertMessage"}
          PROVE  "agent" \in Permits(db', ask[r])
      <3>1. ask[r].to # Nobody
        BY <2>4, <2>5, NobodyIsNoAgent
      <3>2. CASE ReadPolicy(r)
        <4>1. db' = db /\ (ask[r].to = ask[r].by \/ db.policy[ask[r].to] # "contacts_only")
          BY <1>1, <2>5, <3>2 DEF ReadPolicy, Execute
        <4> QED
          BY <1>1, <2>4, <2>5, <3>1, <4>1 DEF Permits
      <3>3. CASE ReadContact(r)
        <4>1. db' = db /\ <<ask[r].to, ask[r].by>> \in db.contacts
          BY <1>1, <2>5, <3>3 DEF ReadContact, Execute
        <4> QED
          BY <3>1, <4>1 DEF Permits
      <3> QED
        BY <1>4, <2>5, <3>2, <3>3 DEF Statement, InsertRoom, InsertOwner, FindRoom, Count,
           InsertMember, DeleteMember, Upsert, Probe, InsertRow, DeleteRow, SetPolicy,
           ReadMember, InsertMessage
    <2>6. /\ pc'[r] = "findRoom" => pc[r] \in {"readPolicy", "readContact"}
          /\ pc'[r] = "readMember" => pc[r] = "findRoom" /\ ask[r].kind # "join"
          /\ pc'[r] = "insertMessage" =>
               \/ pc[r] \in {"readPolicy", "readContact"} /\ ~ ask[r].inRoom
               \/ pc[r] = "readMember" /\ ask[r].by \in db'.members
      BY <1>4, Effect
    <2>7. pc'[r] \in {"findRoom", "insertMessage"} /\ pc[r] \in {"readPolicy", "readContact"}
            => <<r, "agent">> \in granted'
      BY <2>1, <2>3, <2>5 DEF Statements
    <2>8. pc[r] = "findRoom" => ask[r].kind \in {"join", "send"}
      BY <2>4 DEF Kinds
    <2>9. pc[r] = "readMember" /\ pc'[r] = "insertMessage" => <<r, "room">> \in granted'
      <3>1. pc[r] = "readMember" /\ pc'[r] = "insertMessage" => "room" \in Permits(db', ask[r])
        BY <1>1, <2>6 DEF Permits, LocalTo
      <3> QED
        BY <2>3, <3>1 DEF Statements
    <2>10. /\ pc'[r] \in {"findRoom", "readMember"} /\ ask[r].kind = "send" => AgentGranted(r)'
           /\ pc'[r] = "insertMessage" => AgentGranted(r)' /\ RoomGranted(r)'
      BY <1>3, <1>4, <2>1, <2>4, <2>6, <2>7, <2>8, <2>9
         DEF AdmissionInv, Admission, AgentGranted, RoomGranted
    <2>11. r \in db'.messages \/ r \in disk'.messages => AgentGranted(r)' /\ RoomGranted(r)'
      BY <1>3, <1>4, <2>1, <2>2 DEF AdmissionInv, Admission, AgentGranted, RoomGranted
    <2>12. pc'[r] # "idle"
      BY <2>1 DEF Statements
    <2>13. ASSUME NEW q \in Requests \ {r}
           PROVE  /\ pc'[q] = pc[q] /\ ask'[q] = ask[q]
                  /\ (q \in db'.messages) = (q \in db.messages)
                  /\ (q \in disk'.messages) = (q \in disk.messages)
                  /\ AgentGranted(q) => AgentGranted(q)'
                  /\ RoomGranted(q) => RoomGranted(q)'
      BY <1>1, <1>3, <1>4, <2>1, <2>2 DEF AgentGranted, RoomGranted
    <2>14. Admission(r)'
      BY <2>1, <2>10, <2>11, <2>12 DEF Admission
    <2>15. ASSUME NEW q \in Requests \ {r}
           PROVE  Admission(q)'
      BY <2>13 DEF Admission, AdmissionInv
    <2> QED
      BY <2>14, <2>15 DEF AdmissionInv
  <1>5. ASSUME NEW r \in Requests, NEW q \in Asks, Submit(r, q), Observe
        PROVE  AdmissionInv'
    <2>1. /\ ask' = [ask EXCEPT ![r] = q] /\ pc' = [pc EXCEPT ![r] = First(q)]
          /\ UNCHANGED <<db, disk>> /\ pc[r] = "idle"
      BY <1>5 DEF Submit
    <2>2. /\ First(q) \notin {"idle", "readMember", "insertMessage"}
          /\ First(q) = "findRoom" /\ q.kind = "send" => q.to = Nobody
      BY AskFacts DEF First, RowKinds, OwnKinds
    <2> QED
      BY <1>1, <1>3, <1>5, <2>1, <2>2 DEF AdmissionInv, Admission, AgentGranted, RoomGranted
  <1>6. ASSUME NEW r \in Requests, Commit(r), Observe
        PROVE  AdmissionInv'
    <2>1. /\ disk' = db /\ db' = db /\ ask' = ask /\ pc[r] = "commit"
          /\ pc' = [pc EXCEPT ![r] = "done"]
      BY <1>6 DEF Commit
    <2> QED
      BY <1>1, <1>3, <1>6, <2>1 DEF AdmissionInv, Admission, AgentGranted, RoomGranted
  <1>7. ASSUME Crash, Observe
        PROVE  AdmissionInv'
    <2>1. /\ db' = disk /\ UNCHANGED <<disk, ask>>
          /\ \A q \in Requests : pc'[q] = pc[q] \/ pc'[q] = "lost"
          /\ \A q \in Requests : pc'[q] \notin Statements
      BY <1>1, <1>7 DEF Crash, Running, Statements
    <2> QED
      BY <1>1, <1>3, <1>7, <2>1 DEF AdmissionInv, Admission, AgentGranted, RoomGranted, Statements
  <1> QED
    BY <1>2, <1>4, <1>5, <1>6, <1>7 DEF Next, Step, Statement
-----------------------------------------------------------------------------
(* What is executed and not committed is owed to a request that will       *)
(* commit, or that failed; and an add by the admin ends in a commit only   *)
(* through an insert of its one row.                                       *)
Owing(r) ==
    \/ pc[r] \in {"insertOwner", "deleteRow", "commit", "failed"}
    \/ pc[r] \in {"probe", "insertRow"} /\ ask[r].kind = "bulkAdd"

Single(r) ==
    pc[r] \in {"probe", "insertRow"} /\ ask[r].kind = "adminAdd"
      => todo[r] = ask[r].rows /\ Len(todo[r]) = 1

CommitInv ==
    /\ \A r \in Requests : Single(r)
    /\ disk = db \/ \E r \in Requests : Owing(r)

Created(r) == ask[r].kind = "adminAdd" /\ pc[r] \in {"commit", "done"}

OnlyAdds == crashes = 0 /\ \A r \in Requests : ask[r].kind \notin {"remove", "bulkRemove"}

CreationInv ==
    OnlyAdds =>
        /\ \A r \in Requests : Created(r) => Head(ask[r].rows) \in db.contacts
        /\ \A q, r \in Requests : Created(q) /\ Created(r) /\ ask[q].rows = ask[r].rows => q = r

LEMMA Outcome ==
  ASSUME Sound, CommitInv, NEW r \in Requests, Statement(r)
  PROVE  /\ db' # db \/ Owing(r) => Owing(r)'
         /\ Single(r)'
         /\ pc[r] # "deleteRow" => db.contacts \subseteq db'.contacts
         /\ Created(r)' => Head(ask[r].rows) \in db'.contacts \ db.contacts
  <1>1. /\ pc \in [Requests -> Statements \cup {"idle", "done", "refused", "failed", "lost"}]
        /\ todo \in [Requests -> Seq(Pairs)]
        /\ db \in [contacts: SUBSET Pairs, policy: [Agents -> Policies],
                   room: BOOLEAN, members: SUBSET Agents, messages: SUBSET Requests]
        /\ ask' = ask /\ ask[r].kind \in Kinds(pc[r])
        /\ Single(r)
    BY Frame DEF Sound, TypeOK, Tables, Local, LocalTo, CommitInv, Statements
  <1>2. /\ pc[r] \in {"probe", "insertRow"} => ask[r].kind \in {"adminAdd", "bulkAdd"}
        /\ ask[r].kind = "adminAdd" => pc[r] \in {"probe", "insertRow", "commit"}
    BY <1>1, Frame DEF Kinds, Statements
  <1> USE DEF Execute, ExecuteRow
  <1>3. CASE InsertRoom(r)
    BY <1>3, <1>1, <1>2 DEF InsertRoom, Owing, Single, Created
  <1>4. CASE InsertOwner(r)
    BY <1>4, <1>1, <1>2 DEF InsertOwner, Owing, Single, Created
  <1>5. CASE FindRoom(r)
    BY <1>5, <1>1, <1>2 DEF FindRoom, Owing, Single, Created
  <1>6. CASE Count(r)
    BY <1>6, <1>1, <1>2 DEF Count, Owing, Single, Created
  <1>7. CASE InsertMember(r)
    BY <1>7, <1>1, <1>2 DEF InsertMember, Owing, Single, Created
  <1>8. CASE DeleteMember(r)
    BY <1>8, <1>1, <1>2 DEF DeleteMember, Owing, Single, Created
  <1>9. CASE Upsert(r)
    BY <1>9, <1>1, <1>2 DEF Upsert, Owing, Single, Created
  <1>10. CASE Probe(r)
    <2>1. db' = db /\ pc[r] = "probe"
      BY <1>10 DEF Probe
    <2>2. \/ pc'[r] = "insertRow" /\ todo'[r] = todo[r]
          \/ pc'[r] = "refused" /\ ask[r].kind = "adminAdd"
          \/ pc'[r] \in {"probe", "commit"} /\ ask[r].kind = "bulkAdd"
      BY <1>1, <1>10 DEF Probe
    <2> QED
      BY <1>1, <1>2, <2>1, <2>2 DEF Owing, Single, Created
  <1>11. CASE InsertRow(r)
    <2>1. pc[r] = "insertRow"
      BY <1>11 DEF InsertRow
    <2>2. CASE Head(todo[r]) \in db.contacts
      <3>1. db' = db /\ pc'[r] = "failed"
        BY <1>1, <1>11, <2>2 DEF InsertRow
      <3> QED
        BY <3>1 DEF Owing, Single, Created
    <2>3. CASE Head(todo[r]) \notin db.contacts
      <3>1. /\ db' = [db EXCEPT !.contacts = @ \cup {Head(todo[r])}]
            /\ pc'[r] = IF Len(todo[r]) > 1 THEN "probe" ELSE "commit"
        BY <1>1, <1>11, <2>3 DEF InsertRow
      <3>2. Head(todo[r]) \in db'.contacts /\ db.contacts \subseteq db'.contacts
        BY <1>1, <3>1
      <3>3. ask[r].kind = "adminAdd" => pc'[r] = "commit" /\ ask[r].rows = todo[r]
        <4>1. ask[r].kind = "adminAdd" => todo[r] = ask[r].rows /\ Len(todo[r]) = 1
          BY <1>1, <2>1 DEF Single
        <4>2. ~ (1 > 1)
          OBVIOUS
        <4> QED
          BY <3>1, <4>1, <4>2
      <3> QED
        BY <1>1, <1>2, <2>1, <2>3, <3>1, <3>2, <3>3 DEF Owing, Single, Created
    <2> QED
      BY <2>2, <2>3
  <1>12. CASE DeleteRow(r)
    BY <1>12, <1>1, <1>2 DEF DeleteRow, Owing, Single, Created
  <1>13. CASE SetPolicy(r)
    BY <1>13, <1>1, <1>2 DEF SetPolicy, Owing, Single, Created
  <1>14. CASE ReadPolicy(r)
    BY <1>14, <1>1, <1>2 DEF ReadPolicy, AfterAgent, Owing, Single, Created
  <1>15. CASE ReadContact(r)
    BY <1>15, <1>1, <1>2 DEF ReadContact, AfterAgent, Owing, Single, Created
  <1>16. CASE ReadMember(r)
    BY <1>16, <1>1, <1>2 DEF ReadMember, Owing, Single, Created
  <1>17. CASE InsertMessage(r)
    BY <1>17, <1>1, <1>2 DEF InsertMessage, Owing, Single, Created
  <1> QED
    BY <1>3, <1>4, <1>5, <1>6, <1>7, <1>8, <1>9, <1>10, <1>11, <1>12, <1>13, <1>14, <1>15, <1>16, <1>17 DEF Statement

LEMMA CommitStep == Sound /\ CommitInv /\ [Next]_vars => CommitInv'
  <1> SUFFICES ASSUME Sound, CommitInv, [Next]_vars
               PROVE  CommitInv'
    OBVIOUS
  <1>1. /\ pc \in [Requests -> Statements \cup {"idle", "done", "refused", "failed", "lost"}]
        /\ ask \in [Requests -> Asks \cup {NoAsk}]
        /\ todo \in [Requests -> Seq(Pairs)]
    BY DEF Sound, TypeOK
  <1>2. CASE UNCHANGED vars
    BY <1>2 DEF vars, CommitInv, Single, Owing
  <1>3. ASSUME NEW r \in Requests, Statement(r)
        PROVE  CommitInv'
    <2>1. /\ pc' = [pc EXCEPT ![r] = pc'[r]] /\ todo' = [todo EXCEPT ![r] = todo'[r]]
          /\ UNCHANGED <<ask, disk, crashes>>
      BY <1>3, Frame
    <2>2. (db' # db \/ Owing(r) => Owing(r)') /\ Single(r)'
      BY <1>3, Outcome
    <2>3. \A q \in Requests \ {r} : (Owing(q) => Owing(q)') /\ Single(q)'
      BY <1>1, <2>1 DEF CommitInv, Owing, Single
    <2> QED
      BY <2>1, <2>2, <2>3 DEF CommitInv
  <1>4. ASSUME NEW r \in Requests, NEW q \in Asks, Submit(r, q)
        PROVE  CommitInv'
    <2>1. /\ ask' = [ask EXCEPT ![r] = q] /\ pc' = [pc EXCEPT ![r] = First(q)]
          /\ todo' = [todo EXCEPT ![r] = q.rows] /\ pc[r] = "idle"
          /\ UNCHANGED <<db, disk>>
      BY <1>4 DEF Submit
    <2>2. \A s \in Requests \ {r} : (Owing(s) => Owing(s)') /\ Single(s)'
      BY <1>1, <2>1 DEF CommitInv, Owing, Single
    <2>3. ~ Owing(r)
      BY <2>1 DEF Owing
    <2>4. Single(r)'
      BY <1>1, <2>1, AskFacts DEF Single
    <2> QED
      BY <2>1, <2>2, <2>3, <2>4 DEF CommitInv
  <1>5. ASSUME NEW r \in Requests, Commit(r)
        PROVE  CommitInv'
    <2>1. \A q \in Requests : Single(q)'
      BY <1>1, <1>5 DEF Commit, CommitInv, Single
    <2> QED
      BY <1>5, <2>1 DEF Commit, CommitInv
  <1>6. ASSUME Crash
        PROVE  CommitInv'
    <2>1. disk' = db' /\ \A q \in Requests : pc'[q] \notin Statements
      BY <1>1, <1>6 DEF Crash, Running, Statements
    <2> QED
      BY <2>1 DEF CommitInv, Single, Statements
  <1> QED
    BY <1>2, <1>3, <1>4, <1>5, <1>6 DEF Next, Step, Statement

LEMMA CreationStep == Sound /\ CommitInv /\ CreationInv /\ [Next]_vars => CreationInv'
  <1> SUFFICES ASSUME Sound, CommitInv, CreationInv, [Next]_vars, OnlyAdds'
               PROVE  /\ \A r \in Requests : Created(r)' => Head(ask'[r].rows) \in db'.contacts
                      /\ \A q, r \in Requests :
                           Created(q)' /\ Created(r)' /\ ask'[q].rows = ask'[r].rows => q = r
    BY DEF CreationInv
  <1>1. /\ pc \in [Requests -> Statements \cup {"idle", "done", "refused", "failed", "lost"}]
        /\ ask \in [Requests -> Asks \cup {NoAsk}]
        /\ \A q \in Requests : pc[q] = "idle" => ask[q] = NoAsk
        /\ \A q \in Requests : pc[q] # "idle" => ask[q].kind \in Kinds(pc[q])
    BY DEF Sound, TypeOK, Local, LocalTo
  <1>2. CASE UNCHANGED vars
    BY <1>2 DEF vars, CreationInv, Created, OnlyAdds
  <1>3. ASSUME NEW r \in Requests, Statement(r)
        PROVE  /\ \A q \in Requests : Created(q)' => Head(ask'[q].rows) \in db'.contacts
               /\ \A p, q \in Requests :
                    Created(p)' /\ Created(q)' /\ ask'[p].rows = ask'[q].rows => p = q
    <2>1. /\ pc' = [pc EXCEPT ![r] = pc'[r]] /\ pc[r] \in Statements
          /\ UNCHANGED <<ask, disk, crashes>>
      BY <1>3, Frame
    <2>2. OnlyAdds
      BY <2>1 DEF OnlyAdds
    <2>3. pc[r] # "deleteRow"
      BY <1>1, <2>2 DEF OnlyAdds, Kinds
    <2>4. /\ db.contacts \subseteq db'.contacts
          /\ Created(r)' => Head(ask[r].rows) \in db'.contacts \ db.contacts
      BY <1>3, <2>3, Outcome
    <2>5. \A q \in Requests \ {r} : Created(q)' => Created(q)
      BY <1>1, <2>1 DEF Created
    <2> QED
      BY <2>1, <2>2, <2>4, <2>5 DEF CreationInv
  <1>4. ASSUME NEW r \in Requests, NEW q \in Asks, Submit(r, q)
        PROVE  /\ \A s \in Requests : Created(s)' => Head(ask'[s].rows) \in db'.contacts
               /\ \A p, s \in Requests :
                    Created(p)' /\ Created(s)' /\ ask'[p].rows = ask'[s].rows => p = s
    <2>1. /\ ask' = [ask EXCEPT ![r] = q] /\ pc' = [pc EXCEPT ![r] = First(q)]
          /\ UNCHANGED <<db, crashes>> /\ pc[r] = "idle"
      BY <1>4 DEF Submit
    <2>2. First(q) \notin {"commit", "done"}
      BY AskFacts DEF First, RowKinds, OwnKinds
    <2>3. OnlyAdds
      BY <1>1, <2>1 DEF OnlyAdds, NoAsk
    <2>4. ~ Created(r)' /\ \A s \in Requests \ {r} : Created(s)' => Created(s) /\ ask'[s] = ask[s]
      BY <1>1, <2>1, <2>2 DEF Created
    <2> QED
      BY <2>1, <2>3, <2>4 DEF CreationInv
  <1>5. CASE \E r \in Requests : Commit(r)
    BY <1>1, <1>5 DEF Commit, CreationInv, OnlyAdds, Created
  <1>6. CASE Crash
    <2>1. crashes' # 0
      <3>1. crashes \in Nat /\ crashes' = crashes + 1
        BY <1>6, BoundsAreNat DEF Crash, Sound, TypeOK
      <3> QED
        BY <3>1
    <2> QED
      BY <2>1 DEF OnlyAdds
  <1> QED
    BY <1>2, <1>3, <1>4, <1>5, <1>6 DEF Next, Step, Statement

-----------------------------------------------------------------------------
Inv == Sound /\ RoomInv /\ AdmissionInv /\ CommitInv /\ CreationInv

LEMMA InitRest == Init => AdmissionInv /\ CommitInv /\ CreationInv
  <1> SUFFICES ASSUME Init
               PROVE  AdmissionInv /\ CommitInv /\ CreationInv
    OBVIOUS
  <1>1. /\ db.messages = {} /\ disk = db
        /\ \A r \in Requests : pc[r] = "idle"
    BY DEF Init
  <1> QED
    BY <1>1 DEF AdmissionInv, Admission, CommitInv, Single, CreationInv, Created

(* The invariants together are inductive.                                  *)
THEOREM Inductive == Spec => []Inv
  <1>1. Init => Inv
    BY InitSound, InitRoom, InitRest DEF Inv
  <1>2. Inv /\ [Next]_vars => Inv'
    BY SoundStep, RoomStep, AdmissionStep, CommitStep, CreationStep DEF Inv
  <1> QED
    BY <1>1, <1>2, PTL DEF Spec

(* The tables keep their types.                                            *)
THEOREM TypeCorrect == Spec => []TypeOK
  <1>1. Inv => TypeOK
    BY DEF Inv, Sound
  <1> QED
    BY <1>1, Inductive, PTL

(* Overlapping joins overfill the room by fewer members than there are     *)
(* requests, for every limit and every number of requests (join_room's     *)
(* count and insert).                                                      *)
THEOREM RoomStaysNearLimit == Spec => []RoomNearLimit
  <1>1. Inv => RoomNearLimit
    BY DEF Inv, RoomInv, RoomNearLimit, Joining, Allowed
  <1> QED
    BY <1>1, Inductive, PTL

(* Every stored message was permitted for each of its targets while it was *)
(* being admitted (get_message_target_error).                              *)
THEOREM MessagesWerePermitted == Spec => []AdmittedWasPermitted
  <1>1. Inv => AdmittedWasPermitted
    <2> SUFFICES ASSUME Inv, NEW r \in db.messages
                 PROVE  AgentGranted(r) /\ RoomGranted(r)
      BY DEF AdmittedWasPermitted, AgentGranted, RoomGranted
    <2>1. r \in Requests
      BY DEF Inv, Sound, TypeOK, Tables
    <2> QED
      BY <2>1 DEF Inv, AdmissionInv, Admission
  <1> QED
    BY <1>1, Inductive, PTL

(* Only a request that ended in a database error leaves something          *)
(* uncommitted behind.                                                     *)
THEOREM NothingLeftUncommitted == Spec => []RestIsDurable
  <1>1. Inv => RestIsDurable
    BY DEF Inv, CommitInv, Owing, RestIsDurable, Running, Statements
  <1> QED
    BY <1>1, Inductive, PTL

(* Of overlapping adds of one contact one is answered as the creation.     *)
THEOREM OneCreation == Spec => []CreatedOnce
  <1>1. Inv => CreatedOnce
    BY DEF Inv, CreationInv, Created, OnlyAdds, CreatedOnce
  <1> QED
    BY <1>1, Inductive, PTL-----------------------------------------------------------------------------
(* What an answer is worth                                                 *)

(* All requests share one transaction, and a commit is whoever comes       *)
(* first's (routes_messages.py, routes_rooms.py); still a message whose    *)
(* sender was answered and a room whose creator was answered are on disk,  *)
(* through every crash, and a message that was refused is nowhere.         *)
AnswersAreKept ==
    \A r \in Requests :
        /\ ask[r].kind = "send" /\ pc[r] = "done" => r \in disk.messages
        /\ ask[r].kind = "create" /\ pc[r] = "done" => disk.room
        /\ pc[r] \in {"refused", "failed"} => r \notin db.messages \cup disk.messages

(* ... because a message, or a room, is in the table when its request      *)
(* commits, and what is on disk does not leave the table.                  *)
Held(r) ==
    /\ r \in db.messages => pc[r] \in {"commit", "done", "lost"}
    /\ ask[r].kind = "send" /\ pc[r] = "commit" => r \in db.messages
    /\ ask[r].kind = "send" /\ pc[r] = "done" => r \in disk.messages
    /\ ask[r].kind = "create" /\ pc[r] \in {"insertOwner", "commit"} => db.room
    /\ ask[r].kind = "create" /\ pc[r] = "done" => disk.room

HeldInv ==
    /\ disk.messages \subseteq db.messages
    /\ disk.room => db.room
    /\ \A r \in Requests : Held(r)

(* A message and a new room are committed only after their inserts.        *)
LEMMA BeforeCommit ==
  ASSUME Sound, NEW r \in Requests, Statement(r)
  PROVE  /\ ask[r].kind = "send" /\ pc'[r] = "commit" => pc[r] = "insertMessage"
         /\ ask[r].kind = "create" => pc[r] \in {"insertRoom", "insertOwner"}
  <1>1. /\ pc \in [Requests -> Statements \cup {"idle", "done", "refused", "failed", "lost"}]
        /\ pc[r] \in Statements \ {"commit"} /\ ask[r].kind \in Kinds(pc[r])
    BY Frame DEF Sound, TypeOK, Local, LocalTo, Statements
  <1>2. ask[r].kind = "create" => pc[r] \in {"insertRoom", "insertOwner"}
    BY <1>1 DEF Kinds, Statements
  <1>3. ask[r].kind = "send" =>
          pc[r] \in {"findRoom", "readPolicy", "readContact", "readMember", "insertMessage"}
    BY <1>1 DEF Kinds, Statements
  <1>4. CASE pc[r] = "findRoom"
    <2>1. FindRoom(r)
      BY <1>4 DEF Statement, InsertRoom, InsertOwner, Count, InsertMember, DeleteMember, Upsert,
         Probe, InsertRow, DeleteRow, SetPolicy, ReadPolicy, ReadContact, ReadMember, InsertMessage
    <2>2. pc'[r] \in {"refused", "count", "readMember"}
      BY <1>1, <2>1 DEF FindRoom, Execute
    <2> QED
      BY <1>2, <1>4, <2>2
  <1>5. CASE pc[r] \in {"readPolicy", "readContact", "readMember"}
    <2>1. ReadPolicy(r) \/ ReadContact(r) \/ ReadMember(r)
      BY <1>5 DEF Statement, InsertRoom, InsertOwner, FindRoom, Count, InsertMember,
         DeleteMember, Upsert, Probe, InsertRow, DeleteRow, SetPolicy, InsertMessage
    <2>2. pc'[r] \in {"readContact", "findRoom", "insertMessage", "refused"}
      BY <1>1, <2>1 DEF ReadPolicy, ReadContact, ReadMember, AfterAgent, Execute
    <2> QED
      BY <1>2, <1>5, <2>2
  <1> QED
    BY <1>2, <1>3, <1>4, <1>5

LEMMA HeldStep == Sound /\ HeldInv /\ [Next]_vars => HeldInv'
  <1> SUFFICES ASSUME Sound, HeldInv, [Next]_vars
               PROVE  HeldInv'
    OBVIOUS
  <1>1. /\ pc \in [Requests -> Statements \cup {"idle", "done", "refused", "failed", "lost"}]
        /\ ask \in [Requests -> Asks \cup {NoAsk}]
    BY DEF Sound, TypeOK
  <1>2. CASE UNCHANGED vars
    BY <1>2 DEF vars, HeldInv, Held
  <1>3. ASSUME NEW r \in Requests, Statement(r)
        PROVE  HeldInv'
    <2>1. /\ pc' = [pc EXCEPT ![r] = pc'[r]] /\ pc[r] \in Statements \ {"commit"}
          /\ pc'[r] \in (Statements \ {"insertRoom"}) \cup {"refused", "failed"}
          /\ UNCHANGED <<ask, disk>>
      BY <1>3, Frame
    <2>2. /\ db'.room = (db.room \/ pc[r] = "insertRoom")
          /\ db'.messages = IF pc[r] = "insertMessage" THEN db.messages \cup {r} ELSE db.messages
          /\ pc'[r] = "insertOwner" => pc[r] = "insertRoom"
      BY <1>3, Effect
    <2>3. /\ ask[r].kind = "send" /\ pc'[r] = "commit" => pc[r] = "insertMessage"
          /\ ask[r].kind = "create" => pc[r] \in {"insertRoom", "insertOwner"}
      BY <1>3, BeforeCommit
    <2>4. pc[r] = "insertMessage" => pc'[r] = "commit"
      <3>1. ASSUME pc[r] = "insertMessage" PROVE InsertMessage(r)
        BY <1>3, <3>1 DEF Statement, InsertRoom, InsertOwner, FindRoom, Count, InsertMember,
           DeleteMember, Upsert, Probe, InsertRow, DeleteRow, SetPolicy, ReadPolicy,
           ReadContact, ReadMember
      <3> QED
        BY <1>1, <3>1 DEF InsertMessage, Execute
    <2>5. Held(r)'
      <3>1. r \notin db.messages
        BY <2>1 DEF HeldInv, Held, Statements
      <3> QED
        BY <2>1, <2>2, <2>3, <2>4, <3>1 DEF HeldInv, Held, Statements
    <2>6. ASSUME NEW q \in Requests \ {r} PROVE Held(q)'
      BY <1>1, <2>1, <2>2 DEF HeldInv, Held
    <2> QED
      BY <2>1, <2>2, <2>5, <2>6 DEF HeldInv
  <1>4. ASSUME NEW r \in Requests, NEW q \in Asks, Submit(r, q)
        PROVE  HeldInv'
    <2>1. /\ ask' = [ask EXCEPT ![r] = q] /\ pc' = [pc EXCEPT ![r] = First(q)]
          /\ pc[r] = "idle" /\ UNCHANGED <<db, disk>>
      BY <1>4 DEF Submit
    <2>2. First(q) \notin {"insertOwner", "commit", "done"}
      BY AskFacts DEF First, RowKinds, OwnKinds
    <2>3. r \notin db.messages
      BY <2>1 DEF HeldInv, Held
    <2>4. Held(r)'
      BY <1>1, <2>1, <2>2, <2>3 DEF Held
    <2>5. ASSUME NEW s \in Requests \ {r} PROVE Held(s)'
      BY <1>1, <2>1 DEF HeldInv, Held
    <2> QED
      BY <2>1, <2>4, <2>5 DEF HeldInv
  <1>5. ASSUME NEW r \in Requests, Commit(r)
        PROVE  HeldInv'
    <2>1. /\ disk' = db /\ db' = db /\ ask' = ask
          /\ pc' = [pc EXCEPT ![r] = "done"] /\ pc[r] = "commit"
      BY <1>5 DEF Commit
    <2>2. ASSUME NEW q \in Requests PROVE Held(q)'
      BY <1>1, <2>1 DEF HeldInv, Held
    <2> QED
      BY <2>1, <2>2 DEF HeldInv
  <1>6. ASSUME Crash
        PROVE  HeldInv'
    <2>1. /\ db' = disk /\ disk' = disk /\ ask' = ask
          /\ \A q \in Requests : pc'[q] = IF pc[q] \in Statements THEN "lost" ELSE pc[q]
      BY <1>6 DEF Crash, Running
    <2>2. ASSUME NEW q \in Requests PROVE Held(q)'
      BY <2>1 DEF HeldInv, Held, Statements
    <2> QED
      BY <2>1, <2>2 DEF HeldInv
  <1> QED
    BY <1>2, <1>3, <1>4, <1>5, <1>6 DEF Next, Step, Statement

THEOREM AnswersHold == Spec => []AnswersAreKept
  <1>1. Init => HeldInv
    <2> SUFFICES ASSUME Init PROVE HeldInv
      OBVIOUS
    <2>1. db.messages = {} /\ disk = db /\ \A r \in Requests : pc[r] = "idle"
      BY DEF Init
    <2> QED
      BY <2>1 DEF HeldInv, Held
  <1>2. Inv => Sound
    BY DEF Inv
  <1>3. HeldInv => AnswersAreKept
    BY DEF HeldInv, Held, AnswersAreKept
  <1> QED
    BY <1>1, <1>2, <1>3, HeldStep, Inductive, PTL DEF Spec
=============================================================================
