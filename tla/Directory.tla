------------------------------ MODULE Directory ------------------------------
(***************************************************************************)
(* Who may talk to whom: contacts, dm policies and a room, as the routes   *)
(* change them (server/routes_contacts.py, routes_admin.py,                *)
(* routes_rooms.py, PATCH /agents/me) and as the admission of a message    *)
(* reads them (message_validation.py and its two callers).                 *)
(*                                                                         *)
(* A request is a coroutine; pc names the statement it awaits next, and an *)
(* action executes that statement and runs on to the next one.  All        *)
(* requests share one SQLite connection, hence one transaction: a change   *)
(* is seen by everybody at once, and a commit makes durable whatever was   *)
(* executed before it, by whomever.                                        *)
(***************************************************************************)
EXTENDS Naturals, FiniteSets, Sequences

CONSTANTS Agents,      \* registered agents; their rows are never deleted
          Pairs,       \* rows <<agent_id, peer_id>> of contacts considered
          Requests,    \* requests, each made once
          Nobody,      \* the recipient of a message that names none
          MaxMembers,  \* max_members of the room
          MaxPairs,    \* pairs in one bulk request
          MaxCrashes   \* how often the broker may die and restart

ASSUME PairsOfAgents == Pairs \subseteq Agents \X Agents
ASSUME FiniteSides == IsFiniteSet(Agents) /\ IsFiniteSet(Requests) /\ Requests # {}
ASSUME NobodyIsNoAgent == Nobody \notin Agents
ASSUME BoundsAreNat == MaxMembers \in Nat \ {0} /\ MaxPairs \in Nat /\ MaxCrashes \in Nat

VARIABLES
    db,       \* the tables as the connection sees them
    disk,     \* the tables as last committed
    pc,       \* request -> the statement it awaits
    ask,      \* request -> what it asks for
    todo,     \* request -> rows of contacts it has still to process
    granted,  \* history: <<r, "agent">> and <<r, "room">> if r's message to
              \* that target was permitted at some moment while r ran
    crashes

vars == <<db, disk, pc, ask, todo, granted, crashes>>

-----------------------------------------------------------------------------
Policies == {"open", "contacts_only"}

(* contacts, agents.dm_policy, the room if it exists, room_members, and    *)
(* messages, each named by the request that sends it.                      *)
Tables == [contacts: SUBSET Pairs, policy: [Agents -> Policies],
           room: BOOLEAN, members: SUBSET Agents, messages: SUBSET Requests]

(* What a request asks for.  An admin request is nobody's; rows is the row *)
(* or the rows of contacts it names, to and inRoom the targets of a        *)
(* message.                                                                *)
NoAsk == [kind |-> "none", by |-> Nobody, rows |-> << >>, to |-> Nobody,
          inRoom |-> FALSE, policy |-> "open"]

Ask(kind, agent) == [NoAsk EXCEPT !.kind = kind, !.by = agent]

OnRows(kind, agent, rows) == [Ask(kind, agent) EXCEPT !.rows = rows]

Bulks == UNION {[1..n -> Pairs] : n \in 1..MaxPairs}

(* Requests that pass the checks made before the first statement.          *)
RoomAsks == {Ask(kind, a) : kind \in {"create", "join", "leave"}, a \in Agents}

(* An agent changes its own contacts, the admin anybody's; an agent is not *)
(* added as its own contact, except by a bulk request.                     *)
Strangers == {p \in Pairs : p[1] # p[2]}

RowAsks == {OnRows("remove", p[1], <<p>>) : p \in Pairs} \cup
           {OnRows("add", p[1], <<p>>) : p \in Strangers} \cup
           {OnRows("adminAdd", Nobody, <<p>>) : p \in Strangers}

BulkAsks == {OnRows(kind, Nobody, ps) : kind \in {"bulkAdd", "bulkRemove"}, ps \in Bulks}

PolicyAsks == {[Ask("policy", a) EXCEPT !.policy = p] : a \in Agents, p \in Policies}

(* A message is for an agent, for the room or for both.                    *)
Targets == ((Agents \cup {Nobody}) \X BOOLEAN) \ {<<Nobody, FALSE>>}

Message(a, t) == [Ask("send", a) EXCEPT !.to = t[1], !.inRoom = t[2]]

MessageAsks == {Message(a, t) : a \in Agents, t \in Targets}

Asks == RoomAsks \cup RowAsks \cup BulkAsks \cup PolicyAsks \cup MessageAsks

Statements == {"insertRoom", "insertOwner", "findRoom", "count", "insertMember",
               "deleteMember", "upsert", "probe", "insertRow", "deleteRow", "setPolicy",
               "readPolicy", "readContact", "readMember", "insertMessage", "commit"}

Running(r) == pc[r] \in Statements

(* The statement that a handler begins with.                               *)
First(q) ==
    CASE q.kind = "create" -> "insertRoom"
      [] q.kind = "join" -> "findRoom"
      [] q.kind = "leave" -> "deleteMember"
      [] q.kind = "add" -> "upsert"
      [] q.kind \in {"adminAdd", "bulkAdd"} -> "probe"
      [] q.kind \in {"remove", "bulkRemove"} -> "deleteRow"
      [] q.kind = "policy" -> "setPolicy"
      [] q.kind = "send" -> IF q.to # Nobody THEN "readPolicy" ELSE "findRoom"

(* The tables at rest: everything is committed, the room is in its limit.  *)
Init ==
    /\ db \in {t \in Tables : /\ t.messages = {}
                              /\ t.members # {} => t.room
                              /\ Cardinality(t.members) <= MaxMembers}
    /\ disk = db
    /\ pc = [r \in Requests |-> "idle"]
    /\ ask = [r \in Requests |-> NoAsk]
    /\ todo = [r \in Requests |-> << >>]
    /\ granted = {}
    /\ crashes = 0

(* A request arrives; the room's id is new, so it is created once.         *)
Submit(r, q) ==
    /\ pc[r] = "idle"
    /\ q.kind = "create" => ~ db.room /\ \A other \in Requests : ask[other].kind # "create"
    /\ ask' = [ask EXCEPT ![r] = q]
    /\ todo' = [todo EXCEPT ![r] = q.rows]
    /\ pc' = [pc EXCEPT ![r] = First(q)]
    /\ UNCHANGED <<db, disk, crashes>>

-----------------------------------------------------------------------------
(* The statements.  One leaves the tables t and goes on to next; in a loop *)
(* over rows it goes on with the next row, or commits after the last.      *)
Execute(r, t, next) ==
    /\ db' = t
    /\ pc' = [pc EXCEPT ![r] = next]
    /\ UNCHANGED <<disk, ask, todo, crashes>>

ExecuteRow(r, t, again) ==
    /\ db' = t
    /\ pc' = [pc EXCEPT ![r] = IF Len(todo[r]) > 1 THEN again ELSE "commit"]
    /\ todo' = [todo EXCEPT ![r] = Tail(@)]
    /\ UNCHANGED <<disk, ask, crashes>>

(* create_room: the room, then its creator as owner.                       *)
InsertRoom(r) ==
    /\ pc[r] = "insertRoom"
    /\ Execute(r, [db EXCEPT !.room = TRUE], "insertOwner")

InsertOwner(r) ==
    /\ pc[r] = "insertOwner"
    /\ Execute(r, [db EXCEPT !.members = @ \cup {ask[r].by}], "commit")

(* Does the room exist?  Asked by join_room and for a message to the room. *)
FindRoom(r) ==
    /\ pc[r] = "findRoom"
    /\ Execute(r, db, IF ~ db.room THEN "refused"
                      ELSE IF ask[r].kind = "join" THEN "count" ELSE "readMember")

(* A mutant of Count: the limit is not compared.                           *)
CountUnchecked(r) == pc[r] = "count" /\ Execute(r, db, "insertMember")

(* join_room: the members are counted, and only later is one inserted.     *)
Count(r) ==
    /\ pc[r] = "count"
    /\ Execute(r, db, IF Cardinality(db.members) >= MaxMembers
                      THEN "refused" ELSE "insertMember")

InsertMember(r) ==
    /\ pc[r] = "insertMember"
    /\ Execute(r, [db EXCEPT !.members = @ \cup {ask[r].by}], "commit")

(* A mutant of DeleteMember: leave_room forgets to commit.                 *)
DeleteMemberOnly(r) ==
    /\ pc[r] = "deleteMember"
    /\ Execute(r, [db EXCEPT !.members = @ \ {ask[r].by}], "done")

(* leave_room, which the owner may do as well.                             *)
DeleteMember(r) ==
    /\ pc[r] = "deleteMember"
    /\ Execute(r, [db EXCEPT !.members = @ \ {ask[r].by}], "commit")

(* A mutant of Upsert: the two ids change places.                          *)
UpsertReversed(r) ==
    /\ pc[r] = "upsert"
    /\ LET row == Head(todo[r])
       IN Execute(r, [db EXCEPT !.contacts = @ \cup {<<row[2], row[1]>>}], "commit")

(* add_contact: INSERT ... ON CONFLICT DO UPDATE.                          *)
Upsert(r) ==
    /\ pc[r] = "upsert"
    /\ Execute(r, [db EXCEPT !.contacts = @ \cup {Head(todo[r])}], "commit")

(* _insert_contact looks for the row: a single add is refused if it is     *)
(* there, a bulk add skips it.                                             *)
Probe(r) ==
    /\ pc[r] = "probe"
    /\ \/ /\ Head(todo[r]) \notin db.contacts
          /\ Execute(r, db, "insertRow")
       \/ /\ Head(todo[r]) \in db.contacts /\ ask[r].kind = "adminAdd"
          /\ Execute(r, db, "refused")
       \/ /\ Head(todo[r]) \in db.contacts /\ ask[r].kind = "bulkAdd"
          /\ ExecuteRow(r, db, "probe")

(* A mutant of InsertRow: INSERT OR IGNORE.                                *)
InsertRowOrIgnore(r) ==
    /\ pc[r] = "insertRow"
    /\ ExecuteRow(r, [db EXCEPT !.contacts = @ \cup {Head(todo[r])}], "probe")

(* ... and inserts it.  If somebody else has done so meanwhile the primary *)
(* key makes it an error, and the request ends without commit or rollback. *)
InsertRow(r) ==
    /\ pc[r] = "insertRow"
    /\ IF Head(todo[r]) \in db.contacts
       THEN Execute(r, db, "failed")
       ELSE ExecuteRow(r, [db EXCEPT !.contacts = @ \cup {Head(todo[r])}], "probe")

(* remove_contact and the admin's removals: DELETE, whether or not the row *)
(* exists.                                                                 *)
DeleteRow(r) ==
    /\ pc[r] = "deleteRow"
    /\ ExecuteRow(r, [db EXCEPT !.contacts = @ \ {Head(todo[r])}], "deleteRow")

(* PATCH /agents/me with a dm_policy.                                      *)
SetPolicy(r) ==
    /\ pc[r] = "setPolicy"
    /\ Execute(r, [db EXCEPT !.policy[ask[r].by] = ask[r].policy], "commit")

(* get_message_target_error: the recipient's policy, its contacts, the     *)
(* room, the sender's membership, each read in a statement of its own.     *)
AfterAgent(r) == IF ask[r].inRoom THEN "findRoom" ELSE "insertMessage"

ReadPolicy(r) ==
    /\ pc[r] = "readPolicy"
    /\ LET q == ask[r]
       IN Execute(r, db, IF q.to # q.by /\ db.policy[q.to] = "contacts_only"
                         THEN "readContact" ELSE AfterAgent(r))

(* A mutant of ReadContact: the sender's contacts are asked.               *)
ReadContactOfSender(r) ==
    /\ pc[r] = "readContact"
    /\ Execute(r, db, IF <<ask[r].by, ask[r].to>> \in db.contacts
                      THEN AfterAgent(r) ELSE "refused")

ReadContact(r) ==
    /\ pc[r] = "readContact"
    /\ Execute(r, db, IF <<ask[r].to, ask[r].by>> \in db.contacts
                      THEN AfterAgent(r) ELSE "refused")

ReadMember(r) ==
    /\ pc[r] = "readMember"
    /\ Execute(r, db, IF ask[r].by \in db.members THEN "insertMessage" ELSE "refused")

InsertMessage(r) ==
    /\ pc[r] = "insertMessage"
    /\ Execute(r, [db EXCEPT !.messages = @ \cup {r}], "commit")

(* db.commit(), after which the request is answered, and a message fanned  *)
(* out.                                                                    *)
Commit(r) ==
    /\ pc[r] = "commit"
    /\ disk' = db
    /\ pc' = [pc EXCEPT ![r] = "done"]
    /\ UNCHANGED <<db, ask, todo, crashes>>

(* The process dies and starts again: the open transaction is rolled back. *)
Crash ==
    /\ crashes < MaxCrashes
    /\ crashes' = crashes + 1
    /\ db' = disk
    /\ pc' = [r \in Requests |-> IF Running(r) THEN "lost" ELSE pc[r]]
    /\ UNCHANGED <<disk, ask, todo>>

Step(r) ==
    \/ \E q \in Asks : Submit(r, q)
    \/ InsertRoom(r) \/ InsertOwner(r)
    \/ FindRoom(r) \/ Count(r) \/ InsertMember(r) \/ DeleteMember(r)
    \/ Upsert(r) \/ Probe(r) \/ InsertRow(r) \/ DeleteRow(r) \/ SetPolicy(r)
    \/ ReadPolicy(r) \/ ReadContact(r) \/ ReadMember(r) \/ InsertMessage(r)
    \/ Commit(r)

(* The targets that the tables t permit the message q at this moment.      *)
Permits(t, q) ==
    {target \in {"agent", "room"} :
        IF target = "room" THEN q.inRoom /\ q.by \in t.members
        ELSE /\ q.to # Nobody
             /\ \/ q.to = q.by
                \/ t.policy[q.to] = "open"
                \/ <<q.to, q.by>> \in t.contacts}

Observe ==
    granted' = granted \cup
        UNION {{r} \X Permits(db', ask'[r]) : r \in {r \in Requests : Running(r)'}}

Next ==
    /\ (\E r \in Requests : Step(r)) \/ Crash
    /\ Observe

Spec == Init /\ [][Next]_vars

-----------------------------------------------------------------------------
(* Properties                                                              *)

TypeOK ==
    /\ db \in Tables
    /\ disk \in Tables
    /\ pc \in [Requests -> Statements \cup {"idle", "done", "refused", "failed", "lost"}]
    /\ ask \in [Requests -> Asks \cup {NoAsk}]
    /\ todo \in [Requests -> Seq(Pairs)]
    /\ granted \subseteq Requests \X {"agent", "room"}
    /\ crashes \in 0..MaxCrashes

(* Joins that counted at the same time may overfill the room, but only by  *)
(* as many members as requests overlap: those about to insert included, it *)
(* never has more than its limit and one less than the requests.           *)
RoomNearLimit ==
    Cardinality(db.members)
      + Cardinality({r \in Requests : pc[r] \in {"insertMember", "insertOwner"}})
    <= MaxMembers + Cardinality(Requests) - 1

(* A stored message was permitted for each of its targets at some moment   *)
(* while its request ran, however contacts, policies and memberships       *)
(* change between the statements that check them.                          *)
AdmittedWasPermitted ==
    \A r \in db.messages :
        /\ ask[r].to # Nobody => <<r, "agent">> \in granted
        /\ ask[r].inRoom => <<r, "room">> \in granted

(* When no request runs, everything is committed; only a request that      *)
(* ended in a database error leaves something for the next commit.         *)
RestIsDurable ==
    (\A r \in Requests : ~ Running(r) /\ pc[r] # "failed") => disk = db

(* Of overlapping adds of one contact by the admin one is told that it     *)
(* created the row: a second needs a removal or a rollback in between.     *)
CreatedOnce ==
    (crashes = 0 /\ \A r \in Requests : ask[r].kind \notin {"remove", "bulkRemove"})
    => \A q, r \in Requests :
          /\ ask[q].kind = "adminAdd" /\ pc[q] = "done"
          /\ ask[r].kind = "adminAdd" /\ pc[r] = "done"
          /\ ask[q].rows = ask[r].rows
          => q = r
=============================================================================
