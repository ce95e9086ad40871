---------------------------- MODULE Registration ----------------------------
(***************************************************************************)
(* POST /agents/register (server/routes_agents.py, auth.py) as requests    *)
(* that interleave at their database awaits: the token a request proves    *)
(* its identity with, the token it is given in exchange, and the trusted   *)
(* identity that the broker stamps on an agent.                            *)
(*                                                                         *)
(* All requests share one SQLite connection and so one transaction: a      *)
(* statement is seen by every other request at once, and a commit makes    *)
(* durable whatever was executed before it, by whomever.  Tokens are       *)
(* random, so the token that a request generates is named by the request.  *)
(***************************************************************************)
EXTENDS Naturals

CONSTANTS Ids,         \* agent ids that uuid4 may return
          Requests,    \* registration requests, each made once
          Identities,  \* trusted identities of the right kind
          None,
          MaxCrashes   \* how often the broker may die and restart

ASSUME NoneIsNothing == None \notin Ids \cup Requests \cup Identities
ASSUME MaxCrashesIsNat == MaxCrashes \in Nat

VARIABLES
    agents,   \* the agents table as the connection sees it: id -> row
    disk,     \* the agents table as last committed
    pc,       \* request -> where its coroutine is
    form,     \* request -> what the client sent, and whether as admin
    found,    \* request -> existing_agent_id
    seen,     \* request -> existing_trusted_identity
    answer,   \* request -> the agent_id in its response
    crashes

vars == <<agents, disk, pc, form, found, seen, answer, crashes>>

-----------------------------------------------------------------------------
(* A row of the agents table; without a token it does not exist.           *)
Rows == [token: Requests \cup {None}, trusted: Identities \cup {None}]

NoRow == [token |-> None, trusted |-> None]

Forms == [existing: Requests \cup {None}, admin: BOOLEAN, trusted: Identities \cup {None}]

NoForm == [existing |-> None, admin |-> FALSE, trusted |-> None]

(* A mutant of Requested: the admin key is not asked for.                  *)
RequestedByAnyone(r) == form[r].trusted

(* A mutant of Requested: the payload is stored as it came.                *)
RequestedVerbatim(r) == IF form[r].admin THEN form[r] ELSE None

(* requested_trusted_identity: the field counts with the admin key only.   *)
Requested(r) == IF form[r].admin THEN form[r].trusted ELSE None

(* final_trusted_identity: requested, or else the existing one.            *)
Final(r) == IF Requested(r) # None THEN Requested(r) ELSE seen[r]

(* A mutant of Conflicts: an existing trusted identity may be replaced.    *)
NeverConflicts(r, existing) == FALSE

(* The request would change a trusted identity: answered with 409.         *)
Conflicts(r, existing) ==
    existing # None /\ Requested(r) # None /\ existing # Requested(r)

Init ==
    /\ agents = [i \in Ids |-> NoRow]
    /\ disk = agents
    /\ pc = [r \in Requests |-> "idle"]
    /\ form = [r \in Requests |-> NoForm]
    /\ found = [r \in Requests |-> None]
    /\ seen = [r \in Requests |-> None]
    /\ answer = [r \in Requests |-> None]
    /\ crashes = 0

-----------------------------------------------------------------------------
(* A client registers: anew, or with a token that it was once given.       *)
Submit(r, f) ==
    /\ pc[r] = "idle"
    /\ f.existing # None => pc[f.existing] = "done"
    /\ form' = [form EXCEPT ![r] = f]
    /\ pc' = [pc EXCEPT ![r] = IF f.existing = None THEN "write" ELSE "authenticate"]
    /\ UNCHANGED <<agents, disk, found, seen, answer, crashes>>

(* authenticate_token: the agent whose row has this token, if any does.    *)
Authenticate(r) ==
    /\ pc[r] = "authenticate"
    /\ \/ \E i \in Ids : /\ agents[i].token = form[r].existing
                         /\ found' = [found EXCEPT ![r] = i]
                         /\ pc' = [pc EXCEPT ![r] = "read"]
       \/ /\ \A i \in Ids : agents[i].token # form[r].existing
          /\ pc' = [pc EXCEPT ![r] = "write"]
          /\ UNCHANGED found
    /\ UNCHANGED <<agents, disk, form, seen, answer, crashes>>

(* _get_agent_row and the check that follows it without an await.          *)
ReadRow(r) ==
    /\ pc[r] = "read"
    /\ seen' = [seen EXCEPT ![r] = agents[found[r]].trusted]
    /\ pc' = [pc EXCEPT ![r] = IF Conflicts(r, seen'[r]) THEN "refused" ELSE "write"]
    /\ UNCHANGED <<agents, disk, form, found, answer, crashes>>

(* A mutant of Write: UPDATE forgets the token.                            *)
WriteWithoutToken(r, i) ==
    /\ IF found[r] = None THEN agents[i] = NoRow ELSE i = found[r]
    /\ agents' = [agents EXCEPT ![i] = [token |-> IF @ = NoRow THEN r ELSE @.token,
                                        trusted |-> Final(r)]]

(* UPDATE of the row that was authenticated, or INSERT of a new one.       *)
Write(r, i) ==
    /\ IF found[r] = None THEN agents[i] = NoRow ELSE i = found[r]
    /\ agents' = [agents EXCEPT ![i] = [token |-> r, trusted |-> Final(r)]]

Save(r, i) ==
    /\ pc[r] = "write"
    /\ Write(r, i)
    /\ answer' = [answer EXCEPT ![r] = i]
    /\ pc' = [pc EXCEPT ![r] = "commit"]
    /\ UNCHANGED <<disk, form, found, seen, crashes>>

(* A mutant of Commit: the response does not wait for the commit.          *)
AnswerUncommitted(r) ==
    /\ pc[r] = "commit"
    /\ pc' = [pc EXCEPT ![r] = "respond"]
    /\ UNCHANGED <<agents, disk, form, found, seen, answer, crashes>>

Commit(r) ==
    /\ pc[r] = "commit"
    /\ disk' = agents
    /\ pc' = [pc EXCEPT ![r] = "respond"]
    /\ UNCHANGED <<agents, form, found, seen, answer, crashes>>

(* The client learns its id and its new token.                             *)
Respond(r) ==
    /\ pc[r] = "respond"
    /\ pc' = [pc EXCEPT ![r] = "done"]
    /\ UNCHANGED <<agents, disk, form, found, seen, answer, crashes>>

(* The process dies and starts again from the committed table.             *)
Crash ==
    /\ crashes < MaxCrashes
    /\ crashes' = crashes + 1
    /\ agents' = disk
    /\ pc' = [r \in Requests |->
                 IF pc[r] \in {"idle", "done", "refused"} THEN pc[r] ELSE "lost"]
    /\ UNCHANGED <<disk, form, found, seen, answer>>

Step(r) ==
    \/ \E f \in Forms : Submit(r, f)
    \/ Authenticate(r)
    \/ ReadRow(r)
    \/ \E i \in Ids : Save(r, i)
    \/ Commit(r)
    \/ Respond(r)

Next == (\E r \in Requests : Step(r)) \/ Crash

Spec == Init /\ [][Next]_vars

-----------------------------------------------------------------------------
(* Properties                                                              *)

TypeOK ==
    /\ agents \in [Ids -> Rows]
    /\ disk \in [Ids -> Rows]
    /\ pc \in [Requests -> {"idle", "authenticate", "read", "write", "commit",
                            "respond", "done", "refused", "lost"}]
    /\ form \in [Requests -> Forms]
    /\ found \in [Requests -> Ids \cup {None}]
    /\ seen \in [Requests -> Identities \cup {None}]
    /\ answer \in [Requests -> Ids \cup {None}]
    /\ crashes \in 0..MaxCrashes

(* A trusted identity, in the table, on disk or carried by a request from  *)
(* the row it read, was asked for by a request with the admin key.         *)
TrustedByAdmin ==
    \A t \in Identities :
        \/ \E i \in Ids : t \in {agents[i].trusted, disk[i].trusted}
        \/ \E r \in Requests : seen[r] = t
        => \E r \in Requests : form[r].admin /\ form[r].trusted = t

(* What a client was told outlives the process: the token it was given     *)
(* still opens its agent, unless a later registration of the very same     *)
(* agent has replaced it.                                                  *)
AnswersAreDurable ==
    \A r \in Requests : pc[r] = "done" =>
        \/ disk[answer[r]].token = r
        \/ \E q \in Requests \ {r} : found[q] = answer[r] /\ disk[answer[r]].token = q

(* No client presents one token twice.                                     *)
TokensUsedOnce ==
    \A q, r \in Requests :
        form[q].existing = form[r].existing /\ form[r].existing # None => q = r

(* An agent that rotates its token with care keeps its identity: as long   *)
(* as no token is presented twice, a registration answers with the agent   *)
(* that the presented token was issued for, crashes notwithstanding.       *)
RotationKeepsIdentity ==
    TokensUsedOnce =>
        \A r \in Requests : pc[r] = "done" /\ form[r].existing # None =>
            answer[r] = answer[form[r].existing]

(* A trusted identity is lost or replaced by nobody but a request that     *)
(* read the row before it had this identity, or by a crash.                *)
OnlyStaleReadsOverwrite ==
    [][\A i \in Ids :
          /\ agents[i].trusted # None /\ agents'[i].trusted # agents[i].trusted
          /\ crashes' = crashes
          => \E r \in Requests : /\ found[r] = i /\ pc[r] = "write"
                                 /\ seen[r] # agents[i].trusted]_vars
=============================================================================
