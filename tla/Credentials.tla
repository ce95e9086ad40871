----------------------------- MODULE Credentials -----------------------------
(***************************************************************************)
(* The credentials file that all processes of a user share                 *)
(* (client/credentials.py), and the calls of the SDK's Agent and of the    *)
(* command line that read and change it.  The file is not locked: it is    *)
(* read, emptied and written in three steps, between which other processes *)
(* run, and any of which may be the last of its process.                   *)
(*                                                                         *)
(* There is one broker.  The n-th registration issues token n, to a new    *)
(* agent n or to the agent whose token was presented; an entry of the file *)
(* is named by its token.  0 stands for None.                              *)
(***************************************************************************)
EXTENDS Naturals

CONSTANTS Processes,  \* places for processes, one after the other
          Names,      \* names of agents
          MaxTokens,  \* registrations
          MaxStarts   \* starts of a process

ASSUME BoundsAreNat == {MaxTokens, MaxStarts} \subseteq Nat

ASSUME NoNameIsZero == 0 \notin Names

Tokens == 1..MaxTokens

VARIABLES
    text,     \* the file: what it holds, and whether that can be parsed
    proc,     \* process -> where it is, what it does, its agent and what it read
    agentOf,  \* token -> the agent it was issued to
    nameOf,   \* token -> the name of that registration
    issued,   \* registrations so far
    valid,    \* tokens that the broker accepts
    mishap,   \* history: was a file cut off, or written from a stale reading?
    starts

brokerVars == <<agentOf, nameOf, issued, valid>>
vars == <<text, proc, brokerVars, mishap, starts>>

-----------------------------------------------------------------------------
Place(at, job, n, a, t, seen) ==
    [at |-> at, job |-> job, name |-> n, agent |-> a, token |-> t, seen |-> seen]

Off == Place("off", "none", 0, 0, 0, {})

Whole(E) == [form |-> "whole", entries |-> E]

(* A missing file reads as one without entries.                            *)
Init ==
    /\ text = Whole({})
    /\ proc = [p \in Processes |-> Off]
    /\ agentOf = [t \in Tokens |-> 0]
    /\ nameOf = [t \in Tokens |-> 0]
    /\ issued = 0
    /\ valid = {}
    /\ mishap = FALSE
    /\ starts = 0

Become(p, place) == proc' = [proc EXCEPT ![p] = place]

(* json.loads raises ValueError.                                           *)
Unreadable == text.form # "whole"

-----------------------------------------------------------------------------
(* Programs start                                                          *)

Begin == starts < MaxStarts /\ starts' = starts + 1

(* connect_or_register: the entry of the name, or, if there is none or the *)
(* file cannot be read, a registration.                                    *)
ConnectOrRegister(p, n) ==
    /\ proc[p].at = "off" /\ Begin
    /\ \/ /\ ~ Unreadable
          /\ \E t \in text.entries :
               /\ nameOf[t] = n
               /\ Become(p, Place("using", "none", n, agentOf[t], t, {}))
       \/ /\ Unreadable \/ \A t \in text.entries : nameOf[t] # n
          /\ Become(p, Place("registering", "first", n, 0, 0, {}))
    /\ UNCHANGED <<text, brokerVars, mishap>>

(* Agent(name).register(): the command line, and the bridge without token. *)
Register(p, n) ==
    /\ proc[p].at = "off" /\ Begin
    /\ Become(p, Place("registering", "first", n, 0, 0, {}))
    /\ UNCHANGED <<text, brokerVars, mishap>>

(* Agent(token=...): the other commands, under the default name.           *)
UseToken(p, n, t) ==
    /\ proc[p].at = "off" /\ Begin
    /\ t <= issued
    /\ Become(p, Place("using", "none", n, 0, t, {}))
    /\ UNCHANGED <<text, brokerVars, mishap>>

(* connect(): auth.ok names the agent.                                     *)
Connect(p) ==
    /\ proc[p].at = "using" /\ proc[p].token \in valid
    /\ proc[p].agent # agentOf[proc[p].token]
    /\ Become(p, [proc[p] EXCEPT !.agent = agentOf[proc[p].token]])
    /\ UNCHANGED <<text, brokerVars, mishap, starts>>

-----------------------------------------------------------------------------
(* Registration                                                            *)

(* register() once more: the agent keeps its id and gets a new token.      *)
Rotate(p) ==
    /\ proc[p].at = "using"
    /\ Become(p, [proc[p] EXCEPT !.at = "registering", !.job = "again"])
    /\ UNCHANGED <<text, brokerVars, mishap, starts>>

(* A mutant of Refused: an agent id that is not known is removed as well.  *)
RefusedAnyway(p) ==
    /\ proc[p].at = "using" /\ proc[p].token \notin valid
    /\ Become(p, [proc[p] EXCEPT !.at = "load", !.job = "remove"])
    /\ UNCHANGED <<text, brokerVars, mishap, starts>>

(* An operation gets error 401: _reauthenticate.                           *)
Refused(p) ==
    /\ proc[p].at = "using" /\ proc[p].token \notin valid
    /\ \/ /\ proc[p].agent # 0
          /\ Become(p, [proc[p] EXCEPT !.at = "load", !.job = "remove"])
       \/ /\ proc[p].agent = 0
          /\ Become(p, [proc[p] EXCEPT !.at = "registering", !.job = "again"])
    /\ UNCHANGED <<text, brokerVars, mishap, starts>>

(* The broker answers: the agent of the token that was presented, if it is *)
(* accepted, or a new one.  Then store_credentials is called.              *)
Registered(p) ==
    /\ proc[p].at = "registering" /\ issued < MaxTokens
    /\ issued' = issued + 1
    /\ \E a \in Tokens :
         /\ a = IF proc[p].token \in valid THEN agentOf[proc[p].token] ELSE issued'
         /\ agentOf' = [agentOf EXCEPT ![issued'] = a]
         /\ Become(p, [proc[p] EXCEPT !.at = "load", !.agent = a, !.token = issued'])
    /\ nameOf' = [nameOf EXCEPT ![issued'] = proc[p].name]
    /\ valid' = (valid \ {proc[p].token}) \cup {issued'}
    /\ UNCHANGED <<text, mishap, starts>>

-----------------------------------------------------------------------------
(* store_credentials and remove_credentials                                *)

(* _load.  If it raises, an agent that the program has already goes on     *)
(* with the token it has, the first registration of an agent is lost.      *)
Load(p) ==
    /\ proc[p].at = "load"
    /\ \/ /\ ~ Unreadable
          /\ Become(p, [proc[p] EXCEPT !.at = "open", !.seen = text.entries])
       \/ /\ Unreadable /\ proc[p].job # "first"
          /\ Become(p, [proc[p] EXCEPT !.at = "using", !.job = "none"])
       \/ /\ Unreadable /\ proc[p].job = "first"
          /\ Become(p, Off)
    /\ UNCHANGED <<text, brokerVars, mishap, starts>>

(* A mutant of Others: entries of the same name are not replaced.          *)
OthersByAgent(E, p) ==
    {t \in E : agentOf[t] # proc[p].agent}

(* The entries that an update by p leaves alone.                           *)
Others(E, p) ==
    {t \in E : /\ agentOf[t] # proc[p].agent
               /\ proc[p].job # "remove" => nameOf[t] # proc[p].name}

(* What _save is called with.                                              *)
Updated(p) ==
    Others(proc[p].seen, p) \cup (IF proc[p].job = "remove" THEN {} ELSE {proc[p].token})

Writers == {p \in Processes : proc[p].at = "write"}

(* write_text opens the file, which empties it.                            *)
Open(p) ==
    /\ proc[p].at = "open"
    /\ text' = [form |-> "empty", entries |-> {}]
    /\ Become(p, [proc[p] EXCEPT !.at = "write"])
    /\ mishap' = (mishap \/ text # Whole(proc[p].seen))
    /\ UNCHANGED <<brokerVars, starts>>

(* write_text writes, from the beginning of the file.  What another process*)
(* has written since it was emptied may be longer, and its end remains.    *)
Write(p) ==
    /\ proc[p].at = "write"
    /\ \/ text' = Whole(Updated(p))
       \/ /\ text.form = "garbled" \/ ~ (text.entries \subseteq Updated(p))
          /\ text' = [form |-> "garbled", entries |-> {}]
    /\ \/ /\ proc[p].job = "remove"
          /\ Become(p, Place("registering", "again", proc[p].name, 0, proc[p].token, {}))
       \/ /\ proc[p].job # "remove"
          /\ Become(p, Place("using", "none", proc[p].name, proc[p].agent, proc[p].token, {}))
    /\ UNCHANGED <<brokerVars, mishap, starts>>

-----------------------------------------------------------------------------
(* A process ends, wherever it is; a registration that fails ends it too.  *)
End(p) ==
    /\ proc[p].at # "off"
    /\ Become(p, Off)
    /\ mishap' = (mishap \/ proc[p].at = "write")
    /\ UNCHANGED <<text, brokerVars, starts>>

(* The broker starts with a new database.                                  *)
Forget ==
    /\ valid' = {}
    /\ UNCHANGED <<text, proc, agentOf, nameOf, issued, mishap, starts>>

Step(p) ==
    \/ \E n \in Names : ConnectOrRegister(p, n) \/ Register(p, n)
    \/ \E n \in Names, t \in Tokens : UseToken(p, n, t)
    \/ Connect(p) \/ Rotate(p) \/ Refused(p) \/ Registered(p)
    \/ Load(p) \/ Open(p) \/ Write(p) \/ End(p)

Next == Forget \/ \E p \in Processes : Step(p)

Spec == Init /\ [][Next]_vars

-----------------------------------------------------------------------------
(* Properties                                                              *)

Agents == Tokens

(* A process that updates the file knows for which agent.                  *)
TypeOK ==
    /\ text \in [form : {"whole", "empty", "garbled"}, entries : SUBSET Tokens]
    /\ proc \in [Processes ->
          [at : {"off", "using", "registering", "load", "open", "write"},
           job : {"none", "first", "again", "remove"},
           name : Names \cup {0}, agent : Agents \cup {0}, token : Tokens \cup {0},
           seen : SUBSET Tokens]]
    /\ \A p \in Processes : proc[p].at \in {"load", "open", "write"} => proc[p].agent # 0
    /\ agentOf \in [Tokens -> Agents \cup {0}]
    /\ nameOf \in [Tokens -> Names \cup {0}]
    /\ issued \in 0..MaxTokens
    /\ valid \subseteq Tokens
    /\ mishap \in BOOLEAN
    /\ starts \in 0..MaxStarts

-----------------------------------------------------------------------------
(* The abstract store                                                      *)

Entry(t) == [agent |-> agentOf[t], token |-> t, name |-> nameOf[t]]

(* What the file holds, or, while one process writes it, held before.      *)
Content ==
    IF text.form = "whole" THEN text.entries
    ELSE IF mishap THEN {} ELSE UNION {proc[p].seen : p \in Writers}

Saved == {Entry(t) : t \in Content}

Known == {Entry(t) : t \in 1..issued}

Store == INSTANCE CredentialStore WITH saved <- Saved, known <- Known

(* The file behaves as a store of one entry per name that is updated as a  *)
(* whole, by processes that take turns, until the first write that is cut  *)
(* off or goes over another that it has not read; and even then no entry   *)
(* is made up and no name has two.                                         *)
ActsAsStore == Store!Spec
=============================================================================
