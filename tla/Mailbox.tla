------------------------------- MODULE Mailbox -------------------------------
(***************************************************************************)
(* What the broker promises about a message and the agents it is meant     *)
(* for, said without connections, coroutines or lists: the abstract        *)
(* specification that Delivery implements.                                 *)
(***************************************************************************)
CONSTANTS Agents, Msgs

VARIABLES asked,     \* message -> agents it is meant for
          taken,     \* message -> agents that some socket took it for
          stored,    \* message -> agents it was stored for
          told,      \* messages whose sender was told "sent"
          box,       \* <<message, agent>> -> where the stored copy stands
          expired,   \* stored copies whose time is over
          attached   \* agents that have an authenticated session

boxVars == <<asked, taken, stored, told, box, expired, attached>>

Copies == Msgs \X Agents

Init ==
    /\ asked = [m \in Msgs |-> {}]
    /\ taken = [m \in Msgs |-> {}]
    /\ stored = [m \in Msgs |-> {}]
    /\ told = {}
    /\ box = [copy \in Copies |-> "none"]
    /\ expired = {}
    /\ attached = {}

-----------------------------------------------------------------------------
(* Agents come and go; all of them go when the broker restarts.            *)
Attend(who) ==
    /\ attached' = who
    /\ UNCHANGED <<asked, taken, stored, told, box, expired>>

(* The broker learns for whom a message is, until it reports the message.  *)
Address(m, who) ==
    /\ m \notin told
    /\ asked' = [asked EXCEPT ![m] = @ \cup who]
    /\ UNCHANGED <<taken, stored, told, box, expired, attached>>

(* A socket of an agent takes a message that is meant for the agent: at    *)
(* once, while the sender waits, or later, out of the mailbox.             *)
Deliver(m, a) ==
    /\ a \in asked[m]
    /\ m \notin told \/ a \in stored[m]
    /\ taken' = [taken EXCEPT ![m] = @ \cup {a}]
    /\ UNCHANGED <<asked, stored, told, box, expired, attached>>

(* The message is put into the mailbox of an agent it is meant for.  A     *)
(* copy that is there stays what it is.                                    *)
Store(m, a) ==
    /\ m \notin told /\ a \in asked[m]
    /\ stored' = [stored EXCEPT ![m] = @ \cup {a}]
    /\ box' = [box EXCEPT ![<<m, a>>] = IF @ = "none" THEN "pending" ELSE @]
    /\ UNCHANGED <<asked, taken, told, expired, attached>>

(* The sender is told "sent": every agent was served or has its copy.      *)
Report(m) ==
    /\ m \notin told
    /\ asked[m] \subseteq taken[m] \cup stored[m]
    /\ told' = told \cup {m}
    /\ UNCHANGED <<asked, taken, stored, box, expired, attached>>

(* An attached agent is handed its waiting copies, nobody else's.          *)
HandOver(a) ==
    /\ a \in attached
    /\ box' = [copy \in Copies |->
                  IF copy[2] = a /\ box[copy] = "pending" THEN "delivered" ELSE box[copy]]
    /\ UNCHANGED <<asked, taken, stored, told, expired, attached>>

(* An attached agent acknowledges a message that it was given.             *)
Acknowledge(m, a) ==
    /\ a \in attached /\ a \in taken[m]
    /\ box' = [box EXCEPT ![<<m, a>>] = IF @ = "none" THEN @ ELSE "acked"]
    /\ UNCHANGED <<asked, taken, stored, told, expired, attached>>

(* The time of a copy is over; later all such copies are thrown away.      *)
Age(m, a) ==
    /\ box[<<m, a>>] # "none"
    /\ expired' = expired \cup {<<m, a>>}
    /\ UNCHANGED <<asked, taken, stored, told, box, attached>>

Discard ==
    /\ box' = [copy \in Copies |-> IF copy \in expired THEN "none" ELSE box[copy]]
    /\ expired' = {}
    /\ UNCHANGED <<asked, taken, stored, told, attached>>

Next ==
    \/ \E who \in SUBSET Agents : Attend(who)
    \/ \E m \in Msgs :
          \/ \E who \in SUBSET Agents : Address(m, who)
          \/ Report(m)
          \/ \E a \in Agents : \/ Deliver(m, a) \/ Store(m, a)
                               \/ Acknowledge(m, a) \/ Age(m, a)
    \/ \E a \in Agents : HandOver(a)
    \/ Discard

Spec == Init /\ [][Next]_boxVars
=============================================================================
