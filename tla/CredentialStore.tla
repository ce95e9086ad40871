--------------------------- MODULE CredentialStore ---------------------------
(***************************************************************************)
(* What a credentials file is meant to be: one entry per name, changed as  *)
(* a whole by one caller after the other.  The abstract specification that *)
(* Credentials implements until a mishap, after which entries may be gone, *)
(* but none is made up and no name has two.                                *)
(***************************************************************************)
VARIABLES saved,   \* the entries, records [agent, token, name]
          known,   \* every entry that the broker has ever handed out
          mishap   \* has an update been cut off, or lost to another one?

storeVars == <<saved, known, mishap>>

OnePerName(E) ==
    \A e, f \in E : (e.name = f.name \/ e.agent = f.agent) => e = f

Init == saved = {} /\ known = {} /\ mishap = FALSE

(* The broker hands out a token.                                           *)
Issue(e) ==
    /\ known' = known \cup {e}
    /\ UNCHANGED <<saved, mishap>>

(* An entry takes the place of those of its agent and of its name.         *)
Store(e) ==
    /\ e \in known
    /\ saved' = {f \in saved : f.agent # e.agent /\ f.name # e.name} \cup {e}

Remove(a) == saved' = {f \in saved : f.agent # a}

Mishap ==
    /\ mishap' = TRUE
    /\ UNCHANGED known
    /\ saved' \subseteq known
    /\ OnePerName(saved')

Next ==
    \/ \E e \in known' : Issue(e)
    \/ /\ ~ mishap /\ UNCHANGED <<known, mishap>>
       /\ \/ \E e \in known : Store(e)
          \/ \E a \in {f.agent : f \in known} : Remove(a)
    \/ Mishap

Spec == Init /\ [][Next]_storeVars
=============================================================================
