-------------------------- MODULE RegistrationProofs --------------------------
(***************************************************************************)
(* Proofs about Registration, for any number of agents, requests,          *)
(* identities and crashes.                                                 *)
(***************************************************************************)
EXTENDS Registration, TLAPS

Answered == {"commit", "respond", "done"}
Told == {"respond", "done"}
Written == {"commit", "respond", "done", "lost"}

(* What the control state of a request says of its local variables.        *)
Local ==
    \A r \in Requests :
        /\ pc[r] = "idle" => form[r] = NoForm
        /\ pc[r] \in {"idle", "authenticate"} => found[r] = None /\ seen[r] = None
        /\ pc[r] = "authenticate" => form[r].existing # None
        /\ pc[r] = "read" => found[r] # None /\ form[r].existing # None
        /\ pc[r] \in {"write"} \cup Answered /\ form[r].existing = None => found[r] = None
        /\ pc[r] = "write" => ~ Conflicts(r, seen[r])
        /\ pc[r] \in Answered => answer[r] \in Ids
        /\ form[r].existing # None => pc[form[r].existing] = "done"

(* A token in the table was given to the agent in whose row it is.         *)
Issued(table) ==
    \A i \in Ids, p \in Requests :
        table[i].token = p => pc[p] \in Written /\ answer[p] = i

(* The token given to r opens r's agent in this table, or a later          *)
(* registration of that agent has replaced it.                             *)
Opens(table, r) ==
    \/ table[answer[r]].token = r
    \/ \E q \in Requests \ {r} : found[q] = answer[r] /\ table[answer[r]].token = q

Durable ==
    \A r \in Requests :
        /\ pc[r] \in Answered => Opens(agents, r)
        /\ pc[r] \in Told => Opens(disk, r)

RegInv == TypeOK /\ Local /\ TrustedByAdmin /\ Issued(agents) /\ Issued(disk) /\ Durable

-----------------------------------------------------------------------------
LEMMA InitInv == Init => RegInv
  <1> SUFFICES ASSUME Init PROVE RegInv
    OBVIOUS
  <1> USE NoneIsNothing, MaxCrashesIsNat DEF Init, NoRow, NoForm
  <1>1. TypeOK
    BY DEF TypeOK, Rows, Forms
  <1>2. Local
    BY DEF Local, Answered
  <1>3. TrustedByAdmin
    BY DEF TrustedByAdmin
  <1>4. Issued(agents) /\ Issued(disk)
    BY DEF Issued
  <1>5. Durable
    BY DEF Durable, Answered, Told
  <1> QED
    BY <1>1, <1>2, <1>3, <1>4, <1>5 DEF RegInv

(* Every step keeps the types.                                             *)
LEMMA StepType == RegInv /\ [Next]_vars => TypeOK'
  <1> SUFFICES ASSUME RegInv, [Next]_vars PROVE TypeOK'
    OBVIOUS
  <1> USE NoneIsNothing, MaxCrashesIsNat DEF TypeOK, RegInv
  <1>1. ASSUME NEW r \in Requests, NEW f \in Forms, Submit(r, f) PROVE TypeOK'
    BY <1>1 DEF Submit
  <1>2. ASSUME NEW r \in Requests, Authenticate(r) PROVE TypeOK'
    BY <1>2 DEF Authenticate
  <1>3. ASSUME NEW r \in Requests, ReadRow(r) PROVE TypeOK'
    <2>1. agents[found[r]].trusted \in Identities \cup {None}
      BY <1>3 DEF ReadRow, Local, Rows
    <2>2. seen' \in [Requests -> Identities \cup {None}]
      BY <1>3, <2>1 DEF ReadRow
    <2> QED
      BY <1>3, <2>2 DEF ReadRow
  <1>4. ASSUME NEW r \in Requests, NEW i \in Ids, Save(r, i) PROVE TypeOK'
    <2>1. Final(r) \in Identities \cup {None}
      BY DEF Final, Requested, Forms
    <2>2. agents' \in [Ids -> Rows]
      BY <1>4, <2>1 DEF Save, Write, Rows
    <2> QED
      BY <1>4, <2>2 DEF Save
  <1>5. ASSUME NEW r \in Requests, Commit(r) PROVE TypeOK'
    BY <1>5 DEF Commit
  <1>6. ASSUME NEW r \in Requests, Respond(r) PROVE TypeOK'
    BY <1>6 DEF Respond
  <1>7. ASSUME Crash PROVE TypeOK'
    BY <1>7 DEF Crash
  <1>8. ASSUME UNCHANGED vars PROVE TypeOK'
    BY <1>8 DEF vars
  <1> QED
    BY <1>1, <1>2, <1>3, <1>4, <1>5, <1>6, <1>7, <1>8 DEF Next, Step

LEMMA StepLocal == RegInv /\ [Next]_vars => Local'
  <1> SUFFICES ASSUME RegInv, [Next]_vars PROVE Local'
    OBVIOUS
  <1> USE NoneIsNothing DEF RegInv, TypeOK, Local, Answered
  <1>0. \A r \in Requests : form[r].existing \in Requests \cup {None}
    BY DEF Forms
  <1>1. ASSUME NEW r \in Requests, NEW f \in Forms, Submit(r, f) PROVE Local'
    <2>1. /\ UNCHANGED <<found, seen, answer>>
          /\ pc[r] = "idle" /\ form'[r] = f
          /\ f.existing \in Requests \cup {None}
          /\ f.existing # None => pc[f.existing] = "done"
          /\ pc'[r] = IF f.existing = None THEN "write" ELSE "authenticate"
          /\ \A q \in Requests \ {r} : pc'[q] = pc[q] /\ form'[q] = form[q]
      BY <1>1 DEF Submit, Forms
    <2>2. found[r] = None
      BY <2>1
    <2>3. pc'[r] = "write" => seen'[r] = None
      BY <2>1
    <2> QED
      BY <2>1, <2>2, <2>3, <1>0 DEF Conflicts, Requested
  <1>2. ASSUME NEW r \in Requests, Authenticate(r) PROVE Local'
    <2>1. /\ UNCHANGED <<form, seen, answer>>
          /\ pc[r] = "authenticate" /\ pc'[r] \in {"read", "write"}
          /\ pc'[r] = "read" => found'[r] \in Ids
          /\ pc'[r] = "write" => found'[r] = None
          /\ \A q \in Requests \ {r} : pc'[q] = pc[q] /\ found'[q] = found[q]
      BY <1>2 DEF Authenticate
    <2> QED
      BY <2>1, <1>0 DEF Conflicts, Requested
  <1>3. ASSUME NEW r \in Requests, ReadRow(r) PROVE Local'
    <2>1. /\ UNCHANGED <<form, found, answer>>
          /\ pc[r] = "read" /\ pc'[r] \in {"refused", "write"}
          /\ \A q \in Requests \ {r} : pc'[q] = pc[q] /\ seen'[q] = seen[q]
      BY <1>3 DEF ReadRow
    <2>2. pc'[r] = "write" => ~ Conflicts(r, seen[r])'
      BY <1>3 DEF ReadRow, Conflicts, Requested
    <2> QED
      BY <2>1, <2>2, <1>0 DEF Conflicts, Requested
  <1>4. ASSUME NEW r \in Requests, NEW i \in Ids, Save(r, i) PROVE Local'
    BY <1>4 DEF Save, Conflicts, Requested
  <1>5. ASSUME NEW r \in Requests, Commit(r) PROVE Local'
    BY <1>5 DEF Commit, Conflicts, Requested
  <1>6. ASSUME NEW r \in Requests, Respond(r) PROVE Local'
    BY <1>6 DEF Respond, Conflicts, Requested
  <1>7. ASSUME Crash PROVE Local'
    <2>1. /\ UNCHANGED <<form, found, seen, answer>>
          /\ \A q \in Requests : /\ pc[q] \in {"idle", "done"} => pc'[q] = pc[q]
                                 /\ pc'[q] \in {"idle", "done"} => pc[q] = pc'[q]
                                 /\ pc'[q] \in {"idle", "done", "refused", "lost"}
      BY <1>7 DEF Crash
    <2> QED
      BY <2>1, <1>0 DEF Conflicts, Requested
  <1>8. ASSUME UNCHANGED vars PROVE Local'
    BY <1>8 DEF vars, Conflicts, Requested
  <1> QED
    BY <1>1, <1>2, <1>3, <1>4, <1>5, <1>6, <1>7, <1>8 DEF Next, Step

LEMMA StepTrusted == RegInv /\ [Next]_vars => TrustedByAdmin'
  <1> SUFFICES ASSUME RegInv, [Next]_vars PROVE TrustedByAdmin'
    OBVIOUS
  <1> USE NoneIsNothing DEF RegInv, TypeOK, TrustedByAdmin
  <1>1. ASSUME NEW r \in Requests, NEW f \in Forms, Submit(r, f) PROVE TrustedByAdmin'
    <2>1. \A q \in Requests, t \in Identities : form[q].trusted = t => form'[q] = form[q]
      BY <1>1 DEF Submit, Local, NoForm
    <2> QED
      BY <1>1, <2>1 DEF Submit
  <1>2. ASSUME NEW r \in Requests, Authenticate(r) PROVE TrustedByAdmin'
    BY <1>2 DEF Authenticate
  <1>3. ASSUME NEW r \in Requests, ReadRow(r) PROVE TrustedByAdmin'
    BY <1>3 DEF ReadRow, Local
  <1>4. ASSUME NEW r \in Requests, NEW i \in Ids, Save(r, i) PROVE TrustedByAdmin'
    <2>1. /\ UNCHANGED <<disk, form, seen>>
          /\ \A j \in Ids : agents'[j].trusted = IF j = i THEN Final(r) ELSE agents[j].trusted
      BY <1>4 DEF Save, Write
    <2>2. ASSUME NEW t \in Identities, Final(r) = t
          PROVE  seen[r] = t \/ (form[r].admin /\ form[r].trusted = t)
      BY <2>2 DEF Final, Requested, Forms
    <2> QED
      BY <2>1, <2>2
  <1>5. ASSUME NEW r \in Requests, Commit(r) PROVE TrustedByAdmin'
    BY <1>5 DEF Commit
  <1>6. ASSUME NEW r \in Requests, Respond(r) PROVE TrustedByAdmin'
    BY <1>6 DEF Respond
  <1>7. ASSUME Crash PROVE TrustedByAdmin'
    BY <1>7 DEF Crash
  <1>8. ASSUME UNCHANGED vars PROVE TrustedByAdmin'
    BY <1>8 DEF vars
  <1> QED
    BY <1>1, <1>2, <1>3, <1>4, <1>5, <1>6, <1>7, <1>8 DEF Next, Step

LEMMA StepIssued == RegInv /\ [Next]_vars => Issued(agents)' /\ Issued(disk)'
  <1> SUFFICES ASSUME RegInv, [Next]_vars PROVE Issued(agents)' /\ Issued(disk)'
    OBVIOUS
  <1> USE NoneIsNothing DEF RegInv, TypeOK, Issued, Written
  <1>1. ASSUME NEW r \in Requests, NEW f \in Forms, Submit(r, f)
        PROVE  Issued(agents)' /\ Issued(disk)'
    BY <1>1 DEF Submit
  <1>2. ASSUME NEW r \in Requests, Authenticate(r) PROVE Issued(agents)' /\ Issued(disk)'
    BY <1>2 DEF Authenticate
  <1>3. ASSUME NEW r \in Requests, ReadRow(r) PROVE Issued(agents)' /\ Issued(disk)'
    BY <1>3 DEF ReadRow
  <1>4. ASSUME NEW r \in Requests, NEW i \in Ids, Save(r, i)
        PROVE  Issued(agents)' /\ Issued(disk)'
    BY <1>4 DEF Save, Write
  <1>5. ASSUME NEW r \in Requests, Commit(r) PROVE Issued(agents)' /\ Issued(disk)'
    BY <1>5 DEF Commit
  <1>6. ASSUME NEW r \in Requests, Respond(r) PROVE Issued(agents)' /\ Issued(disk)'
    BY <1>6 DEF Respond
  <1>7. ASSUME Crash PROVE Issued(agents)' /\ Issued(disk)'
    BY <1>7 DEF Crash
  <1>8. ASSUME UNCHANGED vars PROVE Issued(agents)' /\ Issued(disk)'
    BY <1>8 DEF vars
  <1> QED
    BY <1>1, <1>2, <1>3, <1>4, <1>5, <1>6, <1>7, <1>8 DEF Next, Step

LEMMA StepDurable == RegInv /\ [Next]_vars => Durable'
  <1> SUFFICES ASSUME RegInv, [Next]_vars PROVE Durable'
    OBVIOUS
  <1> USE NoneIsNothing DEF RegInv, TypeOK, Durable, Opens, Answered, Told
  <1>1. ASSUME NEW r \in Requests, NEW f \in Forms, Submit(r, f) PROVE Durable'
    BY <1>1 DEF Submit
  <1>2. ASSUME NEW r \in Requests, Authenticate(r) PROVE Durable'
    <2>1. \A q \in Requests, i \in Ids : found[q] = i => found'[q] = i
      BY <1>2 DEF Authenticate, Local
    <2>2. \A q \in Requests : pc'[q] \in Answered => pc[q] = pc'[q] /\ answer[q] \in Ids
      BY <1>2 DEF Authenticate, Local
    <2>3. UNCHANGED <<agents, disk, answer>>
      BY <1>2 DEF Authenticate
    <2> QED
      BY <2>1, <2>2, <2>3
  <1>3. ASSUME NEW r \in Requests, ReadRow(r) PROVE Durable'
    BY <1>3 DEF ReadRow
  <1>4. ASSUME NEW r \in Requests, NEW i \in Ids, Save(r, i) PROVE Durable'
    <2>1. /\ UNCHANGED <<disk, found>>
          /\ agents'[i].token = r
          /\ \A j \in Ids \ {i} : agents'[j] = agents[j]
          /\ answer'[r] = i
          /\ \A q \in Requests \ {r} : answer'[q] = answer[q] /\ pc'[q] = pc[q]
          /\ pc[r] = "write" /\ pc'[r] = "commit"
      BY <1>4 DEF Save, Write
    <2>2. ASSUME NEW q \in Requests \ {r}, pc[q] \in Answered, answer[q] = i
          PROVE  found[r] = i
      <3>1. agents[i].token \in Requests
        BY <2>2
      <3> QED
        BY <1>4, <3>1 DEF Save, Write, NoRow
    <2>3. ASSUME NEW q \in Requests \ {r}, pc[q] \in Answered
          PROVE  Opens(agents, q)'
      BY <2>1, <2>2, <2>3 DEF Local
    <2>4. Opens(agents, r)'
      BY <2>1
    <2>5. ASSUME NEW q \in Requests \ {r}, pc[q] \in Told PROVE Opens(disk, q)'
      BY <2>1, <2>5
    <2> QED
      BY <2>1, <2>3, <2>4, <2>5
  <1>5. ASSUME NEW r \in Requests, Commit(r) PROVE Durable'
    BY <1>5 DEF Commit
  <1>6. ASSUME NEW r \in Requests, Respond(r) PROVE Durable'
    BY <1>6 DEF Respond
  <1>7. ASSUME Crash PROVE Durable'
    BY <1>7 DEF Crash
  <1>8. ASSUME UNCHANGED vars PROVE Durable'
    BY <1>8 DEF vars
  <1> QED
    BY <1>1, <1>2, <1>3, <1>4, <1>5, <1>6, <1>7, <1>8 DEF Next, Step

LEMMA StepInv == RegInv /\ [Next]_vars => RegInv'
  BY StepType, StepLocal, StepTrusted, StepIssued, StepDurable DEF RegInv

THEOREM Inductive == Spec => []RegInv
  BY InitInv, StepInv, PTL DEF Spec

-----------------------------------------------------------------------------
(* Registration keeps its types.                                           *)
THEOREM TypeCorrect == Spec => []TypeOK
  BY Inductive, PTL DEF RegInv

(* A trusted identity was asked for with the admin key, whatever requests  *)
(* overlap and whenever the broker dies.                                   *)
THEOREM TrustedIsAdmins == Spec => []TrustedByAdmin
  BY Inductive, PTL DEF RegInv

(* What a client was told survives the process.                            *)
THEOREM AnswersSurvive == Spec => []AnswersAreDurable
  <1>1. RegInv => AnswersAreDurable
    BY DEF RegInv, Durable, Opens, Told, AnswersAreDurable
  <1> QED
    BY <1>1, Inductive, PTL

(* Nobody but a request with a stale row, or a crash, changes a trusted    *)
(* identity.                                                               *)
THEOREM StaleReadsOnly == Spec => OnlyStaleReadsOverwrite
  <1> DEFINE Overwrites ==
               \A i \in Ids :
                  /\ agents[i].trusted # None /\ agents'[i].trusted # agents[i].trusted
                  /\ crashes' = crashes
                  => \E r \in Requests : /\ found[r] = i /\ pc[r] = "write"
                                         /\ seen[r] # agents[i].trusted
  <1>1. RegInv /\ [Next]_vars => Overwrites
    <2> SUFFICES ASSUME RegInv, [Next]_vars PROVE Overwrites
      OBVIOUS
    <2> USE NoneIsNothing, MaxCrashesIsNat DEF RegInv, TypeOK
    <2>1. ASSUME NEW r \in Requests, NEW i \in Ids, Save(r, i) PROVE Overwrites
      <3>1. \A j \in Ids : agents'[j].trusted = IF j = i THEN Final(r) ELSE agents[j].trusted
        BY <2>1 DEF Save, Write
      <3>2. pc[r] = "write" /\ (found[r] = None => agents[i].trusted = None)
        BY <2>1 DEF Save, Write, NoRow
      <3>3. found[r] # None => found[r] = i
        BY <2>1 DEF Save, Write
      <3>4. seen[r] # None => Final(r) = seen[r]
        BY <3>2 DEF Local, Conflicts, Final
      <3> QED
        BY <3>1, <3>2, <3>3, <3>4
    <2>2. ASSUME Crash PROVE Overwrites
      BY <2>2 DEF Crash
    <2>3. ASSUME UNCHANGED agents PROVE Overwrites
      BY <2>3
    <2> QED
      BY <2>1, <2>2, <2>3
      DEF Next, Step, vars, Submit, Authenticate, ReadRow, Commit, Respond
  <1> QED
    BY <1>1, Inductive, PTL DEF Spec, OnlyStaleReadsOverwrite

-----------------------------------------------------------------------------
(* The token given to p is in this table, or somebody has exchanged it.    *)
Kept(table, p) ==
    \/ table[answer[p]].token = p
    \/ \E q \in Requests : form[q].existing = p /\ pc[q] \in Written

(* What holds as long as no token is presented twice: a request finds and  *)
(* answers with the agent of the token that it presents, and that token    *)
(* stays in its row until the request replaces it.                         *)
Rotating ==
    /\ \A r \in Requests : pc[r] \in {"read", "write"} /\ found[r] # None =>
          agents[found[r]].token = form[r].existing
    /\ \A r \in Requests : pc[r] \in {"read", "write"} /\ form[r].existing # None =>
          found[r] = answer[form[r].existing]
    /\ \A r \in Requests : pc[r] \in Answered /\ form[r].existing # None =>
          answer[r] = answer[form[r].existing]
    /\ \A p \in Requests : /\ pc[p] \in Answered => Kept(agents, p)
                           /\ pc[p] \in Told => Kept(disk, p)

RotationInv == TokensUsedOnce => Rotating

LEMMA StepOnce == RegInv /\ [Next]_vars /\ TokensUsedOnce' => TokensUsedOnce
  <1> SUFFICES ASSUME RegInv, [Next]_vars, TokensUsedOnce' PROVE TokensUsedOnce
    OBVIOUS
  <1> USE NoneIsNothing DEF RegInv, TypeOK, TokensUsedOnce
  <1>1. ASSUME NEW r \in Requests, NEW f \in Forms, Submit(r, f) PROVE TokensUsedOnce
    <2>1. form[r].existing = None /\ \A q \in Requests \ {r} : form'[q] = form[q]
      BY <1>1 DEF Submit, Local, NoForm
    <2> QED
      BY <2>1
  <1>2. ASSUME UNCHANGED form PROVE TokensUsedOnce
    BY <1>2
  <1> QED
    BY <1>1, <1>2 DEF Next, Step, vars, Authenticate, ReadRow, Save, Commit, Respond, Crash

LEMMA StepRotation == RegInv /\ RotationInv /\ [Next]_vars => RotationInv'
  <1> SUFFICES ASSUME RegInv, Rotating, TokensUsedOnce, TokensUsedOnce', [Next]_vars
               PROVE  Rotating'
    BY StepOnce DEF RotationInv
  <1> USE NoneIsNothing DEF RegInv, TypeOK, Rotating, Kept, Answered, Told, Written
  <1>0. \A r \in Requests :
           /\ form[r].existing \in Requests \cup {None}
           /\ form[r].existing # None => pc[form[r].existing] = "done"
    BY DEF Forms, Local
  <1>1. ASSUME NEW r \in Requests, NEW f \in Forms, Submit(r, f) PROVE Rotating'
    <2>1. /\ UNCHANGED <<agents, disk, found, answer>>
          /\ pc[r] = "idle" /\ form'[r] = f /\ pc'[r] \in {"write", "authenticate"}
          /\ pc'[r] = "write" => f.existing = None
          /\ found[r] = None /\ form[r].existing = None
          /\ \A q \in Requests \ {r} : pc'[q] = pc[q] /\ form'[q] = form[q]
      BY <1>1 DEF Submit, Local, NoForm
    <2> QED
      BY <2>1, <1>0
  <1>2. ASSUME NEW r \in Requests, Authenticate(r) PROVE Rotating'
    <2> DEFINE p == form[r].existing
    <2>1. /\ UNCHANGED <<agents, disk, form, answer>>
          /\ pc[r] = "authenticate" /\ pc'[r] \in {"read", "write"}
          /\ \A q \in Requests \ {r} : pc'[q] = pc[q] /\ found'[q] = found[q]
      BY <1>2 DEF Authenticate
    <2>2. p \in Requests /\ pc[p] = "done"
      BY <1>0, <2>1 DEF Local
    <2>3. \E i \in Ids : agents[i].token = p
      <3>1. Kept(agents, p) /\ answer[p] \in Ids
        BY <2>2 DEF Local
      <3>2. ASSUME NEW q \in Requests, form[q].existing = p, pc[q] \in Written PROVE FALSE
        BY <2>1, <2>2, <3>2 DEF TokensUsedOnce
      <3> QED
        BY <3>1, <3>2
    <2>4. found'[r] = answer[p] /\ agents[found'[r]].token = p
      BY <1>2, <2>2, <2>3 DEF Authenticate, Issued
    <2> QED
      BY <2>1, <2>4, <1>0
  <1>3. ASSUME NEW r \in Requests, ReadRow(r) PROVE Rotating'
    <2>1. /\ UNCHANGED <<agents, disk, form, found, answer>>
          /\ pc[r] = "read" /\ pc'[r] \in {"refused", "write"}
          /\ \A q \in Requests \ {r} : pc'[q] = pc[q]
      BY <1>3 DEF ReadRow
    <2> QED
      BY <2>1, <1>0
  <1>4. ASSUME NEW r \in Requests, NEW i \in Ids, Save(r, i) PROVE Rotating'
    <2>1. /\ UNCHANGED <<disk, form, found>>
          /\ agents'[i].token = r
          /\ \A j \in Ids \ {i} : agents'[j] = agents[j]
          /\ answer'[r] = i
          /\ \A q \in Requests \ {r} : answer'[q] = answer[q] /\ pc'[q] = pc[q]
          /\ pc[r] = "write" /\ pc'[r] = "commit"
          /\ IF found[r] = None THEN agents[i].token = None ELSE i = found[r]
      BY <1>4 DEF Save, Write, NoRow
    <2>2. \A q \in Requests : form[q].existing # None =>
             answer'[form[q].existing] = answer[form[q].existing]
      BY <1>0, <2>1
    <2>3. /\ form[r].existing # None => i = answer[form[r].existing]
          /\ agents[i].token = form[r].existing
      <3>1. form[r].existing # None =>
               found[r] = answer[form[r].existing] /\ answer[form[r].existing] \in Ids
        BY <1>0, <2>1 DEF Local
      <3>2. form[r].existing = None => found[r] = None
        BY <2>1 DEF Local
      <3> QED
        BY <2>1, <3>1, <3>2
    <2>4. ASSUME NEW q \in Requests \ {r}, pc[q] \in {"read", "write"}, found[q] # None
          PROVE  found[q] # i
      <3>1. form[q].existing # None
        BY <2>4 DEF Local
      <3> QED
        BY <2>3, <2>4, <3>1 DEF TokensUsedOnce
    <2>5. ASSUME NEW q \in Requests \ {r}, pc[q] \in Answered PROVE Kept(agents, q)'
      <3>1. CASE answer[q] = i /\ agents[i].token = q
        BY <2>1, <2>3, <3>1
      <3>2. CASE ~ (answer[q] = i /\ agents[i].token = q)
        BY <2>1, <2>5, <3>2 DEF Local
      <3> QED
        BY <3>1, <3>2
    <2>6. Kept(agents, r)'
      BY <2>1
    <2>7. ASSUME NEW q \in Requests \ {r}, pc[q] \in Told PROVE Kept(disk, q)'
      BY <2>1, <2>7
    <2>8. form[r].existing # None => answer'[r] = answer'[form[r].existing]
      BY <2>1, <2>2, <2>3
    <2>9. \A q \in Requests : pc'[q] \in {"read", "write"} => q # r /\ found[q] \in Ids \cup {None}
      BY <2>1
    <2> QED
      BY <2>1, <2>2, <2>4, <2>5, <2>6, <2>7, <2>8, <2>9
  <1>5. ASSUME NEW r \in Requests, Commit(r) PROVE Rotating'
    BY <1>0, <1>5 DEF Commit
  <1>6. ASSUME NEW r \in Requests, Respond(r) PROVE Rotating'
    BY <1>0, <1>6 DEF Respond
  <1>7. ASSUME Crash PROVE Rotating'
    <2>1. /\ UNCHANGED <<form, found, answer, disk>> /\ agents' = disk
          /\ \A q \in Requests :
                /\ pc'[q] \in {"idle", "done", "refused", "lost"}
                /\ pc'[q] = "done" => pc[q] = "done"
                /\ pc[q] \in Written => pc'[q] \in Written
      BY <1>7 DEF Crash
    <2> QED
      BY <2>1, <1>0
  <1>8. ASSUME UNCHANGED vars PROVE Rotating'
    BY <1>8 DEF vars
  <1> QED
    BY <1>1, <1>2, <1>3, <1>4, <1>5, <1>6, <1>7, <1>8 DEF Next, Step

(* A client that presents each token once stays one agent.                 *)
THEOREM RotationsStay == Spec => []RotationKeepsIdentity
  <1>1. Init => RotationInv
    BY NoneIsNothing DEF Init, RotationInv, Rotating, Answered, Told
  <1>2. Spec => []RotationInv
    BY <1>1, Inductive, StepRotation, PTL DEF Spec
  <1>3. RotationInv => RotationKeepsIdentity
    BY DEF RotationInv, Rotating, Answered, RotationKeepsIdentity
  <1> QED
    BY <1>2, <1>3, PTL-----------------------------------------------------------------------------
(* Tokens and rows                                                         *)

(* A token opens one agent and no other: in the table that the shared      *)
(* connection sees, in the one that a crash falls back to, and across both *)
(* (authenticate_token in auth.py takes the first row that matches).       *)
TokensOpenOneAgent ==
    \A p \in Requests, i, j \in Ids :
        p \in {agents[i].token, disk[i].token} /\ p \in {agents[j].token, disk[j].token} => i = j

THEOREM OneAgentPerToken == Spec => []TokensOpenOneAgent
  <1>1. RegInv => TokensOpenOneAgent
    <2> SUFFICES ASSUME RegInv, NEW p \in Requests, NEW i \in Ids, NEW j \in Ids,
                        p \in {agents[i].token, disk[i].token},
                        p \in {agents[j].token, disk[j].token}
                 PROVE  i = j
      BY DEF TokensOpenOneAgent
    <2>1. Issued(agents) /\ Issued(disk)
      BY DEF RegInv
    <2>2. answer[p] = i
      BY <2>1 DEF Issued
    <2>3. answer[p] = j
      BY <2>1 DEF Issued
    <2> QED
      BY <2>2, <2>3
  <1> QED
    BY <1>1, Inductive, PTL

(* An agent that is on disk is never lost again, whichever request's       *)
(* commit wrote it and whenever the broker dies: the table never falls     *)
(* behind the disk (routes_agents.py commits without rolling back).        *)
TableKeepsUp == \A i \in Ids : disk[i].token # None => agents[i].token # None

AgentsStay == [][\A i \in Ids : disk[i].token # None => disk'[i].token # None]_vars

LEMMA TableStep ==
  ASSUME TypeOK, TableKeepsUp, [Next]_vars
  PROVE  /\ TableKeepsUp'
         /\ \A i \in Ids : disk[i].token # None => disk'[i].token # None
  <1> USE NoneIsNothing DEF TypeOK, TableKeepsUp
  <1>1. ASSUME NEW r \in Requests, NEW i \in Ids, Save(r, i)
        PROVE  /\ disk' = disk
               /\ \A j \in Ids : agents[j].token # None => agents'[j].token # None
    BY <1>1 DEF Save, Write
  <1>2. ASSUME NEW r \in Requests,
               \/ \E f \in Forms : Submit(r, f)
               \/ Authenticate(r) \/ ReadRow(r) \/ Respond(r)
        PROVE  agents' = agents /\ disk' = disk
    BY <1>2 DEF Submit, Authenticate, ReadRow, Respond
  <1>3. ASSUME NEW r \in Requests, Commit(r)
        PROVE  agents' = agents /\ disk' = agents
    BY <1>3 DEF Commit
  <1>4. ASSUME Crash
        PROVE  agents' = disk /\ disk' = disk
    BY <1>4 DEF Crash
  <1>5. \/ agents' = agents /\ disk' = disk
        \/ agents' = agents /\ disk' = agents
        \/ agents' = disk /\ disk' = disk
        \/ disk' = disk /\ \A j \in Ids : agents[j].token # None => agents'[j].token # None
    BY <1>1, <1>2, <1>3, <1>4 DEF Next, Step, vars
  <1> QED
    BY <1>5

THEOREM AgentsAreKept == Spec => AgentsStay
  <1>1. Init => TableKeepsUp
    BY DEF Init, TableKeepsUp
  <1>2. RegInv => TypeOK
    BY DEF RegInv
  <1> QED
    BY <1>1, <1>2, TableStep, Inductive, PTL DEF Spec, AgentsStay
=============================================================================
