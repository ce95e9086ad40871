---------------------------- MODULE OfflineQueue ----------------------------
(***************************************************************************)
(* The delivery_queue table and the statements offline_queue.py runs on it.*)
(* The table is a function from <<message, agent>>, its primary key, to    *)
(* the status of the row, "none" standing for no row.  "stale" is the set  *)
(* of rows whose expires_at lies in the past.                              *)
(***************************************************************************)
EXTENDS Naturals

RowStatus == {"none", "pending", "delivered", "acked"}

(* A mutant of InsertOrIgnore: a status the rest of the code does not know. *)
InsertAsQueued(queue, msg, agent) ==
    [queue EXCEPT ![<<msg, agent>>] = IF @ = "none" THEN "queued" ELSE @]

(* enqueue: INSERT OR IGNORE, a row that exists keeps its status.          *)
InsertOrIgnore(queue, msg, agent) ==
    [queue EXCEPT ![<<msg, agent>>] = IF @ = "none" THEN "pending" ELSE @]

(* flush_for_agent, first statement: the agent's pending, unexpired rows.  *)
SelectPending(queue, stale, msgs, agent) ==
    {msg \in msgs : queue[<<msg, agent>>] = "pending" /\ <<msg, agent>> \notin stale}

(* A mutant of MarkDelivered: the rows stay pending.                       *)
MarkNothing(queue, agent) == queue

(* A mutant of MarkDelivered: the WHERE clause forgets the agent.          *)
MarkDeliveredForAll(queue, agent) ==
    [row \in DOMAIN queue |->
        IF queue[row] = "pending" THEN "delivered" ELSE queue[row]]

(* flush_for_agent, second statement: every pending row of the agent, also *)
(* those the SELECT did not return, becomes delivered.                     *)
MarkDelivered(queue, agent) ==
    [row \in DOMAIN queue |->
        IF row[2] = agent /\ queue[row] = "pending" THEN "delivered" ELSE queue[row]]

(* mark_acked: UPDATE ... WHERE message_id = ? AND agent_id = ?            *)
MarkAcked(queue, msg, agent) ==
    [queue EXCEPT ![<<msg, agent>>] = IF @ = "none" THEN @ ELSE "acked"]

(* cleanup_expired: DELETE ... WHERE expires_at <= now                     *)
DeleteExpired(queue, stale) ==
    [row \in DOMAIN queue |-> IF row \in stale THEN "none" ELSE queue[row]]
=============================================================================
