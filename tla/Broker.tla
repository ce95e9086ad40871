------------------------------- MODULE Broker -------------------------------
(***************************************************************************)
(* The connection list that WebSocketBroker keeps per agent                *)
(* (src/claw_msg/server/broker.py).  The list is mutable and shared: a     *)
(* send_to_agent that is suspended in ws.send_text iterates over the very  *)
(* list that register and unregister change meanwhile.  A list is          *)
(* represented by the set of its elements and by the order "seat" in which *)
(* they were appended (a WebSocket is appended once in its life), so the   *)
(* element at index i is the one with i elements before it.                *)
(***************************************************************************)
EXTENDS Naturals, FiniteSets

(* The elements of list that precede ws.                                   *)
Before(list, seat, ws) == {other \in list : seat[other] < seat[ws]}

(* A mutant of Index: register puts a new socket at the head of the list.  *)
IndexNewestFirst(list, seat, ws) ==
    Cardinality({other \in list : seat[other] > seat[ws]})

(* The index of ws in list, counted from 0 as Python does.                 *)
Index(list, seat, ws) == Cardinality(Before(list, seat, ws))

(* A list iterator that has already yielded i items yields another one iff *)
(* the list is, at this moment, longer than i.                             *)
HasNext(list, i) == i < Cardinality(list)

(* _connections after self._connections[agent].append(ws).                 *)
Register(connections, agent, ws) ==
    [connections EXCEPT ![agent] = @ \cup {ws}]

(* A mutant of Unregister: one dead socket costs the agent its whole list. *)
UnregisterAll(connections, agent, gone) ==
    [connections EXCEPT ![agent] = IF gone = {} THEN @ ELSE {}]

(* _connections after each of the sockets in gone was removed.             *)
Unregister(connections, agent, gone) ==
    [connections EXCEPT ![agent] = @ \ gone]

(* unregister deletes the key of an agent whose list became empty: a later *)
(* register starts a new list, and a coroutine that still iterates over    *)
(* the old one never sees it.                                              *)
DropsList(connections, agent, gone) == connections[agent] \ gone = {}

(* A mutant of Delivered: the list counts as served, dead or not.          *)
DeliveredIfAny(left, dead) == Cardinality(left \cup dead) > 0

(* The value send_to_agent returns, its own list being "left" after the    *)
(* dead sockets were unregistered: len(connections) > len(dead).           *)
Delivered(left, dead) == Cardinality(left) > Cardinality(dead)
=============================================================================
