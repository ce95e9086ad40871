--------------------------- MODULE DeliveryClaims ---------------------------
(***************************************************************************)
(* What the repository's documents and comments say about delivery and the *)
(* code does not do.  Each is checked by a run of its own, which ends in a *)
(* counterexample.                                                         *)
(***************************************************************************)
EXTENDS MCDelivery

(* broker.py:38, "Returns True if delivered.": a send answered by storing  *)
(* the message for the agent reached none of its working connections.      *)
ReturnsTrueIfDelivered ==
    [][\A m \in Msgs : handler[m] = "sending" /\ handler'[m] = "enqueue" =>
          Tried(m) \cap up = {}]_vars

(* README, "at-least-once delivery": a queued message counts as delivered  *)
(* when a socket took it, or is about to.                                  *)
AtLeastOnce ==
    \A m \in Msgs, a \in Agents : queue[<<m, a>>] = "delivered" =>
        \/ a \in wrote[m]
        \/ \E c \in Conns : owner[c] = a /\ session[c] = "flush" /\ m \in batch[c]
=============================================================================
