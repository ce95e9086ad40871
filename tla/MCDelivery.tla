----------------------------- MODULE MCDelivery -----------------------------
(* Instances of Delivery for TLC.                                          *)
EXTENDS Delivery, TLC

(* Connections and messages are interchangeable; no liveness is checked    *)
(* under this symmetry.                                                    *)
ConnMsgSymmetry == Permutations(Conns) \cup Permutations(Msgs)

-----------------------------------------------------------------------------
(* Contention on one connection list: every agent's messages are direct    *)
(* and come by HTTP, clients send no acks and no time passes, which leaves *)
(* room for three connections and two concurrent sends.                    *)
ContentionNext ==
    \/ \E c \in Conns : SessionStep(c) \/ LinkDown(c)
    \/ \E c \in Conns, a \in Agents : Connect(c, a)
    \/ \E m \in Msgs : HandlerStep(m)
    \/ \E m \in Msgs, a \in Agents : Accept(m, a, Http, a, FALSE)

ContentionSpec == Init /\ [][ContentionNext]_vars
=============================================================================
