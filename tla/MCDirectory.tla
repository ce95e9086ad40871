----------------------------- MODULE MCDirectory -----------------------------
(* An instance of Directory for TLC.  The contacts are those of one agent  *)
(* with another and with itself, which only a bulk request can add.        *)
EXTENDS Directory, TLC

CONSTANTS a1, a2, a3

MCAgents == {a1, a2, a3}

MCPairs == {<<a1, a2>>, <<a2, a2>>}

RequestSymmetry == Permutations(Requests)

(* The states at rest to start from: one policy for all, and a room that   *)
(* does not exist, is empty or holds a1.                                   *)
MCInit ==
    /\ Init
    /\ \E p \in Policies : db.policy = [a \in Agents |-> p]
    /\ db.members \subseteq {a1}

MCSpec == MCInit /\ [][Next]_vars
=============================================================================
