---------------------------- MODULE MCAgentClient ----------------------------
(* An instance of AgentClient for TLC: the asks are interchangeable.       *)
EXTENDS AgentClient, TLC

AskSymmetry == Permutations(Asks)
=============================================================================
