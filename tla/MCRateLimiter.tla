---------------------------- MODULE MCRateLimiter ----------------------------
(* An instance of RateLimiter for TLC: agents are interchangeable.         *)
EXTENDS RateLimiter, TLC

AgentSymmetry == Permutations(Agents)
=============================================================================
