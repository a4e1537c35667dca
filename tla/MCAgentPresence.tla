-------------------------- MODULE MCAgentPresence --------------------------
(* An agent that changes its address once, with two connections at a time. *)
EXTENDS AgentPresence, TLC

Slots == Permutations(Slot)
===========================================================================
