---------------------------- MODULE MCAgentLink ----------------------------
(***************************************************************************)
(* A small instance of AgentLink: two links, of one agent or of two, which *)
(* come, register, resume forwarding and go while the relay drains.        *)
(***************************************************************************)
EXTENDS AgentLink, TLC

LinkSymmetry == Permutations(Links) \cup Permutations(Uris)
=============================================================================
