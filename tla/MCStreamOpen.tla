---------------------------- MODULE MCStreamOpen ----------------------------
(***************************************************************************)
(* Small instances of StreamOpen.                                          *)
(***************************************************************************)
EXTENDS StreamOpen, TLC

Symmetric == Permutations(Streams) \cup Permutations(Agents)
=============================================================================
