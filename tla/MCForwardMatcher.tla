-------------------------- MODULE MCForwardMatcher --------------------------
(***************************************************************************)
(* Small instances of ForwardMatcher.                                      *)
(***************************************************************************)
EXTENDS ForwardMatcher
=============================================================================
