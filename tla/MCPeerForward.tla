--------------------------- MODULE MCPeerForward ---------------------------
(***************************************************************************)
(* A small instance of PeerForward: three calls to one peer, enough for a  *)
(* call that drops, after a failure on an old connection, the one another  *)
(* call has dialed since.                                                  *)
(***************************************************************************)
EXTENDS PeerForward, TLC

OnePeer == [c \in Calls |-> "p1"]
CallSymmetry == Permutations(Calls)
=============================================================================
