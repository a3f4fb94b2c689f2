--------------------------- MODULE MCForwardPlane ---------------------------
(***************************************************************************)
(* Small instances of ForwardPlane.  Endpoints are address/port pairs.     *)
(***************************************************************************)
EXTENDS ForwardPlane

MCAddrs == {1, 2}
MCPorts == {1, 2}

\* Every allocation has an address of its own; behind the first one's the port
\* changes from one registration to the next.
OwnAddress == [id \in Ids |-> IF id = 1 THEN {<<1, 1>>, <<1, 2>>} ELSE {<<id, 1>>}]

\* Each agent sends to the other, the first from one of its two ports.
BothWays == {<< <<1, 1>>, 2 >>, << <<2, 1>>, 1 >>}
=============================================================================
