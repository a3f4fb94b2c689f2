------------------------------ MODULE MCFleet ------------------------------
(***************************************************************************)
(* A small instance of Fleet: this relay in a region with relay 3, relay 2 *)
(* in another, and relay 4 without an endpoint.                            *)
(***************************************************************************)
EXTENDS Fleet

TwoRegions == [r \in Relays |-> IF r = 2 THEN "west" ELSE "east"]
=============================================================================
