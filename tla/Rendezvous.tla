----------------------------- MODULE Rendezvous -----------------------------
(***************************************************************************)
(* What the relay's two matchers promise, without channels, locks or       *)
(* timers: a half either finds a waiting half with its id and drives the   *)
(* pair, or waits until one half joins it or its window ends.  Outcomes    *)
(* are final, a half joins at most one pair, and at most one half waits    *)
(* under an id.                                                            *)
(***************************************************************************)
CONSTANTS Halves, StreamIds, NoHalf

VARIABLES
    status,   \* half -> "new", "waiting", "driver", "joined" or "expired"
    key,      \* half -> its stream id, once it arrived
    mate      \* driver -> the half it joined

Waiting(i) == {h \in Halves : status[h] = "waiting" /\ key[h] = i}

Init ==
    /\ status = [h \in Halves |-> "new"]
    /\ key = [h \in Halves |-> "none"]
    /\ mate = [h \in Halves |-> NoHalf]

Wait(h, i) ==
    /\ status[h] = "new" /\ Waiting(i) = {}
    /\ status' = [status EXCEPT ![h] = "waiting"]
    /\ key' = [key EXCEPT ![h] = i]
    /\ UNCHANGED mate

Join(h, i) ==
    /\ status[h] = "new"
    /\ \E w \in Waiting(i) :
          /\ status' = [status EXCEPT ![h] = "driver", ![w] = "joined"]
          /\ mate' = [mate EXCEPT ![h] = w]
    /\ key' = [key EXCEPT ![h] = i]

Expire(h) ==
    /\ status[h] = "waiting"
    /\ status' = [status EXCEPT ![h] = "expired"]
    /\ UNCHANGED <<key, mate>>

Next == \E h \in Halves : Expire(h) \/ \E i \in StreamIds : Wait(h, i) \/ Join(h, i)

vars == <<status, key, mate>>
Spec == Init /\ [][Next]_vars
=============================================================================
