-------------------------------- MODULE Pipe --------------------------------
(***************************************************************************)
(* What two agents may expect of a relayed stream, whatever carries it: in *)
(* each direction the bytes arrive in order and none is made up, an end of *)
(* file means that the sender finished and that everything it sent has     *)
(* arrived, and an error means that something broke.                       *)
(***************************************************************************)
EXTENDS Naturals

CONSTANTS
    Dirs,       \* the two directions
    Truthful    \* directions in which a failure can be told from an end

VARIABLES
    sent,       \* direction -> number of bytes the sender has sent
    finished,   \* direction -> has the sender finished?
    got,        \* direction -> number of bytes the receiver has got
    seen,       \* direction -> "open", "eof" or "error", as the receiver sees it
    broken      \* has a link failed, or an agent reset the stream?

vars == <<sent, finished, got, seen, broken>>

Init ==
    /\ sent = [d \in Dirs |-> 0] /\ got = [d \in Dirs |-> 0]
    /\ finished = [d \in Dirs |-> FALSE]
    /\ seen = [d \in Dirs |-> "open"]
    /\ broken = FALSE

Send(d) ==
    /\ ~finished[d]
    /\ sent' = [sent EXCEPT ![d] = @ + 1]
    /\ UNCHANGED <<finished, got, seen, broken>>

Finish(d) ==
    /\ finished' = [finished EXCEPT ![d] = TRUE]
    /\ UNCHANGED <<sent, got, seen, broken>>

Deliver(d) ==
    /\ seen[d] = "open" /\ got[d] < sent[d]
    /\ got' = [got EXCEPT ![d] = @ + 1]
    /\ UNCHANGED <<sent, finished, seen, broken>>

\* An end of file is true, or stands for a failure that could not be told.
End(d) ==
    /\ seen[d] = "open"
    /\ \/ finished[d] /\ got[d] = sent[d]
       \/ broken /\ d \notin Truthful
    /\ seen' = [seen EXCEPT ![d] = "eof"]
    /\ UNCHANGED <<sent, finished, got, broken>>

Fail(d) ==
    /\ broken /\ seen[d] = "open"
    /\ seen' = [seen EXCEPT ![d] = "error"]
    /\ UNCHANGED <<sent, finished, got, broken>>

\* A link fails, or a receiver gives up.
Break ==
    /\ broken' = TRUE
    /\ \E D \in SUBSET Dirs :
          seen' = [d \in Dirs |-> IF d \in D /\ seen[d] = "open" THEN "error" ELSE seen[d]]
    /\ UNCHANGED <<sent, finished, got>>

Next ==
    \/ \E d \in Dirs : Send(d) \/ Finish(d) \/ Deliver(d) \/ End(d) \/ Fail(d)
    \/ Break

Spec == Init /\ [][Next]_vars
=============================================================================
