---------------------------- MODULE SpliceChain ----------------------------
(***************************************************************************)
(* A stream carried by one or more relays: the copying of                  *)
(* pkg/splice/splice.go.  Stream 0 is the consumer's, stream Hops the      *)
(* provider's, and the ones between run over relay-to-relay connections    *)
(* (forwardToPeer on one side, handleForwardedStream on the other).  Relay *)
(* r splices stream r - 1 with stream r: Bidirectional starts one copyOne  *)
(* per direction and returns when both have.                               *)
(*                                                                         *)
(* Bytes are counted, not named: a transport stream keeps their order.     *)
(***************************************************************************)
EXTENDS Integers

CONSTANTS
    Hops,       \* relays on the path
    Aborter,    \* stream -> can it be reset (QUIC), or only closed (yamux)?
    Window,     \* bytes a stream direction buffers before its writer blocks
    MaxBytes    \* direction -> bound on what its agent sends

Streams == 0 .. Hops
Relays == 1 .. Hops
Dirs == {"fwd", "bwd"}
Chans == Streams \X Dirs
Copies == Relays \X Dirs

\* Peer relays are dialed over QUIC only.
ASSUME ChainConstants ==
    /\ Hops \in Nat \ {0} /\ Window \in Nat \ {0} /\ MaxBytes \in [Dirs -> Nat]
    /\ Aborter \in [Streams -> BOOLEAN]
    /\ \A i \in 1 .. Hops - 1 : Aborter[i]

Rev(d) == IF d = "fwd" THEN "bwd" ELSE "fwd"

\* The stream copyOne reads (src) and the one it writes (dst).
Src(k) == <<IF k[2] = "fwd" THEN k[1] - 1 ELSE k[1], k[2]>>
Dst(k) == <<IF k[2] = "fwd" THEN k[1] ELSE k[1] - 1, k[2]>>

\* Where the agents write and read.
First(d) == <<IF d = "fwd" THEN 0 ELSE Hops, d>>
Last(d) == <<IF d = "fwd" THEN Hops ELSE 0, d>>

\* The other direction of the same stream.
Back(c) == <<c[1], Rev(c[2])>>

VARIABLES
    wr,      \* channel -> bytes written
    rd,      \* channel -> bytes read
    fin,     \* channel -> how its writer left it: "open", "fin" or "reset"
    stop,    \* channel -> has its reader cancelled reading?
    up,      \* stream -> is its connection alive?
    copy,    \* copyOne: "read", "write" (a chunk in its buffer), "eof", "failed"
    seen     \* direction -> what the receiving agent has seen of its end

vars == <<wr, rd, fin, stop, up, copy, seen>>

Init ==
    /\ wr = [c \in Chans |-> 0] /\ rd = [c \in Chans |-> 0]
    /\ fin = [c \in Chans |-> "open"]
    /\ stop = [c \in Chans |-> FALSE]
    /\ up = [i \in Streams |-> TRUE]
    /\ copy = [k \in Copies |-> "read"]
    /\ seen = [d \in Dirs |-> "open"]

Writable(c) == fin[c] = "open" /\ ~stop[c] /\ up[c[1]]
Room(c) == wr[c] - rd[c] < Window
Readable(c) == rd[c] < wr[c] /\ ~stop[c] /\ up[c[1]]
AtEof(c) == fin[c] = "fin" /\ rd[c] = wr[c] /\ ~stop[c] /\ up[c[1]]
ReadFails(c) == fin[c] = "reset" \/ stop[c] \/ ~up[c[1]]
WriteFails(c) == stop[c] \/ ~up[c[1]]

-----------------------------------------------------------------------------
(* copyOne *)

CopyRead(k) ==
    /\ copy[k] = "read" /\ Readable(Src(k))
    /\ rd' = [rd EXCEPT ![Src(k)] = @ + 1]
    /\ copy' = [copy EXCEPT ![k] = "write"]
    /\ UNCHANGED <<wr, fin, stop, up, seen>>

CopyWrite(k) ==
    /\ copy[k] = "write" /\ Writable(Dst(k)) /\ Room(Dst(k))
    /\ wr' = [wr EXCEPT ![Dst(k)] = @ + 1]
    /\ copy' = [copy EXCEPT ![k] = "read"]
    /\ UNCHANGED <<rd, fin, stop, up, seen>>

\* Mutant: the end of file is not passed on.
CopyEofSilent(k) ==
    /\ copy[k] = "read" /\ AtEof(Src(k))
    /\ copy' = [copy EXCEPT ![k] = "eof"]
    /\ UNCHANGED <<wr, rd, fin, stop, up, seen>>

\* EOF: CloseWrite on dst; the other direction goes on.
CopyEof(k) ==
    /\ copy[k] = "read" /\ AtEof(Src(k))
    /\ fin' = [fin EXCEPT ![Dst(k)] = "fin"]
    /\ copy' = [copy EXCEPT ![k] = "eof"]
    /\ UNCHANGED <<wr, rd, stop, up, seen>>

Failing(k) ==
    \/ copy[k] = "read" /\ ReadFails(Src(k))
    \/ copy[k] = "write" /\ WriteFails(Dst(k))

\* Mutant: every end of a copy is a CloseWrite.
CopyFailCloses(k) ==
    /\ Failing(k)
    /\ fin' = [fin EXCEPT ![Dst(k)] = "fin"]
    /\ stop' = [stop EXCEPT ![Back(Dst(k))] = Aborter[Dst(k)[1]]]
    /\ copy' = [copy EXCEPT ![k] = "failed"]
    /\ UNCHANGED <<wr, rd, up, seen>>

\* Mutant: only the write half is cancelled.
CopyFailHalf(k) ==
    /\ Failing(k)
    /\ fin' = [fin EXCEPT ![Dst(k)] = IF Aborter[Dst(k)[1]] THEN "reset" ELSE "fin"]
    /\ copy' = [copy EXCEPT ![k] = "failed"]
    /\ UNCHANGED <<wr, rd, stop, up, seen>>

\* Either stream failed: cancel dst both ways, or just CloseWrite if it cannot
\* be reset.
CopyFail(k) ==
    /\ Failing(k)
    /\ IF Aborter[Dst(k)[1]]
       THEN /\ fin' = [fin EXCEPT ![Dst(k)] = "reset"]
            /\ stop' = [stop EXCEPT ![Back(Dst(k))] = TRUE]
       ELSE /\ fin' = [fin EXCEPT ![Dst(k)] = "fin"]
            /\ UNCHANGED stop
    /\ copy' = [copy EXCEPT ![k] = "failed"]
    /\ UNCHANGED <<wr, rd, up, seen>>

copyOne(k) == CopyRead(k) \/ CopyWrite(k) \/ CopyEof(k) \/ CopyFail(k)

\* Bidirectional at relay r has both results and its handler returns.
Returned(r) == \A d \in Dirs : copy[<<r, d>>] \in {"eof", "failed"}

-----------------------------------------------------------------------------
(* The agents and the connections *)

AgentSend(d) ==
    /\ Writable(First(d)) /\ Room(First(d)) /\ wr[First(d)] < MaxBytes[d]
    /\ wr' = [wr EXCEPT ![First(d)] = @ + 1]
    /\ UNCHANGED <<rd, fin, stop, up, copy, seen>>

AgentFinish(d) ==
    /\ Writable(First(d))
    /\ fin' = [fin EXCEPT ![First(d)] = "fin"]
    /\ UNCHANGED <<wr, rd, stop, up, copy, seen>>

\* An agent resets its stream both ways.
AgentAbort(d) ==
    /\ ~stop[Last(d)]
    /\ stop' = [stop EXCEPT ![Last(d)] = TRUE]
    /\ fin' = [fin EXCEPT ![Back(Last(d))] = IF @ = "open" THEN "reset" ELSE @]
    /\ seen' = [seen EXCEPT ![d] = IF @ = "open" THEN "error" ELSE @]
    /\ UNCHANGED <<wr, rd, up, copy>>

AgentReceive(d) ==
    /\ seen[d] = "open" /\ Readable(Last(d))
    /\ rd' = [rd EXCEPT ![Last(d)] = @ + 1]
    /\ UNCHANGED <<wr, fin, stop, up, copy, seen>>

AgentSeesEnd(d) ==
    /\ seen[d] = "open"
    /\ \/ AtEof(Last(d)) /\ seen' = [seen EXCEPT ![d] = "eof"]
       \/ ReadFails(Last(d)) /\ seen' = [seen EXCEPT ![d] = "error"]
    /\ UNCHANGED <<wr, rd, fin, stop, up, copy>>

\* A connection is lost: an agent's, or the one between two relays.
LinkLost(i) ==
    /\ up[i]
    /\ up' = [up EXCEPT ![i] = FALSE]
    /\ UNCHANGED <<wr, rd, fin, stop, copy, seen>>

Agent(d) == AgentReceive(d) \/ AgentSeesEnd(d)

Next ==
    \/ \E k \in Copies : copyOne(k)
    \/ \E d \in Dirs : AgentSend(d) \/ AgentFinish(d) \/ AgentAbort(d) \/ Agent(d)
    \/ \E i \in Streams : LinkLost(i)

Spec == Init /\ [][Next]_vars

\* The copies run.  Whether an agent ever reads is up to the agent.
FairSpec == Spec /\ \A k \in Copies : WF_vars(copyOne(k))
-----------------------------------------------------------------------------
\* Every variable has its declared shape, and no more is read than written.
TypeOK ==
    /\ wr \in [Chans -> Nat] /\ rd \in [Chans -> Nat]
    /\ \A c \in Chans : rd[c] <= wr[c]
    /\ fin \in [Chans -> {"open", "fin", "reset"}]
    /\ stop \in [Chans -> BOOLEAN]
    /\ up \in [Streams -> BOOLEAN]
    /\ copy \in [Copies -> {"read", "write", "eof", "failed"}]
    /\ seen \in [Dirs -> {"open", "eof", "error"}]

Broken == (\E i \in Streams : ~up[i]) \/ (\E d \in Dirs : stop[Last(d)])

\* Directions whose receiving end, and every stream on the way to it, can be reset.
Truthful == {d \in Dirs : \A i \in Streams : <<i, d>> # First(d) => Aborter[i]}

Abstract == INSTANCE Pipe WITH
    sent <- [d \in Dirs |-> wr[First(d)]],
    finished <- [d \in Dirs |-> fin[First(d)] = "fin"],
    got <- [d \in Dirs |-> rd[Last(d)]],
    broken <- Broken

(***************************************************************************)
(* "The surviving peer must NOT see a FIN, which its bridge would take as  *)
(* application finished": over any number of relays, and whichever link    *)
(* fails when, an agent sees an end of file only when the other agent      *)
(* finished and all its bytes have arrived (unless its own stream cannot   *)
(* be reset), and an error only when something failed.                     *)
(***************************************************************************)
ImplementsPipe == Abstract!Spec

\* A running copy of relay r reads a lost connection and can reset the other stream.
LossToNotice(r) ==
    \E d \in Dirs :
        /\ copy[<<r, d>>] \in {"read", "write"}
        /\ ~up[Src(<<r, d>>)[1]] /\ Aborter[Dst(<<r, d>>)[1]]

\* That copy is in Write instead, on a live stream whose window is full.
HeldUp(r) ==
    \E d \in Dirs :
        /\ copy[<<r, d>>] = "write" /\ ~up[Src(<<r, d>>)[1]]
        /\ Writable(Dst(<<r, d>>)) /\ ~Room(Dst(<<r, d>>))

(***************************************************************************)
(* A relay notices the loss of a connection through the copy that reads    *)
(* from it: the failure cancels the other stream, so the other copy, which *)
(* may be blocked on a quiet agent, ends too and the handler returns.  The *)
(* one exception is a copy that stays in Write for ever on a window nobody *)
(* empties, which never gets to see that its source is gone.               *)
(***************************************************************************)
ReturnsOnLoss == \A r \in Relays : LossToNotice(r) ~> Returned(r) \/ []HeldUp(r)

\* The receiving agent has bytes or an end of file to read.
Unread(d) == seen[d] = "open" /\ (Readable(Last(d)) \/ AtEof(Last(d)))

(***************************************************************************)
(* "So the peer learns that no more data is coming": what an agent sent    *)
(* and its end of file get through every relay, while the other direction  *)
(* stays open, unless something breaks or the receiving agent stops        *)
(* reading what has reached it.                                            *)
(***************************************************************************)
FinDelivered ==
    \A d \in Dirs : fin[First(d)] = "fin" ~> seen[d] = "eof" \/ Broken \/ []Unread(d)
=============================================================================
