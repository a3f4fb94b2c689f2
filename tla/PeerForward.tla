---------------------------- MODULE PeerForward ----------------------------
(***************************************************************************)
(* Streams whose provider is on another relay: forwardToPeer of            *)
(* pkg/edge/edge.go, the connection pool and ForwardStream of              *)
(* pkg/intra/pool.go, and the peer relay's servePeerRelay and              *)
(* handleForwardedStream.  A call is one consumer stream being forwarded.  *)
(* All calls to a peer share the connection the pool has cached for it.    *)
(***************************************************************************)
EXTENDS Integers, FiniteSets, Functions

CONSTANTS
    Calls,     \* streams to forward
    PeerOf     \* call -> the relay its provider is on

ASSUME PeerConstants == IsFiniteSet(Calls) /\ Calls = DOMAIN PeerOf

\* Connections are numbered as they are dialed; a call dials at most once.
Conns == 1..Cardinality(Calls)
NoConn == 0

VARIABLES
    pc,        \* where forwardToPeer of this call is
    conn,      \* the connection the call works with
    took,      \* the connection its Drop took out of the pool
    conns,     \* Pool.conns: relay id -> connection
    state,     \* connection -> "none", "open" or "closed"
    far        \* where the peer's handleForwardedStream of this call is

vars == <<pc, conn, took, conns, state, far>>

Without(m, S) == Restrict(m, DOMAIN m \ S)
Put(m, k, v) == [x \in DOMAIN m \cup {k} |-> IF x = k THEN v ELSE m[x]]
At(c, p) == pc[c] = p
Goto(c, p) == pc' = [pc EXCEPT ![c] = p]
Alive(c) == conn[c] # NoConn /\ state[conn[c]] = "open"

Init ==
    /\ pc = [c \in Calls |-> "new"]
    /\ conn = [c \in Calls |-> NoConn] /\ took = [c \in Calls |-> NoConn]
    /\ conns = << >>
    /\ state = [n \in Conns |-> "none"]
    /\ far = [c \in Calls |-> "none"]

-----------------------------------------------------------------------------
(* Pool.Get *)

\* The first lock section: a cached connection, dead or not, is returned.
Lookup(c) ==
    /\ At(c, "new")
    /\ IF PeerOf[c] \in DOMAIN conns
       THEN conn' = [conn EXCEPT ![c] = conns[PeerOf[c]]] /\ Goto(c, "open")
       ELSE Goto(c, "dial") /\ UNCHANGED conn
    /\ UNCHANGED <<took, conns, state, far>>

\* The dial, outside the lock.  A failure rejects the consumer with 502.
Dial(c) ==
    /\ At(c, "dial")
    /\ \/ Goto(c, "rejected") /\ UNCHANGED <<conn, state>>
       \/ \E n \in Conns :
             /\ state[n] = "none" /\ \A m \in 1..(n - 1) : state[m] # "none"
             /\ state' = [state EXCEPT ![n] = "open"]
             /\ conn' = [conn EXCEPT ![c] = n]
             /\ Goto(c, "install")
    /\ UNCHANGED <<took, conns, far>>

\* Mutant: the second lookup is missing.
InstallOver(c) ==
    /\ At(c, "install")
    /\ conns' = Put(conns, PeerOf[c], conn[c])
    /\ Goto(c, "open")
    /\ UNCHANGED <<conn, took, state, far>>

\* The second lock section: if another caller was faster, close ours.
Install(c) ==
    /\ At(c, "install")
    /\ IF PeerOf[c] \in DOMAIN conns
       THEN /\ state' = [state EXCEPT ![conn[c]] = "closed"]
            /\ conn' = [conn EXCEPT ![c] = conns[PeerOf[c]]]
            /\ UNCHANGED conns
       ELSE /\ conns' = Put(conns, PeerOf[c], conn[c])
            /\ UNCHANGED <<state, conn>>
    /\ Goto(c, "open")
    /\ UNCHANGED <<took, far>>

-----------------------------------------------------------------------------
(* ForwardStream, and what forwardToPeer does with its result *)

\* OpenStream and FORWARD_STREAM.  They fail on a dead connection, and on a live
\* one when the consumer's link, whose context the call has, ends first.
OpenPeerStream(c) ==
    /\ At(c, "open")
    /\ \/ Alive(c) /\ Goto(c, "await") /\ far' = [far EXCEPT ![c] = "resolve"]
       \/ Goto(c, "drop") /\ UNCHANGED far
    /\ UNCHANGED <<conn, took, conns, state>>

\* The peer's STREAM_ACCEPT starts the splice; STREAM_REJECT is an error, and
\* so is a stream that ends, or a connection that dies, before the answer.
AwaitReply(c) ==
    /\ At(c, "await")
    /\ \/ Alive(c) /\ far[c] \in {"splicing", "ended"} /\ Goto(c, "splicing")
       \/ Alive(c) /\ far[c] = "rejected" /\ Goto(c, "drop")
       \/ ~Alive(c) /\ Goto(c, "drop")
    /\ UNCHANGED <<conn, took, conns, state, far>>

\* Mutant: the entry is left in the map.
DropTakeKeeps(c) ==
    /\ At(c, "drop")
    /\ took' = [took EXCEPT ![c] = IF PeerOf[c] \in DOMAIN conns THEN conns[PeerOf[c]] ELSE NoConn]
    /\ Goto(c, "close")
    /\ UNCHANGED <<conn, conns, state, far>>

\* Pool.Drop: take whatever is cached for the peer, then close it unlocked.
DropTake(c) ==
    /\ At(c, "drop")
    /\ took' = [took EXCEPT ![c] = IF PeerOf[c] \in DOMAIN conns THEN conns[PeerOf[c]] ELSE NoConn]
    /\ conns' = Without(conns, {PeerOf[c]})
    /\ Goto(c, "close")
    /\ UNCHANGED <<conn, state, far>>

\* The close ends every stream on it; then the consumer gets its 502.
DropClose(c) ==
    /\ At(c, "close")
    /\ state' = [n \in Conns |-> IF n = took[c] THEN "closed" ELSE state[n]]
    /\ took' = [took EXCEPT ![c] = NoConn]
    /\ Goto(c, "rejected")
    /\ UNCHANGED <<conn, conns, far>>

\* The splice ends: the connection failed under it, or the agents are done.
EndSplice(c) ==
    /\ At(c, "splicing")
    /\ Goto(c, "returned")
    /\ UNCHANGED <<conn, took, conns, state, far>>

-----------------------------------------------------------------------------
(* The peer relay: handleForwardedStream *)

FarGoto(c, p) == far' = [far EXCEPT ![c] = p]

\* Resolve locally (a provider that has moved on is a 503, there is no second
\* hop) and open a stream to the provider (502).
FarResolve(c) ==
    /\ far[c] = "resolve"
    /\ FarGoto(c, "rejected") \/ FarGoto(c, "provider")
    /\ UNCHANGED <<pc, conn, took, conns, state>>

\* The provider's answer, passed on.  A reject, a provider that is gone, or an
\* accept that cannot be passed on returns, which closes both streams.
FarProvider(c) ==
    /\ far[c] = "provider"
    /\ FarGoto(c, "rejected") \/ (Alive(c) /\ FarGoto(c, "splicing"))
    /\ UNCHANGED <<pc, conn, took, conns, state>>

\* The peer's splice ends with the connection, with the other relay's handler,
\* or with the provider's stream; returning closes both streams.
FarEnds(c) ==
    /\ far[c] = "splicing"
    /\ FarGoto(c, "ended")
    /\ UNCHANGED <<pc, conn, took, conns, state>>

\* A connection is lost; the pool is not told.
ConnLost(n) ==
    /\ state[n] = "open"
    /\ state' = [state EXCEPT ![n] = "closed"]
    /\ UNCHANGED <<pc, conn, took, conns, far>>

forwardToPeer(c) ==
    \/ Lookup(c) \/ Dial(c) \/ Install(c) \/ OpenPeerStream(c) \/ AwaitReply(c)
    \/ DropTake(c) \/ DropClose(c)

Next ==
    \/ \E c \in Calls :
          \/ forwardToPeer(c) \/ EndSplice(c)
          \/ FarResolve(c) \/ FarProvider(c) \/ FarEnds(c)
    \/ \E n \in Conns : ConnLost(n)

Spec == Init /\ [][Next]_vars

-----------------------------------------------------------------------------
\* Every variable has its declared shape.
TypeOK ==
    /\ pc \in [Calls -> {"new", "dial", "install", "open", "await", "drop", "close",
                         "rejected", "splicing", "returned"}]
    /\ conn \in [Calls -> Conns \cup {NoConn}] /\ took \in [Calls -> Conns \cup {NoConn}]
    /\ DOMAIN conns \subseteq Range(PeerOf) /\ \A p \in DOMAIN conns : conns[p] \in Conns
    /\ state \in [Conns -> {"none", "open", "closed"}]
    /\ far \in [Calls -> {"none", "resolve", "provider", "splicing", "ended", "rejected"}]

(***************************************************************************)
(* No connection is lost track of: one that is open is cached, or about to *)
(* be cached or closed by the caller that dialed it, or about to be closed *)
(* by the Drop that took it; "race: another caller dialed first, close     *)
(* ours" never leaves one behind, nor overwrites one.                      *)
(***************************************************************************)
NoConnLeaks ==
    \A n \in Conns : state[n] = "open" =>
        \/ \E p \in DOMAIN conns : conns[p] = n
        \/ \E c \in Calls : At(c, "install") /\ conn[c] = n
        \/ \E c \in Calls : At(c, "close") /\ took[c] = n

(***************************************************************************)
(* "Drop so the next attempt redials": once a call has failed on a         *)
(* connection and dropped, no later call is handed that connection, and it *)
(* is closed or about to be.                                               *)
(***************************************************************************)
FailedNotReused ==
    \A c \in Calls : pc[c] \in {"close", "rejected"} /\ conn[c] # NoConn =>
        /\ \A p \in DOMAIN conns : conns[p] # conn[c]
        /\ state[conn[c]] = "open" =>
              \E b \in Calls : At(b, "close") /\ took[b] = conn[c]

=============================================================================
