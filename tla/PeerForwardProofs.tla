------------------------- MODULE PeerForwardProofs -------------------------
(***************************************************************************)
(* NoConnLeaks and FailedNotReused of PeerForward, for any number of calls *)
(* to any number of peers.  Neither is inductive: that a dropped           *)
(* connection is really taken out of the pool needs the pool to cache a    *)
(* connection for one peer only, and only for the peer of the calls that   *)
(* work with it (OnePeerEach), and that a caller about to install the      *)
(* connection it dialed is the only one to know it (InstallFresh).         *)
(***************************************************************************)
EXTENDS PeerForward, FiniteSetTheorems, TLAPS

\* A connection nobody has dialed is nowhere in use.
UndialedUnused ==
    \A n \in Conns : state[n] = "none" =>
        /\ \A c \in Calls : conn[c] # n /\ took[c] # n
        /\ \A p \in DOMAIN conns : conns[p] # n

InstallFresh ==
    \A c \in Calls : At(c, "install") =>
        /\ conn[c] # NoConn
        /\ \A b \in Calls : (b # c => conn[b] # conn[c]) /\ took[b] # conn[c]
        /\ \A p \in DOMAIN conns : conns[p] # conn[c]

OnePeerEach ==
    /\ \A p, q \in DOMAIN conns : conns[p] = conns[q] => p = q
    /\ \A p \in DOMAIN conns, c \in Calls : conn[c] = conns[p] => p = PeerOf[c]

\* A call that has yet to dial works with no connection.
NoneYet == \A c \in Calls : pc[c] \in {"new", "dial"} => conn[c] = NoConn

IInv ==
    /\ TypeOK /\ NoConnLeaks /\ FailedNotReused /\ NoneYet
    /\ UndialedUnused /\ InstallFresh /\ OnePeerEach

\* Connections are numbers, and the absent one is not one of them.
LEMMA ConnNumbers == Conns \subseteq Int /\ NoConn \notin Conns
BY PeerConstants, FS_CardinalityType DEF Conns, NoConn

\* Each call's peer is one of the peers.
LEMMA PeerInRange == \A c \in Calls : PeerOf[c] \in Range(PeerOf)
BY PeerConstants, Zenon DEF Range

\* The invariant holds with nothing dialed.
LEMMA InitIInv == Init => IInv
BY ConnNumbers DEF Init, IInv, TypeOK, NoConnLeaks, FailedNotReused, UndialedUnused,
                   InstallFresh, OnePeerEach, NoneYet, At

\* A step of the caller's control flow that touches no connection and goes
\* neither to nor from the states the invariant mentions.
LEMMA QuietStep ==
    ASSUME IInv, NEW c \in Calls, UNCHANGED <<conn, took, conns, state>>,
           pc[c] \notin {"install", "close"},
           NEW p \in {"dial", "open", "await", "drop", "splicing", "returned"},
           pc' = [pc EXCEPT ![c] = p], p = "dial" => pc[c] = "new",
           far' \in [Calls -> {"none", "resolve", "provider", "splicing", "ended", "rejected"}]
    PROVE  IInv'
<1>1. TypeOK'
  BY Zenon DEF IInv, TypeOK
<1>2. \A b \in Calls : /\ pc'[b] = "install" <=> pc[b] = "install"
                       /\ pc'[b] = "close" <=> pc[b] = "close"
                       /\ pc'[b] = "rejected" => pc[b] = "rejected"
                       /\ pc'[b] \in {"new", "dial"} => pc[b] \in {"new", "dial"}
  BY Zenon DEF IInv, TypeOK
<1>3. NoConnLeaks'
  BY <1>2 DEF IInv, NoConnLeaks, At
<1>4. FailedNotReused'
  BY <1>2 DEF IInv, FailedNotReused, At
<1>5. UndialedUnused' /\ InstallFresh' /\ OnePeerEach' /\ NoneYet'
  BY <1>2 DEF IInv, UndialedUnused, InstallFresh, OnePeerEach, NoneYet, At
<1> QED
  BY <1>1, <1>3, <1>4, <1>5, Zenon DEF IInv

\* Get, when it looks in the pool.
LEMMA LookupStep ==
    ASSUME IInv, NEW c \in Calls, Lookup(c)
    PROVE  IInv'
<1>1. CASE PeerOf[c] \notin DOMAIN conns
  BY <1>1, QuietStep, Zenon DEF Lookup, Goto, At, IInv, TypeOK
<1>2. CASE PeerOf[c] \in DOMAIN conns
  <2> DEFINE n == conns[PeerOf[c]]
  <2>0. /\ pc[c] = "new" /\ pc' = [pc EXCEPT ![c] = "open"]
        /\ conn' = [conn EXCEPT ![c] = n]
        /\ UNCHANGED <<took, conns, state, far>>
        /\ n \in Conns
    BY <1>2, Zenon DEF Lookup, At, Goto, IInv, TypeOK
  <2>1. TypeOK'
    BY <2>0, Zenon DEF IInv, TypeOK
  <2>2. \A b \in Calls : /\ pc'[b] = "install" <=> pc[b] = "install"
                         /\ pc'[b] = "close" <=> pc[b] = "close"
                         /\ pc'[b] = "rejected" => pc[b] = "rejected"
                         /\ pc'[b] # "open" => pc'[b] = pc[b] /\ conn'[b] = conn[b]
    BY <2>0, Zenon DEF IInv, TypeOK
  <2>3. NoConnLeaks'
    BY <2>0, <2>2 DEF IInv, NoConnLeaks, At
  <2>4. FailedNotReused'
    BY <2>0, <2>2 DEF IInv, FailedNotReused, At
  <2>5. UndialedUnused' /\ OnePeerEach'
    BY <1>2, <2>0 DEF IInv, UndialedUnused, OnePeerEach, TypeOK
  <2>7. NoneYet'
    BY <2>0, <2>2, Zenon DEF IInv, NoneYet
  <2>6. InstallFresh'
    BY <1>2, <2>0, <2>2 DEF IInv, InstallFresh, TypeOK, At
  <2> QED
    BY <2>1, <2>3, <2>4, <2>5, <2>6, <2>7, Zenon DEF IInv
<1> QED
  BY <1>1, <1>2, Zenon

\* Get, when it dials without the lock.
LEMMA DialStep ==
    ASSUME IInv, NEW c \in Calls, Dial(c)
    PROVE  IInv'
<1>1. CASE Goto(c, "rejected") /\ UNCHANGED <<conn, state>>
  <2>0. /\ pc' = [pc EXCEPT ![c] = "rejected"] /\ pc[c] = "dial" /\ conn[c] = NoConn
        /\ UNCHANGED <<conn, state, took, conns, far>>
    BY <1>1, Zenon DEF Dial, Goto, At, IInv, NoneYet
  <2>1. TypeOK'
    BY <2>0, Zenon DEF IInv, TypeOK
  <2>2. \A b \in Calls : b # c => pc'[b] = pc[b]
    BY <2>0, Zenon DEF IInv, TypeOK
  <2>3. NoConnLeaks' /\ FailedNotReused' /\ NoneYet'
    BY <2>0, <2>2 DEF IInv, TypeOK, NoConnLeaks, FailedNotReused, NoneYet, At
  <2>4. UndialedUnused' /\ InstallFresh' /\ OnePeerEach'
    BY <2>0, <2>2 DEF IInv, TypeOK, UndialedUnused, InstallFresh, OnePeerEach, At
  <2> QED
    BY <2>1, <2>3, <2>4, Zenon DEF IInv
<1>2. ASSUME NEW n \in Conns, state[n] = "none", state' = [state EXCEPT ![n] = "open"],
             conn' = [conn EXCEPT ![c] = n], Goto(c, "install")
      PROVE  IInv'
  <2>0. /\ pc' = [pc EXCEPT ![c] = "install"] /\ pc[c] = "dial" /\ n # NoConn
        /\ UNCHANGED <<took, conns, far>>
    BY <1>2, ConnNumbers, Zenon DEF Dial, Goto, At
  <2>1. TypeOK'
    BY <1>2, <2>0, Zenon DEF IInv, TypeOK
  <2>2. /\ \A b \in Calls : b # c => pc'[b] = pc[b] /\ conn'[b] = conn[b]
        /\ pc'[c] = "install" /\ conn'[c] = n
        /\ \A m \in Conns : m # n => state'[m] = state[m]
        /\ state'[n] = "open"
    BY <1>2, <2>0, Zenon DEF IInv, TypeOK
  <2>3. NoConnLeaks'
    BY <1>2, <2>0, <2>2 DEF IInv, NoConnLeaks, At
  <2>4. FailedNotReused'
    <3>1. \A b \in Calls : conn[b] # n
      BY <1>2, Zenon DEF IInv, UndialedUnused
    <3>2. \A b \in Calls : conn[b] # NoConn => conn[b] \in Conns
      BY Zenon DEF IInv, TypeOK
    <3> QED
      BY <2>0, <2>2, <3>1, <3>2 DEF IInv, FailedNotReused, At
  <2>5. UndialedUnused'
    BY <1>2, <2>0, <2>2 DEF IInv, UndialedUnused
  <2>6. InstallFresh' /\ OnePeerEach' /\ NoneYet'
    BY <1>2, <2>0, <2>2 DEF IInv, UndialedUnused, InstallFresh, OnePeerEach, NoneYet, At
  <2> QED
    BY <2>1, <2>3, <2>4, <2>5, <2>6, Zenon DEF IInv
<1> QED
  BY <1>1, <1>2, Zenon DEF Dial

\* Get, when it comes back with a connection: cached, or closed for another's.
LEMMA InstallStep ==
    ASSUME IInv, NEW c \in Calls, Install(c)
    PROVE  IInv'
<1> DEFINE n == conn[c]
<1>0. /\ pc[c] = "install" /\ pc' = [pc EXCEPT ![c] = "open"] /\ n \in Conns
      /\ UNCHANGED <<took, far>>
  BY Zenon DEF Install, At, Goto, IInv, TypeOK, InstallFresh
<1>00. pc'[c] = "open" /\ \A b \in Calls : b # c => pc'[b] = pc[b]
  BY <1>0, Zenon DEF IInv, TypeOK
<1>1. CASE PeerOf[c] \in DOMAIN conns
  <2>0. /\ state' = [state EXCEPT ![n] = "closed"]
        /\ conn' = [conn EXCEPT ![c] = conns[PeerOf[c]]]
        /\ UNCHANGED conns
        /\ conns[PeerOf[c]] \in Conns
    BY <1>1, Zenon DEF Install, IInv, TypeOK
  <2>1. TypeOK'
    BY <1>0, <2>0, Zenon DEF IInv, TypeOK
  <2>2. /\ \A b \in Calls : b # c => conn'[b] = conn[b]
        /\ conn'[c] = conns[PeerOf[c]]
        /\ \A m \in Conns : m # n => state'[m] = state[m]
        /\ state'[n] = "closed"
    BY <1>0, <2>0, Zenon DEF IInv, TypeOK
  <2>3. NoConnLeaks'
    BY <1>0, <1>00, <2>0, <2>2 DEF IInv, NoConnLeaks, At
  <2>4. FailedNotReused'
    <3>1. \A b \in Calls : conn[b] # NoConn => conn[b] \in Conns
      BY Zenon DEF IInv, TypeOK
    <3> QED
      BY <1>0, <1>00, <2>0, <2>2, <3>1 DEF IInv, FailedNotReused, At
  <2>5. UndialedUnused'
    BY <1>0, <1>1, <2>0, <2>2 DEF IInv, UndialedUnused
  <2>6. InstallFresh'
    BY <1>0, <1>00, <1>1, <2>0, <2>2 DEF IInv, InstallFresh, At
  <2>7. OnePeerEach' /\ NoneYet'
    BY <1>0, <1>00, <1>1, <2>0, <2>2 DEF IInv, OnePeerEach, NoneYet
  <2> QED
    BY <2>1, <2>3, <2>4, <2>5, <2>6, <2>7, Zenon DEF IInv
<1>2. CASE PeerOf[c] \notin DOMAIN conns
  <2>0. /\ conns' = Put(conns, PeerOf[c], n)
        /\ UNCHANGED <<state, conn>>
    BY <1>2, Zenon DEF Install
  <2>1. /\ DOMAIN conns' = DOMAIN conns \cup {PeerOf[c]}
        /\ conns'[PeerOf[c]] = n
        /\ \A p \in DOMAIN conns : conns'[p] = conns[p]
    BY <1>2, <2>0, Zenon DEF Put
  <2>2. TypeOK'
    BY <1>0, <2>0, <2>1, PeerInRange, Zenon DEF IInv, TypeOK
  <2>3. NoConnLeaks'
    BY <1>0, <1>00, <2>0, <2>1 DEF IInv, NoConnLeaks, At
  <2>4. FailedNotReused'
    BY <1>0, <1>00, <2>0, <2>1 DEF IInv, FailedNotReused, InstallFresh, At
  <2>5. n # NoConn /\ state[n] # "none"
    BY <1>0, ConnNumbers, Zenon DEF IInv, UndialedUnused
  <2>6. UndialedUnused'
    BY <2>0, <1>0, <2>1, <2>5 DEF IInv, UndialedUnused
  <2>7. InstallFresh'
    BY <1>0, <1>00, <2>0, <2>1 DEF IInv, InstallFresh, At
  <2>8. OnePeerEach' /\ NoneYet'
    BY <1>0, <1>00, <2>0, <2>1 DEF IInv, OnePeerEach, InstallFresh, NoneYet, At
  <2> QED
    BY <2>2, <2>3, <2>4, <2>6, <2>7, <2>8, Zenon DEF IInv
<1> QED
  BY <1>1, <1>2, Zenon

\* Drop, under the lock.
LEMMA DropTakeStep ==
    ASSUME IInv, NEW c \in Calls, DropTake(c)
    PROVE  IInv'
<1> DEFINE n == IF PeerOf[c] \in DOMAIN conns THEN conns[PeerOf[c]] ELSE NoConn
<1>0. /\ pc[c] = "drop" /\ pc' = [pc EXCEPT ![c] = "close"]
      /\ took' = [took EXCEPT ![c] = n]
      /\ conns' = Without(conns, {PeerOf[c]})
      /\ UNCHANGED <<conn, state, far>>
  BY Zenon DEF DropTake, At, Goto
<1>1. /\ DOMAIN conns' = DOMAIN conns \ {PeerOf[c]}
      /\ \A p \in DOMAIN conns' : conns'[p] = conns[p]
  BY <1>0, Zenon DEF Without, Restrict
<1>2. TypeOK'
  BY <1>0, <1>1, Zenon DEF IInv, TypeOK
<1>3. /\ pc'[c] = "close" /\ took'[c] = n
      /\ \A b \in Calls : b # c => pc'[b] = pc[b] /\ took'[b] = took[b]
  BY <1>0, Zenon DEF IInv, TypeOK
<1>4. NoConnLeaks'
  BY <1>0, <1>1, <1>3, SMTT(30) DEF IInv, NoConnLeaks, At
<1>5. conn[c] # NoConn /\ state[conn[c]] = "open" =>
         \E b \in Calls : pc'[b] = "close" /\ took'[b] = conn[c]
  <2> SUFFICES ASSUME conn[c] # NoConn, state[conn[c]] = "open"
               PROVE  \E b \in Calls : pc'[b] = "close" /\ took'[b] = conn[c]
    OBVIOUS
  <2>1. conn[c] \in Conns
    BY Zenon DEF IInv, TypeOK
  <2>2. CASE \E p \in DOMAIN conns : conns[p] = conn[c]
    BY <2>2, <1>3, Zenon DEF IInv, OnePeerEach
  <2>3. CASE \E b \in Calls : At(b, "install") /\ conn[b] = conn[c]
    BY <2>3, <1>0, Zenon DEF IInv, InstallFresh, At
  <2>4. CASE \E b \in Calls : At(b, "close") /\ took[b] = conn[c]
    BY <2>4, <1>0, <1>3, Zenon DEF At
  <2> QED
    BY <2>1, <2>2, <2>3, <2>4, Zenon DEF IInv, NoConnLeaks
<1>6. FailedNotReused'
  <2> SUFFICES ASSUME NEW b \in Calls, pc'[b] \in {"close", "rejected"}, conn[b] # NoConn
               PROVE  /\ \A p \in DOMAIN conns' : conns'[p] # conn[b]
                      /\ state[conn[b]] = "open" =>
                            \E a \in Calls : pc'[a] = "close" /\ took'[a] = conn[b]
    BY <1>0 DEF FailedNotReused, At
  <2>1. CASE b = c
    BY <2>1, <1>1, <1>5 DEF IInv, OnePeerEach
  <2>2. CASE b # c
    BY <2>2, <1>0, <1>1, <1>3, SMTT(30) DEF IInv, FailedNotReused, At
  <2> QED
    BY <2>1, <2>2, Zenon
<1>7. UndialedUnused'
  <2>1. \A m \in Conns : state[m] = "none" => n # m
    BY ConnNumbers, Zenon DEF IInv, UndialedUnused
  <2> QED
    BY <1>0, <1>1, <1>3, <2>1, SMTT(30) DEF IInv, UndialedUnused
<1>9. NoneYet'
  BY <1>0, <1>3, Zenon DEF IInv, NoneYet
<1>10. OnePeerEach'
  BY <1>0, <1>1, SMTT(30) DEF IInv, OnePeerEach
<1>8. InstallFresh'
  BY <1>0, <1>1, <1>3, SMTT(30) DEF IInv, InstallFresh, At
<1> QED
  BY <1>2, <1>4, <1>6, <1>7, <1>8, <1>9, <1>10, Zenon DEF IInv

\* Drop, closing what it took.
LEMMA DropCloseStep ==
    ASSUME IInv, NEW c \in Calls, DropClose(c)
    PROVE  IInv'
<1>0. /\ pc[c] = "close" /\ pc' = [pc EXCEPT ![c] = "rejected"]
      /\ took' = [took EXCEPT ![c] = NoConn]
      /\ state' = [n \in Conns |-> IF n = took[c] THEN "closed" ELSE state[n]]
      /\ UNCHANGED <<conn, conns, far>>
  BY Zenon DEF DropClose, At, Goto
<1>1. TypeOK'
  BY <1>0, Zenon DEF IInv, TypeOK
<1>2. /\ pc'[c] = "rejected" /\ took'[c] = NoConn
      /\ \A b \in Calls : b # c => pc'[b] = pc[b] /\ took'[b] = took[b]
      /\ \A n \in Conns : n # took[c] => state'[n] = state[n]
      /\ \A n \in Conns : n = took[c] => state'[n] = "closed"
  BY <1>0, Zenon DEF IInv, TypeOK
<1>3. NoConnLeaks'
  BY <1>0, <1>2 DEF IInv, NoConnLeaks, At
<1>4. FailedNotReused'
  <2>1. \A b \in Calls : conn[b] # NoConn => conn[b] \in Conns
    BY Zenon DEF IInv, TypeOK
  <2> QED
    BY <1>0, <1>2, <2>1 DEF IInv, FailedNotReused, At
<1>5. UndialedUnused' /\ OnePeerEach' /\ NoneYet'
  BY <1>0, <1>2, ConnNumbers DEF IInv, UndialedUnused, OnePeerEach, NoneYet
<1>6. InstallFresh'
  BY <1>0, <1>2 DEF IInv, InstallFresh, At
<1> QED
  BY <1>1, <1>3, <1>4, <1>5, <1>6, Zenon DEF IInv

\* A connection that closes by itself only leaves less to keep track of.
LEMMA ConnLostStep ==
    ASSUME IInv, NEW n \in Conns, ConnLost(n)
    PROVE  IInv'
<1>0. /\ state[n] = "open" /\ state' = [state EXCEPT ![n] = "closed"]
      /\ UNCHANGED <<pc, conn, took, conns, far>>
  BY Zenon DEF ConnLost
<1>1. TypeOK'
  BY <1>0, Zenon DEF IInv, TypeOK
<1>2. \A m \in Conns : /\ state'[m] = "open" => state[m] = "open"
                       /\ state'[m] = "none" => state[m] = "none"
  BY <1>0, Zenon DEF IInv, TypeOK
<1>3. \A b \in Calls : conn[b] # NoConn => conn[b] \in Conns
  BY Zenon DEF IInv, TypeOK
<1>4. NoConnLeaks' /\ FailedNotReused' /\ UndialedUnused'
  BY <1>0, <1>2, <1>3 DEF IInv, NoConnLeaks, FailedNotReused, UndialedUnused, At
<1>5. InstallFresh' /\ OnePeerEach' /\ NoneYet'
  BY <1>0, Zenon DEF IInv, InstallFresh, OnePeerEach, NoneYet, At
<1> QED
  BY <1>1, <1>4, <1>5, Zenon DEF IInv

\* The peer relay's steps change nothing of this relay's.
LEMMA FarStep ==
    ASSUME IInv, UNCHANGED <<pc, conn, took, conns, state>>, TypeOK'
    PROVE  IInv'
BY DEF IInv, NoConnLeaks, FailedNotReused, NoneYet, UndialedUnused, InstallFresh, OnePeerEach, At

\* The invariant is inductive.
LEMMA IInvStep == IInv /\ [Next]_vars => IInv'
<1> SUFFICES ASSUME IInv, [Next]_vars PROVE IInv'
  OBVIOUS
<1>1. ASSUME NEW c \in Calls, forwardToPeer(c) PROVE IInv'
  <2>1. CASE OpenPeerStream(c)
    <3>1. far' \in [Calls -> {"none", "resolve", "provider", "splicing", "ended", "rejected"}]
      BY <2>1, Zenon DEF OpenPeerStream, IInv, TypeOK
    <3> QED
      BY <2>1, <3>1, QuietStep, Zenon DEF OpenPeerStream, Goto, At
  <2>2. CASE AwaitReply(c)
    BY <2>2, QuietStep, Zenon DEF AwaitReply, Goto, At, IInv, TypeOK
  <2> QED
    BY <1>1, <2>1, <2>2, LookupStep, DialStep, InstallStep, DropTakeStep, DropCloseStep, Zenon
       DEF forwardToPeer
<1>2. ASSUME NEW c \in Calls, EndSplice(c) PROVE IInv'
  BY <1>2, QuietStep, Zenon DEF EndSplice, Goto, At, IInv, TypeOK
<1>3. ASSUME NEW c \in Calls, FarResolve(c) \/ FarProvider(c) \/ FarEnds(c) PROVE IInv'
  <2>1. UNCHANGED <<pc, conn, took, conns, state>> /\ TypeOK'
    BY <1>3, Zenon DEF FarResolve, FarProvider, FarEnds, FarGoto, IInv, TypeOK
  <2> QED
    BY <2>1, FarStep, Zenon
<1>4. CASE UNCHANGED vars
  <2>1. UNCHANGED <<pc, conn, took, conns, state>> /\ TypeOK'
    BY <1>4, Zenon DEF vars, IInv, TypeOK
  <2> QED
    BY <2>1, FarStep, Zenon
<1> QED
  BY <1>1, <1>2, <1>3, <1>4, ConnLostStep, Zenon DEF Next

(***************************************************************************)
(* The inductive invariant of pool, dials, drops and peer-side handlers    *)
(* holds in every reachable state.                                         *)
(***************************************************************************)
THEOREM PeerInvariant == Spec => []IInv
BY InitIInv, IInvStep, PTL DEF Spec

(***************************************************************************)
(* Whatever the number of calls, peers and races between Get and Drop, no  *)
(* open connection is left outside the pool with nobody about to close it. *)
(***************************************************************************)
THEOREM PoolKeepsTrack == Spec => []NoConnLeaks
<1>1. IInv => NoConnLeaks
  BY Zenon DEF IInv
<1> QED
  BY <1>1, PeerInvariant, PTL

(***************************************************************************)
(* A connection on which a call has failed and dropped is never handed out *)
(* again, and is closed or about to be.                                    *)
(***************************************************************************)
THEOREM DroppedForGood == Spec => []FailedNotReused
<1>1. IInv => FailedNotReused
  BY Zenon DEF IInv
<1> QED
  BY <1>1, PeerInvariant, PTL
=============================================================================
