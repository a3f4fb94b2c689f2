---------------------------- MODULE FleetProofs -----------------------------
(***************************************************************************)
(* The invariants of StreamOpen and Fleet, for any number of streams, ids, *)
(* agents and relays.  What a handler holds follows from where it is:      *)
(* allocations and an armed enforcement only between taking them and       *)
(* the deferred calls (Holding), a pair only while a handler that recorded *)
(* it has not returned (PairOwned), and nothing is told before a verdict   *)
(* (Untold).  Then the successor list, for fleets of any size: what the    *)
(* loop and the sort of Successors return, that relays of a region agree   *)
(* on it, and that both agents of a stream hold the same one.              *)
(***************************************************************************)
EXTENDS Fleet, FiniteSetTheorems, WellFoundedInduction, TLAPS

\* Before the pair is recorded; after; and before the consumer is told.
Pre == {"new", "caller", "resolve", "remote", "forwarded", "callee", "incoming", "record"}
Post == {"accept", "splice", "splicing", "forward", "allocate", "grant", "parked"}
Early == Pre \cup {"accept", "splice", "forward", "allocate", "grant"}
Pcs == Pre \cup Post \cup {"unwind", "returned"}

StreamState ==
    [pc : Pcs, id : StreamIds, consumer : Agents, provider : Agents \cup {"none"},
     p2p : {"allowed", "forbidden", "required"}, relay : {"splice", "forward"}, recorded : BOOLEAN]

TypeOK ==
    /\ st \in [Streams -> StreamState]
    /\ told \in [Streams -> Seq({"reject", "ready", "granted"})]
    /\ enforce \in [Streams -> {"off", "armed", "promoted", "killed", "gone"}]
    /\ up \subseteq Agents

AtMostOne(q) == q = << >> \/ \E w : q = <<w>>

Untold ==
    \A s \in Streams : AtMostOne(told[s]) /\ (st[s].pc \in Early => told[s] = << >>)

Holding ==
    \A s \in Streams :
        /\ enforce[s] = "armed" => st[s].pc \in Post \cup {"unwind"}
        /\ \A a : <<s, a>> \in allocs => st[s].pc \in {"grant", "parked", "unwind"}

RecordedLate == \A s \in Streams : st[s].recorded => st[s].pc \notin Pre

PairOwned ==
    \A id \in DOMAIN pairs : \E t \in Streams :
        st[t].id = id /\ st[t].recorded /\ st[t].pc # "returned"

IInv == TypeOK /\ Untold /\ Holding /\ RecordedLate /\ PairOwned /\ PairHeld

\* The invariant holds before any stream is opened.
LEMMA InitIInv == Init => IInv
<1> SUFFICES ASSUME Init PROVE IInv
  OBVIOUS
<1>0. << >> \in Seq({"reject", "ready", "granted"})
  OBVIOUS
<1>1. TypeOK
  BY <1>0, Zenon DEF Init, TypeOK, StreamState, Pcs, Pre
<1>2. \A s \in Streams : st[s].pc = "new" /\ ~st[s].recorded /\ told[s] = << >> /\ enforce[s] = "off"
  BY Zenon DEF Init
<1>3. allocs = {} /\ DOMAIN pairs = {}
  BY DEF Init
<1> QED
  BY <1>1, <1>2, <1>3, Zenon DEF IInv, Untold, Holding, RecordedLate, PairOwned, PairHeld, Pre, Early, AtMostOne

-----------------------------------------------------------------------------
(* A step of one handler *)

\* The handler of s goes to p; what it knows of its stream it keeps, but for
\* the provider that Resolve finds and that is gone when it returns.
Moved(s, p) ==
    /\ st' \in [Streams -> StreamState]
    /\ \A t \in Streams : t # s => st'[t] = st[t]
    /\ st'[s].pc = p /\ st'[s].id = st[s].id /\ st'[s].consumer = st[s].consumer
    /\ st'[s].recorded = st[s].recorded
    /\ st'[s].provider = st[s].provider \/ st[s].pc = "resolve" \/ p = "returned"

\* A handler that just goes to its next place has moved.
LEMMA GotoMoves ==
    ASSUME TypeOK, NEW s \in Streams, NEW p \in Pcs, Goto(s, p)
    PROVE  Moved(s, p)
BY DEF TypeOK, Goto, Moved, StreamState

(***************************************************************************)
(* A move that takes and releases nothing preserves the invariant, if it   *)
(* stays on its side of recordPair, of the grant and of the verdict.       *)
(***************************************************************************)
LEMMA MoveStep ==
    ASSUME IInv, NEW s \in Streams, NEW p \in Pcs \ {"returned"}, Moved(s, p),
           UNCHANGED <<pairs, allocs, enforce, up>>,
           st[s].pc # "returned",
           p \in Pre => st[s].pc \in Pre,
           st[s].pc \in Pre => p \in Pre \cup {"unwind"},
           st[s].pc \in {"grant", "parked", "unwind"} => p \in {"grant", "parked", "unwind"},
           told' \in [Streams -> Seq({"reject", "ready", "granted"})],
           \A t \in Streams : t # s => told'[t] = told[t],
           AtMostOne(told'[s]),
           p \in Early => told'[s] = << >>
    PROVE  IInv'
<1>0. p # "returned" /\ p \in Pcs
  OBVIOUS
<1>1. TypeOK'
  BY Zenon DEF IInv, TypeOK, Moved
<1>2. Untold'
  <2> SUFFICES ASSUME NEW t \in Streams
               PROVE  AtMostOne(told'[t]) /\ (st'[t].pc \in Early => told'[t] = << >>)
    BY Zenon DEF Untold
  <2>1. CASE t = s
    BY <2>1, Zenon DEF IInv, Untold, Moved
  <2>2. CASE t # s
    BY <2>2, Zenon DEF IInv, Untold, Moved
  <2> QED
    BY <2>1, <2>2, Zenon
<1>3. Holding'
  <2>1. enforce'[s] = "armed" => st'[s].pc \in Post \cup {"unwind"}
    BY <1>0, Zenon DEF IInv, Holding, Moved, Pcs, Pre, Post
  <2>2. \A a : <<s, a>> \in allocs' => st'[s].pc \in {"grant", "parked", "unwind"}
    BY Zenon DEF IInv, Holding, Moved
  <2> QED
    BY <2>1, <2>2, Zenon DEF IInv, Holding, Moved
<1>4. RecordedLate'
  BY Zenon DEF IInv, RecordedLate, Moved
<1>5. PairOwned'
  <2> SUFFICES ASSUME NEW id \in DOMAIN pairs
               PROVE  \E t \in Streams : st'[t].id = id /\ st'[t].recorded /\ st'[t].pc # "returned"
    BY Zenon DEF PairOwned
  <2>1. PICK t \in Streams : st[t].id = id /\ st[t].recorded /\ st[t].pc # "returned"
    BY Zenon DEF IInv, PairOwned
  <2>2. st'[t].id = id /\ st'[t].recorded /\ st'[t].pc # "returned"
    BY <1>0, <2>1, Zenon DEF Moved
  <2> QED
    BY <2>2, Zenon
<1>6. PairHeld'
  <2> SUFFICES ASSUME NEW t \in Streams, st'[t].recorded, st'[t].pc # "returned",
                      \A x \in Streams \ {t} : st'[x].recorded => st'[x].id # st'[t].id
               PROVE  st'[t].id \in DOMAIN pairs' /\ pairs'[st'[t].id] = Pair(t)'
    BY Zenon DEF PairHeld
  <2>1. \A x \in Streams : st'[x].recorded = st[x].recorded /\ st'[x].id = st[x].id
    BY Zenon DEF Moved
  <2>2. st[t].recorded /\ st[t].pc # "returned"
    BY <2>1, Zenon DEF Moved
  <2>3. st'[t].provider = st[t].provider /\ st'[t].consumer = st[t].consumer
    <3>1. st[t].pc # "resolve"
      BY <2>2, Zenon DEF IInv, RecordedLate, Pre
    <3> QED
      BY <1>0, <3>1, Zenon DEF Moved
  <2>4. st[t].id \in DOMAIN pairs /\ pairs[st[t].id] = Pair(t)
    <3>1. \A x \in Streams \ {t} : st[x].recorded => st[x].id # st[t].id
      BY <2>1, Zenon
    <3> QED
      BY <2>2, <3>1, Zenon DEF IInv, PairHeld
  <2> QED
    BY <2>1, <2>3, <2>4, Zenon DEF Pair
<1> QED
  BY <1>1, <1>2, <1>3, <1>4, <1>5, <1>6, Zenon DEF IInv

\* A move on which the consumer is told nothing.
LEMMA SilentMove ==
    ASSUME IInv, NEW s \in Streams, NEW p \in Pcs \ {"returned"}, Moved(s, p),
           UNCHANGED <<told, pairs, allocs, enforce, up>>,
           st[s].pc # "returned",
           p \in Pre => st[s].pc \in Pre,
           st[s].pc \in Pre => p \in Pre \cup {"unwind"},
           st[s].pc \in {"grant", "parked", "unwind"} => p \in {"grant", "parked", "unwind"},
           p \in Early => st[s].pc \in Early
    PROVE  IInv'
<1>1. told' \in [Streams -> Seq({"reject", "ready", "granted"})]
  BY Zenon DEF IInv, TypeOK
<1>2. /\ \A t \in Streams : t # s => told'[t] = told[t]
      /\ AtMostOne(told'[s])
      /\ p \in Early => told'[s] = << >>
  BY Zenon DEF IInv, Untold
<1> QED
  BY <1>1, <1>2, MoveStep, Zenon

\* The first thing the consumer is told is the only one.
LEMMA FirstTold ==
    ASSUME IInv, NEW s \in Streams, NEW w \in {"reject", "ready", "granted"},
           st[s].pc \in Early, Tell(s, w)
    PROVE  /\ told' \in [Streams -> Seq({"reject", "ready", "granted"})]
           /\ \A t \in Streams : t # s => told'[t] = told[t]
           /\ AtMostOne(told'[s])
<1>1. told \in [Streams -> Seq({"reject", "ready", "granted"})] /\ told[s] = << >>
  BY Zenon DEF IInv, TypeOK, Untold
<1>2. Append(<< >>, w) = <<w>> /\ <<w>> \in Seq({"reject", "ready", "granted"})
  OBVIOUS
<1>3. \/ told' = told
      \/ told' = [told EXCEPT ![s] = <<w>>]
  BY <1>1, <1>2, Zenon DEF Tell
<1>4. CASE told' = told
  BY <1>1, <1>4, Zenon DEF AtMostOne
<1>5. CASE told' = [told EXCEPT ![s] = <<w>>]
  <2>1. told'[s] = <<w>>
    BY <1>1, <1>5, Zenon
  <2>2. AtMostOne(told'[s])
    BY <2>1, Zenon DEF AtMostOne
  <2> QED
    BY <1>1, <1>2, <1>5, <2>2, Zenon
<1> QED
  BY <1>3, <1>4, <1>5, Zenon

\* rejectConsumer keeps the invariant wherever the consumer was told nothing.
LEMMA RejectStep ==
    ASSUME IInv, NEW s \in Streams, st[s].pc \in Early, Reject(s),
           UNCHANGED <<pairs, allocs, enforce, up>>
    PROVE  IInv'
<1>1. Moved(s, "unwind")
  BY GotoMoves, "unwind" \in Pcs, Zenon DEF Reject, IInv, Pcs
<1>2. /\ told' \in [Streams -> Seq({"reject", "ready", "granted"})]
      /\ \A t \in Streams : t # s => told'[t] = told[t]
      /\ AtMostOne(told'[s])
  BY FirstTold, Zenon DEF Reject
<1>3. /\ st[s].pc # "returned" /\ "unwind" \notin Pre /\ "unwind" \notin Early
      /\ "unwind" \in Pcs \ {"returned"}
  BY Zenon DEF Early, Pre, Pcs
<1> QED
  BY <1>1, <1>2, <1>3, MoveStep, Zenon

-----------------------------------------------------------------------------
(* The actions *)

\* Up to OPEN_INCOMING the handler takes nothing this module keeps.
LEMMA OpeningStep ==
    ASSUME IInv, NEW s \in Streams,
           \/ ReadOpen(s) \/ CallerPolicy(s) \/ Resolve(s) \/ forwardToPeer(s)
           \/ CalleePolicy(s) \/ OpenIncoming(s)
    PROVE  IInv'
<1>0. UNCHANGED <<pairs, allocs, enforce, up>> /\ st[s].pc \in Pre /\ st[s].pc \in Early
  BY Zenon DEF ReadOpen, CallerPolicy, Resolve, forwardToPeer, CalleePolicy, OpenIncoming, At, Pre, Early
<1>1. CASE Reject(s)
  BY <1>0, <1>1, RejectStep, Zenon
<1>2. ASSUME ~Reject(s)
      PROVE  UNCHANGED told /\ \E p \in Pre : Moved(s, p)
  <2>0. TypeOK
    BY Zenon DEF IInv
  <2>1. CASE ReadOpen(s)
    BY <2>0, <2>1, GotoMoves, Zenon DEF ReadOpen, Pcs, Pre
  <2>2. CASE CallerPolicy(s)
    <3>1. PICK p \in P2PModes, r \in RelayModes :
                  st' = [st EXCEPT ![s].pc = "resolve", ![s].p2p = p, ![s].relay = r]
      BY <1>2, <2>2, Zenon DEF CallerPolicy
    <3>2. p \in {"allowed", "forbidden", "required"} /\ r \in {"splice", "forward"}
          /\ "resolve" \in Pcs /\ "resolve" \in Pre
      BY OpenConstants, Zenon DEF Pcs, Pre
    <3> DEFINE new == [st[s] EXCEPT !.pc = "resolve", !.p2p = p, !.relay = r]
    <3>3. st[s] \in StreamState /\ st' = [st EXCEPT ![s] = new]
      BY <2>0, <3>1, Zenon DEF TypeOK
    <3>4. /\ new \in StreamState /\ new.pc = "resolve" /\ new.id = st[s].id
          /\ new.consumer = st[s].consumer /\ new.recorded = st[s].recorded
          /\ new.provider = st[s].provider
      BY <3>2, <3>3, Zenon DEF StreamState
    <3> HIDE DEF new
    <3>5. Moved(s, "resolve")
      BY <2>0, <3>3, <3>4, Zenon DEF TypeOK, Moved
    <3> QED
      BY <1>2, <2>2, <3>2, <3>5, Zenon DEF CallerPolicy
  <2>3. CASE Resolve(s)
    <3>1. CASE Goto(s, "remote")
      BY <1>2, <2>0, <2>3, <3>1, GotoMoves, Zenon DEF Resolve, Reject, Goto, Pcs, Pre
    <3>2. CASE \E p \in up : st' = [st EXCEPT ![s].pc = "callee", ![s].provider = p]
      <4>1. PICK p \in up : st' = [st EXCEPT ![s].pc = "callee", ![s].provider = p]
        BY <3>2, Zenon
      <4>2. p \in Agents \cup {"none"} /\ "callee" \in Pcs /\ "callee" \in Pre
        BY <2>0, Zenon DEF TypeOK, Pcs, Pre
      <4> DEFINE new == [st[s] EXCEPT !.pc = "callee", !.provider = p]
      <4>3. st[s] \in StreamState /\ st' = [st EXCEPT ![s] = new]
        BY <2>0, <4>1, Zenon DEF TypeOK
      <4>4. /\ new \in StreamState /\ new.pc = "callee" /\ new.id = st[s].id
            /\ new.consumer = st[s].consumer /\ new.recorded = st[s].recorded
        BY <4>2, <4>3, Zenon DEF StreamState
      <4> HIDE DEF new
      <4>5. Moved(s, "callee")
        BY <2>0, <2>3, <4>3, <4>4, Zenon DEF TypeOK, Moved, Resolve, At
      <4> QED
        BY <1>2, <2>3, <4>2, <4>5, Zenon DEF Resolve
    <3> QED
      BY <1>2, <2>3, <3>1, <3>2, Zenon DEF Resolve
  <2>4. CASE forwardToPeer(s)
    BY <1>2, <2>0, <2>4, GotoMoves, Zenon DEF forwardToPeer, Pcs, Pre
  <2>5. CASE CalleePolicy(s)
    <3>1. PICK p \in P2PModes :
                  st' = [st EXCEPT ![s].pc = "incoming", ![s].p2p = CombineP2PModes(@, p)]
      BY <1>2, <2>5, Zenon DEF CalleePolicy
    <3> DEFINE mode == CombineP2PModes(st[s].p2p, p)
    <3>2. mode \in {"allowed", "forbidden", "required"} /\ "incoming" \in Pcs /\ "incoming" \in Pre
      BY Zenon DEF CombineP2PModes, Pcs, Pre
    <3> DEFINE new == [st[s] EXCEPT !.pc = "incoming", !.p2p = mode]
    <3>3. st[s] \in StreamState /\ st' = [st EXCEPT ![s] = new]
      BY <2>0, <3>1, Zenon DEF TypeOK
    <3> HIDE DEF mode
    <3>4. /\ new \in StreamState /\ new.pc = "incoming" /\ new.id = st[s].id
          /\ new.consumer = st[s].consumer /\ new.recorded = st[s].recorded
          /\ new.provider = st[s].provider
      BY <3>2, <3>3, Zenon DEF StreamState
    <3> HIDE DEF new
    <3>5. Moved(s, "incoming")
      BY <2>0, <3>3, <3>4, Zenon DEF TypeOK, Moved
    <3> QED
      BY <1>2, <2>5, <3>2, <3>5, Zenon DEF CalleePolicy
  <2>6. CASE OpenIncoming(s)
    BY <1>2, <2>0, <2>6, GotoMoves, Zenon DEF OpenIncoming, Pcs, Pre
  <2> QED
    BY <2>1, <2>2, <2>3, <2>4, <2>5, <2>6, Zenon
<1>3. ASSUME NEW p \in Pre
      PROVE  /\ p \in Pcs \ {"returned"} /\ p \in Pre \cup {"unwind"}
             /\ st[s].pc \notin {"returned", "grant", "parked", "unwind"}
  BY <1>0, Zenon DEF Pre, Pcs
<1> QED
  BY <1>0, <1>1, <1>2, <1>3, SilentMove, Zenon

\* From the provider's answer to the end of the stream.
LEMMA CarryingStep ==
    ASSUME IInv, NEW s \in Streams, Accepted(s) \/ Ready(s) \/ Grant(s) \/ StreamEnds(s)
    PROVE  IInv'
<1>0. TypeOK /\ UNCHANGED <<pairs, allocs, enforce, up>>
  BY Zenon DEF IInv, Accepted, Ready, Grant, StreamEnds
<1>1. CASE Accepted(s)
  <2>1. CASE Reject(s)
    BY <1>0, <1>1, <2>1, RejectStep, Zenon DEF Accepted, At, Early
  <2>2. ASSUME ~Reject(s)
        PROVE  UNCHANGED told /\ \E p \in {"splice", "forward", "unwind"} : Moved(s, p)
    <3>1. st[s].relay \in {"splice", "forward"}
      BY <1>0, Zenon DEF TypeOK, StreamState
    <3>2. UNCHANGED told /\ (Goto(s, st[s].relay) \/ Goto(s, "unwind"))
      BY <1>1, <2>2, Zenon DEF Accepted
    <3> QED
      BY <1>0, <3>1, <3>2, GotoMoves, Zenon DEF Pcs, Post
  <2>3. ASSUME NEW p \in {"splice", "forward", "unwind"}
        PROVE  /\ p \in Pcs \ {"returned"} /\ p \notin Pre
               /\ st[s].pc \notin {"returned", "grant", "parked", "unwind"}
               /\ st[s].pc \in Early /\ st[s].pc \notin Pre
    BY <1>1, Zenon DEF Accepted, At, Early, Pcs, Pre, Post
  <2> QED
    BY <1>0, <2>1, <2>2, <2>3, SilentMove, Zenon
<1>2. CASE Ready(s)
  <2>1. Moved(s, "splicing")
    BY <1>0, <1>2, GotoMoves, Zenon DEF Ready, Pcs, Post
  <2>2. st[s].pc = "splice" /\ st[s].pc \in Early
    BY <1>2, Zenon DEF Ready, At, Early
  <2>3. /\ told' \in [Streams -> Seq({"reject", "ready", "granted"})]
        /\ \A t \in Streams : t # s => told'[t] = told[t]
        /\ AtMostOne(told'[s])
    BY <1>2, <2>2, FirstTold, Zenon DEF Ready
  <2>4. /\ "splicing" \in Pcs \ {"returned"} /\ "splicing" \notin Early
        /\ "splicing" \notin Pre /\ "splice" \notin Pre
    BY Zenon DEF Pcs, Pre, Post, Early
  <2> QED
    BY <1>0, <2>1, <2>2, <2>3, <2>4, MoveStep, Zenon
<1>3. CASE Grant(s)
  <2>1. PICK p \in {"parked", "unwind"} : Moved(s, p)
    BY <1>0, <1>3, GotoMoves, Zenon DEF Grant, Pcs, Post
  <2>2. st[s].pc = "grant" /\ st[s].pc \in Early
    BY <1>3, Zenon DEF Grant, At, Early
  <2>3. /\ told' \in [Streams -> Seq({"reject", "ready", "granted"})]
        /\ \A t \in Streams : t # s => told'[t] = told[t]
        /\ AtMostOne(told'[s])
    BY <1>3, <2>2, FirstTold, Zenon DEF Grant
  <2>4. p \in Pcs \ {"returned"} /\ p \notin Early /\ p \notin Pre /\ "grant" \notin Pre
    BY Zenon DEF Pcs, Pre, Post, Early
  <2> QED
    BY <1>0, <2>1, <2>2, <2>3, <2>4, MoveStep, Zenon
<1>4. CASE StreamEnds(s)
  <2>1. Moved(s, "unwind") /\ UNCHANGED told
    BY <1>0, <1>4, GotoMoves, Zenon DEF StreamEnds, Pcs
  <2>2. /\ st[s].pc # "returned" /\ "unwind" \in Pcs \ {"returned"}
        /\ "unwind" \notin Pre /\ "unwind" \notin Early
    BY <1>4, Zenon DEF StreamEnds, Pcs, Pre, Early
  <2> QED
    BY <1>0, <2>1, <2>2, SilentMove, Zenon
<1> QED
  BY <1>1, <1>2, <1>3, <1>4, Zenon

\* recordPair: a pair of its own, or a reject that leaves the other's alone.
LEMMA RecordStep ==
    ASSUME IInv, NEW s \in Streams, recordPair(s)
    PROVE  IInv'
<1>0. TypeOK /\ st[s].pc = "record" /\ UNCHANGED <<up, allocs>>
  BY Zenon DEF IInv, recordPair, At
<1>1. CASE st[s].id \in DOMAIN pairs /\ pairs[st[s].id] # Pair(s)
  <2>1. Reject(s) /\ UNCHANGED <<pairs, enforce>>
    BY <1>1, Zenon DEF recordPair
  <2>2. st[s].pc \in Early
    BY <1>0, Zenon DEF Early, Pre
  <2> QED
    BY <1>0, <2>1, <2>2, RejectStep, Zenon
<1>2. CASE ~(st[s].id \in DOMAIN pairs /\ pairs[st[s].id] # Pair(s))
  <2>1. /\ pairs' = Put(pairs, st[s].id, Pair(s))
        /\ st' = [st EXCEPT ![s].pc = "accept", ![s].recorded = TRUE]
        /\ enforce' = [enforce EXCEPT ![s] = IF st[s].p2p = "required" THEN "armed" ELSE "off"]
        /\ UNCHANGED told
    BY <1>2, Zenon DEF recordPair
  <2>2. "accept" \in Pcs /\ "accept" \notin Pre /\ "accept" \in Post /\ st[s].pc \in Early
    BY <1>0, Zenon DEF Pcs, Pre, Post, Early
  <2>3. /\ \A t \in Streams : t # s => st'[t] = st[t] /\ enforce'[t] = enforce[t]
        /\ st'[s].pc = "accept" /\ st'[s].recorded = TRUE /\ st'[s].id = st[s].id
        /\ st'[s].consumer = st[s].consumer /\ st'[s].provider = st[s].provider
    BY <1>0, <2>1 DEF TypeOK, StreamState
  <2>4. /\ DOMAIN pairs' = DOMAIN pairs \cup {st[s].id}
        /\ pairs'[st[s].id] = Pair(s)
        /\ \A id \in DOMAIN pairs : id # st[s].id => pairs'[id] = pairs[id]
    BY <2>1, Zenon DEF Put
  <2>5. TypeOK'
    <3> DEFINE new == [st[s] EXCEPT !.pc = "accept", !.recorded = TRUE]
    <3>1. st[s] \in StreamState /\ st' = [st EXCEPT ![s] = new]
      BY <1>0, <2>1, Zenon DEF TypeOK
    <3>2. new \in StreamState
      BY <2>2, <3>1, Zenon DEF StreamState
    <3> HIDE DEF new
    <3>3. st' \in [Streams -> StreamState]
      BY <1>0, <3>1, <3>2, Zenon DEF TypeOK
    <3>4. enforce' \in [Streams -> {"off", "armed", "promoted", "killed", "gone"}]
      BY <1>0, <2>1, Zenon DEF TypeOK
    <3> QED
      BY <1>0, <2>1, <3>3, <3>4, Zenon DEF TypeOK
  <2>6. Untold'
    BY <2>1, <2>2, <2>3, Zenon DEF IInv, Untold
  <2>7. Holding'
    <3> SUFFICES ASSUME NEW t \in Streams
                 PROVE  /\ enforce'[t] = "armed" => st'[t].pc \in Post \cup {"unwind"}
                        /\ \A a : <<t, a>> \in allocs => st'[t].pc \in {"grant", "parked", "unwind"}
      BY <1>0, Zenon DEF Holding
    <3>1. CASE t = s
      BY <1>0, <2>2, <2>3, <3>1, Zenon DEF IInv, Holding
    <3>2. CASE t # s
      BY <2>3, <3>2, Zenon DEF IInv, Holding
    <3> QED
      BY <3>1, <3>2, Zenon
  <2>8. RecordedLate'
    BY <2>2, <2>3, Zenon DEF IInv, RecordedLate
  <2>9. PairOwned'
    <3> SUFFICES ASSUME NEW id \in DOMAIN pairs'
                 PROVE  \E t \in Streams : st'[t].id = id /\ st'[t].recorded /\ st'[t].pc # "returned"
      BY Zenon DEF PairOwned
    <3>1. CASE id = st[s].id
      BY <2>3, <3>1, Zenon
    <3>2. CASE id # st[s].id
      <4>1. PICK t \in Streams : st[t].id = id /\ st[t].recorded /\ st[t].pc # "returned"
        BY <2>4, <3>2, Zenon DEF IInv, PairOwned
      <4>2. t # s
        BY <3>2, <4>1, Zenon
      <4> QED
        BY <2>3, <4>1, <4>2, Zenon
    <3> QED
      BY <3>1, <3>2, Zenon
  <2>10. PairHeld'
    <3> SUFFICES ASSUME NEW t \in Streams, st'[t].recorded, st'[t].pc # "returned",
                        \A x \in Streams \ {t} : st'[x].recorded => st'[x].id # st'[t].id
                 PROVE  st'[t].id \in DOMAIN pairs' /\ pairs'[st'[t].id] = Pair(t)'
      BY Zenon DEF PairHeld
    <3>1. CASE t = s
      BY <2>3, <2>4, <3>1, Zenon DEF Pair
    <3>2. CASE t # s
      <4>1. st'[t] = st[t]
        BY <2>3, <3>2, Zenon
      <4>2. st[s].id # st[t].id
        BY <2>3, <3>2, <4>1, Zenon
      <4>3. \A x \in Streams \ {t} : st[x].recorded => st[x].id # st[t].id
        BY <2>3, <4>1, <4>2, Zenon
      <4>4. st[t].id \in DOMAIN pairs /\ pairs[st[t].id] = Pair(t)
        BY <4>1, <4>3, Zenon DEF IInv, PairHeld
      <4> QED
        BY <2>4, <4>1, <4>2, <4>4, Zenon DEF Pair
    <3> QED
      BY <3>1, <3>2, Zenon
  <2> QED
    BY <2>5, <2>6, <2>7, <2>8, <2>9, <2>10, Zenon DEF IInv
<1> QED
  BY <1>1, <1>2, Zenon

\* The second lookup of the provider: a reject, or on to the allocations.
LEMMA LookupStep ==
    ASSUME IInv, NEW s \in Streams, LookupProvider(s)
    PROVE  IInv'
<1>0. TypeOK /\ st[s].pc = "forward" /\ UNCHANGED <<up, pairs, enforce, allocs>>
  BY Zenon DEF IInv, LookupProvider, At
<1>1. CASE Reject(s)
  BY <1>0, <1>1, RejectStep, Zenon DEF Early
<1>2. CASE Goto(s, "allocate") /\ UNCHANGED told
  <2>1. Moved(s, "allocate")
    BY <1>0, <1>2, GotoMoves, Zenon DEF Pcs, Post
  <2>2. /\ "allocate" \in Pcs \ {"returned"} /\ "allocate" \notin Pre
        /\ "forward" \in Early /\ "forward" \notin Pre
    BY Zenon DEF Pcs, Pre, Post, Early
  <2> QED
    BY <1>0, <1>2, <2>1, <2>2, SilentMove, Zenon
<1> QED
  BY <1>1, <1>2, Zenon DEF LookupProvider

\* AllocateBoth: an allocation for either agent.
LEMMA AllocateStep ==
    ASSUME IInv, NEW s \in Streams, AllocateBoth(s)
    PROVE  IInv'
<1>0. TypeOK /\ st[s].pc = "allocate" /\ UNCHANGED <<up, pairs, enforce>>
  BY Zenon DEF IInv, AllocateBoth, At
<1>1. /\ allocs' = allocs \cup {<<s, st[s].consumer>>, <<s, st[s].provider>>}
      /\ Goto(s, "grant") /\ UNCHANGED told
  BY Zenon DEF AllocateBoth
<1>2. Moved(s, "grant") /\ st'[s].provider = st[s].provider
  BY <1>0, <1>1, GotoMoves, Zenon DEF Pcs, Post, Moved
<1>3. /\ "grant" \notin Pre /\ "grant" \in Post /\ "allocate" \in Early
      /\ "allocate" \notin Pre
  BY Zenon DEF Pre, Post, Early
<1>4. TypeOK'
  BY <1>0, <1>1, <1>2, Zenon DEF TypeOK, Moved
<1>5. Untold'
  BY <1>0, <1>1, <1>2, <1>3, Zenon DEF IInv, Untold, Moved
<1>6. Holding'
  <2> SUFFICES ASSUME NEW t \in Streams
               PROVE  /\ enforce[t] = "armed" => st'[t].pc \in Post \cup {"unwind"}
                      /\ \A a : <<t, a>> \in allocs' => st'[t].pc \in {"grant", "parked", "unwind"}
    BY <1>0, Zenon DEF Holding
  <2>1. CASE t = s
    BY <1>2, <1>3, <2>1, Zenon DEF Moved
  <2>2. CASE t # s
    <3>1. \A a : <<t, a>> \in allocs' => <<t, a>> \in allocs
      BY <1>1, <2>2, Zenon
    <3> QED
      BY <1>2, <2>2, <3>1, Zenon DEF IInv, Holding, Moved
  <2> QED
    BY <2>1, <2>2, Zenon
<1>7. RecordedLate'
  BY <1>0, <1>2, <1>3, Zenon DEF IInv, RecordedLate, Moved
<1>8. \A t \in Streams : /\ st'[t].id = st[t].id /\ st'[t].recorded = st[t].recorded
                         /\ st'[t].consumer = st[t].consumer /\ st'[t].provider = st[t].provider
                         /\ st'[t].pc # "returned" <=> st[t].pc # "returned"
  BY <1>0, <1>2, Zenon DEF Moved
<1>9. PairOwned'
  BY <1>0, <1>8 DEF IInv, PairOwned
<1>10. PairHeld'
  BY <1>0, <1>8 DEF IInv, PairHeld, Pair
<1> QED
  BY <1>4, <1>5, <1>6, <1>7, <1>9, <1>10, Zenon DEF IInv

\* The deferred calls release all that the handler of s holds, and the pair
\* only if it recorded one.
LEMMA UnwindStep ==
    ASSUME IInv, NEW s \in Streams, Unwind(s)
    PROVE  IInv'
<1>0. TypeOK /\ st[s].pc = "unwind" /\ UNCHANGED <<told, up>>
  BY Zenon DEF IInv, Unwind, At
<1>1. Moved(s, "returned")
  <2> DEFINE new == [st[s] EXCEPT !.pc = "returned", !.provider = "none",
                                  !.p2p = "allowed", !.relay = "splice"]
  <2>1. st[s] \in StreamState /\ st' = [st EXCEPT ![s] = new]
    BY <1>0, Zenon DEF TypeOK, Unwind, Return
  <2>2. /\ new \in StreamState /\ new.pc = "returned" /\ new.id = st[s].id
        /\ new.consumer = st[s].consumer /\ new.recorded = st[s].recorded
    BY <2>1 DEF StreamState, Pcs
  <2> HIDE DEF new
  <2> QED
    BY <1>0, <2>1, <2>2, Zenon DEF TypeOK, Moved
<1>2. /\ allocs' = {a \in allocs : a[1] # s}
      /\ enforce' = [enforce EXCEPT ![s] = "off"]
      /\ pairs' = IF st[s].recorded THEN Without(pairs, {st[s].id}) ELSE pairs
  BY Zenon DEF Unwind
<1>3. /\ DOMAIN pairs' \subseteq DOMAIN pairs
      /\ st[s].recorded => DOMAIN pairs' = DOMAIN pairs \ {st[s].id}
      /\ ~st[s].recorded => pairs' = pairs
      /\ \A id \in DOMAIN pairs' : pairs'[id] = pairs[id]
  BY <1>2, Zenon DEF Without, Restrict
<1>4. \A t \in Streams : /\ st'[t].id = st[t].id /\ st'[t].recorded = st[t].recorded
                         /\ t # s => st'[t] = st[t]
  BY <1>0, <1>1, Zenon DEF Moved
<1>5. TypeOK'
  BY <1>0, <1>1, <1>2, Zenon DEF TypeOK, Moved
<1>6. Untold'
  <2>1. "returned" \notin Early
    BY Zenon DEF Early, Pre
  <2> QED
    BY <1>0, <1>1, <2>1, Zenon DEF IInv, Untold, Moved
<1>7. Holding'
  <2> SUFFICES ASSUME NEW t \in Streams
               PROVE  /\ enforce'[t] = "armed" => st'[t].pc \in Post \cup {"unwind"}
                      /\ \A a : <<t, a>> \in allocs' => st'[t].pc \in {"grant", "parked", "unwind"}
    BY Zenon DEF Holding
  <2>1. CASE t = s
    BY <1>0, <1>2, <2>1, Zenon DEF TypeOK
  <2>2. CASE t # s
    <3>1. enforce'[t] = enforce[t]
      BY <1>0, <1>2, <2>2, Zenon DEF TypeOK
    <3> QED
      BY <1>2, <1>4, <2>2, <3>1, Zenon DEF IInv, Holding
  <2> QED
    BY <2>1, <2>2, Zenon
<1>8. RecordedLate'
  BY <1>0, <1>1, <1>4, Zenon DEF IInv, RecordedLate, Moved, Pre
<1>9. PairOwned'
  <2> SUFFICES ASSUME NEW id \in DOMAIN pairs'
               PROVE  \E t \in Streams : st'[t].id = id /\ st'[t].recorded /\ st'[t].pc # "returned"
    BY Zenon DEF PairOwned
  <2>1. PICK t \in Streams : st[t].id = id /\ st[t].recorded /\ st[t].pc # "returned"
    BY <1>3, Zenon DEF IInv, PairOwned
  <2>2. t # s
    BY <1>3, <2>1, Zenon
  <2> QED
    BY <1>4, <2>1, <2>2, Zenon
<1>10. PairHeld'
  <2> SUFFICES ASSUME NEW t \in Streams, st'[t].recorded, st'[t].pc # "returned",
                      \A x \in Streams \ {t} : st'[x].recorded => st'[x].id # st'[t].id
               PROVE  st'[t].id \in DOMAIN pairs' /\ pairs'[st'[t].id] = Pair(t)'
    BY Zenon DEF PairHeld
  <2>1. t # s
    BY <1>1, Zenon DEF Moved
  <2>2. \A x \in Streams \ {t} : st[x].recorded => st[x].id # st[t].id
    BY <1>4, Zenon
  <2>3. st[t].id \in DOMAIN pairs /\ pairs[st[t].id] = Pair(t)
    BY <1>4, <2>1, <2>2, Zenon DEF IInv, PairHeld
  <2>4. st[s].recorded => st[s].id # st[t].id
    BY <2>1, <2>2, Zenon
  <2>5. st[t].id \in DOMAIN pairs'
    BY <1>3, <2>3, <2>4, Zenon
  <2> QED
    BY <1>3, <1>4, <2>3, <2>5 DEF Pair
<1> QED
  BY <1>5, <1>6, <1>7, <1>8, <1>9, <1>10, Zenon DEF IInv

\* The enforcement's own steps, those of the agents' data streams, and what the
\* plane drops on its own.
LEMMA EnforceStep ==
    ASSUME IInv, UNCHANGED <<st, told, up, pairs>>, allocs' \subseteq allocs,
           enforce' \in [Streams -> {"off", "armed", "promoted", "killed", "gone"}],
           \A t \in Streams : enforce'[t] = "armed" => enforce[t] = "armed"
    PROVE  IInv'
<1>1. TypeOK' /\ Holding'
  BY Zenon DEF IInv, TypeOK, Holding
<1>2. Untold' /\ RecordedLate' /\ PairOwned' /\ PairHeld'
  BY Zenon DEF IInv, Untold, RecordedLate, PairOwned, PairHeld, Pair
<1> QED
  BY <1>1, <1>2, Zenon DEF IInv

\* A lost link takes its allocations and enforcements, never another agent's.
LEMMA LinkLostStep ==
    ASSUME IInv, NEW b \in Agents, LinkLost(b)
    PROVE  IInv'
<1>0. /\ UNCHANGED <<st, told, pairs>> /\ up' = up \ {b}
      /\ allocs' = {x \in allocs : x[2] # b}
      /\ enforce' = [t \in Streams |->
            IF enforce[t] = "armed" /\ st[t].consumer = b THEN "gone" ELSE enforce[t]]
  BY Zenon DEF LinkLost
<1>1. TypeOK'
  BY <1>0, Zenon DEF IInv, TypeOK
<1>2. Untold' /\ RecordedLate' /\ PairOwned' /\ PairHeld'
  BY <1>0, Zenon DEF IInv, Untold, RecordedLate, PairOwned, PairHeld, Pair
<1>3. Holding'
  <2>1. /\ \A t \in Streams : enforce'[t] = "armed" => enforce[t] = "armed"
        /\ allocs' \subseteq allocs
    BY <1>0, Zenon
  <2> QED
    BY <1>0, <2>1, Zenon DEF IInv, Holding
<1> QED
  BY <1>1, <1>2, <1>3, Zenon DEF IInv

\* Every step of the relay and of the agents preserves the invariant.
LEMMA NextIInv == IInv /\ [Next]_vars => IInv'
<1> SUFFICES ASSUME IInv, [Next]_vars PROVE IInv'
  OBVIOUS
<1>0. enforce \in [Streams -> {"off", "armed", "promoted", "killed", "gone"}]
  BY Zenon DEF IInv, TypeOK
<1>1. ASSUME NEW s \in Streams, ReadOpen(s) \/ Handle(s) \/ Accepted(s)
      PROVE  IInv'
  BY <1>1, OpeningStep, RecordStep, CarryingStep, LookupStep, AllocateStep, UnwindStep, Zenon DEF Handle
<1>2. ASSUME NEW s \in Streams, EnforceTick(s) \/ EnforceDeadline(s)
      PROVE  IInv'
  <2>1. UNCHANGED <<st, told, up, pairs, allocs>>
    BY <1>2, Zenon DEF EnforceTick, EnforceDeadline
  <2>2. /\ enforce' \in [Streams -> {"off", "armed", "promoted", "killed", "gone"}]
        /\ \A t \in Streams : enforce'[t] = "armed" => enforce[t] = "armed"
    BY <1>0, <1>2, Zenon DEF EnforceTick, EnforceDeadline
  <2> QED
    BY <2>1, <2>2, EnforceStep, Zenon
<1>3. ASSUME UNCHANGED <<st, told, up, pairs, enforce>>, allocs' \subseteq allocs
      PROVE  IInv'
  BY <1>0, <1>3, EnforceStep, Zenon
<1>4. ASSUME NEW s \in Streams, AgentCloses(s)
      PROVE  IInv'
  BY <1>3, <1>4, Zenon DEF AgentCloses
<1>5. ASSUME NEW id \in StreamIds, handleMigrateToP2P(id) \/ MigratedDropped(id)
      PROVE  IInv'
  BY <1>3, <1>5, Zenon DEF handleMigrateToP2P, MigratedDropped
<1>6. CASE UNCHANGED vars
  BY <1>3, <1>6, Zenon DEF vars
<1>7. ASSUME (\E x \in allocs : IdleTimeout(x)) \/ \E a \in Agents : OldLinkForgets(a)
      PROVE  IInv'
  BY <1>3, <1>7, Zenon DEF IdleTimeout, OldLinkForgets
<1> QED
  BY <1>1, <1>2, <1>4, <1>5, <1>6, <1>7, LinkLostStep, Zenon DEF Next

\* So it always holds.
LEMMA AlwaysIInv == Spec => []IInv
BY InitIInv, NextIInv, PTL DEF Spec

-----------------------------------------------------------------------------
(***************************************************************************)
(* However policy, resolution, collisions, grants and link losses          *)
(* interleave, handleConsumerStream gives its consumer one verdict.        *)
(***************************************************************************)
THEOREM OpenOneVerdict == Spec => []OneVerdict
<1>1. IInv => OneVerdict
  <2> SUFFICES ASSUME IInv, NEW s \in Streams PROVE Len(told[s]) <= 1
    BY Zenon DEF OneVerdict
  <2>1. AtMostOne(told[s])
    BY Zenon DEF IInv, Untold
  <2>2. CASE told[s] = << >>
    BY <2>2
  <2>3. ASSUME NEW w, told[s] = <<w>> PROVE Len(told[s]) <= 1
    <3>1. Len(<<w>>) = 1
      OBVIOUS
    <3> QED
      BY <2>3, <3>1
  <2> QED
    BY <2>1, <2>2, <2>3, Zenon DEF AtMostOne
<1> QED
  BY <1>1, AlwaysIInv, PTL

(***************************************************************************)
(* No allocation, enforcement or pair outlives handleConsumerStream, on    *)
(* whichever path it returns.                                              *)
(***************************************************************************)
THEOREM OpenNothingLeaks == Spec => []NothingLeaks
<1>1. IInv => NothingLeaks
  <2> SUFFICES ASSUME IInv, NEW s \in Streams, st[s].pc = "returned"
               PROVE  /\ enforce[s] # "armed"
                      /\ \A a \in Agents : <<s, a>> \notin allocs
                      /\ st[s].id \in DOMAIN pairs => \E t \in Streams :
                            st[t].id = st[s].id /\ st[t].recorded /\ st[t].pc # "returned"
    BY Zenon DEF NothingLeaks
  <2>1. enforce[s] # "armed" /\ \A a \in Agents : <<s, a>> \notin allocs
    BY Zenon DEF IInv, Holding, Post
  <2> QED
    BY <2>1, Zenon DEF IInv, PairOwned
<1> QED
  BY <1>1, AlwaysIInv, PTL

(***************************************************************************)
(* A pair stays in Server.pairs until the handler that recorded it         *)
(* returns; a stream recordPair refuses does not take it away.             *)
(***************************************************************************)
THEOREM OpenPairHeld == Spec => []PairHeld
<1>1. IInv => PairHeld
  BY Zenon DEF IInv
<1> QED
  BY <1>1, AlwaysIInv, PTL

-----------------------------------------------------------------------------
(***************************************************************************)
(* The successor list.  The two loops of Successors, over the snapshot and *)
(* inside the sort, run over data of any length: what they return is       *)
(* proved by induction, in the form of a least counterexample.             *)
(***************************************************************************)

\* A nonempty set of numbers has a least member.
LEMMA NatMin == ASSUME NEW T, T \subseteq Nat, T # {} PROVE \E x \in T : \A y \in T : x <= y
<1> DEFINE R == OpToRel(<,Nat)
<1>1. IsWellFoundedOn(R, Nat)
  BY NatLessThanWellFounded, Zenon
<1>2. \A x, y \in Nat : x < y => <<x, y>> \in R
  BY DEF OpToRel
<1> HIDE DEF R
<1>3. PICK x \in T : \A y \in T : ~(<<y, x>> \in R)
  BY <1>1, WFMin, Zenon
<1>4. ASSUME NEW y \in T PROVE x <= y
  <2>1. x \in Nat /\ y \in Nat /\ ~(y < x)
    BY <1>2, <1>3, Zenon
  <2> QED BY <2>1
<1> QED BY <1>4

\* Induction, as a set that holds zero and every successor: for the loops of fleet.go.
LEMMA Induction == 
  ASSUME NEW T, 0 \in T, \A n \in Nat : n \in T => n+1 \in T
  PROVE \A n \in Nat : n \in T
<1> DEFINE B == {n \in Nat : n \notin T}
<1> SUFFICES ASSUME B # {} PROVE FALSE
  OBVIOUS
<1>1. B \subseteq Nat
  OBVIOUS
<1>2. PICK m \in B : \A y \in B : m <= y
  BY <1>1, NatMin, Zenon
<1>3. m \in Nat /\ m # 0 /\ m - 1 \in Nat /\ m - 1 \notin B
  BY <1>2
<1> QED BY <1>3

Unfolds(f, N, V, v0, G) ==
    f \in [0 .. N -> V] /\ f[0] = v0 /\ \A i \in 1 .. N : f[i] = G[<<i, f[i - 1]>>]

\* A loop of N turns over values of V has a run: the recursive function exists.
LEMMA Recursion ==
    ASSUME NEW N \in Nat, NEW V, NEW v0 \in V, NEW G \in [(1 .. N) \X V -> V]
    PROVE  \E f : Unfolds(f, N, V, v0, G)
<1> DEFINE Good(n, f) == f[0] = v0 /\ \A i \in 1 .. n : f[i] = G[<<i, f[i - 1]>>]
           T == {n \in Nat : n <= N => \E f \in [0 .. n -> V] : Good(n, f)}
<1>1. 0 \in T
  <2> DEFINE f == [i \in 0 .. 0 |-> v0]
  <2>1. f \in [0 .. 0 -> V] /\ Good(0, f)
    OBVIOUS
  <2> QED BY <2>1, Zenon
<1>2. ASSUME NEW n \in Nat, n \in T PROVE n + 1 \in T
  <2> SUFFICES ASSUME n + 1 <= N PROVE \E f \in [0 .. n + 1 -> V] : Good(n + 1, f)
    OBVIOUS
  <2>1. PICK g \in [0 .. n -> V] : Good(n, g)
    BY <1>2
  <2> DEFINE f == [i \in 0 .. n + 1 |-> IF i = n + 1 THEN G[<<n + 1, g[n]>>] ELSE g[i]]
  <2>2. g[n] \in V /\ G[<<n + 1, g[n]>>] \in V
    OBVIOUS
  <2>3. f \in [0 .. n + 1 -> V]
    BY <2>2
  <2>4. f[0] = v0
    BY <2>1
  <2>5. ASSUME NEW i \in 1 .. n + 1 PROVE f[i] = G[<<i, f[i - 1]>>]
    <3>1. CASE i = n + 1
      <4>1. i \in 0 .. n + 1 /\ n \in 0 .. n + 1 /\ n # n + 1 /\ i - 1 = n
        BY <3>1
      <4>2. f[i] = G[<<n + 1, g[n]>>] /\ f[n] = g[n]
        BY <3>1, <4>1
      <4> QED BY <3>1, <4>1, <4>2
    <3>2. CASE i # n + 1
      <4>1. i \in 1 .. n /\ i \in 0 .. n + 1 /\ i - 1 \in 0 .. n + 1 /\ i - 1 # n + 1
        BY <3>2
      <4>2. f[i] = g[i] /\ f[i - 1] = g[i - 1]
        BY <3>2, <4>1
      <4> QED BY <2>1, <4>1, <4>2
    <3> QED BY <3>1, <3>2
  <2> QED BY <2>3, <2>4, <2>5, Zenon
<1> HIDE DEF T
<1>3. \A n \in Nat : n \in T
  BY <1>1, <1>2, Induction
<1>4. \E f \in [0 .. N -> V] : Good(N, f)
  BY <1>3 DEF T
<1> QED BY <1>4, Zenon DEF Unfolds

\* The loop over the snapshot (fleet.go), turn by turn.
LEMMA OnlyStep ==
    ASSUME NEW V, NEW s \in Seq(V), NEW S
    PROVE  \E F : /\ Only(s, S) = F[Len(s)]
                  /\ F[0] = << >>
                  /\ \A i \in 1 .. Len(s) :
                        F[i] = IF s[i] \in S THEN Append(F[i - 1], s[i]) ELSE F[i - 1]
<1> DEFINE N == Len(s)
           Step(i, v) == IF s[i] \in S THEN Append(v, s[i]) ELSE v
           G == [x \in (1 .. N) \X Seq(V) |-> Step(x[1], x[2])]
           Body(F) == [i \in 0 .. N |-> IF i = 0 THEN << >> ELSE Step(i, F[i - 1])]
           F == CHOOSE F : F = Body(F)
<1>1. N \in Nat /\ << >> \in Seq(V)
  OBVIOUS
<1>2. \A i \in 1 .. N, v \in Seq(V) : Step(i, v) \in Seq(V)
  OBVIOUS
<1>3. Only(s, S) = F[N]
  BY Zenon DEF Only
<1> HIDE DEF N, Step
<1>0. G \in [(1 .. N) \X Seq(V) -> Seq(V)]
  BY <1>2
<1>4. \A i \in 1 .. N, v \in Seq(V) : G[<<i, v>>] = Step(i, v)
  BY Zenon
<1> HIDE DEF G, F, Body
<1>11. PICK f : Unfolds(f, N, Seq(V), << >>, G)
  BY <1>0, <1>1, Recursion, Zenon
<1>5. f \in [0 .. N -> Seq(V)] /\ f[0] = << >> /\ \A i \in 1 .. N : f[i] = G[<<i, f[i - 1]>>]
  BY <1>11, Zenon DEF Unfolds
<1>6. ASSUME NEW i \in 0 .. N
      PROVE  f[i] = IF i = 0 THEN << >> ELSE Step(i, f[i - 1])
  <2>1. CASE i = 0
    BY <1>5, <2>1, Zenon
  <2>2. CASE i # 0
    <3>1. i \in 1 .. N /\ i - 1 \in 0 .. N
      BY <1>1, <2>2
    <3> QED
      BY <1>4, <1>5, <2>2, <3>1, Zenon
  <2> QED
    BY <2>1, <2>2, Zenon
<1>7. f = Body(f)
  BY <1>5, <1>6, Zenon DEF Body
<1>8. F = Body(F)
  BY <1>7, Zenon DEF F
<1>9. 0 \in 0 .. N /\ \A i \in 1 .. N : i \in 0 .. N /\ i # 0
  BY <1>1
<1>10. F[0] = << >> /\ \A i \in 1 .. N : F[i] = Step(i, F[i - 1])
  BY <1>8, <1>9, Zenon DEF Body
<1> QED
  BY <1>3, <1>10, Zenon DEF N, Step

\* What the loop over the snapshot appends: the relays of S, each once it is
\* met, in the order of the snapshot.
LEMMA OnlyFacts ==
    ASSUME NEW V, NEW s \in Seq(V), NEW S, NEW R,
           \A i, j \in 1 .. Len(s) : i < j => <<s[i], s[j]>> \in R
    PROVE  LET t == Only(s, S)
           IN  /\ t \in Seq(V)
               /\ \A x : (\E i \in 1 .. Len(t) : t[i] = x) <=> x \in S /\ \E i \in 1 .. Len(s) : s[i] = x
               /\ \A i, j \in 1 .. Len(t) : i < j => <<t[i], t[j]>> \in R
<1>1. PICK F : /\ Only(s, S) = F[Len(s)]
               /\ F[0] = << >>
               /\ \A i \in 1 .. Len(s) :
                     F[i] = IF s[i] \in S THEN Append(F[i - 1], s[i]) ELSE F[i - 1]
  BY OnlyStep
<1> DEFINE Upto(n, t) ==
             /\ t \in Seq(V)
             /\ \A i \in 1 .. Len(t) : t[i] \in S /\ \E k \in 1 .. n : s[k] = t[i]
             /\ \A k \in 1 .. n : s[k] \in S => \E i \in 1 .. Len(t) : t[i] = s[k]
             /\ \A i, j \in 1 .. Len(t) : i < j => <<t[i], t[j]>> \in R
           T == {n \in Nat : n <= Len(s) => Upto(n, F[n])}
<1>2. 0 \in T
  <2>1. << >> \in Seq(V) /\ 1 .. Len(<< >>) = {} /\ 1 .. 0 = {}
    OBVIOUS
  <2>2. Upto(0, F[0])
    BY <1>1, <2>1, Zenon
  <2> QED BY <2>2
<1>3. ASSUME NEW n \in Nat, n \in T PROVE n + 1 \in T
  <2> SUFFICES ASSUME n + 1 <= Len(s) PROVE Upto(n + 1, F[n + 1])
    OBVIOUS
  <2>1. n <= Len(s) /\ Upto(n, F[n]) /\ n + 1 \in 1 .. Len(s) /\ (n + 1) - 1 = n /\ Len(s) \in Nat
    BY <1>3
  <2>2. CASE s[n + 1] \in S
    <3>1. F[n + 1] = Append(F[n], s[n + 1])
      BY <1>1, <2>1, <2>2, Zenon
    <3> DEFINE t == F[n] u == F[n + 1] e == s[n + 1]
    <3>2. t \in Seq(V) /\ e \in V /\ u = Append(t, e) /\ Len(t) \in Nat
      BY <2>1, <3>1
    <3>3. Upto(n, t) /\ e \in S
      BY <2>1, <2>2
    <3>14. \A k \in 1 .. n : k \in 1 .. Len(s) /\ k < n + 1
      BY <2>1
    <3>4. \A k \in 1 .. n : <<s[k], e>> \in R
      BY <2>1, <3>14, Zenon
    <3>0. \A k \in 1 .. n + 1 : k \in 1 .. n \/ s[k] = e
      BY <2>1
    <3> HIDE DEF t, u, e
    <3>5. u \in Seq(V) /\ Len(u) = Len(t) + 1 /\ u[Len(t) + 1] = e /\ \A i \in 1 .. Len(t) : u[i] = t[i]
      BY <3>2
    <3>6. \A i \in 1 .. Len(u) : i \in 1 .. Len(t) \/ i = Len(t) + 1
      BY <3>2, <3>5
    <3>9. \A i \in 1 .. Len(t) : i \in 1 .. Len(u)
      BY <3>2, <3>5
    <3>10. Len(t) + 1 \in 1 .. Len(u)
      BY <3>2, <3>5
    <3>11. \A k \in 1 .. n : k \in 1 .. n + 1
      OBVIOUS
    <3>12. n + 1 \in 1 .. n + 1 /\ s[n + 1] = e
      BY DEF e
    <3>7. \A i \in 1 .. Len(u) : u[i] \in S /\ \E k \in 1 .. n + 1 : s[k] = u[i]
      BY <3>3, <3>5, <3>6, <3>11, <3>12, Zenon
    <3>8. \A k \in 1 .. n + 1 : s[k] \in S => \E i \in 1 .. Len(u) : u[i] = s[k]
      BY <3>0, <3>3, <3>5, <3>9, <3>10, Zenon
    <3>13. ASSUME NEW i \in 1 .. Len(u), NEW j \in 1 .. Len(u), i < j PROVE <<u[i], u[j]>> \in R
      <4>1. i \in 1 .. Len(t)
        BY <3>2, <3>5, <3>13
      <4>2. CASE j \in 1 .. Len(t)
        BY <3>3, <3>5, <3>13, <4>1, <4>2, Zenon
      <4>3. CASE j = Len(t) + 1
        BY <3>3, <3>4, <3>5, <4>1, <4>3, Zenon
      <4> QED BY <3>6, <4>2, <4>3, Zenon
    <3> QED BY <3>5, <3>7, <3>8, <3>13, Zenon DEF u
  <2>3. CASE s[n + 1] \notin S
    <3>1. F[n + 1] = F[n]
      BY <1>1, <2>1, <2>3
    <3>2. \A k \in 1 .. n + 1 : k \in 1 .. n \/ k = n + 1
      OBVIOUS
    <3>3. \A k \in 1 .. n : k \in 1 .. n + 1
      OBVIOUS
    <3> QED BY <2>1, <2>3, <3>1, <3>2, <3>3, Zenon
  <2> QED BY <2>2, <2>3, Zenon
<1> HIDE DEF T
<1>4. \A n \in Nat : n \in T
  BY <1>2, <1>3, Induction, Zenon
<1>5. Len(s) \in Nat /\ Len(s) <= Len(s)
  OBVIOUS
<1>6. Upto(Len(s), Only(s, S))
  BY <1>1, <1>4, <1>5 DEF T
<1> QED
  BY <1>6, Zenon

Sorts(p, n, s) ==
    /\ p \in Bijection(1 .. n, 1 .. n)
    /\ \A i, j \in 1 .. n : i < j => s[p[i]] <= s[p[j]]

\* A sorted prefix takes one more id at its place.
LEMMA Insertion ==
    ASSUME NEW n \in Nat, NEW s \in [1 .. n + 1 -> Int], NEW p, Sorts(p, n, [i \in 1 .. n |-> s[i]])
    PROVE  \E q : Sorts(q, n + 1, s)
<1>1. /\ \A i \in 1 .. n : p[i] \in 1 .. n
      /\ \A i, j \in 1 .. n : p[i] = p[j] => i = j
      /\ \A t \in 1 .. n : \E i \in 1 .. n : p[i] = t
  BY Zenon DEF Sorts, Bijection, Injection, Surjection, IsInjective
<1>2. \A i, j \in 1 .. n : i < j => s[p[i]] <= s[p[j]]
  BY <1>1, Zenon DEF Sorts
<1>a. \A x \in 1 .. n : x \in 1 .. n + 1 /\ x # n + 1
  OBVIOUS
<1>b. \A i \in 1 .. n : p[i] \in 1 .. n + 1 /\ p[i] # n + 1 /\ s[p[i]] \in Int
  BY <1>1, <1>a, Zenon
<1>c. n + 1 \in 1 .. n + 1 /\ s[n + 1] \in Int
  OBVIOUS
<1> DEFINE B == {j \in 1 .. n + 1 : j = n + 1 \/ s[p[j]] > s[n + 1]}
<1>3. B \subseteq Nat /\ n + 1 \in B
  OBVIOUS
<1>4. PICK m \in B : \A y \in B : m <= y
  BY <1>3, NatMin, Zenon
<1>5. m \in 1 .. n + 1
  OBVIOUS
<1>6. ASSUME NEW i \in 1 .. n PROVE IF i < m THEN s[p[i]] <= s[n + 1] ELSE s[n + 1] <= s[p[i]]
  <2>1. s[p[i]] \in Int /\ s[n + 1] \in Int /\ i \in 1 .. n + 1
    BY <1>a, <1>b, <1>c, Zenon
  <2>2. CASE i < m
    <3>1. i \notin B
      BY <1>4, <1>5, <2>2
    <3> QED BY <2>1, <2>2, <3>1
  <2>3. CASE ~(i < m)
    <3>0. m \in 1 .. n /\ m # n + 1
      BY <1>5, <2>3
    <3>1. m \in 1 .. n /\ s[p[m]] > s[n + 1] /\ s[p[m]] \in Int
      BY <1>b, <3>0, Zenon
    <3>2. m = i \/ s[p[m]] <= s[p[i]]
      BY <1>2, <1>5, <2>3, <3>1
    <3> QED BY <2>1, <2>3, <3>1, <3>2
  <2> QED BY <2>2, <2>3
<1> HIDE DEF B
<1> DEFINE q == [i \in 1 .. n + 1 |-> IF i < m THEN p[i] ELSE IF i = m THEN n + 1 ELSE p[i - 1]]
<1>7. \A i \in 1 .. n + 1 : /\ i < m => i \in 1 .. n
                            /\ i > m => i - 1 \in 1 .. n
  BY <1>5
<1>8. \A i \in 1 .. n + 1 : (i = m => ~(i < m)) /\ (i > m => ~(i < m) /\ i # m) /\ (i < m \/ i = m \/ i > m)
  BY <1>5
<1>d. \A i \in 1 .. n + 1 :
         \/ i < m /\ i \in 1 .. n /\ q[i] = p[i]
         \/ i = m /\ q[i] = n + 1
         \/ i > m /\ i - 1 \in 1 .. n /\ q[i] = p[i - 1]
  BY <1>7, <1>8, Zenon
<1>e. q \in [1 .. n + 1 -> 1 .. n + 1]
  <2>1. ASSUME NEW i \in 1 .. n + 1
        PROVE  (IF i < m THEN p[i] ELSE IF i = m THEN n + 1 ELSE p[i - 1]) \in 1 .. n + 1
    BY <1>b, <1>c, <1>7, <1>8, Zenon
  <2> QED BY <2>1, Zenon
<1> HIDE DEF q
<1>9. ASSUME NEW i \in 1 .. n + 1, NEW j \in 1 .. n + 1, q[i] = q[j], i < j
      PROVE  FALSE
  <2>1. ~(i < m /\ j > m /\ i = j - 1) /\ i - 1 # j - 1 /\ i # j /\ ~(i = m /\ j = m) /\ ~(i = m /\ j < m)
        /\ ~(i > m /\ j = m) /\ ~(i > m /\ j < m)
    BY <1>5, <1>9
  <2>2. CASE i < m /\ i \in 1 .. n /\ q[i] = p[i]
    <3>1. CASE j < m /\ j \in 1 .. n /\ q[j] = p[j]
      <4>1. p[i] = p[j]
        BY <1>9, <2>2, <3>1, Zenon
      <4> QED BY <1>1, <2>1, <2>2, <3>1, <4>1, Zenon
    <3>2. CASE j = m /\ q[j] = n + 1
      BY <1>b, <1>9, <2>2, <3>2, Zenon
    <3>3. CASE j > m /\ j - 1 \in 1 .. n /\ q[j] = p[j - 1]
      <4>1. p[i] = p[j - 1]
        BY <1>9, <2>2, <3>3, Zenon
      <4> QED BY <1>1, <2>1, <2>2, <3>3, <4>1, Zenon
    <3> QED BY <1>d, <3>1, <3>2, <3>3, Zenon
  <2>3. CASE i = m /\ q[i] = n + 1
    BY <1>b, <1>d, <1>9, <2>1, <2>3, Zenon
  <2>4. CASE i > m /\ i - 1 \in 1 .. n /\ q[i] = p[i - 1]
    BY <1>1, <1>d, <1>9, <2>1, <2>4, Zenon
  <2> QED BY <1>d, <2>2, <2>3, <2>4, Zenon
<1>10. ASSUME NEW t \in 1 .. n + 1
       PROVE  \E i \in 1 .. n + 1 : q[i] = t
  <2>1. CASE t = n + 1
    <3>1. ~(m < m) /\ ~(m > m)
      BY <1>5
    <3> QED BY <1>5, <1>d, <2>1, <3>1, Zenon
  <2>2. CASE t \in 1 .. n
    <3>1. PICK i \in 1 .. n : p[i] = t
      BY <1>1, <2>2, Zenon
    <3>2. i \in 1 .. n + 1 /\ i + 1 \in 1 .. n + 1 /\ (i + 1) - 1 = i
      OBVIOUS
    <3>3. (i < m /\ ~(i = m) /\ ~(i > m)) \/ (i + 1 > m /\ ~(i + 1 = m) /\ ~(i + 1 < m))
      BY <1>5
    <3> QED BY <1>d, <3>1, <3>2, <3>3, Zenon
  <2> QED BY <2>1, <2>2
<1>11. ASSUME NEW i \in 1 .. n + 1, NEW j \in 1 .. n + 1, i < j
       PROVE  s[q[i]] <= s[q[j]]
  <2>0. /\ ~(i = m /\ j < m) /\ ~(i = m /\ j = m) /\ ~(i > m /\ j = m) /\ ~(i > m /\ j < m)
        /\ j > m => ~(j - 1 < m)
        /\ i - 1 < j - 1
    BY <1>5, <1>11
  <2>1. CASE i < m /\ i \in 1 .. n /\ q[i] = p[i]
    <3>1. CASE j < m /\ j \in 1 .. n /\ q[j] = p[j]
      BY <1>2, <1>11, <2>1, <3>1, Zenon
    <3>2. CASE j = m /\ q[j] = n + 1
      BY <1>6, <2>1, <3>2, Zenon
    <3>3. CASE j > m /\ j - 1 \in 1 .. n /\ q[j] = p[j - 1]
      <4>1. s[p[i]] <= s[n + 1] /\ s[n + 1] <= s[p[j - 1]]
        BY <1>6, <2>0, <2>1, <3>3, Zenon
      <4>2. s[p[i]] \in Int /\ s[n + 1] \in Int /\ s[p[j - 1]] \in Int
        BY <1>b, <1>c, <2>1, <3>3, Zenon
      <4> QED BY <2>1, <3>3, <4>1, <4>2
    <3> QED BY <1>d, <3>1, <3>2, <3>3, Zenon
  <2>2. CASE i = m /\ q[i] = n + 1
    BY <1>6, <1>d, <2>0, <2>2, Zenon
  <2>3. CASE i > m /\ i - 1 \in 1 .. n /\ q[i] = p[i - 1]
    BY <1>2, <1>d, <2>0, <2>3, Zenon
  <2> QED BY <1>d, <2>1, <2>2, <2>3, Zenon
<1>13. ASSUME NEW i \in 1 .. n + 1, NEW j \in 1 .. n + 1, q[i] = q[j]
       PROVE  i = j
  <2>1. i < j \/ j < i \/ i = j
    OBVIOUS
  <2> QED BY <1>9, <1>13, <2>1, Zenon
<1>12. q \in Bijection(1 .. n + 1, 1 .. n + 1)
  BY <1>e, <1>10, <1>13, Zenon DEF Bijection, Injection, Surjection, IsInjective
<1> QED BY <1>11, <1>12, Zenon DEF Sorts

\* Every list of ids can be sorted.
LEMMA SortExists ==
    ASSUME NEW n \in Nat, NEW s \in [1 .. n -> Int]
    PROVE  \E p : Sorts(p, n, s)
<1> DEFINE T == {k \in Nat : \A r \in [1 .. k -> Int] : \E p : Sorts(p, k, r)}
<1>1. 0 \in T
  <2>1. 1 .. 0 = {}
    OBVIOUS
  <2>2. \A r : Sorts([i \in {} |-> 0], 0, r)
    BY <2>1 DEF Sorts, Bijection, Injection, Surjection, IsInjective
  <2> QED BY <2>2
<1>2. ASSUME NEW k \in Nat, k \in T PROVE k + 1 \in T
  <2> SUFFICES ASSUME NEW r \in [1 .. k + 1 -> Int] PROVE \E q : Sorts(q, k + 1, r)
    OBVIOUS
  <2>1. [i \in 1 .. k |-> r[i]] \in [1 .. k -> Int]
    OBVIOUS
  <2>2. PICK p : Sorts(p, k, [i \in 1 .. k |-> r[i]])
    BY <1>2, <2>1, Zenon
  <2> QED BY <2>2, Insertion, Zenon
<1> HIDE DEF T
<1>3. n \in T
  BY <1>1, <1>2, Induction, Zenon
<1> QED BY <1>3 DEF T

\* slices.SortFunc on a list without repetitions: the same ids, increasing.
LEMMA SortByIdFacts ==
    ASSUME NEW V, V \subseteq Int, NEW s \in Seq(V),
           \A i, j \in 1 .. Len(s) : i < j => s[i] # s[j]
    PROVE  LET t == SortById(s)
           IN  /\ t \in Seq(V) /\ Len(t) = Len(s)
               /\ \A x : (\E i \in 1 .. Len(s) : t[i] = x) <=> (\E i \in 1 .. Len(s) : s[i] = x)
               /\ \A i, j \in 1 .. Len(s) : i < j => t[i] < t[j]
<1> DEFINE n == Len(s)
           p == CHOOSE p \in Bijection(DOMAIN s, DOMAIN s) :
                    \A i, j \in DOMAIN s : i < j => s[p[i]] <= s[p[j]]
           t == [i \in 1 .. n |-> s[p[i]]]
<1>1. n \in Nat /\ DOMAIN s = 1 .. n /\ s \in [1 .. n -> Int] /\ s \in [1 .. n -> V]
  <2>1. n \in Nat /\ DOMAIN s = 1 .. n /\ s \in [1 .. n -> V]
    OBVIOUS
  <2>2. s \in [1 .. n -> Int]
    BY <2>1, Zenon
  <2> QED BY <2>1, <2>2, Zenon
<1>2. SortById(s) = t
  BY <1>1, Zenon DEF SortById
<1>3. \E p_1 \in Bijection(1 .. n, 1 .. n) : \A i, j \in 1 .. n : i < j => s[p_1[i]] <= s[p_1[j]]
  BY <1>1, SortExists, Zenon DEF Sorts
<1>4. p \in Bijection(1 .. n, 1 .. n) /\ \A i, j \in 1 .. n : i < j => s[p[i]] <= s[p[j]]
  BY <1>1, <1>3, Zenon
<1> HIDE DEF p
<1>5. /\ \A i \in 1 .. n : p[i] \in 1 .. n
      /\ \A i, j \in 1 .. n : p[i] = p[j] => i = j
      /\ \A k \in 1 .. n : \E i \in 1 .. n : p[i] = k
  BY <1>4, Zenon DEF Bijection, Injection, Surjection, IsInjective
<1>6. \A i, j \in 1 .. n : i # j => s[i] # s[j]
  <2>1. \A i, j \in 1 .. n : i # j => i < j \/ j < i
    BY <1>1
  <2> QED BY <2>1, Zenon
<1> HIDE DEF n
<1>7. t \in Seq(V) /\ Len(t) = n /\ \A i \in 1 .. n : t[i] = s[p[i]]
  <2>1. \A i \in 1 .. n : s[p[i]] \in V
    BY <1>1, <1>5, Zenon
  <2>2. t = [i \in 1 .. n |-> t[i]] /\ \A i \in 1 .. n : t[i] = s[p[i]] /\ t[i] \in V
    BY <2>1, Zenon
  <2> HIDE DEF t
  <2>3. n \in Nat /\ \A i \in 1 .. n : t[i] \in V
    BY <1>1, <2>2, Zenon
  <2>4. [i \in 1 .. n |-> t[i]] \in Seq(V) /\ Len([i \in 1 .. n |-> t[i]]) = n
    BY <2>3
  <2> QED BY <2>2, <2>4, Zenon
<1> HIDE DEF t
<1>8. ASSUME NEW i \in 1 .. n, NEW j \in 1 .. n, i < j PROVE t[i] < t[j]
  <2>1. i # j /\ s[p[i]] <= s[p[j]]
    BY <1>1, <1>4, <1>8
  <2>2. p[i] # p[j] /\ s[p[i]] # s[p[j]]
    BY <1>5, <1>6, <2>1, Zenon
  <2>3. s[p[i]] \in Int /\ s[p[j]] \in Int
    BY <1>1, <1>5, Zenon
  <2> QED BY <1>7, <2>1, <2>2, <2>3
<1>9. ASSUME NEW x PROVE (\E i \in 1 .. n : t[i] = x) <=> (\E i \in 1 .. n : s[i] = x)
  <2>1. ASSUME NEW i \in 1 .. n, t[i] = x PROVE \E k \in 1 .. n : s[k] = x
    BY <1>5, <1>7, <2>1, Zenon
  <2>2. ASSUME NEW k \in 1 .. n, s[k] = x PROVE \E i \in 1 .. n : t[i] = x
    <3>1. PICK i \in 1 .. n : p[i] = k
      BY <1>5, Zenon
    <3>2. t[i] = s[p[i]]
      BY <1>7, Zenon
    <3> QED BY <2>2, <3>1, <3>2, Zenon
  <2> QED BY <2>1, <2>2, Zenon
<1> QED BY <1>2, <1>7, <1>8, <1>9, Zenon DEF n

\* Two lists of the same relays in one strict order are equal, which is why
\* the order of the snapshot does not show in what is advertised.
LEMMA SortedUnique ==
    ASSUME NEW V, NEW R, \A x, y \in V : ~(<<x, y>> \in R /\ <<y, x>> \in R),
           NEW s \in Seq(V), NEW t \in Seq(V),
           \A i, j \in 1 .. Len(s) : i < j => <<s[i], s[j]>> \in R,
           \A i, j \in 1 .. Len(t) : i < j => <<t[i], t[j]>> \in R,
           \A x : (\E i \in 1 .. Len(s) : s[i] = x) <=> (\E i \in 1 .. Len(t) : t[i] = x)
    PROVE  s = t
<1> DEFINE m == Len(s) n == Len(t)
           Differ == {i \in 1 .. m : i \in 1 .. n /\ s[i] # t[i]}
<1>0. m \in Nat /\ n \in Nat /\ (\A i \in 1 .. m : s[i] \in V) /\ (\A i \in 1 .. n : t[i] \in V)
  OBVIOUS
<1>00. /\ \A i \in 1 .. m : \E j \in 1 .. n : t[j] = s[i]
       /\ \A i \in 1 .. n : \E j \in 1 .. m : s[j] = t[i]
  BY Zenon
<1>1. Differ = {}
  <2> SUFFICES ASSUME Differ # {} PROVE FALSE
    OBVIOUS
  <2>1. PICK k \in Differ : \A y \in Differ : k <= y
    <3>1. Differ \subseteq Nat
      BY <1>0
    <3> QED BY <3>1, NatMin, Zenon
  <2>2. k \in 1 .. m /\ k \in 1 .. n /\ s[k] # t[k]
    BY <2>1
  <2>3. \A i \in 1 .. m : i < k => i \in 1 .. n /\ s[i] = t[i]
    BY <1>0, <2>1, <2>2
  <2>4. PICK j \in 1 .. n : t[j] = s[k]
    BY <1>00, <2>2, Zenon
  <2>5. PICK i \in 1 .. m : s[i] = t[k]
    BY <1>00, <2>2, Zenon
  <2>6. k < j
    <3>1. j # k
      BY <2>2, <2>4
    <3>2. ASSUME j < k PROVE FALSE
      <4>1. j \in 1 .. m
        BY <1>0, <2>2, <3>2
      <4>2. s[j] = s[k] /\ <<s[j], s[k]>> \in R
        BY <2>2, <2>3, <2>4, <3>2, <4>1
      <4> QED BY <1>0, <2>2, <4>2
    <3> QED BY <1>0, <2>2, <3>1, <3>2
  <2>7. k < i
    <3>1. i # k
      BY <2>2, <2>5
    <3>2. ASSUME i < k PROVE FALSE
      <4>1. i \in 1 .. n /\ t[i] = t[k]
        BY <2>3, <2>5, <3>2
      <4>2. <<t[i], t[k]>> \in R
        BY <2>2, <3>2, <4>1
      <4> QED BY <1>0, <2>2, <4>1, <4>2
    <3> QED BY <1>0, <2>2, <3>1, <3>2
  <2>8. <<s[k], s[i]>> \in R /\ <<t[k], t[j]>> \in R
    BY <2>2, <2>6, <2>7
  <2> QED BY <1>0, <2>2, <2>4, <2>5, <2>8
<1>2. ~(m < n)
  <2> SUFFICES ASSUME m < n PROVE FALSE
    OBVIOUS
  <2>1. m + 1 \in 1 .. n
    BY <1>0
  <2>2. PICK j \in 1 .. m : s[j] = t[m + 1]
    BY <1>00, <2>1, Zenon
  <2>3. j \in 1 .. n /\ j < m + 1
    BY <1>0
  <2>4. t[j] = t[m + 1] /\ <<t[j], t[m + 1]>> \in R
    BY <1>1, <2>1, <2>2, <2>3
  <2> QED BY <1>0, <2>1, <2>4
<1>3. ~(n < m)
  <2> SUFFICES ASSUME n < m PROVE FALSE
    OBVIOUS
  <2>1. n + 1 \in 1 .. m
    BY <1>0
  <2>2. PICK j \in 1 .. n : t[j] = s[n + 1]
    BY <1>00, <2>1
  <2>3. j \in 1 .. m /\ j < n + 1
    BY <1>0
  <2>4. s[j] = s[n + 1] /\ <<s[j], s[n + 1]>> \in R
    BY <1>1, <2>1, <2>2, <2>3
  <2> QED BY <1>0, <2>1, <2>4
<1>4. m = n
  BY <1>0, <1>2, <1>3
<1>5. \A i \in 1 .. m : s[i] = t[i]
  BY <1>1, <1>4
<1> QED BY <1>4, <1>5

\* The order the comment of Successors asks for, as a relation.
Order(self) == {x \in Relays \X Relays : Before(self, x[1], x[2])}

\* A snapshot of the fleet F: every relay of F, once, in some order.
LEMMA SnapshotFacts ==
    ASSUME NEW F \in SUBSET Relays, NEW f \in Orderings(F)
    PROVE  /\ f \in Seq(Relays)
           /\ \A x : (\E i \in 1 .. Len(f) : f[i] = x) <=> x \in F
           /\ \A i, j \in 1 .. Len(f) : i < j => f[i] # f[j]
<1> DEFINE n == Cardinality(F) D == 1 .. n
<1>1. IsFiniteSet(F) /\ n \in Nat
  BY FS_Subset, FS_CardinalityType, FleetConstants, Zenon
<1>2. f \in [D -> F] /\ \A i, j \in D : i # j => f[i] # f[j]
  BY Zenon DEF Orderings, Injection, IsInjective
<1>3. f \in Injection(D, F)
  BY Zenon DEF Orderings
<1>4. IsFiniteSet(D) /\ Cardinality(D) = n
  BY <1>1, FS_Interval
<1>5. f \in Surjection(D, F)
  BY <1>1, <1>3, <1>4, FS_Injection, Zenon
<1> HIDE DEF n
<1>0. f \in [D -> Relays]
  BY <1>2, Zenon
<1>6. f \in Seq(Relays) /\ Len(f) = n
  <2>1. f = [i \in 1 .. n |-> f[i]] /\ \A i \in 1 .. n : f[i] \in Relays
    BY <1>0, Zenon
  <2>2. [i \in 1 .. n |-> f[i]] \in Seq(Relays) /\ Len([i \in 1 .. n |-> f[i]]) = n
    BY <1>1, <2>1
  <2> QED BY <2>1, <2>2, Zenon
<1>7. \A x : (\E i \in D : f[i] = x) <=> x \in F
  <2>1. \A x \in F : \E i \in D : f[i] = x
    BY <1>5, Zenon DEF Surjection
  <2>2. \A i \in D : f[i] \in F
    BY <1>2, Zenon
  <2> HIDE DEF D
  <2> QED BY <2>1, <2>2, Zenon
<1>8. \A i, j \in D : i < j => f[i] # f[j]
  <2>1. \A i, j \in D : i < j => i # j
    BY <1>1
  <2> QED BY <1>2, <2>1, Zenon
<1> QED BY <1>6, <1>7, <1>8, Zenon

\* One group of Successors: the relays of the fleet that are in S, by id.
LEMMA GroupFacts ==
    ASSUME NEW F \in SUBSET Relays, NEW f \in Orderings(F), NEW S
    PROVE  LET t == SortById(Only(f, S))
           IN  /\ t \in Seq(Relays)
               /\ \A x : (\E i \in 1 .. Len(t) : t[i] = x) <=> x \in F /\ x \in S
               /\ \A i, j \in 1 .. Len(t) : i < j => t[i] < t[j]
<1> DEFINE R == {x \in Relays \X Relays : x[1] # x[2]}
           o == Only(f, S)
           t == SortById(o)
<1>1. /\ f \in Seq(Relays)
      /\ \A x : (\E i \in 1 .. Len(f) : f[i] = x) <=> x \in F
      /\ \A i, j \in 1 .. Len(f) : i < j => f[i] # f[j]
  BY SnapshotFacts, Zenon
<1>2. \A i, j \in 1 .. Len(f) : i < j => <<f[i], f[j]>> \in R
  BY <1>1
<1>3. \A x, y : <<x, y>> \in R => x # y
  OBVIOUS
<1> HIDE DEF R
<1>4. /\ o \in Seq(Relays)
      /\ \A x : (\E i \in 1 .. Len(o) : o[i] = x) <=> x \in S /\ \E i \in 1 .. Len(f) : f[i] = x
      /\ \A i, j \in 1 .. Len(o) : i < j => <<o[i], o[j]>> \in R
  BY <1>1, <1>2, OnlyFacts, Zenon
<1>5. Relays \subseteq Int
  BY FleetConstants
<1> HIDE DEF o
<1>6. \A i, j \in 1 .. Len(o) : i < j => o[i] # o[j]
  BY <1>3, <1>4, Zenon
<1>7. /\ t \in Seq(Relays) /\ Len(t) = Len(o)
      /\ \A x : (\E i \in 1 .. Len(o) : t[i] = x) <=> (\E i \in 1 .. Len(o) : o[i] = x)
      /\ \A i, j \in 1 .. Len(o) : i < j => t[i] < t[j]
  BY <1>4, <1>5, <1>6, SortByIdFacts, Zenon
<1> HIDE DEF t
<1>8. /\ t \in Seq(Relays)
      /\ \A x : (\E i \in 1 .. Len(t) : t[i] = x) <=> x \in F /\ x \in S
      /\ \A i, j \in 1 .. Len(t) : i < j => t[i] < t[j]
  BY <1>1, <1>4, <1>7, Zenon
<1> QED BY <1>8, Zenon DEF t, o

\* Successors: the others with an endpoint, in the documented order, and
\* nothing else, whatever the order of the snapshot.
LEMMA SuccessorsFacts ==
    ASSUME NEW self \in Relays, NEW F \in SUBSET Relays, NEW f \in Orderings(F)
    PROVE  LET t == Successors(self, f)
           IN  /\ t \in Seq(Relays)
               /\ \A x : (\E i \in 1 .. Len(t) : t[i] = x) <=> x \in F /\ x \in Listed(self)
               /\ \A i, j \in 1 .. Len(t) : i < j => <<t[i], t[j]>> \in Order(self)
<1> DEFINE same == {r \in Listed(self) : RegionOf[r] = RegionOf[self]}
           other == {r \in Listed(self) : RegionOf[r] # RegionOf[self]}
           a == SortById(Only(f, same))
           b == SortById(Only(f, other))
           t == a \o b
<1>1. Successors(self, f) = t
  BY Zenon DEF Successors
<1>2. /\ a \in Seq(Relays)
      /\ \A x : (\E i \in 1 .. Len(a) : a[i] = x) <=> x \in F /\ x \in same
      /\ \A i, j \in 1 .. Len(a) : i < j => a[i] < a[j]
  BY GroupFacts, Zenon
<1>3. /\ b \in Seq(Relays)
      /\ \A x : (\E i \in 1 .. Len(b) : b[i] = x) <=> x \in F /\ x \in other
      /\ \A i, j \in 1 .. Len(b) : i < j => b[i] < b[j]
  BY GroupFacts, Zenon
<1> HIDE DEF a, b
<1> DEFINE m == Len(a) n == Len(b)
<1>4. m \in Nat /\ n \in Nat
  BY <1>2, <1>3
<1>5. /\ t \in Seq(Relays) /\ Len(t) = m + n
      /\ \A i \in 1 .. m : t[i] = a[i]
      /\ \A i \in 1 .. n : t[m + i] = b[i]
  BY <1>2, <1>3
<1> HIDE DEF t
<1>6. \A i \in 1 .. m + n : i \in 1 .. m \/ (i > m /\ i - m \in 1 .. n /\ m + (i - m) = i)
  BY <1>4
<1>7. (\A i \in 1 .. m : i \in 1 .. m + n) /\ (\A i \in 1 .. n : m + i \in 1 .. m + n)
  BY <1>4
<1>d. \A i \in 1 .. m + n : \/ i \in 1 .. m /\ t[i] = a[i]
                            \/ i > m /\ i - m \in 1 .. n /\ t[i] = b[i - m]
  BY <1>5, <1>6, Zenon
<1>8. ASSUME NEW x PROVE (\E i \in 1 .. m + n : t[i] = x) <=> x \in F /\ x \in Listed(self)
  <2>1. x \in same \/ x \in other <=> x \in Listed(self)
    OBVIOUS
  <2>2. (\E i \in 1 .. m + n : t[i] = x) <=> (\E i \in 1 .. m : a[i] = x) \/ (\E i \in 1 .. n : b[i] = x)
    BY <1>5, <1>7, <1>d, Zenon
  <2> HIDE DEF same, other, m, n
  <2> QED BY <1>2, <1>3, <2>1, <2>2, Zenon DEF m, n
<1>a. \A x, y \in same \cap F : x < y => <<x, y>> \in Order(self)
  BY Zenon DEF Order, Before
<1>b. \A x, y \in other \cap F : x < y => <<x, y>> \in Order(self)
  BY Zenon DEF Order, Before
<1>c. \A x \in same \cap F, y \in other \cap F : <<x, y>> \in Order(self)
  BY Zenon DEF Order, Before
<1>e. (\A i \in 1 .. m : a[i] \in same \cap F) /\ (\A i \in 1 .. n : b[i] \in other \cap F)
  BY <1>2, <1>3, Zenon
<1> HIDE DEF same, other
<1>9. ASSUME NEW i \in 1 .. m + n, NEW j \in 1 .. m + n, i < j
      PROVE  <<t[i], t[j]>> \in Order(self)
  <2>1. ~(i > m /\ j \in 1 .. m) /\ i - m < j - m
    BY <1>4, <1>9
  <2>2. CASE i \in 1 .. m /\ t[i] = a[i]
    <3>1. CASE j \in 1 .. m /\ t[j] = a[j]
      <4>1. a[i] < a[j]
        BY <1>2, <1>9, <2>2, <3>1, Zenon
      <4> QED BY <1>a, <1>e, <2>2, <3>1, <4>1, Zenon
    <3>2. CASE j > m /\ j - m \in 1 .. n /\ t[j] = b[j - m]
      BY <1>c, <1>e, <2>2, <3>2, Zenon
    <3> QED BY <1>d, <3>1, <3>2, Zenon
  <2>3. CASE i > m /\ i - m \in 1 .. n /\ t[i] = b[i - m]
    <3>1. j > m /\ j - m \in 1 .. n /\ t[j] = b[j - m]
      BY <1>d, <2>1, <2>3, Zenon
    <3>2. b[i - m] < b[j - m]
      BY <1>3, <2>1, <2>3, <3>1, Zenon
    <3> QED BY <1>b, <1>e, <2>3, <3>1, <3>2, Zenon
  <2> QED BY <1>d, <2>2, <2>3, Zenon
<1> QED BY <1>1, <1>5, <1>8, <1>9, Zenon

\* The order is strict: no two relays each come before the other in it.
LEMMA OrderStrict ==
    ASSUME NEW self PROVE \A x, y \in Relays : ~(<<x, y>> \in Order(self) /\ <<y, x>> \in Order(self))
<1> SUFFICES ASSUME NEW x \in Relays, NEW y \in Relays, Before(self, x, y), Before(self, y, x) PROVE FALSE
  BY Zenon DEF Order
<1>1. x \in Int /\ y \in Int
  BY FleetConstants
<1>2. ~(x < y /\ y < x)
  BY <1>1
<1> QED BY <1>2, Zenon DEF Before

\* The relays of S in the order of this relay.
Ranked(t, self, S) ==
    /\ t \in Seq(Relays)
    /\ \A x : (\E i \in 1 .. Len(t) : t[i] = x) <=> x \in S
    /\ \A i, j \in 1 .. Len(t) : i < j => <<t[i], t[j]>> \in Order(self)

\* What relay a advertises, without b: the rest of the fleet in a's order.
LEMMA RestFacts ==
    ASSUME NEW a \in Relays, NEW b \in Relays, NEW F \in SUBSET Relays, NEW f \in Orderings(F)
    PROVE  Ranked(Only(Successors(a, f), Relays \ {b}), a, (F \ NoEndpoint) \ {a, b})
<1> DEFINE u == Successors(a, f) t == Only(u, Relays \ {b})
<1>1. /\ u \in Seq(Relays)
      /\ \A x : (\E i \in 1 .. Len(u) : u[i] = x) <=> x \in F /\ x \in Listed(a)
      /\ \A i, j \in 1 .. Len(u) : i < j => <<u[i], u[j]>> \in Order(a)
  BY SuccessorsFacts, Zenon
<1> HIDE DEF u
<1>2. /\ t \in Seq(Relays)
      /\ \A x : (\E i \in 1 .. Len(t) : t[i] = x) <=> x \in Relays \ {b} /\ \E i \in 1 .. Len(u) : u[i] = x
      /\ \A i, j \in 1 .. Len(t) : i < j => <<t[i], t[j]>> \in Order(a)
  BY <1>1, OnlyFacts, Zenon
<1> HIDE DEF t
<1>3. \A x : x \in (F \ NoEndpoint) \ {a, b} <=> x \in Relays \ {b} /\ x \in F /\ x \in Listed(a)
  BY Zenon DEF Listed
<1>4. \A x : (\E i \in 1 .. Len(t) : t[i] = x) <=> x \in (F \ NoEndpoint) \ {a, b}
  BY <1>1, <1>2, <1>3, Zenon
<1> QED BY <1>2, <1>4, Zenon DEF t, u, Ranked

\* The order determines the list Successors returns for a set of relays.
LEMMA RankedUnique ==
    ASSUME NEW self, NEW S, NEW s, NEW t, Ranked(s, self, S), Ranked(t, self, S)
    PROVE  s = t
<1>1. \A x, y \in Relays : ~(<<x, y>> \in Order(self) /\ <<y, x>> \in Order(self))
  BY OrderStrict, Zenon
<1>2. \A x : (\E i \in 1 .. Len(s) : s[i] = x) <=> (\E i \in 1 .. Len(t) : t[i] = x)
  BY Zenon DEF Ranked
<1>3. /\ s \in Seq(Relays) /\ \A i, j \in 1 .. Len(s) : i < j => <<s[i], s[j]>> \in Order(self)
      /\ t \in Seq(Relays) /\ \A i, j \in 1 .. Len(t) : i < j => <<t[i], t[j]>> \in Order(self)
  BY Zenon DEF Ranked
<1> QED BY <1>1, <1>2, <1>3, SortedUnique, Zenon

(***************************************************************************)
(* "All relays in a region produce the same order for the same fleet": two *)
(* relays of a region derive, from any two snapshots of a fleet, the same  *)
(* list of the others, for fleets of any size over any number of regions.  *)
(***************************************************************************)
THEOREM SuccessorsAgree == RegionsAgree
<1> SUFFICES ASSUME NEW F \in SUBSET Relays, NEW a \in F, NEW b \in F, RegionOf[a] = RegionOf[b]
             PROVE  Cardinality({Only(Successors(a, f), Relays \ {b}) : f \in Orderings(F)}
                          \cup {Only(Successors(b, f), Relays \ {a}) : f \in Orderings(F)}) = 1
  BY Zenon DEF RegionsAgree
<1> DEFINE A == {Only(Successors(a, f), Relays \ {b}) : f \in Orderings(F)}
           B == {Only(Successors(b, f), Relays \ {a}) : f \in Orderings(F)}
           S == (F \ NoEndpoint) \ {a, b}
<1>1. PICK g : g \in Orderings(F)
  <2>1. IsFiniteSet(F)
    BY FS_Subset, FleetConstants, Zenon
  <2>2. PICK g : g \in Bijection(1 .. Cardinality(F), F)
    BY <2>1, FS_CardinalityType, Zenon DEF ExistsBijection
  <2> QED BY <2>2, Zenon DEF Bijection, Injection, IsInjective, Orderings
<1> DEFINE l == Only(Successors(a, g), Relays \ {b})
<1>0. a \in Relays /\ b \in Relays
  OBVIOUS
<1>2. \A x \in A : Ranked(x, a, S)
  <2>1. ASSUME NEW f \in Orderings(F) PROVE Ranked(Only(Successors(a, f), Relays \ {b}), a, S)
    BY <1>0, RestFacts, Zenon
  <2> QED BY <2>1, Zenon
<1>3. \A x \in B : Ranked(x, a, S)
  <2>1. Order(a) = Order(b) /\ S = (F \ NoEndpoint) \ {b, a}
    BY Zenon DEF Order, Before
  <2>2. \A x : Ranked(x, b, S) => Ranked(x, a, S)
    BY <2>1, Zenon DEF Ranked
  <2>3. \A x \in B : Ranked(x, b, (F \ NoEndpoint) \ {b, a})
    BY <1>0, RestFacts, Zenon
  <2> QED BY <2>1, <2>2, <2>3, Zenon
<1>4. l \in A
  BY <1>1, Zenon
<1> HIDE DEF A, B, l, S
<1>5. \A x \in A \cup B : x = l
  BY <1>2, <1>3, <1>4, RankedUnique, Zenon
<1>6. A \cup B = {l}
  BY <1>4, <1>5, Zenon
<1>7. Cardinality(A \cup B) = 1
  BY <1>6, FS_Singleton, Zenon
<1> QED BY <1>7, Zenon DEF A, B

-----------------------------------------------------------------------------
(* Heartbeats beside the handlers *)

\* What SetSuccessors was given last comes from a snapshot of some fleet.
Advertised == \E F \in SUBSET Relays : \E f \in Orderings(F) : successors = Successors(Self, f)

FleetInv == IInv /\ HalvesAgree /\ Advertised

\* An advertised list is told apart from no list at all.
LEMMA AdvertisedIsList == Advertised => successors # NoList
<1> SUFFICES ASSUME NEW F \in SUBSET Relays, NEW f \in Orderings(F), successors = Successors(Self, f),
                    successors = NoList
             PROVE  FALSE
  BY Zenon DEF Advertised
<1>1. Successors(Self, f) \in Seq(Relays)
  BY SuccessorsFacts, FleetConstants, Zenon
<1>2. NoList \in Seq(Relays)
  BY <1>1, Zenon
<1>3. 0 \in Relays
  BY <1>2 DEF NoList
<1> QED BY <1>3, FleetConstants

\* What a heartbeat publishes, Successors computed from a snapshot.
LEMMA ListsAdvertised ==
    ASSUME NEW e \in Lists PROVE \E F \in SUBSET Relays : \E f \in Orderings(F) : e[2] = Successors(Self, f)
<1>1. PICK f \in Snapshots : e = <<Range(f), Successors(Self, f)>>
  BY Zenon DEF Lists
<1>2. PICK F \in SUBSET Relays : f \in Orderings(F)
  BY Zenon DEF Snapshots
<1>3. e[2] = Successors(Self, f)
  BY <1>1
<1> QED BY <1>2, <1>3, Zenon

\* The agents of a stream are settled, and it came from Ready, from Grant, or
\* was being carried before.
Carried(s) ==
    /\ st'[s].consumer = st[s].consumer /\ st'[s].provider = st[s].provider
    /\ \/ st'[s].pc = st[s].pc
       \/ At(s, "splice") /\ st'[s].pc = "splicing"
       \/ At(s, "grant") /\ st'[s].pc = "parked"

\* So it is for every stream carried after a step; and no agent comes back up.
LEMMA CarriedStep ==
    ASSUME IInv, Next, NEW s \in Streams, st'[s].pc \in {"splicing", "parked"}
    PROVE  Carried(s) /\ up' \subseteq up
<1>0. st \in [Streams -> StreamState]
  BY Zenon DEF IInv, TypeOK
<1>1. ASSUME UNCHANGED <<st, up>> PROVE Carried(s) /\ up' \subseteq up
  BY <1>1, Zenon DEF Carried
<1>2. ASSUME NEW t \in Streams, ReadOpen(t) \/ Handle(t) \/ Accepted(t)
      PROVE  Carried(s) /\ up' \subseteq up
  <2>0. up' = up
    BY <1>2, Zenon DEF ReadOpen, Handle, Accepted, CallerPolicy, Resolve, CalleePolicy, OpenIncoming,
                       recordPair, forwardToPeer, Ready, LookupProvider, AllocateBoth, Grant, StreamEnds,
                       Unwind
  <2>1. CASE s # t
    <3>1. st'[s] = st[s]
      BY <1>0, <1>2, <2>1, Zenon DEF ReadOpen, Handle, Accepted, CallerPolicy, Resolve, CalleePolicy, OpenIncoming,
                       recordPair, forwardToPeer, Ready, LookupProvider, AllocateBoth, Grant, StreamEnds,
                       Unwind, Return, Goto, Reject
    <3> QED BY <2>0, <3>1, Zenon DEF Carried
  <2>2. CASE s = t
    <3>1. st[s].relay \in {"splice", "forward"}
      BY <1>0 DEF StreamState
    <3>2. CASE Ready(s) \/ Grant(s)
      BY <1>0, <2>0, <3>2 DEF Ready, Grant, Goto, Carried, At, StreamState
    <3>3. CASE ~(Ready(s) \/ Grant(s))
      <4>1. st'[s].pc \notin {"splicing", "parked"}
        <5>1. CASE ReadOpen(s)
          BY <1>0, <5>1 DEF ReadOpen, Goto, StreamState
        <5>2. CASE CallerPolicy(s)
          <6>1. CASE Reject(s)
            BY <1>0, <6>1 DEF Reject, Goto, StreamState
          <6>2. ASSUME NEW p, NEW r, st' = [st EXCEPT ![s].pc = "resolve", ![s].p2p = p, ![s].relay = r]
                PROVE  st'[s].pc \notin {"splicing", "parked"}
            <7>1. st'[s].pc = "resolve"
              BY <1>0, <6>2 DEF StreamState
            <7> QED BY <7>1, Zenon
          <6> QED BY <5>2, <6>1, <6>2, Zenon DEF CallerPolicy
        <5>3. CASE Resolve(s)
          BY <1>0, <5>3 DEF Resolve, Reject, Goto, StreamState
        <5>4. CASE CalleePolicy(s)
          BY <1>0, <5>4 DEF CalleePolicy, Reject, Goto, StreamState
        <5>5. CASE OpenIncoming(s)
          BY <1>0, <5>5 DEF OpenIncoming, Reject, Goto, StreamState
        <5>6. CASE recordPair(s)
          BY <1>0, <5>6 DEF recordPair, Reject, Goto, StreamState
        <5>7. CASE forwardToPeer(s)
          BY <1>0, <5>7 DEF forwardToPeer, Reject, Goto, StreamState
        <5>8. CASE AllocateBoth(s)
          BY <1>0, <5>8 DEF AllocateBoth, Goto, StreamState
        <5>9. CASE StreamEnds(s)
          BY <1>0, <5>9 DEF StreamEnds, Goto, StreamState
        <5>10. CASE Unwind(s)
          BY <1>0, <5>10 DEF Unwind, Return, StreamState
        <5>11. CASE Accepted(s)
          BY <1>0, <3>1, <5>11 DEF Accepted, Reject, Goto, StreamState
        <5>12. CASE LookupProvider(s)
          BY <1>0, <5>12 DEF LookupProvider, Reject, Goto, StreamState
        <5> QED BY <1>2, <2>2, <3>3, <5>1, <5>2, <5>3, <5>4, <5>5, <5>6, <5>7, <5>8, <5>9, <5>10, <5>11, <5>12,
                   Zenon DEF Handle
      <4> QED BY <4>1, Zenon
    <3> QED BY <3>2, <3>3, Zenon
  <2> QED BY <2>1, <2>2, Zenon
<1>3. ASSUME NEW t \in Streams, EnforceTick(t) \/ EnforceDeadline(t) \/ AgentCloses(t)
      PROVE  Carried(s) /\ up' \subseteq up
  BY <1>1, <1>3, Zenon DEF EnforceTick, EnforceDeadline, AgentCloses
<1>4. ASSUME NEW id \in StreamIds, handleMigrateToP2P(id) \/ MigratedDropped(id)
      PROVE  Carried(s) /\ up' \subseteq up
  BY <1>1, <1>4, Zenon DEF handleMigrateToP2P, MigratedDropped
<1>5. ASSUME NEW a \in Agents, LinkLost(a)
      PROVE  Carried(s) /\ up' \subseteq up
  BY <1>5, Zenon DEF LinkLost, Carried
<1>6. ASSUME (\E x \in allocs : IdleTimeout(x)) \/ \E a \in Agents : OldLinkForgets(a)
      PROVE  Carried(s) /\ up' \subseteq up
  BY <1>1, <1>6, Zenon DEF IdleTimeout, OldLinkForgets
<1> QED BY <1>2, <1>3, <1>4, <1>5, <1>6, Zenon DEF Next

\* STREAM_READY and ALLOC_GRANTED leave both agents with the one list read for
\* them, and no later step of a carried stream touches what they hold.
LEMMA StampStep ==
    ASSUME FleetInv, Next, Stamp
    PROVE  HalvesAgree'
<1>0. IInv /\ HalvesAgree /\ successors # NoList
  BY AdvertisedIsList, Zenon DEF FleetInv
<1> SUFFICES ASSUME NEW s \in Streams, st'[s].pc \in {"splicing", "parked"},
                    st'[s].consumer \in up', st'[s].provider \in up'
             PROVE  held'[s].consumer = held'[s].provider /\ held'[s].consumer # NoList
  BY Zenon DEF HalvesAgree
<1>1. Carried(s) /\ up' \subseteq up
  BY <1>0, CarriedStep, Zenon
<1>2. st[s].consumer \in up /\ st[s].provider \in up
  BY <1>1, Zenon DEF Carried
<1>3. ~IncomingStamp(s)
  BY Zenon DEF IncomingStamp, Steps
<1>4. CASE Steps(s, "splice", {"splicing"}) \/ Steps(s, "grant", {"parked"})
  <2>1. held'[s] = ReadyStamp(s)
    BY <1>3, <1>4, Zenon DEF Stamp
  <2>2. ReadyStamp(s) = [consumer |-> successors, provider |-> successors]
    BY <1>2, Zenon DEF ReadyStamp
  <2> QED BY <1>0, <2>1, <2>2
<1>5. CASE ~(Steps(s, "splice", {"splicing"}) \/ Steps(s, "grant", {"parked"}))
  <2>1. held'[s] = held[s]
    BY <1>3, <1>5, Zenon DEF Stamp
  <2>2. st'[s].pc = st[s].pc
    BY <1>1, <1>5, Zenon DEF Carried, Steps
  <2> QED BY <1>0, <1>2, <2>1, <2>2, Zenon DEF HalvesAgree
<1> QED BY <1>4, <1>5, Zenon

\* The invariant holds once main.go has seeded the list.
LEMMA InitFleet == Init /\ FleetInit => FleetInv
<1> SUFFICES ASSUME Init, FleetInit PROVE FleetInv
  OBVIOUS
<1>1. \A s \in Streams : st[s].pc = "new"
  BY Zenon DEF Init
<1>2. HalvesAgree
  BY <1>1, Zenon DEF HalvesAgree
<1>3. Advertised
  BY ListsAdvertised, Zenon DEF FleetInit, Advertised
<1> QED BY <1>2, <1>3, InitIInv, Zenon DEF FleetInv

\* Handlers, heartbeats and changes of the fleet preserve it.
LEMMA NextFleet == FleetInv /\ [FleetNext]_allVars => FleetInv'
<1> SUFFICES ASSUME FleetInv, [FleetNext]_allVars PROVE FleetInv'
  OBVIOUS
<1>1. CASE Next /\ Stamp /\ UNCHANGED fleetVars
  <2>1. HalvesAgree'
    BY <1>1, StampStep, Zenon
  <2>2. Advertised'
    BY <1>1, Zenon DEF FleetInv, Advertised, fleetVars
  <2> QED BY <1>1, <2>1, <2>2, NextIInv, Zenon DEF FleetInv
<1>2. CASE UNCHANGED <<vars, held>>
  <2>1. IInv'
    BY <1>2, NextIInv, Zenon DEF FleetInv
  <2>2. HalvesAgree'
    BY <1>2, Zenon DEF FleetInv, HalvesAgree, vars
  <2>3. CASE beat
    <3>1. PICK e \in Lists : last' = e[2]
      BY <2>3, Zenon DEF beat
    <3>2. successors' = successors \/ successors' = e[2]
      BY <2>3, <3>1, Zenon DEF beat
    <3>3. Advertised'
      BY <3>2, ListsAdvertised, Zenon DEF FleetInv, Advertised
    <3> QED BY <2>1, <2>2, <3>3, Zenon DEF FleetInv
  <2>4. CASE successors' = successors
    BY <2>1, <2>2, <2>4, Zenon DEF FleetInv, Advertised
  <2> QED BY <1>2, <2>3, <2>4, Zenon DEF FleetNext, FleetChanges, allVars, fleetVars
<1>3. CASE UNCHANGED allVars
  <2>1. UNCHANGED <<vars, held>> /\ successors' = successors
    BY <1>3, Zenon DEF allVars, fleetVars
  <2>2. IInv'
    BY <2>1, NextIInv, Zenon DEF FleetInv
  <2>3. HalvesAgree'
    BY <2>1, Zenon DEF FleetInv, HalvesAgree, vars
  <2> QED BY <2>1, <2>2, <2>3, Zenon DEF FleetInv, Advertised
<1> QED BY <1>1, <1>2, <1>3, Zenon DEF FleetNext

\* So it always holds, with heartbeats between any two steps of a handler.
LEMMA AlwaysFleet == FleetSpec => []FleetInv
BY InitFleet, NextFleet, PTL DEF FleetSpec

(***************************************************************************)
(* "Both halves of every stream hold an identical list before any byte     *)
(* flows", for every stream both of whose agents are connected here,       *)
(* wherever SetSuccessors falls between the reads of the handlers.         *)
(***************************************************************************)
THEOREM FleetHalvesAgree == FleetSpec => []HalvesAgree
<1>1. FleetInv => HalvesAgree
  BY Zenon DEF FleetInv
<1> QED BY <1>1, AlwaysFleet, PTL

(***************************************************************************)
(* What Server.successors holds is in the documented order, without this   *)
(* relay and without relays that have no endpoint, and relays of a region  *)
(* agree on it, for any fleet and any snapshots of it.                     *)
(***************************************************************************)
THEOREM FleetSameOrder == FleetSpec => []SameOrder
<1>1. FleetInv => SameOrder
  <2> SUFFICES ASSUME FleetInv PROVE SameOrder
    OBVIOUS
  <2>a. PICK F \in SUBSET Relays : \E f \in Orderings(F) : successors = Successors(Self, f)
    BY Zenon DEF FleetInv, Advertised
  <2>0. PICK f \in Orderings(F) : successors = Successors(Self, f)
    BY <2>a, Zenon
  <2> DEFINE t == successors
  <2>1. /\ t \in Seq(Relays)
        /\ \A x : (\E i \in 1 .. Len(t) : t[i] = x) <=> x \in F /\ x \in Listed(Self)
        /\ \A i, j \in 1 .. Len(t) : i < j => <<t[i], t[j]>> \in Order(Self)
    <3> DEFINE u == Successors(Self, f)
    <3>1. /\ u \in Seq(Relays)
          /\ \A x : (\E i \in 1 .. Len(u) : u[i] = x) <=> x \in F /\ x \in Listed(Self)
          /\ \A i, j \in 1 .. Len(u) : i < j => <<u[i], u[j]>> \in Order(Self)
      BY SuccessorsFacts, FleetConstants, Zenon
    <3> QED BY <2>0, <3>1, Zenon
  <2> HIDE DEF t
  <2>2. DOMAIN t = 1 .. Len(t)
    BY <2>1
  <2>3. \A i, j \in DOMAIN t : i < j => Before(Self, t[i], t[j])
    <3>1. \A x, y : <<x, y>> \in Order(Self) => Before(Self, x, y)
      BY DEF Order
    <3> QED BY <2>1, <2>2, <3>1, Zenon
  <2>4. \A i \in DOMAIN t : t[i] \in Listed(Self)
    BY <2>1, <2>2, Zenon
  <2>5. Self \notin Range(t) /\ Range(t) \cap NoEndpoint = {}
    BY <2>4, Zenon DEF Range, Listed
  <2> QED BY <2>3, <2>5, SuccessorsAgree, Zenon DEF SameOrder, t
<1> QED BY <1>1, AlwaysFleet, PTL
=============================================================================
