------------------------- MODULE ForwardPlaneProofs --------------------------
(***************************************************************************)
(* Safety of ForwardPlane, for any agents, endpoints, nonces, id space and *)
(* timeouts: every table is well formed, the tables agree with each other, *)
(* endpoints are bound only with the armed nonce, an allocation that is    *)
(* heard from is not evicted, and a datagram leaves only to an endpoint    *)
(* its allocation was bound to while the datagram was in hand.             *)
(***************************************************************************)
EXTENDS ForwardPlane, TLAPS

(***************************************************************************)
(* What the map helpers compute: the keys and rows after m[k] = v, after   *)
(* delete, and after a tick of the clock.                                  *)
(***************************************************************************)
LEMMA PutFacts ==
    ASSUME NEW m, NEW k, NEW v
    PROVE  /\ DOMAIN Put(m, k, v) = DOMAIN m \cup {k}
           /\ Put(m, k, v)[k] = v
           /\ \A x \in DOMAIN m : x # k => Put(m, k, v)[x] = m[x]
BY Zenon DEF Put

\* What delete leaves of a map.
LEMMA WithoutFacts ==
    ASSUME NEW m, NEW S
    PROVE  /\ DOMAIN Without(m, S) = DOMAIN m \ S
           /\ \A x \in DOMAIN m \ S : Without(m, S)[x] = m[x]
BY Zenon DEF Without, Restrict

\* A table stays one after m[k] = v.
LEMMA PutTable ==
    ASSUME NEW m, NEW K, NEW R, Table(m, K, R), NEW k \in K, NEW v \in R
    PROVE  Table(Put(m, k, v), K, R)
BY Zenon DEF Table, Put

\* A table stays one after delete.
LEMMA WithoutTable ==
    ASSUME NEW m, NEW K, NEW R, Table(m, K, R), NEW S
    PROVE  Table(Without(m, S), K, R)
BY Zenon DEF Table, Without, Restrict

\* A row bound to an endpoint is a row of the same owner.
LEMMA RebindRow ==
    ASSUME NEW e \in AllocRow, NEW s \in Srcs
    PROVE  /\ [e EXCEPT !.src = s, !.age = 0] \in AllocRow
           /\ [e EXCEPT !.src = s, !.age = 0].uri = e.uri
           /\ [e EXCEPT !.src = s, !.age = 0].src = s
           /\ [e EXCEPT !.src = s, !.age = 0].age = 0
           /\ [e EXCEPT !.src = s, !.age = 0].ptr = e.ptr
<1>1. 0 \in Age(IdleTTL)
  BY PlaneConstants DEF Age
<1> QED
  BY <1>1, Zenon DEF AllocRow

\* A bumped row is the same row with the time Run noted.
LEMMA BumpRow ==
    ASSUME NEW e \in AllocRow, NEW a \in Age(IdleTTL), NEW m, m = [e EXCEPT !.age = a]
    PROVE  m \in AllocRow /\ m.uri = e.uri /\ m.src = e.src /\ m.age = a /\ m.ptr = e.ptr
BY Zenon DEF AllocRow

\* A tick ages each allocation up to one past idleTTL.
LEMMA OlderAlloc ==
    ASSUME Table(byAlloc, Ids, AllocRow), NEW m, m = Older(byAlloc, IdleTTL)
    PROVE  /\ Table(m, Ids, AllocRow)
           /\ DOMAIN m = DOMAIN byAlloc
           /\ \A id \in DOMAIN m :
                 /\ m[id].uri = byAlloc[id].uri
                 /\ m[id].src = byAlloc[id].src
                 /\ m[id].ptr = byAlloc[id].ptr
                 /\ m[id].age = IF byAlloc[id].age > IdleTTL THEN byAlloc[id].age
                                                            ELSE byAlloc[id].age + 1
BY PlaneConstants DEF Table, AllocRow, Age, Older

\* A tick ages each armed nonce up to one past its TTL.
LEMMA OlderPending ==
    ASSUME Table(pending, Ids, PendingRow), NEW m, m = Older(pending, PendingTTL)
    PROVE  /\ Table(m, Ids, PendingRow)
           /\ DOMAIN m = DOMAIN pending
           /\ \A id \in DOMAIN m :
                 /\ m[id].uri = pending[id].uri
                 /\ m[id].nonce = pending[id].nonce
                 /\ m[id].age = IF pending[id].age > PendingTTL THEN pending[id].age
                                                               ELSE pending[id].age + 1
BY PlaneConstants DEF Table, PendingRow, Age, Older

\* A tick ages each queued punch up to one past its TTL.
LEMMA OlderQueued ==
    ASSUME Table(queued, Ids, QueuedRow), NEW m, m = Older(queued, PendingTTL)
    PROVE  /\ Table(m, Ids, QueuedRow)
           /\ DOMAIN m = DOMAIN queued
           /\ \A id \in DOMAIN m :
                 /\ m[id].src = queued[id].src
                 /\ m[id].age = IF queued[id].age > PendingTTL THEN queued[id].age
                                                              ELSE queued[id].age + 1
BY PlaneConstants DEF Table, QueuedRow, Age, Older

\* A tick ages the last arming along with its nonce.
LEMMA OlderArmed ==
    ASSUME Table(armed, Ids, ArmedRow), NEW m, m = Older(armed, PendingTTL)
    PROVE  /\ Table(m, Ids, ArmedRow)
           /\ DOMAIN m = DOMAIN armed
           /\ \A id \in DOMAIN m :
                 /\ m[id].nonce = armed[id].nonce
                 /\ m[id].age = IF armed[id].age > PendingTTL THEN armed[id].age
                                                             ELSE armed[id].age + 1
BY PlaneConstants DEF Table, ArmedRow, Age, Older
-----------------------------------------------------------------------------
\* The id counter stays in its range when it wraps.
LEMMA NextIdInRange ==
    ASSUME TypeOK
    PROVE  NextId \in Ids
BY PlaneConstants DEF TypeOK, NextId, Ids

\* Binding an allocation to a source endpoint keeps the three maps typed.
LEMMA BindType ==
    ASSUME TypeOK, NEW id \in DOMAIN byAlloc, NEW s \in Srcs, NEW n, NEW lag,
           Bind(id, s, n, lag)
    PROVE  /\ Table(byAlloc', Ids, AllocRow)
           /\ Table(src2id', Srcs, Ids)
           /\ DOMAIN byAlloc' = DOMAIN byAlloc
<1>1. id \in Ids /\ byAlloc[id] \in AllocRow
  BY Zenon DEF TypeOK, Table
<1>2. Table(byAlloc', Ids, AllocRow)
  BY <1>1, RebindRow, PutTable, Zenon DEF Bind, TypeOK
<1>3. Table(Without(src2id, {byAlloc[id].src}), Srcs, Ids)
  BY WithoutTable, Zenon DEF TypeOK
<1>4. Table(src2id', Srcs, Ids)
  BY <1>1, <1>3, PutTable, Zenon DEF Bind, TypeOK
<1>5. DOMAIN byAlloc' = DOMAIN byAlloc
  BY Zenon DEF Bind, Put
<1> QED
  BY <1>2, <1>4, <1>5, Zenon

\* Recording when the agent of a bound allocation was last heard.
LEMMA HeardType ==
    ASSUME TypeOK, NEW id \in DOMAIN byAlloc, NEW a \in Age(IdleTTL), heard' = Put(heard, id, a)
    PROVE  Table(heard', Ids, Age(IdleTTL)) /\ DOMAIN heard' = DOMAIN byAlloc
<1>1. id \in Ids /\ Table(heard, Ids, Age(IdleTTL)) /\ DOMAIN heard = DOMAIN byAlloc
  BY Zenon DEF TypeOK, Table
<1>2. Table(Put(heard, id, a), Ids, Age(IdleTTL))
  BY <1>1, PutTable, Zenon
<1>3. DOMAIN Put(heard, id, a) = DOMAIN heard \cup {id}
  BY Zenon DEF Put
<1> QED
  BY <1>1, <1>2, <1>3

\* A drained punch was heard as long ago as it was queued.
LEMMA LastHeardType ==
    ASSUME TypeOK, NEW id \in DOMAIN byAlloc, NEW q \in QueuedRow
    PROVE  LastHeard(id, q) \in Age(IdleTTL)
<1>1. heard[id] \in Age(IdleTTL)
  BY Zenon DEF TypeOK, Table
<1>2. q.age \in Nat
  BY PlaneConstants DEF QueuedRow, Age
<1> QED
  BY <1>1, <1>2, PlaneConstants DEF LastHeard, Age

\* So does deleting a set of allocations.
LEMMA RemoveType ==
    ASSUME TypeOK, NEW D, Remove(D)
    PROVE  /\ Table(byAlloc', Ids, AllocRow)
           /\ Table(src2id', Srcs, Ids)
           /\ Table(armed', Ids, ArmedRow)
           /\ Table(heard', Ids, Age(IdleTTL))
           /\ DOMAIN heard' = DOMAIN byAlloc'
<1>1. /\ Table(Without(byAlloc, D), Ids, AllocRow)
      /\ Table(Without(src2id, {byAlloc[id].src : id \in D}), Srcs, Ids)
      /\ Table(Without(armed, D), Ids, ArmedRow)
      /\ Table(Without(heard, D), Ids, Age(IdleTTL))
  BY WithoutTable, Zenon DEF TypeOK
<1>2. DOMAIN Without(heard, D) = DOMAIN Without(byAlloc, D)
  BY Zenon DEF TypeOK, Without, Restrict
<1> QED
  BY <1>1, <1>2, Zenon DEF Remove

(***************************************************************************)
(* A rebind from the queue widens what the datagram in hand may read when  *)
(* it is of the entry Run holds, and what counts as registered when it is  *)
(* of the id the datagram is for; nothing else Run noted changes.          *)
(***************************************************************************)
LEMMA DrainFwd ==
    ASSUME TypeOK, NEW id \in Ids, NEW u \in Uris, NEW n \in Nonces, ArmPending(id, u, n),
           Drains(id, n)
    PROVE  /\ fwd' \in FwdRow
           /\ fwd'.busy = fwd.busy /\ fwd'.from = fwd.from /\ fwd'.to = fwd.to
           /\ fwd'.age = fwd.age /\ fwd'.peer = fwd.peer /\ fwd'.sender = fwd.sender
           /\ fwd'.srcs = IF fwd.peer = byAlloc[id].ptr THEN fwd.srcs \cup {queued[id].src}
                                                       ELSE fwd.srcs
           /\ fwd'.reg = IF fwd.to = id THEN fwd.reg \cup {queued[id].src} ELSE fwd.reg
<1> DEFINE Q == IF fwd.peer = byAlloc[id].ptr THEN fwd.srcs \cup {queued[id].src} ELSE fwd.srcs
           S == IF fwd.to = id THEN fwd.reg \cup {queued[id].src} ELSE fwd.reg
<1>1. fwd \in FwdRow /\ queued[id].src \in Srcs
  BY Zenon DEF Drains, TypeOK, Table, QueuedRow
<1>2. Q \in SUBSET (Srcs \cup {NoSrc}) /\ S \in SUBSET Srcs
  BY <1>1, Zenon DEF FwdRow
<1>3. fwd' = [fwd EXCEPT !.srcs = Q, !.reg = S]
  BY Zenon DEF ArmPending
<1> HIDE DEF Q, S
<1>4. /\ fwd' \in FwdRow /\ fwd'.srcs = Q /\ fwd'.reg = S
      /\ fwd'.busy = fwd.busy /\ fwd'.from = fwd.from /\ fwd'.to = fwd.to
      /\ fwd'.age = fwd.age /\ fwd'.peer = fwd.peer /\ fwd'.sender = fwd.sender
  BY <1>1, <1>2, <1>3, Zenon DEF FwdRow
<1> QED
  BY <1>4, Zenon DEF Q, S

\* The clock changes nothing of the datagram in hand but the age of its time.
LEMMA TickFwd ==
    ASSUME TypeOK, Tick
    PROVE  /\ fwd' \in FwdRow
           /\ fwd'.busy = fwd.busy /\ fwd'.from = fwd.from /\ fwd'.to = fwd.to
           /\ fwd'.peer = fwd.peer /\ fwd'.sender = fwd.sender
           /\ fwd'.srcs = fwd.srcs /\ fwd'.reg = fwd.reg
           /\ fwd'.age = IF ~fwd.busy \/ fwd.age > IdleTTL THEN fwd.age ELSE fwd.age + 1
<1> DEFINE A == IF ~fwd.busy \/ fwd.age > IdleTTL THEN fwd.age ELSE fwd.age + 1
<1>1. fwd \in FwdRow /\ fwd.age \in Age(IdleTTL)
  BY Zenon DEF TypeOK, FwdRow
<1>2. A \in Age(IdleTTL)
  BY <1>1, PlaneConstants DEF Age
<1>3. fwd' = [fwd EXCEPT !.age = A]
  BY Zenon DEF Tick
<1> HIDE DEF A
<1>4. /\ fwd' \in FwdRow /\ fwd'.age = A
      /\ fwd'.busy = fwd.busy /\ fwd'.from = fwd.from /\ fwd'.to = fwd.to
      /\ fwd'.peer = fwd.peer /\ fwd'.sender = fwd.sender
      /\ fwd'.srcs = fwd.srcs /\ fwd'.reg = fwd.reg
  BY <1>1, <1>2, <1>3, Zenon DEF FwdRow
<1> QED
  BY <1>4, Zenon DEF A

\* A datagram has a source endpoint and names an id.
LEMMA DatagramTyped == \A d \in Datagrams : d[1] \in Srcs /\ d[2] \in Ids
BY PlaneConstants

\* Every handler of plane.go leaves well-formed maps.
LEMMA TypeStep ==
    ASSUME TypeOK, [Next]_vars
    PROVE  TypeOK'
<1>0. /\ 0 \in Age(IdleTTL) /\ 0 \in Age(PendingTTL)
      /\ \A id \in Ids : PunchSrc[id] \subseteq Srcs
  BY PlaneConstants DEF Age
<1>1. ASSUME NEW u \in Uris, Allocate(u)
      PROVE  TypeOK'
  <2>1. NextId \in Ids /\ NextId \in 0 .. MaxId
    BY NextIdInRange, PlaneConstants DEF Ids
  <2>2. [uri |-> u, src |-> NoSrc, age |-> 0, ptr |-> issued + 1] \in AllocRow
    BY <1>0, PlaneConstants DEF AllocRow, TypeOK
  <2>3. Table(byAlloc', Ids, AllocRow) /\ Table(heard', Ids, Age(IdleTTL))
    BY <1>0, <1>1, <2>1, <2>2, PutTable, Zenon DEF Allocate, TypeOK
  <2>4. DOMAIN heard' = DOMAIN byAlloc'
    BY <1>1, Zenon DEF Allocate, TypeOK, Put
  <2>5. byURI' \in [Uris -> SUBSET Ids]
    BY <1>1, <2>1, Zenon DEF Allocate, TypeOK
  <2>6. issued' \in 0 .. MaxIssued
    BY <1>1, PlaneConstants DEF Allocate, TypeOK
  <2> QED
    BY <1>1, <2>1, <2>3, <2>4, <2>5, <2>6, Zenon DEF Allocate, TypeOK
<1>2. ASSUME NEW u \in Uris, ForgetAgent(u)
      PROVE  TypeOK'
  <2>1. byURI' \in [Uris -> SUBSET Ids]
    BY <1>2, Zenon DEF ForgetAgent, TypeOK
  <2> QED
    BY <1>2, <2>1, RemoveType, WithoutTable, Zenon DEF ForgetAgent, TypeOK
<1>3. ASSUME NEW id \in Ids, Forget(id)
      PROVE  TypeOK'
  <2>1. byURI' \in [Uris -> SUBSET Ids]
    BY <1>3, Zenon DEF Forget, Unindex, TypeOK
  <2> QED
    BY <1>3, <2>1, RemoveType, WithoutTable, Zenon DEF Forget, TypeOK
<1>4. ASSUME NEW id \in Ids, NEW u \in Uris, NEW n \in Nonces, ArmPending(id, u, n)
      PROVE  TypeOK'
  <2>1. Table(queued', Ids, QueuedRow)
    BY <1>4, WithoutTable, Zenon DEF ArmPending, TypeOK
  <2>2. [nonce |-> n, age |-> 0] \in ArmedRow
    BY <1>0, Zenon DEF ArmedRow
  <2>3. Table(armed', Ids, ArmedRow)
    BY <1>4, <2>2, PutTable, Zenon DEF ArmPending, TypeOK
  <2>4. CASE Drains(id, n)
    <3>1. queued[id] \in QueuedRow /\ queued[id].src \in Srcs /\ id \in DOMAIN byAlloc
      BY <1>4, <2>4, Zenon DEF ArmPending, Drains, TypeOK, Table, QueuedRow
    <3>2. fwd' \in FwdRow
      BY <1>4, <2>4, DrainFwd, Zenon
    <3>3. Table(heard', Ids, Age(IdleTTL)) /\ DOMAIN heard' = DOMAIN byAlloc
      BY <1>4, <2>4, <3>1, HeardType, LastHeardType, Zenon DEF ArmPending
    <3>4. /\ Table(byAlloc', Ids, AllocRow) /\ Table(src2id', Srcs, Ids)
          /\ DOMAIN byAlloc' = DOMAIN byAlloc
      BY <1>4, <2>4, <3>1, BindType, Zenon DEF ArmPending
    <3> QED
      BY <1>4, <2>1, <2>3, <2>4, <3>2, <3>3, <3>4, Zenon DEF ArmPending, TypeOK
  <2>5. CASE ~Drains(id, n)
    <3>1. [uri |-> u, nonce |-> n, age |-> 0] \in PendingRow
      BY <1>0, Zenon DEF PendingRow
    <3>2. Table(pending', Ids, PendingRow)
      BY <1>4, <2>5, <3>1, PutTable DEF ArmPending, TypeOK
    <3> QED
      BY <1>4, <2>1, <2>3, <2>5, <3>2, Zenon DEF ArmPending, TypeOK
  <2> QED
    BY <2>4, <2>5, Zenon
<1>5. ASSUME NEW id \in Ids, NEW n \in Nonces, NEW s \in PunchSrc[id], Register(id, s, n)
      PROVE  TypeOK'
  <2>1. s \in Srcs
    BY <1>0, Zenon
  <2>2. CASE QueuePunch(id, s, n)
    <3>1. [src |-> s, nonce |-> n, age |-> 0] \in QueuedRow
      BY <1>0, <2>1, Zenon DEF QueuedRow
    <3>2. Table(queued', Ids, QueuedRow)
      BY <2>2, <3>1, PutTable, Zenon DEF QueuePunch, TypeOK
    <3> QED
      BY <1>5, <2>2, <3>2, Zenon DEF Register, QueuePunch, TypeOK
  <2>3. CASE DropPending(id)
    BY <1>5, <2>3, WithoutTable, Zenon DEF Register, DropPending, TypeOK
  <2>4. CASE AcceptPunch(id, s, n)
    <3>1. Table(pending', Ids, PendingRow)
      BY <2>4, WithoutTable, Zenon DEF AcceptPunch, TypeOK
    <3>2. CASE id \in DOMAIN byAlloc
      <4>1. Table(heard', Ids, Age(IdleTTL)) /\ DOMAIN heard' = DOMAIN byAlloc
        BY <1>0, <2>4, <3>2, HeardType, Zenon DEF AcceptPunch
      <4>2. /\ Table(byAlloc', Ids, AllocRow) /\ Table(src2id', Srcs, Ids)
            /\ DOMAIN byAlloc' = DOMAIN byAlloc
        BY <2>1, <2>4, <3>2, BindType, Zenon DEF AcceptPunch
      <4> QED
        BY <1>5, <2>4, <3>1, <4>1, <4>2, Zenon DEF Register, AcceptPunch, TypeOK
    <3>3. CASE id \notin DOMAIN byAlloc
      BY <1>5, <2>4, <3>1, <3>3, Zenon DEF Register, AcceptPunch, TypeOK
    <3> QED
      BY <3>2, <3>3, Zenon
  <2> QED
    BY <1>5, <2>2, <2>3, <2>4, Zenon DEF Register
<1>6. ASSUME NEW peer \in Ids, NEW s \in Srcs, DataLookup(s, peer)
      PROVE  TypeOK'
  <2>1. \A id \in DOMAIN byAlloc : byAlloc[id].ptr \in Nat /\ byAlloc[id].src \in Srcs \cup {NoSrc}
    BY Zenon DEF TypeOK, Table, AllocRow
  <2>2. peer \in 0 .. MaxId /\ 0 \in 0 .. MaxId
    BY PlaneConstants DEF Ids
  <2>3. fwd' \in FwdRow
    BY <1>0, <1>6, <2>1, <2>2, Zenon DEF DataLookup, FwdRow
  <2>4. Table(heard', Ids, Age(IdleTTL)) /\ DOMAIN heard' = DOMAIN heard
    BY <1>0, <1>6, Zenon DEF DataLookup, Hear, TypeOK, Table
  <2> QED
    BY <1>6, <2>3, <2>4, Zenon DEF DataLookup, tables, TypeOK
<1>7. CASE DataForward
  <2>1. fwd.age \in Age(IdleTTL)
    BY Zenon DEF TypeOK, FwdRow
  <2>2. Table(byAlloc', Ids, AllocRow) /\ DOMAIN byAlloc' = DOMAIN byAlloc
    BY <1>7, <2>1, BumpRow, Zenon DEF DataForward, TypeOK, Table
  <2>3. fwd' \in FwdRow
    BY <1>7, PlaneConstants DEF DataForward, Deliver, Idle, FwdRow, Age
  <2> QED
    BY <1>7, <2>2, <2>3, Zenon DEF DataForward, TypeOK
<1>8. CASE GcOnce
  <2>1. byURI' \in [Uris -> SUBSET Ids]
    BY <1>8, Zenon DEF GcOnce, Unindex, TypeOK
  <2> QED
    BY <1>8, <2>1, RemoveType, WithoutTable, Zenon DEF GcOnce, TypeOK
<1>9. CASE Tick
  <2>1. Table(byAlloc', Ids, AllocRow) /\ DOMAIN byAlloc' = DOMAIN byAlloc
    BY <1>9, OlderAlloc, Zenon DEF Tick, TypeOK
  <2>2. /\ Table(pending', Ids, PendingRow)
        /\ Table(queued', Ids, QueuedRow)
        /\ Table(armed', Ids, ArmedRow)
    BY <1>9, OlderPending, OlderQueued, OlderArmed, Zenon DEF Tick, TypeOK
  <2>3. Table(heard', Ids, Age(IdleTTL)) /\ DOMAIN heard' = DOMAIN heard
    BY <1>9, PlaneConstants DEF Tick, TypeOK, Table, Age
  <2>4. fwd' \in FwdRow
    BY <1>9, TickFwd, Zenon
  <2> QED
    BY <1>9, <2>1, <2>2, <2>3, <2>4, Zenon DEF Tick, TypeOK
<1>10. CASE UNCHANGED vars
  BY <1>10, Zenon DEF vars, TypeOK
<1> QED
  BY <1>1, <1>2, <1>3, <1>4, <1>5, <1>6, <1>7, <1>8, <1>9, <1>10, DatagramTyped,
     Zenon DEF Next

(***************************************************************************)
(* Every map of the plane holds only well-formed rows, whatever arrives on *)
(* the socket and the control streams and in whatever order.               *)
(***************************************************************************)
THEOREM TypeCorrect == Spec => []TypeOK
<1>1. Init => TypeOK
  BY PlaneConstants DEF Init, TypeOK, Idle, Table, FwdRow, Age
<1> QED
  BY <1>1, TypeStep, PTL DEF Spec
-----------------------------------------------------------------------------

(***************************************************************************)
(* The inductive invariant for safety.  The counter must not wrap: then    *)
(* ids are issued in order, an entry's identity is its id, and a new id    *)
(* has no row anywhere but in queued.  A pending row must also be the last *)
(* arming, with its age, or a punch could bind with a retired nonce.       *)
(***************************************************************************)
NoWrap == MaxIssued <= MaxId

IdsFresh ==
    /\ nextID = issued
    /\ \A id \in DOMAIN byAlloc : id <= issued /\ byAlloc[id].ptr = id

PendingIsLastArmed ==
    \A id \in DOMAIN pending :
        /\ id \in DOMAIN armed
        /\ pending[id].nonce = armed[id].nonce
        /\ pending[id].age = armed[id].age

SafetyInv ==
    /\ TypeOK
    /\ IdsFresh
    /\ OwnerIndexExact
    /\ ReverseIndexSound
    /\ PendingOwned
    /\ PendingIsLastArmed
    /\ BindingAuthorised

\* With ids still fresh, Allocate's id is the next number and is unused.
LEMMA NextIdFresh ==
    ASSUME NoWrap, TypeOK, IdsFresh, issued < MaxIssued
    PROVE  NextId = issued + 1 /\ NextId \notin DOMAIN byAlloc
<1>1. NextId = issued + 1
  BY PlaneConstants DEF NoWrap, TypeOK, IdsFresh, NextId
<1>2. ASSUME NEW id \in DOMAIN byAlloc PROVE id # NextId
  BY <1>1, <1>2 DEF IdsFresh, TypeOK, Table, Ids
<1> QED
  BY <1>1, <1>2, Zenon

(***************************************************************************)
(* What the steps do to one row: they keep owner and identity, or remove   *)
(* the row, and only Allocate adds one.                                    *)
(***************************************************************************)
SameOwners ==
    /\ DOMAIN byAlloc' = DOMAIN byAlloc
    /\ \A id \in DOMAIN byAlloc :
          byAlloc'[id].uri = byAlloc[id].uri /\ byAlloc'[id].ptr = byAlloc[id].ptr

\* A bind changes no owner.
LEMMA BindOwners ==
    ASSUME TypeOK, NEW id \in DOMAIN byAlloc, NEW s \in Srcs, NEW n, NEW lag,
           Bind(id, s, n, lag)
    PROVE  /\ SameOwners
           /\ byAlloc'[id].src = s
           /\ byAlloc'[id].age = 0
           /\ \A x \in DOMAIN byAlloc : x # id => byAlloc'[x] = byAlloc[x]
<1>1. byAlloc[id] \in AllocRow
  BY Zenon DEF TypeOK, Table
<1>2. byAlloc' = Put(byAlloc, id, [byAlloc[id] EXCEPT !.src = s, !.age = 0])
  BY Zenon DEF Bind
<1>3. /\ DOMAIN byAlloc' = DOMAIN byAlloc
      /\ byAlloc'[id] = [byAlloc[id] EXCEPT !.src = s, !.age = 0]
      /\ \A x \in DOMAIN byAlloc : x # id => byAlloc'[x] = byAlloc[x]
  BY <1>2, Zenon DEF Put
<1>4. ASSUME NEW e \in AllocRow, byAlloc[id] = e
      PROVE  /\ byAlloc'[id].uri = e.uri /\ byAlloc'[id].ptr = e.ptr
             /\ byAlloc'[id].src = s /\ byAlloc'[id].age = 0
  BY <1>3, <1>4, Zenon DEF AllocRow
<1> QED
  BY <1>1, <1>3, <1>4, Zenon DEF SameOwners

\* The data path changes no owner and no endpoint.
LEMMA ForwardOwners ==
    ASSUME TypeOK, DataForward
    PROVE  SameOwners /\ \A id \in DOMAIN byAlloc : byAlloc'[id].src = byAlloc[id].src
<1>1. fwd.age \in Age(IdleTTL) /\ \A id \in DOMAIN byAlloc : byAlloc[id] \in AllocRow
  BY Zenon DEF TypeOK, Table, FwdRow
<1>2. DOMAIN byAlloc' = DOMAIN byAlloc
  BY Zenon DEF DataForward
<1>3. ASSUME NEW id \in DOMAIN byAlloc
      PROVE  byAlloc'[id] = byAlloc[id] \/ byAlloc'[id] = [byAlloc[id] EXCEPT !.age = fwd.age]
  BY Zenon DEF DataForward
<1>4. ASSUME NEW id \in DOMAIN byAlloc
      PROVE  /\ byAlloc'[id].uri = byAlloc[id].uri
             /\ byAlloc'[id].ptr = byAlloc[id].ptr
             /\ byAlloc'[id].src = byAlloc[id].src
  <2>1. CASE byAlloc'[id] = byAlloc[id]
    BY <2>1, Zenon
  <2>2. CASE byAlloc'[id] = [byAlloc[id] EXCEPT !.age = fwd.age]
    BY <1>1, <2>2 DEF AllocRow
  <2> QED
    BY <1>3, <2>1, <2>2, Zenon
<1> QED
  BY <1>2, <1>4, Zenon DEF SameOwners

\* The clock changes no owner and no endpoint.
LEMMA TickOwners ==
    ASSUME TypeOK, Tick
    PROVE  SameOwners /\ \A id \in DOMAIN byAlloc : byAlloc'[id].src = byAlloc[id].src
BY OlderAlloc, Zenon DEF Tick, TypeOK, SameOwners

\* A registration step, on either channel, keeps every owner and identity.
LEMMA ArmOwners ==
    ASSUME TypeOK, NEW id \in Ids, NEW u \in Uris, NEW n \in Nonces, ArmPending(id, u, n)
    PROVE  SameOwners
<1>1. CASE Drains(id, n)
  <2>1. queued[id].src \in Srcs
    BY <1>1, Zenon DEF Drains, TypeOK, Table, QueuedRow
  <2> QED
    BY <1>1, <2>1, BindOwners, Zenon DEF ArmPending
<1>2. CASE ~Drains(id, n)
  BY <1>2, Zenon DEF ArmPending, SameOwners
<1> QED
  BY <1>1, <1>2, Zenon

\* A punch, bound, queued or dropped, changes no owner.
LEMMA RegisterOwners ==
    ASSUME TypeOK, NEW id \in Ids, NEW n \in Nonces, NEW s \in PunchSrc[id],
           Register(id, s, n)
    PROVE  SameOwners
<1>1. s \in Srcs
  BY PlaneConstants, Zenon
<1>2. CASE QueuePunch(id, s, n) \/ DropPending(id)
  BY <1>2, Zenon DEF QueuePunch, DropPending, SameOwners
<1>3. CASE AcceptPunch(id, s, n)
  BY <1>1, <1>3, BindOwners, Zenon DEF AcceptPunch, SameOwners
<1> QED
  BY <1>2, <1>3, Zenon DEF Register

\* No step creates an id out of order or changes an entry's identity.
LEMMA IdsFreshStep ==
    ASSUME NoWrap, TypeOK, IdsFresh, [Next]_vars
    PROVE  IdsFresh'
<1>0. ASSUME SameOwners, UNCHANGED <<nextID, issued>>
      PROVE  IdsFresh'
  BY <1>0, Zenon DEF IdsFresh, SameOwners
<1>00. ASSUME NEW D, Remove(D), UNCHANGED <<nextID, issued>>
       PROVE  IdsFresh'
  BY <1>00, Zenon DEF IdsFresh, Remove, Without, Restrict
<1>1. ASSUME NEW u \in Uris, Allocate(u)
      PROVE  IdsFresh'
  <2>1. NextId = issued + 1 /\ NextId \notin DOMAIN byAlloc
    BY <1>1, NextIdFresh, Zenon DEF Allocate
  <2>2. /\ DOMAIN byAlloc' = DOMAIN byAlloc \cup {NextId}
        /\ byAlloc'[NextId].ptr = issued + 1
        /\ \A x \in DOMAIN byAlloc : x # NextId => byAlloc'[x] = byAlloc[x]
    BY <1>1, Zenon DEF Allocate, Put
  <2>3. \A x \in DOMAIN byAlloc : x <= issued + 1
    BY DEF IdsFresh, TypeOK, Table, Ids
  <2> QED
    BY <1>1, <2>1, <2>2, <2>3 DEF Allocate, IdsFresh
<1>2. ASSUME NEW u \in Uris, ForgetAgent(u)
      PROVE  IdsFresh'
  BY <1>2, <1>00, Zenon DEF ForgetAgent
<1>3. ASSUME NEW id \in Ids, Forget(id)
      PROVE  IdsFresh'
  BY <1>3, <1>00, Zenon DEF Forget
<1>4. ASSUME NEW id \in Ids, NEW u \in Uris, NEW n \in Nonces, ArmPending(id, u, n)
      PROVE  IdsFresh'
  <2>1. SameOwners
    BY <1>4, ArmOwners, Zenon
  <2> QED
    BY <1>4, <2>1, <1>0, Zenon DEF ArmPending
<1>5. ASSUME NEW id \in Ids, NEW n \in Nonces, NEW s \in PunchSrc[id], Register(id, s, n)
      PROVE  IdsFresh'
  BY <1>5, <1>0, RegisterOwners, Zenon DEF Register
<1>6. ASSUME NEW peer \in Ids, NEW s, DataLookup(s, peer)
      PROVE  IdsFresh'
  BY <1>6, Zenon DEF DataLookup, tables, IdsFresh
<1>7. CASE DataForward
  BY <1>7, <1>0, ForwardOwners, Zenon DEF DataForward
<1>8. CASE GcOnce
  BY <1>8, <1>00, Zenon DEF GcOnce
<1>9. CASE Tick
  BY <1>9, <1>0, TickOwners, Zenon DEF Tick
<1>10. CASE UNCHANGED vars
  BY <1>10, Zenon DEF vars, IdsFresh
<1> QED
  BY <1>1, <1>2, <1>3, <1>4, <1>5, <1>6, <1>7, <1>8, <1>9, <1>10, DatagramTyped,
     Zenon DEF Next

\* byURI and byAlloc stay each other's inverse.
LEMMA OwnerIndexStep ==
    ASSUME NoWrap, TypeOK, IdsFresh, OwnerIndexExact, [Next]_vars
    PROVE  OwnerIndexExact'
<1>0. ASSUME SameOwners, UNCHANGED byURI
      PROVE  OwnerIndexExact'
  BY <1>0, Zenon DEF OwnerIndexExact, SameOwners
<1>00. ASSUME NEW D, D \subseteq DOMAIN byAlloc, Remove(D), Unindex(D)
       PROVE  OwnerIndexExact'
  BY <1>00, Zenon DEF OwnerIndexExact, Remove, Unindex, Without, Restrict
<1>1. ASSUME NEW u \in Uris, Allocate(u)
      PROVE  OwnerIndexExact'
  <2>1. NextId \notin DOMAIN byAlloc
    BY <1>1, NextIdFresh, Zenon DEF Allocate
  <2>2. /\ DOMAIN byAlloc' = DOMAIN byAlloc \cup {NextId}
        /\ byAlloc'[NextId].uri = u
        /\ \A x \in DOMAIN byAlloc : x # NextId => byAlloc'[x] = byAlloc[x]
    BY <1>1, Zenon DEF Allocate, Put
  <2>3. byURI' = [byURI EXCEPT ![u] = @ \cup {NextId}]
    BY <1>1, Zenon DEF Allocate
  <2> QED
    BY <2>1, <2>2, <2>3 DEF OwnerIndexExact, TypeOK
<1>2. ASSUME NEW u \in Uris, ForgetAgent(u)
      PROVE  OwnerIndexExact'
  <2>1. byURI[u] \subseteq DOMAIN byAlloc
    BY Zenon DEF OwnerIndexExact, TypeOK
  <2>2. byAlloc' = Without(byAlloc, byURI[u]) /\ byURI' = [byURI EXCEPT ![u] = {}]
    BY <1>2, <2>1, Zenon DEF ForgetAgent, Remove
  <2>3. /\ DOMAIN byAlloc' = DOMAIN byAlloc \ byURI[u]
        /\ \A x \in DOMAIN byAlloc' : byAlloc'[x] = byAlloc[x]
    BY <2>2, Zenon DEF Without, Restrict
  <2> QED
    BY <2>2, <2>3 DEF OwnerIndexExact, TypeOK
<1>3. ASSUME NEW id \in Ids, Forget(id)
      PROVE  OwnerIndexExact'
  BY <1>3, <1>00, Zenon DEF Forget
<1>4. ASSUME NEW id \in Ids, NEW u \in Uris, NEW n \in Nonces, ArmPending(id, u, n)
      PROVE  OwnerIndexExact'
  BY <1>4, <1>0, ArmOwners, Zenon DEF ArmPending
<1>5. ASSUME NEW id \in Ids, NEW n \in Nonces, NEW s \in PunchSrc[id], Register(id, s, n)
      PROVE  OwnerIndexExact'
  BY <1>5, <1>0, RegisterOwners, Zenon DEF Register
<1>6. ASSUME NEW peer \in Ids, NEW s, DataLookup(s, peer)
      PROVE  OwnerIndexExact'
  BY <1>6, Zenon DEF DataLookup, tables, OwnerIndexExact
<1>7. CASE DataForward
  BY <1>7, <1>0, ForwardOwners, Zenon DEF DataForward
<1>8. CASE GcOnce
  BY <1>8, <1>00, Zenon DEF GcOnce
<1>9. CASE Tick
  BY <1>9, <1>0, TickOwners, Zenon DEF Tick
<1>10. CASE UNCHANGED vars
  BY <1>10, Zenon DEF vars, OwnerIndexExact
<1> QED
  BY <1>1, <1>2, <1>3, <1>4, <1>5, <1>6, <1>7, <1>8, <1>9, <1>10, DatagramTyped,
     Zenon DEF Next

\* A rebind moves the index entry of the alloc and disturbs no other alloc's.
LEMMA BindReverse ==
    ASSUME TypeOK, ReverseIndexSound, NEW id \in DOMAIN byAlloc, NEW s \in Srcs, NEW n, NEW lag,
           Bind(id, s, n, lag)
    PROVE  ReverseIndexSound'
<1>1. /\ DOMAIN byAlloc' = DOMAIN byAlloc
      /\ byAlloc'[id].src = s
      /\ \A x \in DOMAIN byAlloc : x # id => byAlloc'[x] = byAlloc[x]
  BY BindOwners, Zenon DEF SameOwners
<1>2. CASE byAlloc[id].src = s
  <2>1. src2id' = src2id
    BY <1>2, Zenon DEF Bind
  <2> QED
    BY <1>1, <1>2, <2>1, Zenon DEF ReverseIndexSound
<1>3. CASE byAlloc[id].src # s
  <2>1. src2id' = Put(Without(src2id, {byAlloc[id].src}), s, id)
    BY <1>3, Zenon DEF Bind
  <2>2. /\ DOMAIN src2id' = (DOMAIN src2id \ {byAlloc[id].src}) \cup {s}
        /\ src2id'[s] = id
        /\ \A t \in DOMAIN src2id' : t # s => src2id'[t] = src2id[t]
    BY <2>1, Zenon DEF Put, Without, Restrict
  <2>3. ASSUME NEW t \in DOMAIN src2id', t # s
        PROVE  src2id'[t] \in DOMAIN byAlloc /\ src2id'[t] # id /\ byAlloc[src2id'[t]].src = t
    BY <2>2, <2>3, Zenon DEF ReverseIndexSound
  <2> QED
    BY <1>1, <2>2, <2>3, Zenon DEF ReverseIndexSound
<1> QED
  BY <1>2, <1>3, Zenon

\* Every step leaves the reverse index pointing at entries bound to that endpoint.
LEMMA ReverseIndexStep ==
    ASSUME NoWrap, TypeOK, IdsFresh, ReverseIndexSound, [Next]_vars
    PROVE  ReverseIndexSound'
<1>0. ASSUME SameOwners, \A id \in DOMAIN byAlloc : byAlloc'[id].src = byAlloc[id].src,
             UNCHANGED src2id
      PROVE  ReverseIndexSound'
  BY <1>0, Zenon DEF ReverseIndexSound, SameOwners
<1>00. ASSUME NEW D, Remove(D)
       PROVE  ReverseIndexSound'
  BY <1>00, Zenon DEF ReverseIndexSound, Remove, Without, Restrict
<1>1. ASSUME NEW u \in Uris, Allocate(u)
      PROVE  ReverseIndexSound'
  <2>1. NextId \notin DOMAIN byAlloc
    BY <1>1, NextIdFresh, Zenon DEF Allocate
  <2>2. /\ DOMAIN byAlloc' = DOMAIN byAlloc \cup {NextId}
        /\ \A x \in DOMAIN byAlloc : x # NextId => byAlloc'[x] = byAlloc[x]
    BY <1>1, Zenon DEF Allocate, Put
  <2> QED
    BY <1>1, <2>1, <2>2, Zenon DEF Allocate, ReverseIndexSound
<1>2. ASSUME NEW u \in Uris, ForgetAgent(u)
      PROVE  ReverseIndexSound'
  BY <1>2, <1>00, Zenon DEF ForgetAgent
<1>3. ASSUME NEW id \in Ids, Forget(id)
      PROVE  ReverseIndexSound'
  BY <1>3, <1>00, Zenon DEF Forget
<1>4. ASSUME NEW id \in Ids, NEW u \in Uris, NEW n \in Nonces, ArmPending(id, u, n)
      PROVE  ReverseIndexSound'
  <2>1. CASE Drains(id, n)
    <3>1. queued[id].src \in Srcs
      BY <2>1, Zenon DEF Drains, TypeOK, Table, QueuedRow
    <3> QED
      BY <1>4, <2>1, <3>1, BindReverse, Zenon DEF ArmPending
  <2>2. CASE ~Drains(id, n)
    BY <1>4, <2>2, Zenon DEF ArmPending, ReverseIndexSound
  <2> QED
    BY <2>1, <2>2, Zenon
<1>5. ASSUME NEW id \in Ids, NEW n \in Nonces, NEW s \in PunchSrc[id], Register(id, s, n)
      PROVE  ReverseIndexSound'
  <2>1. s \in Srcs
    BY PlaneConstants, Zenon
  <2>2. CASE QueuePunch(id, s, n) \/ DropPending(id)
    BY <2>2, Zenon DEF QueuePunch, DropPending, ReverseIndexSound
  <2>3. CASE AcceptPunch(id, s, n)
    <3>1. CASE id \in DOMAIN byAlloc
      BY <2>1, <2>3, <3>1, BindReverse, Zenon DEF AcceptPunch
    <3>2. CASE id \notin DOMAIN byAlloc
      BY <2>3, <3>2, Zenon DEF AcceptPunch, ReverseIndexSound
    <3> QED
      BY <3>1, <3>2, Zenon
  <2> QED
    BY <1>5, <2>2, <2>3, Zenon DEF Register
<1>6. ASSUME NEW peer \in Ids, NEW s, DataLookup(s, peer)
      PROVE  ReverseIndexSound'
  BY <1>6, Zenon DEF DataLookup, tables, ReverseIndexSound
<1>7. CASE DataForward
  BY <1>7, <1>0, ForwardOwners, Zenon DEF DataForward
<1>8. CASE GcOnce
  BY <1>8, <1>00, Zenon DEF GcOnce
<1>9. CASE Tick
  BY <1>9, <1>0, TickOwners, Zenon DEF Tick
<1>10. CASE UNCHANGED vars
  BY <1>10, Zenon DEF vars, ReverseIndexSound
<1> QED
  BY <1>1, <1>2, <1>3, <1>4, <1>5, <1>6, <1>7, <1>8, <1>9, <1>10, DatagramTyped,
     Zenon DEF Next

\* A pending row keeps its alloc, its owner and the last armed nonce, and
\* never meets a queued punch.
LEMMA PendingStep ==
    ASSUME NoWrap, TypeOK, IdsFresh, PendingOwned, PendingIsLastArmed, [Next]_vars
    PROVE  PendingOwned' /\ PendingIsLastArmed'
<1> USE DEF PendingOwned, PendingIsLastArmed
<1>0. ASSUME NEW D, Remove(D), NEW E, D \subseteq E, NEW F,
             pending' = Without(pending, E), queued' = Without(queued, F)
      PROVE  PendingOwned' /\ PendingIsLastArmed'
  BY <1>0, Zenon DEF Remove, Without, Restrict
<1>1. ASSUME NEW u \in Uris, Allocate(u)
      PROVE  PendingOwned' /\ PendingIsLastArmed'
  <2>1. NextId \notin DOMAIN byAlloc
    BY <1>1, NextIdFresh, Zenon DEF Allocate
  <2>2. /\ DOMAIN byAlloc' = DOMAIN byAlloc \cup {NextId}
        /\ \A x \in DOMAIN byAlloc : x # NextId => byAlloc'[x] = byAlloc[x]
    BY <1>1, Zenon DEF Allocate, Put
  <2> QED
    BY <1>1, <2>1, <2>2, Zenon DEF Allocate
<1>2. ASSUME NEW u \in Uris, ForgetAgent(u)
      PROVE  PendingOwned' /\ PendingIsLastArmed'
  BY <1>2, <1>0, Zenon DEF ForgetAgent
<1>3. ASSUME NEW id \in Ids, Forget(id)
      PROVE  PendingOwned' /\ PendingIsLastArmed'
  <2> DEFINE D == {id} \cap DOMAIN byAlloc
  <2>1. Remove(D) /\ D \subseteq {id}
    BY <1>3, Zenon DEF Forget
  <2> HIDE DEF D
  <2> QED
    BY <1>3, <2>1, <1>0, Zenon DEF Forget
<1>4. ASSUME NEW id \in Ids, NEW u \in Uris, NEW n \in Nonces, ArmPending(id, u, n)
      PROVE  PendingOwned' /\ PendingIsLastArmed'
  <2>1. /\ DOMAIN byAlloc' = DOMAIN byAlloc
        /\ \A x \in DOMAIN byAlloc : byAlloc'[x].uri = byAlloc[x].uri
    BY <1>4, ArmOwners, Zenon DEF SameOwners
  <2>2. /\ DOMAIN queued' = DOMAIN queued \ {id}
        /\ DOMAIN armed' = DOMAIN armed \cup {id}
        /\ armed'[id] = [nonce |-> n, age |-> 0]
        /\ \A x \in DOMAIN armed : x # id => armed'[x] = armed[x]
    BY <1>4, Zenon DEF ArmPending, Without, Restrict, Put
  <2>3. CASE Drains(id, n)
    <3>1. pending' = pending /\ id \notin DOMAIN pending
      BY <1>4, <2>3, Zenon DEF ArmPending, Drains
    <3> QED
      BY <2>1, <2>2, <3>1, Zenon
  <2>4. CASE ~Drains(id, n)
    <3>1. /\ DOMAIN pending' = DOMAIN pending \cup {id}
          /\ pending'[id] = [uri |-> u, nonce |-> n, age |-> 0]
          /\ \A x \in DOMAIN pending : x # id => pending'[x] = pending[x]
          /\ id \in DOMAIN byAlloc /\ byAlloc[id].uri = u
      BY <1>4, <2>4, Zenon DEF ArmPending, Put
    <3> QED
      BY <2>1, <2>2, <3>1
  <2> QED
    BY <2>3, <2>4, Zenon
<1>5. ASSUME NEW id \in Ids, NEW n \in Nonces, NEW s \in PunchSrc[id], Register(id, s, n)
      PROVE  PendingOwned' /\ PendingIsLastArmed'
  <2>1. /\ DOMAIN byAlloc' = DOMAIN byAlloc
        /\ \A x \in DOMAIN byAlloc : byAlloc'[x].uri = byAlloc[x].uri
        /\ armed' = armed
    BY <1>5, RegisterOwners, Zenon DEF SameOwners, Register
  <2>2. CASE QueuePunch(id, s, n)
    BY <2>1, <2>2, Zenon DEF QueuePunch, Put
  <2>3. CASE DropPending(id)
    BY <2>1, <2>3, Zenon DEF DropPending, Without, Restrict
  <2>4. CASE AcceptPunch(id, s, n)
    <3>1. pending' = Without(pending, {id}) /\ queued' = queued
      BY <2>4, Zenon DEF AcceptPunch
    <3> QED
      BY <2>1, <3>1, Zenon DEF Without, Restrict
  <2> QED
    BY <1>5, <2>2, <2>3, <2>4, Zenon DEF Register
<1>6. ASSUME NEW peer \in Ids, NEW s, DataLookup(s, peer)
      PROVE  PendingOwned' /\ PendingIsLastArmed'
  BY <1>6, Zenon DEF DataLookup, tables
<1>7. CASE DataForward
  <2>1. /\ DOMAIN byAlloc' = DOMAIN byAlloc
        /\ \A x \in DOMAIN byAlloc : byAlloc'[x].uri = byAlloc[x].uri
        /\ UNCHANGED <<pending, queued, armed>>
    BY <1>7, ForwardOwners, Zenon DEF SameOwners, DataForward
  <2> QED
    BY <2>1, Zenon
<1>8. CASE GcOnce
  BY <1>8, <1>0, Zenon DEF GcOnce
<1>9. CASE Tick
  <2>1. /\ DOMAIN byAlloc' = DOMAIN byAlloc
        /\ \A x \in DOMAIN byAlloc : byAlloc'[x].uri = byAlloc[x].uri
    BY <1>9, TickOwners, Zenon DEF SameOwners
  <2>2. /\ DOMAIN pending' = DOMAIN pending
        /\ \A id \in DOMAIN pending :
              /\ pending'[id].uri = pending[id].uri
              /\ pending'[id].nonce = pending[id].nonce
              /\ pending'[id].age = IF pending[id].age > PendingTTL THEN pending[id].age
                                                                   ELSE pending[id].age + 1
    BY <1>9, OlderPending DEF Tick, TypeOK
  <2>3. /\ DOMAIN armed' = DOMAIN armed
        /\ \A id \in DOMAIN armed :
              /\ armed'[id].nonce = armed[id].nonce
              /\ armed'[id].age = IF armed[id].age > PendingTTL THEN armed[id].age
                                                               ELSE armed[id].age + 1
    BY <1>9, OlderArmed, Zenon DEF Tick, TypeOK
  <2>4. DOMAIN queued' = DOMAIN queued
    BY <1>9, OlderQueued, Zenon DEF Tick, TypeOK
  <2> QED
    BY <2>1, <2>2, <2>3, <2>4
<1>10. CASE UNCHANGED vars
  BY <1>10, Zenon DEF vars
<1> QED
  BY <1>1, <1>2, <1>3, <1>4, <1>5, <1>6, <1>7, <1>8, <1>9, <1>10, DatagramTyped,
     Zenon DEF Next

\* Both ways to bind use the nonce armed last, in time.
LEMMA BindingStep ==
    ASSUME TypeOK, PendingOwned, PendingIsLastArmed, BindingAuthorised, [Next]_vars
    PROVE  BindingAuthorised'
<1>0. ASSUME ev'.op # "bind"
      PROVE  BindingAuthorised'
  BY <1>0, Zenon DEF BindingAuthorised
<1>1. ASSUME NEW u \in Uris, Allocate(u)
      PROVE  BindingAuthorised'
  BY <1>1, <1>0, Zenon DEF Allocate, NoEvent
<1>2. ASSUME NEW u \in Uris, ForgetAgent(u)
      PROVE  BindingAuthorised'
  BY <1>2, <1>0, Zenon DEF ForgetAgent, NoEvent
<1>3. ASSUME NEW id \in Ids, Forget(id)
      PROVE  BindingAuthorised'
  BY <1>3, <1>0, Zenon DEF Forget, NoEvent
<1>4. ASSUME NEW id \in Ids, NEW u \in Uris, NEW n \in Nonces, ArmPending(id, u, n)
      PROVE  BindingAuthorised'
  <2>1. CASE Drains(id, n)
    <3>1. ev' = [op |-> "bind", id |-> id, nonce |-> n, lag |-> queued[id].age]
      BY <1>4, <2>1, Zenon DEF ArmPending, Bind
    <3>2. id \in DOMAIN armed' /\ armed'[id] = [nonce |-> n, age |-> 0]
      BY <1>4, Zenon DEF ArmPending, Put
    <3>3. queued[id].age <= PendingTTL /\ 0 <= PendingTTL
      BY <2>1, PlaneConstants DEF Drains, TypeOK, Table, QueuedRow, Age
    <3> QED
      BY <3>1, <3>2, <3>3 DEF BindingAuthorised
  <2>2. CASE ~Drains(id, n)
    BY <1>4, <2>2, <1>0 DEF ArmPending, NoEvent
  <2> QED
    BY <2>1, <2>2, Zenon
<1>5. ASSUME NEW id \in Ids, NEW n \in Nonces, NEW s \in PunchSrc[id], Register(id, s, n)
      PROVE  BindingAuthorised'
  <2>1. CASE QueuePunch(id, s, n) \/ DropPending(id)
    BY <2>1, <1>0 DEF QueuePunch, DropPending, NoEvent
  <2>2. CASE AcceptPunch(id, s, n)
    <3>1. ev' = [op |-> "bind", id |-> id, nonce |-> n, lag |-> pending[id].age]
      BY <2>2, Zenon DEF AcceptPunch, Bind, PendingOwned
    <3>2. armed' = armed /\ id \in DOMAIN pending /\ pending[id].nonce = n
          /\ pending[id].age <= PendingTTL
      BY <1>5, <2>2, Zenon DEF Register, AcceptPunch
    <3> QED
      BY <3>1, <3>2, Zenon DEF BindingAuthorised, PendingIsLastArmed
  <2> QED
    BY <1>5, <2>1, <2>2, Zenon DEF Register
<1>6. ASSUME NEW peer \in Ids, NEW s, DataLookup(s, peer)
      PROVE  BindingAuthorised'
  BY <1>6, <1>0, Zenon DEF DataLookup, NoEvent
<1>7. CASE DataForward
  <2>1. ev'.op = "none" \/ ev'.op = "sent"
    BY <1>7 DEF DataForward, Deliver, NoEvent
  <2> QED
    BY <2>1, <1>0, Zenon
<1>8. CASE GcOnce
  BY <1>8, <1>0, Zenon DEF GcOnce, NoEvent
<1>9. CASE Tick
  BY <1>9, <1>0, Zenon DEF Tick, NoEvent
<1>10. CASE UNCHANGED vars
  BY <1>10, Zenon DEF vars, BindingAuthorised
<1> QED
  BY <1>1, <1>2, <1>3, <1>4, <1>5, <1>6, <1>7, <1>8, <1>9, <1>10, DatagramTyped,
     Zenon DEF Next

\* The conjuncts together are inductive.
THEOREM SafetyInvariant == ASSUME NoWrap PROVE Spec => []SafetyInv
<1>1. Init => SafetyInv
  <2> SUFFICES ASSUME Init PROVE SafetyInv
    OBVIOUS
  <2>1. TypeOK
    BY PlaneConstants DEF Init, TypeOK, Idle, Table, FwdRow, Age
  <2>2. IdsFresh /\ OwnerIndexExact /\ ReverseIndexSound /\ PendingOwned /\ PendingIsLastArmed
    BY DEF Init, IdsFresh, OwnerIndexExact, ReverseIndexSound, PendingOwned, PendingIsLastArmed
  <2>3. BindingAuthorised
    BY Zenon DEF Init, NoEvent, BindingAuthorised
  <2> QED
    BY <2>1, <2>2, <2>3, Zenon DEF SafetyInv
<1>2. SafetyInv /\ [Next]_vars => SafetyInv'
  BY TypeStep, IdsFreshStep, OwnerIndexStep, ReverseIndexStep, PendingStep, BindingStep, Zenon
     DEF SafetyInv
<1> QED
  BY <1>1, <1>2, PTL DEF Spec

(***************************************************************************)
(* As long as the id counter has not wrapped: ForgetAgent finds exactly    *)
(* the agent's allocations; the data path's index never leads to the wrong *)
(* allocation; an armed nonce always has its live allocation and its owner *)
(* and no competing queued punch; and an endpoint is bound only by the     *)
(* nonce armed last, within pendingTTL.                                    *)
(***************************************************************************)
THEOREM ForwardSafety ==
    ASSUME NoWrap
    PROVE  Spec => [](OwnerIndexExact /\ ReverseIndexSound /\ PendingOwned /\ BindingAuthorised)
<1>1. SafetyInv => OwnerIndexExact /\ ReverseIndexSound /\ PendingOwned /\ BindingAuthorised
  BY Zenon DEF SafetyInv
<1> QED
  BY <1>1, SafetyInvariant, PTL

-----------------------------------------------------------------------------
(* An allocation that is heard from is not evicted *)

(***************************************************************************)
(* When no two allocations are ever punched from the same endpoint, the    *)
(* reverse index is also complete, so a datagram bumps the allocation      *)
(* bound to its source.  The invariant follows the data path across its    *)
(* unlocked window.  lastSeen is at least as recent as the last packet of  *)
(* the agent, except for the entry Run is about to bump (WarmOrInHand);    *)
(* and the time Run will store is at least as recent, although it is older *)
(* than what it overwrites when a queued punch was drained in between,     *)
(* because that punch came before the datagram (BumpIsHeard).              *)
(***************************************************************************)
DistinctEndpoints ==
    \A i, j \in Ids : i # j => PunchSrc[i] \cap PunchSrc[j] = {}

EndpointOwned ==
    /\ \A id \in DOMAIN byAlloc : byAlloc[id].src = NoSrc \/ byAlloc[id].src \in PunchSrc[id]
    /\ \A id \in DOMAIN queued : queued[id].src \in PunchSrc[id]

WarmOrInHand ==
    \A id \in DOMAIN byAlloc :
        byAlloc[id].age <= heard[id] \/ (InHand(id) /\ fwd.sender = byAlloc[id].ptr)

BumpIsHeard ==
    /\ fwd.sender <= issued
    /\ fwd.busy =>
          /\ \A id \in DOMAIN byAlloc : byAlloc[id].ptr = fwd.sender => fwd.age <= heard[id]
          /\ \A id \in DOMAIN queued :
                queued[id].age <= PendingTTL => fwd.age <= queued[id].age

WarmInv ==
    /\ SafetyInv
    /\ EndpointOwned
    /\ ReverseIndexComplete
    /\ WarmOrInHand
    /\ BumpIsHeard

\* The invalid address is nobody's endpoint.
LEMMA NoSrcInvalid == NoSrc \notin Srcs /\ \A id \in Ids : PunchSrc[id] \subseteq Srcs
BY PlaneConstants, Zenon DEF NoSrc, Srcs

\* Allocations and queued punches only ever carry endpoints of their own.
LEMMA EndpointStep ==
    ASSUME TypeOK, EndpointOwned, [Next]_vars
    PROVE  EndpointOwned'
<1> USE DEF EndpointOwned
<1>0. ASSUME SameOwners, \A id \in DOMAIN byAlloc : byAlloc'[id].src = byAlloc[id].src,
             UNCHANGED queued
      PROVE  EndpointOwned'
  BY <1>0, Zenon DEF SameOwners
<1>00. ASSUME NEW D, Remove(D), NEW F, queued' = Without(queued, F)
       PROVE  EndpointOwned'
  BY <1>00, Zenon DEF Remove, Without, Restrict
<1>1. ASSUME NEW u \in Uris, Allocate(u)
      PROVE  EndpointOwned'
  <2>1. /\ DOMAIN byAlloc' = DOMAIN byAlloc \cup {NextId}
        /\ byAlloc'[NextId].src = NoSrc
        /\ \A x \in DOMAIN byAlloc : x # NextId => byAlloc'[x] = byAlloc[x]
    BY <1>1, Zenon DEF Allocate, Put
  <2> QED
    BY <1>1, <2>1, Zenon DEF Allocate
<1>2. ASSUME NEW u \in Uris, ForgetAgent(u)
      PROVE  EndpointOwned'
  BY <1>2, <1>00, Zenon DEF ForgetAgent
<1>3. ASSUME NEW id \in Ids, Forget(id)
      PROVE  EndpointOwned'
  BY <1>3, <1>00, Zenon DEF Forget
<1>4. ASSUME NEW id \in Ids, NEW u \in Uris, NEW n \in Nonces, ArmPending(id, u, n)
      PROVE  EndpointOwned'
  <2>1. queued' = Without(queued, {id})
    BY <1>4, Zenon DEF ArmPending
  <2>2. \A x \in DOMAIN queued' : x \in DOMAIN queued /\ queued'[x] = queued[x]
    BY <2>1, Zenon DEF Without, Restrict
  <2>3. CASE Drains(id, n)
    <3>1. queued[id].src \in Srcs /\ queued[id].src \in PunchSrc[id] /\ id \in DOMAIN byAlloc
      BY <1>4, <2>3, Zenon DEF ArmPending, Drains, TypeOK, Table, QueuedRow
    <3>2. /\ DOMAIN byAlloc' = DOMAIN byAlloc
          /\ byAlloc'[id].src = queued[id].src
          /\ \A x \in DOMAIN byAlloc : x # id => byAlloc'[x] = byAlloc[x]
      BY <1>4, <2>3, <3>1, BindOwners, Zenon DEF ArmPending, SameOwners
    <3> QED
      BY <2>2, <3>1, <3>2, Zenon
  <2>4. CASE ~Drains(id, n)
    BY <1>4, <2>2, <2>4, Zenon DEF ArmPending
  <2> QED
    BY <2>3, <2>4, Zenon
<1>5. ASSUME NEW id \in Ids, NEW n \in Nonces, NEW s \in PunchSrc[id], Register(id, s, n)
      PROVE  EndpointOwned'
  <2>1. s \in Srcs
    BY NoSrcInvalid, Zenon
  <2>2. CASE QueuePunch(id, s, n)
    <3>1. /\ byAlloc' = byAlloc
          /\ DOMAIN queued' = DOMAIN queued \cup {id}
          /\ queued'[id].src = s
          /\ \A x \in DOMAIN queued : x # id => queued'[x] = queued[x]
      BY <2>2, Zenon DEF QueuePunch, Put
    <3> QED
      BY <3>1, Zenon
  <2>3. CASE DropPending(id)
    BY <2>3, Zenon DEF DropPending
  <2>4. CASE AcceptPunch(id, s, n)
    <3>1. CASE id \in DOMAIN byAlloc
      <4>1. /\ DOMAIN byAlloc' = DOMAIN byAlloc
            /\ byAlloc'[id].src = s
            /\ \A x \in DOMAIN byAlloc : x # id => byAlloc'[x] = byAlloc[x]
            /\ queued' = queued
        BY <2>1, <2>4, <3>1, BindOwners, Zenon DEF AcceptPunch, SameOwners
      <4> QED
        BY <4>1, Zenon
    <3>2. CASE id \notin DOMAIN byAlloc
      BY <2>4, <3>2, Zenon DEF AcceptPunch
    <3> QED
      BY <3>1, <3>2, Zenon
  <2> QED
    BY <1>5, <2>2, <2>3, <2>4, Zenon DEF Register
<1>6. ASSUME NEW peer \in Ids, NEW s, DataLookup(s, peer)
      PROVE  EndpointOwned'
  BY <1>6, Zenon DEF DataLookup, tables
<1>7. CASE DataForward
  BY <1>7, <1>0, ForwardOwners, Zenon DEF DataForward
<1>8. CASE GcOnce
  BY <1>8, <1>00, Zenon DEF GcOnce
<1>9. CASE Tick
  <2>1. /\ DOMAIN queued' = DOMAIN queued
        /\ \A id \in DOMAIN queued : queued'[id].src = queued[id].src
    BY <1>9, OlderQueued, Zenon DEF Tick, TypeOK
  <2> QED
    BY <1>9, <2>1, TickOwners, Zenon DEF SameOwners
<1>10. CASE UNCHANGED vars
  BY <1>10, Zenon DEF vars
<1> QED
  BY <1>1, <1>2, <1>3, <1>4, <1>5, <1>6, <1>7, <1>8, <1>9, <1>10, DatagramTyped,
     Zenon DEF Next

\* With distinct endpoints, a rebind leaves every alloc in the index.
LEMMA BindComplete ==
    ASSUME DistinctEndpoints, TypeOK, EndpointOwned, ReverseIndexComplete,
           NEW id \in DOMAIN byAlloc, NEW s \in PunchSrc[id], NEW n, NEW lag, Bind(id, s, n, lag)
    PROVE  ReverseIndexComplete'
<1>0. id \in Ids /\ s \in Srcs /\ s # NoSrc /\ DOMAIN byAlloc \subseteq Ids
  BY NoSrcInvalid, Zenon DEF TypeOK, Table
<1>1. /\ DOMAIN byAlloc' = DOMAIN byAlloc
      /\ byAlloc'[id].src = s
      /\ \A x \in DOMAIN byAlloc : x # id => byAlloc'[x] = byAlloc[x]
  BY <1>0, BindOwners, Zenon DEF SameOwners
<1>2. CASE byAlloc[id].src = s
  <2>1. src2id' = src2id
    BY <1>2, Zenon DEF Bind
  <2> QED
    BY <1>1, <1>2, <2>1 DEF ReverseIndexComplete
<1>3. CASE byAlloc[id].src # s
  <2>1. src2id' = Put(Without(src2id, {byAlloc[id].src}), s, id)
    BY <1>3, Zenon DEF Bind
  <2>2. /\ DOMAIN src2id' = (DOMAIN src2id \ {byAlloc[id].src}) \cup {s}
        /\ src2id'[s] = id
        /\ \A t \in DOMAIN src2id' : t # s => src2id'[t] = src2id[t]
    BY <2>1, Zenon DEF Put, Without, Restrict
  <2>3. ASSUME NEW x \in DOMAIN byAlloc, x # id, byAlloc[x].src # NoSrc
        PROVE  byAlloc[x].src # s /\ byAlloc[x].src # byAlloc[id].src
    BY <1>0, <2>3 DEF DistinctEndpoints, EndpointOwned
  <2> QED
    BY <1>1, <2>2, <2>3 DEF ReverseIndexComplete
<1> QED
  BY <1>2, <1>3, Zenon

\* Every step leaves each bound entry in the reverse index.
LEMMA CompleteStep ==
    ASSUME NoWrap, DistinctEndpoints, SafetyInv, EndpointOwned, ReverseIndexComplete, [Next]_vars
    PROVE  ReverseIndexComplete'
<1>a. TypeOK /\ IdsFresh /\ PendingOwned /\ DOMAIN byAlloc \subseteq Ids
  BY Zenon DEF SafetyInv, TypeOK, Table
<1>0. ASSUME SameOwners, \A id \in DOMAIN byAlloc : byAlloc'[id].src = byAlloc[id].src,
             UNCHANGED src2id
      PROVE  ReverseIndexComplete'
  BY <1>0, Zenon DEF ReverseIndexComplete, SameOwners
<1>00. ASSUME NEW D, D \subseteq DOMAIN byAlloc, Remove(D)
       PROVE  ReverseIndexComplete'
  <2>1. /\ DOMAIN byAlloc' = DOMAIN byAlloc \ D
        /\ \A x \in DOMAIN byAlloc' : byAlloc'[x] = byAlloc[x]
        /\ DOMAIN src2id' = DOMAIN src2id \ {byAlloc[id].src : id \in D}
        /\ \A t \in DOMAIN src2id' : src2id'[t] = src2id[t]
    BY <1>00, Zenon DEF Remove, Without, Restrict
  <2>2. ASSUME NEW x \in DOMAIN byAlloc', byAlloc[x].src # NoSrc, NEW id \in D
        PROVE  byAlloc[x].src # byAlloc[id].src
    <3>1. x \in Ids /\ id \in Ids /\ x # id /\ byAlloc[x].src \in PunchSrc[x]
      BY <1>a, <1>00, <2>1, <2>2, Zenon DEF EndpointOwned
    <3>2. byAlloc[id].src = NoSrc \/ byAlloc[id].src \in PunchSrc[id]
      BY <1>00, <2>2, Zenon DEF EndpointOwned
    <3> QED
      BY <2>2, <3>1, <3>2, Zenon DEF DistinctEndpoints
  <2> QED
    BY <2>1, <2>2 DEF ReverseIndexComplete
<1>1. ASSUME NEW u \in Uris, Allocate(u)
      PROVE  ReverseIndexComplete'
  <2>1. /\ DOMAIN byAlloc' = DOMAIN byAlloc \cup {NextId}
        /\ byAlloc'[NextId].src = NoSrc
        /\ \A x \in DOMAIN byAlloc : x # NextId => byAlloc'[x] = byAlloc[x]
        /\ src2id' = src2id
    BY <1>1, Zenon DEF Allocate, Put
  <2> QED
    BY <2>1, Zenon DEF ReverseIndexComplete
<1>2. ASSUME NEW u \in Uris, ForgetAgent(u)
      PROVE  ReverseIndexComplete'
  BY <1>2, <1>00, Zenon DEF ForgetAgent
<1>3. ASSUME NEW id \in Ids, Forget(id)
      PROVE  ReverseIndexComplete'
  BY <1>3, <1>00, Zenon DEF Forget
<1>4. ASSUME NEW id \in Ids, NEW u \in Uris, NEW n \in Nonces, ArmPending(id, u, n)
      PROVE  ReverseIndexComplete'
  <2>1. CASE Drains(id, n)
    <3>1. queued[id].src \in PunchSrc[id]
      BY <2>1, Zenon DEF Drains, EndpointOwned
    <3> QED
      BY <1>a, <1>4, <2>1, <3>1, BindComplete, Zenon DEF ArmPending
  <2>2. CASE ~Drains(id, n)
    BY <1>4, <2>2, Zenon DEF ArmPending, ReverseIndexComplete
  <2> QED
    BY <2>1, <2>2, Zenon
<1>5. ASSUME NEW id \in Ids, NEW n \in Nonces, NEW s \in PunchSrc[id], Register(id, s, n)
      PROVE  ReverseIndexComplete'
  <2>1. CASE QueuePunch(id, s, n) \/ DropPending(id)
    BY <2>1, Zenon DEF QueuePunch, DropPending, ReverseIndexComplete
  <2>2. CASE AcceptPunch(id, s, n)
    <3>1. id \in DOMAIN byAlloc
      BY <1>a, <2>2, Zenon DEF AcceptPunch, PendingOwned
    <3> QED
      BY <1>a, <2>2, <3>1, BindComplete, Zenon DEF AcceptPunch
  <2> QED
    BY <1>5, <2>1, <2>2, Zenon DEF Register
<1>6. ASSUME NEW peer \in Ids, NEW s, DataLookup(s, peer)
      PROVE  ReverseIndexComplete'
  BY <1>6, Zenon DEF DataLookup, tables, ReverseIndexComplete
<1>7. CASE DataForward
  BY <1>7, <1>a, <1>0, ForwardOwners, Zenon DEF DataForward
<1>8. CASE GcOnce
  BY <1>8, <1>00, Zenon DEF GcOnce
<1>9. CASE Tick
  BY <1>9, <1>a, <1>0, TickOwners, Zenon DEF Tick
<1>10. CASE UNCHANGED vars
  BY <1>10, Zenon DEF vars, ReverseIndexComplete
<1> QED
  BY <1>1, <1>2, <1>3, <1>4, <1>5, <1>6, <1>7, <1>8, <1>9, <1>10, DatagramTyped,
     Zenon DEF Next

\* The numbers the two invariants compare.
LEMMA Ages ==
    ASSUME TypeOK
    PROVE  /\ \A id \in DOMAIN byAlloc : byAlloc[id].age \in Nat /\ byAlloc[id].ptr \in Nat
           /\ \A id \in DOMAIN byAlloc : heard[id] \in Nat /\ heard[id] <= IdleTTL + 1
           /\ \A id \in DOMAIN queued : queued[id].age \in Nat
           /\ fwd.age \in Nat /\ fwd.age <= IdleTTL + 1 /\ fwd.sender \in Nat
           /\ issued \in Nat
<1>1. \A a \in Age(IdleTTL) : a \in Nat /\ a <= IdleTTL + 1
  BY PlaneConstants DEF Age
<1>2. \A a \in Age(PendingTTL) : a \in Nat
  BY PlaneConstants DEF Age
<1>3. issued \in Nat
  BY PlaneConstants DEF TypeOK
<1>4. \A id \in DOMAIN byAlloc :
          byAlloc[id].age \in Age(IdleTTL) /\ heard[id] \in Age(IdleTTL) /\ byAlloc[id].ptr \in Nat
  BY Zenon DEF TypeOK, Table, AllocRow
<1>5. \A id \in DOMAIN queued : queued[id].age \in Age(PendingTTL)
  BY Zenon DEF TypeOK, Table, QueuedRow
<1>6. fwd.age \in Age(IdleTTL) /\ fwd.sender \in Nat
  BY Zenon DEF TypeOK, FwdRow
<1> QED
  BY <1>1, <1>2, <1>3, <1>4, <1>5, <1>6, Zenon

\* What a drained punch leaves in heard is no more recent than Run's noted time.
LEMMA DrainedBefore ==
    ASSUME TypeOK, BumpIsHeard, fwd.busy, NEW id \in DOMAIN byAlloc, byAlloc[id].ptr = fwd.sender,
           NEW n, Drains(id, n)
    PROVE  fwd.age <= LastHeard(id, queued[id])
<1>1. id \in DOMAIN queued /\ queued[id].age <= PendingTTL
  BY Ages, PlaneConstants DEF Drains
<1>2. fwd.age <= heard[id] /\ fwd.age <= queued[id].age
  BY <1>1, Zenon DEF BumpIsHeard
<1> QED
  BY <1>2, Ages DEF LastHeard

\* The time Run will store stays no older than the sender's last packet.
LEMMA BumpStep ==
    ASSUME NoWrap, SafetyInv, BumpIsHeard, [Next]_vars
    PROVE  BumpIsHeard'
<1>a. /\ TypeOK /\ PendingOwned
      /\ \A id \in DOMAIN byAlloc : id \in Nat /\ 1 <= id /\ id <= issued /\ byAlloc[id].ptr = id
  BY PlaneConstants DEF SafetyInv, TypeOK, Table, IdsFresh, Ids
<1>b. DOMAIN heard = DOMAIN byAlloc
  BY <1>a, Zenon DEF TypeOK
<1>0. ASSUME NEW D, Remove(D), NEW F, queued' = Without(queued, F), UNCHANGED <<fwd, issued>>
      PROVE  BumpIsHeard'
  BY <1>b, <1>0, Zenon DEF BumpIsHeard, Remove, Without, Restrict
<1>1. ASSUME NEW u \in Uris, Allocate(u)
      PROVE  BumpIsHeard'
  <2>1. /\ DOMAIN byAlloc' = DOMAIN byAlloc \cup {NextId}
        /\ byAlloc'[NextId].ptr = issued + 1
        /\ \A x \in DOMAIN byAlloc : x # NextId => byAlloc'[x] = byAlloc[x]
        /\ \A x \in DOMAIN heard : x # NextId => heard'[x] = heard[x]
        /\ fwd' = fwd /\ issued' = issued + 1 /\ queued' = queued
    BY <1>1, Zenon DEF Allocate, Put
  <2>2. fwd.sender <= issued + 1 /\ fwd.sender # issued + 1
    BY <1>a, Ages DEF BumpIsHeard
  <2> QED
    BY <1>b, <2>1, <2>2, Zenon DEF BumpIsHeard
<1>2. ASSUME NEW u \in Uris, ForgetAgent(u)
      PROVE  BumpIsHeard'
  BY <1>2, <1>0, Zenon DEF ForgetAgent
<1>3. ASSUME NEW id \in Ids, Forget(id)
      PROVE  BumpIsHeard'
  BY <1>3, <1>0, Zenon DEF Forget
<1>4. ASSUME NEW id \in Ids, NEW u \in Uris, NEW n \in Nonces, ArmPending(id, u, n)
      PROVE  BumpIsHeard'
  <2>1. /\ \A x \in DOMAIN queued' : x \in DOMAIN queued /\ queued'[x] = queued[x]
        /\ issued' = issued /\ id \in DOMAIN byAlloc
    BY <1>4, Zenon DEF ArmPending, Without, Restrict
  <2>2. CASE Drains(id, n)
    <3>1. SameOwners
      BY <1>a, <1>4, ArmOwners, Zenon
    <3>2. /\ heard'[id] = LastHeard(id, queued[id])
          /\ \A x \in DOMAIN heard : x # id => heard'[x] = heard[x]
      BY <1>4, <2>2, Zenon DEF ArmPending, Put
    <3>3. fwd'.busy = fwd.busy /\ fwd'.sender = fwd.sender /\ fwd'.age = fwd.age
      BY <1>a, <1>4, <2>2, DrainFwd, Zenon
    <3>4. fwd.busy /\ byAlloc[id].ptr = fwd.sender => fwd.age <= LastHeard(id, queued[id])
      BY <1>a, <2>1, <2>2, DrainedBefore, Zenon
    <3>5. ASSUME NEW x \in DOMAIN byAlloc, fwd.busy, byAlloc[x].ptr = fwd.sender
          PROVE  fwd.age <= heard'[x]
      <4>1. CASE x = id
        BY <3>2, <3>4, <3>5, <4>1, Zenon
      <4>2. CASE x # id
        BY <1>b, <3>2, <3>5, <4>2, Zenon DEF BumpIsHeard
      <4> QED
        BY <4>1, <4>2, Zenon
    <3> QED
      BY <2>1, <3>1, <3>3, <3>5, Zenon DEF BumpIsHeard, SameOwners
  <2>3. CASE ~Drains(id, n)
    BY <1>4, <2>1, <2>3, Zenon DEF ArmPending, BumpIsHeard
  <2> QED
    BY <2>2, <2>3, Zenon
<1>5. ASSUME NEW id \in Ids, NEW n \in Nonces, NEW s \in PunchSrc[id], Register(id, s, n)
      PROVE  BumpIsHeard'
  BY <1>5, Zenon DEF Register, BumpIsHeard
<1>6. ASSUME NEW peer \in Ids, NEW s \in Srcs, DataLookup(s, peer)
      PROVE  BumpIsHeard'
  <2>1. /\ fwd'.sender = IF s \in DOMAIN src2id /\ src2id[s] \in DOMAIN byAlloc
                         THEN byAlloc[src2id[s]].ptr ELSE 0
        /\ fwd'.age = 0
        /\ byAlloc' = byAlloc /\ issued' = issued /\ queued' = queued
        /\ heard' = [x \in DOMAIN heard |-> IF byAlloc[x].src = s THEN 0 ELSE heard[x]]
    BY <1>6, Zenon DEF DataLookup, Hear, tables
  <2>2. fwd'.sender <= issued
    BY <1>a, <2>1, Ages
  <2>3. \A x \in DOMAIN byAlloc : 0 <= heard'[x]
    BY <1>a, <1>b, <2>1, Ages
  <2>4. \A x \in DOMAIN queued : 0 <= queued[x].age
    BY <1>a, Ages
  <2> QED
    BY <2>1, <2>2, <2>3, <2>4, Zenon DEF BumpIsHeard
<1>7. CASE DataForward
  <2>1. fwd'.sender = 0 /\ fwd'.busy = FALSE /\ issued' = issued
    BY <1>7, Zenon DEF DataForward, Deliver, Idle
  <2>2. 0 <= issued
    BY <1>a, Ages
  <2> QED
    BY <2>1, <2>2, Zenon DEF BumpIsHeard
<1>8. CASE GcOnce
  BY <1>8, <1>0, Zenon DEF GcOnce
<1>9. CASE Tick
  <2>1. /\ fwd'.busy = fwd.busy /\ fwd'.sender = fwd.sender /\ issued' = issued
        /\ fwd'.age = IF ~fwd.busy \/ fwd.age > IdleTTL THEN fwd.age ELSE fwd.age + 1
    BY <1>a, <1>9, TickFwd, Zenon DEF Tick
  <2>2. SameOwners
    BY <1>a, <1>9, TickOwners, Zenon
  <2>3. \A x \in DOMAIN byAlloc :
            heard'[x] = IF heard[x] > IdleTTL THEN heard[x] ELSE heard[x] + 1
    BY <1>b, <1>9, Zenon DEF Tick
  <2>4. /\ DOMAIN queued' = DOMAIN queued
        /\ \A x \in DOMAIN queued :
              queued'[x].age = IF queued[x].age > PendingTTL THEN queued[x].age
                                                             ELSE queued[x].age + 1
    BY <1>a, <1>9, OlderQueued, Zenon DEF Tick, TypeOK
  <2>5. ASSUME fwd.busy, NEW x \in DOMAIN byAlloc, byAlloc[x].ptr = fwd.sender
        PROVE  fwd'.age <= heard'[x]
    <3>1. fwd.age <= heard[x]
      BY <2>5, Zenon DEF BumpIsHeard
    <3> QED
      BY <1>a, <2>1, <2>3, <2>5, <3>1, Ages, PlaneConstants
  <2>6. ASSUME fwd.busy, NEW x \in DOMAIN queued, queued'[x].age <= PendingTTL
        PROVE  fwd'.age <= queued'[x].age
    <3>1. queued[x].age <= PendingTTL /\ queued'[x].age = queued[x].age + 1
      BY <1>a, <2>4, <2>6, Ages, PlaneConstants
    <3>2. fwd.age <= queued[x].age
      BY <2>6, <3>1, Zenon DEF BumpIsHeard
    <3> QED
      BY <1>a, <2>1, <3>1, <3>2, Ages, PlaneConstants
  <2> QED
    BY <2>1, <2>2, <2>4, <2>5, <2>6, Zenon DEF BumpIsHeard, SameOwners
<1>10. CASE UNCHANGED vars
  BY <1>10, Zenon DEF vars, BumpIsHeard
<1> QED
  BY <1>1, <1>2, <1>3, <1>4, <1>5, <1>6, <1>7, <1>8, <1>9, <1>10, DatagramTyped,
     Zenon DEF Next

\* lastSeen stays at least as recent as the last packet, or Run is about to store it.
LEMMA WarmStep ==
    ASSUME NoWrap, SafetyInv, ReverseIndexComplete, WarmOrInHand, BumpIsHeard, [Next]_vars
    PROVE  WarmOrInHand'
<1>a. /\ TypeOK /\ PendingOwned /\ DOMAIN heard = DOMAIN byAlloc
      /\ \A id \in DOMAIN byAlloc : byAlloc[id] \in AllocRow
  BY Zenon DEF SafetyInv, TypeOK, Table
<1> USE DEF WarmOrInHand, InHand
<1>0. ASSUME NEW id \in DOMAIN byAlloc, NEW s \in Srcs, NEW n, NEW lag, Bind(id, s, n, lag),
             NEW a \in Nat, heard' = Put(heard, id, a),
             fwd'.busy = fwd.busy, fwd'.from = fwd.from, fwd'.sender = fwd.sender
      PROVE  WarmOrInHand'
  <2>1. /\ DOMAIN byAlloc' = DOMAIN byAlloc
        /\ byAlloc'[id].age = 0
        /\ \A x \in DOMAIN byAlloc : x # id => byAlloc'[x] = byAlloc[x]
    BY <1>a, <1>0, BindOwners, Zenon DEF SameOwners
  <2>2. heard'[id] = a /\ \A x \in DOMAIN heard : x # id => heard'[x] = heard[x]
    BY <1>0, Zenon DEF Put
  <2>3. 0 <= a
    OBVIOUS
  <2> QED
    BY <1>a, <1>0, <2>1, <2>2, <2>3, Zenon
<1>00. ASSUME NEW D, Remove(D), UNCHANGED fwd
       PROVE  WarmOrInHand'
  BY <1>a, <1>00, Zenon DEF Remove, Without, Restrict
<1>1. ASSUME NEW u \in Uris, Allocate(u)
      PROVE  WarmOrInHand'
  <2>1. /\ DOMAIN byAlloc' = DOMAIN byAlloc \cup {NextId}
        /\ byAlloc'[NextId].age = 0
        /\ \A x \in DOMAIN byAlloc : x # NextId => byAlloc'[x] = byAlloc[x]
        /\ fwd' = fwd
    BY <1>1, Zenon DEF Allocate, Put
  <2>2. heard'[NextId] = 0 /\ \A x \in DOMAIN heard : x # NextId => heard'[x] = heard[x]
    BY <1>1, Zenon DEF Allocate, Put
  <2>3. 0 <= 0
    OBVIOUS
  <2> QED
    BY <1>a, <2>1, <2>2, <2>3, Zenon
<1>2. ASSUME NEW u \in Uris, ForgetAgent(u)
      PROVE  WarmOrInHand'
  BY <1>2, <1>00, Zenon DEF ForgetAgent
<1>3. ASSUME NEW id \in Ids, Forget(id)
      PROVE  WarmOrInHand'
  BY <1>3, <1>00, Zenon DEF Forget
<1>4. ASSUME NEW id \in Ids, NEW u \in Uris, NEW n \in Nonces, ArmPending(id, u, n)
      PROVE  WarmOrInHand'
  <2>1. CASE Drains(id, n)
    <3>1. queued[id] \in QueuedRow /\ queued[id].src \in Srcs /\ id \in DOMAIN byAlloc
      BY <1>a, <1>4, <2>1, Zenon DEF ArmPending, Drains, TypeOK, Table, QueuedRow
    <3>2. LastHeard(id, queued[id]) \in Age(IdleTTL)
      BY <1>a, <3>1, LastHeardType, Zenon
    <3>3. LastHeard(id, queued[id]) \in Nat
      BY <3>2, PlaneConstants DEF Age
    <3>4. fwd'.busy = fwd.busy /\ fwd'.from = fwd.from /\ fwd'.sender = fwd.sender
      BY <1>a, <1>4, <2>1, DrainFwd, Zenon
    <3> QED
      BY <1>4, <2>1, <3>1, <3>3, <3>4, <1>0, Zenon DEF ArmPending
  <2>2. CASE ~Drains(id, n)
    BY <1>4, <2>2, Zenon DEF ArmPending
  <2> QED
    BY <2>1, <2>2, Zenon
<1>5. ASSUME NEW id \in Ids, NEW n \in Nonces, NEW s \in PunchSrc[id], Register(id, s, n)
      PROVE  WarmOrInHand'
  <2>1. CASE QueuePunch(id, s, n) \/ DropPending(id)
    BY <1>5, <2>1, Zenon DEF Register, QueuePunch, DropPending
  <2>2. CASE AcceptPunch(id, s, n)
    <3>1. id \in DOMAIN byAlloc /\ s \in Srcs /\ 0 \in Nat
      BY <1>a, <2>2, NoSrcInvalid DEF AcceptPunch, PendingOwned
    <3>2. fwd' = fwd
      BY <1>5, Zenon DEF Register
    <3> QED
      BY <2>2, <3>1, <3>2, <1>0, Zenon DEF AcceptPunch
  <2> QED
    BY <1>5, <2>1, <2>2, Zenon DEF Register
<1>6. ASSUME NEW peer \in Ids, NEW s \in Srcs, DataLookup(s, peer)
      PROVE  WarmOrInHand'
  <2>1. /\ ~fwd.busy /\ fwd'.busy = TRUE /\ fwd'.from = s /\ byAlloc' = byAlloc
        /\ fwd'.sender = IF s \in DOMAIN src2id /\ src2id[s] \in DOMAIN byAlloc
                         THEN byAlloc[src2id[s]].ptr ELSE 0
        /\ heard' = [x \in DOMAIN heard |-> IF byAlloc[x].src = s THEN 0 ELSE heard[x]]
    BY <1>6, Zenon DEF DataLookup, Hear, tables
  <2>2. ASSUME NEW x \in DOMAIN byAlloc, byAlloc[x].src = s
        PROVE  fwd'.sender = byAlloc[x].ptr
    <3>1. s # NoSrc
      BY NoSrcInvalid, Zenon
    <3>2. s \in DOMAIN src2id /\ src2id[s] = x
      BY <2>2, <3>1, Zenon DEF ReverseIndexComplete
    <3> QED
      BY <2>1, <3>2, Zenon
  <2>3. \A x \in DOMAIN byAlloc : byAlloc[x].src # s => byAlloc[x].age <= heard'[x]
    BY <1>a, <2>1, Zenon
  <2> QED
    BY <2>1, <2>2, <2>3, Zenon
<1>7. CASE DataForward
  <2>1. fwd.busy /\ DOMAIN byAlloc' = DOMAIN byAlloc /\ heard' = heard
    BY <1>7, Zenon DEF DataForward
  <2>2. fwd.age \in Age(IdleTTL)
    BY <1>a, Zenon DEF TypeOK, FwdRow
  <2>3. ASSUME NEW id \in DOMAIN byAlloc
        PROVE  byAlloc'[id].age <= heard[id]
    <3>1. CASE byAlloc[id].ptr = fwd.sender
      <4>1. byAlloc'[id] = [byAlloc[id] EXCEPT !.age = fwd.age]
        BY <1>7, <3>1, Zenon DEF DataForward
      <4>2. byAlloc'[id].age = fwd.age
        BY <1>a, <4>1 DEF AllocRow
      <4> QED
        BY <2>1, <3>1, <4>2, Zenon DEF BumpIsHeard
    <3>2. CASE byAlloc[id].ptr # fwd.sender
      <4>1. byAlloc'[id] = byAlloc[id]
        BY <1>7, <3>2, Zenon DEF DataForward
      <4> QED
        BY <3>2, <4>1, Zenon
    <3> QED
      BY <3>1, <3>2, Zenon
  <2> QED
    BY <2>1, <2>3, Zenon
<1>8. CASE GcOnce
  BY <1>8, <1>00, Zenon DEF GcOnce
<1>9. CASE Tick
  <2>1. /\ DOMAIN byAlloc' = DOMAIN byAlloc
        /\ \A id \in DOMAIN byAlloc :
              byAlloc'[id].age = IF byAlloc[id].age > IdleTTL THEN byAlloc[id].age
                                                              ELSE byAlloc[id].age + 1
    BY <1>a, <1>9, OlderAlloc, Zenon DEF Tick, TypeOK
  <2>2. \A id \in DOMAIN byAlloc :
            heard'[id] = IF heard[id] > IdleTTL THEN heard[id] ELSE heard[id] + 1
    BY <1>a, <1>9, Zenon DEF Tick
  <2>3. fwd'.busy = fwd.busy /\ fwd'.from = fwd.from /\ fwd'.sender = fwd.sender
    BY <1>a, <1>9, TickFwd, Zenon
  <2>4. \A id \in DOMAIN byAlloc :
            byAlloc'[id].src = byAlloc[id].src /\ byAlloc'[id].ptr = byAlloc[id].ptr
    BY <1>a, <1>9, TickOwners, Zenon DEF SameOwners
  <2>5. \A id \in DOMAIN byAlloc :
            byAlloc[id].age <= heard[id] => byAlloc'[id].age <= heard'[id]
    <3>1. \A id \in DOMAIN byAlloc :
              byAlloc[id].age <= IdleTTL + 1 /\ byAlloc[id].age \in Nat /\ heard[id] \in Nat
      BY <1>a, Ages, PlaneConstants DEF AllocRow, Age
    <3> QED
      BY <2>1, <2>2, <3>1, PlaneConstants
  <2> QED
    BY <2>1, <2>3, <2>4, <2>5, Zenon
<1>10. CASE UNCHANGED vars
  BY <1>10, Zenon DEF vars
<1> QED
  BY <1>1, <1>2, <1>3, <1>4, <1>5, <1>6, <1>7, <1>8, <1>9, <1>10, DatagramTyped,
     Zenon DEF Next

\* The strengthened invariant holds in every reachable state.
LEMMA WarmInvariant == ASSUME NoWrap, DistinctEndpoints PROVE Spec => []WarmInv
<1>1. Init => EndpointOwned /\ ReverseIndexComplete /\ WarmOrInHand /\ BumpIsHeard
  BY DEF Init, Idle, EndpointOwned, ReverseIndexComplete, WarmOrInHand, BumpIsHeard
<1>2. SafetyInv /\ WarmInv /\ [Next]_vars /\ SafetyInv' => WarmInv'
  <2>1. SafetyInv => TypeOK
    BY Zenon DEF SafetyInv
  <2> QED
    BY <2>1, EndpointStep, CompleteStep, BumpStep, WarmStep, Zenon DEF WarmInv
<1>3. Init /\ SafetyInv => WarmInv
  BY <1>1, Zenon DEF WarmInv
<1> QED
  BY <1>2, <1>3, SafetyInvariant, PTL DEF Spec

(***************************************************************************)
(* With an unwrapped counter and distinct endpoints, the four maps of the  *)
(* plane describe the same allocations at every step of Allocate,          *)
(* ArmPending, register, Forget, ForgetAgent, Run and gcOnce: removal      *)
(* leaves no index row behind, and a rebind takes the old endpoint's row   *)
(* with it.                                                                *)
(***************************************************************************)
THEOREM TablesInStep ==
    ASSUME NoWrap, DistinctEndpoints
    PROVE  Spec => []TablesAgree
<1>1. WarmInv => TablesAgree
  BY Zenon DEF WarmInv, SafetyInv, TablesAgree
<1> QED
  BY <1>1, WarmInvariant, PTL

(***************************************************************************)
(* Under the same conditions gcOnce evicts an allocation only when no      *)
(* packet of its agent arrived within idleTTL, or while Run holds one it   *)
(* has not yet stamped, even though Run stamps lastSeen after it has       *)
(* released the lock and with a time that may be older than lastSeen.      *)
(***************************************************************************)
THEOREM HealthyKeptWarm ==
    ASSUME NoWrap, DistinctEndpoints
    PROVE  Spec => KeptWarm
<1>1. WarmInv => \A id \in DOMAIN byAlloc \ DOMAIN byAlloc' :
                    GcOnce => heard[id] > IdleTTL \/ InHand(id)
  <2> SUFFICES ASSUME WarmInv, GcOnce, NEW id \in DOMAIN byAlloc \ DOMAIN byAlloc'
               PROVE  heard[id] > IdleTTL \/ InHand(id)
    BY Zenon
  <2>1. byAlloc' = Without(byAlloc, {x \in DOMAIN byAlloc : byAlloc[x].age > IdleTTL})
    BY Zenon DEF GcOnce, Remove
  <2>2. byAlloc[id].age > IdleTTL
    BY <2>1, Zenon DEF Without, Restrict
  <2>3. byAlloc[id].age \in Nat /\ heard[id] \in Nat /\ IdleTTL \in Nat
    BY Ages, PlaneConstants DEF WarmInv, SafetyInv
  <2>4. byAlloc[id].age <= heard[id] \/ InHand(id)
    BY Zenon DEF WarmInv, WarmOrInHand
  <2> QED
    BY <2>2, <2>3, <2>4
<1> QED
  BY <1>1, WarmInvariant, PTL DEF Spec, KeptWarm

-----------------------------------------------------------------------------
(* Where a datagram goes *)

(***************************************************************************)
(* When an agent changes only its port, what Run may read of the entry it  *)
(* holds is one of the endpoints the entry has had since the lookup.  The  *)
(* counter may wrap here: an entry's identity is the number of its         *)
(* Allocate call, so no two live entries share one (PtrsDistinct) and an   *)
(* entry Allocate put in place of the one Run holds adds nothing to what   *)
(* Run reads.  The invariant ties the entry held to the id it was looked   *)
(* up under.                                                               *)
(***************************************************************************)
OneAddress == \A id \in Ids : \A s, t \in PunchSrc[id] : s[1] = t[1]

PtrsDistinct ==
    /\ fwd.peer <= issued
    /\ \A id \in DOMAIN byAlloc : byAlloc[id].ptr <= issued
    /\ \A i, j \in DOMAIN byAlloc : byAlloc[i].ptr = byAlloc[j].ptr => i = j

AimedAtPeer ==
    /\ \A id \in DOMAIN byAlloc : byAlloc[id].ptr = fwd.peer => id = fwd.to
    /\ \A s \in fwd.srcs : s # NoSrc => fwd.to \in Ids /\ s \in PunchSrc[fwd.to] /\ s \in fwd.reg

AimInv ==
    /\ TypeOK
    /\ EndpointOwned
    /\ PtrsDistinct
    /\ AimedAtPeer
    /\ DeliveredToRegistered

\* An entry keeps its number, and a new entry gets a new one.
LEMMA PtrStep ==
    ASSUME TypeOK, PtrsDistinct, [Next]_vars
    PROVE  PtrsDistinct'
<1>a. /\ issued \in Nat /\ fwd.peer \in Nat
      /\ \A id \in DOMAIN byAlloc : byAlloc[id].ptr \in Nat
  BY PlaneConstants DEF TypeOK, Table, AllocRow, FwdRow
<1>0. ASSUME SameOwners, fwd'.peer = fwd.peer, UNCHANGED issued
      PROVE  PtrsDistinct'
  BY <1>0, Zenon DEF PtrsDistinct, SameOwners
<1>00. ASSUME NEW D, Remove(D), UNCHANGED <<fwd, issued>>
       PROVE  PtrsDistinct'
  BY <1>00, Zenon DEF PtrsDistinct, Remove, Without, Restrict
<1>1. ASSUME NEW u \in Uris, Allocate(u)
      PROVE  PtrsDistinct'
  <2>1. /\ DOMAIN byAlloc' = DOMAIN byAlloc \cup {NextId}
        /\ byAlloc'[NextId].ptr = issued + 1
        /\ \A x \in DOMAIN byAlloc : x # NextId => byAlloc'[x] = byAlloc[x]
        /\ fwd' = fwd /\ issued' = issued + 1
    BY <1>1, Zenon DEF Allocate, Put
  <2>2. /\ fwd.peer <= issued + 1
        /\ \A x \in DOMAIN byAlloc : byAlloc[x].ptr <= issued + 1 /\ byAlloc[x].ptr # issued + 1
        /\ issued + 1 <= issued + 1
    BY <1>a DEF PtrsDistinct
  <2> QED
    BY <2>1, <2>2, Zenon DEF PtrsDistinct
<1>2. ASSUME NEW u \in Uris, ForgetAgent(u)
      PROVE  PtrsDistinct'
  BY <1>2, <1>00, Zenon DEF ForgetAgent
<1>3. ASSUME NEW id \in Ids, Forget(id)
      PROVE  PtrsDistinct'
  BY <1>3, <1>00, Zenon DEF Forget
<1>4. ASSUME NEW id \in Ids, NEW u \in Uris, NEW n \in Nonces, ArmPending(id, u, n)
      PROVE  PtrsDistinct'
  <2>1. fwd'.peer = fwd.peer
    BY <1>4, DrainFwd, Zenon DEF ArmPending
  <2> QED
    BY <1>4, <2>1, <1>0, ArmOwners, Zenon DEF ArmPending
<1>5. ASSUME NEW id \in Ids, NEW n \in Nonces, NEW s \in PunchSrc[id], Register(id, s, n)
      PROVE  PtrsDistinct'
  <2>1. SameOwners
    BY <1>5, RegisterOwners, Zenon
  <2> QED
    BY <1>5, <2>1, <1>0, Zenon DEF Register
<1>6. ASSUME NEW peer \in Ids, NEW s, DataLookup(s, peer)
      PROVE  PtrsDistinct'
  <2>1. /\ fwd'.peer = IF peer \in DOMAIN byAlloc THEN byAlloc[peer].ptr ELSE 0
        /\ byAlloc' = byAlloc /\ issued' = issued
    BY <1>6, Zenon DEF DataLookup, tables
  <2>2. 0 <= issued
    BY <1>a
  <2> QED
    BY <2>1, <2>2, Zenon DEF PtrsDistinct
<1>7. CASE DataForward
  <2>1. fwd'.peer = 0 /\ issued' = issued
    BY <1>7, Zenon DEF DataForward, Deliver, Idle
  <2>2. 0 <= issued
    BY <1>a
  <2> QED
    BY <1>7, <2>1, <2>2, ForwardOwners, Zenon DEF PtrsDistinct, SameOwners
<1>8. CASE GcOnce
  BY <1>8, <1>00, Zenon DEF GcOnce
<1>9. CASE Tick
  BY <1>9, <1>0, TickOwners, TickFwd, Zenon DEF Tick
<1>10. CASE UNCHANGED vars
  BY <1>10, Zenon DEF vars, PtrsDistinct
<1> QED
  BY <1>1, <1>2, <1>3, <1>4, <1>5, <1>6, <1>7, <1>8, <1>9, <1>10, DatagramTyped,
     Zenon DEF Next

\* The entry Run holds stays the one of the id it was looked up under.
LEMMA AimStep ==
    ASSUME TypeOK, EndpointOwned, PtrsDistinct, AimedAtPeer, [Next]_vars
    PROVE  AimedAtPeer'
<1>a. /\ DOMAIN byAlloc \subseteq Ids
      /\ \A id \in DOMAIN byAlloc : byAlloc[id].ptr # 0
  BY Zenon DEF TypeOK, Table, AllocRow
<1>0. ASSUME SameOwners, fwd'.peer = fwd.peer, fwd'.to = fwd.to, fwd'.srcs = fwd.srcs,
             fwd'.reg = fwd.reg
      PROVE  AimedAtPeer'
  BY <1>0, Zenon DEF AimedAtPeer, SameOwners
<1>00. ASSUME NEW D, Remove(D), UNCHANGED fwd
       PROVE  AimedAtPeer'
  BY <1>00, Zenon DEF AimedAtPeer, Remove, Without, Restrict
<1>1. ASSUME NEW u \in Uris, Allocate(u)
      PROVE  AimedAtPeer'
  <2>1. /\ DOMAIN byAlloc' = DOMAIN byAlloc \cup {NextId}
        /\ byAlloc'[NextId].ptr = issued + 1
        /\ \A x \in DOMAIN byAlloc : x # NextId => byAlloc'[x] = byAlloc[x]
        /\ fwd' = fwd
    BY <1>1, Zenon DEF Allocate, Put
  <2>2. fwd.peer # issued + 1
    BY PlaneConstants DEF PtrsDistinct, TypeOK, FwdRow
  <2> QED
    BY <2>1, <2>2, Zenon DEF AimedAtPeer
<1>2. ASSUME NEW u \in Uris, ForgetAgent(u)
      PROVE  AimedAtPeer'
  BY <1>2, <1>00, Zenon DEF ForgetAgent
<1>3. ASSUME NEW id \in Ids, Forget(id)
      PROVE  AimedAtPeer'
  BY <1>3, <1>00, Zenon DEF Forget
<1>4. ASSUME NEW id \in Ids, NEW u \in Uris, NEW n \in Nonces, ArmPending(id, u, n)
      PROVE  AimedAtPeer'
  <2>1. SameOwners
    BY <1>4, ArmOwners, Zenon
  <2>2. CASE Drains(id, n)
    <3>1. /\ fwd'.peer = fwd.peer /\ fwd'.to = fwd.to
          /\ fwd'.srcs = IF fwd.peer = byAlloc[id].ptr THEN fwd.srcs \cup {queued[id].src}
                                                       ELSE fwd.srcs
          /\ fwd'.reg = IF fwd.to = id THEN fwd.reg \cup {queued[id].src} ELSE fwd.reg
      BY <1>4, <2>2, DrainFwd, Zenon
    <3>2. queued[id].src \in PunchSrc[id] /\ id \in DOMAIN byAlloc
      BY <1>4, <2>2, Zenon DEF ArmPending, Drains, EndpointOwned
    <3>3. fwd.peer = byAlloc[id].ptr => id = fwd.to
      BY <3>2, Zenon DEF AimedAtPeer
    <3>4. \A s \in fwd'.srcs : s # NoSrc =>
             fwd'.to \in Ids /\ s \in PunchSrc[fwd'.to] /\ s \in fwd'.reg
      BY <3>1, <3>2, <3>3 DEF AimedAtPeer
    <3> QED
      BY <2>1, <3>1, <3>4, Zenon DEF AimedAtPeer, SameOwners
  <2>3. CASE ~Drains(id, n)
    BY <1>4, <2>1, <2>3, <1>0, Zenon DEF ArmPending
  <2> QED
    BY <2>2, <2>3, Zenon
<1>5. ASSUME NEW id \in Ids, NEW n \in Nonces, NEW s \in PunchSrc[id], Register(id, s, n)
      PROVE  AimedAtPeer'
  <2>1. SameOwners
    BY <1>5, RegisterOwners, Zenon
  <2> QED
    BY <1>5, <2>1, <1>0, Zenon DEF Register
<1>6. ASSUME NEW peer \in Ids, NEW s, DataLookup(s, peer)
      PROVE  AimedAtPeer'
  <2>1. byAlloc' = byAlloc
    BY <1>6, Zenon DEF DataLookup, tables
  <2>2. CASE peer \in DOMAIN byAlloc
    <3>1. /\ fwd'.to = peer /\ fwd'.peer = byAlloc[peer].ptr /\ fwd'.srcs = {byAlloc[peer].src}
          /\ fwd'.reg = {byAlloc[peer].src} \ {NoSrc}
      BY <1>6, <2>2, Zenon DEF DataLookup
    <3>2. \A s1 \in fwd'.srcs : s1 # NoSrc =>
             fwd'.to \in Ids /\ s1 \in PunchSrc[fwd'.to] /\ s1 \in fwd'.reg
      BY <2>2, <3>1 DEF EndpointOwned
    <3> QED
      BY <2>1, <2>2, <3>1, <3>2, Zenon DEF PtrsDistinct, AimedAtPeer
  <2>3. CASE peer \notin DOMAIN byAlloc
    <3>1. fwd'.peer = 0 /\ fwd'.srcs = {}
      BY <1>6, <2>3, Zenon DEF DataLookup
    <3> QED
      BY <1>a, <2>1, <3>1, Zenon DEF AimedAtPeer
  <2> QED
    BY <2>2, <2>3, Zenon
<1>7. CASE DataForward
  <2>1. fwd'.peer = 0 /\ fwd'.srcs = {}
    BY <1>7, Zenon DEF DataForward, Deliver, Idle
  <2>2. SameOwners
    BY <1>7, ForwardOwners, Zenon
  <2> QED
    BY <1>a, <2>1, <2>2, Zenon DEF AimedAtPeer, SameOwners
<1>8. CASE GcOnce
  BY <1>8, <1>00, Zenon DEF GcOnce
<1>9. CASE Tick
  BY <1>9, <1>0, TickOwners, TickFwd, Zenon
<1>10. CASE UNCHANGED vars
  BY <1>10, Zenon DEF vars, AimedAtPeer
<1> QED
  BY <1>1, <1>2, <1>3, <1>4, <1>5, <1>6, <1>7, <1>8, <1>9, <1>10, DatagramTyped,
     Zenon DEF Next

\* An address and a port read from endpoints with one address are one of them.
LEMMA RacyReadWhole ==
    ASSUME OneAddress, AimedAtPeer, NEW dst \in RacyRead(fwd.srcs), dst \in Srcs
    PROVE  dst \in fwd.reg
<1>1. PICK s \in fwd.srcs, t \in fwd.srcs : dst = <<s[1], t[2]>>
  BY DEF RacyRead
<1>2. s # NoSrc /\ t # NoSrc
  BY <1>1, PlaneConstants DEF Srcs, NoSrc
<1>3. /\ fwd.to \in Ids /\ s \in PunchSrc[fwd.to] /\ t \in PunchSrc[fwd.to] /\ t \in fwd.reg
      /\ s[1] = t[1]
  BY <1>2, Zenon DEF AimedAtPeer, OneAddress
<1>4. t \in Srcs
  BY <1>3, NoSrcInvalid, Zenon
<1>5. dst = t
  BY <1>1, <1>3, <1>4 DEF Srcs
<1> QED
  BY <1>3, <1>5, Zenon

\* Only Run's write sends, and it sends to what it read.
LEMMA DeliveryStep ==
    ASSUME OneAddress, AimedAtPeer, DeliveredToRegistered, [Next]_vars
    PROVE  DeliveredToRegistered'
<1>0. ASSUME ev'.op # "sent"
      PROVE  DeliveredToRegistered'
  BY <1>0, Zenon DEF DeliveredToRegistered
<1>1. CASE DataForward
  <2>1. CASE ev' = NoEvent
    BY <2>1, <1>0, Zenon DEF NoEvent
  <2>2. ASSUME NEW dst \in RacyRead(fwd.srcs), dst \in Srcs,
               ev' = [op |-> "sent", dst |-> dst, reg |-> fwd.reg]
        PROVE  DeliveredToRegistered'
    BY <2>2, RacyReadWhole, Zenon DEF DeliveredToRegistered
  <2>3. \/ ev' = NoEvent
        \/ \E dst \in RacyRead(fwd.srcs) :
              ev' = IF dst \in Srcs THEN [op |-> "sent", dst |-> dst, reg |-> fwd.reg] ELSE NoEvent
    BY <1>1, Zenon DEF DataForward, Deliver
  <2> QED
    BY <2>1, <2>2, <2>3
<1>2. ASSUME NEW u \in Uris, Allocate(u) \/ ForgetAgent(u)
      PROVE  DeliveredToRegistered'
  <2>1. ev' = NoEvent
    BY <1>2, Zenon DEF Allocate, ForgetAgent
  <2> QED
    BY <1>0, <2>1, Zenon DEF NoEvent
<1>3. ASSUME NEW id \in Ids, Forget(id)
      PROVE  DeliveredToRegistered'
  BY <1>0, <1>3, Zenon DEF Forget, NoEvent
<1>4. ASSUME NEW id \in Ids, NEW u \in Uris, NEW n \in Nonces, ArmPending(id, u, n)
      PROVE  DeliveredToRegistered'
  <2>1. ev'.op \in {"bind", "none"}
    BY <1>4 DEF ArmPending, Bind, NoEvent
  <2> QED
    BY <1>0, <2>1
<1>5. ASSUME NEW id \in Ids, NEW n \in Nonces, NEW s \in PunchSrc[id], Register(id, s, n)
      PROVE  DeliveredToRegistered'
  <2>1. ev'.op \in {"bind", "none"}
    BY <1>5 DEF Register, QueuePunch, DropPending, AcceptPunch, Bind, NoEvent
  <2> QED
    BY <1>0, <2>1
<1>6. ASSUME NEW peer \in Ids, NEW s, DataLookup(s, peer)
      PROVE  DeliveredToRegistered'
  BY <1>0, <1>6, Zenon DEF DataLookup, NoEvent
<1>7. CASE GcOnce
  BY <1>0, <1>7, Zenon DEF GcOnce, NoEvent
<1>8. CASE Tick
  BY <1>0, <1>8, Zenon DEF Tick, NoEvent
<1>9. CASE UNCHANGED vars
  BY <1>9, Zenon DEF vars, DeliveredToRegistered
<1> QED
  BY <1>1, <1>2, <1>3, <1>4, <1>5, <1>6, <1>7, <1>8, <1>9, DatagramTyped, Zenon DEF Next

(***************************************************************************)
(* While an agent that registers anew keeps its address, a datagram Run    *)
(* forwards leaves only to an endpoint its allocation was bound to at some *)
(* moment since the lookup, although Run reads the endpoint after          *)
(* unlocking, in two words, and the allocation may be bound, bound anew,   *)
(* forgotten, evicted or (the counter having wrapped) overwritten in       *)
(* between.                                                                *)
(***************************************************************************)
THEOREM DeliverySound ==
    ASSUME OneAddress
    PROVE  Spec => []DeliveredToRegistered
<1>1. Init => AimInv
  <2> SUFFICES ASSUME Init PROVE AimInv
    OBVIOUS
  <2>1. TypeOK
    BY PlaneConstants DEF Init, TypeOK, Idle, Table, FwdRow, Age
  <2>2. EndpointOwned /\ PtrsDistinct /\ AimedAtPeer /\ DeliveredToRegistered
    BY DEF Init, Idle, NoEvent, EndpointOwned, PtrsDistinct, AimedAtPeer, DeliveredToRegistered
  <2> QED
    BY <2>1, <2>2, Zenon DEF AimInv
<1>2. AimInv /\ [Next]_vars => AimInv'
  BY TypeStep, EndpointStep, PtrStep, AimStep, DeliveryStep, Zenon DEF AimInv
<1>3. AimInv => DeliveredToRegistered
  BY Zenon DEF AimInv
<1> QED
  BY <1>1, <1>2, <1>3, PTL DEF Spec
==============================================================================
