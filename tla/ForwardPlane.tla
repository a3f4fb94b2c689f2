---------------------------- MODULE ForwardPlane ----------------------------
(***************************************************************************)
(* The UDP forwarding plane, pkg/forward/plane.go: the allocation table,   *)
(* its three indexes, and the two-channel registration in which a nonce    *)
(* armed on the control stream must meet the same nonce in a UDP punch.    *)
(*                                                                         *)
(* Every method that changes the tables holds Plane.mu for its whole body  *)
(* and is one action (Allocate takes its id just before locking, which     *)
(* makes a difference only after the counter has wrapped).  The exception  *)
(* is the data path of Run, which notes the time, looks its two entries up *)
(* under the read lock and uses all three after unlocking: DataLookup and  *)
(* DataForward.                                                            *)
(*                                                                         *)
(* Time is kept as ages, one Tick older together and saturating one past   *)
(* the age that matters, so the clock needs no bound.  An age is           *)
(* now - lastSeen for an allocation, and now - (expires - pendingTTL) for  *)
(* a pending or queued registration.                                       *)
(***************************************************************************)
EXTENDS Integers, FiniteSets, Functions

CONSTANTS
    Uris,        \* agent URIs, from verified certificates (never empty)
    Nonces,      \* punch nonces
    Addrs,       \* IP addresses
    Ports,       \* UDP ports
    PunchSrc,    \* PunchSrc[id]: the endpoints punches for id come from
    Datagrams,   \* <<source, destination id>> of the data packets that may come
    MaxId,       \* the largest alloc id (2^32 - 1 in the code)
    MaxIssued,   \* bound: how often Allocate is called
    IdleTTL,     \* idleTTL, in ticks
    PendingTTL   \* pendingTTL, in ticks

Ids == 1 .. MaxId
NoAddr == 0
NoPort == 0

\* netip.AddrPort.  NoSrc is its zero value, the only one not IsValid.
AddrPort == (Addrs \cup {NoAddr}) \X (Ports \cup {NoPort})
NoSrc == <<NoAddr, NoPort>>
Srcs == Addrs \X Ports

ASSUME PlaneConstants ==
    /\ MaxId \in Nat \ {0} /\ MaxIssued \in Nat
    /\ IdleTTL \in Nat /\ PendingTTL \in Nat \ {0}
    /\ NoAddr \notin Addrs /\ NoPort \notin Ports
    /\ PunchSrc \in [Ids -> SUBSET Srcs]
    /\ Datagrams \subseteq Srcs \X Ids

VARIABLES
    byAlloc,   \* alloc id -> [uri, src, age, ptr]; ptr is the entry's identity
    byURI,     \* uri -> its alloc ids ({} stands for "no key")
    src2id,    \* source endpoint -> alloc id, the data path's reverse index
    pending,   \* alloc id -> [uri, nonce, age], armed on the control stream
    queued,    \* alloc id -> [src, nonce, age], a punch that came first
    nextID,    \* the uint32 counter
    issued,    \* number of Allocate calls so far
    fwd        \* Run's locals between the lookup and the write of a datagram

\* History variables: no action reads them.
VARIABLES
    armed,     \* alloc id -> [nonce, age] of the last successful ArmPending
    heard,     \* alloc id -> how long ago its agent's last packet arrived: a
               \* datagram from its bound source, or the punch that bound it
    ev         \* what the last step did that an agent can observe

tables == <<byAlloc, byURI, src2id, pending, queued>>
vars == <<byAlloc, byURI, src2id, pending, queued, nextID, issued, fwd,
          armed, heard, ev>>

\* delete(m, k) for every k in S, and m[k] = v.
Without(m, S) == Restrict(m, DOMAIN m \ S)
Put(m, k, v) == [x \in DOMAIN m \cup {k} |-> IF x = k THEN v ELSE m[x]]

\* A datagram in hand: its source and destination id, the age of the time noted
\* on arrival, the two entries found, and the values entry.src has had since.
\* reg is history: the endpoints registered for the destination id since.
Idle == [busy |-> FALSE, from |-> NoSrc, to |-> 0, age |-> 0, peer |-> 0, sender |-> 0,
         srcs |-> {}, reg |-> {}]
NoEvent == [op |-> "none"]

\* Mutant: the counter is read before it is incremented.
NextIdPostIncrement == nextID

\* The next value of the counter: uint32 addition that never yields 0.
NextId == IF (nextID + 1) % (MaxId + 1) = 0 THEN 1 ELSE (nextID + 1) % (MaxId + 1)

Init ==
    /\ byAlloc = << >> /\ src2id = << >> /\ pending = << >> /\ queued = << >>
    /\ byURI = [u \in Uris |-> {}]
    /\ nextID = 0 /\ issued = 0 /\ fwd = Idle
    /\ armed = << >> /\ heard = << >> /\ ev = NoEvent
-----------------------------------------------------------------------------
(***************************************************************************)
(* Allocate(uri): a new unbound entry.  It overwrites whatever the table   *)
(* holds under that id, which matters once the counter has wrapped.        *)
(***************************************************************************)
Allocate(u) ==
    /\ issued < MaxIssued
    /\ issued' = issued + 1
    /\ nextID' = NextId
    /\ byAlloc' = Put(byAlloc, NextId,
                      [uri |-> u, src |-> NoSrc, age |-> 0, ptr |-> issued + 1])
    /\ byURI' = [byURI EXCEPT ![u] = @ \cup {NextId}]
    /\ heard' = Put(heard, NextId, 0)
    /\ ev' = NoEvent
    /\ UNCHANGED <<src2id, pending, queued, fwd, armed>>

\* Mutant: the reverse index is not written.
BindUnindexed(id, src, nonce, lag) ==
    /\ byAlloc' = Put(byAlloc, id, [byAlloc[id] EXCEPT !.src = src, !.age = 0])
    /\ ev' = [op |-> "bind", id |-> id, nonce |-> nonce, lag |-> lag]
    /\ UNCHANGED src2id

(***************************************************************************)
(* What ArmPending and register share: bind alloc id to src, moving the    *)
(* reverse index when the endpoint changes.  lag is how long the punch and *)
(* the arming were apart.                                                  *)
(***************************************************************************)
Bind(id, src, nonce, lag) ==
    LET old == byAlloc[id].src IN
    /\ byAlloc' = Put(byAlloc, id, [byAlloc[id] EXCEPT !.src = src, !.age = 0])
    /\ src2id' = IF old = src THEN src2id ELSE Put(Without(src2id, {old}), src, id)
    /\ ev' = [op |-> "bind", id |-> id, nonce |-> nonce, lag |-> lag]

(***************************************************************************)
(* ArmPending(allocID, uri, nonce), on the control stream of uri.  A       *)
(* queued punch is consumed either way; it binds the alloc when it is      *)
(* fresh and carries the nonce, otherwise the nonce waits in pending.      *)
(* An unknown alloc or a foreign owner is an error and changes nothing.    *)
(* fwd.srcs: Run reads entry.src after unlocking, so a rebind of the entry *)
(* it holds is a value that read can see.  The punch arrived when it was   *)
(* queued, which is what heard records.                                    *)
(***************************************************************************)
Drains(id, nonce) ==
    id \in DOMAIN queued /\ queued[id].age < PendingTTL /\ queued[id].nonce = nonce

LastHeard(id, q) ==
    IF byAlloc[id].src = q.src /\ heard[id] <= q.age THEN heard[id]
    ELSE IF q.age > IdleTTL THEN IdleTTL + 1 ELSE q.age

ArmPending(id, u, nonce) ==
    /\ id \in DOMAIN byAlloc
    /\ byAlloc[id].uri = u
    /\ queued' = Without(queued, {id})
    /\ armed' = Put(armed, id, [nonce |-> nonce, age |-> 0])
    /\ \/ /\ Drains(id, nonce)
          /\ Bind(id, queued[id].src, nonce, queued[id].age)
          /\ heard' = Put(heard, id, LastHeard(id, queued[id]))
          /\ fwd' = [fwd EXCEPT
                !.srcs = IF fwd.peer = byAlloc[id].ptr THEN @ \cup {queued[id].src} ELSE @,
                !.reg = IF fwd.to = id THEN @ \cup {queued[id].src} ELSE @]
          /\ UNCHANGED pending
       \/ /\ ~Drains(id, nonce)
          /\ pending' = Put(pending, id, [uri |-> u, nonce |-> nonce, age |-> 0])
          /\ ev' = NoEvent
          /\ UNCHANGED <<byAlloc, src2id, heard, fwd>>
    /\ UNCHANGED <<byURI, nextID, issued>>

(***************************************************************************)
(* register(allocID, src, nonce), called by Run for a datagram with prefix *)
(* 0.  Anything may arrive: any id, issued or not, from any of its sources *)
(* with any nonce, any number of times.                                    *)
(***************************************************************************)
QueuePunch(id, src, nonce) ==
    /\ id \notin DOMAIN pending
    /\ queued' = Put(queued, id, [src |-> src, nonce |-> nonce, age |-> 0])
    /\ ev' = NoEvent
    /\ UNCHANGED <<byAlloc, src2id, pending, heard>>

DropPending(id) ==
    /\ id \in DOMAIN pending
    /\ pending[id].age > PendingTTL
    /\ pending' = Without(pending, {id})
    /\ ev' = NoEvent
    /\ UNCHANGED <<byAlloc, src2id, queued, heard>>

\* Mutant: the nonce is not compared.
AcceptPunchAnyNonce(id, src, nonce) ==
    /\ id \in DOMAIN pending
    /\ pending[id].age <= PendingTTL
    /\ pending' = Without(pending, {id})
    /\ Bind(id, src, nonce, pending[id].age)
    /\ heard' = Put(heard, id, 0)
    /\ UNCHANGED queued

AcceptPunch(id, src, nonce) ==
    /\ id \in DOMAIN pending
    /\ pending[id].age <= PendingTTL
    /\ pending[id].nonce = nonce
    /\ pending' = Without(pending, {id})
    /\ IF id \in DOMAIN byAlloc
       THEN Bind(id, src, nonce, pending[id].age) /\ heard' = Put(heard, id, 0)
       ELSE ev' = NoEvent /\ UNCHANGED <<byAlloc, src2id, heard>>
    /\ UNCHANGED queued

\* A punch with the wrong nonce changes nothing.
Register(id, src, nonce) ==
    /\ ~fwd.busy
    /\ \/ QueuePunch(id, src, nonce)
       \/ DropPending(id)
       \/ AcceptPunch(id, src, nonce)
    /\ UNCHANGED <<byURI, nextID, issued, fwd, armed>>
-----------------------------------------------------------------------------
\* Mutant: the reverse index keeps the entries.
RemoveKeepsIndex(D) ==
    /\ byAlloc' = Without(byAlloc, D)
    /\ armed' = Without(armed, D)
    /\ heard' = Without(heard, D)
    /\ UNCHANGED src2id

\* Deleting a set D of entries, as Forget, ForgetAgent and gcOnce all do it.
Remove(D) ==
    /\ byAlloc' = Without(byAlloc, D)
    /\ src2id' = Without(src2id, {byAlloc[id].src : id \in D})
    /\ armed' = Without(armed, D)
    /\ heard' = Without(heard, D)

\* Mutant: the agent index keeps the ids.
UnindexNothing(D) == UNCHANGED byURI

Unindex(D) ==
    byURI' = [u \in Uris |-> byURI[u] \ {id \in D : byAlloc[id].uri = u}]

\* Mutant: the armed nonce is left behind.
ForgetKeepsPending(id) ==
    /\ LET D == {id} \cap DOMAIN byAlloc IN Remove(D) /\ Unindex(D)
    /\ queued' = Without(queued, {id})
    /\ ev' = NoEvent
    /\ UNCHANGED <<pending, nextID, issued, fwd>>

\* Forget(id), by the handler of the stream the alloc was issued for.
Forget(id) ==
    /\ LET D == {id} \cap DOMAIN byAlloc IN Remove(D) /\ Unindex(D)
    /\ pending' = Without(pending, {id})
    /\ queued' = Without(queued, {id})
    /\ ev' = NoEvent
    /\ UNCHANGED <<nextID, issued, fwd>>

\* ForgetAgent(uri), when the control connection of uri drops.
ForgetAgent(u) ==
    LET D == byURI[u] \cap DOMAIN byAlloc IN
    /\ byURI[u] # {}
    /\ Remove(D)
    /\ byURI' = [byURI EXCEPT ![u] = {}]
    /\ pending' = Without(pending, D)
    /\ queued' = Without(queued, D)
    /\ ev' = NoEvent
    /\ UNCHANGED <<nextID, issued, fwd>>

\* Mutant: entries that were never bound are skipped.
GcOnceOnlyBound ==
    LET D == {id \in DOMAIN byAlloc : byAlloc[id].age > IdleTTL /\ byAlloc[id].src # NoSrc} IN
    /\ Remove(D)
    /\ Unindex(D)
    /\ pending' = Without(pending, D \cup {id \in DOMAIN pending : pending[id].age > PendingTTL})
    /\ queued' = Without(queued, D \cup {id \in DOMAIN queued : queued[id].age > PendingTTL})
    /\ ev' = NoEvent
    /\ UNCHANGED <<nextID, issued, fwd>>

(***************************************************************************)
(* gcOnce: evict the idle entries with everything keyed by them, then      *)
(* sweep the registrations that expired.                                   *)
(***************************************************************************)
GcOnce ==
    LET D == {id \in DOMAIN byAlloc : byAlloc[id].age > IdleTTL} IN
    /\ Remove(D)
    /\ Unindex(D)
    /\ pending' = Without(pending, D \cup {id \in DOMAIN pending : pending[id].age > PendingTTL})
    /\ queued' = Without(queued, D \cup {id \in DOMAIN queued : queued[id].age > PendingTTL})
    /\ ev' = NoEvent
    /\ UNCHANGED <<nextID, issued, fwd>>
-----------------------------------------------------------------------------
\* The packet counts for whatever entry is bound to its source.
Hear(src) ==
    heard' = [id \in DOMAIN heard |-> IF byAlloc[id].src = src THEN 0 ELSE heard[id]]

\* Mutant: the destination is read from the sender's entry.
DataLookupSender(src, peer) ==
    LET found == peer \in DOMAIN byAlloc IN
    /\ ~fwd.busy
    /\ fwd' = [busy |-> TRUE, from |-> src, to |-> IF found THEN peer ELSE 0, age |-> 0,
               peer |-> IF found THEN byAlloc[peer].ptr ELSE 0, sender |-> 0, srcs |-> {src},
               reg |-> IF found THEN {byAlloc[peer].src} \ {NoSrc} ELSE {}]
    /\ Hear(src)
    /\ ev' = NoEvent
    /\ UNCHANGED <<tables, nextID, issued, armed>>

(***************************************************************************)
(* Run, on a datagram from src with prefix peer # 0: note the time, look   *)
(* up the peer's entry and, through the reverse index, the sender's, and   *)
(* unlock.  0 is the nil pointer, and a destination id not in use.         *)
(***************************************************************************)
DataLookup(src, peer) ==
    LET found == peer \in DOMAIN byAlloc
        known == src \in DOMAIN src2id /\ src2id[src] \in DOMAIN byAlloc IN
    /\ ~fwd.busy
    /\ fwd' = [busy |-> TRUE, from |-> src, to |-> IF found THEN peer ELSE 0, age |-> 0,
               peer |-> IF found THEN byAlloc[peer].ptr ELSE 0,
               sender |-> IF known THEN byAlloc[src2id[src]].ptr ELSE 0,
               srcs |-> IF found THEN {byAlloc[peer].src} ELSE {},
               reg |-> IF found THEN {byAlloc[peer].src} \ {NoSrc} ELSE {}]
    /\ Hear(src)
    /\ ev' = NoEvent
    /\ UNCHANGED <<tables, nextID, issued, armed>>

\* The unsynchronised read of entry.src: address and port are separate words,
\* each from any value the field has held since the lookup.  The write to an
\* endpoint without an address or port fails and is dropped.
RacyRead(srcs) == {s[1] : s \in srcs} \X {s[2] : s \in srcs}

\* Write to the peer's source, if there is a peer.
Deliver ==
    /\ \/ fwd.peer = 0 /\ ev' = NoEvent
       \/ fwd.peer # 0 /\ \E dst \in RacyRead(fwd.srcs) :
             ev' = IF dst \in Srcs THEN [op |-> "sent", dst |-> dst, reg |-> fwd.reg] ELSE NoEvent
    /\ fwd' = Idle

\* Mutant: the sender is not bumped.
DataForwardNoBump ==
    /\ fwd.busy
    /\ Deliver
    /\ UNCHANGED <<tables, nextID, issued, armed, heard>>

\* Then store the noted time as the sender's lastSeen, which may be older than
\* the one an ArmPending stored meanwhile, and write.
DataForward ==
    /\ fwd.busy
    /\ byAlloc' = [id \in DOMAIN byAlloc |->
                     IF byAlloc[id].ptr = fwd.sender THEN [byAlloc[id] EXCEPT !.age = fwd.age]
                                                     ELSE byAlloc[id]]
    /\ Deliver
    /\ UNCHANGED <<byURI, src2id, pending, queued, nextID, issued, armed, heard>>
-----------------------------------------------------------------------------
Older(m, ttl) ==
    [k \in DOMAIN m |-> [m[k] EXCEPT !.age = IF @ > ttl THEN @ ELSE @ + 1]]

\* Time noted by Run ages too.
Tick ==
    /\ byAlloc' = Older(byAlloc, IdleTTL)
    /\ pending' = Older(pending, PendingTTL)
    /\ queued' = Older(queued, PendingTTL)
    /\ armed' = Older(armed, PendingTTL)
    /\ heard' = [id \in DOMAIN heard |-> IF heard[id] > IdleTTL THEN heard[id] ELSE heard[id] + 1]
    /\ fwd' = [fwd EXCEPT !.age = IF ~fwd.busy \/ @ > IdleTTL THEN @ ELSE @ + 1]
    /\ ev' = NoEvent
    /\ UNCHANGED <<byURI, src2id, nextID, issued>>

Next ==
    \/ \E u \in Uris : Allocate(u) \/ ForgetAgent(u)
    \/ \E id \in Ids : Forget(id)
    \/ \E id \in Ids, u \in Uris, n \in Nonces : ArmPending(id, u, n)
    \/ \E id \in Ids, n \in Nonces : \E s \in PunchSrc[id] : Register(id, s, n)
    \/ \E d \in Datagrams : DataLookup(d[1], d[2])
    \/ DataForward
    \/ GcOnce
    \/ Tick

Spec == Init /\ [][Next]_vars

\* The clock runs and gcLoop's ticker keeps firing.
FairSpec == Spec /\ WF_vars(Tick) /\ WF_vars(GcOnce)
-----------------------------------------------------------------------------
Age(ttl) == 0 .. (ttl + 1)

AllocRow == [uri : Uris, src : Srcs \cup {NoSrc}, age : Age(IdleTTL), ptr : Nat \ {0}]
PendingRow == [uri : Uris, nonce : Nonces, age : Age(PendingTTL)]
QueuedRow == [src : Srcs, nonce : Nonces, age : Age(PendingTTL)]
ArmedRow == [nonce : Nonces, age : Age(PendingTTL)]
FwdRow == [busy : BOOLEAN, from : Srcs \cup {NoSrc}, to : 0 .. MaxId, age : Age(IdleTTL),
           peer : Nat, sender : Nat, srcs : SUBSET (Srcs \cup {NoSrc}), reg : SUBSET Srcs]

\* A Go map from K to rows of R.
Table(m, K, R) == DOMAIN m \subseteq K /\ \A k \in DOMAIN m : m[k] \in R

\* Every map holds keys and rows of the types its Go declaration gives it.
TypeOK ==
    /\ Table(byAlloc, Ids, AllocRow)
    /\ byURI \in [Uris -> SUBSET Ids]
    /\ Table(src2id, Srcs, Ids)
    /\ Table(pending, Ids, PendingRow)
    /\ Table(queued, Ids, QueuedRow)
    /\ nextID \in 0 .. MaxId
    /\ issued \in 0 .. MaxIssued
    /\ fwd \in FwdRow
    /\ Table(armed, Ids, ArmedRow)
    /\ Table(heard, Ids, Age(IdleTTL))
    /\ DOMAIN heard = DOMAIN byAlloc

(***************************************************************************)
(* The agent index and the table agree in both directions, so ForgetAgent  *)
(* releases every allocation of the agent and none of another's, whatever  *)
(* Forget, gcOnce and earlier ForgetAgent calls have removed.              *)
(***************************************************************************)
OwnerIndexExact ==
    \A u \in Uris, id \in Ids :
        id \in byURI[u] <=> id \in DOMAIN byAlloc /\ byAlloc[id].uri = u

(***************************************************************************)
(* A hit in the reverse index leads to a live allocation bound to exactly  *)
(* that endpoint: the data path never bumps a stranger's lastSeen and      *)
(* never meets a missing entry.                                            *)
(***************************************************************************)
ReverseIndexSound ==
    \A s \in DOMAIN src2id :
        src2id[s] \in DOMAIN byAlloc /\ byAlloc[src2id[s]].src = s

(***************************************************************************)
(* An armed nonce belongs to a live allocation of the agent that armed it  *)
(* and never coexists with a queued punch for the same allocation.  So     *)
(* register's "alloc forgotten before punch" branch is never taken, and a  *)
(* punch that lost to a re-arming cannot be replayed from the queue.       *)
(***************************************************************************)
PendingOwned ==
    \A id \in DOMAIN pending :
        /\ id \in DOMAIN byAlloc
        /\ pending[id].uri = byAlloc[id].uri
        /\ id \notin DOMAIN queued

(***************************************************************************)
(* An endpoint is bound only by a punch carrying the nonce the owner armed *)
(* last, at most pendingTTL apart, in either order of arrival: re-arming   *)
(* retires the previous nonce (the promise of ArmPending's comment).       *)
(***************************************************************************)
BindingAuthorised ==
    ev.op = "bind" =>
        /\ ev.id \in DOMAIN armed
        /\ ev.nonce = armed[ev.id].nonce
        /\ armed[ev.id].age <= PendingTTL
        /\ ev.lag <= PendingTTL

(***************************************************************************)
(* Every bound allocation is found from its endpoint, so each datagram its *)
(* agent sends refreshes it.                                               *)
(***************************************************************************)
ReverseIndexComplete ==
    \A id \in DOMAIN byAlloc :
        byAlloc[id].src # NoSrc =>
            byAlloc[id].src \in DOMAIN src2id /\ src2id[byAlloc[id].src] = id

(***************************************************************************)
(* The plane's tables agree at every moment, whatever order registrations, *)
(* punches, forwards, Forgets and evictions come in.                       *)
(***************************************************************************)
TablesAgree == OwnerIndexExact /\ ReverseIndexSound /\ ReverseIndexComplete /\ PendingOwned

\* Run has a datagram from the endpoint of id between its lookup and its bump.
InHand(id) == fwd.busy /\ fwd.from = byAlloc[id].src

(***************************************************************************)
(* "Agents that are still healthy will keep their entry warm": the GC      *)
(* evicts an allocation only when no packet of its agent has arrived for   *)
(* longer than idleTTL, or Run has not got round to storing that one did:  *)
(* gcOnce can run between its RUnlock and its Store.  It holds although    *)
(* the stored time may move lastSeen back, and while allocations use       *)
(* distinct endpoints.                                                     *)
(***************************************************************************)
KeptWarm ==
    [][\A id \in DOMAIN byAlloc \ DOMAIN byAlloc' :
          GcOnce => heard[id] > IdleTTL \/ InHand(id)]_vars

(***************************************************************************)
(* "The plane forwards [payload] to the registered endpoint for            *)
(* peer_alloc": although Run reads the endpoint unlocked, while the        *)
(* allocation may be bound, bound anew, forgotten or evicted, a datagram   *)
(* leaves only to an endpoint the allocation was bound to at some moment   *)
(* since the datagram was looked up.  It holds when an agent that          *)
(* registers anew keeps its address and changes its port; between two      *)
(* addresses the unlocked read can mix the two endpoints (RacyRead).       *)
(***************************************************************************)
DeliveredToRegistered == ev.op = "sent" => ev.dst \in ev.reg

(***************************************************************************)
(* Nothing idle stays: every allocation for which no packet comes any      *)
(* more, and every queued punch that is never drained, is reclaimed by     *)
(* gcOnce even if no Forget ever comes (a crashed agent, a resumed         *)
(* stream's allocs).  The file's opening comment, "Allocations have no     *)
(* expiry in this prototype", says otherwise.                              *)
(***************************************************************************)
IdleReclaimed ==
    \A id \in Ids :
        /\ []<>(id \in DOMAIN byAlloc => byAlloc[id].age = 0 \/ InHand(id))
        /\ []<>(id \in DOMAIN queued => queued[id].age = 0)
=============================================================================
