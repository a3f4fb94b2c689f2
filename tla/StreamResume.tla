---------------------------- MODULE StreamResume ----------------------------
(***************************************************************************)
(* Re-joining a relayed stream after its agents reconnect: the matcher of  *)
(* pkg/edge/resume.go, the handlers that submit halves to it               *)
(* (handleResumeHalf, handleMigrateToRelay), the splice they run, and the  *)
(* server's stream_id -> pair map that control frames are routed by.       *)
(*                                                                         *)
(* A half is one STREAM_RESUME or MIGRATE_TO_RELAY stream with the         *)
(* goroutine that handles it.  A parked half has a second goroutine, its   *)
(* expiry, that receives from the same channel as the handler.             *)
(***************************************************************************)
EXTENDS Integers, FiniteSets, Functions

CONSTANTS
    Halves,      \* halves that may arrive
    Opens,       \* streams opened on this relay with OPEN_STREAM
    StreamIds,   \* stream ids (0, the id that is never recorded, left out)
    Agents,      \* agent URIs
    Arrivals     \* half -> the [id, uri, kind] it may arrive with

\* A half arrives with STREAM_RESUME or with MIGRATE_TO_RELAY.
Kinds == {"resume", "migrate"}

Nobody == [none |-> TRUE]

ASSUME ResumeConstants ==
    /\ Arrivals \in [Halves -> SUBSET [id : StreamIds, uri : Agents, kind : Kinds]]
    /\ Nobody \notin Halves

Empty == [msg |-> "empty"]
Closed == [msg |-> "closed"]
Peer(g) == [msg |-> "peer", half |-> g]

VARIABLES
    half,      \* half -> [id, uri, kind], set when it arrives
    pc,        \* where the half's handler is
    peer,      \* the half it was matched with
    pending,   \* resumeMatcher.pending: stream id -> parked half
    ch,        \* the half's matched channel (capacity 1)
    expiry,    \* the parked half's expiry goroutine
    done,      \* halves whose done channel is closed
    pairs,     \* Server.pairs: stream id -> the two URIs
    open       \* Opens -> [pc, id, pair], handlers of streams opened here

vars == <<half, pc, peer, pending, ch, expiry, done, pairs, open>>

Without(m, S) == Restrict(m, DOMAIN m \ S)
Put(m, k, v) == [x \in DOMAIN m \cup {k} |-> IF x = k THEN v ELSE m[x]]

Init ==
    /\ half = << >> /\ pending = << >> /\ pairs = << >>
    /\ pc = [h \in Halves |-> "new"]
    /\ peer = [h \in Halves |-> Nobody]
    /\ ch = [h \in Halves |-> Empty]
    /\ expiry = [h \in Halves |-> "none"]
    /\ done = {}
    /\ open = [o \in Opens |-> [pc |-> "new"]]
-----------------------------------------------------------------------------
\* Mutant: the matched half stays in the map.
SubmitKeepsPeer(h, id, uri, kind) ==
    /\ pc[h] = "new"
    /\ half' = Put(half, h, [id |-> id, uri |-> uri, kind |-> kind])
    /\ \/ /\ id \in DOMAIN pending
          /\ pc' = [pc EXCEPT ![h] = "notify"]
          /\ peer' = [peer EXCEPT ![h] = pending[id]]
          /\ UNCHANGED <<pending, expiry>>
       \/ /\ id \notin DOMAIN pending
          /\ pc' = [pc EXCEPT ![h] = "wait"]
          /\ pending' = Put(pending, id, h)
          /\ expiry' = [expiry EXCEPT ![h] = "armed"]
          /\ UNCHANGED peer
    /\ UNCHANGED <<ch, done, pairs, open>>

(***************************************************************************)
(* Submit.  The half that finds another one parked under its id takes it   *)
(* out of the map and will notify it after unlocking; otherwise it parks   *)
(* and starts its expiry.                                                  *)
(***************************************************************************)
Submit(h, id, uri, kind) ==
    /\ pc[h] = "new"
    /\ half' = Put(half, h, [id |-> id, uri |-> uri, kind |-> kind])
    /\ \/ /\ id \in DOMAIN pending
          /\ pc' = [pc EXCEPT ![h] = "notify"]
          /\ peer' = [peer EXCEPT ![h] = pending[id]]
          /\ pending' = Without(pending, {id})
          /\ UNCHANGED expiry
       \/ /\ id \notin DOMAIN pending
          /\ pc' = [pc EXCEPT ![h] = "wait"]
          /\ pending' = Put(pending, id, h)
          /\ expiry' = [expiry EXCEPT ![h] = "armed"]
          /\ UNCHANGED peer
    /\ UNCHANGED <<ch, done, pairs, open>>

\* peer.matched <- self, then self.matched <- peer, which its own handler reads.
Notify(h) ==
    /\ pc[h] = "notify"
    /\ ch[peer[h]] = Empty
    /\ ch' = [ch EXCEPT ![peer[h]] = Peer(h)]
    /\ pc' = [pc EXCEPT ![h] = "matched"]
    /\ UNCHANGED <<half, peer, pending, expiry, done, pairs, open>>

\* The handler's receive.  A closed channel reads nil: the half is dropped.
Receive(h) ==
    /\ pc[h] = "wait"
    /\ \/ /\ ch[h] = Closed
          /\ pc' = [pc EXCEPT ![h] = "returned"]
          /\ UNCHANGED <<peer, ch>>
       \/ /\ ch[h] \notin {Empty, Closed}
          /\ pc' = [pc EXCEPT ![h] = "parked"]
          /\ peer' = [peer EXCEPT ![h] = ch[h].half]
          /\ ch' = [ch EXCEPT ![h] = Empty]
    /\ UNCHANGED <<half, pending, expiry, done, pairs, open>>

(***************************************************************************)
(* The expiry goroutine: select on the same matched channel or the timer;  *)
(* when the timer wins, lock, and if the half is still the one parked,     *)
(* remove it, unlock and close its channel.                                *)
(***************************************************************************)
ExpiryReceive(h) ==
    /\ expiry[h] = "armed"
    /\ ch[h] # Empty
    /\ ch' = [ch EXCEPT ![h] = IF @ = Closed THEN Closed ELSE Empty]
    /\ expiry' = [expiry EXCEPT ![h] = "gone"]
    /\ UNCHANGED <<half, pc, peer, pending, done, pairs, open>>

TimerFires(h) ==
    /\ expiry[h] = "armed"
    /\ expiry' = [expiry EXCEPT ![h] = "fired"]
    /\ UNCHANGED <<half, pc, peer, pending, ch, done, pairs, open>>

StillParked(h) == half[h].id \in DOMAIN pending /\ pending[half[h].id] = h

\* Mutant: the cur == self test is missing.
ExpireHalfAny(h) ==
    /\ expiry[h] = "fired"
    /\ IF half[h].id \in DOMAIN pending
       THEN /\ pending' = Without(pending, {half[h].id})
            /\ expiry' = [expiry EXCEPT ![h] = "closing"]
       ELSE /\ expiry' = [expiry EXCEPT ![h] = "gone"]
            /\ UNCHANGED pending
    /\ UNCHANGED <<half, pc, peer, ch, done, pairs, open>>

\* Mutant: the half is not taken out of the map.
ExpireHalfLeaves(h) ==
    /\ expiry[h] = "fired"
    /\ IF StillParked(h)
       THEN /\ UNCHANGED pending
            /\ expiry' = [expiry EXCEPT ![h] = "closing"]
       ELSE /\ expiry' = [expiry EXCEPT ![h] = "gone"]
            /\ UNCHANGED pending
    /\ UNCHANGED <<half, pc, peer, ch, done, pairs, open>>

\* Mutant: the channel is closed without looking at the map.
ExpireHalfBlind(h) ==
    /\ expiry[h] = "fired"
    /\ expiry' = [expiry EXCEPT ![h] = "closing"]
    /\ pending' = IF StillParked(h) THEN Without(pending, {half[h].id}) ELSE pending
    /\ UNCHANGED <<half, pc, peer, ch, done, pairs, open>>

ExpireHalf(h) ==
    /\ expiry[h] = "fired"
    /\ IF StillParked(h)
       THEN /\ pending' = Without(pending, {half[h].id})
            /\ expiry' = [expiry EXCEPT ![h] = "closing"]
       ELSE /\ expiry' = [expiry EXCEPT ![h] = "gone"]
            /\ UNCHANGED pending
    /\ UNCHANGED <<half, pc, peer, ch, done, pairs, open>>

CloseMatched(h) ==
    /\ expiry[h] = "closing"
    /\ ch' = [ch EXCEPT ![h] = Closed]
    /\ expiry' = [expiry EXCEPT ![h] = "gone"]
    /\ UNCHANGED <<half, pc, peer, pending, done, pairs, open>>
-----------------------------------------------------------------------------
\* Mutant: a stale mapping is kept, as recordPair would.
replacePairKeeps(id, p) == pairs' = IF id \in DOMAIN pairs THEN pairs ELSE Put(pairs, id, p)

\* splicePair records its pair over any other under the id; whoever is done with
\* an id forgets it.
replacePair(id, p) == pairs' = Put(pairs, id, p)
forgetPair(id) == pairs' = Without(pairs, {id})

(***************************************************************************)
(* The splicer: handleResumeHalf first writes each side's STREAM_RESUME to *)
(* the other's stream (handleMigrateToRelay does not), whatever the other  *)
(* arrived with.  Then splicePair records the pair, overwriting any, and   *)
(* copies until either stream ends; it closes both streams, forgets the    *)
(* pair and releases the parked handler.                                   *)
(***************************************************************************)
Echo(h) ==
    /\ pc[h] = "matched"
    /\ half[h].kind = "resume"
    /\ pc' = [pc EXCEPT ![h] = "echoed"]
    /\ UNCHANGED <<half, peer, pending, ch, expiry, done, pairs, open>>

StartSplice(h) ==
    /\ pc[h] = "echoed" \/ (pc[h] = "matched" /\ half[h].kind = "migrate")
    /\ replacePair(half[h].id, <<half[h].uri, half[peer[h]].uri>>)
    /\ pc' = [pc EXCEPT ![h] = "splicing"]
    /\ UNCHANGED <<half, peer, pending, ch, expiry, done, open>>

EndSplice(h) ==
    /\ pc[h] = "splicing"
    /\ forgetPair(half[h].id)
    /\ done' = done \cup {peer[h]}
    /\ pc' = [pc EXCEPT ![h] = "returned"]
    /\ UNCHANGED <<half, peer, pending, ch, expiry, open>>

\* Mutant: the handler does not wait for done.
ReleaseParkedEarly(h) ==
    /\ pc[h] = "parked"
    /\ pc' = [pc EXCEPT ![h] = "returned"]
    /\ UNCHANGED <<half, peer, pending, ch, expiry, done, pairs, open>>

\* The parked handler returns, and closes its stream, when done is closed.
ReleaseParked(h) ==
    /\ pc[h] = "parked"
    /\ h \in done
    /\ pc' = [pc EXCEPT ![h] = "returned"]
    /\ UNCHANGED <<half, peer, pending, ch, expiry, done, pairs, open>>

(***************************************************************************)
(* handleConsumerStream, reduced to its use of the pair map: recordPair    *)
(* refuses an id that belongs to a different pair, and the handler forgets *)
(* the id when its stream ends.                                            *)
(***************************************************************************)
recordPair(id, p) == id \notin DOMAIN pairs \/ pairs[id] = p

OpenStream(o, id, p) ==
    /\ open[o].pc = "new"
    /\ IF recordPair(id, p)
       THEN /\ pairs' = Put(pairs, id, p)
            /\ open' = [open EXCEPT ![o] = [pc |-> "splicing", id |-> id, pair |-> p]]
       ELSE /\ open' = [open EXCEPT ![o] = [pc |-> "rejected"]]
            /\ UNCHANGED pairs
    /\ UNCHANGED <<half, pc, peer, pending, ch, expiry, done>>

CloseStream(o) ==
    /\ open[o].pc = "splicing"
    /\ forgetPair(open[o].id)
    /\ open' = [open EXCEPT ![o].pc = "returned"]
    /\ UNCHANGED <<half, pc, peer, pending, ch, expiry, done>>

Handle(h) == Notify(h) \/ Receive(h) \/ Echo(h) \/ StartSplice(h) \/ ReleaseParked(h)

Expire(h) ==
    \/ ExpiryReceive(h) \/ TimerFires(h) \/ ExpireHalf(h) \/ CloseMatched(h)

Next ==
    \/ \E h \in Halves : \E a \in Arrivals[h] : Submit(h, a.id, a.uri, a.kind)
    \/ \E h \in Halves : Handle(h) \/ EndSplice(h) \/ Expire(h)
    \/ \E o \in Opens, id \in StreamIds, c, p \in Agents : c # p /\ OpenStream(o, id, <<c, p>>)
    \/ \E o \in Opens : CloseStream(o)

Spec == Init /\ [][Next]_vars

\* Goroutines that can run do, and timers fire; a splice need not end.
FairSpec == Spec /\ \A h \in Halves : WF_vars(Handle(h)) /\ WF_vars(Expire(h))
-----------------------------------------------------------------------------
States == {"new", "notify", "wait", "matched", "echoed", "parked", "splicing", "returned"}

\* Every variable has its declared shape; a half's rows exist once it arrived.
TypeOK ==
    /\ DOMAIN half = {h \in Halves : pc[h] # "new"}
    /\ \A h \in DOMAIN half : half[h] \in [id : StreamIds, uri : Agents, kind : Kinds]
    /\ pc \in [Halves -> States]
    /\ peer \in [Halves -> Halves \cup {Nobody}]
    /\ DOMAIN pending \subseteq StreamIds /\ \A id \in DOMAIN pending : pending[id] \in Halves
    /\ ch \in [Halves -> {Empty, Closed} \cup {Peer(h) : h \in Halves}]
    /\ expiry \in [Halves -> {"none", "armed", "fired", "closing", "gone"}]
    /\ done \subseteq Halves
    /\ DOMAIN pairs \subseteq StreamIds
    /\ \A id \in DOMAIN pairs : pairs[id] \in Agents \X Agents
    /\ open \in [Opens -> [pc : {"new", "rejected"}] \cup
                         [pc : {"splicing", "returned"}, id : StreamIds, pair : Agents \X Agents]]

(***************************************************************************)
(* The notifying send after the unlock finds the peer's channel open and   *)
(* empty: it neither panics on a channel the expiry closed meanwhile nor   *)
(* blocks.                                                                 *)
(***************************************************************************)
SendIsSafe == \A g \in Halves : pc[g] = "notify" => ch[peer[g]] = Empty

Running(h) == pc[h] \in {"notify", "matched", "echoed", "splicing"}

(***************************************************************************)
(* Exactly one half of a pair splices and no half is in two pairs, so no   *)
(* stream is copied by two splices; and "its stream stays open for the     *)
(* whole splice": while a half splices, the other half's handler has not   *)
(* returned (returning closes its stream).                                 *)
(***************************************************************************)
SplicePaired ==
    \A g \in Halves : Running(g) =>
        /\ pc[peer[g]] \in {"wait", "parked"}
        /\ \A h \in Halves \ {g} : Running(h) => peer[h] # peer[g]

\* A half leaves the map: matched, or dropped when its window ends.
WindowCloses ==
    \A id \in StreamIds, h \in Halves :
        (id \in DOMAIN pending /\ pending[id] = h) ~> ~(id \in DOMAIN pending /\ pending[id] = h)

(***************************************************************************)
(* "Both halves are returned as a (self, peer) pair via their matched      *)
(* channels", or the half is discarded: a handler does not wait for ever.  *)
(***************************************************************************)
HandlerReturns == \A h \in Halves : pc[h] = "wait" ~> pc[h] # "wait"

peerOf(id, u) ==
    IF id \notin DOMAIN pairs THEN Nobody
    ELSE IF u = pairs[id][1] THEN pairs[id][2]
    ELSE IF u = pairs[id][2] THEN pairs[id][1] ELSE Nobody

(***************************************************************************)
(* "The relay can record the pair for control-frame forwarding after       *)
(* resume", superseding a stale one: while two agents' halves are spliced, *)
(* a frame of either is routed to the other, unless a second splice runs   *)
(* under the id or a stream that used the id here has ended, which forgets *)
(* it.                                                                     *)
(***************************************************************************)
ResumedPairRouted ==
    \A h \in Halves :
        /\ pc[h] = "splicing"
        /\ \A o \in Opens : open[o].pc = "returned" => open[o].id # half[h].id
        /\ \A g \in Halves \ {h} :
              g \in done \/ pc[g] = "splicing" => half[g].id # half[h].id
        => /\ peerOf(half[h].id, half[h].uri) = half[peer[h]].uri
           /\ peerOf(half[h].id, half[peer[h]].uri) = half[h].uri

(***************************************************************************)
(* The matcher implements the rendezvous: the lock sections of Submit and  *)
(* of the half's own expiry decide its outcome.  A half without an expiry  *)
(* never parked, so it drives.                                             *)
(***************************************************************************)
Driver(h) == pc[h] # "new" /\ expiry[h] = "none"
Joined(h) == \E g \in Halves : Driver(g) /\ peer[g] = h

Outcome(h) ==
    IF pc[h] = "new" THEN "new"
    ELSE IF Driver(h) THEN "driver"
    ELSE IF Joined(h) THEN "joined"
    ELSE IF expiry[h] \in {"armed", "fired"} THEN "waiting" ELSE "expired"

Abstract == INSTANCE Rendezvous WITH
    NoHalf <- Nobody,
    status <- [h \in Halves |-> Outcome(h)],
    key <- [h \in Halves |-> IF pc[h] = "new" THEN "none" ELSE half[h].id],
    mate <- [h \in Halves |-> IF Driver(h) THEN peer[h] ELSE Nobody]

ImplementsRendezvous == Abstract!Spec
=============================================================================
