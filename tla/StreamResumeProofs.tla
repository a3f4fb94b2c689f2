------------------------ MODULE StreamResumeProofs -------------------------
(***************************************************************************)
(* SendIsSafe, SplicePaired, ResumedPairRouted and the refinement of       *)
(* Rendezvous, for any number of halves, stream ids and streams opened     *)
(* here.  As for the forward matcher the lock sections decide (Parked,     *)
(* WaitingParked), but here the parked half's channel is used by three     *)
(* goroutines: Joins and Channels say who may still send on it, receive    *)
(* from it or close it.  Routed is ResumedPairRouted with the pair itself. *)
(***************************************************************************)
EXTENDS StreamResume, TLAPS

\* What is in the map waits under its own id, unnotified.
Parked ==
    \A id \in DOMAIN pending : \A h \in Halves : h = pending[id] =>
        /\ half[h].id = id /\ pc[h] = "wait" /\ expiry[h] \in {"armed", "fired"}
        /\ ~Joined(h) /\ ch[h] = Empty

WaitingParked ==
    \A h \in Halves : expiry[h] \in {"armed", "fired"} /\ ~Joined(h) => StillParked(h)

\* A half either parked, with an expiry, or drives.
Roles ==
    \A h \in Halves :
        /\ pc[h] = "new" => expiry[h] = "none" /\ h \notin done
        /\ pc[h] \in {"wait", "parked"} => expiry[h] # "none"
        /\ expiry[h] # "none" => pc[h] \in {"wait", "parked", "returned"}
        /\ Driver(h) => peer[h] \in Halves

\* A driver and the half it took out of the map.
Joins ==
    \A g \in Halves : Driver(g) =>
        /\ expiry[peer[g]] \in {"armed", "fired", "gone"}
        /\ half[peer[g]].id = half[g].id
        /\ \A h \in Halves : Driver(h) /\ peer[h] = peer[g] => h = g
        /\ pc[g] # "returned" => pc[peer[g]] \in {"wait", "parked"} /\ peer[g] \notin done
        /\ pc[g] = "notify" => ch[peer[g]] = Empty /\ pc[peer[g]] = "wait"

\* A closed channel is of a half nobody joined; a notice is from the driver.
Channels ==
    \A h \in Halves :
        /\ expiry[h] = "closing" \/ ch[h] = Closed => ~Joined(h)
        /\ ch[h] = Closed => expiry[h] = "gone"
        /\ \A g \in Halves : ch[h] = Peer(g) => Driver(g) /\ peer[g] = h /\ pc[g] # "notify"
        /\ h \in done => Joined(h)

Core == TypeOK /\ Parked /\ WaitingParked /\ Roles /\ Joins /\ Channels

\* The three things a matched channel can hold are different.
LEMMA ChannelValues ==
    /\ Empty # Closed
    /\ \A g : Peer(g) # Empty /\ Peer(g) # Closed /\ Peer(g).half = g
BY Zenon DEF Empty, Closed, Peer

\* The invariant holds with no half submitted.
LEMMA InitCore == Init => Core
<1> SUFFICES ASSUME Init PROVE Core
  OBVIOUS
<1>1. TypeOK
  BY DEF Init, TypeOK, States
<1>2. Parked /\ WaitingParked /\ Roles
  BY DEF Init, Parked, WaitingParked, Roles, Driver
<1>3. Joins /\ Channels
  BY ChannelValues, Zenon DEF Init, Joins, Channels, Driver, Joined
<1> QED
  BY <1>1, <1>2, <1>3, Zenon DEF Core

\* Submit, when another half is parked under the id.
LEMMA JoinStep ==
    ASSUME Core, NEW h \in Halves, NEW a \in Arrivals[h], Submit(h, a.id, a.uri, a.kind),
           a.id \in DOMAIN pending
    PROVE  Core'
<1>0. PICK w \in Halves : w = pending[a.id]
  BY Zenon DEF Core, TypeOK
<1>1. /\ pc[h] = "new" /\ pc' = [pc EXCEPT ![h] = "notify"]
      /\ half' = Put(half, h, [id |-> a.id, uri |-> a.uri, kind |-> a.kind])
      /\ peer' = [peer EXCEPT ![h] = w] /\ pending' = Without(pending, {a.id})
      /\ UNCHANGED <<expiry, ch, done, pairs, open>>
  BY <1>0, Zenon DEF Submit
<1>2. /\ w # h /\ half[w].id = a.id /\ pc[w] = "wait" /\ h \notin DOMAIN half /\ w \in DOMAIN half
      /\ expiry[w] \in {"armed", "fired"} /\ ~Joined(w) /\ ch[w] = Empty
      /\ expiry[h] = "none" /\ h \notin done /\ ~Driver(h)
  BY <1>0, <1>1 DEF Core, TypeOK, Parked, Roles, Driver
<1>3. a \in [id : StreamIds, uri : Agents, kind : Kinds]
  BY ResumeConstants, Zenon
<1>4. /\ pc'[h] = "notify" /\ peer'[h] = w
      /\ \A k \in Halves : k # h => pc'[k] = pc[k] /\ peer'[k] = peer[k]
      /\ half'[h].id = a.id /\ \A k \in DOMAIN half : half'[k] = half[k]
      /\ DOMAIN half' = DOMAIN half \cup {h}
  BY <1>1, <1>2, Zenon DEF Core, TypeOK, Put
<1>5. TypeOK'
  <2>1. half'[h] \in [id : StreamIds, uri : Agents, kind : Kinds]
    BY <1>1, <1>3, Zenon DEF Put
  <2>2. DOMAIN half' = {k \in Halves : pc'[k] # "new"}
    BY <1>1, <1>4, ZenonT(30) DEF Core, TypeOK
  <2>3. DOMAIN pending' \subseteq StreamIds /\ \A id \in DOMAIN pending' : pending'[id] \in Halves
    BY <1>1, Zenon DEF Core, TypeOK, Without, Restrict
  <2>4. pc' \in [Halves -> States] /\ peer' \in [Halves -> Halves \cup {Nobody}]
    BY <1>1, Zenon DEF Core, TypeOK, States
  <2> QED
    BY <1>1, <1>4, <2>1, <2>2, <2>3, <2>4, Zenon DEF Core, TypeOK
<1>6. /\ \A k \in Halves : Driver(k)' <=> Driver(k) \/ k = h
      /\ \A k \in Halves : Joined(k)' <=> Joined(k) \/ k = w
  BY <1>1, <1>2, <1>4 DEF Driver, Joined
<1>7. Parked'
  BY <1>0, <1>1, <1>2, <1>4, <1>6 DEF Core, TypeOK, Parked, Without, Restrict
<1>8. WaitingParked'
  <2> SUFFICES ASSUME NEW k \in Halves, expiry[k] \in {"armed", "fired"}, ~Joined(k)'
               PROVE  StillParked(k)'
    BY <1>1, Zenon DEF WaitingParked
  <2>1. k # w /\ k \in DOMAIN half /\ StillParked(k)
    BY <1>2, <1>6, Zenon DEF Core, TypeOK, Roles, WaitingParked
  <2>2. half'[k].id = half[k].id /\ half[k].id # a.id
    BY <1>0, <1>4, <2>1, Zenon DEF StillParked
  <2> QED
    BY <1>1, <2>1, <2>2, Zenon DEF StillParked, Without, Restrict
<1>9. Roles'
  BY <1>1, <1>2, <1>4, <1>6 DEF Core, Roles
<1>10. Joins'
  BY <1>1, <1>2, <1>4, <1>6 DEF Core, TypeOK, Joins, Joined, Driver, Roles, Channels
<1>11. Channels'
  BY <1>1, <1>2, <1>4, <1>6, ChannelValues DEF Core, Channels
<1> QED
  BY <1>5, <1>7, <1>8, <1>9, <1>10, <1>11, Zenon DEF Core

\* Submit, when the half parks.
LEMMA WaitStep ==
    ASSUME Core, NEW h \in Halves, NEW a \in Arrivals[h], Submit(h, a.id, a.uri, a.kind),
           a.id \notin DOMAIN pending
    PROVE  Core'
<1>1. /\ pc[h] = "new" /\ pc' = [pc EXCEPT ![h] = "wait"]
      /\ half' = Put(half, h, [id |-> a.id, uri |-> a.uri, kind |-> a.kind])
      /\ expiry' = [expiry EXCEPT ![h] = "armed"] /\ pending' = Put(pending, a.id, h)
      /\ UNCHANGED <<peer, ch, done, pairs, open>>
  BY Zenon DEF Submit
<1>2. h \notin DOMAIN half /\ expiry[h] = "none" /\ h \notin done /\ ~Driver(h)
  BY <1>1, Zenon DEF Core, TypeOK, Roles, Driver
<1>3. ~Joined(h)
  BY <1>2, Zenon DEF Core, Joins, Joined
<1>4. ch[h] = Empty
  <2>1. \A g \in Halves : ch[h] # Peer(g)
    BY <1>3, Zenon DEF Core, Channels, Joined
  <2>2. ch[h] # Closed
    BY <1>1, <1>2, Zenon DEF Core, Channels
  <2> QED
    BY <2>1, <2>2 DEF Core, TypeOK
<1>5. a \in [id : StreamIds, uri : Agents, kind : Kinds]
  BY ResumeConstants, Zenon
<1>6. /\ pc'[h] = "wait" /\ expiry'[h] = "armed"
      /\ \A k \in Halves : k # h => pc'[k] = pc[k] /\ expiry'[k] = expiry[k]
      /\ half'[h].id = a.id /\ \A k \in DOMAIN half : half'[k] = half[k]
      /\ DOMAIN half' = DOMAIN half \cup {h}
  BY <1>1, <1>2, Zenon DEF Core, TypeOK, Put
<1>7. TypeOK'
  <2>1. half'[h] \in [id : StreamIds, uri : Agents, kind : Kinds]
    BY <1>1, <1>5, Zenon DEF Put
  <2>2. DOMAIN half' = {k \in Halves : pc'[k] # "new"}
    BY <1>1, <1>6, ZenonT(30) DEF Core, TypeOK
  <2>3. DOMAIN pending' \subseteq StreamIds /\ \A id \in DOMAIN pending' : pending'[id] \in Halves
    BY <1>1, <1>5, Zenon DEF Core, TypeOK, Put
  <2>4. pc' \in [Halves -> States] /\ expiry' \in [Halves -> {"none", "armed", "fired", "closing", "gone"}]
    BY <1>1, Zenon DEF Core, TypeOK, States
  <2> QED
    BY <1>1, <1>6, <2>1, <2>2, <2>3, <2>4, Zenon DEF Core, TypeOK
<1>8. \A k \in Halves : (Driver(k)' <=> Driver(k)) /\ (Joined(k)' <=> Joined(k))
  BY <1>1, <1>2, <1>6 DEF Driver, Joined
<1>9. \A id \in DOMAIN pending' : IF id = a.id THEN pending'[id] = h
                                 ELSE id \in DOMAIN pending /\ pending'[id] = pending[id]
  BY <1>1, Zenon DEF Put
<1>10. Parked'
  <2> SUFFICES ASSUME NEW id \in DOMAIN pending', NEW k \in Halves, k = pending'[id]
               PROVE  /\ half'[k].id = id /\ pc'[k] = "wait" /\ expiry'[k] \in {"armed", "fired"}
                      /\ ~Joined(k)' /\ ch'[k] = Empty
    BY Zenon DEF Parked
  <2>1. CASE id = a.id
    BY <1>1, <1>3, <1>4, <1>6, <1>8, <1>9, <2>1, Zenon
  <2>2. CASE id # a.id
    <3>1. k # h /\ k \in DOMAIN half /\ k = pending[id] /\ id \in DOMAIN pending
      BY <1>1, <1>9, <2>2, Zenon DEF Core, TypeOK, Parked
    <3> QED
      BY <1>1, <1>6, <1>8, <3>1 DEF Core, Parked
  <2> QED
    BY <2>1, <2>2, Zenon
<1>11. WaitingParked'
  <2> SUFFICES ASSUME NEW k \in Halves, expiry'[k] \in {"armed", "fired"}, ~Joined(k)'
               PROVE  StillParked(k)'
    BY Zenon DEF WaitingParked
  <2>1. CASE k = h
    BY <1>1, <1>6, <2>1, Zenon DEF StillParked, Put
  <2>2. CASE k # h
    <3>1. k \in DOMAIN half /\ StillParked(k)
      BY <1>6, <1>8, <2>2, Zenon DEF Core, TypeOK, Roles, WaitingParked
    <3>2. half'[k].id = half[k].id /\ half[k].id # a.id
      BY <1>6, <3>1, Zenon DEF StillParked
    <3> QED
      BY <1>1, <3>1, <3>2, Zenon DEF StillParked, Put
  <2> QED
    BY <2>1, <2>2, Zenon
<1>12. Roles'
  BY <1>1, <1>2, <1>6, <1>8, SMTT(30) DEF Core, Roles
<1>13. Joins'
  BY <1>1, <1>2, <1>3, <1>6, <1>8 DEF Core, TypeOK, Joins, Joined, Driver, Roles
<1>14. Channels'
  BY <1>1, <1>2, <1>3, <1>4, <1>6, <1>8, ChannelValues DEF Core, Channels, Driver
<1> QED
  BY <1>7, <1>10, <1>11, <1>12, <1>13, <1>14, Zenon DEF Core

\* After Submit nobody's role, driver or id changes.
LEMMA Settled ==
    ASSUME Core, UNCHANGED half,
           \A k \in Halves : /\ pc[k] = "new" <=> pc'[k] = "new"
                             /\ expiry[k] = "none" <=> expiry'[k] = "none"
                             /\ Driver(k) => peer'[k] = peer[k]
    PROVE  \A k \in Halves : (Driver(k)' <=> Driver(k)) /\ (Joined(k)' <=> Joined(k))
<1>1. \A k \in Halves : Driver(k)' <=> Driver(k)
  BY Zenon DEF Driver
<1> QED
  BY <1>1, Zenon DEF Joined

\* The send to the parked half.
LEMMA NotifyStep ==
    ASSUME Core, NEW h \in Halves, Notify(h)
    PROVE  Core'
<1>0. PICK w \in Halves : w = peer[h]
  BY Zenon DEF Notify, Core, TypeOK, Roles, Driver
<1>1. /\ pc[h] = "notify" /\ pc' = [pc EXCEPT ![h] = "matched"]
      /\ ch' = [ch EXCEPT ![w] = Peer(h)]
      /\ UNCHANGED <<half, peer, pending, expiry, done, pairs, open>>
  BY <1>0, Zenon DEF Notify
<1>2. /\ pc'[h] = "matched" /\ \A k \in Halves : k # h => pc'[k] = pc[k]
      /\ ch'[w] = Peer(h) /\ \A k \in Halves : k # w => ch'[k] = ch[k]
  BY <1>1, Zenon DEF Core, TypeOK
<1>3. Driver(h) /\ Joined(w)
  BY <1>0, <1>1, Zenon DEF Core, TypeOK, Roles, Driver, Joined
<1>4. \A k \in Halves : (Driver(k)' <=> Driver(k)) /\ (Joined(k)' <=> Joined(k))
  BY <1>1, <1>2, Settled, Zenon
<1>5. TypeOK'
  BY <1>1, <1>2 DEF Core, TypeOK, States
<1>6. Parked' /\ WaitingParked' /\ Roles'
  BY <1>1, <1>2, <1>3, <1>4 DEF Core, Parked, WaitingParked, StillParked, Roles
<1>7. Joins'
  BY <1>0, <1>1, <1>2, <1>3, <1>4 DEF Core, Joins
<1>8. Channels'
  <2>1. \A k \in Halves : Peer(h) = Peer(k) => k = h
    BY ChannelValues
  <2>2. \A k, g \in Halves : ch'[k] = Peer(g) => Driver(g) /\ peer[g] = k /\ pc'[g] # "notify"
    BY <1>0, <1>1, <1>2, <1>3, <2>1 DEF Core, Channels
  <2> QED
    BY <1>1, <1>2, <1>4, <2>2, ChannelValues DEF Core, Channels
<1> QED
  BY <1>5, <1>6, <1>7, <1>8, Zenon DEF Core

\* The handler's receive.
LEMMA ReceiveStep ==
    ASSUME Core, NEW h \in Halves, Receive(h)
    PROVE  Core'
<1>0. /\ pc[h] = "wait" /\ expiry[h] # "none" /\ ~Driver(h)
      /\ UNCHANGED <<half, pending, expiry, done, pairs, open>>
  BY Zenon DEF Receive, Core, Roles, Driver
<1>1. CASE ch[h] = Closed
  <2>1. pc' = [pc EXCEPT ![h] = "returned"] /\ UNCHANGED <<peer, ch>>
    BY <1>1, ChannelValues, Zenon DEF Receive
  <2>2. pc'[h] = "returned" /\ \A k \in Halves : k # h => pc'[k] = pc[k]
    BY <2>1, Zenon DEF Core, TypeOK
  <2>3. \A k \in Halves : (Driver(k)' <=> Driver(k)) /\ (Joined(k)' <=> Joined(k))
    BY <1>0, <2>1, <2>2, Settled, Zenon
  <2>4. ~Joined(h)
    BY <1>1, Zenon DEF Core, Channels
  <2>5. TypeOK'
    BY <1>0, <2>1, Zenon DEF Core, TypeOK, States
  <2>6. Parked' /\ WaitingParked' /\ Roles'
    BY <1>0, <1>1, <2>1, <2>2, <2>3, ChannelValues
       DEF Core, Parked, WaitingParked, StillParked, Roles
  <2>7. Joins'
    BY <1>0, <2>1, <2>2, <2>3, <2>4 DEF Core, Joins, Joined
  <2>8. Channels'
    BY <1>0, <2>1, <2>2, <2>3 DEF Core, Channels
  <2> QED
    BY <2>5, <2>6, <2>7, <2>8, Zenon DEF Core
<1>2. CASE ch[h] # Closed
  <2>0. PICK g \in Halves : ch[h] = Peer(g)
    BY <1>0, <1>2, ChannelValues DEF Receive, Core, TypeOK
  <2>1. /\ pc' = [pc EXCEPT ![h] = "parked"] /\ peer' = [peer EXCEPT ![h] = g]
        /\ ch' = [ch EXCEPT ![h] = Empty]
    BY <1>2, <2>0, ChannelValues, Zenon DEF Receive
  <2>2. /\ pc'[h] = "parked" /\ \A k \in Halves : k # h => pc'[k] = pc[k] /\ peer'[k] = peer[k]
        /\ ch'[h] = Empty /\ \A k \in Halves : k # h => ch'[k] = ch[k]
    BY <2>1, Zenon DEF Core, TypeOK
  <2>3. \A k \in Halves : (Driver(k)' <=> Driver(k)) /\ (Joined(k)' <=> Joined(k))
    BY <1>0, <2>1, <2>2, Settled, Zenon
  <2>4. Driver(g) /\ peer[g] = h /\ pc[g] # "notify" /\ Joined(h)
    BY <2>0, Zenon DEF Core, Channels, Joined
  <2>5. TypeOK'
    BY <1>0, <2>1, Zenon DEF Core, TypeOK, States
  <2>6. Parked' /\ WaitingParked' /\ Roles'
    BY <1>0, <2>1, <2>2, <2>3, <2>4, SMTT(30) DEF Core, Parked, WaitingParked, StillParked, Roles
  <2>7. Joins'
    <3>1. \A k \in Halves : Driver(k) => k # h /\ (pc[k] = "notify" => peer[k] # h)
      BY <1>0, <2>4, Zenon DEF Core, Joins
    <3>2. \A k \in Halves : Driver(k) => peer[k] \in Halves
      BY Zenon DEF Core, Roles
    <3> QED
      BY <1>0, <2>2, <2>3, <3>1, <3>2, SMTT(30) DEF Core, Joins
  <2>8. Channels'
    BY <1>0, <2>2, <2>3, ChannelValues DEF Core, Channels
  <2> QED
    BY <2>5, <2>6, <2>7, <2>8, Zenon DEF Core
<1> QED
  BY <1>1, <1>2, Zenon

\* Echoing the STREAM_RESUMEs decides nothing.
LEMMA EchoStep ==
    ASSUME Core, NEW h \in Halves, Echo(h)
    PROVE  Core'
<1>1. /\ pc[h] = "matched" /\ pc' = [pc EXCEPT ![h] = "echoed"]
      /\ UNCHANGED <<half, peer, pending, ch, expiry, done, pairs, open>>
  BY Zenon DEF Echo
<1>2. pc'[h] = "echoed" /\ \A k \in Halves : k # h => pc'[k] = pc[k]
  BY <1>1, Zenon DEF Core, TypeOK
<1>3. \A k \in Halves : (Driver(k)' <=> Driver(k)) /\ (Joined(k)' <=> Joined(k))
  BY <1>1, <1>2, Settled, Zenon
<1>4. TypeOK'
  <2>1. pc' \in [Halves -> States]
    BY <1>1, Zenon DEF Core, TypeOK, States
  <2> QED
    BY <1>1, <1>2, <2>1, Zenon DEF Core, TypeOK
<1>5. Parked' /\ WaitingParked' /\ Roles'
  BY <1>1, <1>2, <1>3, SMTT(30) DEF Core, Parked, WaitingParked, StillParked, Roles
<1>6. Joins' /\ Channels'
  BY <1>1, <1>2, <1>3 DEF Core, Joins, Channels, Roles
<1> QED
  BY <1>4, <1>5, <1>6, Zenon DEF Core

\* The splicer's steps, and the release of the parked handler.
LEMMA SpliceStep ==
    ASSUME Core, NEW h \in Halves, StartSplice(h) \/ EndSplice(h) \/ ReleaseParked(h)
    PROVE  Core'
<1>1. CASE StartSplice(h)
  <2>0. Driver(h) /\ half[h] \in [id : StreamIds, uri : Agents, kind : Kinds]
        /\ peer[h] \in DOMAIN half /\ h \in DOMAIN half
    BY <1>1, Zenon DEF StartSplice, Core, TypeOK, Roles, Joins, Driver
  <2>1. /\ pc[h] \in {"matched", "echoed"} /\ pc' = [pc EXCEPT ![h] = "splicing"]
        /\ pairs' = Put(pairs, half[h].id, <<half[h].uri, half[peer[h]].uri>>)
        /\ UNCHANGED <<half, peer, pending, ch, expiry, done, open>>
    BY <1>1, Zenon DEF StartSplice, replacePair
  <2>2. pc'[h] = "splicing" /\ \A k \in Halves : k # h => pc'[k] = pc[k]
    BY <2>1, Zenon DEF Core, TypeOK
  <2>3. \A k \in Halves : (Driver(k)' <=> Driver(k)) /\ (Joined(k)' <=> Joined(k))
    BY <2>1, <2>2, Settled, Zenon
  <2>4. TypeOK'
    <3>1. DOMAIN pairs' \subseteq StreamIds /\ \A id \in DOMAIN pairs' : pairs'[id] \in Agents \X Agents
      BY <2>0, <2>1, Zenon DEF Core, TypeOK, Put
    <3> QED
      BY <2>0, <2>1, <2>2, <3>1, SMTT(30) DEF Core, TypeOK, States
  <2>5. Parked' /\ WaitingParked' /\ Roles'
    BY <2>1, <2>2, <2>3, SMTT(30) DEF Core, Parked, WaitingParked, StillParked, Roles
  <2>6. Joins' /\ Channels'
    BY <2>1, <2>2, <2>3 DEF Core, Joins, Channels, Roles
  <2> QED
    BY <2>4, <2>5, <2>6, Zenon DEF Core
<1>2. CASE EndSplice(h)
  <2>0. PICK w \in Halves : w = peer[h]
    BY <1>2, Zenon DEF EndSplice, Core, TypeOK, Roles, Driver
  <2>1. /\ pc[h] = "splicing" /\ pc' = [pc EXCEPT ![h] = "returned"]
        /\ pairs' = Without(pairs, {half[h].id}) /\ done' = done \cup {w}
        /\ UNCHANGED <<half, peer, pending, ch, expiry, open>>
    BY <1>2, <2>0, Zenon DEF EndSplice, forgetPair
  <2>2. pc'[h] = "returned" /\ \A k \in Halves : k # h => pc'[k] = pc[k]
    BY <2>1, Zenon DEF Core, TypeOK
  <2>3. \A k \in Halves : (Driver(k)' <=> Driver(k)) /\ (Joined(k)' <=> Joined(k))
    BY <2>1, <2>2, Settled, Zenon
  <2>4. Driver(h) /\ Joined(w) /\ pc[w] # "new"
    BY <2>0, <2>1, Zenon DEF Core, TypeOK, Roles, Joins, Driver, Joined
  <2>5. TypeOK'
    <3>1. DOMAIN pairs' \subseteq StreamIds /\ \A id \in DOMAIN pairs' : pairs'[id] \in Agents \X Agents
      BY <2>1, Zenon DEF Core, TypeOK, Without, Restrict
    <3> QED
      BY <2>1, <2>2, <3>1, Zenon DEF Core, TypeOK, States
  <2>6. Parked' /\ WaitingParked' /\ Roles'
    BY <2>1, <2>2, <2>3, <2>4, SMTT(30) DEF Core, Parked, WaitingParked, StillParked, Roles
  <2>7. Joins'
    BY <2>0, <2>1, <2>2, <2>3, <2>4, SMTT(30) DEF Core, Joins, Roles, Driver
  <2>8. Channels'
    BY <2>1, <2>2, <2>3, <2>4 DEF Core, Channels
  <2> QED
    BY <2>5, <2>6, <2>7, <2>8, Zenon DEF Core
<1>3. CASE ReleaseParked(h)
  <2>1. /\ pc[h] = "parked" /\ pc' = [pc EXCEPT ![h] = "returned"] /\ h \in done
        /\ UNCHANGED <<half, peer, pending, ch, expiry, done, pairs, open>>
    BY <1>3, Zenon DEF ReleaseParked
  <2>2. pc'[h] = "returned" /\ \A k \in Halves : k # h => pc'[k] = pc[k]
    BY <2>1, Zenon DEF Core, TypeOK
  <2>3. \A k \in Halves : (Driver(k)' <=> Driver(k)) /\ (Joined(k)' <=> Joined(k))
    BY <2>1, <2>2, Settled, Zenon
  <2>4. TypeOK'
    BY <2>1, <2>2, Zenon DEF Core, TypeOK, States
  <2>5. Parked' /\ WaitingParked' /\ Roles'
    BY <2>1, <2>2, <2>3, SMTT(30) DEF Core, Parked, WaitingParked, StillParked, Roles
  <2>6. Joins'
    BY <2>1, <2>2, <2>3, SMTT(30) DEF Core, Joins, Roles, Driver
  <2>7. Channels'
    <3>1. Channels
      BY Zenon DEF Core
    <3>2. \A g \in Halves : Driver(g) => pc[g] # "parked"
      BY Zenon DEF Core, Roles, Driver
    <3> QED
      BY <2>1, <2>2, <2>3, <3>1, <3>2, SMTT(30) DEF Channels
  <2> QED
    BY <2>4, <2>5, <2>6, <2>7, Zenon DEF Core
<1> QED
  BY <1>1, <1>2, <1>3, Zenon

\* The expiry goroutine's steps.
LEMMA ExpireStep ==
    ASSUME Core, NEW h \in Halves, Expire(h)
    PROVE  Core'
<1>0. /\ UNCHANGED <<half, pc, peer, done, pairs, open>>
      /\ expiry[h] # "none" /\ expiry'[h] # "none"
      /\ \A k \in Halves : k # h => expiry'[k] = expiry[k]
      /\ expiry' \in [Halves -> {"none", "armed", "fired", "closing", "gone"}]
  BY Zenon DEF Expire, ExpiryReceive, TimerFires, ExpireHalf, CloseMatched, Core, TypeOK
<1>1. \A k \in Halves : (Driver(k)' <=> Driver(k)) /\ (Joined(k)' <=> Joined(k))
  BY <1>0, Settled, Zenon
<1>2. Roles'
  BY <1>0, <1>1, Zenon DEF Core, Roles
<1>3. CASE ExpiryReceive(h)
  <2>1. /\ expiry[h] = "armed" /\ expiry'[h] = "gone" /\ UNCHANGED pending
        /\ ch[h] # Empty /\ ch[h] # Closed
        /\ ch' = [ch EXCEPT ![h] = Empty]
    BY <1>3, Zenon DEF ExpiryReceive, Core, TypeOK, Channels
  <2>2. ch'[h] = Empty /\ \A k \in Halves : k # h => ch'[k] = ch[k]
    BY <2>1, Zenon DEF Core, TypeOK
  <2>3. TypeOK'
    BY <1>0, <2>1, Zenon DEF Core, TypeOK
  <2>7. Parked'
    BY <1>0, <1>1, <2>1, <2>2 DEF Core, Parked
  <2>4. Joined(h)
    BY <2>1 DEF Core, TypeOK, Channels, Joined
  <2>5. WaitingParked' /\ Joins'
    BY <1>0, <1>1, <2>1, <2>2, <2>4, SMTT(30) DEF Core, WaitingParked, StillParked, Joins, Roles
  <2>6. Channels'
    BY <1>0, <1>1, <2>1, <2>2, ChannelValues DEF Core, Channels
  <2> QED
    BY <1>2, <2>3, <2>5, <2>6, <2>7, Zenon DEF Core
<1>4. CASE TimerFires(h)
  <2>1. expiry[h] = "armed" /\ expiry'[h] = "fired" /\ UNCHANGED <<pending, ch>>
    BY <1>4, Zenon DEF TimerFires, Core, TypeOK
  <2>2. TypeOK'
    BY <1>0, <2>1, Zenon DEF Core, TypeOK
  <2>4. Parked' /\ WaitingParked'
    BY <1>0, <1>1, <2>1, SMTT(30) DEF Core, Parked, WaitingParked, StillParked
  <2>3. Joins' /\ Channels'
    BY <1>0, <1>1, <2>1 DEF Core, Joins, Channels, Roles
  <2> QED
    BY <1>2, <2>2, <2>3, <2>4, Zenon DEF Core
<1>5. CASE ExpireHalf(h) /\ StillParked(h)
  <2>1. /\ expiry[h] = "fired" /\ expiry'[h] = "closing" /\ half[h].id \in DOMAIN pending
        /\ pending[half[h].id] = h /\ pending' = Without(pending, {half[h].id}) /\ UNCHANGED ch
    BY <1>5, Zenon DEF ExpireHalf, StillParked, Core, TypeOK
  <2>8. expiry'[h] = "closing" /\ UNCHANGED ch
    BY <2>1, Zenon
  <2>2. ~Joined(h) /\ ch[h] = Empty
    BY <2>1, Zenon DEF Core, Parked
  <2>3. TypeOK'
    <3>1. DOMAIN pending' \subseteq StreamIds /\ \A id \in DOMAIN pending' : pending'[id] \in Halves
      BY <2>1, Zenon DEF Core, TypeOK, Without, Restrict
    <3> QED
      BY <1>0, <2>1, <3>1, Zenon DEF Core, TypeOK
  <2>7. Parked'
    BY <1>0, <1>1, <2>1, SMTT(30) DEF Core, Parked, Without, Restrict
  <2>4. WaitingParked'
    BY <1>0, <1>1, <2>1, SMTT(30) DEF Core, WaitingParked, StillParked, Without, Restrict
  <2>5. Joins'
    <3>1. \A g \in Halves : Driver(g) => peer[g] \in Halves /\ peer[g] # h
      BY <2>2, Zenon DEF Core, Joined, Roles
    <3>2. Joins
      BY Zenon DEF Core
    <3> QED
      BY <1>0, <1>1, <2>8, <3>1, <3>2, Zenon DEF Joins
  <2>6. Channels'
    <3>1. Channels
      BY Zenon DEF Core
    <3> QED
      BY <1>0, <1>1, <2>2, <2>8, <3>1, ChannelValues DEF Channels
  <2> QED
    BY <1>2, <2>3, <2>4, <2>5, <2>6, <2>7, Zenon DEF Core
<1>6. CASE ExpireHalf(h) /\ ~StillParked(h)
  <2>1. expiry[h] = "fired" /\ expiry'[h] = "gone" /\ UNCHANGED <<pending, ch>>
    BY <1>6, Zenon DEF ExpireHalf, Core, TypeOK
  <2>2. \A id \in DOMAIN pending : pending[id] # h
    BY <1>6, Zenon DEF StillParked, Core, Parked
  <2>3. TypeOK'
    BY <1>0, <2>1, Zenon DEF Core, TypeOK
  <2>5. Parked' /\ WaitingParked'
    BY <1>0, <1>1, <2>1, <2>2, SMTT(30) DEF Core, Parked, WaitingParked, StillParked
  <2>4. Joins' /\ Channels'
    BY <1>0, <1>1, <2>1 DEF Core, Joins, Channels, Roles
  <2> QED
    BY <1>2, <2>3, <2>4, <2>5, Zenon DEF Core
<1>7. CASE CloseMatched(h)
  <2>1. /\ expiry[h] = "closing" /\ expiry'[h] = "gone" /\ UNCHANGED pending
        /\ ch' = [ch EXCEPT ![h] = Closed]
    BY <1>7, Zenon DEF CloseMatched, Core, TypeOK
  <2>2. ch'[h] = Closed /\ \A k \in Halves : k # h => ch'[k] = ch[k]
    BY <2>1, Zenon DEF Core, TypeOK
  <2>3. ~Joined(h)
    BY <2>1, Zenon DEF Core, Channels
  <2>4. TypeOK'
    BY <1>0, <2>1, Zenon DEF Core, TypeOK
  <2>7. Parked' /\ WaitingParked'
    BY <1>0, <1>1, <2>1, <2>2, SMTT(30) DEF Core, Parked, WaitingParked, StillParked
  <2>5. Joins'
    BY <1>0, <1>1, <2>1, <2>2, <2>3 DEF Core, Joins, Joined, Roles
  <2>6. Channels'
    BY <1>0, <1>1, <2>1, <2>2, <2>3, ChannelValues DEF Core, Channels
  <2> QED
    BY <1>2, <2>4, <2>5, <2>6, <2>7, Zenon DEF Core
<1> QED
  BY <1>3, <1>4, <1>5, <1>6, <1>7, Zenon DEF Expire

\* Streams opened and closed here touch only pairs.
LEMMA OpenStep ==
    ASSUME Core, NEW o \in Opens,
           \/ \E id \in StreamIds, p \in Agents \X Agents : OpenStream(o, id, p)
           \/ CloseStream(o)
    PROVE  Core'
<1>1. UNCHANGED <<half, pc, peer, pending, ch, expiry, done>>
  BY Zenon DEF OpenStream, CloseStream
<1>2. DOMAIN pairs' \subseteq StreamIds /\ \A id \in DOMAIN pairs' : pairs'[id] \in Agents \X Agents
  <2>1. ASSUME NEW id \in StreamIds, NEW p \in Agents \X Agents, pairs' = Put(pairs, id, p)
        PROVE  /\ DOMAIN pairs' \subseteq StreamIds
               /\ \A i \in DOMAIN pairs' : pairs'[i] \in Agents \X Agents
    BY <2>1, Zenon DEF Put, Core, TypeOK
  <2>2. ASSUME NEW id, pairs' = Without(pairs, {id})
        PROVE  /\ DOMAIN pairs' \subseteq StreamIds
               /\ \A i \in DOMAIN pairs' : pairs'[i] \in Agents \X Agents
    BY <2>2, Zenon DEF Without, Restrict, Core, TypeOK
  <2>3. \/ UNCHANGED pairs
        \/ \E id \in StreamIds, p \in Agents \X Agents : pairs' = Put(pairs, id, p)
        \/ \E id : pairs' = Without(pairs, {id})
    BY Zenon DEF OpenStream, CloseStream, forgetPair
  <2> QED
    BY <2>1, <2>2, <2>3, Zenon DEF Core, TypeOK
<1>3. open' \in [Opens -> [pc : {"new", "rejected"}] \cup
                        [pc : {"splicing", "returned"}, id : StreamIds, pair : Agents \X Agents]]
  BY SMTT(30) DEF OpenStream, CloseStream, Core, TypeOK
<1>4. TypeOK'
  BY <1>1, <1>2, <1>3, Zenon DEF Core, TypeOK
<1>5. Parked' /\ WaitingParked' /\ Roles' /\ Joins' /\ Channels'
  BY <1>1, SMTT(30) DEF Core, Parked, WaitingParked, StillParked, Roles, Joins, Channels, Joined, Driver
<1> QED
  BY <1>4, <1>5, Zenon DEF Core

\* The invariant is inductive.
LEMMA CoreStep ==
    ASSUME Core, [Next]_vars
    PROVE  Core'
<1>1. CASE UNCHANGED vars
  <2>1. TypeOK'
    BY <1>1, Zenon DEF vars, Core, TypeOK
  <2>2. \A k \in Halves : (Driver(k)' <=> Driver(k)) /\ (Joined(k)' <=> Joined(k))
    BY <1>1, Settled DEF vars
  <2>3. Parked' /\ WaitingParked'
    BY <1>1, <2>2 DEF vars, Core, Parked, WaitingParked, StillParked
  <2>4. Roles'
    BY <1>1, <2>2 DEF vars, Core, Roles
  <2>5. Joins'
    BY <1>1, <2>2 DEF vars, Core, Joins
  <2>6. Channels'
    BY <1>1, <2>2 DEF vars, Core, Channels
  <2> QED
    BY <2>1, <2>3, <2>4, <2>5, <2>6 DEF Core
<1>2. ASSUME NEW h \in Halves, Handle(h) \/ EndSplice(h)
      PROVE  Core'
  BY <1>2, NotifyStep, ReceiveStep, EchoStep, SpliceStep, Zenon DEF Handle
<1>3. ASSUME NEW o \in Opens, NEW id \in StreamIds, NEW c \in Agents, NEW p \in Agents,
             OpenStream(o, id, <<c, p>>)
      PROVE  Core'
  BY <1>3, OpenStep, Zenon
<1> QED
  BY <1>1, <1>2, <1>3, JoinStep, WaitStep, ExpireStep, OpenStep, Zenon DEF Next

\* The inductive invariant of the matcher holds of every behaviour.
THEOREM CoreInvariant == Spec => []Core
BY InitCore, CoreStep, PTL DEF Spec

\* In the invariant, a half that runs the splice is the driver of its pair.
LEMMA RunnerDrives ==
    ASSUME Core
    PROVE  \A g \in Halves : Running(g) => Driver(g) /\ pc[g] # "returned"
BY Zenon DEF Core, TypeOK, Roles, Running, Driver

(***************************************************************************)
(* Submit's notice, for any number of halves: the send on the peer's       *)
(* channel neither blocks nor panics, however Submit, the timeout and the  *)
(* stream's end interleave.                                                *)
(***************************************************************************)
THEOREM ResumeSafe == Spec => []SendIsSafe
<1>1. Core => SendIsSafe
  BY RunnerDrives, Zenon DEF Core, Joins, SendIsSafe, Running
<1> QED
  BY <1>1, CoreInvariant, PTL

(***************************************************************************)
(* splicePair, for any number of halves: one half of a pair splices, and   *)
(* the other half's stream is open while it does.                          *)
(***************************************************************************)
THEOREM SpliceHasBoth == Spec => []SplicePaired
<1>1. Core => SplicePaired
  BY RunnerDrives, Zenon DEF Core, Joins, SplicePaired
<1> QED
  BY <1>1, CoreInvariant, PTL

-----------------------------------------------------------------------------
(* What splicePair records *)

Undisturbed(h) ==
    /\ \A o \in Opens : open[o].pc = "returned" => open[o].id # half[h].id
    /\ \A g \in Halves \ {h} : g \in done \/ pc[g] = "splicing" => half[g].id # half[h].id

Routed ==
    \A h \in Halves : pc[h] = "splicing" /\ Undisturbed(h) =>
        half[h].id \in DOMAIN pairs /\ pairs[half[h].id] = <<half[h].uri, half[peer[h]].uri>>

\* A splicer and its mate have arrived.
LEMMA SplicerKnown ==
    ASSUME Core, NEW h \in Halves, pc[h] = "splicing"
    PROVE  /\ Driver(h) /\ h \in DOMAIN half /\ peer[h] \in Halves /\ peer[h] \in DOMAIN half
           /\ pc[peer[h]] \in {"wait", "parked"} /\ half[peer[h]].id = half[h].id
<1>1. Driver(h) /\ peer[h] \in Halves
  BY Zenon DEF Core, TypeOK, Roles, Driver
<1> QED
  BY <1>1, Zenon DEF Core, TypeOK, Joins

\* A step that leaves pairs and splicers alone keeps them routed.
LEMMA RoutedKept ==
    ASSUME Core, Routed, UNCHANGED <<pairs, open, done>>,
           \A k \in Halves : /\ pc'[k] = "splicing" <=> pc[k] = "splicing"
                             /\ pc[k] = "splicing" => peer'[k] = peer[k],
           \A k \in DOMAIN half : half'[k] = half[k]
    PROVE  Routed'
<1>1. \A k \in Halves : k \in done \/ pc[k] = "splicing" => k \in DOMAIN half
  BY Zenon DEF Core, TypeOK, Roles
<1>2. ASSUME NEW k \in Halves, pc'[k] = "splicing"
      PROVE  /\ pc[k] = "splicing" /\ peer'[k] = peer[k] /\ half'[k] = half[k]
             /\ half'[peer[k]] = half[peer[k]]
  BY <1>2, SplicerKnown, Zenon
<1>3. ASSUME NEW k \in Halves, pc'[k] = "splicing", Undisturbed(k)'
      PROVE  Undisturbed(k)
  BY <1>1, <1>2, <1>3, Zenon DEF Undisturbed
<1> QED
  BY <1>2, <1>3 DEF Routed

\* A splice that starts is routed, over any stale pair.
LEMMA StartRouted ==
    ASSUME Core, Routed, NEW h \in Halves, StartSplice(h)
    PROVE  Routed'
<1>1. /\ pc'[h] = "splicing" /\ \A k \in Halves : k # h => pc'[k] = pc[k]
      /\ pairs' = Put(pairs, half[h].id, <<half[h].uri, half[peer[h]].uri>>)
      /\ UNCHANGED <<half, peer, done, open>>
  BY Zenon DEF StartSplice, replacePair, Core, TypeOK
<1>2. ASSUME NEW k \in Halves, k # h, pc'[k] = "splicing", Undisturbed(k)'
      PROVE  /\ half[k].id \in DOMAIN pairs'
             /\ pairs'[half[k].id] = <<half[k].uri, half[peer[k]].uri>>
  <2>1. Undisturbed(k) /\ half[h].id # half[k].id /\ pc[k] = "splicing"
    BY <1>1, <1>2, Zenon DEF Undisturbed
  <2> QED
    BY <1>1, <2>1, Zenon DEF Routed, Put
<1>3. half[h].id \in DOMAIN pairs' /\ pairs'[half[h].id] = <<half[h].uri, half[peer[h]].uri>>
  BY <1>1, Zenon DEF Put
<1> QED
  BY <1>1, <1>2, <1>3, Zenon DEF Routed

\* The end of a splice disturbs only its own id.
LEMMA EndRouted ==
    ASSUME Core, Routed, NEW h \in Halves, EndSplice(h)
    PROVE  Routed'
<1>1. /\ pc[h] = "splicing" /\ pc'[h] = "returned" /\ \A k \in Halves : k # h => pc'[k] = pc[k]
      /\ pairs' = Without(pairs, {half[h].id}) /\ done' = done \cup {peer[h]}
      /\ UNCHANGED <<half, peer, open>>
  BY Zenon DEF EndSplice, forgetPair, Core, TypeOK
<1>2. peer[h] \in Halves /\ half[peer[h]].id = half[h].id /\ pc[peer[h]] \in {"wait", "parked"}
  BY <1>1, SplicerKnown, Zenon
<1>3. ASSUME NEW k \in Halves, pc'[k] = "splicing", Undisturbed(k)'
      PROVE  /\ half[k].id \in DOMAIN pairs'
             /\ pairs'[half[k].id] = <<half[k].uri, half[peer[k]].uri>>
  <2>1. k # h /\ k # peer[h] /\ pc[k] = "splicing"
    BY <1>1, <1>2, <1>3, Zenon
  <2>2. half[k].id # half[h].id
    BY <1>1, <1>2, <1>3, <2>1, Zenon DEF Undisturbed
  <2>3. Undisturbed(k)
    BY <1>1, <1>3, <2>1, <2>2, Zenon DEF Undisturbed
  <2> QED
    BY <1>1, <2>1, <2>2, <2>3, Zenon DEF Routed, Without, Restrict
<1> QED
  BY <1>1, <1>3, Zenon DEF Routed

\* A stream opened or closed here disturbs only its own id.
LEMMA OpenRouted ==
    ASSUME Core, Routed, NEW o \in Opens,
           (\E id \in StreamIds, p \in Agents \X Agents : OpenStream(o, id, p)) \/ CloseStream(o)
    PROVE  Routed'
<1>1. UNCHANGED <<half, pc, peer, done>>
  BY Zenon DEF OpenStream, CloseStream
<1>2. CASE CloseStream(o)
  <2>1. /\ pairs' = Without(pairs, {open[o].id}) /\ open[o].pc = "splicing"
        /\ open'[o].pc = "returned" /\ open'[o].id = open[o].id
        /\ \A q \in Opens : q # o => open'[q] = open[q]
    BY <1>2, Zenon DEF CloseStream, forgetPair, Core, TypeOK
  <2>2. ASSUME NEW k \in Halves, Undisturbed(k)'
        PROVE  Undisturbed(k) /\ half[k].id # open[o].id
    BY <1>1, <2>1, <2>2, Zenon DEF Undisturbed
  <2> QED
    BY <1>1, <2>1, <2>2, Zenon DEF Routed, Without, Restrict
<1>3. ASSUME NEW id \in StreamIds, NEW p \in Agents \X Agents, OpenStream(o, id, p)
      PROVE  Routed'
  <2>1. /\ open[o].pc = "new" /\ open'[o].pc # "returned"
        /\ \A q \in Opens : q # o => open'[q] = open[q]
    BY <1>3 DEF OpenStream, Core, TypeOK
  <2>2. \A i \in DOMAIN pairs : i \in DOMAIN pairs' /\ pairs'[i] = pairs[i]
    BY <1>3, Zenon DEF OpenStream, recordPair, Put
  <2>3. \A k \in Halves : Undisturbed(k)' => Undisturbed(k)
    BY <1>1, <2>1, Zenon DEF Undisturbed
  <2> QED
    BY <1>1, <2>2, <2>3, Zenon DEF Routed
<1> QED
  BY <1>2, <1>3, Zenon

IInv == Core /\ Routed

\* The invariant is inductive.
LEMMA IInvStep ==
    ASSUME IInv, [Next]_vars
    PROVE  IInv'
<1>1. Core'
  BY CoreStep, Zenon DEF IInv
<1>2. ASSUME NEW h \in Halves, NEW a \in Arrivals[h], Submit(h, a.id, a.uri, a.kind)
      PROVE  Routed'
  <2>1. h \notin DOMAIN half
    BY <1>2, Zenon DEF Submit, IInv, Core, TypeOK
  <2>2. \A k \in DOMAIN half : half'[k] = half[k]
    BY <1>2, <2>1, Zenon DEF Submit, Put
  <2>3. /\ UNCHANGED <<pairs, open, done>>
        /\ \A k \in Halves : /\ pc'[k] = "splicing" <=> pc[k] = "splicing"
                             /\ pc[k] = "splicing" => peer'[k] = peer[k]
    BY <1>2, Zenon DEF Submit, IInv, Core, TypeOK
  <2> QED
    BY <2>2, <2>3, RoutedKept, Zenon DEF IInv
<1>3. ASSUME NEW h \in Halves,
             Notify(h) \/ Receive(h) \/ Echo(h) \/ ReleaseParked(h) \/ Expire(h)
      PROVE  Routed'
  <2>1. /\ UNCHANGED <<half, pairs, open, done>>
        /\ \A k \in Halves : /\ pc'[k] = "splicing" <=> pc[k] = "splicing"
                             /\ pc[k] = "splicing" => peer'[k] = peer[k]
    BY <1>3, Zenon DEF Notify, Receive, Echo, ReleaseParked, Expire, ExpiryReceive, TimerFires,
                ExpireHalf, CloseMatched, IInv, Core, TypeOK
  <2> QED
    BY <2>1, RoutedKept, Zenon DEF IInv
<1>4. ASSUME NEW o \in Opens, NEW id \in StreamIds, NEW c \in Agents, NEW p \in Agents,
             OpenStream(o, id, <<c, p>>)
      PROVE  Routed'
  BY <1>4, OpenRouted, Zenon DEF IInv
<1>5. ASSUME UNCHANGED vars
      PROVE  Routed'
  BY <1>5, RoutedKept, Zenon DEF IInv, vars
<1>6. Routed'
  BY <1>2, <1>3, <1>4, <1>5, StartRouted, EndRouted, OpenRouted, Zenon DEF IInv, Next, Handle
<1> QED
  BY <1>1, <1>6, Zenon DEF IInv

\* The inductive invariant holds of every behaviour of the matcher.
THEOREM ResumeInvariant == Spec => []IInv
<1>1. Init => IInv
  BY InitCore, Zenon DEF IInv, Routed, Init
<1> QED
  BY <1>1, IInvStep, PTL DEF Spec

\* While resumed halves are spliced, replacePair leaves the pair that peerOf
\* routes control frames by, unless another use of the id came between.
THEOREM ResumedRouting == Spec => []ResumedPairRouted
<1>1. IInv => ResumedPairRouted
  BY DEF IInv, Routed, Undisturbed, ResumedPairRouted, peerOf
<1> QED
  BY <1>1, ResumeInvariant, PTL

-----------------------------------------------------------------------------
(* The refinement *)

Key(h) == IF pc[h] = "new" THEN "none" ELSE half[h].id
Mate(h) == IF Driver(h) THEN peer[h] ELSE Nobody

\* The variables of the rendezvous, half by half.
LEMMA AbstractNext ==
    /\ [h \in Halves |-> Outcome(h)]' = [h \in Halves |-> Outcome(h)']
    /\ [h \in Halves |-> Key(h)]' = [h \in Halves |-> Key(h)']
    /\ [h \in Halves |-> Mate(h)]' = [h \in Halves |-> Mate(h)']
OBVIOUS

\* The outcome depends on the role and the expiry only.
LEMMA SameOutcome ==
    ASSUME NEW k \in Halves, pc[k] = "new" <=> pc'[k] = "new",
           Driver(k)' <=> Driver(k), Joined(k)' <=> Joined(k),
           expiry[k] \in {"armed", "fired"} <=> expiry'[k] \in {"armed", "fired"}
    PROVE  Outcome(k)' = Outcome(k)
BY Zenon DEF Outcome

\* A Submit that finds a parked half is a Join of Rendezvous.
LEMMA JoinMaps ==
    ASSUME Core, NEW h \in Halves, NEW a \in Arrivals[h], Submit(h, a.id, a.uri, a.kind),
           a.id \in DOMAIN pending
    PROVE  Abstract!Join(h, a.id)
<1>0. PICK w \in Halves : w = pending[a.id]
  BY Zenon DEF Core, TypeOK
<1>1. /\ pc[h] = "new" /\ pc' = [pc EXCEPT ![h] = "notify"]
      /\ half' = Put(half, h, [id |-> a.id, uri |-> a.uri, kind |-> a.kind])
      /\ peer' = [peer EXCEPT ![h] = w] /\ UNCHANGED expiry
  BY <1>0, Zenon DEF Submit
<1>2. /\ w # h /\ half[w].id = a.id /\ pc[w] = "wait" /\ h \notin DOMAIN half
      /\ expiry[w] \in {"armed", "fired"} /\ ~Joined(w) /\ ~Driver(w)
      /\ expiry[h] = "none" /\ ~Driver(h) /\ ~Joined(h)
  BY <1>0, <1>1 DEF Core, TypeOK, Parked, Roles, Joins, Driver, Joined
<1>3. /\ pc'[h] = "notify" /\ peer'[h] = w
      /\ \A k \in Halves : k # h => pc'[k] = pc[k] /\ peer'[k] = peer[k]
      /\ half'[h].id = a.id /\ \A k \in Halves : pc[k] # "new" => half'[k] = half[k]
  BY <1>1, <1>2, Zenon DEF Core, TypeOK, Put
<1>4. /\ \A k \in Halves : Driver(k)' <=> Driver(k) \/ k = h
      /\ \A k \in Halves : Joined(k)' <=> Joined(k) \/ k = w
  BY <1>1, <1>2, <1>3 DEF Driver, Joined
<1>5. Outcome(h) = "new" /\ Outcome(h)' = "driver"
  BY <1>1, <1>3, <1>4, Zenon DEF Outcome
<1>6. Outcome(w) = "waiting" /\ Outcome(w)' = "joined"
  BY <1>1, <1>2, <1>3, <1>4, Zenon DEF Outcome
<1>7. ASSUME NEW k \in Halves, k # h
      PROVE  /\ k # w => Outcome(k)' = Outcome(k)
             /\ Key(k)' = Key(k) /\ Mate(k)' = Mate(k)
  BY <1>1, <1>3, <1>4, <1>7, SameOutcome, Zenon DEF Key, Mate
<1>8. Key(h)' = a.id /\ Mate(h)' = w /\ Key(w) = a.id
  BY <1>2, <1>3, <1>4, Zenon DEF Key, Mate
<1>9. /\ [k \in Halves |-> Outcome(k)]' =
            [[k \in Halves |-> Outcome(k)] EXCEPT ![h] = "driver", ![w] = "joined"]
      /\ [k \in Halves |-> Key(k)]' = [[k \in Halves |-> Key(k)] EXCEPT ![h] = a.id]
      /\ [k \in Halves |-> Mate(k)]' = [[k \in Halves |-> Mate(k)] EXCEPT ![h] = w]
  BY <1>2, <1>5, <1>6, <1>7, <1>8, AbstractNext, Zenon
<1>10. w \in Abstract!Waiting(a.id)
  BY <1>6, <1>8, Zenon DEF Abstract!Waiting, Key
<1> QED
  BY <1>5, <1>9, <1>10, Zenon DEF Abstract!Join, Key, Mate

\* A Submit that parks is a Wait of Rendezvous.
LEMMA WaitMaps ==
    ASSUME Core, NEW h \in Halves, NEW a \in Arrivals[h], Submit(h, a.id, a.uri, a.kind),
           a.id \notin DOMAIN pending
    PROVE  Abstract!Wait(h, a.id)
<1>1. /\ pc[h] = "new" /\ pc' = [pc EXCEPT ![h] = "wait"]
      /\ half' = Put(half, h, [id |-> a.id, uri |-> a.uri, kind |-> a.kind])
      /\ expiry' = [expiry EXCEPT ![h] = "armed"] /\ UNCHANGED peer
  BY Zenon DEF Submit
<1>2. h \notin DOMAIN half /\ expiry[h] = "none" /\ ~Driver(h) /\ ~Joined(h)
  BY <1>1, Zenon DEF Core, TypeOK, Roles, Joins, Driver, Joined
<1>3. /\ pc'[h] = "wait" /\ expiry'[h] = "armed"
      /\ \A k \in Halves : k # h => pc'[k] = pc[k] /\ expiry'[k] = expiry[k]
      /\ half'[h].id = a.id /\ \A k \in Halves : pc[k] # "new" => half'[k] = half[k]
  BY <1>1, <1>2, Zenon DEF Core, TypeOK, Put
<1>4. \A k \in Halves : (Driver(k)' <=> Driver(k)) /\ (Joined(k)' <=> Joined(k))
  BY <1>1, <1>2, <1>3 DEF Driver, Joined
<1>5. Outcome(h) = "new" /\ Outcome(h)' = "waiting" /\ Key(h)' = a.id /\ Mate(h)' = Mate(h)
  BY <1>1, <1>2, <1>3, <1>4, Zenon DEF Outcome, Key, Mate
<1>6. ASSUME NEW k \in Halves, k # h
      PROVE  Outcome(k)' = Outcome(k) /\ Key(k)' = Key(k) /\ Mate(k)' = Mate(k)
  BY <1>1, <1>3, <1>4, <1>6, SameOutcome, Zenon DEF Key, Mate
<1>7. /\ [k \in Halves |-> Outcome(k)]' = [[k \in Halves |-> Outcome(k)] EXCEPT ![h] = "waiting"]
      /\ [k \in Halves |-> Key(k)]' = [[k \in Halves |-> Key(k)] EXCEPT ![h] = a.id]
      /\ [k \in Halves |-> Mate(k)]' = [k \in Halves |-> Mate(k)]
  BY <1>5, <1>6, AbstractNext, Zenon
<1>8. ASSUME NEW k \in Halves, Outcome(k) = "waiting", Key(k) = a.id
      PROVE  FALSE
  <2>1. pc[k] # "new" /\ ~Joined(k) /\ expiry[k] \in {"armed", "fired"}
    BY <1>8, Zenon DEF Outcome
  <2>2. half[k].id = a.id
    BY <1>8, <2>1, Zenon DEF Key
  <2> QED
    BY <2>1, <2>2, Zenon DEF Core, WaitingParked, StillParked
<1>9. Abstract!Waiting(a.id) = {}
  BY <1>8, Zenon DEF Abstract!Waiting, Key
<1> QED
  BY <1>5, <1>7, <1>9, Zenon DEF Abstract!Wait, Key, Mate

\* The lock section of a half's expiry drops it; no other step of the expiry or
\* of a handler shows.
LEMMA LaterMaps ==
    ASSUME Core, NEW h \in Halves, Handle(h) \/ EndSplice(h) \/ Expire(h)
    PROVE  Abstract!Expire(h) \/ UNCHANGED Abstract!vars
<1>1. /\ UNCHANGED half /\ \A k \in Halves : /\ pc[k] = "new" <=> pc'[k] = "new"
                                             /\ expiry[k] = "none" <=> expiry'[k] = "none"
      /\ \A k \in Halves : k # h => expiry'[k] = expiry[k]
      /\ expiry'[h] \in {"armed", "fired"} => expiry[h] \in {"armed", "fired"}
  BY DEF Handle, Notify, Receive, Echo, StartSplice, ReleaseParked, EndSplice, Expire,
         ExpiryReceive, TimerFires, ExpireHalf, CloseMatched, Core, TypeOK
<1>2. \A k \in Halves : Driver(k) => peer'[k] = peer[k]
  <2>1. CASE Receive(h)
    <3>1. ~Driver(h)
      BY <2>1, Zenon DEF Receive, Core, Roles, Driver
    <3>2. \A k \in Halves : k # h => peer'[k] = peer[k]
      BY <2>1, Zenon DEF Receive, Core, TypeOK
    <3> QED
      BY <3>1, <3>2, Zenon
  <2>2. CASE ~Receive(h)
    BY <2>2, Zenon DEF Handle, Notify, Echo, StartSplice, ReleaseParked, EndSplice, Expire,
                ExpiryReceive, TimerFires, ExpireHalf, CloseMatched
  <2> QED
    BY <2>1, <2>2, Zenon
<1>3. \A k \in Halves : (Driver(k)' <=> Driver(k)) /\ (Joined(k)' <=> Joined(k))
  BY <1>1, <1>2, Settled, Zenon
<1>4. \A k \in Halves : Key(k)' = Key(k) /\ Mate(k)' = Mate(k)
  BY <1>1, <1>2, <1>3, Zenon DEF Key, Mate
<1>5. \A k \in Halves : k # h => Outcome(k)' = Outcome(k)
  BY <1>1, <1>3, SameOutcome, Zenon
<1>6. Outcome(h)' = Outcome(h) \/ (Outcome(h) = "waiting" /\ Outcome(h)' = "expired")
  BY <1>1, <1>3, Zenon DEF Outcome
<1>7. CASE Outcome(h)' = Outcome(h)
  <2>1. \A k \in Halves : Outcome(k)' = Outcome(k)
    BY <1>5, <1>7, Zenon
  <2> QED
    BY <1>4, <2>1, AbstractNext, Zenon DEF Abstract!vars, Key, Mate
<1>8. CASE Outcome(h) = "waiting" /\ Outcome(h)' = "expired"
  <2>1. [k \in Halves |-> Outcome(k)]' = [[k \in Halves |-> Outcome(k)] EXCEPT ![h] = "expired"]
    BY <1>5, <1>8, AbstractNext, Zenon
  <2>2. /\ [k \in Halves |-> Key(k)]' = [k \in Halves |-> Key(k)]
        /\ [k \in Halves |-> Mate(k)]' = [k \in Halves |-> Mate(k)]
    BY <1>4, AbstractNext, Zenon
  <2> QED
    BY <1>8, <2>1, <2>2, Zenon DEF Abstract!Expire, Key, Mate
<1> QED
  BY <1>6, <1>7, <1>8, Zenon

(***************************************************************************)
(* resumeMatcher implements the rendezvous, for any number of halves and   *)
(* ids, although a parked half's handler and its expiry compete for the    *)
(* notice: who is paired with whom is decided under the lock.              *)
(***************************************************************************)
THEOREM ResumeRendezvous == Spec => ImplementsRendezvous
<1>1. Init => Abstract!Init
  BY Zenon DEF Init, Abstract!Init, Outcome, Driver
<1>2. ASSUME IInv, [Next]_vars
      PROVE  [Abstract!Next]_(Abstract!vars)
  <2>1. ASSUME UNCHANGED <<half, pc, peer, expiry>>
        PROVE  UNCHANGED Abstract!vars
    BY <2>1, Zenon DEF Abstract!vars, Outcome, Driver, Joined
  <2>2. ASSUME NEW h \in Halves, NEW a \in Arrivals[h], Submit(h, a.id, a.uri, a.kind)
        PROVE  Abstract!Next
    <3>1. a.id \in StreamIds
      BY ResumeConstants, Zenon
    <3> QED
      BY <1>2, <2>2, <3>1, JoinMaps, WaitMaps, Zenon DEF IInv, Abstract!Next
  <2>3. ASSUME NEW h \in Halves, Handle(h) \/ EndSplice(h) \/ Expire(h)
        PROVE  [Abstract!Next]_(Abstract!vars)
    BY <1>2, <2>3, LaterMaps, Zenon DEF IInv, Abstract!Next
  <2>4. ASSUME NEW o \in Opens, NEW id, NEW p, OpenStream(o, id, p) \/ CloseStream(o)
        PROVE  UNCHANGED Abstract!vars
    BY <2>1, <2>4, Zenon DEF OpenStream, CloseStream
  <2>5. CASE UNCHANGED vars
    BY <2>1, <2>5, Zenon DEF vars
  <2> QED
    BY <1>2, <2>2, <2>3, <2>4, <2>5, Zenon DEF Next
<1> QED
  BY <1>1, <1>2, ResumeInvariant, PTL DEF Spec, Abstract!Spec, ImplementsRendezvous
=============================================================================
