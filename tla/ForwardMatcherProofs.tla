----------------------- MODULE ForwardMatcherProofs ------------------------
(***************************************************************************)
(* ClosedOnce, OneOutcome and the refinement of Rendezvous, for any number *)
(* of FORWARD_RESUME halves and stream ids.  The inductive invariant says  *)
(* what the lock sections decide: a half is in the map exactly while it is *)
(* neither joined nor expired (Parked, WaitingParked), a joined half has   *)
(* one driver (Joins), and what was closed was closed by the one who took  *)
(* the half out of the map (Closes).                                       *)
(***************************************************************************)
EXTENDS ForwardMatcher, TLAPS

TypeOK ==
    /\ key \in [Halves -> StreamIds \cup {"none"}]
    /\ pc \in [Halves -> {"new", "wait", "handover", "drive", "returned"}]
    /\ peer \in [Halves -> Halves \cup {NoHalf}]
    /\ DOMAIN pending \subseteq StreamIds /\ \A id \in DOMAIN pending : pending[id] \in Halves
    /\ expiry \in [Halves -> {"none", "armed", "fired", "closing", "gone"}]
    /\ closed \subseteq Halves /\ timedOut \subseteq Halves
    /\ expired \subseteq Halves /\ granted \subseteq Halves

Joined(h) == \E g \in Halves : peer[g] = h

\* What is in the map waits under its own id.
Parked ==
    \A id \in DOMAIN pending :
        /\ key[pending[id]] = id /\ pc[pending[id]] = "wait"
        /\ expiry[pending[id]] \in {"armed", "fired"}
        /\ ~Joined(pending[id]) /\ pending[id] \notin closed

\* A half that is neither joined nor expired is in the map.
WaitingParked ==
    \A h \in Halves : expiry[h] \in {"armed", "fired"} /\ ~Joined(h) => StillParked(h)

\* A half either parked, with an expiry, or drives.
Roles ==
    \A h \in Halves :
        /\ pc[h] = "new" => expiry[h] = "none" /\ peer[h] = NoHalf
        /\ pc[h] = "wait" => expiry[h] # "none"
        /\ expiry[h] # "none" => peer[h] = NoHalf /\ pc[h] \in {"wait", "returned"}
        /\ pc[h] \in {"handover", "drive"} => peer[h] # NoHalf
        /\ pc[h] = "returned" => expiry[h] # "none" \/ peer[h] # NoHalf

Joins ==
    \A g \in Halves : peer[g] # NoHalf =>
        /\ expiry[peer[g]] \in {"armed", "fired", "gone"}
        /\ pc[g] = "handover" => peer[g] \notin closed
        /\ pc[g] # "handover" => peer[g] \in closed
        /\ \A h \in Halves : peer[h] = peer[g] => h = g
        /\ pc[g] = "returned" => {g, peer[g]} \subseteq granted

Closes ==
    /\ \A h \in closed : h \in timedOut \/ Joined(h)
    /\ \A h \in timedOut : h \in closed /\ expiry[h] = "gone" /\ ~Joined(h)
    /\ \A h \in Halves : expiry[h] = "closing" => h \notin closed
    /\ expired \subseteq timedOut
    /\ \A h \in granted : Joined(h) \/ peer[h] # NoHalf

IInv ==
    /\ TypeOK /\ Parked /\ WaitingParked /\ Roles /\ Joins /\ Closes /\ OneOutcome

\* The invariant holds with no half submitted.
LEMMA InitIInv == Init => IInv
BY NoHalfIsNoHalf DEF Init, IInv, TypeOK, Parked, WaitingParked, Roles, Joins, Closes,
                      OneOutcome, Joined

\* Submit, when another half is parked under the id.
LEMMA JoinStep ==
    ASSUME IInv, NEW h \in Halves, NEW id \in StreamIds, Submit(h, id), id \in DOMAIN pending
    PROVE  IInv'
<1> DEFINE w == pending[id]
<1>1. /\ pc[h] = "new" /\ pc' = [pc EXCEPT ![h] = "handover"]
      /\ key' = [key EXCEPT ![h] = id] /\ peer' = [peer EXCEPT ![h] = w]
      /\ pending' = Without(pending, {id})
      /\ UNCHANGED <<expiry, closed, timedOut, expired, granted>>
  BY Zenon DEF Submit
<1>2. /\ w \in Halves /\ w # h /\ w # NoHalf /\ key[w] = id /\ pc[w] = "wait"
      /\ expiry[w] \in {"armed", "fired"} /\ ~Joined(w) /\ w \notin closed
  BY <1>1, NoHalfIsNoHalf DEF IInv, TypeOK, Parked
<1>3. TypeOK'
  BY <1>1, <1>2, Zenon DEF IInv, TypeOK, Without, Restrict
<1>4. /\ peer'[h] = w /\ peer[h] = NoHalf /\ pc'[h] = "handover" /\ expiry[h] = "none"
      /\ \A k \in Halves : k # h => peer'[k] = peer[k] /\ pc'[k] = pc[k] /\ key'[k] = key[k]
  BY <1>1, <1>2, Zenon DEF IInv, TypeOK, Roles
<1>5. \A k \in Halves : Joined(k)' <=> Joined(k) \/ k = w
  BY <1>2, <1>4, NoHalfIsNoHalf DEF Joined
<1>6. Parked'
  BY <1>1, <1>2, <1>4, <1>5 DEF IInv, TypeOK, Parked, Without, Restrict
<1>7. WaitingParked'
  BY <1>1, <1>2, <1>4, <1>5 DEF IInv, TypeOK, WaitingParked, StillParked, Without, Restrict
<1>8. Roles'
  BY <1>1, <1>2, <1>4 DEF IInv, Roles
<1>9. Joins'
  BY <1>1, <1>2, <1>4 DEF IInv, TypeOK, Joins, Joined
<1>10. Closes'
  BY <1>1, <1>2, <1>4, <1>5, Zenon DEF IInv, TypeOK, Closes
<1>11. OneOutcome'
  BY <1>1, <1>2, <1>4 DEF IInv, OneOutcome
<1> QED
  BY <1>3, <1>6, <1>7, <1>8, <1>9, <1>10, <1>11, Zenon DEF IInv

\* Submit, when the half parks.
LEMMA WaitStep ==
    ASSUME IInv, NEW h \in Halves, NEW id \in StreamIds, Submit(h, id), id \notin DOMAIN pending
    PROVE  IInv'
<1>1. /\ pc[h] = "new" /\ pc' = [pc EXCEPT ![h] = "wait"]
      /\ key' = [key EXCEPT ![h] = id] /\ expiry' = [expiry EXCEPT ![h] = "armed"]
      /\ pending' = Put(pending, id, h)
      /\ UNCHANGED <<peer, closed, timedOut, expired, granted>>
  BY Zenon DEF Submit
<1>2. /\ expiry[h] = "none" /\ peer[h] = NoHalf /\ ~Joined(h)
      /\ h \notin timedOut /\ h \notin closed
  BY <1>1, NoHalfIsNoHalf DEF IInv, TypeOK, Roles, Joins, Closes, Joined
<1>3. TypeOK'
  BY <1>1, Zenon DEF IInv, TypeOK, Put
<1>4. /\ pc'[h] = "wait" /\ expiry'[h] = "armed" /\ key'[h] = id
      /\ \A k \in Halves : k # h => expiry'[k] = expiry[k] /\ pc'[k] = pc[k] /\ key'[k] = key[k]
      /\ \A k : Joined(k)' <=> Joined(k)
  BY <1>1, Zenon DEF IInv, TypeOK, Joined
<1>6. Parked'
  BY <1>1, <1>2, <1>4 DEF IInv, TypeOK, Parked, Put
<1>7. WaitingParked'
  BY <1>1, <1>2, <1>4 DEF IInv, TypeOK, WaitingParked, StillParked, Put
<1>8. Roles'
  BY <1>1, <1>2, <1>4 DEF IInv, Roles
<1>9. Joins'
  BY <1>1, <1>2, <1>4 DEF IInv, TypeOK, Joins, Joined
<1>10. Closes'
  BY <1>1, <1>2, <1>4 DEF IInv, TypeOK, Closes
<1>11. OneOutcome'
  BY <1>1, <1>2, <1>4 DEF IInv, OneOutcome
<1> QED
  BY <1>3, <1>6, <1>7, <1>8, <1>9, <1>10, <1>11, Zenon DEF IInv

\* The handlers' steps.
LEMMA HandleStep ==
    ASSUME IInv, NEW h \in Halves, Handle(h)
    PROVE  IInv'
<1>0. UNCHANGED <<key, peer, pending, expiry, timedOut>> /\ \A k : Joined(k)' <=> Joined(k)
  BY Zenon DEF Handle, HandOver, Drive, Bail, Joined
<1>1. CASE HandOver(h)
  <2>1. /\ pc[h] = "handover" /\ pc'[h] = "drive" /\ \A k \in Halves : k # h => pc'[k] = pc[k]
        /\ pc' \in [Halves -> {"new", "wait", "handover", "drive", "returned"}]
        /\ peer[h] \in Halves /\ closed' = closed \cup {peer[h]}
        /\ UNCHANGED <<expired, granted>>
    BY <1>1, NoHalfIsNoHalf, Zenon DEF HandOver, IInv, TypeOK, Roles
  <2>2. TypeOK' /\ Roles'
    BY <1>0, <2>1, Zenon DEF IInv, TypeOK, Roles
  <2>3. Parked'
    BY <1>0, <2>1 DEF IInv, TypeOK, Parked, Joined
  <2>4. WaitingParked'
    BY <1>0, Zenon DEF IInv, WaitingParked, StillParked
  <2>5. Joins'
    BY <1>0, <2>1 DEF IInv, TypeOK, Joins
  <2>6. Closes'
    <3>1. Joined(peer[h]) /\ expiry[peer[h]] # "closing"
      BY <2>1, NoHalfIsNoHalf, Zenon DEF Joined, IInv, Joins
    <3> QED
      BY <1>0, <2>1, <3>1, Zenon DEF IInv, Closes
  <2>7. OneOutcome'
    BY <1>0, <2>1 DEF IInv, OneOutcome
  <2> QED
    BY <2>2, <2>3, <2>4, <2>5, <2>6, <2>7, Zenon DEF IInv
<1>2. CASE Drive(h)
  <2>1. /\ pc[h] = "drive" /\ pc'[h] = "returned" /\ \A k \in Halves : k # h => pc'[k] = pc[k]
        /\ pc' \in [Halves -> {"new", "wait", "handover", "drive", "returned"}]
        /\ peer[h] \in Halves /\ peer[h] # NoHalf /\ granted' = granted \cup {h, peer[h]}
        /\ UNCHANGED <<expired, closed>>
    BY <1>2, NoHalfIsNoHalf, Zenon DEF Drive, IInv, TypeOK, Roles
  <2>2. TypeOK' /\ Roles'
    BY <1>0, <2>1, Zenon DEF IInv, TypeOK, Roles
  <2>3. Parked' /\ WaitingParked'
    BY <1>0, <2>1 DEF IInv, TypeOK, Parked, WaitingParked, StillParked
  <2>4. Joins'
    BY <1>0, <2>1 DEF IInv, TypeOK, Joins
  <2>5. Joined(peer[h]) /\ peer[h] \notin timedOut /\ h \notin timedOut
    BY <2>1, Zenon DEF Joined, IInv, Roles, Closes
  <2>6. Closes'
    BY <1>0, <2>1, <2>5, Zenon DEF IInv, Closes
  <2>7. OneOutcome'
    BY <1>0, <2>1, <2>5 DEF IInv, TypeOK, OneOutcome
  <2> QED
    BY <2>2, <2>3, <2>4, <2>6, <2>7, Zenon DEF IInv
<1>3. CASE Bail(h)
  <2>1. /\ pc[h] = "wait" /\ pc'[h] = "returned" /\ \A k \in Halves : k # h => pc'[k] = pc[k]
        /\ pc' \in [Halves -> {"new", "wait", "handover", "drive", "returned"}]
        /\ h \in closed /\ expired' = IF h \in timedOut THEN expired \cup {h} ELSE expired
        /\ UNCHANGED <<granted, closed>>
    BY <1>3, Zenon DEF Bail, IInv, TypeOK
  <2>2. TypeOK' /\ Roles'
    BY <1>0, <2>1, Zenon DEF IInv, TypeOK, Roles
  <2>3. Parked' /\ WaitingParked'
    BY <1>0, <2>1 DEF IInv, TypeOK, Parked, WaitingParked, StillParked
  <2>4. Joins'
    BY <1>0, <2>1 DEF IInv, TypeOK, Roles, Joins
  <2>5. Closes'
    BY <1>0, <2>1, Zenon DEF IInv, Closes
  <2>6. \/ h \in expired'
        \/ h \in granted
        \/ \E g \in Halves : pc'[g] = "drive" /\ peer[g] = h
    <3>1. CASE h \in timedOut
      BY <2>1, <3>1, Zenon
    <3>2. CASE h \notin timedOut
      <4>1. PICK g \in Halves : peer[g] = h
        BY <2>1, <3>2, Zenon DEF IInv, Closes, Joined
      <4>2. g # h /\ peer[g] # NoHalf /\ pc[g] \in {"drive", "returned"}
        BY <2>1, <4>1, NoHalfIsNoHalf DEF IInv, TypeOK, Roles, Joins
      <4> QED
        BY <2>1, <4>1, <4>2, Zenon DEF IInv, Joins
    <3> QED
      BY <3>1, <3>2, Zenon
  <2>7. OneOutcome'
    BY <1>0, <2>1, <2>6 DEF IInv, OneOutcome
  <2> QED
    BY <2>2, <2>3, <2>4, <2>5, <2>7, Zenon DEF IInv
<1> QED
  BY <1>1, <1>2, <1>3, Zenon DEF Handle

\* The expiry goroutine's steps.
LEMMA ExpireStep ==
    ASSUME IInv, NEW h \in Halves, Expire(h)
    PROVE  IInv'
<1>0. /\ UNCHANGED <<key, pc, peer, expired, granted>> /\ \A k : Joined(k)' <=> Joined(k)
      /\ expiry[h] # "none" /\ expiry'[h] # "none"
      /\ \A k \in Halves : k # h => expiry'[k] = expiry[k]
      /\ expiry' \in [Halves -> {"none", "armed", "fired", "closing", "gone"}]
  BY Zenon DEF Expire, ExpirySeesClose, TimerFires, ExpireHalf, CloseMatched, Joined, IInv, TypeOK
<1>1. Roles'
  BY <1>0, Zenon DEF IInv, Roles
<1>2. CASE ExpirySeesClose(h)
  <2>1. /\ expiry[h] = "armed" /\ expiry'[h] = "gone" /\ h \in closed
        /\ UNCHANGED <<pending, closed, timedOut>>
    BY <1>2, Zenon DEF ExpirySeesClose, IInv, TypeOK
  <2> QED
    BY <1>0, <1>1, <2>1 DEF IInv, TypeOK, Parked, WaitingParked, StillParked, Joins, Closes,
                            OneOutcome
<1>3. CASE TimerFires(h)
  <2>1. /\ expiry[h] = "armed" /\ expiry'[h] = "fired"
        /\ UNCHANGED <<pending, closed, timedOut>>
    BY <1>3, Zenon DEF TimerFires, IInv, TypeOK
  <2> QED
    BY <1>0, <1>1, <2>1 DEF IInv, TypeOK, Parked, WaitingParked, StillParked, Joins, Closes,
                            OneOutcome
<1>4. CASE ExpireHalf(h) /\ StillParked(h)
  <2>1. /\ expiry[h] = "fired" /\ expiry'[h] = "closing" /\ key[h] \in DOMAIN pending
        /\ pending[key[h]] = h /\ pending' = Without(pending, {key[h]})
        /\ UNCHANGED <<closed, timedOut>>
    BY <1>4, Zenon DEF ExpireHalf, StillParked, IInv, TypeOK
  <2>2. ~Joined(h) /\ h \notin closed
    BY <2>1, Zenon DEF IInv, Parked
  <2>3. TypeOK' /\ Parked'
    BY <1>0, <2>1 DEF IInv, TypeOK, Parked, Without, Restrict
  <2>4. WaitingParked'
    BY <1>0, <2>1 DEF IInv, TypeOK, WaitingParked, StillParked, Without, Restrict
  <2>5. Joins'
    BY <1>0, <2>1, <2>2 DEF IInv, TypeOK, Joins, Joined
  <2>6. Closes' /\ OneOutcome'
    BY <1>0, <2>1, <2>2 DEF IInv, TypeOK, Closes, OneOutcome
  <2> QED
    BY <1>1, <2>3, <2>4, <2>5, <2>6, Zenon DEF IInv
<1>5. CASE ExpireHalf(h) /\ ~StillParked(h)
  <2>1. /\ expiry[h] = "fired" /\ expiry'[h] = "gone"
        /\ UNCHANGED <<pending, closed, timedOut>>
    BY <1>5, Zenon DEF ExpireHalf, IInv, TypeOK
  <2>2. \A id \in DOMAIN pending : pending[id] # h
    BY <1>5 DEF StillParked, IInv, Parked
  <2>3. TypeOK' /\ Parked' /\ WaitingParked'
    BY <1>0, <2>1, <2>2 DEF IInv, TypeOK, Parked, WaitingParked, StillParked
  <2>4. Joins' /\ Closes' /\ OneOutcome'
    BY <1>0, <2>1 DEF IInv, TypeOK, Joins, Closes, OneOutcome
  <2> QED
    BY <1>1, <2>3, <2>4, Zenon DEF IInv
<1>6. CASE CloseMatched(h)
  <2>1. /\ expiry[h] = "closing" /\ expiry'[h] = "gone"
        /\ timedOut' = timedOut \cup {h} /\ closed' = closed \cup {h} /\ UNCHANGED pending
    BY <1>6, Zenon DEF CloseMatched, IInv, TypeOK
  <2>2. ~Joined(h) /\ h \notin granted
    BY <2>1, NoHalfIsNoHalf DEF IInv, TypeOK, Joins, Roles, Closes, Joined
  <2>3. TypeOK' /\ Parked' /\ WaitingParked'
    BY <1>0, <2>1 DEF IInv, TypeOK, Parked, WaitingParked, StillParked
  <2>4. Joins'
    BY <1>0, <2>1, <2>2 DEF IInv, TypeOK, Joins, Joined
  <2>5. Closes' /\ OneOutcome'
    BY <1>0, <2>1, <2>2 DEF IInv, TypeOK, Closes, OneOutcome
  <2> QED
    BY <1>1, <2>3, <2>4, <2>5, Zenon DEF IInv
<1> QED
  BY <1>2, <1>3, <1>4, <1>5, <1>6, Zenon DEF Expire

\* The invariant is inductive.
LEMMA IInvStep ==
    ASSUME IInv, [Next]_vars
    PROVE  IInv'
<1>1. CASE UNCHANGED vars
  <2>1. \A k : Joined(k)' <=> Joined(k)
    BY <1>1, Zenon DEF vars, Joined
  <2> QED
    BY <1>1, <2>1 DEF vars, IInv, TypeOK, Parked, WaitingParked, StillParked, Roles, Joins, Closes,
                      OneOutcome
<1> QED
  BY <1>1, JoinStep, WaitStep, HandleStep, ExpireStep, Zenon DEF Next

\* The inductive invariant holds of every behaviour of the matcher.
THEOREM MatcherInvariant == Spec => []IInv
BY InitIInv, IInvStep, PTL DEF Spec

(***************************************************************************)
(* For any number of halves: no matched channel is closed twice, by the    *)
(* second arrival's Submit or by the first's expiry.                       *)
(***************************************************************************)
THEOREM MatchedClosedOnce == Spec => []ClosedOnce
<1>1. IInv => ClosedOnce
  BY Zenon DEF IInv, ClosedOnce, Roles, Joins, Closes
<1> QED
  BY <1>1, MatcherInvariant, PTL

\* For any number of halves: driveForwardResume counts a half as timed out, or
\* its agent is granted a new allocation, and never both.
THEOREM OneOutcomeEach == Spec => []OneOutcome
<1>1. IInv => OneOutcome
  BY Zenon DEF IInv
<1> QED
  BY <1>1, MatcherInvariant, PTL

-----------------------------------------------------------------------------
(* The refinement *)

\* What decides the outcome of a half.
LEMMA OutcomeOf ==
    ASSUME NEW h \in Halves
    PROVE  /\ pc[h] = "new" => Outcome(h) = "new"
           /\ pc[h] # "new" /\ peer[h] # NoHalf => Outcome(h) = "driver"
           /\ pc[h] # "new" /\ peer[h] = NoHalf /\ Joined(h) => Outcome(h) = "joined"
           /\ pc[h] # "new" /\ peer[h] = NoHalf /\ ~Joined(h) =>
                 Outcome(h) = IF expiry[h] \in {"armed", "fired"} THEN "waiting" ELSE "expired"
BY Zenon DEF Outcome, Joined

\* The outcome of a half after a step, case by case.
LEMMA OutcomeOfNext ==
    ASSUME NEW h \in Halves
    PROVE  /\ pc'[h] = "new" => Outcome(h)' = "new"
           /\ pc'[h] # "new" /\ peer'[h] # NoHalf => Outcome(h)' = "driver"
           /\ pc'[h] # "new" /\ peer'[h] = NoHalf /\ Joined(h)' => Outcome(h)' = "joined"
           /\ pc'[h] # "new" /\ peer'[h] = NoHalf /\ ~Joined(h)' =>
                 Outcome(h)' = IF expiry'[h] \in {"armed", "fired"} THEN "waiting" ELSE "expired"
BY Zenon DEF Outcome, Joined

\* A Submit that finds a parked half is a Join of Rendezvous.
LEMMA JoinMaps ==
    ASSUME IInv, NEW h \in Halves, NEW id \in StreamIds, Submit(h, id), id \in DOMAIN pending
    PROVE  Abstract!Join(h, id)
<1>0. PICK w \in Halves : w = pending[id]
  BY Zenon DEF IInv, TypeOK
<1>1. /\ pc[h] = "new" /\ pc' = [pc EXCEPT ![h] = "handover"]
      /\ key' = [key EXCEPT ![h] = id] /\ peer' = [peer EXCEPT ![h] = w]
      /\ UNCHANGED expiry
  BY <1>0, Zenon DEF Submit
<1>2. /\ w \in Halves /\ w # h /\ w # NoHalf /\ key[w] = id /\ pc[w] = "wait"
      /\ expiry[w] \in {"armed", "fired"} /\ ~Joined(w) /\ peer[w] = NoHalf
  BY <1>0, <1>1, NoHalfIsNoHalf, Zenon DEF IInv, TypeOK, Parked, Roles
<1>3. /\ peer'[h] = w /\ peer[h] = NoHalf /\ pc'[h] = "handover"
      /\ \A k \in Halves : k # h => peer'[k] = peer[k] /\ pc'[k] = pc[k]
  BY <1>1, <1>2, Zenon DEF IInv, TypeOK, Roles
<1>4. \A k \in Halves : Joined(k)' <=> Joined(k) \/ k = w
  BY <1>2, <1>3, NoHalfIsNoHalf DEF Joined
<1>5. Outcome(h) = "new" /\ Outcome(h)' = "driver"
  BY <1>1, <1>2, <1>3, OutcomeOf, OutcomeOfNext, Zenon
<1>6. Outcome(w) = "waiting"
  BY <1>2, OutcomeOf, Zenon
<1>7. Outcome(w)' = "joined"
  BY <1>2, <1>3, <1>4, OutcomeOfNext, Zenon
<1>8. ASSUME NEW k \in Halves, k # h, k # w
       PROVE  Outcome(k)' = Outcome(k)
  BY <1>1, <1>3, <1>4, <1>8, OutcomeOf, OutcomeOfNext
<1>9. [k \in Halves |-> Outcome(k)]' =
          [[k \in Halves |-> Outcome(k)] EXCEPT ![h] = "driver", ![w] = "joined"]
  <2>1. [k \in Halves |-> Outcome(k)]' = [k \in Halves |-> Outcome(k)']
    OBVIOUS
  <2>2. ASSUME NEW k \in Halves
        PROVE  Outcome(k)' = IF k = w THEN "joined" ELSE IF k = h THEN "driver" ELSE Outcome(k)
    BY <1>5, <1>7, <1>8, Zenon
  <2> QED
    BY <1>2, <2>1, <2>2, Zenon
<1>10. w \in Abstract!Waiting(id)
  BY <1>2, <1>6, Zenon DEF Abstract!Waiting
<1> QED
  BY <1>1, <1>5, <1>9, <1>10, Zenon DEF Abstract!Join

\* A Submit that parks is a Wait of Rendezvous.
LEMMA WaitMaps ==
    ASSUME IInv, NEW h \in Halves, NEW id \in StreamIds, Submit(h, id), id \notin DOMAIN pending
    PROVE  Abstract!Wait(h, id)
<1>1. /\ pc[h] = "new" /\ pc' = [pc EXCEPT ![h] = "wait"]
      /\ key' = [key EXCEPT ![h] = id] /\ expiry' = [expiry EXCEPT ![h] = "armed"]
      /\ UNCHANGED peer
  BY Zenon DEF Submit
<1>2. /\ peer[h] = NoHalf /\ ~Joined(h) /\ pc'[h] = "wait" /\ expiry'[h] = "armed"
      /\ \A k \in Halves : k # h => expiry'[k] = expiry[k] /\ pc'[k] = pc[k]
      /\ \A k \in Halves : Joined(k)' <=> Joined(k)
  BY <1>1, NoHalfIsNoHalf DEF IInv, TypeOK, Roles, Joins, Joined
<1>3. Outcome(h) = "new" /\ Outcome(h)' = "waiting"
  BY <1>1, <1>2, OutcomeOf, OutcomeOfNext, Zenon
<1>4. ASSUME NEW k \in Halves, k # h
      PROVE  Outcome(k)' = Outcome(k)
  BY <1>1, <1>2, <1>4, OutcomeOf, OutcomeOfNext
<1>5. [k \in Halves |-> Outcome(k)]' = [[k \in Halves |-> Outcome(k)] EXCEPT ![h] = "waiting"]
  <2>1. [k \in Halves |-> Outcome(k)]' = [k \in Halves |-> Outcome(k)']
    OBVIOUS
  <2> QED
    BY <1>3, <1>4, <2>1, Zenon
<1>6. ASSUME NEW k \in Halves, Outcome(k) = "waiting", key[k] = id
      PROVE  FALSE
  <2>1. pc[k] # "new" /\ ~Joined(k) /\ expiry[k] \in {"armed", "fired"}
    BY <1>6, OutcomeOf, Zenon
  <2> QED
    BY <1>6, <2>1, Zenon DEF IInv, WaitingParked, StillParked
<1>7. Abstract!Waiting(id) = {}
  BY <1>6, Zenon DEF Abstract!Waiting
<1> QED
  BY <1>1, <1>3, <1>5, <1>7, Zenon DEF Abstract!Wait

\* Every other step is a stutter, but for the lock section of a half's expiry.
LEMMA ExpireMaps ==
    ASSUME IInv, NEW h \in Halves, Expire(h)
    PROVE  Abstract!Expire(h) \/ UNCHANGED Abstract!vars
<1>0. /\ UNCHANGED <<key, pc, peer>> /\ \A k \in Halves : Joined(k)' <=> Joined(k)
      /\ expiry[h] # "none" /\ \A k \in Halves : k # h => expiry'[k] = expiry[k]
  BY Zenon DEF Expire, ExpirySeesClose, TimerFires, ExpireHalf, CloseMatched, Joined, IInv, TypeOK
<1>1. ASSUME NEW k \in Halves, k # h
      PROVE  Outcome(k)' = Outcome(k)
  BY <1>0, <1>1, OutcomeOf, OutcomeOfNext
<1>2. [k \in Halves |-> Outcome(k)]' = [k \in Halves |-> Outcome(k)']
  OBVIOUS
<1>3. CASE Outcome(h)' = Outcome(h)
  BY <1>0, <1>1, <1>2, <1>3, Zenon DEF Abstract!vars
<1>4. CASE Outcome(h) = "waiting" /\ Outcome(h)' = "expired"
  <2>1. [k \in Halves |-> Outcome(k)]' = [[k \in Halves |-> Outcome(k)] EXCEPT ![h] = "expired"]
    BY <1>1, <1>2, <1>4, Zenon
  <2> QED
    BY <1>0, <1>4, <2>1, Zenon DEF Abstract!Expire
<1>5. expiry'[h] \in {"armed", "fired"} => expiry[h] \in {"armed", "fired"}
  BY Zenon DEF Expire, ExpirySeesClose, TimerFires, ExpireHalf, CloseMatched, IInv, TypeOK
<1>6. pc[h] # "new" /\ peer[h] = NoHalf
  BY <1>0, Zenon DEF IInv, TypeOK, Roles
<1>7. CASE Joined(h)
  BY <1>0, <1>3, <1>6, <1>7, OutcomeOf, OutcomeOfNext
<1>8. CASE ~Joined(h)
  BY <1>0, <1>3, <1>4, <1>5, <1>6, <1>8, OutcomeOf, OutcomeOfNext, Zenon
<1> QED
  BY <1>7, <1>8, Zenon

\* A handler's step does not show in Rendezvous.
LEMMA HandleMaps ==
    ASSUME IInv, NEW h \in Halves, Handle(h)
    PROVE  UNCHANGED Abstract!vars
<1>1. /\ UNCHANGED <<key, peer, expiry>> /\ \A k \in Halves : Joined(k)' <=> Joined(k)
      /\ \A k \in Halves : pc[k] = "new" <=> pc'[k] = "new"
  BY Zenon DEF Handle, HandOver, Drive, Bail, Joined, IInv, TypeOK
<1>2. \A k \in Halves : Outcome(k)' = Outcome(k)
  BY <1>1, OutcomeOf, OutcomeOfNext
<1>3. [k \in Halves |-> Outcome(k)]' = [k \in Halves |-> Outcome(k)']
  OBVIOUS
<1> QED
  BY <1>1, <1>2, <1>3, Zenon DEF Abstract!vars

(***************************************************************************)
(* forwardMatcher implements the rendezvous, for any number of halves and  *)
(* ids: Submit joins or waits, the lock section of the expiry drops, and   *)
(* no other step changes who is paired with whom.                          *)
(***************************************************************************)
THEOREM MatcherRendezvous == Spec => ImplementsRendezvous
<1>1. Init => Abstract!Init
  BY Zenon DEF Init, Abstract!Init, Outcome
<1>2. ASSUME IInv, [Next]_vars
      PROVE  [Abstract!Next]_(Abstract!vars)
  <2>1. CASE UNCHANGED vars
    BY <2>1, Zenon DEF vars, Abstract!vars, Outcome
  <2>2. ASSUME NEW h \in Halves, NEW id \in StreamIds, Submit(h, id)
        PROVE  Abstract!Next
    BY <1>2, <2>2, JoinMaps, WaitMaps, Zenon DEF Abstract!Next
  <2>3. ASSUME NEW h \in Halves, Handle(h) \/ Expire(h)
        PROVE  [Abstract!Next]_(Abstract!vars)
    BY <1>2, <2>3, HandleMaps, ExpireMaps, Zenon DEF Abstract!Next
  <2> QED
    BY <1>2, <2>1, <2>2, <2>3, Zenon DEF Next
<1> QED
  BY <1>1, <1>2, MatcherInvariant, PTL DEF Spec, Abstract!Spec, ImplementsRendezvous
=============================================================================
