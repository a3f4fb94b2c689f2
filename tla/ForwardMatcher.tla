--------------------------- MODULE ForwardMatcher ---------------------------
(***************************************************************************)
(* Re-issuing the allocations of a forward-mode stream after its agents    *)
(* reconnect: forwardMatcher of pkg/edge/forward_resume.go and             *)
(* driveForwardResume, one goroutine per FORWARD_RESUME frame.  Unlike the *)
(* stream matcher, the second half only closes the first half's channel,   *)
(* so the first half's handler and its expiry both see it.                 *)
(***************************************************************************)
EXTENDS Integers, FiniteSets, Functions

CONSTANTS
    Halves,      \* FORWARD_RESUME frames that may arrive
    StreamIds,   \* stream ids
    NoHalf       \* no half

ASSUME NoHalfIsNoHalf == NoHalf \notin Halves

VARIABLES
    key,        \* half -> its stream id, once submitted
    pc,         \* where driveForwardResume of this half is
    peer,       \* the half the driver took out of the map
    pending,    \* forwardMatcher.pending: stream id -> parked half
    closed,     \* halves whose matched channel is closed
    expiry,     \* the parked half's expiry goroutine
    timedOut,   \* halves with timedOut set
    expired,    \* halves counted in stream_forward_resume_timeout_total
    granted     \* halves whose agent was sent AllocGranted

vars == <<key, pc, peer, pending, closed, expiry, timedOut, expired, granted>>

Without(m, S) == Restrict(m, DOMAIN m \ S)
Put(m, k, v) == [x \in DOMAIN m \cup {k} |-> IF x = k THEN v ELSE m[x]]

Init ==
    /\ key = [h \in Halves |-> "none"]
    /\ pc = [h \in Halves |-> "new"]
    /\ peer = [h \in Halves |-> NoHalf]
    /\ pending = << >>
    /\ closed = {} /\ timedOut = {} /\ expired = {} /\ granted = {}
    /\ expiry = [h \in Halves |-> "none"]

Submit(h, id) ==
    /\ pc[h] = "new"
    /\ key' = [key EXCEPT ![h] = id]
    /\ \/ /\ id \in DOMAIN pending
          /\ pc' = [pc EXCEPT ![h] = "handover"]
          /\ peer' = [peer EXCEPT ![h] = pending[id]]
          /\ pending' = Without(pending, {id})
          /\ UNCHANGED expiry
       \/ /\ id \notin DOMAIN pending
          /\ pc' = [pc EXCEPT ![h] = "wait"]
          /\ pending' = Put(pending, id, h)
          /\ expiry' = [expiry EXCEPT ![h] = "armed"]
          /\ UNCHANGED peer
    /\ UNCHANGED <<closed, timedOut, expired, granted>>

\* Mutant: the first arrival is not told.
HandOverSilent(h) ==
    /\ pc[h] = "handover"
    /\ pc' = [pc EXCEPT ![h] = "drive"]
    /\ UNCHANGED <<key, peer, pending, closed, expiry, timedOut, expired, granted>>

\* self.matched <- peer; close(peer.matched): the second arrival drives.
HandOver(h) ==
    /\ pc[h] = "handover"
    /\ closed' = closed \cup {peer[h]}
    /\ pc' = [pc EXCEPT ![h] = "drive"]
    /\ UNCHANGED <<key, peer, pending, expiry, timedOut, expired, granted>>

\* The driver allocates an id for each agent and grants both (best effort).
Drive(h) ==
    /\ pc[h] = "drive"
    /\ granted' = granted \cup {h, peer[h]}
    /\ pc' = [pc EXCEPT ![h] = "returned"]
    /\ UNCHANGED <<key, peer, pending, closed, expiry, timedOut, expired>>

\* The first arrival reads (nil, false): joined, or timed out.
Bail(h) ==
    /\ pc[h] = "wait"
    /\ h \in closed
    /\ expired' = IF h \in timedOut THEN expired \cup {h} ELSE expired
    /\ pc' = [pc EXCEPT ![h] = "returned"]
    /\ UNCHANGED <<key, peer, pending, closed, expiry, timedOut, granted>>

ExpirySeesClose(h) ==
    /\ expiry[h] = "armed"
    /\ h \in closed
    /\ expiry' = [expiry EXCEPT ![h] = "gone"]
    /\ UNCHANGED <<key, pc, peer, pending, closed, timedOut, expired, granted>>

TimerFires(h) ==
    /\ expiry[h] = "armed"
    /\ expiry' = [expiry EXCEPT ![h] = "fired"]
    /\ UNCHANGED <<key, pc, peer, pending, closed, timedOut, expired, granted>>

StillParked(h) == key[h] \in DOMAIN pending /\ pending[key[h]] = h

\* Mutant: the channel is closed without looking at the map.
ExpireHalfBlind(h) ==
    /\ expiry[h] = "fired"
    /\ expiry' = [expiry EXCEPT ![h] = "closing"]
    /\ pending' = IF StillParked(h) THEN Without(pending, {key[h]}) ELSE pending
    /\ UNCHANGED <<key, pc, peer, closed, timedOut, expired, granted>>

\* Mutant: the cur == self test is missing.
ExpireHalfAny(h) ==
    /\ expiry[h] = "fired"
    /\ expiry' = [expiry EXCEPT ![h] = IF key[h] \in DOMAIN pending THEN "closing" ELSE "gone"]
    /\ pending' = Without(pending, {key[h]})
    /\ UNCHANGED <<key, pc, peer, closed, timedOut, expired, granted>>

ExpireHalf(h) ==
    /\ expiry[h] = "fired"
    /\ IF StillParked(h)
       THEN /\ pending' = Without(pending, {key[h]})
            /\ expiry' = [expiry EXCEPT ![h] = "closing"]
       ELSE /\ expiry' = [expiry EXCEPT ![h] = "gone"]
            /\ UNCHANGED pending
    /\ UNCHANGED <<key, pc, peer, closed, timedOut, expired, granted>>

\* Mutant: timedOut is not set before the close.
CloseMatchedUnflagged(h) ==
    /\ expiry[h] = "closing"
    /\ closed' = closed \cup {h}
    /\ expiry' = [expiry EXCEPT ![h] = "gone"]
    /\ UNCHANGED <<key, pc, peer, pending, timedOut, expired, granted>>

CloseMatched(h) ==
    /\ expiry[h] = "closing"
    /\ timedOut' = timedOut \cup {h}
    /\ closed' = closed \cup {h}
    /\ expiry' = [expiry EXCEPT ![h] = "gone"]
    /\ UNCHANGED <<key, pc, peer, pending, expired, granted>>

Handle(h) == HandOver(h) \/ Drive(h) \/ Bail(h)
Expire(h) == ExpirySeesClose(h) \/ TimerFires(h) \/ ExpireHalf(h) \/ CloseMatched(h)

Next ==
    \/ \E h \in Halves, id \in StreamIds : Submit(h, id)
    \/ \E h \in Halves : Handle(h) \/ Expire(h)

Spec == Init /\ [][Next]_vars
FairSpec == Spec /\ \A h \in Halves : WF_vars(Handle(h)) /\ WF_vars(Expire(h))
-----------------------------------------------------------------------------
(***************************************************************************)
(* A matched channel is closed once: neither the driver nor the expiry     *)
(* ever closes one the other has closed, which would panic.                *)
(***************************************************************************)
ClosedOnce ==
    \A h \in Halves :
        /\ pc[h] = "handover" => peer[h] \notin closed /\ expiry[peer[h]] # "closing"
        /\ expiry[h] = "closing" => h \notin closed

(***************************************************************************)
(* "Only that path bumps stream_forward_resume_timeout_total": a half is   *)
(* counted as timed out exactly when it was never paired, and a handler    *)
(* that returned uncounted has, or will be given by its driver, a grant.   *)
(***************************************************************************)
OneOutcome ==
    \A h \in Halves :
        /\ ~(h \in timedOut /\ h \in granted)
        /\ pc[h] = "returned" =>
              \/ h \in expired
              \/ h \in granted
              \/ \E g \in Halves : pc[g] = "drive" /\ peer[g] = h

\* Every submitted half's goroutine returns: paired, or after its window.
HandlerReturns == \A h \in Halves : pc[h] # "new" ~> pc[h] = "returned"

(***************************************************************************)
(* The matcher implements the rendezvous: the lock sections of Submit and  *)
(* of the half's own expiry are the points at which its outcome is         *)
(* decided.                                                                *)
(***************************************************************************)
Outcome(h) ==
    IF pc[h] = "new" THEN "new"
    ELSE IF peer[h] # NoHalf THEN "driver"
    ELSE IF \E g \in Halves : peer[g] = h THEN "joined"
    ELSE IF expiry[h] \in {"armed", "fired"} THEN "waiting" ELSE "expired"

Abstract == INSTANCE Rendezvous WITH
    status <- [h \in Halves |-> Outcome(h)],
    mate <- peer

ImplementsRendezvous == Abstract!Spec
=============================================================================
