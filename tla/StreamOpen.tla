----------------------------- MODULE StreamOpen -----------------------------
(***************************************************************************)
(* Opening a stream: handleConsumerStream of pkg/edge/edge.go from the     *)
(* OPEN_STREAM frame to its deferred cleanup, with the policy checks, the  *)
(* reject mirrored on the consumer's control stream, the forward-mode      *)
(* grants, and the goroutine that enforces p2p_mode=required against the   *)
(* record of promotions (pkg/edge/migrate.go).  What the agents, the       *)
(* policy and the controller answer is chosen freely, and so is when the   *)
(* forward plane drops an allocation on its own.                           *)
(***************************************************************************)
EXTENDS Integers, Sequences, FiniteSets, Functions

CONSTANTS
    Streams,     \* OPEN_STREAMs
    StreamIds,   \* the stream ids they carry
    Agents,      \* agents; any may be a stream's consumer or its provider
    Fallback,    \* agents linked over TCP+yamux: their streams are no Aborters
    P2PModes,    \* the p2p modes policy may return
    RelayModes   \* the relay modes policy may return

ASSUME OpenConstants ==
    /\ P2PModes \subseteq {"allowed", "forbidden", "required"}
    /\ Fallback \subseteq Agents
    /\ RelayModes \subseteq {"splice", "forward"}

VARIABLES
    st,         \* stream -> [pc, id, consumer, provider, p2p, relay, recorded]
    told,       \* stream -> what its consumer was told on its control stream, in order
    alive,      \* streams whose consumer's data stream can still be read
    provOpen,   \* streams whose provider's (or peer relay's) can
    broken,     \* <<stream, side>>: it ended in an error, not in an end of file
    up,         \* agents with a link to this relay
    pairs,      \* Server.pairs: stream id -> <<consumer, provider>>
    allocs,     \* forward allocations held: <<stream, agent>>
    enforce,    \* stream -> its enforceRequiredPromotion
    migrated    \* migratedLRU: stream ids with an unexpired entry

vars == <<st, told, alive, provOpen, broken, up, pairs, allocs, enforce, migrated>>

Without(m, S) == Restrict(m, DOMAIN m \ S)
Put(m, k, v) == [x \in DOMAIN m \cup {k} |-> IF x = k THEN v ELSE m[x]]
At(s, pc) == st[s].pc = pc
Goto(s, pc) == st' = [st EXCEPT ![s].pc = pc]

Init ==
    /\ st \in [Streams -> [pc : {"new"}, id : StreamIds, consumer : Agents, provider : {"none"},
                           p2p : {"allowed"}, relay : {"splice"}, recorded : {FALSE}]]
    /\ told = [s \in Streams |-> << >>]
    /\ alive = {} /\ provOpen = {} /\ broken = {} /\ up = Agents
    /\ pairs = << >> /\ allocs = {} /\ migrated = {}
    /\ enforce = [s \in Streams |-> "off"]

\* Frames on the control stream of a consumer whose link is gone are lost.
Tell(s, what) ==
    told' = IF st[s].consumer \in up THEN [told EXCEPT ![s] = Append(@, what)] ELSE told

\* rejectConsumer, on the stream and mirrored on control; then return.
Reject(s) == Tell(s, "reject") /\ Goto(s, "unwind")

-----------------------------------------------------------------------------
(* handleConsumerStream *)

\* Read OPEN_STREAM.
ReadOpen(s) ==
    /\ At(s, "new") /\ st[s].consumer \in up
    /\ Goto(s, "caller")
    /\ alive' = alive \cup {s}
    /\ UNCHANGED <<told, provOpen, broken, up, pairs, allocs, enforce, migrated>>

\* The caller-side rule sets both modes; without policy they are the defaults.
CallerPolicy(s) ==
    /\ At(s, "caller")
    /\ \/ Reject(s)
       \/ /\ \E p \in P2PModes, r \in RelayModes :
                st' = [st EXCEPT ![s].pc = "resolve", ![s].p2p = p, ![s].relay = r]
          /\ UNCHANGED told
    /\ UNCHANGED <<alive, provOpen, broken, up, pairs, allocs, enforce, migrated>>

\* Resolve: not found, a provider connected here, or one on a peer relay.
Resolve(s) ==
    /\ At(s, "resolve")
    /\ \/ Reject(s)
       \/ /\ \E p \in up : st' = [st EXCEPT ![s].pc = "callee", ![s].provider = p]
          /\ UNCHANGED told
       \/ Goto(s, "remote") /\ UNCHANGED told
    /\ UNCHANGED <<alive, provOpen, broken, up, pairs, allocs, enforce, migrated>>

\* Dial the peer relay, have it open the stream, and copy; or reject.
forwardToPeer(s) ==
    /\ At(s, "remote")
    /\ \/ Reject(s) /\ UNCHANGED provOpen
       \/ provOpen' = provOpen \cup {s} /\ Goto(s, "forwarded") /\ UNCHANGED told
    /\ UNCHANGED <<alive, broken, up, pairs, allocs, enforce, migrated>>

CombineP2PModes(a, b) ==
    IF "forbidden" \in {a, b} THEN "forbidden"
    ELSE IF "required" \in {a, b} THEN "required" ELSE "allowed"

CalleePolicy(s) ==
    /\ At(s, "callee")
    /\ \/ Reject(s)
       \/ /\ \E p \in P2PModes :
                st' = [st EXCEPT ![s].pc = "incoming", ![s].p2p = CombineP2PModes(@, p)]
          /\ UNCHANGED told
    /\ UNCHANGED <<alive, provOpen, broken, up, pairs, allocs, enforce, migrated>>

OpenIncoming(s) ==
    /\ At(s, "incoming")
    /\ \/ Reject(s) /\ UNCHANGED provOpen
       \/ /\ st[s].provider \in up
          /\ provOpen' = provOpen \cup {s}
          /\ Goto(s, "record")
          /\ UNCHANGED told
    /\ UNCHANGED <<alive, broken, up, pairs, allocs, enforce, migrated>>

Pair(s) == <<st[s].consumer, st[s].provider>>

\* Mutant: the timer is armed for the wrong mode.
recordPairUnarmed(s) ==
    /\ At(s, "record")
    /\ pairs' = Put(pairs, st[s].id, Pair(s))
    /\ st' = [st EXCEPT ![s].pc = "accept", ![s].recorded = TRUE]
    /\ enforce' = [enforce EXCEPT ![s] = IF st[s].p2p = "forbidden" THEN "armed" ELSE "off"]
    /\ UNCHANGED <<told, alive, provOpen, broken, up, allocs, migrated>>

\* recordPair refuses an id another pair uses; a required stream gets its timer.
recordPair(s) ==
    /\ At(s, "record")
    /\ IF st[s].id \in DOMAIN pairs /\ pairs[st[s].id] # Pair(s)
       THEN Reject(s) /\ UNCHANGED <<pairs, enforce>>
       ELSE /\ pairs' = Put(pairs, st[s].id, Pair(s))
            /\ st' = [st EXCEPT ![s].pc = "accept", ![s].recorded = TRUE]
            /\ enforce' = [enforce EXCEPT ![s] = IF st[s].p2p = "required" THEN "armed" ELSE "off"]
            /\ UNCHANGED told
    /\ UNCHANGED <<alive, provOpen, broken, up, allocs, migrated>>

\* The provider's answer: STREAM_ACCEPT, STREAM_REJECT, or an error or
\* unexpected frame, on which the handler just returns.
Accepted(s) ==
    /\ At(s, "accept")
    /\ \/ s \in provOpen /\ Goto(s, st[s].relay) /\ UNCHANGED told
       \/ s \in provOpen /\ Reject(s)
       \/ Goto(s, "unwind") /\ UNCHANGED told
    /\ UNCHANGED <<alive, provOpen, broken, up, pairs, allocs, enforce, migrated>>

\* Splice mode: STREAM_READY to both agents, then copy.
Ready(s) ==
    /\ At(s, "splice")
    /\ Tell(s, "ready")
    /\ Goto(s, "splicing")
    /\ UNCHANGED <<alive, provOpen, broken, up, pairs, allocs, enforce, migrated>>

\* Forward mode: look the provider up again.
LookupProvider(s) ==
    /\ At(s, "forward")
    /\ \/ st[s].provider \notin up /\ Reject(s)
       \/ st[s].provider \in up /\ Goto(s, "allocate") /\ UNCHANGED told
    /\ UNCHANGED <<alive, provOpen, broken, up, pairs, allocs, enforce, migrated>>

\* Allocate for both agents, even for one that has left since.
AllocateBoth(s) ==
    /\ At(s, "allocate")
    /\ allocs' = allocs \cup {<<s, st[s].consumer>>, <<s, st[s].provider>>}
    /\ Goto(s, "grant")
    /\ UNCHANGED <<told, alive, provOpen, broken, up, pairs, enforce, migrated>>

\* Mutant: a failed grant to the provider rejects the granted consumer.
GrantThenReject(s) ==
    /\ At(s, "grant")
    /\ told' = [told EXCEPT ![s] = @ \o <<"granted">> \o
                   (IF st[s].provider \in up THEN << >> ELSE <<"reject">>)]
    /\ Goto(s, IF st[s].provider \in up THEN "parked" ELSE "unwind")
    /\ UNCHANGED <<alive, provOpen, broken, up, pairs, allocs, enforce, migrated>>

\* Mutant: a failed write is retried for ever.
GrantInsists(s) ==
    /\ At(s, "grant")
    /\ {st[s].consumer, st[s].provider} \subseteq up /\ Goto(s, "parked")
    /\ Tell(s, "granted")
    /\ UNCHANGED <<alive, provOpen, broken, up, pairs, allocs, enforce, migrated>>

\* ALLOC_GRANTED to the consumer, then to the provider; a failed write returns.
Grant(s) ==
    /\ At(s, "grant")
    /\ \/ st[s].consumer \notin up /\ Goto(s, "unwind")
       \/ st[s].consumer \in up /\ Goto(s, IF st[s].provider \in up THEN "parked" ELSE "unwind")
    /\ Tell(s, "granted")
    /\ UNCHANGED <<alive, provOpen, broken, up, pairs, allocs, enforce, migrated>>

\* A copy that fails resets the stream it writes to, which ends the other copy;
\* over a fallback link it only half-closes it.  A peer relay's is always QUIC.
ResetByFailure(s) ==
    \/ <<s, "consumer">> \in broken /\ (At(s, "forwarded") \/ st[s].provider \notin Fallback)
    \/ <<s, "provider">> \in broken /\ st[s].consumer \notin Fallback

\* The splice ends when both copies have; the wait of a parked stream when
\* either of its drains has.
StreamEnds(s) ==
    /\ \/ st[s].pc \in {"splicing", "forwarded"} /\ (s \notin alive \cup provOpen \/ ResetByFailure(s))
       \/ st[s].pc = "parked" /\ s \notin alive \cap provOpen
    /\ Goto(s, "unwind")
    /\ UNCHANGED <<told, alive, provOpen, broken, up, pairs, allocs, enforce, migrated>>

\* The handler's variables are gone with it.
Return(s) ==
    st' = [st EXCEPT ![s] = [@ EXCEPT !.pc = "returned", !.provider = "none",
                                      !.p2p = "allowed", !.relay = "splice"]]

\* Mutant: the allocations are not released.
UnwindKeepsAllocs(s) ==
    /\ At(s, "unwind")
    /\ UNCHANGED allocs
    /\ enforce' = [enforce EXCEPT ![s] = "off"]
    /\ pairs' = IF st[s].recorded THEN Without(pairs, {st[s].id}) ELSE pairs
    /\ provOpen' = provOpen \ {s} /\ alive' = alive \ {s} /\ broken' = {b \in broken : b[1] # s}
    /\ Return(s)
    /\ UNCHANGED <<told, up, migrated>>

\* Mutant: the pair is forgotten even when it was not recorded.
UnwindForgetsAny(s) ==
    /\ At(s, "unwind")
    /\ allocs' = {a \in allocs : a[1] # s}
    /\ enforce' = [enforce EXCEPT ![s] = "off"]
    /\ pairs' = Without(pairs, {st[s].id})
    /\ provOpen' = provOpen \ {s} /\ alive' = alive \ {s} /\ broken' = {b \in broken : b[1] # s}
    /\ Return(s)
    /\ UNCHANGED <<told, up, migrated>>

\* The deferred calls: Forget both allocations, cancel the enforcement,
\* forgetPair, and close both streams.
Unwind(s) ==
    /\ At(s, "unwind")
    /\ allocs' = {a \in allocs : a[1] # s}
    /\ enforce' = [enforce EXCEPT ![s] = "off"]
    /\ pairs' = IF st[s].recorded THEN Without(pairs, {st[s].id}) ELSE pairs
    /\ provOpen' = provOpen \ {s} /\ alive' = alive \ {s} /\ broken' = {b \in broken : b[1] # s}
    /\ Return(s)
    /\ UNCHANGED <<told, up, migrated>>

Handle(s) ==
    \/ CallerPolicy(s) \/ Resolve(s) \/ CalleePolicy(s) \/ OpenIncoming(s) \/ recordPair(s)
    \/ forwardToPeer(s) \/ Ready(s) \/ LookupProvider(s) \/ AllocateBoth(s) \/ Grant(s)
    \/ StreamEnds(s) \/ Unwind(s)

-----------------------------------------------------------------------------
(* enforceRequiredPromotion, and the promotions it polls for *)

Sides(S, side) == {<<s, side>> : s \in S}

EnforceTick(s) ==
    /\ enforce[s] = "armed" /\ st[s].id \in migrated
    /\ enforce' = [enforce EXCEPT ![s] = "promoted"]
    /\ UNCHANGED <<st, told, alive, provOpen, broken, up, pairs, allocs, migrated>>

\* Close fails the copy that reads the consumer's stream, if it still does.
EnforceDeadline(s) ==
    /\ enforce[s] = "armed"
    /\ enforce' = [enforce EXCEPT ![s] = "killed"]
    /\ alive' = alive \ {s} /\ broken' = broken \cup ({<<s, "consumer">>} \cap Sides(alive, "consumer"))
    /\ UNCHANGED <<st, told, provOpen, up, pairs, allocs, migrated>>

\* MIGRATE_TO_P2P from a connected agent; the stream may be gone already.
handleMigrateToP2P(id) ==
    /\ up # {} /\ id \notin migrated
    /\ migrated' = migrated \cup {id}
    /\ UNCHANGED <<st, told, alive, provOpen, broken, up, pairs, allocs, enforce>>

\* The entry expires, or MIGRATE_TO_RELAY discards it.
MigratedDropped(id) ==
    /\ id \in migrated
    /\ migrated' = migrated \ {id}
    /\ UNCHANGED <<st, told, alive, provOpen, broken, up, pairs, allocs, enforce>>

-----------------------------------------------------------------------------
(* The agents *)

\* Either agent ends its data stream, or resets it; or, where the other side is
\* gone, sends bytes the relay can no longer write.
AgentCloses(s) ==
    /\ \/ /\ s \in alive /\ alive' = alive \ {s} /\ UNCHANGED provOpen
          /\ broken' \in {broken, broken \cup {<<s, "consumer">>}}
       \/ /\ s \in provOpen /\ provOpen' = provOpen \ {s} /\ UNCHANGED alive
          /\ broken' \in {broken, broken \cup {<<s, "provider">>}}
    /\ UNCHANGED <<st, told, up, pairs, allocs, enforce, migrated>>

\* An agent's link goes away, its streams and its allocations with it, and the
\* link's context, under which the enforcement of its streams runs.
LinkLost(a) ==
    /\ a \in up
    /\ up' = up \ {a}
    /\ alive' = {s \in alive : st[s].consumer # a}
    /\ provOpen' = {s \in provOpen : st[s].provider # a}
    /\ broken' = broken \cup Sides(alive \ alive', "consumer") \cup Sides(provOpen \ provOpen', "provider")
    /\ allocs' = {x \in allocs : x[2] # a}
    /\ enforce' = [s \in Streams |->
          IF enforce[s] = "armed" /\ st[s].consumer = a THEN "gone" ELSE enforce[s]]
    /\ UNCHANGED <<st, told, pairs, migrated>>

\* gcOnce drops an allocation whose agent has sent nothing for the idle TTL.
IdleTimeout(x) ==
    /\ x \in allocs
    /\ allocs' = allocs \ {x}
    /\ UNCHANGED <<st, told, alive, provOpen, broken, up, pairs, enforce, migrated>>

\* The teardown of an older link of a connected agent: ForgetAgent goes by URI.
OldLinkForgets(a) ==
    /\ a \in up
    /\ allocs' = {x \in allocs : x[2] # a}
    /\ UNCHANGED <<st, told, alive, provOpen, broken, up, pairs, enforce, migrated>>

Next ==
    \/ \E s \in Streams :
          \/ ReadOpen(s) \/ Handle(s) \/ Accepted(s) \/ EnforceTick(s) \/ EnforceDeadline(s)
          \/ AgentCloses(s)
    \/ \E id \in StreamIds : handleMigrateToP2P(id) \/ MigratedDropped(id)
    \/ \E a \in Agents : LinkLost(a) \/ OldLinkForgets(a)
    \/ \E x \in allocs : IdleTimeout(x)

Spec == Init /\ [][Next]_vars

\* Handlers and timers run; nothing makes an agent answer, promote or leave.
FairSpec == Spec /\ \A s \in Streams : WF_vars(Handle(s)) /\ WF_vars(EnforceDeadline(s))
-----------------------------------------------------------------------------
(***************************************************************************)
(* The consumer, parked on its stream id, gets one verdict at most: it is  *)
(* never told of a reject after a STREAM_READY or ALLOC_GRANTED, both      *)
(* ways, or twice.                                                         *)
(***************************************************************************)
OneVerdict == \A s \in Streams : Len(told[s]) <= 1

(***************************************************************************)
(* Nothing outlives the handler: once it has returned, no allocation or    *)
(* armed enforcement of its stream is left, nor a pair unless a stream     *)
(* with the same id is still being handled, on whichever path it left.     *)
(***************************************************************************)
NothingLeaks ==
    \A s \in Streams : st[s].pc = "returned" =>
        /\ enforce[s] # "armed"
        /\ \A a \in Agents : <<s, a>> \notin allocs
        /\ st[s].id \in DOMAIN pairs =>
              \E t \in Streams : st[t].id = st[s].id /\ st[t].recorded /\ st[t].pc # "returned"

(***************************************************************************)
(* "The entry only lives as long as the splice", and that long: the pair   *)
(* of a stream stays recorded until its handler returns; a stream rejected *)
(* for colliding with it does not take it away.                            *)
(***************************************************************************)
PairHeld ==
    \A s \in Streams :
        /\ st[s].recorded /\ st[s].pc # "returned"
        /\ \A t \in Streams \ {s} : st[t].recorded => st[t].id # st[s].id
        => st[s].id \in DOMAIN pairs /\ pairs[st[s].id] = Pair(s)

(***************************************************************************)
(* "Allocations have no expiry in this prototype - the relay tracks them   *)
(* for the lifetime of the stream they back": while a stream is parked,    *)
(* each of its agents that is still connected holds its allocation.        *)
(***************************************************************************)
GrantBacked ==
    \A s \in Streams : st[s].pc = "parked" =>
        \A a \in {st[s].consumer, st[s].provider} \cap up : <<s, a>> \in allocs

\* The plane holds an allocation of this stream for an agent that has left.
Orphaned(s) == \E a \in Agents \ up : <<s, a>> \in allocs

(***************************************************************************)
(* An allocation made for an agent that has left, even one that left       *)
(* between the lookup and Allocate so that its ForgetAgent came too early, *)
(* is released by the handler, without waiting for the idle timeout.       *)
(***************************************************************************)
DepartedReleased == \A s \in Streams : Orphaned(s) ~> ~Orphaned(s)

\* The relay has closed the consumer's stream, or it went with its link, but one
\* copy still waits for bytes of a provider nobody reset: its link is a fallback
\* one, or the consumer had ended its own direction before.
Lingers(s) ==
    /\ At(s, "splicing") /\ enforce[s] \in {"killed", "gone"}
    /\ s \in provOpen /\ (st[s].provider \in Fallback \/ <<s, "consumer">> \notin broken)

(***************************************************************************)
(* "Past the timeout the relay tears down the splice": a required stream   *)
(* between two agents of this relay is not carried for ever unless it was  *)
(* promoted.  The handler returns, or at worst holds a stream that is cut  *)
(* off from its consumer.                                                  *)
(***************************************************************************)
RequiredEnforced ==
    \A s \in Streams :
        st[s].pc \in {"splicing", "parked"} /\ st[s].p2p = "required"
            ~> st[s].pc = "returned" \/ enforce[s] = "promoted" \/ Lingers(s)

=============================================================================
