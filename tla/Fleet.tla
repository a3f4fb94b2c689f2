------------------------------- MODULE Fleet -------------------------------
(***************************************************************************)
(* The successor list: Successors and Heartbeat of pkg/registry/fleet.go,  *)
(* SetSuccessors of pkg/edge/edge.go, the seeding in main.go, and the      *)
(* lists the agents of a stream are handed while it is opened.  It is      *)
(* StreamOpen with a heartbeat beside it: every step of a handler that     *)
(* sends a list reads the one advertised at that moment.  A relay's id     *)
(* stands for its endpoint; ids are numbers, ordered as the code's.        *)
(***************************************************************************)
EXTENDS StreamOpen, Sequences

CONSTANTS
    Relays,       \* relay ids
    Self,         \* this relay
    RegionOf,     \* relay -> region
    NoEndpoint,   \* relays the controller lists without an endpoint
    FirstFleet,   \* the fleet at startup
    MaxChanges    \* bound: joins and departures of relays

ASSUME FleetConstants ==
    /\ Relays \subseteq Int \ {0} /\ IsFiniteSet(Relays)
    /\ Self \in Relays /\ DOMAIN RegionOf = Relays
    /\ NoEndpoint \subseteq Relays /\ FirstFleet \subseteq Relays /\ MaxChanges \in Nat

VARIABLES
    fleet,        \* the relays alive according to the controller
    changes,      \* joins and departures so far
    last,         \* Heartbeat.last
    successors,   \* Server.successors
    held          \* stream -> agent's side -> the list it was given last

fleetVars == <<fleet, changes, last, successors>>
allVars == <<vars, fleetVars, held>>

NoList == <<0>>

-----------------------------------------------------------------------------
(* fleet.go *)

\* append, over the snapshot, of the relays in S.
Only(snapshot, S) ==
    LET Kept[i \in 0 .. Len(snapshot)] ==
            IF i = 0 THEN << >>
            ELSE IF snapshot[i] \in S THEN Append(Kept[i - 1], snapshot[i]) ELSE Kept[i - 1]
    IN  Kept[Len(snapshot)]

\* slices.SortFunc by id.
SortById(list) ==
    LET perm == CHOOSE p \in Bijection(DOMAIN list, DOMAIN list) :
                    \A i, j \in DOMAIN list : i < j => list[p[i]] <= list[p[j]]
    IN  [i \in DOMAIN list |-> list[perm[i]]]

Listed(self) == {r \in Relays : r # self /\ r \notin NoEndpoint}

\* Mutant: one sort by id, over both groups.
SuccessorsById(self, snapshot) == SortById(Only(snapshot, Listed(self)))

\* Everyone else with an endpoint, this region first, each group by id.
Successors(self, snapshot) ==
    LET same == {r \in Listed(self) : RegionOf[r] = RegionOf[self]}
        other == {r \in Listed(self) : RegionOf[r] # RegionOf[self]}
    IN  SortById(Only(snapshot, same)) \o SortById(Only(snapshot, other))

\* The controller answers an upsert with the fleet, in any order.
Orderings(F) == Injection(1 .. Cardinality(F), F)
Snapshots == UNION {Orderings(F) : F \in SUBSET Relays}

\* The fleets, each with the list this relay derives from a snapshot of it.
Lists == {<<Range(snapshot), Successors(Self, snapshot)>> : snapshot \in Snapshots}

FleetInit ==
    /\ fleet = FirstFleet /\ changes = 0
    /\ last = << >>
    /\ \E e \in Lists : e[1] = fleet /\ successors = e[2]
    /\ held = [s \in Streams |-> [consumer |-> NoList, provider |-> NoList]]

\* Mutant: the list is remembered but the subscribers are not called.
beatUnpublished ==
    /\ \E e \in Lists : e[1] = fleet /\ last' = e[2]
    /\ UNCHANGED <<fleet, changes, successors>>

\* A successful upsert; one that fails changes nothing.
beat ==
    /\ \E e \in Lists : e[1] = fleet /\ last' = e[2]
    /\ successors' = IF last' = last THEN successors ELSE last'
    /\ UNCHANGED <<fleet, changes>>

\* Another relay joins, leaves, or misses the controller's liveness window.
FleetChanges(r) ==
    /\ r # Self /\ changes < MaxChanges
    /\ fleet' = IF r \in fleet THEN fleet \ {r} ELSE fleet \cup {r}
    /\ changes' = changes + 1
    /\ UNCHANGED <<last, successors>>

-----------------------------------------------------------------------------
(* The lists handed out while a stream is opened *)

Steps(s, from, to) == At(s, from) /\ st'[s].pc \in to

\* INCOMING_STREAM to the provider; the consumer has none yet.
IncomingStamp(s) == Steps(s, "incoming", {"record"})

\* Mutant: the provider is left with the list of its INCOMING_STREAM.
ReadyStampCaller(s) ==
    [held[s] EXCEPT !.consumer = IF st[s].consumer \in up THEN successors ELSE @]

\* STREAM_READY or ALLOC_GRANTED: read once, written to both agents, each
\* write as far as its link is there.
ReadyStamp(s) ==
    [consumer |-> IF st[s].consumer \in up THEN successors ELSE held[s].consumer,
     provider |-> IF st[s].provider \in up THEN successors ELSE held[s].provider]

Stamp ==
    held' = [s \in Streams |->
        IF IncomingStamp(s) THEN [held[s] EXCEPT !.provider = successors]
        ELSE IF Steps(s, "splice", {"splicing"}) \/ Steps(s, "grant", {"parked"}) THEN ReadyStamp(s)
        ELSE held[s]]

FleetNext ==
    \/ Next /\ Stamp /\ UNCHANGED fleetVars
    \/ (beat \/ \E r \in Relays : FleetChanges(r)) /\ UNCHANGED <<vars, held>>

\* Handlers and timers as in StreamOpen; the controller answers again and again.
FleetSpec ==
    /\ Init /\ FleetInit /\ [][FleetNext]_allVars
    /\ \A s \in Streams : WF_vars(Handle(s)) /\ WF_vars(EnforceDeadline(s))
    /\ WF_fleetVars(beat)
-----------------------------------------------------------------------------
(***************************************************************************)
(* The relocation invariant: "both halves of every stream hold an          *)
(* identical list before any byte flows", whatever beats come between the  *)
(* reads, for a stream both of whose agents are connected here.            *)
(***************************************************************************)
HalvesAgree ==
    \A s \in Streams :
        st[s].pc \in {"splicing", "parked"} /\ {st[s].consumer, st[s].provider} \subseteq up =>
            held[s].consumer = held[s].provider /\ held[s].consumer # NoList

\* The order the comment of Successors asks for.
Before(self, a, b) ==
    LET near(r) == RegionOf[r] = RegionOf[self]
    IN  IF near(a) = near(b) THEN a < b ELSE near(a)

\* Without each other, two relays of a region list the same, from any snapshot.
RegionsAgree ==
    \A F \in SUBSET Relays : \A a, b \in F : RegionOf[a] = RegionOf[b] =>
        LET rest(x, y) == {Only(Successors(x, f), Relays \ {y}) : f \in Orderings(F)}
        IN  Cardinality(rest(a, b) \cup rest(b, a)) = 1

(***************************************************************************)
(* "All relays in a region produce the same order for the same fleet":     *)
(* what is advertised is ordered by region and id whatever the order of    *)
(* the snapshot, never names this relay, and two relays of a region put    *)
(* the others in the same order.                                           *)
(***************************************************************************)
SameOrder ==
    /\ \A i, j \in DOMAIN successors : i < j => Before(Self, successors[i], successors[j])
    /\ Self \notin Range(successors) /\ Range(successors) \cap NoEndpoint = {}
    /\ RegionsAgree

(***************************************************************************)
(* "Refreshed by the heartbeat so agents always hold a current fallback    *)
(* list": when the fleet stops changing the advertised list follows it,    *)
(* but for one case the code leaves: the list main.go seeds stays if no    *)
(* beat has seen another relay yet and the fleet is empty from then on,    *)
(* since Heartbeat.last starts out empty.                                  *)
(***************************************************************************)
SuccessorsFollow == 
    <>[](<<fleet, successors>> \in Lists \/ (<<fleet, << >> >> \in Lists /\ last = << >>))
=============================================================================
