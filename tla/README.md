# A TLA+ model of outrelay-relay

The relay joins agents that can only dial out: a consumer agent opens a stream,
the relay finds the provider of the service, checks policy from both sides and
copies bytes between the two, or hands both agents an allocation on a UDP
forwarding plane. Streams survive reconnects (resume), move to a direct path
and back (promotion, migrate-back), and are moved away from a relay that is
being drained. A stream whose provider is on another relay is forwarded to it.
This directory holds the specifications of the parts of the relay that keep
state, the TLC configurations that check them, and TLAPS proofs of what they
promise.

    tlc -workers 2 -config ForwardPlane.cfg MCForwardPlane
    tlapm ForwardPlaneProofs.tla

## 1. The system

| part | source | state | operations | concurrency |
|---|---|---|---|---|
| forwarding plane | `pkg/forward/plane.go` | `byAlloc`, `byURI`, `src2id`, `pending`, `queued`, `nextID` | `Allocate`, `ArmPending`, `register`, `Forget`, `ForgetAgent`, `gcOnce`, the data path of `Run` | UDP loop, GC ticker, edge goroutines; one `RWMutex`, which the data path leaves before it uses what it read |
| resume matcher | `pkg/edge/resume.go`, `edge.go` | `pending`, a channel per half | `Submit`, `handleResumeHalf`, `handleMigrateToRelay`, `splicePair` | a handler and an expiry goroutine per half |
| forward matcher | `pkg/edge/forward_resume.go`, `edge.go` | `pending`, a channel and a flag per half | `Submit`, `driveForwardResume` | the same |
| links and directory | `edge.go`, `registry.go`, `main.go` | `agentConns`, `agents`, the controller's rows | `serveConn`, `handleRegister`, `Drain` | a goroutine per link and per control loop, Drain, signals |
| policy | `pkg/policy` | rules, snapshot, cache | `Watcher.runOnce`, `Engine.Apply`, `Cache`, `evaluate` | watcher against evaluating handlers |
| stream open | `edge.go`, `migrate.go` | `pairs`, allocations, enforcement timers, migrated entries | `handleConsumerStream`, `enforceRequiredPromotion`, `handleMigrateToP2P` | a handler and a timer per stream, agents that fail at any point |
| inter-relay | `pkg/intra/pool.go`, `edge.go` | cached connections | `Get`, `Drop`, `ForwardStream`, `forwardToPeer`, `handleForwardedStream` | concurrent dials, connections that die, two relays |
| splice | `pkg/splice` | two copy directions per relay | `Bidirectional`, `copyOne` | two goroutines per relay, agents and connections that fail |
| fleet | `registry/fleet.go`, `edge.go`, `main.go` | `Heartbeat.last`, the successor list, the lists agents hold | `beat`, `Successors`, `SetSuccessors` | ticker against stream handlers |
| audit | `pkg/audit` | a bounded queue | `Emit`, `Run` | many producers, one consumer |

The parts meet in a few places. A link's teardown reaches into the directory,
the controller and the plane, by agent URI. Stream handlers, resumed splices
and migrate-back share the pair map, by stream id. Both matchers end in an
action of another part: a splice, or two allocations. What is hard here is that
the names are reused, by an agent that reconnects or a stream that is resumed,
while work started under the same name is still going on.

`PROJECT.json` lists the hazards at their lines with the properties on each.

## 2. The modules

| module | models |
|---|---|
| `ForwardPlane` | the forwarding plane |
| `StreamResume` | the resume matcher, migrate-back, and the pair map |
| `ForwardMatcher` | the forward matcher |
| `Rendezvous` | what a matcher promises; both implement it |
| `AgentLink` | links, the directory, REGISTER, grants after a resume, Drain |
| `PolicyCache` | watcher, engine, cache, `evaluate` |
| `Glob` | the patterns of rules: `matchGlob`, and what a pattern means |
| `StreamOpen` | opening a stream, its mode, required promotion |
| `Fleet` | `StreamOpen` composed with the heartbeat: the successor list, and the lists the agents of a stream are given |
| `PeerForward` | a stream forwarded to another relay, on both relays, and the pool |
| `SpliceChain` | the copying on every relay of a path |
| `Pipe` | what two agents may expect of a relayed stream; `SpliceChain` implements it |
| `...Proofs` | the theorems (section 4) |
| `MC...` | the instances the configurations use |

Each module's actions carry the names of the Go functions they stand for, and
`map` in `PROJECT.json` gives the lines. A function that holds its lock
throughout is one action. A function that unlocks in the middle, or calls out,
is cut where another goroutine can come in: `Submit` / `Notify` in the matcher,
`DataLookup` / `DataForward` in the plane, `Get` / `EngineDecide` / `CachePut`
in `evaluate`, `UnregisterAgent` / `DeregisterAgent` / `ForgetAgent` in the
teardown of a link, `Lookup` / `Dial` / `Install` in `Pool.Get`, `DropTake` /
`DropClose` in `Pool.Drop`, the read and the write of a `copyOne`, and the steps
of `handleConsumerStream`, among them the second lookup of the provider and the
allocations made for it. Its deferred calls are the single action `Unwind`,
reached from every early return.

**Time.** The plane and the cache keep ages instead of a clock: `Tick` makes
everything older together and an age stops one past the value that matters, so
time needs no bound. Elsewhere a timer is an action that may happen at any
moment while the timer runs.

**Data.** URIs, nonces and ids are members of small sets. A rule is given by its
patterns, sequences of characters, and enters the engine as the set of requests
`matchGlob` finds it to match (`Compiled`). Bytes on a stream are counted, not
named: the transport keeps their order. A relay's id is a number, ordered as the
code orders ids, and stands for its endpoint. An endpoint is an (address, port) pair, because the
data path reads it unlocked and the two words may come from different writes.

**External.** The controller's answers, the agents, the network and the clock
are choices, modelled from how the code uses them. Some of them deserve a word.
The controller may apply, at any later time, a RegisterService or a
DeregisterAgent call the relay gave up on. The close of the consumer's stream by
the enforcement (`edge.go:1194`) fails the copy that reads that stream: this is
the word of the comment at `edge.go:1172` and what `mixed_policy_test.go:205`
observes over QUIC, since the transport library is not in this repository. What
the failed copy then does to the provider's stream is `copyOne`'s, and differs on
the fallback transport (`ResetByFailure`). For the same reason a transport stream
in `SpliceChain` is what `copyOne` assumes of it: a bounded buffer per direction,
an end of file after the last byte, a reset that may overtake bytes, a read that
fails when the stream is reset, cancelled or loses its connection. In
`StreamOpen` the plane drops an allocation by its GC or by the `ForgetAgent` of an
agent's older link at any moment; `ForwardPlane` and `AgentLink` have these in
detail.

**History.** `armed`, `heard`, `ev` and the fields `from` and `reg` of `fwd` in
`ForwardPlane`, `told` in `StreamOpen`, and `stale` / `straddled` in `PolicyCache`
record what happened. No guard reads them. `heard` counts from the arrival of a
packet, not from the moment the plane stores it.

## 3. The runs

### Runs that pass

| run | instance | states | shows |
|---|---|---|---|
| `ForwardPlane` | 1 agent, 2 nonces, 2 allocations, one with two ports, TTLs 1 | @FP@ | the five tables agree, nonce-bound endpoints, delivery only to endpoints the allocation was bound to, no eviction of what is heard and stored, reclaiming of what is not |
| `StreamResume` | 4 halves of one stream (`FourHalves`), 2 agents, 1 opened stream | @SR@ | the matcher's races with its expiry, routing of a resumed pair, the refinement of `Rendezvous`; a parked half leaves the map |
| `ForwardMatcher` | 4 halves, 1 id | @FM@ | no double close, one outcome, every goroutine returns, the refinement |
| `AgentLink` | 2 links, of one agent or of two, overlapping or not | @AL@ | the directory never leads to a torn-down link; a link that met no other of its agent keeps its entry, its grants and, but for a late DeregisterAgent, its service; Drain leaves nobody it told with an open link |
| `PolicyCache` | 2 requests, 1 evaluation, capacity 1, TTL 1, 2 rule changes, 1 break; patterns and strings up to length 4 | @PC@ | the cache's bound, that staleness needs a straddling evaluation, that patterns mean what they say and the engine decides by them, that it converges and decisions follow |
| `StreamOpen` | 2 streams with the same id, 2 agents, peer relays, p2p required, either relay mode | @SO@ | one verdict, nothing leaks, collisions leave the pair alone |
| `StreamOpenLive` | `Fleet`: 1 stream, p2p forbidden or required, either relay mode, 2 agents, one on the fallback transport, 4 relays in 2 regions, 1 change of the fleet | @SL@ | one list for both agents of a stream, one order in a region, the list follows the fleet, required streams are not carried for ever, allocations of agents that left are released |
| `SpliceChain` | 2 relays, the consumer on the fallback transport, window 1, 2 bytes | @SC@ | the refinement of `Pipe`, splices end when a connection is lost, an end of file gets through |
| `PeerForward` | 3 streams to one peer relay | @PF@ | no connection is lost track of, a failed one is not handed out again |

**Why the bounds are enough.** Each race needs one more actor than it has
parties. A matcher race involves a parked half, the half that takes it and a
later half with the same id; the fourth half makes a second pair. A teardown
race has an old and a new link of one agent. A race in the pool has two callers,
and a third that dials between one's failure and the other's Drop. Two relays
are the least on which a reset or an end of file passes through a stream no
agent sees; with a window of one byte two bytes fill the provider's window and
leave the relay before it in Write, which is the case `ReturnsOnLoss` has to
except. TTL 1 gives ages before, at and past the limit. The two ports of one
allocation make the data path meet a binding that moves. A cache of capacity 1 with two requests is full
on every other store. Two streams with one id cover the collision and the same
pair twice. Patterns of length 4 have up to three pieces that overlap, repeat or
are empty. The three relays besides this one are one of its region, one of
another whose id sorts before that one's, and one without an endpoint. The p2p modes of
`StreamOpenLive` give streams with and without an enforcement; two streams of
`StreamOpen` are all required, which is the mode with most to release, and the
combination of modes is the same function in both. The plane's run has one
agent, to leave room for the liveness property: what depends on who owns an
allocation (`TablesAgree`, `BindingAuthorised`) is proved for any agents.

Symmetry permutes names the specification only compares. It is used in runs
without liveness properties only.

**Deadlock** is checked for the plane and the policy runs. The others have
finitely many halves, links or streams and stop when all are done.

**Fairness.** Weak fairness only, on handlers, the watcher, the heartbeat, the GC
ticker, enforcement timers, the copies of a splice and the clock: a goroutine
that can run does, and a ticker fires again. No fairness is assumed of what agents
send, read, answer or close, of links, or of the controller's and the fleet's
changes. `SpliceChain`'s properties name what an agent that never reads can hold
up (`HeldUp`, `Unread`).

### Runs that show a disagreement

Each of these checks one statement that a comment or a document makes, and TLC
finds a behaviour of the code in which it is false. `findings` in
`PROJECT.json` quotes the statement.

| run | statement | what happens |
|---|---|---|
| `StreamResumeSteal` | both halves get the pair | the expiry goroutine takes the value; the handler waits for ever |
| `AgentLinkReconnect` | recorded for as long as connected | the old link's teardown removes the new link |
| `StreamOpenGrant` | an allocation has no expiry and lasts as long as its stream | the GC drops a silent agent's, and an older link's teardown a connected agent's |

The model has more behaviours that a comment or a document of the repository
reads as excluding. They have no run of their own; the properties of the passing
runs are stated so as to hold beside them.

- Two allocations share a UDP endpoint: the reverse index keeps one, and the
  other is evicted while in use (`plane.go:492` against `:50`).
- An agent re-registers from a new address while `Run` holds its entry unlocked
  (`plane.go:455`): `RacyRead` lets the read mix the two endpoints.
  `DeliveredToRegistered` is about agents that keep their address and change
  their port; then the read gives the old or the new endpoint.
- `gcOnce` may run between `Run`'s `RUnlock` and its `Store` (`plane.go:446`,
  `:448`) and evict an entry whose agent has just been heard, against `:50`. The
  `Store` may also move `lastSeen` back, behind what an `ArmPending` wrote since.
  `KeptWarm` excepts the first and holds beside the second.
- "Allocations have no expiry" (`plane.go:28`) while `IdleReclaimed` shows that an
  idle one is always reclaimed; `StreamOpenGrant` is the run on this statement.
- The id counter wraps round to a live id (`plane.go:263` against `:249`).
- One agent resumes a stream twice and is paired with itself (`resume.go:62`
  against `:41`).
- `forgetPair` goes by id (`edge.go:310`): the end of one stream takes the pair
  of another, and a collision is then accepted (against `resume.go:30` and
  `edge.go:275`). `ResumedPairRouted` is about ids that nothing else has used up.
- A migrate-back half completes a resume half's pair and no echo is sent
  (`edge.go:1440` against `:1501`).
- The teardown of an old link drops the new link's allocations (`edge.go:450`),
  and a parked half is granted after its agent left (`edge.go:1366`), against
  `edge.go:445`.
- A DeregisterAgent that failed at the relay (`registry.go:110`, only logged) and
  is applied late takes the services of the agent's next link: it names the agent
  and the relay, not the link. `AckedResolvable` excepts it.
- A link that attaches after Drain's last look stays open (`edge.go:174` against
  `:130`), and one that attaches while Drain waits is closed at the deadline
  without a GOAWAY. `DrainedCut` is about the links present when Drain begins,
  and about a Drain that returns: a GOAWAY write that blocks on one agent
  (`edge.go:150`) comes before the deadline is set.
- The consumer is told nothing when the provider's answer cannot be read
  (`edge.go:733`, `:746`), and gets no mode signal on the inter-relay path
  (`edge.go:1032` against `architecture/README.md:66`).
- A promotion after the enforcement's last poll is not honoured (`edge.go:1194`
  against `:1174`), while the promotion of an earlier stream with the same id is
  (`edge.go:1187`).
- A stream the caller's policy requires to be direct and whose provider is on
  another relay is forwarded with no timer at all (`edge.go:641` against `:722`).
  `RequiredEnforced` is about streams between two agents of one relay.
- "The splice goroutine exits" (`edge.go:1172`): when the provider is on the
  fallback transport, or the consumer had ended its direction before, the close of
  the consumer's stream leaves the copy from the provider waiting for its next
  bytes. `RequiredEnforced` allows this, with the consumer cut off (`Lingers`).
- `pool.go:55` says that "concurrent callers wait on a single dial"; they dial
  at once and the loser's connection is closed. `NoConnLeaks` is what holds.
- `Drop` is meant for a dead connection (`pool.go:90`, `edge.go:1026`), but a
  peer's STREAM_REJECT leads to it too, and closes a live connection under every
  other stream spliced over it; and since it goes by relay id it may close a
  newer connection than the one that failed.
- `splice.go:48` says "until either side EOFs or errors"; `Bidirectional` waits
  for both directions. When one has ended with an end of file and the connection
  the other writes to is lost, nothing is noticed until there is something to
  write: `ReturnsOnLoss` is about a connection some copy still reads. And a copy
  that waits in Write for an agent to read does not see that the connection it
  reads is lost (`HeldUp`).
- A failure reaches an agent on the fallback transport as an end of file
  (`splice.go:114`); `Pipe` allows that in these directions only (`Truthful`).
- "Agents always hold a current fallback list" (`main.go:211`): `Heartbeat.last`
  starts out empty although the server was seeded, so an empty fleet is not
  published until a beat has seen another relay. `SuccessorsFollow` excepts it.
- "Both halves of every stream hold an identical list" (`edge.go:79`): a
  forwarded stream's agents are on two relays, and its consumer is given none.
  `HalvesAgree` is about streams within one relay.
- `matcher.go:104` says a star matches "non-empty" runs, `:276` "possibly
  empty"; the code does the latter, and `Matches` is written for it.

The passing runs say what remains true beside these. `AgentLink` remembers which
links met another of their agent and shows that for all others its promises hold.
`KeptWarm` holds when endpoints are not shared.

One race is not a disagreement: an evaluation that decides before a rebuild may
store its result after the flush, where it is served until it expires.
`cache.go:11` accepts this ("a policy add/remove that races a snapshot Flush still
settles quickly"). `StaleOnlyStraddling` shows that it is the only way to an
outdated entry, and `EventuallyEnforced` that the TTL ends it.

### Refinement

`Rendezvous` has three actions: a half waits, joins the one that waits under its
key, or expires. `StreamResume` and `ForwardMatcher` implement it under mappings
from the channel states to an outcome (`Outcome`, `Driver`, `Joined`), checked
as the property `ImplementsRendezvous`: a half meets at most one other, with its
own key, expires only by its own timer, and never both expires and meets.

`Pipe` is a pair of byte streams that may break: what arrives was sent, an end of
file means that the sender finished and everything arrived, an error means that
something broke. `SpliceChain` implements it for any number of relays, with the
agents' ends of the path as its state (`ImplementsPipe`).

`Matches` is the meaning of a pattern, one character after the other: the
prefixes of the string that the first `i` characters of the pattern mean.
`matchGlob` is compared with it on all patterns and strings up to the bound, and
proved equal to it (section 4).

## 4. The proofs

Eight modules prove the following, for any values of the constants the named
assumptions of the modules allow: any number of agents, halves, links, calls,
relays, streams, keys and ids, any TTLs, windows and capacities.

| module | theorem | assumes | statement |
|---|---|---|---|
| `ForwardPlaneProofs` | `TypeCorrect` | | `[]TypeOK` |
| | `ForwardSafety` | `NoWrap` | `BindingAuthorised`, and the parts of `TablesAgree` but the completeness of the reverse index, always hold |
| | `TablesInStep` | `NoWrap`, `DistinctEndpoints` | `[]TablesAgree` |
| | `HealthyKeptWarm` | `NoWrap`, `DistinctEndpoints` | `KeptWarm` |
| | `DeliverySound` | `OneAddress` | `[]DeliveredToRegistered` |
| `StreamResumeProofs` | `ResumeSafe`, `SpliceHasBoth` | | `[]SendIsSafe`, `[]SplicePaired` |
| | `ResumedRouting` | | `[]ResumedPairRouted` |
| | `ResumeRendezvous` | | `ImplementsRendezvous` |
| `ForwardMatcherProofs` | `MatchedClosedOnce`, `OneOutcomeEach` | | `[]ClosedOnce`, `[]OneOutcome` |
| | `MatcherRendezvous` | | `ImplementsRendezvous` |
| `FleetProofs` | `OpenOneVerdict`, `OpenNothingLeaks` | | `[]OneVerdict`, `[]NothingLeaks` |
| | `OpenPairHeld` | | `[]PairHeld` |
| | `SuccessorsAgree` | | `RegionsAgree`: relays of a region derive one order from any snapshots of a fleet |
| | `FleetHalvesAgree`, `FleetSameOrder` | | `[]HalvesAgree`, `[]SameOrder` |
| `AgentLinkProofs` | `DirectorySound`, `DirectoryAlive` | | `[]LoneFindable`, `[]NoDeadProvider` |
| | `AckedStaysResolvable`, `DrainCutsAll` | | `[]AckedResolvable`, `[]DrainedCut` |
| | `GrantsKept` | | `GrantKept` |
| `PeerForwardProofs` | `PoolKeepsTrack`, `DroppedForGood` | | `[]NoConnLeaks`, `[]FailedNotReused` |
| `SpliceChainProofs` | `ChainIsPipe` | | `ImplementsPipe` |
| `PolicyCacheProofs` | `CacheStaysBounded`, `FlushLeavesStraddlers` | | `[]CacheBounded`, `[]StaleOnlyStraddling` |
| | `GlobMeaning`, `CompiledMeaning` | | `matchGlob` is `Matches`; a rule applies to the requests its patterns mean |
| | `EngineEnforces` | | `[]EnforcedAsWritten` |

**The plane.** `NoWrap` says that no more ids are issued than there are,
`DistinctEndpoints` that no two allocations are punched from the same endpoint.
Both are needed: an allocation overwrites a live entry when the counter comes
round, and `KeptWarm` fails when two allocations share an endpoint. `SafetyInv`
adds to the properties that live ids are at most the counter (`IdsFresh`, without
which an allocation could overwrite an entry) and that a pending entry carries the
last nonce armed for its allocation (`PendingIsLastArmed`, which is what makes an
accepted punch authorised). `WarmInv` adds that an endpoint belongs to the
allocation it is bound to (`EndpointOwned`), that the index is complete, that
`lastSeen` is no older than the last packet unless Run has that packet in hand
(`WarmOrInHand`), and that the time Run noted is as recent as the last packet of
the sender it is about to bump (`BumpIsHeard`). The last two are what the unlocked
window of the data path needs. `OneAddress` says that an allocation
is punched from one address, by any ports; with two addresses the unlocked read
can mix them and `DeliveredToRegistered` fails. `AimedAtPeer` follows the entry
that `Run` holds across the same window, in the table or not: whatever it may read
there is the zero value or an endpoint registered for that id since, and with one
address the words of two such endpoints make one of the two. It needs no
assumption on the counter, because entries are told apart by identity
(`PtrsDistinct`).

**The matchers.** What makes both right is that the lock sections decide: a half
is in the map exactly while it is neither joined nor expired (`Parked`,
`WaitingParked`), a joined half has one driver (`Roles`, `Joins`), and whatever
happens to its channel afterwards is done by whoever took it out of the map
(`Closes`; `Channels` in the resume matcher, where three goroutines use the
channel). From that each step of a matcher is a step of `Rendezvous` or leaves
its state alone. `Routed` adds what `splicePair` records.

**Stream open.** What a handler holds follows from where it is: nothing was told
before a verdict (`Untold`), allocations and an armed enforcement exist only
between the step that takes them and the deferred calls (`Holding`), and a pair
only while a handler that recorded it has not returned (`PairOwned`).
`RecordedLate`, that nothing is recorded before `recordPair`, is what keeps the
provider of a recorded pair fixed. Steps that take and release nothing share one lemma
(`MoveStep`).

**The successor list.** `OnlyFacts` says what the loop of `Successors` keeps,
`SortExists` and `SortByIdFacts` that the sort exists (by inserting one element
after the other) and what it returns, and `SuccessorsFacts` that the two groups
together are the fleet's other relays with an endpoint, each once, in the order
of the comment. That order is strict (`OrderStrict`), so it determines the list
(`SortedUnique`, `RankedUnique`); dropping a relay of the same region from both
lists leaves equal ones (`RestFacts`), which is `SuccessorsAgree`. For
`HalvesAgree` the invariant is `FleetInv`: a list that is advertised comes from a
snapshot of some fleet (`Advertised`), hence is never mistaken for the absence of
a list, and a stream that is carried was reached by the step that stamped both
its agents, or was carried before (`CarriedStep`).

**Links.** Two links of one agent that are on the relay together have met
(`Together`), so a teardown by URI can only harm a link that is in `overlapped`;
what a link is displaced by is then named by `ListedFindable`. A DeregisterAgent
is given up only by a link past its own teardown (`GaveUpLate`), and once one has
been applied late that stays on record. For Drain, the
links it told are past their registration and never come back (`ToldTracked`),
and those it is about to close include all of them (`SelectCovers`).

**The pool.** That a dropped connection is really taken out of the pool needs the
pool to cache a connection for one peer only, and only for the peer of the calls
that work with it (`OnePeerEach`), and that a caller about to install the
connection it dialed is the only one to know it (`InstallFresh`).

**The chain.** `Copied` counts what each `copyOne` holds, `NoneMadeUp` bounds
every stream by what the agent wrote, `EndsTrue` and `FaultsReal` say what a FIN,
a reset or a cancelled read anywhere on the path stands for. Every stream is
compared with the one its agent writes, so that no induction along the path is
needed.

**The cache.** `CacheBounded` is inductive once the cache is known to be finite:
whichever way `Room` makes room, what is left is part of the cache with a place
free (`RoomMade`), since `max(1, capacity/8)` is never zero.
`StaleOnlyStraddling` needs only that a rebuild leaves the watcher at its flush.

**Patterns and decisions.** `SplitFacts` gives the positions at which
`strings.Split` cuts a pattern (`Cuts`). A piece has no star and means itself
(`PieceMeans`). Because a star follows each piece but the last, all that matters
of the ways to match the pieces so far is the least length they take (`Above`,
`Reached`): that is why `matchGlob` may take the first occurrence of each
(`MiddlePiece`), and why the last piece need only fit into what is left. The
engine's invariant `RulesKnown` says that its snapshot lists the rules it holds,
all of them the controller's. Then `matchFirst` finds a rule exactly when one
matches (`FirstMatch`), and `Decide` ranks exact targets first
(`DecidedAsRanked`).

**Induction over data.** The induction theorems of the library take a predicate
as an argument, which the provers here cannot instantiate. `FleetProofs` and
`PolicyCacheProofs` therefore derive induction for sets of numbers from the
well-foundedness of `<` (`NatMin`, `Induction`), and with it the existence of
functions defined by recursion (`Recursion`); the loops of the code are written
as such functions and unfolded by `OnlyStep`, `SplitStep`, `TakenStep` and
`MeansStep`.

In each module there is a lemma per action, or per group of actions that do the
same to the invariant, over a few lemmas about adding and removing rows of a
table.

**Only model-checked.** Liveness under fairness is beyond the prover:
`IdleReclaimed`, `WindowCloses`, `HandlerReturns`, `EngineConverges`,
`EventuallyEnforced`, `RequiredEnforced`, `DepartedReleased`, `SuccessorsFollow`,
`ReturnsOnLoss` and `FinDelivered` rest on their runs. Every invariant, action property and
refinement that a passing run checks has a theorem. Those of the plane hold under
the assumptions named in the table; its run satisfies all three.

## 5. Not modelled

- Candidate, checkpoint and address frames: stateless lookups (`peerOf`, which
  is in `StreamResume`, then the directory, which is in `AgentLink`).
- The audit queue: a bounded channel that drops when full; nothing reads its
  state back.
- `Pool.Close` and other work at process exit; `DrainHandler`, flags, TLS,
  listeners, metrics, logging: configuration and I/O.
- Two Drains at once (`/debug/drain` may be posted again): the model has one.
- The reject frames of `handleForwardRegister`: `ArmPending`'s refusal leaves the
  tables alone, and that is what the model has.
- Bytes on a control stream: a frame is written atomically, although PONG,
  REGISTER_ACK and the address reply do not take `ctrlMu`.
- A composition of `AgentLink` with the matchers and the plane. Each is checked
  with the others as choices: a half's link may be gone when it is driven, and an
  agent's allocations may go at any moment. The product is out of TLC's reach
  with two links and four halves.
