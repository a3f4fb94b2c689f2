---------------------------- MODULE PolicyCache ----------------------------
(***************************************************************************)
(* Policy on the relay: the Watcher of pkg/policy/client.go that follows   *)
(* the controller's rules, the Engine and its snapshots (matcher.go), the  *)
(* decision Cache (cache.go), and the goroutines that decide stream opens  *)
(* through edge.evaluate.  A rule lists the cache keys (caller, target,    *)
(* method) its patterns match (Compiled of Glob); the controller and its   *)
(* event stream are outside the relay.                                     *)
(***************************************************************************)
EXTENDS Glob, FiniteSets, Functions, FiniteSetsExt

CONSTANTS
    RulePool,     \* rules [id, allow, exact, keys] the controller may publish
    Keys,         \* cache keys [caller, target, method]
    Evals,        \* goroutines that evaluate
    TTL,          \* CacheTTL, in ticks
    Capacity,     \* CacheCapacity
    MaxChanges,   \* bound on rule changes at the controller
    MaxBreaks,    \* bound on broken watch streams
    MaxLength     \* bound on the patterns and strings compared exhaustively

ASSUME PolicyConstants ==
    /\ IsFiniteSet(RulePool) /\ \A r \in RulePool : {r.allow, r.exact} \subseteq BOOLEAN
    /\ TTL \in Nat \ {0} /\ Capacity \in Nat \ {0}
    /\ MaxChanges \in Nat /\ MaxBreaks \in Nat /\ MaxLength \in Nat

VARIABLES
    truth,     \* the controller's rules
    changes,   \* how often they changed
    breaks,    \* how often the stream broke
    lapsed,    \* ids of rules past their ExpiresUnixMs
    inbox,     \* events sent on the watch stream and not yet received
    watch,     \* runOnce: where it is, inSnapshot, pending
    rules,     \* Engine.rules
    cur,       \* Engine.cur: the rules in the snapshot's order
    cache,     \* Cache.m: key -> result, ticks since Put
    eval       \* goroutine -> where its evaluate is, key and result

vars == <<truth, changes, breaks, lapsed, inbox, watch, rules, cur, cache, eval>>

Without(m, S) == Restrict(m, DOMAIN m \ S)
Put(m, k, v) == [x \in DOMAIN m \cup {k} |-> IF x = k THEN v ELSE m[x]]
Orders(S) == {s \in [1 .. Cardinality(S) -> S] : Range(s) = S}

-----------------------------------------------------------------------------
(* The engine *)

\* The first rule of this kind that is in force and matches, if any.
matchFirst(exact, key) ==
    LET at == {i \in DOMAIN cur : /\ cur[i].exact = exact /\ key \in cur[i].keys
                                  /\ cur[i].id \notin lapsed}
    IN  {cur[i] : i \in {j \in at : \A k \in at : j <= k}}

\* Exact-target rules first, then wildcard rules, then closed world.
Decide(key) ==
    LET exact == matchFirst(TRUE, key)
    IN  \E r \in IF exact # {} THEN exact ELSE matchFirst(FALSE, key) : r.allow

Del(S, id) == {r \in S : r.id # id}
Add(S, r) == Del(S, r.id) \cup {r}

\* A rebuilt snapshot lists the rules in the order of a Go map; stale marks
\* (history) every result decided before it.
Apply(S) ==
    /\ rules' = S
    /\ cur' \in Orders(S)
    /\ cache' = [k \in DOMAIN cache |-> [cache[k] EXCEPT !.stale = TRUE]]
    /\ eval' = [e \in Evals |-> [eval[e] EXCEPT !.stale = eval[e].pc = "put"]]

-----------------------------------------------------------------------------
(* The controller *)

Send(ev) == inbox' = IF watch.pc = "down" THEN inbox ELSE Append(inbox, ev)

Publish(r) ==
    /\ changes < MaxChanges /\ r \notin truth
    /\ changes' = changes + 1
    /\ truth' = Add(truth, r)
    /\ Send([kind |-> "added", rule |-> r])
    /\ UNCHANGED <<breaks, lapsed, watch, rules, cur, cache, eval>>

Withdraw(r) ==
    /\ changes < MaxChanges /\ r \in truth
    /\ changes' = changes + 1
    /\ truth' = Del(truth, r.id)
    /\ Send([kind |-> "removed", id |-> r.id])
    /\ UNCHANGED <<breaks, lapsed, watch, rules, cur, cache, eval>>

\* A rule passes its expiry time.
Lapse(id) ==
    /\ lapsed' = lapsed \cup {id}
    /\ lapsed' # lapsed
    /\ UNCHANGED <<truth, changes, breaks, inbox, watch, rules, cur, cache, eval>>

-----------------------------------------------------------------------------
(* The watcher *)

\* Watch: the controller answers with its rules, a marker, then changes.
Open ==
    /\ watch.pc = "down"
    /\ watch' = [pc |-> "recv", inSnapshot |-> TRUE, pending |-> {}]
    /\ \E s \in Orders(truth) :
          inbox' = Append([i \in DOMAIN s |-> [kind |-> "added", rule |-> s[i]]],
                          [kind |-> "end"])
    /\ UNCHANGED <<truth, changes, breaks, lapsed, rules, cur, cache, eval>>

\* Recv fails; what was not received is lost, the engine keeps its rules.
Break ==
    /\ watch.pc = "recv" /\ breaks < MaxBreaks
    /\ breaks' = breaks + 1
    /\ watch' = [watch EXCEPT !.pc = "down"]
    /\ inbox' = << >>
    /\ UNCHANGED <<truth, changes, lapsed, rules, cur, cache, eval>>

RecvAdded ==
    /\ watch.pc = "recv" /\ inbox # << >> /\ Head(inbox).kind = "added"
    /\ IF watch.inSnapshot
       THEN /\ watch' = [watch EXCEPT !.pending = Add(@, Head(inbox).rule)]
            /\ UNCHANGED <<rules, cur, cache, eval>>
       ELSE /\ Apply(Add(rules, Head(inbox).rule))
            /\ watch' = [watch EXCEPT !.pc = "flush"]
    /\ inbox' = Tail(inbox)
    /\ UNCHANGED <<truth, changes, breaks, lapsed>>

\* Mutant: the cache is not flushed.
RecvRemovedNoFlush ==
    /\ watch.pc = "recv" /\ inbox # << >> /\ Head(inbox).kind = "removed"
    /\ Apply(Del(rules, Head(inbox).id))
    /\ inbox' = Tail(inbox)
    /\ UNCHANGED <<truth, changes, breaks, lapsed, watch>>

RecvRemoved ==
    /\ watch.pc = "recv" /\ inbox # << >> /\ Head(inbox).kind = "removed"
    /\ Apply(Del(rules, Head(inbox).id))
    /\ watch' = [watch EXCEPT !.pc = "flush"]
    /\ inbox' = Tail(inbox)
    /\ UNCHANGED <<truth, changes, breaks, lapsed>>

\* Mutant: Set does not clear the working set first.
RecvSnapshotEndMerges ==
    /\ watch.pc = "recv" /\ inbox # << >> /\ Head(inbox).kind = "end"
    /\ Apply(watch.pending \cup {r \in rules : \A s \in watch.pending : s.id # r.id})
    /\ watch' = [pc |-> "flush", inSnapshot |-> FALSE, pending |-> {}]
    /\ inbox' = Tail(inbox)
    /\ UNCHANGED <<truth, changes, breaks, lapsed>>

RecvSnapshotEnd ==
    /\ watch.pc = "recv" /\ inbox # << >> /\ Head(inbox).kind = "end"
    /\ Apply(watch.pending)
    /\ watch' = [pc |-> "flush", inSnapshot |-> FALSE, pending |-> {}]
    /\ inbox' = Tail(inbox)
    /\ UNCHANGED <<truth, changes, breaks, lapsed>>

Flush ==
    /\ watch.pc = "flush"
    /\ cache' = << >>
    /\ watch' = [watch EXCEPT !.pc = "recv"]
    /\ UNCHANGED <<truth, changes, breaks, lapsed, inbox, rules, cur, eval>>

-----------------------------------------------------------------------------
(* evaluate *)

NoKey == [caller |-> << >>, target |-> << >>, method |-> << >>]
Idle == [pc |-> "idle", key |-> NoKey, allow |-> FALSE, stale |-> FALSE]

\* Mutant: the expiry of an entry is not looked at.
GetIgnoresTTL(e, k) ==
    /\ eval[e].pc = "idle"
    /\ eval' = [eval EXCEPT ![e] =
          IF k \notin DOMAIN cache
          THEN [@ EXCEPT !.pc = "decide", !.key = k]
          ELSE [@ EXCEPT !.pc = "done", !.key = k, !.allow = cache[k].allow]]
    /\ UNCHANGED <<truth, changes, breaks, lapsed, inbox, watch, rules, cur, cache>>

\* Cache.Get: a live entry answers, an expired one is deleted, else a miss.
Get(e, k) ==
    /\ eval[e].pc = "idle"
    /\ eval' = [eval EXCEPT ![e] =
          IF k \notin DOMAIN cache
          THEN [@ EXCEPT !.pc = "decide", !.key = k]
          ELSE IF cache[k].age < TTL
          THEN [@ EXCEPT !.pc = "done", !.key = k, !.allow = cache[k].allow]
          ELSE [@ EXCEPT !.pc = "evict", !.key = k]]
    /\ UNCHANGED <<truth, changes, breaks, lapsed, inbox, watch, rules, cur, cache>>

\* The write lock is taken anew: what it deletes may be a newer entry.
Evict(e) ==
    /\ eval[e].pc = "evict"
    /\ cache' = Without(cache, {eval[e].key})
    /\ eval' = [eval EXCEPT ![e].pc = "decide"]
    /\ UNCHANGED <<truth, changes, breaks, lapsed, inbox, watch, rules, cur>>

EngineDecide(e) ==
    /\ eval[e].pc = "decide"
    /\ eval' = [eval EXCEPT ![e].pc = "put", ![e].allow = Decide(eval[e].key)]
    /\ UNCHANGED <<truth, changes, breaks, lapsed, inbox, watch, rules, cur, cache>>

\* Mutant: room is made one entry too late.
RoomTooLate == IF Cardinality(DOMAIN cache) <= Capacity THEN {cache} ELSE {<< >>}

\* At capacity: drop what has expired, then if need be an eighth at random.
Room ==
    LET live == Restrict(cache, {k \in DOMAIN cache : cache[k].age < TTL})
    IN  IF Cardinality(DOMAIN cache) < Capacity THEN {cache}
        ELSE IF Cardinality(DOMAIN live) < Capacity THEN {live}
        ELSE {Without(live, D) : D \in kSubset(Max({1, Capacity \div 8}), DOMAIN live)}

CachePut(e) ==
    /\ eval[e].pc = "put"
    /\ \E m \in Room :
          cache' = Put(m, eval[e].key, [allow |-> eval[e].allow, age |-> 0,
                                        stale |-> eval[e].stale, straddled |-> eval[e].stale])
    /\ eval' = [eval EXCEPT ![e].pc = "done", ![e].stale = FALSE]
    /\ UNCHANGED <<truth, changes, breaks, lapsed, inbox, watch, rules, cur>>

Return(e) ==
    /\ eval[e].pc = "done"
    /\ eval' = [eval EXCEPT ![e] = Idle]
    /\ UNCHANGED <<truth, changes, breaks, lapsed, inbox, watch, rules, cur, cache>>

Tick ==
    /\ \E k \in DOMAIN cache : cache[k].age < TTL
    /\ cache' = [k \in DOMAIN cache |-> [cache[k] EXCEPT !.age = Min({@ + 1, TTL})]]
    /\ UNCHANGED <<truth, changes, breaks, lapsed, inbox, watch, rules, cur, eval>>

Init ==
    /\ truth \in SUBSET RulePool
    /\ \A r, s \in truth : r.id = s.id => r = s
    /\ changes = 0 /\ breaks = 0 /\ lapsed = {} /\ inbox = << >>
    /\ watch = [pc |-> "down", inSnapshot |-> TRUE, pending |-> {}]
    /\ rules = {} /\ cur = << >> /\ cache = << >>
    /\ eval = [e \in Evals |-> Idle]

Watcher == Open \/ RecvAdded \/ RecvRemoved \/ RecvSnapshotEnd \/ Flush
Evaluate(e) == Evict(e) \/ EngineDecide(e) \/ CachePut(e) \/ Return(e)

Next ==
    \/ \E r \in RulePool : Publish(r) \/ Withdraw(r) \/ Lapse(r.id)
    \/ Watcher \/ Break \/ Tick
    \/ \E e \in Evals : Evaluate(e) \/ \E k \in Keys : Get(e, k)

Spec == Init /\ [][Next]_vars

\* The watcher retries for ever, evaluations finish, and time passes.
FairSpec == Spec /\ WF_vars(Watcher) /\ WF_vars(Tick) /\ \A e \in Evals : WF_vars(Evaluate(e))
-----------------------------------------------------------------------------
\* However many goroutines Put at once, the cache stays within CacheCapacity.
CacheBounded == Cardinality(DOMAIN cache) <= Capacity

(***************************************************************************)
(* Once the watcher has flushed after a rebuild, a cached result of an     *)
(* older snapshot can only come from an evaluation that decided before the *)
(* rebuild and Put after the flush.                                        *)
(***************************************************************************)
StaleOnlyStraddling ==
    \A k \in DOMAIN cache : cache[k].stale /\ watch.pc # "flush" => cache[k].straddled

\* matchGlob agrees with the meaning of a pattern on every pattern and string.
GlobAsWritten ==
    \A p \in Strings({"a", "b", "*"}, MaxLength), t \in Strings({"a", "b"}, MaxLength) :
        matchGlob(p, t) <=> Matches(p, t)

(***************************************************************************)
(* "Decide returns the first matching rule's decision; if no rule matches, *)
(* the default is deny": whatever order the snapshot lists the rules in,   *)
(* the engine's answer is that of a rule in force whose patterns mean the  *)
(* key, of an exact-target one if there is any, and no when there is none. *)
(* Taking the first occurrence of each piece loses no match.               *)
(***************************************************************************)
EnforcedAsWritten ==
    /\ GlobAsWritten
    /\ \A k \in Keys :
          LET hits == {r \in rules : k \in r.keys /\ r.id \notin lapsed}
              best == {r \in hits : r.exact \/ \A x \in hits : ~x.exact}
          IN  IF best = {} THEN ~Decide(k) ELSE \E r \in best : r.allow = Decide(k)

(***************************************************************************)
(* Once the controller's rules and the stream settle, the engine holds     *)
(* exactly those rules, whatever was lost when the stream broke.           *)
(***************************************************************************)
EngineConverges == <>[](rules = truth)

(***************************************************************************)
(* And from some point on every evaluation returns what the engine decides *)
(* now: neither a racing Put nor an expired rule outlives the TTL.         *)
(***************************************************************************)
EventuallyEnforced ==
    <>[](\A e \in Evals : eval[e].pc = "done" => eval[e].allow = Decide(eval[e].key))
=============================================================================
