------------------------- MODULE PolicyCacheProofs --------------------------
(***************************************************************************)
(* CacheBounded and StaleOnlyStraddling, for any rules, keys, evaluating   *)
(* goroutines, TTL and capacity; Typed says only what keeps the fields of  *)
(* entries, evaluations and the watcher apart.  Then EnforcedAsWritten:    *)
(* matchGlob means what a pattern says, for strings of any length, and the *)
(* engine answers by its best matching rule (RulesKnown).                  *)
(***************************************************************************)
EXTENDS PolicyCache, FiniteSetTheorems, WellFoundedInduction, TLAPS

Entry == [allow : BOOLEAN, age : Nat, stale : BOOLEAN, straddled : BOOLEAN]

Evaluation ==
    [pc : {"idle", "decide", "evict", "put", "done"}, key : Keys \cup {NoKey},
     allow : BOOLEAN, stale : BOOLEAN]
Watching(P) == [pc : {"down", "recv", "flush"}, inSnapshot : BOOLEAN, pending : P]

EvalTyped == eval \in [Evals -> Evaluation]
WatchTyped == \E P : watch \in Watching(P)
Typed == EvalTyped /\ WatchTyped /\ \A k \in DOMAIN cache : cache[k] \in Entry

Bounded == IsFiniteSet(DOMAIN cache) /\ CacheBounded

-----------------------------------------------------------------------------
(* Room *)

\* max(1, capacity/8) entries go, at least one.
LEMMA EighthIsPositive == Max({1, Capacity \div 8}) \in Nat \ {0}
<1>1. Capacity \in Nat /\ Capacity \div 8 \in Nat
  BY PolicyConstants
<1> DEFINE e == Capacity \div 8
<1>2. e \in Nat
  BY <1>1, Zenon
<1> HIDE DEF e
<1>3. \E x \in {1, e} : \A y \in {1, e} : x >= y
  BY <1>2
<1>4. Max({1, e}) \in {1, e} /\ \A y \in {1, e} : Max({1, e}) >= y
  BY <1>3, Zenon DEF Max
<1> QED
  BY <1>2, <1>4 DEF e

\* What Put finds after making room is part of the cache, with a place free.
LEMMA RoomMade ==
    ASSUME Bounded, NEW m \in Room
    PROVE  /\ DOMAIN m \subseteq DOMAIN cache
           /\ \A k \in DOMAIN m : m[k] = cache[k]
           /\ IsFiniteSet(DOMAIN m) /\ Cardinality(DOMAIN m) < Capacity
<1> DEFINE L == {k \in DOMAIN cache : cache[k].age < TTL}
           live == Restrict(cache, L)
<1>1. /\ DOMAIN live = L /\ L \subseteq DOMAIN cache
      /\ \A k \in L : live[k] = cache[k]
  BY Zenon DEF Restrict
<1>2. IsFiniteSet(L) /\ Cardinality(L) <= Cardinality(DOMAIN cache)
  BY FS_Subset, <1>1, Zenon DEF Bounded
<1>3. Cardinality(DOMAIN cache) \in Nat /\ Cardinality(L) \in Nat /\ Capacity \in Nat
  BY <1>2, FS_CardinalityType, PolicyConstants, Zenon DEF Bounded
<1>4. \/ Cardinality(DOMAIN cache) < Capacity /\ m = cache
      \/ Cardinality(DOMAIN live) < Capacity /\ m = live
      \/ m \in {Without(live, D) : D \in kSubset(Max({1, Capacity \div 8}), DOMAIN live)}
  BY Zenon DEF Room
<1> HIDE DEF live, L
<1>5. CASE Cardinality(DOMAIN cache) < Capacity /\ m = cache
  BY <1>5, Zenon DEF Bounded
<1>6. CASE Cardinality(DOMAIN live) < Capacity /\ m = live
  BY <1>1, <1>2, <1>6, Zenon
<1>7. CASE m \in {Without(live, D) : D \in kSubset(Max({1, Capacity \div 8}), DOMAIN live)}
  <2>1. PICK D \in kSubset(Max({1, Capacity \div 8}), DOMAIN live) : m = Without(live, D)
    BY <1>7, Zenon
  <2>2. D \subseteq L /\ Cardinality(D) \in Nat \ {0}
    BY <1>1, EighthIsPositive, Zenon DEF kSubset
  <2>3. DOMAIN m = L \ D /\ \A k \in L \ D : m[k] = cache[k]
    BY <1>1, <2>1, Zenon DEF Without, Restrict
  <2>4. IsFiniteSet(L \ D) /\ Cardinality(L \ D) = Cardinality(L) - Cardinality(D)
    <3>1. L \cap D = D
      BY <2>2, Zenon
    <3> QED
      BY <1>2, <3>1, FS_Difference, Zenon
  <2>5. Cardinality(L \ D) < Capacity
    BY <1>2, <1>3, <2>2, <2>4 DEF Bounded, CacheBounded
  <2> QED
    BY <1>1, <2>3, <2>4, <2>5, Zenon
<1> QED
  BY <1>4, <1>5, <1>6, <1>7, Zenon

IInv == Typed /\ Bounded /\ StaleOnlyStraddling

\* It holds with an empty cache.
LEMMA InitIInv == Init => IInv
<1> SUFFICES ASSUME Init PROVE IInv
  OBVIOUS
<1>1. DOMAIN cache = {} /\ Cardinality({}) = 0 /\ IsFiniteSet({}) /\ Capacity \in Nat
  BY FS_EmptySet, PolicyConstants DEF Init
<1>2. EvalTyped
  BY Zenon DEF Init, Idle, EvalTyped, Evaluation
<1>3. watch \in Watching({{}})
  BY Zenon DEF Init, Watching
<1>4. Typed
  BY <1>1, <1>2, <1>3, Zenon DEF Typed, WatchTyped
<1>5. Bounded /\ StaleOnlyStraddling
  BY <1>1 DEF Bounded, CacheBounded, StaleOnlyStraddling
<1> QED
  BY <1>4, <1>5, Zenon DEF IInv

-----------------------------------------------------------------------------
(* The steps *)

\* A step that adds no entry cannot overfill the cache.
LEMMA NoEntryAdded ==
    ASSUME IInv, EvalTyped', WatchTyped', DOMAIN cache' \subseteq DOMAIN cache,
           \A k \in DOMAIN cache' : cache'[k] \in Entry,
           StaleOnlyStraddling'
    PROVE  IInv'
<1>1. IsFiniteSet(DOMAIN cache') /\ Cardinality(DOMAIN cache') <= Cardinality(DOMAIN cache)
  BY FS_Subset, Zenon DEF IInv, Bounded
<1>2. Cardinality(DOMAIN cache') \in Nat /\ Cardinality(DOMAIN cache) \in Nat /\ Capacity \in Nat
  BY <1>1, FS_CardinalityType, PolicyConstants, Zenon DEF IInv, Bounded
<1>3. Bounded'
  BY <1>1, <1>2 DEF IInv, Bounded, CacheBounded
<1> QED
  BY <1>3, Zenon DEF IInv, Typed

\* Nor can one that leaves it alone, outside a flush, make an entry stale.
LEMMA CacheAlone ==
    ASSUME IInv, EvalTyped', WatchTyped', UNCHANGED cache,
           watch'.pc = watch.pc \/ watch.pc # "flush"
    PROVE  IInv'
<1>1. StaleOnlyStraddling'
  BY Zenon DEF IInv, StaleOnlyStraddling
<1> QED
  BY <1>1, NoEntryAdded, Zenon DEF IInv, Typed

\* A rebuild marks every entry stale, and the watcher is about to flush.
LEMMA RebuildStep ==
    ASSUME IInv, NEW S, Apply(S), WatchTyped', watch'.pc = "flush"
    PROVE  IInv'
<1>1. EvalTyped'
  BY Zenon DEF IInv, Typed, EvalTyped, Evaluation, Apply
<1>2. DOMAIN cache' = DOMAIN cache /\ \A k \in DOMAIN cache' : cache'[k] \in Entry
  BY Zenon DEF IInv, Typed, Entry, Apply
<1>3. StaleOnlyStraddling'
  BY Zenon DEF StaleOnlyStraddling
<1> QED
  BY <1>1, <1>2, <1>3, NoEntryAdded, Zenon

\* The watcher, which rebuilds, flushes and loses its stream.
LEMMA WatcherStep ==
    ASSUME IInv, Watcher \/ Break
    PROVE  IInv'
<1>0. EvalTyped
  BY Zenon DEF IInv, Typed
<1>1. PICK P : watch \in Watching(P)
  BY Zenon DEF IInv, Typed, WatchTyped
<1>2. CASE Open
  <2>1. watch' \in Watching({{}}) /\ UNCHANGED <<cache, eval>> /\ watch.pc # "flush"
    BY <1>2, Zenon DEF Open, Watching
  <2> QED
    BY <1>0, <2>1, CacheAlone, Zenon DEF EvalTyped, WatchTyped
<1>3. CASE Break
  <2>1. watch' \in Watching(P) /\ UNCHANGED <<cache, eval>> /\ watch.pc # "flush"
    BY <1>1, <1>3, Zenon DEF Break, Watching
  <2> QED
    BY <1>0, <2>1, CacheAlone, Zenon DEF EvalTyped, WatchTyped
<1>4. CASE RecvAdded
  <2>1. CASE watch.inSnapshot
    <3> DEFINE Q == Add(watch.pending, Head(inbox).rule)
    <3>1. watch' = [watch EXCEPT !.pending = Q] /\ UNCHANGED <<cache, eval>> /\ watch.pc = "recv"
      BY <1>4, <2>1, Zenon DEF RecvAdded
    <3> HIDE DEF Q
    <3>2. watch' \in Watching({Q}) /\ watch.pc # "flush"
      BY <1>1, <3>1, Zenon DEF Watching
    <3> QED
      BY <1>0, <3>1, <3>2, CacheAlone, Zenon DEF EvalTyped, WatchTyped
  <2>2. CASE ~watch.inSnapshot
    <3>1. Apply(Add(rules, Head(inbox).rule)) /\ watch' = [watch EXCEPT !.pc = "flush"]
      BY <1>4, <2>2, Zenon DEF RecvAdded
    <3>2. watch' \in Watching(P) /\ watch'.pc = "flush"
      BY <1>1, <3>1, Zenon DEF Watching
    <3> QED
      BY <3>1, <3>2, RebuildStep, Zenon DEF WatchTyped
  <2> QED
    BY <2>1, <2>2, Zenon
<1>5. CASE RecvRemoved
  <2>1. Apply(Del(rules, Head(inbox).id)) /\ watch' = [watch EXCEPT !.pc = "flush"]
    BY <1>5, Zenon DEF RecvRemoved
  <2>2. watch' \in Watching(P) /\ watch'.pc = "flush"
    BY <1>1, <2>1, Zenon DEF Watching
  <2> QED
    BY <2>1, <2>2, RebuildStep, Zenon DEF WatchTyped
<1>6. CASE RecvSnapshotEnd
  <2>1. Apply(watch.pending) /\ watch' = [pc |-> "flush", inSnapshot |-> FALSE, pending |-> {}]
    BY <1>6, Zenon DEF RecvSnapshotEnd
  <2>2. watch' \in Watching({{}}) /\ watch'.pc = "flush"
    BY <2>1, Zenon DEF Watching
  <2> QED
    BY <2>1, <2>2, RebuildStep, Zenon DEF WatchTyped
<1>7. CASE Flush
  <2>1. DOMAIN cache' = {} /\ UNCHANGED eval
    BY <1>7 DEF Flush
  <2>2. watch' \in Watching(P)
    BY <1>1, <1>7, Zenon DEF Flush, Watching
  <2>3. StaleOnlyStraddling' /\ \A k \in DOMAIN cache' : cache'[k] \in Entry
    BY <2>1, Zenon DEF StaleOnlyStraddling
  <2>4. EvalTyped' /\ WatchTyped' /\ DOMAIN cache' \subseteq DOMAIN cache
    BY <1>0, <2>1, <2>2, Zenon DEF EvalTyped, WatchTyped
  <2> QED
    BY <2>3, <2>4, NoEntryAdded, Zenon
<1> QED
  BY <1>2, <1>3, <1>4, <1>5, <1>6, <1>7, Zenon DEF Watcher

\* Put, which makes room first: the new entry is the only one that may be stale
\* after a flush, and it is then marked as straddling the rebuild.
LEMMA PutStep ==
    ASSUME IInv, NEW e \in Evals, CachePut(e)
    PROVE  IInv'
<1>0. EvalTyped /\ WatchTyped /\ UNCHANGED watch
  BY Zenon DEF IInv, Typed, CachePut
<1> DEFINE k == eval[e].key
           new == [allow |-> eval[e].allow, age |-> 0,
                   stale |-> eval[e].stale, straddled |-> eval[e].stale]
<1>1. PICK m \in Room : cache' = Put(m, k, new)
  BY Zenon DEF CachePut
<1>2. /\ DOMAIN m \subseteq DOMAIN cache
      /\ \A x \in DOMAIN m : m[x] = cache[x]
      /\ IsFiniteSet(DOMAIN m) /\ Cardinality(DOMAIN m) < Capacity
  BY RoomMade, Zenon DEF IInv
<1>3. new \in Entry /\ (new.stale => new.straddled)
  BY <1>0, Zenon DEF EvalTyped, Evaluation, Entry
<1> HIDE DEF k, new
<1>4. /\ DOMAIN cache' = DOMAIN m \cup {k}
      /\ \A x \in DOMAIN cache' : cache'[x] = new \/ (x \in DOMAIN cache /\ cache'[x] = cache[x])
  BY <1>1, <1>2, Zenon DEF Put
<1>5. EvalTyped'
  BY <1>0, Zenon DEF CachePut, EvalTyped, Evaluation
<1>6. Bounded'
  <2>1. /\ IsFiniteSet(DOMAIN m \cup {k})
        /\ Cardinality(DOMAIN m \cup {k}) <= Cardinality(DOMAIN m) + 1
    <3>1. Cardinality(DOMAIN m) \in Nat
      BY <1>2, FS_CardinalityType, Zenon
    <3> QED
      BY <1>2, <3>1, FS_AddElement
  <2>2. Cardinality(DOMAIN m) \in Nat /\ Cardinality(DOMAIN m \cup {k}) \in Nat /\ Capacity \in Nat
    BY <1>2, <2>1, FS_CardinalityType, PolicyConstants, Zenon
  <2> QED
    BY <1>2, <1>4, <2>1, <2>2 DEF Bounded, CacheBounded
<1>7. \A x \in DOMAIN cache' : cache'[x] \in Entry
  BY <1>3, <1>4, Zenon DEF IInv, Typed
<1>8. StaleOnlyStraddling'
  BY <1>0, <1>3, <1>4, Zenon DEF IInv, StaleOnlyStraddling
<1> QED
  BY <1>0, <1>5, <1>6, <1>7, <1>8, Zenon DEF IInv, Typed, WatchTyped

\* The other steps of an evaluation.
LEMMA EvaluateStep ==
    ASSUME IInv, NEW e \in Evals,
           Evict(e) \/ EngineDecide(e) \/ Return(e) \/ \E k \in Keys : Get(e, k)
    PROVE  IInv'
<1>0. EvalTyped /\ WatchTyped' /\ UNCHANGED watch
  BY Zenon DEF IInv, Typed, WatchTyped, Evict, EngineDecide, Return, Get
<1>1. CASE Evict(e)
  <2>1. EvalTyped'
    BY <1>0, <1>1, Zenon DEF Evict, EvalTyped, Evaluation
  <2>2. DOMAIN cache' \subseteq DOMAIN cache /\ \A x \in DOMAIN cache' : cache'[x] = cache[x]
    BY <1>1, Zenon DEF Evict, Without, Restrict
  <2>3. StaleOnlyStraddling' /\ \A x \in DOMAIN cache' : cache'[x] \in Entry
    BY <1>0, <2>2, Zenon DEF IInv, Typed, StaleOnlyStraddling
  <2> QED
    BY <1>0, <2>1, <2>2, <2>3, NoEntryAdded, Zenon
<1>2. CASE EngineDecide(e)
  <2>1. Decide(eval[e].key) \in BOOLEAN
    BY Zenon DEF Decide
  <2> DEFINE new == [eval[e] EXCEPT !.pc = "put", !.allow = Decide(eval[e].key)]
  <2>2. eval' = [eval EXCEPT ![e] = new]
    BY <1>0, <1>2, Zenon DEF EngineDecide, EvalTyped
  <2>3. new \in Evaluation
    BY <1>0, <2>1, Zenon DEF EvalTyped, Evaluation
  <2> HIDE DEF new
  <2>4. EvalTyped'
    BY <1>0, <2>2, <2>3, Zenon DEF EvalTyped
  <2> QED
    BY <1>0, <1>2, <2>4, CacheAlone, Zenon DEF EngineDecide
<1>3. CASE Return(e)
  <2>1. EvalTyped'
    BY <1>0, <1>3, Zenon DEF Return, Idle, EvalTyped, Evaluation
  <2> QED
    BY <1>0, <1>3, <2>1, CacheAlone, Zenon DEF Return
<1>4. ASSUME NEW k \in Keys, Get(e, k) PROVE IInv'
  <2>1. \A x \in DOMAIN cache : cache[x].allow \in BOOLEAN
    BY Zenon DEF IInv, Typed, Entry
  <2>2. eval[e] \in Evaluation
    BY <1>0, Zenon DEF EvalTyped
  <2>3. PICK new \in Evaluation : eval' = [eval EXCEPT ![e] = new]
    <3>1. CASE k \notin DOMAIN cache
      BY <1>4, <2>2, <3>1, Zenon DEF Get, Evaluation
    <3>2. CASE k \in DOMAIN cache /\ cache[k].age < TTL
      BY <1>4, <2>1, <2>2, <3>2, Zenon DEF Get, Evaluation
    <3>3. CASE k \in DOMAIN cache /\ ~(cache[k].age < TTL)
      BY <1>4, <2>2, <3>3, Zenon DEF Get, Evaluation
    <3> QED
      BY <3>1, <3>2, <3>3, Zenon
  <2>4. EvalTyped'
    BY <1>0, <2>3, Zenon DEF EvalTyped
  <2> QED
    BY <1>0, <1>4, <2>4, CacheAlone, Zenon DEF Get
<1> QED
  BY <1>1, <1>2, <1>3, <1>4, Zenon

\* Time ages the entries and nothing else.
LEMMA TickStep ==
    ASSUME IInv, Tick
    PROVE  IInv'
<1>1. EvalTyped' /\ WatchTyped' /\ UNCHANGED watch
  BY Zenon DEF IInv, Typed, EvalTyped, WatchTyped, Tick
<1>2. ASSUME NEW a \in Nat PROVE Min({a + 1, TTL}) \in Nat
  <2>1. TTL \in Nat /\ a + 1 \in Nat
    BY PolicyConstants
  <2>2. \E x \in {a + 1, TTL} : \A y \in {a + 1, TTL} : x =< y
    BY <2>1
  <2>3. Min({a + 1, TTL}) \in {a + 1, TTL}
    BY <2>2, Zenon DEF Min
  <2> QED
    BY <2>1, <2>3, Zenon
<1>3. /\ DOMAIN cache' = DOMAIN cache
      /\ \A k \in DOMAIN cache : cache'[k] = [cache[k] EXCEPT !.age = Min({cache[k].age + 1, TTL})]
  BY Zenon DEF Tick
<1>4. ASSUME NEW k \in DOMAIN cache
      PROVE  /\ cache'[k] \in Entry /\ cache'[k].stale = cache[k].stale
             /\ cache'[k].straddled = cache[k].straddled
  <2>1. cache[k] \in Entry
    BY Zenon DEF IInv, Typed
  <2>2. Min({cache[k].age + 1, TTL}) \in Nat
    BY <1>2, <2>1, Zenon DEF Entry
  <2> QED
    BY <1>3, <2>1, <2>2, Zenon DEF Entry
<1>5. StaleOnlyStraddling'
  BY <1>1, <1>3, <1>4, Zenon DEF IInv, StaleOnlyStraddling
<1> QED
  BY <1>1, <1>3, <1>4, <1>5, NoEntryAdded, Zenon

\* Every step preserves the invariant.
LEMMA NextIInv == IInv /\ [Next]_vars => IInv'
<1> SUFFICES ASSUME IInv, [Next]_vars PROVE IInv'
  OBVIOUS
<1>1. ASSUME UNCHANGED <<watch, cache, eval>> PROVE IInv'
  BY <1>1, CacheAlone, Zenon DEF IInv, Typed, EvalTyped, WatchTyped
<1>2. ASSUME NEW r \in RulePool, Publish(r) \/ Withdraw(r) \/ Lapse(r.id) PROVE IInv'
  BY <1>1, <1>2, Zenon DEF Publish, Withdraw, Lapse
<1>3. CASE UNCHANGED vars
  BY <1>1, <1>3, Zenon DEF vars
<1>4. ASSUME NEW e \in Evals, Evaluate(e) \/ \E k \in Keys : Get(e, k) PROVE IInv'
  BY <1>4, PutStep, EvaluateStep, Zenon DEF Evaluate
<1> QED
  BY <1>2, <1>3, <1>4, WatcherStep, TickStep, Zenon DEF Next

\* So it always holds.
LEMMA AlwaysIInv == Spec => []IInv
BY InitIInv, NextIInv, PTL DEF Spec

-----------------------------------------------------------------------------
(***************************************************************************)
(* The cache stays within CacheCapacity: whatever expires and is evicted   *)
(* meanwhile, Put drops at least one entry of a full cache, also when the  *)
(* capacity is below eight.                                                *)
(***************************************************************************)
THEOREM CacheStaysBounded == Spec => []CacheBounded
<1>1. IInv => CacheBounded
  BY Zenon DEF IInv, Bounded
<1> QED
  BY <1>1, AlwaysIInv, PTL

(***************************************************************************)
(* Flushing after each rebuild leaves nothing of an older snapshot in the  *)
(* cache but what an evaluate that straddled the rebuild puts there later. *)
(***************************************************************************)
THEOREM FlushLeavesStraddlers == Spec => []StaleOnlyStraddling
<1>1. IInv => StaleOnlyStraddling
  BY Zenon DEF IInv
<1> QED
  BY <1>1, AlwaysIInv, PTL

-----------------------------------------------------------------------------
(* Induction over the naturals, by least counterexample *)

\* A nonempty set of numbers has a least member.
LEMMA NatMin == ASSUME NEW T, T \subseteq Nat, T # {} PROVE \E x \in T : \A y \in T : x <= y
<1> DEFINE R == OpToRel(<,Nat)
<1>1. IsWellFoundedOn(R, Nat)
  BY NatLessThanWellFounded, Zenon
<1>2. \A x, y \in Nat : x < y => <<x, y>> \in R
  BY Zenon DEF OpToRel
<1> HIDE DEF R
<1>3. PICK x \in T : \A y \in T : ~(<<y, x>> \in R)
  BY <1>1, WFMin, Zenon
<1>4. ASSUME NEW y \in T PROVE x <= y
  <2>1. x \in Nat /\ y \in Nat /\ ~(y < x)
    BY <1>2, <1>3, Zenon
  <2> QED BY <2>1
<1> QED BY <1>4, Zenon

\* Induction, as a set that holds zero and every successor: for the loops of
\* matchGlob and strings.Split.
LEMMA Induction == 
  ASSUME NEW T, 0 \in T, \A n \in Nat : n \in T => n+1 \in T
  PROVE \A n \in Nat : n \in T
<1> DEFINE B == {n \in Nat : n \notin T}
<1> SUFFICES ASSUME B # {} PROVE FALSE
  OBVIOUS
<1>1. B \subseteq Nat
  OBVIOUS
<1>2. PICK m \in B : \A y \in B : m <= y
  BY <1>1, NatMin, Zenon
<1>3. m \in Nat /\ m # 0 /\ m - 1 \in Nat /\ m - 1 \notin B
  BY <1>2
<1> QED BY <1>3

Unfolds(f, N, V, v0, G) ==
    f \in [0 .. N -> V] /\ f[0] = v0 /\ \A i \in 1 .. N : f[i] = G[<<i, f[i - 1]>>]

\* A loop of N turns over values of V has a run: the recursive function exists.
LEMMA Recursion ==
    ASSUME NEW N \in Nat, NEW V, NEW v0 \in V, NEW G \in [(1 .. N) \X V -> V]
    PROVE  \E f : Unfolds(f, N, V, v0, G)
<1> DEFINE Good(n, f) == f[0] = v0 /\ \A i \in 1 .. n : f[i] = G[<<i, f[i - 1]>>]
           T == {n \in Nat : n <= N => \E f \in [0 .. n -> V] : Good(n, f)}
<1>1. 0 \in T
  <2> DEFINE f == [i \in 0 .. 0 |-> v0]
  <2>1. f \in [0 .. 0 -> V] /\ Good(0, f)
    OBVIOUS
  <2> QED BY <2>1, Zenon
<1>2. ASSUME NEW n \in Nat, n \in T PROVE n + 1 \in T
  <2> SUFFICES ASSUME n + 1 <= N PROVE \E f \in [0 .. n + 1 -> V] : Good(n + 1, f)
    OBVIOUS
  <2>1. PICK g \in [0 .. n -> V] : Good(n, g)
    BY <1>2
  <2> DEFINE f == [i \in 0 .. n + 1 |-> IF i = n + 1 THEN G[<<n + 1, g[n]>>] ELSE g[i]]
  <2>2. g[n] \in V /\ G[<<n + 1, g[n]>>] \in V
    OBVIOUS
  <2>3. f \in [0 .. n + 1 -> V]
    BY <2>2
  <2>4. f[0] = v0
    BY <2>1
  <2>5. ASSUME NEW i \in 1 .. n + 1 PROVE f[i] = G[<<i, f[i - 1]>>]
    <3>1. CASE i = n + 1
      <4>1. i \in 0 .. n + 1 /\ n \in 0 .. n + 1 /\ n # n + 1 /\ i - 1 = n
        BY <3>1
      <4>2. f[i] = G[<<n + 1, g[n]>>] /\ f[n] = g[n]
        BY <3>1, <4>1, Zenon
      <4> QED BY <3>1, <4>1, <4>2, Zenon
    <3>2. CASE i # n + 1
      <4>1. i \in 1 .. n /\ i \in 0 .. n + 1 /\ i - 1 \in 0 .. n + 1 /\ i - 1 # n + 1
        BY <3>2
      <4>2. f[i] = g[i] /\ f[i - 1] = g[i - 1]
        BY <3>2, <4>1, Zenon
      <4> QED BY <2>1, <4>1, <4>2, Zenon
    <3> QED BY <3>1, <3>2, Zenon
  <2> QED BY <2>3, <2>4, <2>5, Zenon
<1> HIDE DEF T
<1>3. \A n \in Nat : n \in T
  BY <1>1, <1>2, Induction, Zenon
<1>4. \E f \in [0 .. N -> V] : Good(N, f)
  BY <1>3 DEF T
<1> QED BY <1>4, Zenon DEF Unfolds

-----------------------------------------------------------------------------
(* matchGlob *)

\* One step of Matches: what one more character of the pattern means.
MeansNext(p, s, i, v) ==
    IF p[i] = "*" THEN {j \in 0 .. Len(s) : \E k \in v : k <= j}
    ELSE {j \in 1 .. Len(s) : j - 1 \in v /\ s[j] = p[i]}

\* P[i]: the lengths of the prefixes of s that i characters of p mean.
PrefixMeanings(p, s, P) ==
    P[0] = {0} /\ \A i \in 1 .. Len(p) : P[i] = MeansNext(p, s, i, P[i - 1])

\* Matches reads its answer off such a P.
LEMMA MeansStep ==
    ASSUME NEW p, NEW s, Len(p) \in Nat, Len(s) \in Nat
    PROVE  \E P : (Matches(p, s) <=> Len(s) \in P[Len(p)]) /\ PrefixMeanings(p, s, P)
<1> DEFINE N == Len(p)
           V == SUBSET (0 .. Len(s))
           Step(i, v) == MeansNext(p, s, i, v)
           G == [x \in (1 .. N) \X V |-> Step(x[1], x[2])]
           Body(F) == [i \in 0 .. N |-> IF i = 0 THEN {0} ELSE Step(i, F[i - 1])]
           F == CHOOSE F : F = Body(F)
<1>1. N \in Nat /\ {0} \in V
  OBVIOUS
<1>2. \A i \in 1 .. N, v \in V : Step(i, v) \in V
  BY DEF MeansNext
<1>3. Matches(p, s) <=> Len(s) \in F[N]
  BY Zenon DEF Matches, MeansNext
<1> HIDE DEF N, Step, V
<1>0. G \in [(1 .. N) \X V -> V]
  BY <1>2, Zenon
<1>4. \A i \in 1 .. N, v \in V : G[<<i, v>>] = Step(i, v)
  BY Zenon
<1> HIDE DEF G, F, Body
<1>11. PICK f : Unfolds(f, N, V, {0}, G)
  BY <1>0, <1>1, Recursion, Zenon
<1>5. f \in [0 .. N -> V] /\ f[0] = {0} /\ \A i \in 1 .. N : f[i] = G[<<i, f[i - 1]>>]
  BY <1>11, Zenon DEF Unfolds
<1>6. ASSUME NEW i \in 0 .. N
      PROVE  f[i] = IF i = 0 THEN {0} ELSE Step(i, f[i - 1])
  <2>1. CASE i = 0
    BY <1>5, <2>1, Zenon
  <2>2. CASE i # 0
    <3>1. i \in 1 .. N /\ i - 1 \in 0 .. N
      BY <1>1, <2>2
    <3> QED
      BY <1>4, <1>5, <2>2, <3>1, Zenon
  <2> QED
    BY <2>1, <2>2, Zenon
<1>7. f = Body(f)
  BY <1>5, <1>6, Zenon DEF Body
<1>8. F = Body(F)
  BY <1>7, Zenon DEF F
<1>9. 0 \in 0 .. N /\ \A i \in 1 .. N : i \in 0 .. N /\ i # 0
  BY <1>1
<1>10. F[0] = {0} /\ \A i \in 1 .. N : F[i] = Step(i, F[i - 1])
  BY <1>8, <1>9, Zenon DEF Body
<1> QED
  BY <1>3, <1>10, Zenon DEF N, Step, PrefixMeanings

\* One step of strings.Split: a star opens a piece, a character extends one.
SplitNext(p, i, w) ==
    IF p[i] = "*" THEN Append(w, << >>) ELSE [w EXCEPT ![Len(w)] = Append(@, p[i])]

\* Split takes one such step for each character of the pattern.
LEMMA SplitStep ==
    ASSUME NEW C, NEW p \in Seq(C)
    PROVE  \E F : /\ Split(p) = F[Len(p)]
                  /\ F[0] = << << >> >>
                  /\ \A i \in 1 .. Len(p) : F[i] = SplitNext(p, i, F[i - 1])
<1> DEFINE N == Len(p)
           V == Seq(Seq(C)) \ {<< >>}
           Step(i, w) == SplitNext(p, i, w)
           G == [x \in (1 .. N) \X V |-> Step(x[1], x[2])]
           Body(F) == [i \in 0 .. N |-> IF i = 0 THEN << << >> >> ELSE Step(i, F[i - 1])]
           F == CHOOSE F : F = Body(F)
<1>1. N \in Nat /\ << << >> >> \in V
  OBVIOUS
<1>2. ASSUME NEW i \in 1 .. N, NEW w \in V PROVE Step(i, w) \in V
  <2>1. w \in Seq(Seq(C)) /\ w # << >> /\ Len(w) \in 1 .. Len(w) /\ p[i] \in C
    OBVIOUS
  <2>2. CASE p[i] = "*"
    BY <2>1, <2>2 DEF SplitNext
  <2>3. CASE p[i] # "*"
    <3> DEFINE q == Append(w[Len(w)], p[i])
    <3>1. q \in Seq(C)
      BY <2>1
    <3> HIDE DEF q
    <3>2. [w EXCEPT ![Len(w)] = q] \in V
      BY <2>1, <3>1
    <3>3. Step(i, w) = [w EXCEPT ![Len(w)] = q]
      BY <2>3, Zenon DEF SplitNext, q
    <3> QED BY <3>2, <3>3, Zenon
  <2> QED BY <2>2, <2>3, Zenon
<1>3. Split(p) = F[N]
  BY Zenon DEF Split, SplitNext
<1> HIDE DEF N, Step, V
<1>0. G \in [(1 .. N) \X V -> V]
  BY <1>2, Zenon
<1>4. \A i \in 1 .. N, v \in V : G[<<i, v>>] = Step(i, v)
  BY Zenon
<1> HIDE DEF G, F, Body
<1>11. PICK f : Unfolds(f, N, V, << << >> >>, G)
  BY <1>0, <1>1, Recursion, Zenon
<1>5. f \in [0 .. N -> V] /\ f[0] = << << >> >> /\ \A i \in 1 .. N : f[i] = G[<<i, f[i - 1]>>]
  BY <1>11, Zenon DEF Unfolds
<1>6. ASSUME NEW i \in 0 .. N
      PROVE  f[i] = IF i = 0 THEN << << >> >> ELSE Step(i, f[i - 1])
  <2>1. CASE i = 0
    BY <1>5, <2>1, Zenon
  <2>2. CASE i # 0
    <3>1. i \in 1 .. N /\ i - 1 \in 0 .. N
      BY <1>1, <2>2
    <3> QED
      BY <1>4, <1>5, <2>2, <3>1, Zenon
  <2> QED
    BY <2>1, <2>2, Zenon
<1>7. f = Body(f)
  BY <1>5, <1>6, Zenon DEF Body
<1>8. F = Body(F)
  BY <1>7, Zenon DEF F
<1>9. 0 \in 0 .. N /\ \A i \in 1 .. N : i \in 0 .. N /\ i # 0
  BY <1>1
<1>10. F[0] = << << >> >> /\ \A i \in 1 .. N : F[i] = Step(i, F[i - 1])
  BY <1>8, <1>9, Zenon DEF Body
<1> QED
  BY <1>3, <1>10, Zenon DEF N, Step

\* The first piece, which HasPrefix wants at the start; and a middle piece,
\* which Index finds after any of the lengths R.
AtStart(q, s) == IF Occurs(q, s, 0) THEN {Len(q)} ELSE {}
AfterEach(q, s, R) == UNION {AfterFirst(q, s, r) : r \in R}

\* U[k]: what the first piece and k middle pieces take of s.
TakenUpto(parts, s, U) ==
    /\ U[0] = AtStart(parts[1], s)
    /\ \A k \in 1 .. Len(parts) - 2 : U[k] = AfterEach(parts[k + 1], s, U[k - 1])

\* The loop of matchGlob over the middle pieces computes such a U.
LEMMA TakenStep ==
    ASSUME NEW C, NEW parts \in Seq(Seq(C)), NEW s \in Seq(C), Len(parts) >= 2
    PROVE  \E U : Taken(parts, s) = U[Len(parts) - 2] /\ TakenUpto(parts, s, U)
<1> DEFINE N == Len(parts) - 2
           V == SUBSET Nat
           Step(k, R) == AfterEach(parts[k + 1], s, R)
           v0 == AtStart(parts[1], s)
           G == [x \in (1 .. N) \X V |-> Step(x[1], x[2])]
           Body(F) == [k \in 0 .. N |-> IF k = 0 THEN v0 ELSE Step(k, F[k - 1])]
           F == CHOOSE F : F = Body(F)
<1>1. N \in Nat /\ v0 \in V
  BY DEF AtStart
<1>2. ASSUME NEW k \in 1 .. N, NEW R \in V PROVE Step(k, R) \in V
  <2>1. ASSUME NEW r \in R PROVE AfterFirst(parts[k + 1], s, r) \subseteq Nat
    <3>1. parts[k + 1] \in Seq(C) /\ Len(parts[k + 1]) \in Nat /\ r \in Nat
      BY <1>1
    <3> QED BY <3>1 DEF AfterFirst
  <2> QED BY <2>1, Zenon DEF AfterEach
<1>3. Taken(parts, s) = F[N]
  BY Zenon DEF Taken, AfterEach, AtStart
<1> HIDE DEF N, Step, V, v0
<1>0. G \in [(1 .. N) \X V -> V]
  BY <1>2, Zenon
<1>4. \A i \in 1 .. N, v \in V : G[<<i, v>>] = Step(i, v)
  BY Zenon
<1> HIDE DEF G, F, Body
<1>11. PICK f : Unfolds(f, N, V, v0, G)
  BY <1>0, <1>1, Recursion, Zenon
<1>5. f \in [0 .. N -> V] /\ f[0] = v0 /\ \A i \in 1 .. N : f[i] = G[<<i, f[i - 1]>>]
  BY <1>11, Zenon DEF Unfolds
<1>6. ASSUME NEW i \in 0 .. N
      PROVE  f[i] = IF i = 0 THEN v0 ELSE Step(i, f[i - 1])
  <2>1. CASE i = 0
    BY <1>5, <2>1, Zenon
  <2>2. CASE i # 0
    <3>1. i \in 1 .. N /\ i - 1 \in 0 .. N
      BY <1>1, <2>2
    <3> QED
      BY <1>4, <1>5, <2>2, <3>1, Zenon
  <2> QED
    BY <2>1, <2>2, Zenon
<1>7. f = Body(f)
  BY <1>5, <1>6, Zenon DEF Body
<1>8. F = Body(F)
  BY <1>7, Zenon DEF F
<1>9. 0 \in 0 .. N /\ \A i \in 1 .. N : i \in 0 .. N /\ i # 0
  BY <1>1
<1>10. F[0] = v0 /\ \A i \in 1 .. N : F[i] = Step(i, F[i - 1])
  BY <1>8, <1>9, Zenon DEF Body
<1> QED
  BY <1>3, <1>10, Zenon DEF N, Step, v0, TakenUpto

\* The pieces w put together with a star between any two are the first i
\* characters of p; the k-th star is at cut[k], and no piece holds a star.
Cuts(p, C, i, w, cut) ==
    /\ w \in Seq(Seq(C)) /\ w # << >>
    /\ cut \in [0 .. Len(w) -> Nat] /\ cut[0] = 0 /\ cut[Len(w)] = i + 1
    /\ \A k \in 1 .. Len(w) :
          /\ cut[k] = cut[k - 1] + Len(w[k]) + 1
          /\ \A x \in 1 .. Len(w[k]) : p[cut[k - 1] + x] = w[k][x] /\ w[k][x] # "*"
    /\ \A k \in 1 .. Len(w) - 1 : p[cut[k]] = "*"

\* A star of the pattern ends the last piece of Split and opens an empty one.
LEMMA CutStar ==
    ASSUME NEW C, NEW p, NEW i \in Nat, NEW w, NEW cut, Cuts(p, C, i, w, cut), p[i + 1] = "*"
    PROVE  \E c : Cuts(p, C, i + 1, Append(w, << >>), c)
<1> DEFINE K == Len(w)
           u == Append(w, << >>)
           c == [k \in 0 .. K + 1 |-> IF k = K + 1 THEN i + 2 ELSE cut[k]]
<1>1. w \in Seq(Seq(C)) /\ K \in Nat /\ K >= 1 /\ cut \in [0 .. K -> Nat] /\ cut[0] = 0 /\ cut[K] = i + 1
  BY DEF Cuts
<1>2. u \in Seq(Seq(C)) /\ Len(u) = K + 1 /\ u # << >> /\ u[K + 1] = << >> /\ \A k \in 1 .. K : u[k] = w[k]
  BY <1>1
<1>3. /\ \A k \in 1 .. K : cut[k] = cut[k - 1] + Len(w[k]) + 1
      /\ \A k \in 1 .. K : \A x \in 1 .. Len(w[k]) : p[cut[k - 1] + x] = w[k][x] /\ w[k][x] # "*"
      /\ \A k \in 1 .. K - 1 : p[cut[k]] = "*"
  BY Zenon DEF Cuts
<1> HIDE DEF u, K
<1>4. c[K + 1] = i + 2 /\ \A k \in 0 .. K : c[k] = cut[k]
  BY <1>1
<1>5. c \in [0 .. K + 1 -> Nat]
  BY <1>1
<1> HIDE DEF c
<1>6. \A k \in 1 .. K + 1 : (k \in 1 .. K /\ k \in 0 .. K /\ k - 1 \in 0 .. K) \/ k = K + 1
  BY <1>1
<1>7. 0 \in 0 .. K /\ K \in 0 .. K /\ (K + 1) - 1 = K /\ K + 1 \in 0 .. K + 1
  BY <1>1
<1>8. ASSUME NEW k \in 1 .. K + 1
      PROVE  /\ c[k] = c[k - 1] + Len(u[k]) + 1
             /\ \A x \in 1 .. Len(u[k]) : p[c[k - 1] + x] = u[k][x] /\ u[k][x] # "*"
  <2>1. CASE k \in 1 .. K /\ k \in 0 .. K /\ k - 1 \in 0 .. K
    <3>1. c[k] = cut[k] /\ c[k - 1] = cut[k - 1] /\ u[k] = w[k]
      BY <1>2, <1>4, <2>1, Zenon
    <3>2. cut[k] = cut[k - 1] + Len(w[k]) + 1
      BY <1>3, <2>1, Zenon
    <3>3. \A x \in 1 .. Len(w[k]) : p[cut[k - 1] + x] = w[k][x] /\ w[k][x] # "*"
      BY <1>3, <2>1, Zenon
    <3> QED BY <3>1, <3>2, <3>3, Zenon
  <2>2. CASE k = K + 1
    <3>1. u[k] = << >> /\ Len(u[k]) = 0 /\ 1 .. Len(u[k]) = {} /\ k - 1 = K
      BY <1>2, <1>7, <2>2
    <3>2. c[k - 1] = i + 1 /\ c[k] = i + 2
      BY <1>1, <1>4, <1>7, <2>2, <3>1, Zenon
    <3>3. c[k] = c[k - 1] + Len(u[k]) + 1
      BY <3>1, <3>2
    <3> QED BY <3>1, <3>3, Zenon
  <2> QED BY <1>6, <2>1, <2>2, Zenon
<1>9. ASSUME NEW k \in 1 .. K PROVE p[c[k]] = "*"
  <2>1. k \in 0 .. K /\ (k \in 1 .. K - 1 \/ k = K)
    BY <1>1
  <2>2. c[k] = cut[k]
    BY <1>4, <2>1, Zenon
  <2>3. CASE k = K
    BY <1>1, <2>2, <2>3, Zenon
  <2> QED BY <1>3, <2>1, <2>2, <2>3, Zenon
<1>10. c[0] = 0 /\ c[K + 1] = (i + 1) + 1 /\ (K + 1) - 1 = K
  BY <1>1, <1>4, <1>7
<1>11. Cuts(p, C, i + 1, u, c)
  BY <1>2, <1>5, <1>8, <1>9, <1>10, Zenon DEF Cuts
<1> QED BY <1>11, Zenon DEF u

\* Any other character goes to the last piece of Split.
LEMMA CutChar ==
    ASSUME NEW C, NEW p, NEW i \in Nat, NEW w, NEW cut, Cuts(p, C, i, w, cut),
           p[i + 1] # "*", p[i + 1] \in C
    PROVE  \E c : Cuts(p, C, i + 1, [w EXCEPT ![Len(w)] = Append(@, p[i + 1])], c)
<1> DEFINE K == Len(w)
           q == Append(w[K], p[i + 1])
           u == [w EXCEPT ![K] = q]
           c == [k \in 0 .. K |-> IF k = K THEN i + 2 ELSE cut[k]]
<1>1. w \in Seq(Seq(C)) /\ K \in Nat /\ K >= 1 /\ cut \in [0 .. K -> Nat] /\ cut[0] = 0 /\ cut[K] = i + 1
  BY DEF Cuts
<1>2. /\ w[K] \in Seq(C) /\ q \in Seq(C) /\ Len(w[K]) \in Nat
      /\ Len(q) = Len(w[K]) + 1 /\ q[Len(w[K]) + 1] = p[i + 1]
      /\ \A x \in 1 .. Len(w[K]) : q[x] = w[K][x]
  BY <1>1
<1>3. /\ \A k \in 1 .. K : cut[k] = cut[k - 1] + Len(w[k]) + 1
      /\ \A k \in 1 .. K : \A x \in 1 .. Len(w[k]) : p[cut[k - 1] + x] = w[k][x] /\ w[k][x] # "*"
      /\ \A k \in 1 .. K - 1 : p[cut[k]] = "*"
  BY Zenon DEF Cuts
<1> HIDE DEF q
<1>a. u \in Seq(Seq(C)) /\ Len(u) = K /\ u # << >> /\ u[K] = q /\ \A k \in 1 .. K : k # K => u[k] = w[k]
  BY <1>1, <1>2
<1> HIDE DEF u, K
<1>4. c[K] = i + 2 /\ \A k \in 0 .. K : k # K => c[k] = cut[k]
  BY <1>1
<1>5. c \in [0 .. K -> Nat]
  BY <1>1
<1> HIDE DEF c
<1>6. \A k \in 1 .. K : k \in 0 .. K /\ k - 1 \in 0 .. K /\ k - 1 # K
  BY <1>1
<1>b. K \in 1 .. K /\ 0 \in 0 .. K /\ 0 # K
  BY <1>1
<1>7. cut[K - 1] + Len(w[K]) = i /\ cut[K - 1] \in Nat
  <2>1. cut[K] = cut[K - 1] + Len(w[K]) + 1 /\ cut[K - 1] \in Nat
    BY <1>1, <1>3, <1>6, <1>b, Zenon
  <2>2. i + 1 = cut[K - 1] + Len(w[K]) + 1 /\ Len(w[K]) \in Nat
    BY <1>1, <1>2, <2>1, Zenon
  <2> DEFINE a == cut[K - 1] b == Len(w[K])
  <2>3. a \in Nat /\ b \in Nat /\ i + 1 = a + b + 1
    BY <2>1, <2>2, Zenon
  <2> HIDE DEF a, b
  <2>4. a + b = i
    BY <2>3
  <2> QED BY <2>1, <2>4, Zenon DEF a, b
<1>8. ASSUME NEW k \in 1 .. K
      PROVE  /\ c[k] = c[k - 1] + Len(u[k]) + 1
             /\ \A x \in 1 .. Len(u[k]) : p[c[k - 1] + x] = u[k][x] /\ u[k][x] # "*"
  <2>1. CASE k # K
    <3>1. c[k] = cut[k] /\ c[k - 1] = cut[k - 1] /\ u[k] = w[k]
      BY <1>a, <1>4, <1>6, <2>1, Zenon
    <3> QED BY <1>3, <3>1, Zenon
  <2>2. CASE k = K
    <3>1. c[k - 1] = cut[K - 1] /\ c[k] = i + 2 /\ u[k] = q
      BY <1>a, <1>4, <1>6, <2>2, Zenon
    <3>2. c[k] = c[k - 1] + Len(u[k]) + 1
      <4> DEFINE a == cut[K - 1] b == Len(w[K])
      <4>1. a \in Nat /\ b \in Nat /\ a + b = i /\ Len(q) = b + 1
        BY <1>2, <1>7, Zenon
      <4> HIDE DEF a, b
      <4>2. i + 2 = a + Len(q) + 1
        BY <4>1
      <4> QED BY <3>1, <4>2, Zenon DEF a
    <3>3. ASSUME NEW x \in 1 .. Len(q) PROVE p[cut[K - 1] + x] = q[x] /\ q[x] # "*"
      <4>1. x \in 1 .. Len(w[K]) \/ (x = Len(w[K]) + 1 /\ cut[K - 1] + x = i + 1)
        <5> DEFINE a == cut[K - 1] b == Len(w[K])
        <5>1. a \in Nat /\ b \in Nat /\ a + b = i /\ Len(q) = b + 1
          BY <1>2, <1>7, Zenon
        <5> HIDE DEF a, b
        <5>2. x \in 1 .. b \/ (x = b + 1 /\ a + x = i + 1)
          BY <5>1
        <5> QED BY <5>2, Zenon DEF a, b
      <4>2. CASE x \in 1 .. Len(w[K])
        <5>1. p[cut[K - 1] + x] = w[K][x] /\ w[K][x] # "*"
          BY <1>3, <1>b, <4>2, Zenon
        <5>2. q[x] = w[K][x]
          BY <1>2, <4>2, Zenon
        <5> QED BY <5>1, <5>2, Zenon
      <4>3. CASE x = Len(w[K]) + 1 /\ cut[K - 1] + x = i + 1
        BY <1>2, <4>3, Zenon
      <4> QED BY <4>1, <4>2, <4>3, Zenon
    <3> QED BY <3>1, <3>2, <3>3, Zenon
  <2> QED BY <2>1, <2>2, Zenon
<1>9. ASSUME NEW k \in 1 .. K - 1 PROVE p[c[k]] = "*"
  <2>1. k \in 0 .. K /\ k # K
    BY <1>1
  <2> QED BY <1>3, <1>4, <2>1, Zenon
<1>10. c[0] = 0 /\ c[K] = (i + 1) + 1
  BY <1>1, <1>4, <1>b
<1>11. Cuts(p, C, i + 1, u, c)
  BY <1>a, <1>5, <1>8, <1>9, <1>10, Zenon DEF Cuts
<1>12. u = [w EXCEPT ![Len(w)] = Append(@, p[i + 1])]
  BY Zenon DEF u, q, K
<1> QED BY <1>11, <1>12, Zenon

\* strings.Split(pattern, "*") cuts the pattern at its stars and nowhere else.
LEMMA SplitFacts ==
    ASSUME NEW C, NEW p \in Seq(C)
    PROVE  \E cut : Cuts(p, C, Len(p), Split(p), cut)
<1>1. PICK F : /\ Split(p) = F[Len(p)]
               /\ F[0] = << << >> >>
               /\ \A i \in 1 .. Len(p) : F[i] = SplitNext(p, i, F[i - 1])
  BY SplitStep, Zenon
<1> DEFINE T == {i \in Nat : i <= Len(p) => \E cut : Cuts(p, C, i, F[i], cut)}
<1>2. 0 \in T
  <2> DEFINE w == << << >> >> cut == [k \in 0 .. 1 |-> IF k = 0 THEN 0 ELSE 1]
  <2>1. /\ w \in Seq(Seq(C)) /\ w # << >> /\ Len(w) = 1 /\ w[1] = << >> /\ Len(w[1]) = 0
        /\ 1 .. Len(w[1]) = {} /\ 1 .. Len(w) - 1 = {} /\ \A k \in 1 .. Len(w) : k = 1
    OBVIOUS
  <2> HIDE DEF w
  <2>2. cut \in [0 .. Len(w) -> Nat] /\ cut[0] = 0 /\ cut[1] = 0 + 1
    BY <2>1
  <2> HIDE DEF cut
  <2>3. 1 - 1 = 0 /\ cut[1] = cut[0] + Len(w[1]) + 1
    BY <2>1, <2>2
  <2>4. Cuts(p, C, 0, w, cut)
    BY <2>1, <2>2, <2>3, Zenon DEF Cuts
  <2> QED BY <1>1, <2>4, Zenon DEF w
<1>3. ASSUME NEW i \in Nat, i \in T PROVE i + 1 \in T
  <2> SUFFICES ASSUME i + 1 <= Len(p) PROVE \E cut : Cuts(p, C, i + 1, F[i + 1], cut)
    OBVIOUS
  <2>1. i <= Len(p) /\ i + 1 \in 1 .. Len(p) /\ (i + 1) - 1 = i /\ p[i + 1] \in C
    OBVIOUS
  <2>2. PICK cut : Cuts(p, C, i, F[i], cut)
    BY <1>3, <2>1, Zenon
  <2>3. F[i + 1] = SplitNext(p, i + 1, F[i])
    BY <1>1, <2>1, Zenon
  <2>4. CASE p[i + 1] = "*"
    <3>1. F[i + 1] = Append(F[i], << >>)
      BY <2>3, <2>4, Zenon DEF SplitNext
    <3>2. \E c : Cuts(p, C, i + 1, Append(F[i], << >>), c)
      BY <2>2, <2>4, CutStar, Zenon
    <3> QED BY <3>1, <3>2, Zenon
  <2>5. CASE p[i + 1] # "*"
    <3>1. F[i + 1] = [F[i] EXCEPT ![Len(F[i])] = Append(@, p[i + 1])]
      BY <2>3, <2>5, Zenon DEF SplitNext
    <3>2. \E c : Cuts(p, C, i + 1, [F[i] EXCEPT ![Len(F[i])] = Append(@, p[i + 1])], c)
      BY <2>1, <2>2, <2>5, CutChar, Zenon
    <3> QED BY <3>1, <3>2, Zenon
  <2> QED BY <2>4, <2>5, Zenon
<1> HIDE DEF T
<1>4. \A i \in Nat : i \in T
  BY <1>2, <1>3, Induction, Zenon
<1>5. Len(p) \in Nat /\ Len(p) <= Len(p)
  OBVIOUS
<1> QED BY <1>1, <1>4, <1>5, Zenon DEF T

\* A piece of the pattern, which has no star, means itself: it takes a prefix
\* as far as a place where it occurs.
LEMMA PieceMeans ==
    ASSUME NEW C, NEW p \in Seq(C), NEW s \in Seq(C), NEW P, PrefixMeanings(p, s, P),
           NEW q \in Seq(C), NEW b \in Nat, b + Len(q) <= Len(p), P[b] \subseteq 0 .. Len(s),
           \A x \in 1 .. Len(q) : p[b + x] = q[x] /\ q[x] # "*"
    PROVE  \A j : j \in P[b + Len(q)] <=>
                    j \in 0 .. Len(s) /\ j - Len(q) \in P[b] /\ Occurs(q, s, j - Len(q))
<1> DEFINE m == Len(s) L == Len(q)
           Ends(x, j) == j \in 0 .. m /\ j - x \in P[b] /\ \A y \in 1 .. x : s[(j - x) + y] = q[y]
           T == {x \in Nat : x <= L => \A j : j \in P[b + x] <=> Ends(x, j)}
<1>0. m \in Nat /\ L \in Nat /\ Len(p) \in Nat
  OBVIOUS
<1>1. 0 \in T
  <2>1. b + 0 = b /\ 1 .. 0 = {} /\ \A j \in 0 .. m : j - 0 = j
    BY <1>0
  <2>2. \A j : j \in P[b + 0] <=> Ends(0, j)
    BY <2>1, Zenon
  <2> QED BY <2>2, Zenon
<1>2. ASSUME NEW x \in Nat, x \in T PROVE x + 1 \in T
  <2>0. x + 1 \in Nat
    OBVIOUS
  <2> SUFFICES ASSUME x + 1 <= L PROVE \A j : j \in P[b + (x + 1)] <=> Ends(x + 1, j)
    BY <2>0, Zenon
  <2> TAKE j
  <2>1. \A i : i \in P[b + x] <=> Ends(x, i)
    BY <1>0, <1>2
  <2>2. /\ x + 1 \in 1 .. L /\ b + (x + 1) \in 1 .. Len(p) /\ (b + (x + 1)) - 1 = b + x
    BY <1>0
  <2>3. p[b + (x + 1)] = q[x + 1] /\ q[x + 1] # "*"
    BY <2>2, Zenon
  <2>4. P[b + (x + 1)] = {i \in 1 .. m : i - 1 \in P[b + x] /\ s[i] = q[x + 1]}
    BY <2>2, <2>3, Zenon DEF PrefixMeanings, MeansNext
  <2>5. j \in P[b + (x + 1)] <=> j \in 1 .. m /\ Ends(x, j - 1) /\ s[j] = q[x + 1]
    BY <2>1, <2>4, Zenon
  <2>6. ASSUME NEW k \in Int
        PROVE  (\A y \in 1 .. x + 1 : s[(k - (x + 1)) + y] = q[y])
                  <=> (\A y \in 1 .. x : s[((k - 1) - x) + y] = q[y]) /\ s[k] = q[x + 1]
    <3>1. \A y \in 1 .. x + 1 : y \in 1 .. x \/ y = x + 1
      OBVIOUS
    <3>2. x + 1 \in 1 .. x + 1 /\ (k - (x + 1)) + (x + 1) = k
      OBVIOUS
    <3>3. \A y \in 1 .. x : y \in 1 .. x + 1 /\ (k - (x + 1)) + y = ((k - 1) - x) + y
      OBVIOUS
    <3> QED BY <3>1, <3>2, <3>3, Zenon
  <2>7. ASSUME j \in 1 .. m
        PROVE  Ends(x, j - 1) /\ s[j] = q[x + 1] <=> Ends(x + 1, j)
    <3>1. j \in Int /\ j \in 0 .. m /\ j - 1 \in 0 .. m /\ (j - 1) - x = j - (x + 1)
      BY <1>0, <2>7
    <3> QED BY <2>6, <3>1, Zenon
  <2>8. ASSUME Ends(x + 1, j) PROVE j \in 1 .. m
    <3>1. j \in 0 .. m /\ j - (x + 1) \in 0 .. m
      BY <2>8, Zenon
    <3> QED BY <1>0, <3>1
  <2> QED BY <2>5, <2>7, <2>8, Zenon
<1> HIDE DEF T
<1>3. L \in T
  BY <1>0, <1>1, <1>2, Induction, Zenon
<1>4. \A j : j \in P[b + L] <=> Ends(L, j)
  BY <1>0, <1>3 DEF T
<1>5. ASSUME NEW j PROVE Ends(L, j) <=> j \in 0 .. m /\ j - L \in P[b] /\ Occurs(q, s, j - L)
  <2>1. j \in 0 .. m => (j - L) + L <= m
    BY <1>0
  <2> QED BY <2>1, Zenon DEF Occurs
<1> QED BY <1>4, <1>5, Zenon

\* With the star after it, a piece reaches every length from the least of R on.
Above(R, m) == {j \in 0 .. m : \E r \in R : r <= j}
Reached(P, b, R, m) == P[b] = Above(R, m) /\ R \subseteq 0 .. m

\* The prefix test of matchGlob: the first piece with its star reaches what is
\* beyond its occurrence at the start, or nothing.
LEMMA FirstPiece ==
    ASSUME NEW C, NEW p \in Seq(C), NEW s \in Seq(C), NEW P, PrefixMeanings(p, s, P),
           NEW q \in Seq(C), Len(q) + 1 <= Len(p), p[Len(q) + 1] = "*",
           \A x \in 1 .. Len(q) : p[x] = q[x] /\ q[x] # "*"
    PROVE  Reached(P, Len(q) + 1, AtStart(q, s), Len(s))
<1> DEFINE m == Len(s) L == Len(q) R == AtStart(q, s)
<1>0. m \in Nat /\ L \in Nat /\ Len(p) \in Nat
  OBVIOUS
<1>1. 0 \in Nat /\ 0 + Len(q) <= Len(p) /\ P[0] \subseteq 0 .. m /\ 0 + Len(q) = L
  BY <1>0 DEF PrefixMeanings
<1>2. \A x \in 1 .. Len(q) : p[0 + x] = q[x] /\ q[x] # "*"
  <2>1. \A x \in 1 .. Len(q) : 0 + x = x
    OBVIOUS
  <2> QED BY <2>1, Zenon
<1>3. \A j : j \in P[0 + Len(q)] <=> j \in 0 .. m /\ j - L \in P[0] /\ Occurs(q, s, j - L)
  BY <1>1, <1>2, PieceMeans, Zenon
<1>4. L + 1 \in 1 .. Len(p) /\ (L + 1) - 1 = L
  BY <1>0
<1>5. P[L + 1] = {j \in 0 .. m : \E k \in P[L] : k <= j}
  BY <1>4, Zenon DEF PrefixMeanings, MeansNext
<1>6. ASSUME NEW j PROVE j \in P[L] <=> j \in R
  <2>1. j \in P[L] <=> j \in 0 .. m /\ j - L = 0 /\ Occurs(q, s, j - L)
    BY <1>1, <1>3, Zenon DEF PrefixMeanings
  <2>2. j \in 0 .. m /\ j - L = 0 => j = L
    BY <1>0
  <2>3. L - L = 0 /\ (Occurs(q, s, 0) => L \in 0 .. m)
    BY <1>0 DEF Occurs
  <2> QED BY <2>1, <2>2, <2>3, Zenon DEF AtStart
<1>7. R \subseteq 0 .. m
  BY <1>0 DEF Occurs, AtStart
<1> HIDE DEF R
<1>8. P[L + 1] = Above(R, m)
  BY <1>5, <1>6, Zenon DEF Above
<1> QED BY <1>7, <1>8, Zenon DEF R, Reached

\* The piece q of p starts after b characters, and a star follows it.
StarredPiece(p, C, q, b) ==
    /\ q \in Seq(C) /\ b \in Nat /\ (b + Len(q)) + 1 <= Len(p) /\ p[(b + Len(q)) + 1] = "*"
    /\ \A x \in 1 .. Len(q) : p[b + x] = q[x] /\ q[x] # "*"

\* One round of the loop of matchGlob: because a star follows the piece, its
\* first occurrence reaches all that any other occurrence would.
LEMMA MiddlePiece ==
    ASSUME NEW C, NEW p \in Seq(C), NEW s \in Seq(C), NEW P, PrefixMeanings(p, s, P),
           NEW q, NEW b, StarredPiece(p, C, q, b),
           NEW R, Reached(P, b, R, Len(s))
    PROVE  Reached(P, (b + Len(q)) + 1, AfterEach(q, s, R), Len(s))
<1> DEFINE m == Len(s) L == Len(q) S == AfterEach(q, s, R)
<1>a. /\ q \in Seq(C) /\ b \in Nat /\ (b + Len(q)) + 1 <= Len(p) /\ p[(b + Len(q)) + 1] = "*"
      /\ \A x \in 1 .. Len(q) : p[b + x] = q[x] /\ q[x] # "*"
  BY Zenon DEF StarredPiece
<1>b. R \subseteq 0 .. m /\ P[b] = Above(R, m)
  BY Zenon DEF Reached
<1>0. m \in Nat /\ L \in Nat /\ Len(p) \in Nat
  BY <1>a
<1>1. b + Len(q) <= Len(p) /\ P[b] \subseteq 0 .. m
  BY <1>0, <1>a, <1>b DEF Above
<1>2. \A j : j \in P[b + L] <=> j \in 0 .. m /\ j - L \in P[b] /\ Occurs(q, s, j - L)
  BY <1>a, <1>1, PieceMeans, Zenon
<1>3. (b + L) + 1 \in 1 .. Len(p) /\ ((b + L) + 1) - 1 = b + L
  BY <1>a, <1>0
<1>4. P[(b + L) + 1] = {j \in 0 .. m : \E k \in P[b + L] : k <= j}
  BY <1>a, <1>3, Zenon DEF PrefixMeanings, MeansNext
<1>5. S \subseteq 0 .. m
  <2>1. ASSUME NEW r \in R PROVE AfterFirst(q, s, r) \subseteq 0 .. m
    <3>1. r \in Nat
      BY <1>0, <1>b
    <3> QED BY <1>0, <3>1 DEF AfterFirst, Occurs
  <2> QED BY <2>1, Zenon DEF AfterEach
<1>6. ASSUME NEW j \in 0 .. m, NEW k \in P[b + L], k <= j PROVE \E t \in S : t <= j
  <2>1. k \in 0 .. m /\ k - L \in 0 .. m /\ Occurs(q, s, k - L)
    BY <1>1, <1>2, Zenon
  <2>2. PICK r \in R : r <= k - L
    BY <1>b, <1>2, Zenon DEF Above
  <2> DEFINE at == {i \in r .. m : Occurs(q, s, i)}
  <2>3. r \in Nat
    BY <1>0, <1>b
  <2>4. k - L \in at /\ at \subseteq Nat
    BY <1>0, <2>1, <2>2, <2>3
  <2>5. PICK i \in at : \A y \in at : i <= y
    BY <2>4, NatMin, Zenon
  <2>6. i + L \in AfterFirst(q, s, r)
    BY <2>5, Zenon DEF AfterFirst
  <2>7. i \in Nat /\ i <= k - L
    BY <2>4, <2>5, Zenon
  <2>8. i + L <= j
    BY <1>0, <1>6, <2>1, <2>7
  <2> QED BY <2>6, <2>8, Zenon DEF AfterEach
<1>7. ASSUME NEW j \in 0 .. m, NEW t \in S, t <= j PROVE \E k \in P[b + L] : k <= j
  <2>1. PICK r \in R : t \in AfterFirst(q, s, r)
    BY Zenon DEF AfterEach
  <2>2. PICK i \in r .. m : Occurs(q, s, i) /\ t = i + L
    BY <2>1, Zenon DEF AfterFirst
  <2>3. r \in Nat /\ i \in Nat /\ r <= i /\ i \in 0 .. m /\ t \in 0 .. m /\ t - L = i
    BY <1>0, <1>b, <1>5, <2>2
  <2>4. i \in P[b]
    BY <1>b, <2>3, Zenon DEF Above
  <2>5. t \in P[b + L]
    BY <1>2, <2>2, <2>3, <2>4, Zenon
  <2> QED BY <1>7, <2>5, Zenon
<1>8. {j \in 0 .. m : \E k \in P[b + L] : k <= j} = Above(S, m)
  BY <1>6, <1>7, Zenon DEF Above
<1> QED BY <1>4, <1>5, <1>8, Zenon DEF Reached

(***************************************************************************)
(* matchGlob answers as the pattern means, for patterns and strings of any *)
(* length over any characters: looking for each middle piece at its first  *)
(* occurrence only, and for the last one at the end of what is left, loses *)
(* no match and invents none.                                              *)
(***************************************************************************)
THEOREM GlobMeaning ==
    ASSUME NEW C, NEW p \in Seq(C), NEW s \in Seq(C)
    PROVE  matchGlob(p, s) <=> Matches(p, s)
<1> DEFINE m == Len(s) n == Len(p)
<1>0. m \in Nat /\ n \in Nat /\ DOMAIN p = 1 .. n
  OBVIOUS
<1>1. PICK P : (Matches(p, s) <=> m \in P[n]) /\ PrefixMeanings(p, s, P)
  BY <1>0, MeansStep, Zenon
<1>2. CASE "*" \notin Range(p)
  <2>1. \A x \in 1 .. n : p[0 + x] = p[x] /\ p[x] # "*"
    <3>1. \A x \in 1 .. n : 0 + x = x
      OBVIOUS
    <3> QED BY <1>0, <1>2, <3>1, Zenon DEF Range
  <2>2. P[0] \subseteq 0 .. m /\ 0 \in Nat /\ 0 + n <= n /\ 0 + n = n
    BY <1>0, <1>1 DEF PrefixMeanings
  <2>3. \A j : j \in P[0 + n] <=> j \in 0 .. m /\ j - n \in P[0] /\ Occurs(p, s, j - n)
    BY <1>1, <2>1, <2>2, PieceMeans, Zenon
  <2>4. m \in P[n] <=> m \in 0 .. m /\ m - n = 0 /\ Occurs(p, s, m - n)
    BY <1>1, <2>2, <2>3, Zenon DEF PrefixMeanings
  <2>5. m \in P[n] <=> m = n /\ \A x \in 1 .. n : s[x] = p[x]
    <3>1. (m - n = 0 <=> m = n) /\ m \in 0 .. m /\ 0 + n = n /\ n <= n /\ n - n = 0 /\ \A x \in 1 .. n : 0 + x = x
      BY <1>0
    <3> HIDE DEF m, n
    <3>2. m = n => (Occurs(p, s, 0) <=> \A x \in 1 .. n : s[x] = p[x])
      BY <3>1, Zenon DEF Occurs, m, n
    <3> QED BY <2>4, <3>1, <3>2, Zenon
  <2>6. p = s <=> m = n /\ \A x \in 1 .. n : s[x] = p[x]
    OBVIOUS
  <2>7. matchGlob(p, s) <=> p = s
    BY <1>2, Zenon DEF matchGlob
  <2> QED BY <1>1, <2>5, <2>6, <2>7, Zenon
<1>3. CASE "*" \in Range(p)
  <2> DEFINE parts == Split(p) K == Len(parts) last == parts[K]
  <2>1. PICK cut : Cuts(p, C, n, parts, cut)
    BY SplitFacts, Zenon
  <2>2. /\ parts \in Seq(Seq(C)) /\ K \in Nat /\ K >= 1
        /\ cut \in [0 .. K -> Nat] /\ cut[0] = 0 /\ cut[K] = n + 1
    BY <2>1 DEF Cuts
  <2>3. /\ \A k \in 1 .. K : cut[k] = cut[k - 1] + Len(parts[k]) + 1
        /\ \A k \in 1 .. K : \A x \in 1 .. Len(parts[k]) :
              p[cut[k - 1] + x] = parts[k][x] /\ parts[k][x] # "*"
        /\ \A k \in 1 .. K - 1 : p[cut[k]] = "*"
    BY <2>1, Zenon DEF Cuts
  <2>4. \A k \in 1 .. K : parts[k] \in Seq(C) /\ Len(parts[k]) \in Nat
    BY <2>2
  <2>5. matchGlob(p, s) <=> \E r \in Taken(parts, s) : m - Len(last) >= r /\ Occurs(last, s, m - Len(last))
    BY <1>3, Zenon DEF matchGlob
  <2> HIDE DEF parts, K, m, n
  <2>6. \A k \in 1 .. K : k - 1 \in 0 .. K /\ k \in 0 .. K
    BY <2>2
  <2>7. \A k \in 1 .. K : cut[k] \in Nat /\ cut[k - 1] \in Nat /\ (cut[k - 1] + Len(parts[k])) + 1 = cut[k]
    <3> SUFFICES ASSUME NEW k \in 1 .. K
                 PROVE  cut[k] \in Nat /\ cut[k - 1] \in Nat /\ (cut[k - 1] + Len(parts[k])) + 1 = cut[k]
      OBVIOUS
    <3>1. cut[k] \in Nat /\ cut[k - 1] \in Nat /\ cut[k] = cut[k - 1] + Len(parts[k]) + 1
      BY <2>2, <2>3, <2>6, Zenon
    <3> QED BY <3>1, Zenon
  <2>8. K >= 2
    <3> SUFFICES ASSUME K = 1 PROVE FALSE
      BY <2>2
    <3>1. 1 \in 1 .. K /\ 1 - 1 = 0
      OBVIOUS
    <3>2. cut[1] = n + 1 /\ cut[1] = cut[0] + Len(parts[1]) + 1 /\ Len(parts[1]) \in Nat
      BY <2>2, <2>3, <2>4, <3>1, Zenon
    <3>3. Len(parts[1]) = n
      BY <1>0, <2>2, <3>2 DEF n
    <3>4. \A x \in 1 .. n : 0 + x = x
      BY <1>0 DEF n
    <3>5. \A x \in 1 .. n : p[x] # "*"
      <4>1. \A x \in 1 .. Len(parts[1]) : p[cut[1 - 1] + x] = parts[1][x] /\ parts[1][x] # "*"
        BY <2>3, <3>1, Zenon
      <4>2. cut[1 - 1] = 0
        BY <2>2, <3>1, Zenon
      <4> QED BY <3>3, <3>4, <4>1, <4>2, Zenon
    <3> QED BY <1>0, <1>3, <3>5, Zenon DEF Range, n
  <2>9. PICK U : Taken(parts, s) = U[K - 2] /\ TakenUpto(parts, s, U)
    BY <2>2, <2>8, TakenStep, Zenon DEF K
  <2>10. \A k \in 1 .. K - 1 : cut[k] <= n
    <3> DEFINE T == {d \in Nat : d <= K - 2 => cut[(K - 1) - d] <= n}
    <3>1. 0 \in T
      <4>1. K \in 1 .. K /\ (K - 1) - 0 = K - 1
        BY <2>2
      <4>2. (cut[K - 1] + Len(parts[K])) + 1 = n + 1 /\ cut[K - 1] \in Nat /\ Len(parts[K]) \in Nat
        BY <2>2, <2>4, <2>7, <4>1, Zenon
      <4>3. cut[K - 1] <= n
        BY <1>0, <4>2 DEF n
      <4> QED BY <4>1, <4>3, Zenon
    <3>2. ASSUME NEW d \in Nat, d \in T PROVE d + 1 \in T
      <4> SUFFICES ASSUME d + 1 <= K - 2 PROVE cut[(K - 1) - (d + 1)] <= n
        OBVIOUS
      <4> DEFINE k == (K - 1) - d
      <4>1. k \in 1 .. K /\ (K - 1) - (d + 1) = k - 1 /\ d <= K - 2
        BY <2>2
      <4>2. cut[k] <= n
        BY <3>2, <4>1, Zenon
      <4> HIDE DEF k
      <4>3. (cut[k - 1] + Len(parts[k])) + 1 = cut[k] /\ cut[k - 1] \in Nat /\ Len(parts[k]) \in Nat /\ cut[k] \in Nat
        BY <2>4, <2>7, <4>1, Zenon
      <4>4. cut[k - 1] <= n
        BY <1>0, <4>2, <4>3 DEF n
      <4> QED BY <4>1, <4>4, Zenon
    <3> HIDE DEF T
    <3>3. \A d \in Nat : d \in T
      BY <3>1, <3>2, Induction, Zenon
    <3>4. ASSUME NEW k \in 1 .. K - 1 PROVE cut[k] <= n
      <4>1. (K - 1) - k \in Nat /\ (K - 1) - k <= K - 2 /\ (K - 1) - ((K - 1) - k) = k
        BY <2>2
      <4>2. cut[(K - 1) - ((K - 1) - k)] <= n
        BY <3>3, <4>1, Zenon DEF T
      <4> QED BY <4>1, <4>2, Zenon
    <3> QED BY <3>4, Zenon
  <2> DEFINE Good(k) == Reached(P, cut[k + 1], U[k], m)
             T == {k \in Nat : k <= K - 2 => Good(k)}
  <2>11. 0 \in T
    <3>1. 1 \in 1 .. K /\ 1 \in 1 .. K - 1 /\ 1 - 1 = 0 /\ 0 + 1 = 1
      BY <2>2, <2>8
    <3>2. parts[1] \in Seq(C) /\ Len(parts[1]) \in Nat /\ (cut[0] + Len(parts[1])) + 1 = cut[1] /\ cut[1] <= n
      BY <2>4, <2>7, <2>10, <3>1, Zenon
    <3>3. Len(parts[1]) + 1 = cut[1]
      BY <2>2, <3>2
    <3>4. \A x \in 1 .. Len(parts[1]) : p[x] = parts[1][x] /\ parts[1][x] # "*"
      <4>1. \A x \in 1 .. Len(parts[1]) : 0 + x = x
        OBVIOUS
      <4>2. \A x \in 1 .. Len(parts[1]) : p[cut[1 - 1] + x] = parts[1][x] /\ parts[1][x] # "*"
        BY <2>3, <3>1, Zenon
      <4>3. cut[1 - 1] = 0
        BY <2>2, <3>1, Zenon
      <4> QED BY <4>1, <4>2, <4>3, Zenon
    <3>5. p[Len(parts[1]) + 1] = "*" /\ Len(parts[1]) + 1 <= Len(p)
      BY <2>3, <3>1, <3>2, <3>3, Zenon DEF n
    <3>6. U[0] = AtStart(parts[1], s)
      BY <2>9, Zenon DEF TakenUpto
    <3> DEFINE q == parts[1]
    <3> HIDE DEF q
    <3>7. Reached(P, Len(q) + 1, AtStart(q, s), Len(s))
      <4>1. /\ q \in Seq(C) /\ Len(q) + 1 <= Len(p) /\ p[Len(q) + 1] = "*"
            /\ \A x \in 1 .. Len(q) : p[x] = q[x] /\ q[x] # "*"
        BY <3>2, <3>4, <3>5, Zenon DEF q
      <4> QED BY <1>1, <4>1, FirstPiece, Zenon
    <3>8. Good(0)
      BY <3>1, <3>3, <3>6, <3>7, Zenon DEF m, q
    <3> QED BY <3>8, Zenon
  <2>12. ASSUME NEW k \in Nat, k \in T PROVE k + 1 \in T
    <3>0. k + 1 \in Nat
      OBVIOUS
    <3> SUFFICES ASSUME k + 1 <= K - 2 PROVE Good(k + 1)
      BY <3>0, Zenon
    <3>1. /\ k <= K - 2 /\ k + 2 \in 1 .. K /\ k + 2 \in 1 .. K - 1 /\ (k + 2) - 1 = k + 1
          /\ k + 1 \in 1 .. K - 2 /\ (k + 1) - 1 = k /\ (k + 1) + 1 = k + 2
      BY <2>2
    <3>2. Good(k)
      BY <2>12, <3>1, Zenon
    <3> DEFINE q == parts[k + 2] b == cut[k + 1]
    <3>3. q \in Seq(C) /\ b \in Nat /\ (b + Len(q)) + 1 = cut[k + 2] /\ cut[k + 2] <= n
      BY <2>4, <2>7, <2>10, <3>1, Zenon
    <3>4. \A x \in 1 .. Len(q) : p[b + x] = q[x] /\ q[x] # "*"
      <4>1. \A x \in 1 .. Len(q) : p[cut[(k + 2) - 1] + x] = q[x] /\ q[x] # "*"
        BY <2>3, <3>1, Zenon
      <4> QED BY <3>1, <4>1, Zenon
    <3>5. p[(b + Len(q)) + 1] = "*" /\ (b + Len(q)) + 1 <= Len(p)
      BY <2>3, <3>1, <3>3, Zenon DEF n
    <3>6. U[k + 1] = AfterEach(q, s, U[k])
      <4>1. U[k + 1] = AfterEach(parts[(k + 1) + 1], s, U[(k + 1) - 1])
        BY <2>9, <3>1, Zenon DEF TakenUpto, K
      <4> QED BY <3>1, <4>1, Zenon
    <3>7. Reached(P, b, U[k], Len(s))
      BY <3>2, Zenon DEF m
    <3> HIDE DEF q, b
    <3>8. Reached(P, (b + Len(q)) + 1, AfterEach(q, s, U[k]), Len(s))
      <4>1. StarredPiece(p, C, q, b)
        BY <3>3, <3>4, <3>5, Zenon DEF StarredPiece
      <4> QED BY <1>1, <3>7, <4>1, MiddlePiece, Zenon
    <3> QED BY <3>1, <3>3, <3>6, <3>8, Zenon DEF m
  <2> HIDE DEF T
  <2>13. K - 2 \in Nat /\ K - 2 \in T /\ K - 2 <= K - 2 /\ (K - 2) + 1 = K - 1
    <3>1. K - 2 \in Nat /\ K - 2 <= K - 2 /\ (K - 2) + 1 = K - 1
      BY <2>2, <2>8
    <3> QED BY <2>11, <2>12, <3>1, Induction, Zenon
  <2>14. P[cut[K - 1]] = Above(U[K - 2], m) /\ U[K - 2] \subseteq 0 .. m
    BY <2>13, Zenon DEF T, Reached
  <2> DEFINE b == cut[K - 1] L == Len(last)
  <2>15. last \in Seq(C) /\ L \in Nat /\ b \in Nat /\ (b + L) + 1 = n + 1
    <3>1. K \in 1 .. K
      BY <2>2
    <3> QED BY <2>2, <2>4, <2>7, <3>1, Zenon
  <2>16. b + L = n /\ b + L <= Len(p)
    BY <1>0, <2>15 DEF n
  <2>17. \A x \in 1 .. Len(last) : p[b + x] = last[x] /\ last[x] # "*"
    <3>1. K \in 1 .. K
      BY <2>2
    <3> QED BY <2>3, <3>1, Zenon
  <2>18. P[b] \subseteq 0 .. Len(s)
    BY <2>14, Zenon DEF Above, m
  <2> HIDE DEF b, last
  <2>19. m \in P[b + L] <=> m \in 0 .. m /\ m - L \in P[b] /\ Occurs(last, s, m - L)
    BY <1>1, <2>15, <2>16, <2>17, <2>18, PieceMeans, Zenon DEF m
  <2>20. \A r \in U[K - 2] : m - L >= r => r <= m - L /\ m - L \in 0 .. m
    BY <1>0, <2>14, <2>15 DEF m
  <2>21. \A r \in U[K - 2] : r <= m - L => m - L >= r
    BY <1>0, <2>14, <2>15, Zenon DEF m
  <2>22. m \in 0 .. m
    BY <1>0 DEF m
  <2>23. m - L \in P[b] <=> \E r \in U[K - 2] : m - L >= r
    BY <2>14, <2>20, <2>21, Zenon DEF Above, b
  <2> QED BY <1>1, <2>5, <2>9, <2>16, <2>19, <2>22, <2>23, Zenon
<1> QED BY <1>2, <1>3, Zenon

\* The tests matchFirst makes of a rule: it applies to exactly the requests that
\* its caller, target and method patterns mean, an empty method to any method.
THEOREM CompiledMeaning ==
    ASSUME NEW C, NEW caller \in Seq(C), NEW target \in Seq(C), NEW method \in Seq(C),
           NEW R, R \subseteq [caller : Seq(C), target : Seq(C), method : Seq(C)], NEW id, NEW allow
    PROVE  Compiled(id, allow, caller, target, method, R).keys =
             {k \in R : /\ Matches(caller, k.caller) /\ Matches(target, k.target)
                        /\ method = << >> \/ Matches(method, k.method)}
<1>1. \A k \in R : k.caller \in Seq(C) /\ k.target \in Seq(C) /\ k.method \in Seq(C)
  BY Zenon
<1>2. \A k \in R : /\ matchGlob(caller, k.caller) <=> Matches(caller, k.caller)
                   /\ matchGlob(target, k.target) <=> Matches(target, k.target)
                   /\ matchGlob(method, k.method) <=> Matches(method, k.method)
  BY <1>1, GlobMeaning, Zenon
<1> QED BY <1>2, Zenon DEF Compiled

-----------------------------------------------------------------------------
(* The engine *)

\* What the controller sends on the watch stream.
Events == [kind : {"added"}, rule : RulePool] \cup [kind : {"removed"}, id : {r.id : r \in RulePool}]
             \cup [kind : {"end"}]

(***************************************************************************)
(* The inductive invariant of the engine: every rule it holds, still waits *)
(* for or is sent comes from the controller, and its snapshot lists the    *)
(* rules it holds, each once, in some order.                               *)
(***************************************************************************)
RulesKnown ==
    /\ truth \subseteq RulePool /\ rules \subseteq RulePool /\ cur \in Orders(rules)
    /\ watch \in Watching(SUBSET RulePool) /\ inbox \in Seq(Events)

\* A listing of a set of rules: a sequence of them that misses none.
LEMMA OrderFacts ==
    ASSUME NEW S \in SUBSET RulePool, NEW o \in Orders(S)
    PROVE  /\ o \in Seq(S) /\ DOMAIN o \subseteq Nat
           /\ \A r : r \in S <=> \E i \in DOMAIN o : o[i] = r
<1> DEFINE n == Cardinality(S)
<1>1. n \in Nat
  BY FS_Subset, FS_CardinalityType, PolicyConstants, Zenon
<1>2. o \in [1 .. n -> S] /\ Range(o) = S
  BY Zenon DEF Orders
<1> HIDE DEF n
<1>3. o = [i \in 1 .. n |-> o[i]] /\ (\A i \in 1 .. n : o[i] \in S) /\ DOMAIN o = 1 .. n
  BY <1>2, Zenon
<1>4. [i \in 1 .. n |-> o[i]] \in Seq(S)
  BY <1>1, <1>3
<1>5. \A r : r \in S <=> \E i \in DOMAIN o : o[i] = r
  BY <1>2, Zenon DEF Range
<1>6. DOMAIN o \subseteq Nat
  BY <1>1, <1>3
<1> QED BY <1>3, <1>4, <1>5, <1>6, Zenon

\* matchFirst returns one of the rules in force that match, and nothing only
\* when there are none.
LEMMA FirstMatch ==
    ASSUME RulesKnown, NEW k, NEW e
    PROVE  LET hits == {r \in rules : r.exact = e /\ k \in r.keys /\ r.id \notin lapsed}
           IN  (hits = {} /\ matchFirst(e, k) = {}) \/ \E r \in hits : matchFirst(e, k) = {r}
<1> DEFINE hits == {r \in rules : r.exact = e /\ k \in r.keys /\ r.id \notin lapsed}
           at == {i \in DOMAIN cur : cur[i].exact = e /\ k \in cur[i].keys /\ cur[i].id \notin lapsed}
<1>1. DOMAIN cur \subseteq Nat /\ \A r : r \in rules <=> \E i \in DOMAIN cur : cur[i] = r
  BY OrderFacts, Zenon DEF RulesKnown
<1>2. matchFirst(e, k) = {cur[i] : i \in {j \in at : \A x \in at : j <= x}}
  BY Zenon DEF matchFirst
<1>3. (\A i \in at : cur[i] \in hits) /\ (\A r \in hits : \E i \in at : cur[i] = r) /\ at \subseteq Nat
  BY <1>1, Zenon
<1> HIDE DEF at, hits
<1>4. CASE at = {}
  BY <1>2, <1>3, <1>4, Zenon DEF hits
<1>5. CASE at # {}
  <2>1. PICK i \in at : \A x \in at : i <= x
    BY <1>3, <1>5, NatMin, Zenon
  <2>2. ASSUME NEW j \in at, \A x \in at : j <= x PROVE j = i
    <3>1. i \in Nat /\ j \in Nat /\ i <= j /\ j <= i
      BY <1>3, <2>1, <2>2, Zenon
    <3> QED BY <3>1
  <2>3. matchFirst(e, k) = {cur[i]}
    BY <1>2, <2>1, <2>2, Zenon
  <2> QED BY <1>3, <2>3, Zenon DEF hits
<1> QED BY <1>4, <1>5, Zenon

\* Decide answers as the best rule that matches: exact-target rules first, then
\* wildcard rules, then closed world.
LEMMA DecidedAsRanked ==
    ASSUME RulesKnown, NEW k
    PROVE  LET hits == {r \in rules : k \in r.keys /\ r.id \notin lapsed}
               best == {r \in hits : r.exact \/ \A x \in hits : ~x.exact}
           IN  IF best = {} THEN ~Decide(k) ELSE \E r \in best : r.allow = Decide(k)
<1> DEFINE hits == {r \in rules : k \in r.keys /\ r.id \notin lapsed}
           best == {r \in hits : r.exact \/ \A x \in hits : ~x.exact}
           H(e) == {r \in rules : r.exact = e /\ k \in r.keys /\ r.id \notin lapsed}
<1>1. \A r \in rules : r.allow \in BOOLEAN /\ r.exact \in BOOLEAN
  BY PolicyConstants, Zenon DEF RulesKnown
<1>2. (H(TRUE) = {} /\ matchFirst(TRUE, k) = {}) \/ \E r \in H(TRUE) : matchFirst(TRUE, k) = {r}
  BY FirstMatch, Zenon
<1>3. (H(FALSE) = {} /\ matchFirst(FALSE, k) = {}) \/ \E r \in H(FALSE) : matchFirst(FALSE, k) = {r}
  BY FirstMatch, Zenon
<1>4. CASE H(TRUE) # {}
  <2>1. PICK r \in H(TRUE) : matchFirst(TRUE, k) = {r}
    BY <1>2, <1>4, Zenon
  <2>2. Decide(k) <=> r.allow
    BY <2>1, Zenon DEF Decide
  <2>3. r \in best /\ r.allow \in BOOLEAN /\ Decide(k) \in BOOLEAN
    BY <1>1, Zenon DEF Decide
  <2>4. r.allow = Decide(k)
    BY <2>2, <2>3, Zenon
  <2> QED BY <2>3, <2>4, Zenon
<1>5. CASE H(TRUE) = {} /\ H(FALSE) # {}
  <2>1. PICK r \in H(FALSE) : matchFirst(FALSE, k) = {r}
    BY <1>3, <1>5, Zenon
  <2>2. matchFirst(TRUE, k) = {}
    BY <1>2, <1>5, Zenon
  <2>3. Decide(k) <=> r.allow
    BY <2>1, <2>2, Zenon DEF Decide
  <2>4. \A x \in hits : ~x.exact
    BY <1>1, <1>5, Zenon
  <2>5. r \in best /\ r.allow \in BOOLEAN /\ Decide(k) \in BOOLEAN
    BY <1>1, <2>4, Zenon DEF Decide
  <2>6. r.allow = Decide(k)
    BY <2>3, <2>5, Zenon
  <2> QED BY <2>5, <2>6, Zenon
<1>6. CASE H(TRUE) = {} /\ H(FALSE) = {}
  <2>1. matchFirst(TRUE, k) = {} /\ matchFirst(FALSE, k) = {}
    BY <1>2, <1>3, <1>6, Zenon
  <2>2. ~Decide(k)
    BY <2>1, Zenon DEF Decide
  <2>3. hits = {}
    BY <1>1, <1>6, Zenon
  <2> QED BY <2>2, <2>3, Zenon
<1> QED BY <1>4, <1>5, <1>6, Zenon

\* A rebuild (Set, Add or Remove) lists the new rules afresh.
LEMMA ApplyKnown ==
    ASSUME NEW S \in SUBSET RulePool, Apply(S)
    PROVE  rules' \subseteq RulePool /\ cur' \in Orders(rules')
BY Zenon DEF Apply

\* Adding a rule of the controller or deleting an id brings in no other rule.
LEMMA AddDelKnown ==
    ASSUME NEW S \in SUBSET RulePool, NEW r \in RulePool, NEW id
    PROVE  Add(S, r) \in SUBSET RulePool /\ Del(S, id) \in SUBSET RulePool
BY Zenon DEF Add, Del

\* A new engine has no rules and an empty snapshot.
LEMMA InitKnown == Init => RulesKnown
<1> SUFFICES ASSUME Init PROVE RulesKnown
  OBVIOUS
<1>1. truth \subseteq RulePool /\ rules = {} /\ cur = << >> /\ inbox = << >> /\ inbox \in Seq(Events)
  BY DEF Init
<1>2. Cardinality({}) = 0
  BY FS_EmptySet, Zenon
<1>3. << >> \in [1 .. 0 -> {}] /\ Range(<< >>) = {}
  BY DEF Range
<1>4. cur \in Orders(rules)
  BY <1>1, <1>2, <1>3, Zenon DEF Orders
<1>5. watch \in Watching(SUBSET RulePool)
  BY Zenon DEF Init, Watching
<1> QED BY <1>1, <1>4, <1>5, Zenon DEF RulesKnown

\* What the controller changes or lets expire, and what it sends.
LEMMA ControllerKnown ==
    ASSUME RulesKnown, NEW r \in RulePool, Publish(r) \/ Withdraw(r) \/ Lapse(r.id)
    PROVE  RulesKnown'
<1>0. UNCHANGED <<watch, rules, cur>> /\ inbox \in Seq(Events) /\ truth \in SUBSET RulePool
  BY Zenon DEF RulesKnown, Publish, Withdraw, Lapse
<1>1. truth' \in SUBSET RulePool
  BY <1>0, AddDelKnown, Zenon DEF Publish, Withdraw, Lapse
<1>2. \A ev \in Events : Send(ev) => inbox' \in Seq(Events)
  BY <1>0 DEF Send
<1>3. [kind |-> "added", rule |-> r] \in Events /\ [kind |-> "removed", id |-> r.id] \in Events
  BY Zenon DEF Events
<1>4. inbox' \in Seq(Events)
  BY <1>0, <1>2, <1>3, Zenon DEF Publish, Withdraw, Lapse
<1> QED BY <1>0, <1>1, <1>4, Zenon DEF RulesKnown

\* Each event runOnce receives, the flush after it, and the loss of the stream.
LEMMA WatcherKnown ==
    ASSUME RulesKnown, Watcher \/ Break
    PROVE  RulesKnown'
<1>0. /\ watch \in Watching(SUBSET RulePool) /\ inbox \in Seq(Events)
      /\ truth \in SUBSET RulePool /\ rules \in SUBSET RulePool
      /\ watch.pending \in SUBSET RulePool
  BY Zenon DEF RulesKnown, Watching
<1>1. UNCHANGED truth
  BY Zenon DEF Watcher, Open, RecvAdded, RecvRemoved, RecvSnapshotEnd, Flush, Break
<1>2. CASE Open
  <2>1. UNCHANGED <<rules, cur>>
    BY <1>2, Zenon DEF Open
  <2>2. watch' \in Watching(SUBSET RulePool)
    BY <1>2, Zenon DEF Open, Watching
  <2>3. PICK s \in Orders(truth) :
           inbox' = Append([i \in DOMAIN s |-> [kind |-> "added", rule |-> s[i]]], [kind |-> "end"])
    BY <1>2, Zenon DEF Open
  <2>4. s \in Seq(truth)
    BY <1>0, OrderFacts, Zenon
  <2> DEFINE n == Len(s)
  <2>5. n \in Nat /\ DOMAIN s = 1 .. n /\ \A i \in 1 .. n : s[i] \in truth
    BY <2>4
  <2> HIDE DEF n
  <2>6. \A i \in 1 .. n : [kind |-> "added", rule |-> s[i]] \in Events
    BY <1>0, <2>5, Zenon DEF Events
  <2>7. [i \in 1 .. n |-> [kind |-> "added", rule |-> s[i]]] \in Seq(Events)
    BY <2>5, <2>6
  <2>8. [kind |-> "end"] \in Events
    BY Zenon DEF Events
  <2> DEFINE t == [i \in 1 .. n |-> [kind |-> "added", rule |-> s[i]]] x == [kind |-> "end"]
  <2>9. inbox' = Append(t, x) /\ t \in Seq(Events) /\ x \in Events
    BY <2>3, <2>5, <2>7, <2>8, Zenon
  <2> HIDE DEF t, x
  <2>10. inbox' \in Seq(Events)
    BY <2>9
  <2> QED BY <1>0, <1>1, <2>1, <2>2, <2>10, Zenon DEF RulesKnown
<1>3. CASE Break
  <2>1. watch' \in Watching(SUBSET RulePool)
    BY <1>0, <1>3, Zenon DEF Break, Watching
  <2>2. UNCHANGED <<rules, cur>> /\ inbox' \in Seq(Events)
    BY <1>3 DEF Break
  <2> QED BY <1>0, <1>1, <2>1, <2>2, Zenon DEF RulesKnown
<1>4. CASE Flush
  <2>1. watch' \in Watching(SUBSET RulePool)
    BY <1>0, <1>4, Zenon DEF Flush, Watching
  <2>2. UNCHANGED <<rules, cur, inbox>>
    BY <1>4, Zenon DEF Flush
  <2> QED BY <1>0, <1>1, <2>1, <2>2, Zenon DEF RulesKnown
<1>5. ASSUME inbox # << >>, inbox' = Tail(inbox)
      PROVE  Head(inbox) \in Events /\ inbox' \in Seq(Events)
  BY <1>0, <1>5
<1>6. CASE RecvAdded
  <2>1. Head(inbox) \in Events /\ inbox' \in Seq(Events) /\ Head(inbox).kind = "added"
    BY <1>5, <1>6, Zenon DEF RecvAdded
  <2> DEFINE r == Head(inbox).rule
  <2>2. r \in RulePool
    BY <2>1, Zenon DEF Events
  <2> HIDE DEF r
  <2>3. CASE watch.inSnapshot
    <3>1. watch' = [watch EXCEPT !.pending = Add(watch.pending, r)] /\ UNCHANGED <<rules, cur>>
      BY <1>6, <2>3, Zenon DEF RecvAdded, r
    <3>2. Add(watch.pending, r) \in SUBSET RulePool
      BY <1>0, <2>2, AddDelKnown, Zenon
    <3>3. watch' \in Watching(SUBSET RulePool)
      BY <1>0, <3>1, <3>2, Zenon DEF Watching
    <3> QED BY <1>0, <1>1, <2>1, <3>1, <3>3, Zenon DEF RulesKnown
  <2>4. CASE ~watch.inSnapshot
    <3>1. watch' = [watch EXCEPT !.pc = "flush"] /\ Apply(Add(rules, r))
      BY <1>6, <2>4, Zenon DEF RecvAdded, r
    <3>2. Add(rules, r) \in SUBSET RulePool
      BY <1>0, <2>2, AddDelKnown, Zenon
    <3>3. watch' \in Watching(SUBSET RulePool)
      BY <1>0, <3>1, Zenon DEF Watching
    <3>4. rules' \subseteq RulePool /\ cur' \in Orders(rules')
      BY <3>1, <3>2, ApplyKnown, Zenon
    <3> QED BY <1>0, <1>1, <2>1, <3>3, <3>4, Zenon DEF RulesKnown
  <2> QED BY <2>3, <2>4, Zenon
<1>7. CASE RecvRemoved
  <2>1. inbox' \in Seq(Events)
    BY <1>5, <1>7, Zenon DEF RecvRemoved
  <2>2. watch' = [watch EXCEPT !.pc = "flush"] /\ Apply(Del(rules, Head(inbox).id))
    BY <1>7, Zenon DEF RecvRemoved
  <2>3. Del(rules, Head(inbox).id) \in SUBSET RulePool
    BY <1>0, Zenon DEF Del
  <2>4. watch' \in Watching(SUBSET RulePool)
    BY <1>0, <2>2, Zenon DEF Watching
  <2>5. rules' \subseteq RulePool /\ cur' \in Orders(rules')
    BY <2>2, <2>3, ApplyKnown, Zenon
  <2> QED BY <1>0, <1>1, <2>1, <2>4, <2>5, Zenon DEF RulesKnown
<1>8. CASE RecvSnapshotEnd
  <2>1. inbox' \in Seq(Events)
    BY <1>5, <1>8, Zenon DEF RecvSnapshotEnd
  <2>2. watch' \in Watching(SUBSET RulePool)
    BY <1>8, Zenon DEF RecvSnapshotEnd, Watching
  <2>3. rules' \subseteq RulePool /\ cur' \in Orders(rules')
    BY <1>0, <1>8, ApplyKnown, Zenon DEF RecvSnapshotEnd
  <2> QED BY <1>0, <1>1, <2>1, <2>2, <2>3, Zenon DEF RulesKnown
<1> QED BY <1>2, <1>3, <1>4, <1>6, <1>7, <1>8, Zenon DEF Watcher

\* Evaluations and time leave rules and snapshot alone.
LEMMA NextKnown == RulesKnown /\ [Next]_vars => RulesKnown'
<1> SUFFICES ASSUME RulesKnown, [Next]_vars PROVE RulesKnown'
  OBVIOUS
<1>1. ASSUME UNCHANGED <<truth, rules, cur, watch, inbox>> PROVE RulesKnown'
  BY <1>1, Zenon DEF RulesKnown
<1>2. ASSUME NEW e \in Evals, Evaluate(e) \/ \E k \in Keys : Get(e, k) PROVE RulesKnown'
  BY <1>1, <1>2, Zenon DEF Evaluate, Evict, EngineDecide, CachePut, Return, Get
<1>3. CASE Tick \/ UNCHANGED vars
  BY <1>1, <1>3, Zenon DEF Tick, vars
<1> QED BY <1>2, <1>3, ControllerKnown, WatcherKnown, Zenon DEF Next

\* The bounded comparison of the model is a case of GlobMeaning.
LEMMA GlobsAgree == GlobAsWritten
<1> SUFFICES ASSUME NEW p \in Strings({"a", "b", "*"}, MaxLength), NEW t \in Strings({"a", "b"}, MaxLength)
             PROVE  matchGlob(p, t) <=> Matches(p, t)
  BY Zenon DEF GlobAsWritten
<1> DEFINE C == {"a", "b", "*"}
<1>1. ASSUME NEW D \in SUBSET C, NEW s \in Strings(D, MaxLength) PROVE s \in Seq(C)
  <2>1. PICK m \in 0 .. MaxLength : s \in [1 .. m -> D]
    BY Zenon DEF Strings
  <2>2. s = [i \in 1 .. m |-> s[i]] /\ \A i \in 1 .. m : s[i] \in C
    BY <2>1, Zenon
  <2>3. m \in Nat
    BY PolicyConstants
  <2> HIDE DEF C
  <2>4. [i \in 1 .. m |-> s[i]] \in Seq(C)
    BY <2>2, <2>3
  <2> QED BY <2>2, <2>4, Zenon
<1>2. p \in Seq(C) /\ t \in Seq(C)
  BY <1>1, Zenon
<1> QED BY <1>2, GlobMeaning, Zenon

(***************************************************************************)
(* The engine always answers as its rules are written: by a rule in force  *)
(* that matches, an exact-target one if any does, and no if none does,     *)
(* whatever events, rebuilds and broken streams brought it there and       *)
(* whatever order the Go map listed the rules in.                          *)
(***************************************************************************)
THEOREM EngineEnforces == Spec => []EnforcedAsWritten
<1>1. RulesKnown => EnforcedAsWritten
  BY GlobsAgree, DecidedAsRanked, Zenon DEF EnforcedAsWritten
<1>2. Spec => []RulesKnown
  BY InitKnown, NextKnown, PTL DEF Spec
<1> QED BY <1>1, <1>2, PTL
=============================================================================
