--------------------------- MODULE CachingProofs ---------------------------
(***************************************************************************)
(* Proofs about what is cached.                                            *)
(*                                                                         *)
(* MemoryCache, for any keys, values, callers and writers: Inv is          *)
(* inductive.  The exactness of the inFlight map gives SingleFlight, and   *)
(* the history variable dirty carries what a call computed before a write  *)
(* over to the moment it is stored.                                        *)
(*                                                                         *)
(* AccessGrants, for any roles, places, contexts and number of rows: what  *)
(* reduceAccessGrants and the query compute is proved step by step along   *)
(* the sequence, by the least step at which it would fail; then a grant is *)
(* what its rows say, a change of rows that clears no key of a context     *)
(* leaves the records of the context, and an added row weakens none.       *)
(***************************************************************************)
EXTENDS AccessGrants, MemoryCache, Integers, WellFoundedInduction, TLAPS

-----------------------------------------------------------------------------
(* MemoryCache                                                             *)

(* The first state satisfies the invariant: nothing is cached or running. *)
LEMMA CacheInit == Init => Inv
BY MemoryCacheAssumption
   DEF Init, Inv, TypeOK, SingleFlight, InFlightExact, StaleOnlyByOverlap,
       IdleCall, Call, PCs, At, KeyOf, Running

(* A step of a call that leaves the map, the store and every other call    *)
(* alone and keeps the call running, or keeps it not running, preserves    *)
(* the invariant, as long as what the call has computed is current.        *)
LEMMA QuietStep ==
    ASSUME Inv, NEW c \in Callers, NEW q \in Call,
           Become(c, q),
           UNCHANGED <<source, cache, inFlight, writer, dirty>>,
           q.pc # "idle" => q.key \in Keys,
           (q.pc \in Running) <=> (caller[c].pc \in Running),
           q.pc \in Running => q.key = caller[c].key,
           q.pc = "wait" => inFlight[q.key] # Nil,
           q.pc = "computed" => q.val = source[q.key]
    PROVE  Inv'
<1>1. TypeOK'
  BY DEF Inv, TypeOK, Become, KeyOf
<1>2. \A d \in Callers : caller'[d] = IF d = c THEN q ELSE caller[d]
  BY DEF Inv, TypeOK, Become
<1>3. InFlightExact'
  BY <1>2 DEF Inv, TypeOK, InFlightExact, At, KeyOf
<1>4. SingleFlight'
  BY <1>2 DEF Inv, TypeOK, SingleFlight, KeyOf
<1>5. StaleOnlyByOverlap'
  BY <1>2 DEF Inv, TypeOK, StaleOnlyByOverlap, At, KeyOf
<1> QED
  BY <1>1, <1>3, <1>4, <1>5 DEF Inv

(* Settling the promise that a call runs preserves the invariant. *)
LEMMA SettleStep ==
    ASSUME Inv, NEW c \in Callers, caller[c].pc \in Running, Settle(c),
           UNCHANGED <<source, cache, writer, dirty>>
    PROVE  Inv'
<1>1. KeyOf(c) \in Keys /\ inFlight[KeyOf(c)] = c
  BY DEF Inv, TypeOK, InFlightExact, KeyOf, Running
<1>2. IdleCall \in Call /\ IdleCall.pc = "idle"
  BY DEF IdleCall, Call, PCs
<1>3. TypeOK'
  BY <1>1, <1>2 DEF Inv, TypeOK, Settle, KeyOf, At
<1>4. \A d \in Callers :
        \/ caller'[d] = caller[d] /\ d # c
           /\ ~(caller[d].pc = "wait" /\ caller[d].key = caller[c].key)
        \/ caller'[d] = IdleCall
           /\ (d = c \/ (caller[d].pc = "wait" /\ caller[d].key = caller[c].key))
  BY DEF Inv, TypeOK, Settle, At, KeyOf
<1>5. InFlightExact'
  <2>1. ASSUME NEW k \in Keys, NEW d \in Callers
        PROVE  (inFlight'[k] = d) <=> (caller'[d].pc \in Running /\ caller'[d].key = k)
    <3>1. CASE k = caller[c].key
      <4>1. inFlight'[k] = Nil
        BY <3>1 DEF Inv, TypeOK, Settle, KeyOf
      <4>2. caller[d].pc \in Running /\ caller[d].key = k => d = c
        BY <3>1, <1>1 DEF Inv, InFlightExact, KeyOf
      <4> QED
        BY <4>1, <4>2, <1>2, <1>4, MemoryCacheAssumption DEF Running
    <3>2. CASE k # caller[c].key
      <4>1. inFlight'[k] = inFlight[k]
        BY <3>2 DEF Inv, TypeOK, Settle, KeyOf
      <4>2. (caller'[d].pc \in Running /\ caller'[d].key = k)
              <=> (caller[d].pc \in Running /\ caller[d].key = k)
        BY <3>2, <1>2, <1>4 DEF Running
      <4> QED
        BY <4>1, <4>2 DEF Inv, InFlightExact, KeyOf
    <3> QED
      BY <3>1, <3>2
  <2>2. ASSUME NEW d \in Callers, caller'[d].pc = "wait"
        PROVE  inFlight'[caller'[d].key] # Nil
    BY <2>2, <1>1, <1>2, <1>4 DEF Inv, TypeOK, InFlightExact, Settle, At, KeyOf
  <2> QED
    BY <2>1, <2>2 DEF InFlightExact, At, KeyOf
<1>6. SingleFlight'
  BY <1>2, <1>4 DEF Inv, SingleFlight, KeyOf, Running
<1>7. StaleOnlyByOverlap'
  BY <1>2, <1>4 DEF Inv, StaleOnlyByOverlap, At, KeyOf
<1> QED
  BY <1>3, <1>5, <1>6, <1>7 DEF Inv

(* A step outside the calls keeps the parts of the invariant about them. *)
LEMMA OutsideStep ==
    ASSUME Inv, UNCHANGED <<inFlight, caller>>
    PROVE  SingleFlight' /\ InFlightExact'
BY DEF Inv, SingleFlight, InFlightExact, At, KeyOf

(* Removing the entry of a key preserves the part about staleness: a call  *)
(* that still holds an older value keeps the key dirty.                    *)
LEMMA CleanedSound ==
    ASSUME Inv, NEW k \in Keys,
           cache' = [cache EXCEPT ![k] = Nil], dirty' = Cleaned(k),
           UNCHANGED <<source, inFlight, caller>>,
           writer' \in [Writers -> Keys \cup {Nil}],
           \A w \in Writers : writer[w] # k => writer'[w] = writer[w]
    PROVE  Inv'
<1>1. TypeOK'
  BY DEF Inv, TypeOK, Cleaned, KeyOf
<1>2. \A j \in Keys : cache'[j] = IF j = k THEN Nil ELSE cache[j]
  BY DEF Inv, TypeOK
<1>3. \A j \in Keys : j # k /\ j \in dirty => j \in dirty'
  BY DEF Cleaned
<1>4. ASSUME NEW c \in Callers, At(c, "computed"), caller[c].val # source[KeyOf(c)]
      PROVE  KeyOf(c) \in dirty'
  <2>1. KeyOf(c) \in dirty /\ KeyOf(c) \in Keys
    BY <1>4 DEF Inv, TypeOK, StaleOnlyByOverlap, At
  <2>2. KeyOf(c) = k => Holding(k)
    BY <1>4 DEF Holding
  <2> QED
    BY <2>1, <2>2 DEF Cleaned
<1>5. \A j \in Keys : cache'[j] \notin {Nil, source'[j]} =>
         j \in dirty' \/ \E w \in Writers : writer'[w] = j
  BY <1>2, <1>3 DEF Inv, StaleOnlyByOverlap
<1> QED
  BY <1>1, <1>4, <1>5, OutsideStep DEF Inv, StaleOnlyByOverlap, At, KeyOf

(* Every step of the calls, the writers and the store preserves it. *)
LEMMA CacheNext == Inv /\ [Next]_vars => Inv'
<1> SUFFICES ASSUME Inv, [Next]_vars PROVE Inv'
  OBVIOUS
<1> USE DEF PCs
<1>t. /\ source \in [Keys -> Values \cup {Nil}]
      /\ cache \in [Keys -> Values \cup {Nil}]
      /\ inFlight \in [Keys -> Callers \cup {Nil}]
      /\ caller \in [Callers -> Call]
      /\ \A c \in Callers : caller[c].pc # "idle" => caller[c].key \in Keys
  BY DEF Inv, TypeOK, KeyOf
<1>i. IdleCall \in Call /\ IdleCall.pc = "idle"
  BY DEF IdleCall, Call
<1>1. ASSUME NEW c \in Callers, GetOrSet(c) PROVE Inv'
  <2>1. PICK k \in Keys : Become(c, [pc |-> "get", key |-> k, val |-> Nil])
    BY <1>1 DEF GetOrSet
  <2>2. [pc |-> "get", key |-> k, val |-> Nil] \in Call
    BY DEF Call
  <2> QED
    BY <1>1, <2>1, <2>2, QuietStep DEF GetOrSet, At, Running
<1>2. ASSUME NEW c \in Callers, StoreGet(c) PROVE Inv'
  <2>1. caller[c].key \in Keys /\ cache[caller[c].key] \in Values \cup {Nil}
    BY <1>2, <1>t DEF StoreGet
  <2> DEFINE q == [caller[c] EXCEPT !.pc = IF @ = "get" THEN "got" ELSE "rechecked",
                                    !.val = cache[KeyOf(c)]]
  <2>2. /\ q \in Call /\ q.key = caller[c].key
        /\ q.pc = IF caller[c].pc = "get" THEN "got" ELSE "rechecked"
    BY <2>1, <1>t DEF Call, KeyOf
  <2>3. Become(c, q)
    BY <1>2 DEF StoreGet
  <2> HIDE DEF q
  <2> QED
    BY <1>2, <2>1, <2>2, <2>3, QuietStep DEF StoreGet, Running
<1>3. ASSUME NEW c \in Callers, GetFails(c) \/ ReturnCached(c) PROVE Inv'
  BY <1>3, <1>i, QuietStep DEF GetFails, ReturnCached, At, Running
<1>4. ASSUME NEW c \in Callers, JoinInFlight(c) PROVE Inv'
  <2> DEFINE q == [caller[c] EXCEPT !.pc = "wait"]
  <2>1. q \in Call /\ q.key = caller[c].key /\ q.pc = "wait"
    BY <1>t DEF Call
  <2>2. Become(c, q) /\ caller[c].key \in Keys /\ inFlight[q.key] # Nil
    BY <1>4, <1>t, <2>1 DEF JoinInFlight, Goto, At, KeyOf
  <2> HIDE DEF q
  <2> QED
    BY <1>4, <2>1, <2>2, QuietStep DEF JoinInFlight, At, Running
<1>5. ASSUME NEW c \in Callers, StartFlight(c) PROVE Inv'
  <2> DEFINE q == [caller[c] EXCEPT !.pc = "recheck"]
  <2>1. q \in Call /\ q.key = caller[c].key /\ q.pc = "recheck"
    BY <1>t DEF Call
  <2>2. /\ caller[c].key \in Keys /\ inFlight[caller[c].key] = Nil
        /\ inFlight' = [inFlight EXCEPT ![caller[c].key] = c]
        /\ caller[c].pc = "got"
        /\ caller' = [caller EXCEPT ![c] = q]
        /\ UNCHANGED <<source, cache, writer, dirty>>
    BY <1>5, <1>t DEF StartFlight, Goto, Become, At, KeyOf
  <2> HIDE DEF q
  <2>3. \A d \in Callers : caller'[d] = IF d = c THEN q ELSE caller[d]
    BY <2>2, <1>t
  <2>4. TypeOK'
    BY <2>1, <2>2, <2>3 DEF Inv, TypeOK, KeyOf
  <2>5. InFlightExact'
    <3>1. ASSUME NEW k \in Keys, NEW d \in Callers
          PROVE  (inFlight'[k] = d) <=> (caller'[d].pc \in Running /\ caller'[d].key = k)
      <4>1. (inFlight[k] = d) <=> (caller[d].pc \in Running /\ caller[d].key = k)
        BY DEF Inv, InFlightExact, KeyOf
      <4> QED
        BY <4>1, <2>1, <2>2, <2>3, <1>t, MemoryCacheAssumption DEF Running
    <3>2. ASSUME NEW d \in Callers, caller'[d].pc = "wait"
          PROVE  inFlight'[caller'[d].key] # Nil
      BY <3>2, <2>1, <2>2, <2>3, <1>t, MemoryCacheAssumption
         DEF Inv, InFlightExact, At, KeyOf
    <3> QED
      BY <3>1, <3>2 DEF InFlightExact, At, KeyOf
  <2>6. SingleFlight'
    BY <2>4, <2>5, MemoryCacheAssumption DEF SingleFlight, InFlightExact, TypeOK, KeyOf, Running
  <2>7. StaleOnlyByOverlap'
    BY <2>1, <2>2, <2>3 DEF Inv, StaleOnlyByOverlap, At, KeyOf
  <2> QED
    BY <2>4, <2>5, <2>6, <2>7 DEF Inv
<1>6. ASSUME NEW c \in Callers, RecheckHit(c) \/ FlightFails(c) \/ Finish(c) PROVE Inv'
  BY <1>6, SettleStep DEF RecheckHit, FlightFails, Finish, At, Running
<1>7. ASSUME NEW c \in Callers, RecheckMiss(c) PROVE Inv'
  <2> DEFINE q == [caller[c] EXCEPT !.pc = "factory"]
  <2>1. q \in Call /\ q.key = caller[c].key /\ q.pc = "factory"
    BY <1>t DEF Call
  <2>2. Become(c, q) /\ caller[c].key \in Keys
    BY <1>7, <1>t DEF RecheckMiss, Goto, At
  <2> HIDE DEF q
  <2> QED
    BY <1>7, <2>1, <2>2, QuietStep DEF RecheckMiss, At, Running
<1>8. ASSUME NEW c \in Callers, Factory(c) PROVE Inv'
  <2>1. caller[c].key \in Keys /\ source[caller[c].key] \in Values \cup {Nil}
    BY <1>8, <1>t DEF Factory, At
  <2> DEFINE q == [caller[c] EXCEPT !.pc = "computed", !.val = source[KeyOf(c)]]
  <2>2. /\ q \in Call /\ q.key = caller[c].key /\ q.pc = "computed"
        /\ q.val = source[q.key]
    BY <2>1, <1>t DEF Call, KeyOf
  <2>3. Become(c, q)
    BY <1>8 DEF Factory
  <2> HIDE DEF q
  <2> QED
    BY <1>8, <2>1, <2>2, <2>3, QuietStep DEF Factory, At, Running
<1>9. ASSUME NEW c \in Callers, StoreSet(c) PROVE Inv'
  <2> DEFINE q == [caller[c] EXCEPT !.pc = "stored"]
  <2>1. q \in Call /\ q.key = caller[c].key /\ q.pc = "stored"
    BY <1>t DEF Call
  <2>2. /\ caller[c].key \in Keys /\ caller[c].pc = "computed"
        /\ caller[c].val \in Values \cup {Nil}
        /\ cache' = [cache EXCEPT ![caller[c].key] = caller[c].val]
        /\ caller' = [caller EXCEPT ![c] = q]
        /\ UNCHANGED <<source, inFlight, writer, dirty>>
    BY <1>9, <1>t DEF StoreSet, Goto, Become, At, KeyOf, Call
  <2> HIDE DEF q
  <2>3. \A d \in Callers : caller'[d] = IF d = c THEN q ELSE caller[d]
    BY <2>2, <1>t
  <2>4. TypeOK'
    BY <2>1, <2>2, <2>3 DEF Inv, TypeOK, KeyOf
  <2>5. InFlightExact' /\ SingleFlight'
    BY <2>1, <2>2, <2>3 DEF Inv, InFlightExact, SingleFlight, At, KeyOf, Running
  <2>6. StaleOnlyByOverlap'
    BY <2>1, <2>2, <2>3, <1>t DEF Inv, StaleOnlyByOverlap, At, KeyOf
  <2> QED
    BY <2>4, <2>5, <2>6 DEF Inv
<1>10. ASSUME NEW w \in Writers, Commit(w) PROVE Inv'
  <2>1. PICK k \in Keys, v \in Values \cup {Nil} :
          /\ source' = [source EXCEPT ![k] = v]
          /\ writer' = [writer EXCEPT ![w] = k]
          /\ dirty' = IF Holding(k) THEN dirty \cup {k} ELSE dirty
    BY <1>10 DEF Commit
  <2>2. writer[w] = Nil /\ UNCHANGED <<cache, inFlight, caller>>
    BY <1>10 DEF Commit
  <2>3. TypeOK'
    BY <2>1, <2>2 DEF Inv, TypeOK, KeyOf
  <2>4. ASSUME NEW j \in Keys, cache'[j] \notin {Nil, source'[j]}
        PROVE  j \in dirty' \/ \E x \in Writers : writer'[x] = j
    BY <2>1, <2>2, <2>4, MemoryCacheAssumption DEF Inv, TypeOK, StaleOnlyByOverlap
  <2>5. ASSUME NEW c \in Callers, At(c, "computed"), caller[c].val # source'[KeyOf(c)]
        PROVE  KeyOf(c) \in dirty'
    BY <2>1, <2>5 DEF Inv, TypeOK, StaleOnlyByOverlap, Holding, At, KeyOf
  <2> QED
    BY <2>2, <2>3, <2>4, <2>5, OutsideStep DEF Inv, StaleOnlyByOverlap, At, KeyOf
<1>11. ASSUME NEW w \in Writers, Invalidate(w) PROVE Inv'
  <2>1. writer[w] \in Keys
    BY <1>11 DEF Inv, TypeOK, Invalidate
  <2>2. /\ writer' \in [Writers -> Keys \cup {Nil}]
        /\ \A x \in Writers : writer[x] # writer[w] => writer'[x] = writer[x]
    BY <1>11 DEF Inv, TypeOK, Invalidate
  <2> QED
    BY <1>11, <2>1, <2>2, CleanedSound DEF Invalidate
<1>12. ASSUME NEW w \in Writers, InvalidateFails(w) PROVE Inv'
  <2>1. TypeOK'
    BY <1>12 DEF Inv, TypeOK, InvalidateFails, KeyOf
  <2>2. StaleOnlyByOverlap'
    BY <1>12 DEF Inv, TypeOK, StaleOnlyByOverlap, InvalidateFails, At, KeyOf
  <2> QED
    BY <1>12, <2>1, <2>2, OutsideStep DEF Inv, InvalidateFails
<1>13. ASSUME NEW k \in Keys, Expire(k) PROVE Inv'
  BY <1>13, CleanedSound DEF Expire, Inv, TypeOK
<1>14. CASE UNCHANGED vars
  BY <1>14 DEF vars, Inv, TypeOK, SingleFlight, InFlightExact, StaleOnlyByOverlap, At, KeyOf
<1> QED
  BY <1>1, <1>2, <1>3, <1>4, <1>5, <1>6, <1>7, <1>8, <1>9, <1>10, <1>11, <1>12,
     <1>13, <1>14 DEF Next, Advance

(* The inductive invariant of MemoryCacheService holds in every state. *)
THEOREM CacheSafety == Spec => []Inv
BY CacheInit, CacheNext, PTL DEF Spec

(* getOrSet keeps its promise of one factory call per key at a time for    *)
(* any number of concurrent calls, with factories that reject included.    *)
THEOREM OneFactoryPerKey == Spec => []SingleFlight
BY CacheSafety, PTL DEF Inv

(* No call joins a promise that has settled, and none is left in the map. *)
THEOREM NoLeakedFlight == Spec => []InFlightExact
BY CacheSafety, PTL DEF Inv

(* Stale data outlives its invalidation only through a fill that overlaps  *)
(* the write, or a delete that failed.                                     *)
THEOREM StaleNeedsOverlap == Spec => []StaleOnlyByOverlap
BY CacheSafety, PTL DEF Inv

-----------------------------------------------------------------------------
(* AccessGrants: sequences, and what is kept of them                       *)

(* A set of naturals that is not empty has a least element. *)
LEMMA LeastNumber ==
    ASSUME NEW T, T \subseteq Nat, T # {}
    PROVE  \E x \in T : \A y \in T : x <= y
<1>1. IsWellFoundedOn(OpToRel(<, Nat), Nat)
  BY NatLessThanWellFounded
<1>2. PICK x \in T : \A y \in T : ~ (<<y, x>> \in OpToRel(<, Nat))
  BY <1>1, WFMin
<1>3. \A y \in T : y \in Nat /\ x \in Nat /\ ~(y < x)
  BY <1>2 DEF OpToRel
<1>4. \A y \in T : x <= y
  BY <1>3
<1> QED
  BY <1>4

(* What holds at 0 and passes from one number to the next holds up to n. *)
LEMMA UpTo ==
    ASSUME NEW n \in Nat, NEW T, 0 \in T,
           \A i \in 1 .. n : i - 1 \in T => i \in T
    PROVE  \A i \in 0 .. n : i \in T
<1> SUFFICES ASSUME NEW k \in 0 .. n, k \notin T PROVE FALSE
  OBVIOUS
<1> DEFINE Bad == {i \in 0 .. n : i \notin T}
<1>1. PICK m \in Bad : \A y \in Bad : m <= y
  <2>1. Bad \subseteq Nat /\ Bad # {}
    OBVIOUS
  <2> HIDE DEF Bad
  <2> QED
    BY <2>1, LeastNumber
<1>2. m \in 1 .. n /\ m - 1 \in 0 .. n /\ m - 1 \notin Bad
  BY <1>1
<1> QED
  BY <1>1, <1>2

(* What a becomes in k steps. *)
Carried(f, k, V, a, step) ==
    /\ f \in [0 .. k -> V] /\ f[0] = a
    /\ \A i \in 1 .. k : f[i] = step[<<i, f[i - 1]>>]

(* A value that is carried on step by step is a function of the step. *)
LEMMA StepByStep ==
    ASSUME NEW n \in Nat, NEW V, NEW a \in V, NEW step \in [(1 .. n) \X V -> V]
    PROVE  \E f : Carried(f, n, V, a, step)
<1> DEFINE Reached(k, f) == Carried(f, k, V, a, step)
           T == {k \in 0 .. n : \E f : Reached(k, f)}
<1>1. 0 \in T
  <2> DEFINE g == [i \in 0 .. 0 |-> a]
  <2>1. g \in [0 .. 0 -> V] /\ g[0] = a
    OBVIOUS
  <2>2. Reached(0, g)
    BY <2>1 DEF Carried
  <2> HIDE DEF g, Reached
  <2> QED
    BY <2>2
<1>2. ASSUME NEW k \in 1 .. n, k - 1 \in T PROVE k \in T
  <2>0. PICK f : Reached(k - 1, f)
    BY <1>2
  <2>1. /\ f \in [0 .. (k - 1) -> V] /\ f[0] = a
        /\ \A i \in 1 .. (k - 1) : f[i] = step[<<i, f[i - 1]>>]
    BY <2>0 DEF Carried
  <2> DEFINE v == step[<<k, f[k - 1]>>]
             g == [i \in 0 .. k |-> IF i = k THEN v ELSE f[i]]
  <2>2. k - 1 \in 0 .. (k - 1) /\ f[k - 1] \in V
    BY <2>1
  <2>3. v \in V
    BY <2>2
  <2>4. \A i \in 0 .. k : i # k => i \in 0 .. (k - 1)
    OBVIOUS
  <2> HIDE DEF v
  <2>5. g \in [0 .. k -> V]
    BY <2>1, <2>3, <2>4
  <2>6. g[0] = a
    BY <2>1
  <2>7. ASSUME NEW i \in 1 .. k PROVE g[i] = step[<<i, g[i - 1]>>]
    <3>1. CASE i = k
      <4>1. k \in 0 .. k /\ k - 1 \in 0 .. k /\ k - 1 # k
        OBVIOUS
      <4>2. g[k] = v /\ g[k - 1] = f[k - 1]
        BY <4>1
      <4> QED
        BY <3>1, <4>2 DEF v
    <3>2. CASE i # k
      <4>1. i \in 1 .. (k - 1) /\ i \in 0 .. k /\ i - 1 \in 0 .. k /\ i - 1 # k
        BY <3>2
      <4>2. f[i] = step[<<i, f[i - 1]>>]
        BY <2>1, <4>1
      <4>3. g[i] = f[i] /\ g[i - 1] = f[i - 1]
        BY <3>2, <4>1
      <4> QED
        BY <4>2, <4>3
    <3> QED
      BY <3>1, <3>2
  <2> HIDE DEF g
  <2>8. Reached(k, g)
    BY <2>5, <2>6, <2>7 DEF Carried
  <2> HIDE DEF Reached
  <2> QED
    BY <2>8
<1>3. \A i \in 0 .. n : i \in T
  <2> HIDE DEF T
  <2> QED
    BY <1>1, <1>2, UpTo
<1>4. n \in T
  <2>1. n \in 0 .. n
    OBVIOUS
  <2> QED
    BY <1>3, <2>1
<1> QED
  BY <1>4

(* f and g start alike and stay so. *)
InStep(f, g, n) == f[0] = g[0] /\ \A i \in 1 .. n : f[i - 1] = g[i - 1] => f[i] = g[i]

(* Two values carried on by the same steps are the same. *)
LEMMA SameSteps ==
    ASSUME NEW n \in Nat, NEW f, NEW g, InStep(f, g, n)
    PROVE  \A i \in 0 .. n : f[i] = g[i]
<1> DEFINE T == {i \in 0 .. n : f[i] = g[i]}
<1>1. 0 \in T /\ \A i \in 1 .. n : i - 1 \in T => i \in T
  BY DEF InStep
<1> HIDE DEF T
<1>2. \A i \in 0 .. n : i \in T
  BY <1>1, UpTo
<1> QED
  BY <1>2 DEF T

(* f is what Kept has of the first elements. *)
KeptAlong(f, X, s, S) ==
    /\ f \in [0 .. Len(s) -> Seq(X)]
    /\ f[0] = <<>>
    /\ \A i \in 1 .. Len(s) : f[i] = IF s[i] \in S THEN Append(f[i - 1], s[i]) ELSE f[i - 1]
    /\ Kept(s, S) = f[Len(s)]

(* Kept is built up element by element. *)
LEMMA KeptSteps ==
    ASSUME NEW X, NEW s \in Seq(X), NEW S
    PROVE  \E f : KeptAlong(f, X, s, S)
<1> DEFINE n == Len(s)
           V == Seq(X)
           step == [p \in (1 .. n) \X V |-> IF s[p[1]] \in S THEN Append(p[2], s[p[1]]) ELSE p[2]]
<1>1. n \in Nat /\ <<>> \in V /\ \A i \in 1 .. n : s[i] \in X
  OBVIOUS
<1>2. step \in [(1 .. n) \X V -> V]
  <2>1. ASSUME NEW p \in (1 .. n) \X V
        PROVE  (IF s[p[1]] \in S THEN Append(p[2], s[p[1]]) ELSE p[2]) \in V
    <3>1. p[1] \in 1 .. n /\ p[2] \in Seq(X) /\ s[p[1]] \in X
      BY <1>1
    <3> QED
      BY <3>1
  <2> HIDE DEF V
  <2> QED
    BY <2>1
<1>3. PICK f : f \in [0 .. n -> V] /\ f[0] = <<>> /\ \A i \in 1 .. n : f[i] = step[<<i, f[i - 1]>>]
  <2> HIDE DEF step, n, V
  <2>1. PICK a : a = <<>>
    OBVIOUS
  <2>2. PICK f : Carried(f, n, V, a, step)
    BY <1>1, <1>2, <2>1, StepByStep
  <2> QED
    BY <2>1, <2>2 DEF Carried
<1>4. ASSUME NEW i \in 1 .. n
      PROVE  f[i] = IF s[i] \in S THEN Append(f[i - 1], s[i]) ELSE f[i - 1]
  <2>1. i - 1 \in 0 .. n /\ f[i - 1] \in V
    BY <1>1, <1>3
  <2>2. <<i, f[i - 1]>> \in (1 .. n) \X V
    BY <2>1
  <2> HIDE DEF V, n
  <2> QED
    BY <2>2, <1>3
<1> DEFINE Body(g) == [i \in 0 .. Len(s) |-> IF i = 0 THEN <<>> ELSE IF s[i] \in S
                                              THEN Append(g[i - 1], s[i]) ELSE g[i - 1]]
<1>5. f = Body(f)
  <2>1. f = [i \in 0 .. n |-> f[i]]
    BY <1>3
  <2>2. \A i \in 0 .. n : i = 0 \/ i \in 1 .. n
    BY <1>1
  <2> HIDE DEF V
  <2> QED
    BY <2>1, <2>2, <1>3, <1>4
<1> DEFINE kept == CHOOSE g : g = Body(g)
<1>6. kept = Body(kept)
  BY <1>5
<1>7. Kept(s, S) = kept[n]
  BY DEF Kept
<1>8. kept[0] = f[0]
  <2>1. 0 \in 0 .. n
    BY <1>1
  <2>2. Body(kept)[0] = <<>>
    BY <2>1
  <2> HIDE DEF Body, kept
  <2> QED
    BY <2>2, <1>3, <1>6
<1>9. ASSUME NEW i \in 1 .. n, kept[i - 1] = f[i - 1] PROVE kept[i] = f[i]
  <2>1. i \in 0 .. n /\ i # 0
    BY <1>1
  <2>2. Body(kept)[i] = IF s[i] \in S THEN Append(kept[i - 1], s[i]) ELSE kept[i - 1]
    <3> HIDE DEF kept
    <3> QED
      BY <2>1
  <2> HIDE DEF Body, kept, V, n
  <2> QED
    BY <2>2, <1>6, <1>4, <1>9
<1>10. \A i \in 0 .. n : kept[i] = f[i]
  <2> HIDE DEF Body, kept, V, n
  <2>1. InStep(kept, f, n)
    BY <1>8, <1>9 DEF InStep
  <2> QED
    BY <1>1, <2>1, SameSteps
<1>11. kept[n] = f[n]
  <2>1. n \in 0 .. n
    BY <1>1
  <2> HIDE DEF kept, n
  <2> QED
    BY <2>1, <1>10
<1> HIDE DEF kept
<1> QED
  BY <1>3, <1>4, <1>7, <1>11 DEF KeptAlong

(* Kept is a sequence that is no longer. *)
LEMMA KeptType ==
    ASSUME NEW X, NEW s \in Seq(X), NEW S
    PROVE  Kept(s, S) \in Seq(X) /\ Len(Kept(s, S)) <= Len(s)
<1>1a. PICK f : KeptAlong(f, X, s, S)
  BY KeptSteps
<1>1. /\ f \in [0 .. Len(s) -> Seq(X)] /\ f[0] = <<>> /\ Kept(s, S) = f[Len(s)]
     /\ \A i \in 1 .. Len(s) : f[i] = IF s[i] \in S THEN Append(f[i - 1], s[i]) ELSE f[i - 1]
  BY <1>1a DEF KeptAlong
<1> DEFINE T == {i \in 0 .. Len(s) : Len(f[i]) <= i}
<1>2. 0 \in T
  BY <1>1
<1>3. ASSUME NEW i \in 1 .. Len(s), i - 1 \in T PROVE i \in T
  <2>1. i - 1 \in 0 .. Len(s) /\ f[i - 1] \in Seq(X) /\ Len(f[i - 1]) <= i - 1 /\ i \in 0 .. Len(s)
        /\ s[i] \in X
    BY <1>1, <1>3
  <2>2. f[i] = IF s[i] \in S THEN Append(f[i - 1], s[i]) ELSE f[i - 1]
    BY <1>1
  <2>3. Len(Append(f[i - 1], s[i])) = Len(f[i - 1]) + 1 /\ Len(f[i - 1]) \in Nat
    BY <2>1
  <2>4. Len(f[i]) <= i
    BY <2>1, <2>2, <2>3
  <2> QED
    BY <2>1, <2>4
<1>4. \A i \in 0 .. Len(s) : i \in T
  <2>1. Len(s) \in Nat
    OBVIOUS
  <2> HIDE DEF T
  <2> QED
    BY <2>1, <1>2, <1>3, UpTo
<1>5. Len(s) \in 0 .. Len(s) /\ Len(s) \in T
  BY <1>4
<1> QED
  BY <1>1, <1>5

(* What is appended is added to the elements. *)
LEMMA RangeAppend ==
    ASSUME NEW X, NEW t \in Seq(X), NEW x \in X
    PROVE  Range(Append(t, x)) = Range(t) \cup {x}
<1>1. \A y : y \in Range(t) <=> \E i \in 1 .. Len(t) : y = t[i]
  BY DEF Range
<1>2. /\ DOMAIN Append(t, x) = 1 .. (Len(t) + 1)
      /\ Append(t, x)[Len(t) + 1] = x
      /\ \A i \in 1 .. Len(t) : Append(t, x)[i] = t[i]
  OBVIOUS
<1>3. \A y : y \in Range(Append(t, x)) <=> \E i \in 1 .. (Len(t) + 1) : y = Append(t, x)[i]
  BY <1>2 DEF Range
<1>4. Len(t) \in Nat /\ \A i \in 1 .. (Len(t) + 1) : i \in 1 .. Len(t) \/ i = Len(t) + 1
  OBVIOUS
<1>5. \A y : y \in Range(Append(t, x)) <=> y \in Range(t) \/ y = x
  BY <1>1, <1>2, <1>3, <1>4
<1> QED
  BY <1>5

(* Kept has exactly the elements that are in the set. *)
LEMMA KeptRange ==
    ASSUME NEW X, NEW s \in Seq(X), NEW S
    PROVE  Range(Kept(s, S)) = Range(s) \cap S
<1>1a. PICK f : KeptAlong(f, X, s, S)
  BY KeptSteps
<1>1. /\ f \in [0 .. Len(s) -> Seq(X)] /\ f[0] = <<>> /\ Kept(s, S) = f[Len(s)]
     /\ \A i \in 1 .. Len(s) : f[i] = IF s[i] \in S THEN Append(f[i - 1], s[i]) ELSE f[i - 1]
  BY <1>1a DEF KeptAlong
<1> DEFINE First(i) == {x \in S : \E j \in 1 .. i : x = s[j]}
           T == {i \in 0 .. Len(s) : Range(f[i]) = First(i)}
<1>2. 0 \in T
  <2>1. f[0] = <<>>
    BY <1>1
  <2>2. Range(<<>>) = {}
    BY DEF Range
  <2>3. First(0) = {}
    OBVIOUS
  <2>4. 0 \in 0 .. Len(s)
    OBVIOUS
  <2> HIDE DEF First
  <2> QED
    BY <2>1, <2>2, <2>3, <2>4
<1>3. ASSUME NEW i \in 1 .. Len(s), i - 1 \in T PROVE i \in T
  <2>0. Range(f[i - 1]) = First(i - 1)
    BY <1>3
  <2>1. i - 1 \in 0 .. Len(s) /\ f[i - 1] \in Seq(X) /\ i \in 0 .. Len(s) /\ s[i] \in X
    <3> HIDE DEF First, T
    <3> QED
      BY <1>1
  <2>2. f[i] = IF s[i] \in S THEN Append(f[i - 1], s[i]) ELSE f[i - 1]
    BY <1>1
  <2>3. First(i) = IF s[i] \in S THEN First(i - 1) \cup {s[i]} ELSE First(i - 1)
    <3>1. \A j \in 1 .. i : j = i \/ j \in 1 .. (i - 1)
      OBVIOUS
    <3>2. i \in 1 .. i /\ \A j \in 1 .. (i - 1) : j \in 1 .. i
      OBVIOUS
    <3>3. \A x : x \in First(i) <=> x \in (IF s[i] \in S THEN First(i - 1) \cup {s[i]} ELSE First(i - 1))
      BY <3>1, <3>2
    <3> HIDE DEF First
    <3> QED
      BY <3>3
  <2> HIDE DEF First
  <2>4. PICK t, x : t = f[i - 1] /\ x = s[i]
    OBVIOUS
  <2>a. t \in Seq(X) /\ x \in X
    BY <2>1, <2>4
  <2>b. Range(Append(t, x)) = Range(t) \cup {x}
    BY <2>a, RangeAppend
  <2>5. Range(f[i]) = First(i)
    BY <2>0, <2>2, <2>3, <2>4, <2>b
  <2> QED
    BY <2>1, <2>5
<1>4. \A i \in 0 .. Len(s) : i \in T
  <2>1. Len(s) \in Nat
    OBVIOUS
  <2> HIDE DEF T
  <2> QED
    BY <2>1, <1>2, <1>3, UpTo
<1>5. Len(s) \in 0 .. Len(s) /\ Len(s) \in T
  BY <1>4
<1>6. First(Len(s)) = Range(s) \cap S
  BY DEF Range
<1> QED
  BY <1>1, <1>5, <1>6

(* What is not in the sequence does not matter to Kept. *)
LEMMA KeptSame ==
    ASSUME NEW X, NEW s \in Seq(X), NEW S, NEW T, Range(s) \cap S = Range(s) \cap T
    PROVE  Kept(s, S) = Kept(s, T)
<1>1a. PICK f : KeptAlong(f, X, s, S)
  BY KeptSteps
<1>1. /\ f \in [0 .. Len(s) -> Seq(X)] /\ f[0] = <<>> /\ Kept(s, S) = f[Len(s)]
     /\ \A i \in 1 .. Len(s) : f[i] = IF s[i] \in S THEN Append(f[i - 1], s[i]) ELSE f[i - 1]
  BY <1>1a DEF KeptAlong
<1>2a. PICK g : KeptAlong(g, X, s, T)
  BY KeptSteps
<1>2. /\ g \in [0 .. Len(s) -> Seq(X)] /\ g[0] = <<>> /\ Kept(s, T) = g[Len(s)]
     /\ \A i \in 1 .. Len(s) : g[i] = IF s[i] \in T THEN Append(g[i - 1], s[i]) ELSE g[i - 1]
  BY <1>2a DEF KeptAlong
<1>3. \A i \in 1 .. Len(s) : s[i] \in S <=> s[i] \in T
  <2>1. \A i \in 1 .. Len(s) : s[i] \in Range(s)
    BY DEF Range
  <2> QED
    BY <2>1
<1>4. Len(s) \in Nat /\ InStep(f, g, Len(s))
  BY <1>1, <1>2, <1>3 DEF InStep
<1>5. \A i \in 0 .. Len(s) : f[i] = g[i]
  BY <1>4, SameSteps
<1> QED
  BY <1>1, <1>2, <1>4, <1>5

(* What is appended comes last, if it is kept. *)
LEMMA KeptAppend ==
    ASSUME NEW X, NEW s \in Seq(X), NEW e \in X, NEW S
    PROVE  Kept(Append(s, e), S) = IF e \in S THEN Append(Kept(s, S), e) ELSE Kept(s, S)
<1> DEFINE t == Append(s, e)
<1>0. t \in Seq(X) /\ Len(s) \in Nat /\ Len(t) = Len(s) + 1 /\ t[Len(s) + 1] = e
      /\ \A i \in 1 .. Len(s) : t[i] = s[i]
  OBVIOUS
<1>1a. PICK f : KeptAlong(f, X, s, S)
  BY KeptSteps
<1>1. /\ f \in [0 .. Len(s) -> Seq(X)] /\ f[0] = <<>> /\ Kept(s, S) = f[Len(s)]
     /\ \A i \in 1 .. Len(s) : f[i] = IF s[i] \in S THEN Append(f[i - 1], s[i]) ELSE f[i - 1]
  BY <1>1a DEF KeptAlong
<1> HIDE DEF t
<1>2a. PICK g : KeptAlong(g, X, t, S)
  BY <1>0, KeptSteps
<1>2. /\ g \in [0 .. Len(t) -> Seq(X)] /\ g[0] = <<>> /\ Kept(t, S) = g[Len(t)]
     /\ \A i \in 1 .. Len(t) : g[i] = IF t[i] \in S THEN Append(g[i - 1], t[i]) ELSE g[i - 1]
  BY <1>2a DEF KeptAlong
<1>3. \A i \in 1 .. Len(s) : i \in 1 .. Len(t)
  BY <1>0
<1>4. InStep(f, g, Len(s))
  BY <1>0, <1>1, <1>2, <1>3 DEF InStep
<1>5. \A i \in 0 .. Len(s) : f[i] = g[i]
  BY <1>0, <1>4, SameSteps
<1>6. Len(s) \in 0 .. Len(s) /\ Len(s) + 1 \in 1 .. Len(t) /\ (Len(s) + 1) - 1 = Len(s)
  BY <1>0
<1>7. g[Len(t)] = IF e \in S THEN Append(g[Len(s)], e) ELSE g[Len(s)]
  BY <1>0, <1>2, <1>6
<1>8. g[Len(s)] = f[Len(s)]
  BY <1>5, <1>6
<1> QED
  BY <1>1, <1>2, <1>7, <1>8 DEF t

(* Keeping of what was kept. *)
LEMMA KeptTwice ==
    ASSUME NEW X, NEW s \in Seq(X), NEW A, NEW B
    PROVE  Kept(Kept(s, A), B) = Kept(s, A \cap B)
<1>1a. PICK f : KeptAlong(f, X, s, A)
  BY KeptSteps
<1>1. /\ f \in [0 .. Len(s) -> Seq(X)] /\ f[0] = <<>> /\ Kept(s, A) = f[Len(s)]
     /\ \A i \in 1 .. Len(s) : f[i] = IF s[i] \in A THEN Append(f[i - 1], s[i]) ELSE f[i - 1]
  BY <1>1a DEF KeptAlong
<1> DEFINE U == A \cap B
<1>2a. PICK g : KeptAlong(g, X, s, U)
  <2> HIDE DEF U
  <2> QED
    BY KeptSteps
<1>2. /\ g \in [0 .. Len(s) -> Seq(X)] /\ g[0] = <<>> /\ Kept(s, U) = g[Len(s)]
     /\ \A i \in 1 .. Len(s) : g[i] = IF s[i] \in U THEN Append(g[i - 1], s[i]) ELSE g[i - 1]
  BY <1>2a DEF KeptAlong
<1> DEFINE h == [i \in 0 .. Len(s) |-> Kept(f[i], B)]
<1>3. h[0] = g[0]
  <2>0. <<>> \in Seq(X)
    OBVIOUS
  <2>1. PICK e : e = <<>>
    OBVIOUS
  <2>a. e \in Seq(X)
    BY <2>0, <2>1
  <2>2. PICK k : KeptAlong(k, X, e, B)
    BY <2>a, KeptSteps
  <2>3. Kept(e, B) = <<>>
    BY <2>1, <2>2 DEF KeptAlong
  <2> QED
    BY <1>1, <1>2, <2>1, <2>3
<1>4. ASSUME NEW i \in 1 .. Len(s), h[i - 1] = g[i - 1] PROVE h[i] = g[i]
  <2>1. i - 1 \in 0 .. Len(s) /\ i \in 0 .. Len(s) /\ f[i - 1] \in Seq(X) /\ s[i] \in X
    BY <1>1
  <2>2. Kept(Append(f[i - 1], s[i]), B)
          = IF s[i] \in B THEN Append(Kept(f[i - 1], B), s[i]) ELSE Kept(f[i - 1], B)
    <3>1. PICK v, e : v = f[i - 1] /\ e = s[i]
      OBVIOUS
    <3>a. v \in Seq(X) /\ e \in X
      BY <2>1, <3>1
    <3>2. Kept(Append(v, e), B) = IF e \in B THEN Append(Kept(v, B), e) ELSE Kept(v, B)
      BY <3>a, KeptAppend
    <3> QED
      BY <3>1, <3>2
  <2>3. h[i - 1] = Kept(f[i - 1], B) /\ h[i] = Kept(f[i], B)
    BY <2>1
  <2>4. f[i] = IF s[i] \in A THEN Append(f[i - 1], s[i]) ELSE f[i - 1]
    BY <1>1
  <2>5. g[i] = IF s[i] \in U THEN Append(g[i - 1], s[i]) ELSE g[i - 1]
    BY <1>2
  <2> HIDE DEF h
  <2>6. CASE s[i] \in A
    BY <2>6, <1>4, <2>2, <2>3, <2>4, <2>5
  <2>7. CASE s[i] \notin A
    BY <2>7, <1>4, <2>3, <2>4, <2>5
  <2> QED
    BY <2>6, <2>7
<1>5. \A i \in 0 .. Len(s) : h[i] = g[i]
  <2>1. PICK n, k : n = Len(s) /\ k = h
    OBVIOUS
  <2>2. n \in Nat /\ InStep(k, g, n)
    <3> HIDE DEF h
    <3> QED
      BY <2>1, <1>3, <1>4 DEF InStep
  <2>3. \A i \in 0 .. n : k[i] = g[i]
    BY <2>2, SameSteps
  <2> QED
    BY <2>1, <2>3
<1>6. Len(s) \in 0 .. Len(s)
  OBVIOUS
<1>7. h[Len(s)] = Kept(f[Len(s)], B)
  BY <1>6
<1> HIDE DEF h
<1>8. Kept(Kept(s, A), B) = Kept(s, U)
  BY <1>1, <1>2, <1>5, <1>6, <1>7
<1> QED
  BY <1>8

-----------------------------------------------------------------------------
(* The reduction of rows to a grant                                        *)

(* The ranks of the scopes. *)
LEMMA Ranks ==
    /\ Rank("SYSTEM") = 1 /\ Rank("GLOBAL") = 2 /\ Rank("CLIENT") = 3
    /\ Rank("SITE_GROUP") = 4 /\ Rank("SITE") = 5 /\ Rank("SELF") = 6
    /\ Range(SCOPE_HIERARCHY) = {"SYSTEM", "GLOBAL", "CLIENT", "SITE_GROUP", "SITE", "SELF"}
<1>1. DOMAIN SCOPE_HIERARCHY = 1 .. 6
  BY DEF SCOPE_HIERARCHY
<1>2. /\ SCOPE_HIERARCHY[1] = "SYSTEM" /\ SCOPE_HIERARCHY[2] = "GLOBAL"
      /\ SCOPE_HIERARCHY[3] = "CLIENT" /\ SCOPE_HIERARCHY[4] = "SITE_GROUP"
      /\ SCOPE_HIERARCHY[5] = "SITE" /\ SCOPE_HIERARCHY[6] = "SELF"
  BY DEF SCOPE_HIERARCHY
<1>3. 1 .. 6 = {1, 2, 3, 4, 5, 6}
  OBVIOUS
<1>4. ASSUME NEW k \in {1, 2, 3, 4, 5, 6} PROVE Rank(SCOPE_HIERARCHY[k]) = k
  <2>1. \A i \in DOMAIN SCOPE_HIERARCHY : SCOPE_HIERARCHY[i] = SCOPE_HIERARCHY[k] => i = k
    BY <1>1, <1>2, <1>3
  <2>2. k \in DOMAIN SCOPE_HIERARCHY
    BY <1>1, <1>3
  <2> QED
    BY <2>1, <2>2 DEF Rank
<1>5. /\ Rank(SCOPE_HIERARCHY[1]) = 1 /\ Rank(SCOPE_HIERARCHY[2]) = 2 /\ Rank(SCOPE_HIERARCHY[3]) = 3
      /\ Rank(SCOPE_HIERARCHY[4]) = 4 /\ Rank(SCOPE_HIERARCHY[5]) = 5 /\ Rank(SCOPE_HIERARCHY[6]) = 6
  BY <1>4
<1>6. \A x : x \in Range(SCOPE_HIERARCHY) <=> \E i \in {1, 2, 3, 4, 5, 6} : x = SCOPE_HIERARCHY[i]
  BY <1>1, <1>3 DEF Range
<1> QED
  BY <1>2, <1>5, <1>6

(* Scopes are ordered, and SELF is the least permissive. *)
LEMMA Scopes ==
    /\ \A s \in Range(SCOPE_HIERARCHY) :
          /\ IsScopeAtLeast(s, s) /\ IsScopeAtLeast(s, "SELF")
          /\ IsScopeAtLeast(s, "SYSTEM") => s = "SYSTEM"
    /\ \A s, t \in Range(SCOPE_HIERARCHY) : IsScopeAtLeast(s, t) \/ IsScopeAtLeast(t, s)
    /\ \A s, t, u \in Range(SCOPE_HIERARCHY) :
          IsScopeAtLeast(s, t) /\ IsScopeAtLeast(t, u) => IsScopeAtLeast(s, u)
<1>1. \A s \in Range(SCOPE_HIERARCHY) : Rank(s) \in 1 .. 6 /\ (Rank(s) = 1 => s = "SYSTEM")
  BY Ranks
<1>2. Rank("SELF") = 6 /\ Rank("SYSTEM") = 1
  BY Ranks
<1> QED
  BY <1>1, <1>2 DEF IsScopeAtLeast

(* What a row is. *)
LEMMA RowFacts ==
    ASSUME NEW row \in Row
    PROVE  /\ row.site \in Sites /\ row.role \in Roles
           /\ ScopeOf[row.role] \in Range(SCOPE_HIERARCHY)
           /\ CapabilitiesOf[row.role] \in SUBSET Capabilities
           /\ ClientOf[row.site] \in Clients
BY AccessGrantsAssumption DEF Row

(* A grant has the fields it is made of. *)
LEMMA GrantFields ==
    ASSUME NEW g \in Grants
    PROVE  /\ g.reason = "granted" /\ g.scope \in Range(SCOPE_HIERARCHY)
           /\ g.capabilities \in SUBSET Capabilities
           /\ g.client \in Clients /\ g.site \in Sites /\ g.role \in Roles
BY DEF Grants

(* The grant is that of the row. *)
Of(g, row) ==
    /\ g.scope = ScopeOf[row.role] /\ g.client = ClientOf[row.site]
    /\ g.site = row.site /\ g.role = row.role

(* A step of reduceAccessGrants takes the row's place if its scope is at   *)
(* least as permissive, and its capabilities in any case.                  *)
LEMMA MergedStep ==
    ASSUME NEW g \in Grants, NEW row \in Row
    PROVE  /\ Merged[g][row] \in Grants
           /\ Merged[g][row].capabilities = g.capabilities \cup CapabilitiesOf[row.role]
           /\ \/ IsScopeAtLeast(ScopeOf[row.role], g.scope) /\ Of(Merged[g][row], row)
              \/ /\ ~IsScopeAtLeast(ScopeOf[row.role], g.scope)
                 /\ Merged[g][row].scope = g.scope /\ Merged[g][row].client = g.client
                 /\ Merged[g][row].site = g.site /\ Merged[g][row].role = g.role
<1> DEFINE caps == g.capabilities \cup CapabilitiesOf[row.role]
           h == IF IsScopeAtLeast(ScopeOf[row.role], g.scope)
                THEN GrantOf(row, caps) ELSE [g EXCEPT !.capabilities = caps]
<1>1. Merged[g][row] = h
  BY DEF Merged
<1>2. caps \in SUBSET Capabilities
  BY RowFacts, GrantFields
<1> HIDE DEF caps
<1>3. CASE IsScopeAtLeast(ScopeOf[row.role], g.scope)
  <2>1. h = [reason |-> "granted", scope |-> ScopeOf[row.role], capabilities |-> caps,
             client |-> ClientOf[row.site], site |-> row.site, role |-> row.role]
    BY <1>3 DEF GrantOf, Grant
  <2> HIDE DEF h
  <2>2. h \in Grants
    BY <2>1, <1>2, RowFacts DEF Grants
  <2>3. Of(h, row) /\ h.capabilities = caps
    BY <2>1 DEF Of
  <2> QED
    BY <2>2, <2>3, <1>1, <1>3 DEF caps
<1>4. CASE ~IsScopeAtLeast(ScopeOf[row.role], g.scope)
  <2>1. h = [g EXCEPT !.capabilities = caps]
    BY <1>4
  <2> HIDE DEF h
  <2>2. /\ h \in Grants /\ h.capabilities = caps /\ h.scope = g.scope /\ h.client = g.client
        /\ h.site = g.site /\ h.role = g.role
    BY <2>1, <1>2 DEF Grants
  <2> QED
    BY <2>2, <1>1, <1>4 DEF caps
<1> QED
  BY <1>3, <1>4

(* What the rows grant together: the place and role of one of them, none   *)
(* with a more permissive scope, and the capabilities of all.              *)
Reduced(g, R) ==
    /\ g \in Grants
    /\ g.capabilities = UNION {CapabilitiesOf[row.role] : row \in R}
    /\ \E row \in R : Of(g, row)
    /\ \A row \in R : IsScopeAtLeast(g.scope, ScopeOf[row.role])

(* One row more. *)
LEMMA ReducedStep ==
    ASSUME NEW R, R \subseteq Row, NEW row \in Row, NEW g, Reduced(g, R)
    PROVE  Reduced(Merged[g][row], R \cup {row})
<1>1. PICK h : h = Merged[g][row]
  OBVIOUS
<1>2. g \in Grants /\ h \in Grants /\ h.capabilities = g.capabilities \cup CapabilitiesOf[row.role]
      /\ \/ IsScopeAtLeast(ScopeOf[row.role], g.scope) /\ Of(h, row)
         \/ /\ ~IsScopeAtLeast(ScopeOf[row.role], g.scope)
            /\ h.scope = g.scope /\ h.client = g.client /\ h.site = g.site /\ h.role = g.role
  BY <1>1, MergedStep DEF Reduced
<1>3. h.capabilities = UNION {CapabilitiesOf[r.role] : r \in R \cup {row}}
  BY <1>2 DEF Reduced
<1>4. \E r \in R \cup {row} : Of(h, r)
  BY <1>2 DEF Reduced, Of
<1>5. ASSUME NEW r \in R \cup {row} PROVE IsScopeAtLeast(h.scope, ScopeOf[r.role])
  <2>1. r \in Row
    OBVIOUS
  <2>2. /\ ScopeOf[r.role] \in Range(SCOPE_HIERARCHY) /\ ScopeOf[row.role] \in Range(SCOPE_HIERARCHY)
        /\ g.scope \in Range(SCOPE_HIERARCHY) /\ h.scope \in Range(SCOPE_HIERARCHY)
    BY <2>1, <1>2, RowFacts, GrantFields
  <2>3. r \in R => IsScopeAtLeast(g.scope, ScopeOf[r.role])
    BY DEF Reduced
  <2>4. CASE IsScopeAtLeast(ScopeOf[row.role], g.scope) /\ Of(h, row)
    <3>1. h.scope = ScopeOf[row.role]
      BY <2>4 DEF Of
    <3> QED
      BY <3>1, <2>2, <2>3, <2>4, Scopes
  <2>5. CASE ~IsScopeAtLeast(ScopeOf[row.role], g.scope) /\ h.scope = g.scope
    BY <2>5, <2>2, <2>3, Scopes
  <2> QED
    BY <1>2, <2>4, <2>5
<1> QED
  BY <1>1, <1>2, <1>3, <1>4, <1>5 DEF Reduced

(* reduceAccessGrants computes what the rows grant together, for any       *)
(* number of rows in any order.                                            *)
THEOREM ReduceSound ==
    ASSUME NEW rs \in Seq(Row), rs # <<>>
    PROVE  Reduced(ReduceAccessGrants[rs], Range(rs))
<1> DEFINE n == Len(rs)
           start == Grant("SELF", {}, ClientOf[rs[1].site], rs[1].site, rs[1].role)
           step == [p \in (1 .. n) \X Grants |-> Merged[p[2]][rs[p[1]]]]
           Body(f) == [i \in 0 .. Len(rs) |-> IF i = 0 THEN start ELSE Merged[f[i - 1]][rs[i]]]
           after == CHOOSE f : f = Body(f)
<1>1. n \in Nat /\ 1 \in 1 .. n /\ n \in 0 .. n /\ 0 \in 0 .. n /\ \A i \in 1 .. n : rs[i] \in Row
  OBVIOUS
<1>2. ReduceAccessGrants[rs] = after[n]
  BY DEF ReduceAccessGrants
<1>3. start = [reason |-> "granted", scope |-> "SELF", capabilities |-> {},
               client |-> ClientOf[rs[1].site], site |-> rs[1].site, role |-> rs[1].role]
  BY DEF Grant
<1>4. start \in Grants
  <2>1. rs[1] \in Row
    BY <1>1
  <2>2. /\ rs[1].site \in Sites /\ rs[1].role \in Roles /\ ClientOf[rs[1].site] \in Clients
    BY <2>1, RowFacts
  <2>3. "SELF" \in Range(SCOPE_HIERARCHY)
    BY Ranks
  <2> HIDE DEF start
  <2> QED
    BY <1>3, <2>2, <2>3 DEF Grants
<1>5. step \in [(1 .. n) \X Grants -> Grants]
  <2>1. ASSUME NEW p \in (1 .. n) \X Grants PROVE Merged[p[2]][rs[p[1]]] \in Grants
    <3>1. p[2] \in Grants /\ rs[p[1]] \in Row
      <4> HIDE DEF n
      <4> QED
        BY <1>1
    <3>2. PICK g, row : g = p[2] /\ row = rs[p[1]]
      OBVIOUS
    <3>3. g \in Grants /\ row \in Row
      BY <3>1, <3>2
    <3> QED
      BY <3>2, <3>3, MergedStep
  <2> HIDE DEF n
  <2> QED
    BY <2>1
<1>6. PICK f : Carried(f, n, Grants, start, step)
  <2> HIDE DEF n, start, step
  <2> QED
    BY <1>1, <1>4, <1>5, StepByStep
<1>7. f \in [0 .. n -> Grants] /\ f[0] = start /\ \A i \in 1 .. n : f[i] = step[<<i, f[i - 1]>>]
  <2> HIDE DEF n, start, step
  <2> QED
    BY <1>6 DEF Carried
<1>8. ASSUME NEW i \in 1 .. n PROVE f[i - 1] \in Grants /\ f[i] = Merged[f[i - 1]][rs[i]]
  <2>1. i - 1 \in 0 .. n /\ f[i - 1] \in Grants
    BY <1>1, <1>7
  <2>2. PICK p : p = <<i, f[i - 1]>>
    OBVIOUS
  <2>3. p \in (1 .. n) \X Grants /\ p[1] = i /\ p[2] = f[i - 1]
    BY <2>1, <2>2
  <2>4. step[p] = Merged[p[2]][rs[p[1]]]
    <3> HIDE DEF n
    <3> QED
      BY <2>3
  <2> HIDE DEF step
  <2> QED
    BY <2>1, <2>2, <2>3, <2>4, <1>7
<1>9. f = Body(f)
  <2>1. f = [i \in 0 .. n |-> f[i]]
    BY <1>7
  <2>2. \A i \in 0 .. n : i = 0 \/ i \in 1 .. n
    BY <1>1
  <2> HIDE DEF start
  <2> QED
    BY <2>1, <2>2, <1>7, <1>8
<1>10. after = Body(after)
  BY <1>9
<1>11. after[0] = f[0]
  <2>1. Body(after)[0] = start
    <3> HIDE DEF after, start
    <3> QED
      BY <1>1
  <2> HIDE DEF Body, after, start
  <2> QED
    BY <2>1, <1>7, <1>10
<1>12. ASSUME NEW i \in 1 .. n, after[i - 1] = f[i - 1] PROVE after[i] = f[i]
  <2>1. Body(after)[i] = Merged[after[i - 1]][rs[i]]
    <3>1. i \in 0 .. n /\ i # 0
      BY <1>1
    <3> HIDE DEF after, start
    <3> QED
      BY <3>1
  <2> HIDE DEF Body, after
  <2> QED
    BY <2>1, <1>8, <1>10, <1>12
<1>13. \A i \in 0 .. n : after[i] = f[i]
  <2> HIDE DEF Body, after, n
  <2>1. InStep(after, f, n)
    BY <1>11, <1>12 DEF InStep
  <2> QED
    BY <1>1, <2>1, SameSteps
<1> DEFINE First(i) == {rs[j] : j \in 1 .. i}
           T == {i \in 0 .. n : i = 0 \/ Reduced(f[i], First(i))}
<1>14. 0 \in T
  BY <1>1
<1>15. ASSUME NEW i \in 1 .. n, i - 1 \in T PROVE i \in T
  <2>1. i \in 0 .. n
    BY <1>1
  <2>2. CASE i = 1
    <3>1. f[1] = Merged[start][rs[1]]
      <4>1. f[1 - 1] = start
        BY <1>7
      <4> QED
        BY <4>1, <1>8, <2>2
    <3>2. PICK row : row = rs[1]
      OBVIOUS
    <3>3. row \in Row
      BY <1>1, <3>2
    <3>4. /\ Merged[start][row] \in Grants
          /\ Merged[start][row].capabilities = start.capabilities \cup CapabilitiesOf[row.role]
          /\ (IsScopeAtLeast(ScopeOf[row.role], start.scope) => Of(Merged[start][row], row))
      <4> HIDE DEF start
      <4> QED
        BY <1>4, <3>3, MergedStep
    <3>5. start.scope = "SELF" /\ start.capabilities = {}
      BY <1>3
    <3> HIDE DEF start
    <3>6. ScopeOf[row.role] \in Range(SCOPE_HIERARCHY)
      BY <3>3, RowFacts
    <3>7. PICK g : g = Merged[start][row]
      OBVIOUS
    <3>8. g \in Grants /\ g.capabilities = CapabilitiesOf[row.role] /\ Of(g, row)
      BY <3>4, <3>5, <3>6, <3>7, Scopes
    <3>9. IsScopeAtLeast(g.scope, ScopeOf[row.role])
      BY <3>6, <3>8, Scopes DEF Of
    <3>10. Reduced(g, {row})
      BY <3>8, <3>9 DEF Reduced
    <3>11. First(1) = {row}
      BY <3>2
    <3>12. Reduced(f[i], First(i))
      <4> HIDE DEF First
      <4> QED
        BY <2>2, <3>1, <3>2, <3>7, <3>10, <3>11
    <3> QED
      BY <2>1, <3>12
  <2>3. CASE i # 1
    <3>1. Reduced(f[i - 1], First(i - 1))
      BY <1>15, <2>3
    <3>2. First(i) = First(i - 1) \cup {rs[i]}
      BY <1>1
    <3>3. First(i - 1) \subseteq Row /\ rs[i] \in Row
      BY <1>1
    <3>4. PICK g, row, R : g = f[i - 1] /\ row = rs[i] /\ R = First(i - 1)
      OBVIOUS
    <3> HIDE DEF First
    <3>5. R \subseteq Row /\ row \in Row /\ Reduced(g, R)
      BY <3>1, <3>3, <3>4
    <3>6. Reduced(Merged[g][row], R \cup {row})
      BY <3>5, ReducedStep
    <3>7. Reduced(f[i], First(i))
      BY <3>2, <3>4, <3>6, <1>8
    <3> QED
      BY <2>1, <3>7
  <2> QED
    BY <2>2, <2>3
<1>16. \A i \in 0 .. n : i \in T
  <2> HIDE DEF T, n
  <2> QED
    BY <1>1, <1>14, <1>15, UpTo
<1>17. Reduced(f[n], First(n))
  <2>1. n # 0
    <3> HIDE DEF n
    <3> QED
      BY <1>1
  <2>2. n \in T
    <3> HIDE DEF n, T
    <3> QED
      BY <1>1, <1>16
  <2> HIDE DEF First, n
  <2> QED
    BY <2>1, <2>2
<1>18. First(n) = Range(rs)
  <2>1. DOMAIN rs = 1 .. n
    OBVIOUS
  <2> HIDE DEF n
  <2> QED
    BY <2>1 DEF Range
<1> HIDE DEF First, n, after
<1>19. after[n] = f[n]
  BY <1>1, <1>13
<1> QED
  BY <1>2, <1>17, <1>18, <1>19

(* A sequence is empty if it has no elements. *)
LEMMA EmptySequence ==
    ASSUME NEW X, NEW s \in Seq(X)
    PROVE  s = <<>> <=> Range(s) = {}
<1>1. s = <<>> => Range(s) = {}
  BY DEF Range
<1>2. ASSUME s # <<>> PROVE Range(s) # {}
  <2>1. 1 \in DOMAIN s
    BY <1>2
  <2> QED
    BY <2>1 DEF Range
<1> QED
  BY <1>1, <1>2

(* The elements of one sequence after another. *)
LEMMA RangeConcat ==
    ASSUME NEW X, NEW s \in Seq(X), NEW t \in Seq(X)
    PROVE  s \o t \in Seq(X) /\ Range(s \o t) = Range(s) \cup Range(t)
<1>1. /\ s \o t \in Seq(X) /\ Len(s) \in Nat /\ Len(t) \in Nat
      /\ DOMAIN (s \o t) = 1 .. (Len(s) + Len(t))
      /\ \A i \in 1 .. Len(s) : (s \o t)[i] = s[i]
      /\ \A i \in 1 .. Len(t) : (s \o t)[Len(s) + i] = t[i]
  OBVIOUS
<1>2. \A i \in 1 .. (Len(s) + Len(t)) : i \in 1 .. Len(s) \/ \E j \in 1 .. Len(t) : i = Len(s) + j
  <2> TAKE i \in 1 .. (Len(s) + Len(t))
  <2>1. CASE i \in 1 .. Len(s)
    BY <2>1
  <2>2. CASE i \notin 1 .. Len(s)
    <3>1. i - Len(s) \in 1 .. Len(t) /\ i = Len(s) + (i - Len(s))
      BY <1>1, <2>2
    <3> QED
      BY <3>1
  <2> QED
    BY <2>1, <2>2
<1>3. \A i \in 1 .. Len(s) : i \in 1 .. (Len(s) + Len(t))
  BY <1>1
<1>4. \A i \in 1 .. Len(t) : Len(s) + i \in 1 .. (Len(s) + Len(t))
  BY <1>1
<1>5. \A y : y \in Range(s \o t) <=> \E i \in 1 .. (Len(s) + Len(t)) : y = (s \o t)[i]
  BY <1>1 DEF Range
<1>6. \A y : y \in Range(s) <=> \E i \in 1 .. Len(s) : y = s[i]
  BY DEF Range
<1>7. \A y : y \in Range(t) <=> \E i \in 1 .. Len(t) : y = t[i]
  BY DEF Range
<1>u. PICK u : u = s \o t
  OBVIOUS
<1>8. ASSUME NEW y \in Range(u) PROVE y \in Range(s) \/ y \in Range(t)
  <2>1. PICK i \in 1 .. (Len(s) + Len(t)) : y = u[i]
    BY <1>5, <1>8, <1>u
  <2>2. CASE i \in 1 .. Len(s)
    BY <2>1, <2>2, <1>1, <1>6, <1>u
  <2>3. CASE \E j \in 1 .. Len(t) : i = Len(s) + j
    BY <2>1, <2>3, <1>1, <1>7, <1>u
  <2> QED
    BY <2>2, <2>3, <1>2
<1>9. ASSUME NEW y, y \in Range(s) \/ y \in Range(t) PROVE y \in Range(u)
  <2>1. CASE y \in Range(s)
    <3>1. PICK i \in 1 .. Len(s) : y = s[i]
      BY <2>1, <1>6
    <3>2. i \in 1 .. (Len(s) + Len(t)) /\ y = u[i]
      BY <3>1, <1>1, <1>3, <1>u
    <3> QED
      BY <3>2, <1>5, <1>u
  <2>2. CASE y \in Range(t)
    <3>1. PICK i \in 1 .. Len(t) : y = t[i]
      BY <2>2, <1>7
    <3>2. PICK k : k = Len(s) + i
      OBVIOUS
    <3>3. k \in 1 .. (Len(s) + Len(t)) /\ y = u[k]
      BY <3>1, <3>2, <1>1, <1>4, <1>u
    <3> QED
      BY <3>3, <1>5, <1>u
  <2> QED
    BY <1>9, <2>1, <2>2
<1>10. \A y : y \in Range(u) <=> y \in Range(s) \cup Range(t)
  BY <1>8, <1>9
<1> QED
  BY <1>1, <1>10, <1>u

(* Everything is kept if the set has it. *)
LEMMA KeptAll ==
    ASSUME NEW X, NEW s \in Seq(X), NEW S, Range(s) \subseteq S
    PROVE  Kept(s, S) = s
<1>1a. PICK f : KeptAlong(f, X, s, S)
  BY KeptSteps
<1>1. /\ f \in [0 .. Len(s) -> Seq(X)] /\ f[0] = <<>> /\ Kept(s, S) = f[Len(s)]
      /\ \A i \in 1 .. Len(s) : f[i] = IF s[i] \in S THEN Append(f[i - 1], s[i]) ELSE f[i - 1]
  BY <1>1a DEF KeptAlong
<1>2. \A i \in 1 .. Len(s) : s[i] \in S
  BY DEF Range
<1> DEFINE T == {i \in 0 .. Len(s) : Len(f[i]) = i /\ \A j \in 1 .. i : f[i][j] = s[j]}
<1>3. 0 \in T
  <2>1. Len(f[0]) = 0 /\ 0 \in 0 .. Len(s)
    BY <1>1
  <2>2. \A j \in 1 .. 0 : f[0][j] = s[j]
    OBVIOUS
  <2> QED
    BY <2>1, <2>2
<1>4. ASSUME NEW i \in 1 .. Len(s), i - 1 \in T PROVE i \in T
  <2>1. i - 1 \in 0 .. Len(s) /\ i \in 0 .. Len(s) /\ f[i - 1] \in Seq(X) /\ s[i] \in X
    <3>1. i - 1 \in 0 .. Len(s) /\ i \in 0 .. Len(s)
      OBVIOUS
    <3>2. f[i - 1] \in Seq(X)
      BY <3>1, <1>1
    <3>3. s[i] \in X
      OBVIOUS
    <3> QED
      BY <3>1, <3>2, <3>3
  <2>2. Len(f[i - 1]) = i - 1 /\ \A j \in 1 .. (i - 1) : f[i - 1][j] = s[j]
    BY <1>4
  <2>3. f[i] = Append(f[i - 1], s[i])
    BY <1>1, <1>2
  <2>4. PICK t, e : t = f[i - 1] /\ e = s[i]
    OBVIOUS
  <2>5. /\ t \in Seq(X) /\ e \in X /\ Len(t) = i - 1
        /\ Len(Append(t, e)) = i /\ Append(t, e)[i] = e
        /\ \A j \in 1 .. (i - 1) : Append(t, e)[j] = t[j]
    <3>1. t \in Seq(X) /\ e \in X /\ Len(t) = i - 1
      BY <2>1, <2>2, <2>4
    <3> QED
      BY <3>1
  <2>6. ASSUME NEW j \in 1 .. i PROVE f[i][j] = s[j]
    <3>1. CASE j = i
      BY <3>1, <2>3, <2>4, <2>5
    <3>2. CASE j # i
      <4>1. j \in 1 .. (i - 1)
        BY <3>2
      <4> QED
        BY <4>1, <2>2, <2>3, <2>4, <2>5
    <3> QED
      BY <3>1, <3>2
  <2> QED
    BY <2>1, <2>3, <2>4, <2>5, <2>6
<1>5. \A i \in 0 .. Len(s) : i \in T
  <2>1. Len(s) \in Nat
    OBVIOUS
  <2> HIDE DEF T
  <2> QED
    BY <2>1, <1>3, <1>4, UpTo
<1>6. Len(s) \in 0 .. Len(s) /\ Len(s) \in T
  BY <1>5
<1>7. /\ f[Len(s)] \in Seq(X) /\ Len(f[Len(s)]) = Len(s)
      /\ \A j \in 1 .. Len(s) : f[Len(s)][j] = s[j]
  BY <1>1, <1>6
<1>8. PICK t : t = f[Len(s)]
  OBVIOUS
<1>9. t \in Seq(X) /\ Len(t) = Len(s) /\ \A j \in 1 .. Len(s) : t[j] = s[j]
  BY <1>7, <1>8
<1>10. t = s
  <2>1. t = [i \in 1 .. Len(t) |-> t[i]] /\ s = [i \in 1 .. Len(s) |-> s[i]]
    BY <1>9
  <2> QED
    BY <1>9, <2>1
<1> QED
  BY <1>1, <1>8, <1>10

(* The rows, the context and the statuses are what they should be. *)
GrantsTyped ==
    /\ log \in Seq(Row) /\ primary \subseteq Rows
    /\ active \subseteq Clients \cup Sites
    /\ watch \in Context

(* The query gives the rows of the set. *)
LEMMA RecordsSound ==
    ASSUME log \in Seq(Row), NEW S
    PROVE  /\ AccessRecords(S) \in Seq(Row)
           /\ Range(AccessRecords(S)) = Rows \cap S
           /\ AccessRecords(S) = <<>> <=> Rows \cap S = {}
<1>1. PICK a, b : a = Kept(log, S \cap primary) /\ b = Kept(log, S \ primary)
  OBVIOUS
<1>2. PICK A, B : A = S \cap primary /\ B = S \ primary
  OBVIOUS
<1>3. Kept(log, A) \in Seq(Row) /\ Kept(log, B) \in Seq(Row)
  BY KeptType
<1>4. Range(Kept(log, A)) = Range(log) \cap A /\ Range(Kept(log, B)) = Range(log) \cap B
  BY KeptRange
<1>5. a \in Seq(Row) /\ b \in Seq(Row) /\ Range(a) \cup Range(b) = Rows \cap S
  BY <1>1, <1>2, <1>3, <1>4 DEF Rows
<1>6. a \o b \in Seq(Row) /\ Range(a \o b) = Range(a) \cup Range(b)
  BY <1>5, RangeConcat
<1>7. PICK rs : rs = a \o b
  OBVIOUS
<1>8. rs = <<>> <=> Range(rs) = {}
  BY <1>6, <1>7, EmptySequence
<1> QED
  BY <1>1, <1>5, <1>6, <1>7, <1>8 DEF AccessRecords

(* Without primary rows the query begins with the oldest. *)
LEMMA OldestFirst ==
    ASSUME log \in Seq(Row), primary = {}
    PROVE  AccessRecords(Rows) = log
<1>1. PICK A, B : A = Rows \cap primary /\ B = Rows \ primary
  OBVIOUS
<1>2. A = {} /\ B = Rows
  BY <1>1
<1>3. Kept(log, B) = log
  BY <1>2, KeptAll DEF Rows
<1>4. Kept(log, A) = <<>>
  <2>1. PICK e : e = Kept(log, A)
    OBVIOUS
  <2>2. e \in Seq(Row) /\ Range(e) = {}
    BY <1>2, <2>1, KeptType, KeptRange
  <2>3. e = <<>>
    BY <2>2, EmptySequence
  <2> QED
    BY <2>1, <2>3
<1>5. <<>> \o log = log
  OBVIOUS
<1> QED
  BY <1>1, <1>3, <1>4, <1>5 DEF AccessRecords

(* Nobody is admitted to what is inactive for the scope. *)
Serviceable(g) ==
    /\ IsScopeAtLeast(g.scope, "GLOBAL") \/ g.client \in active
    /\ IsScopeAtLeast(g.scope, "CLIENT") \/ g.site \in active

(* validateAndBuildAccessGrantResult grants what the rows do, or nothing   *)
(* when the place is inactive.                                             *)
LEMMA ValidatedSound ==
    ASSUME NEW rs \in Seq(Row), rs # <<>>
    PROVE  LET g == ValidateAndBuildAccessGrantResult(rs)
               h == ReduceAccessGrants[rs]
           IN  /\ Reduced(h, Range(rs))
               /\ (g = h /\ Serviceable(h)) \/ (g.reason # "granted" /\ ~Serviceable(h))
<1>1. PICK h : h = ReduceAccessGrants[rs]
  OBVIOUS
<1>2. Reduced(h, Range(rs))
  BY <1>1, ReduceSound
<1>3. ValidateAndBuildAccessGrantResult(rs) = Validated(h)
  BY <1>1, <1>2 DEF ValidateAndBuildAccessGrantResult, Reduced
<1>4. h.scope \in Range(SCOPE_HIERARCHY) /\ "GLOBAL" \in Range(SCOPE_HIERARCHY)
      /\ "CLIENT" \in Range(SCOPE_HIERARCHY) /\ IsScopeAtLeast("GLOBAL", "CLIENT")
  BY <1>2, Ranks, GrantFields DEF Reduced, IsScopeAtLeast
<1>5. IsScopeAtLeast(h.scope, "GLOBAL") => IsScopeAtLeast(h.scope, "CLIENT")
  BY <1>4, Scopes
<1>6. CASE IsScopeAtLeast(h.scope, "GLOBAL")
  <2>1. Validated(h) = h
    BY <1>6 DEF Validated
  <2>2. Serviceable(h)
    BY <1>5, <1>6 DEF Serviceable
  <2> QED
    BY <1>1, <1>2, <1>3, <2>1, <2>2
<1>7. CASE ~IsScopeAtLeast(h.scope, "GLOBAL") /\ h.client \notin active
  <2>1. Validated(h) = Denied("client_inactive")
    BY <1>7 DEF Validated
  <2>2. ~Serviceable(h)
    BY <1>7 DEF Serviceable
  <2>3. Denied("client_inactive").reason # "granted"
    BY DEF Denied
  <2> QED
    BY <1>1, <1>2, <1>3, <2>1, <2>2, <2>3
<1>8. CASE ~IsScopeAtLeast(h.scope, "GLOBAL") /\ h.client \in active
  <2>1. Validated(h) = IF IsScopeAtLeast(h.scope, "CLIENT") \/ h.site \in active
                       THEN h ELSE Denied("site_inactive")
    BY <1>8 DEF Validated
  <2>2. CASE IsScopeAtLeast(h.scope, "CLIENT") \/ h.site \in active
    <3>1. Serviceable(h) /\ Validated(h) = h
      BY <1>8, <2>1, <2>2 DEF Serviceable
    <3> QED
      BY <1>1, <1>2, <1>3, <3>1
  <2>3. CASE ~(IsScopeAtLeast(h.scope, "CLIENT") \/ h.site \in active)
    <3>1. ~Serviceable(h) /\ Validated(h) = Denied("site_inactive")
      BY <1>8, <2>1, <2>3 DEF Serviceable
    <3>2. Denied("site_inactive").reason # "granted"
      BY DEF Denied
    <3> QED
      BY <1>1, <1>2, <1>3, <3>1, <3>2
  <2> QED
    BY <2>2, <2>3
<1> QED
  BY <1>6, <1>7, <1>8

-----------------------------------------------------------------------------
(* The decision on the records                                             *)

(* What the decision on the records is, by the rows it is made on. *)
Decided(x, g, D) ==
    \/ /\ D # {}
       /\ \E h : /\ Reduced(h, D)
                 /\ (g = h /\ Serviceable(h)) \/ (g.reason # "granted" /\ ~Serviceable(h))
    \/ /\ D = {}
       /\ g.reason # "granted" \/ (x.bootstrap /\ g = EphemeralGrant(x))

(* The decision on the records for the context that is followed. *)
DecidedSoundly ==
    /\ Deciding(watch) \subseteq Rows
    /\ Decided(watch, FromRecords(watch), Deciding(watch))

(* validateAndBuildAccessGrantResult of records that are a set of rows. *)
LEMMA RecordsDecide ==
    ASSUME NEW rs \in Seq(Row), rs # <<>>, NEW D, D = Range(rs)
    PROVE  Decided(watch, ValidateAndBuildAccessGrantResult(rs), D)
<1>1. PICK h, g : h = ReduceAccessGrants[rs] /\ g = ValidateAndBuildAccessGrantResult(rs)
  OBVIOUS
<1>2. /\ Reduced(h, D)
      /\ (g = h /\ Serviceable(h)) \/ (g.reason # "granted" /\ ~Serviceable(h))
  BY <1>1, ValidatedSound
<1>3. D # {}
  BY <1>2 DEF Reduced
<1> QED
  BY <1>1, <1>2, <1>3 DEF Decided

(* The decision on the records is one on the rows of Deciding: those at    *)
(* the place the request names, the primary ones, or the oldest.           *)
LEMMA RecordsDecided == GrantsTyped => DecidedSoundly
<1> SUFFICES ASSUME GrantsTyped PROVE DecidedSoundly
  OBVIOUS
<1>1. /\ log \in Seq(Row) /\ primary \subseteq Rows /\ Rows \subseteq Row /\ watch \in Context
  BY DEF GrantsTyped, Rows, Range
<1> DEFINE D == Deciding(watch)
           requested == AccessRecords(RequestedBy(watch))
           first == AccessRecords(primary)
           all == AccessRecords(Rows)
<1>2. D \subseteq Rows
  BY <1>1 DEF Deciding
<1>3. /\ requested \in Seq(Row) /\ Range(requested) = Rows \cap RequestedBy(watch)
      /\ (requested = <<>> <=> Rows \cap RequestedBy(watch) = {})
  BY <1>1, RecordsSound
<1>4. first \in Seq(Row) /\ Range(first) = Rows \cap primary /\ (first = <<>> <=> Rows \cap primary = {})
  BY <1>1, RecordsSound
<1>5. all \in Seq(Row) /\ Range(all) = Rows /\ (all = <<>> <=> Rows = {})
  BY <1>1, RecordsSound
<1>6. FromRecords(watch)
        = CASE watch.client # None /\ requested # <<>> -> ValidateAndBuildAccessGrantResult(requested)
            [] watch.client # None /\ requested = <<>> ->
                  IF watch.bootstrap THEN EphemeralGrant(watch) ELSE Denied("access_grant_request_denied")
            [] watch.client = None /\ first # <<>> -> ValidateAndBuildAccessGrantResult(first)
            [] watch.client = None /\ first = <<>> /\ all # <<>> ->
                  ValidateAndBuildAccessGrantResult(SubSeq(all, 1, 1))
            [] watch.client = None /\ all = <<>> ->
                  IF watch.bootstrap /\ watch.intent # "user" THEN EphemeralGrant(watch)
                  ELSE Denied("no_access_grant")
  BY DEF FromRecords
<1>7. /\ Denied("access_grant_request_denied").reason # "granted"
      /\ Denied("no_access_grant").reason # "granted"
  BY DEF Denied
<1> HIDE DEF requested, first, all
<1>8. CASE watch.client # None
  <2>1. D = Rows \cap RequestedBy(watch)
    BY <1>1, <1>8 DEF Deciding, RequestedBy
  <2>2. CASE requested # <<>>
    <3>1. FromRecords(watch) = ValidateAndBuildAccessGrantResult(requested)
      BY <1>6, <1>8, <2>2
    <3>2. Decided(watch, ValidateAndBuildAccessGrantResult(requested), D)
      <4> HIDE DEF D
      <4> QED
        BY <1>3, <2>1, <2>2, RecordsDecide
    <3> QED
      BY <1>2, <3>1, <3>2 DEF DecidedSoundly
  <2>3. CASE requested = <<>>
    <3>1. FromRecords(watch) = IF watch.bootstrap THEN EphemeralGrant(watch)
                               ELSE Denied("access_grant_request_denied")
      BY <1>6, <1>8, <2>3
    <3>2. D = {}
      BY <1>3, <2>1, <2>3
    <3> QED
      BY <1>2, <1>7, <3>1, <3>2 DEF DecidedSoundly, Decided
  <2> QED
    BY <2>2, <2>3
<1>9. CASE watch.client = None /\ first # <<>>
  <2>0. all # <<>>
    BY <1>1, <1>4, <1>5, <1>9
  <2>1. FromRecords(watch) = ValidateAndBuildAccessGrantResult(first)
    BY <1>6, <1>9, <2>0
  <2>2. D = Range(first)
    BY <1>1, <1>4, <1>9 DEF Deciding
  <2>3. Decided(watch, ValidateAndBuildAccessGrantResult(first), D)
    <3> HIDE DEF D
    <3> QED
      BY <1>4, <1>9, <2>2, RecordsDecide
  <2> QED
    BY <1>2, <2>1, <2>3 DEF DecidedSoundly
<1>10. CASE watch.client = None /\ first = <<>> /\ all # <<>>
  <2>1. primary = {} /\ Rows # {}
    BY <1>1, <1>4, <1>5, <1>10
  <2>2. all = log
    BY <1>1, <2>1, OldestFirst DEF all
  <2>3. PICK e, one : e = log[1] /\ one = SubSeq(all, 1, 1)
    OBVIOUS
  <2>4. e \in Row /\ e \in Rows
    <3>1. log # <<>>
      BY <1>10, <2>2
    <3>2. 1 \in 1 .. Len(log) /\ 1 \in DOMAIN log
      BY <1>1, <3>1
    <3> QED
      BY <1>1, <2>3, <3>2 DEF Rows, Range
  <2>5. one = <<e>>
    <3>1. log # <<>> /\ log \in Seq(Row)
      BY <1>1, <1>10, <2>2
    <3>2. Len(log) \in Nat /\ 1 <= Len(log)
      BY <3>1
    <3>3. Len(one) = 1 /\ one[1] = e /\ one \in Seq(Row)
      BY <2>2, <2>3, <3>1, <3>2
    <3>4. one = [i \in 1 .. Len(one) |-> one[i]] /\ <<e>> = [i \in 1 .. 1 |-> e]
      BY <3>3
    <3>5. \A i \in 1 .. 1 : one[i] = e
      BY <3>3
    <3> QED
      BY <3>3, <3>4, <3>5
  <2>6. one \in Seq(Row) /\ one # <<>> /\ Range(one) = {e}
    BY <2>4, <2>5 DEF Range
  <2>7. D = {e}
    BY <1>10, <2>1, <2>3, <2>4 DEF Deciding
  <2>8. Decided(watch, ValidateAndBuildAccessGrantResult(one), D)
    <3> HIDE DEF D
    <3> QED
      BY <2>6, <2>7, RecordsDecide
  <2>9. FromRecords(watch) = ValidateAndBuildAccessGrantResult(one)
    BY <1>6, <1>10, <2>3
  <2> QED
    BY <1>2, <2>8, <2>9 DEF DecidedSoundly
<1>11. CASE watch.client = None /\ all = <<>>
  <2>1. Rows = {} /\ primary = {} /\ first = <<>>
    BY <1>1, <1>4, <1>5, <1>11
  <2>2. D = {}
    BY <1>11, <2>1 DEF Deciding
  <2>3. FromRecords(watch) = IF watch.bootstrap /\ watch.intent # "user" THEN EphemeralGrant(watch)
                             ELSE Denied("no_access_grant")
    BY <1>6, <1>11, <2>1
  <2> QED
    BY <1>2, <1>7, <2>2, <2>3 DEF DecidedSoundly, Decided
<1> QED
  BY <1>8, <1>9, <1>10, <1>11

(* A grant that is made from the records is that of the rows. *)
LEMMA FromTheRows ==
    ASSUME NEW x, NEW g, NEW D, Decided(x, g, D), g.reason = "granted"
    PROVE  \/ D # {} /\ Reduced(g, D) /\ Serviceable(g)
           \/ x.bootstrap /\ g.role = "ephemeral" /\ g.scope = "SYSTEM"
BY DEF Decided, EphemeralGrant, Grant

(* What is decided on the records is right in every state. *)
LEMMA DecidedIsSound ==
    ASSUME GrantsTyped, DecidedSoundly
    PROVE  GrantSound
<1> SUFFICES ASSUME NEW g \in FromDatabase(watch)
             PROVE  /\ g.reason = "granted" /\ g.role \in Roles
                       /\ (watch.intent = "user" \/ MostPermissiveRoles = {})
                       => LET D == Deciding(watch) IN
                          /\ \E row \in D : /\ row.site = g.site /\ row.role = g.role
                                            /\ ClientOf[row.site] = g.client
                          /\ \A row \in D : IsScopeAtLeast(g.scope, ScopeOf[row.role])
                          /\ g.scope = ScopeOf[g.role]
                          /\ g.capabilities = UNION {CapabilitiesOf[row.role] : row \in D}
                          /\ (IsScopeAtLeast(g.scope, "GLOBAL") \/ g.client \in active)
                          /\ (IsScopeAtLeast(g.scope, "CLIENT") \/ g.site \in active)
                    /\ watch.intent # "user" /\ Admitted(watch, g) =>
                          watch.bootstrap \/ \E row \in Rows : ScopeOf[row.role] = "SYSTEM"
  BY DEF GrantSound
<1> DEFINE D == Deciding(watch)
<1>1. D \subseteq Rows /\ Decided(watch, FromRecords(watch), D)
  BY DEF DecidedSoundly
<1> HIDE DEF D
<1>2. ASSUME g.reason = "granted", g = FromRecords(watch)
      PROVE  \/ D # {} /\ Reduced(g, D) /\ Serviceable(g)
             \/ watch.bootstrap /\ g.role = "ephemeral" /\ g.scope = "SYSTEM"
  <2>1. PICK x : x = watch
    OBVIOUS
  <2>2. Decided(x, g, D)
    BY <1>1, <1>2, <2>1
  <2> QED
    BY <1>2, <2>1, <2>2, FromTheRows
<1>3. ASSUME g.reason = "granted", g.role \in Roles, watch.intent = "user" \/ MostPermissiveRoles = {}
      PROVE  /\ \E row \in D : /\ row.site = g.site /\ row.role = g.role
                               /\ ClientOf[row.site] = g.client
             /\ \A row \in D : IsScopeAtLeast(g.scope, ScopeOf[row.role])
             /\ g.scope = ScopeOf[g.role]
             /\ g.capabilities = UNION {CapabilitiesOf[row.role] : row \in D}
             /\ (IsScopeAtLeast(g.scope, "GLOBAL") \/ g.client \in active)
             /\ (IsScopeAtLeast(g.scope, "CLIENT") \/ g.site \in active)
  <2>1. g = FromRecords(watch)
    BY <1>3 DEF FromDatabase
  <2>2. Reduced(g, D) /\ Serviceable(g)
    BY <1>2, <1>3, <2>1, AccessGrantsAssumption
  <2>3. PICK row \in D : Of(g, row)
    BY <2>2 DEF Reduced
  <2>4. row.site = g.site /\ row.role = g.role /\ ClientOf[row.site] = g.client /\ g.scope = ScopeOf[g.role]
    BY <2>3 DEF Of
  <2> QED
    BY <2>2, <2>4 DEF Reduced, Serviceable
<1>4. ASSUME watch.intent # "user", Admitted(watch, g), ~watch.bootstrap
      PROVE  \E row \in Rows : ScopeOf[row.role] = "SYSTEM"
  <2>1. g.reason = "granted" /\ g.scope = "SYSTEM"
    BY <1>4 DEF Admitted
  <2>2. CASE MostPermissiveRoles # {}
    BY <2>2 DEF MostPermissiveRoles
  <2>3. CASE MostPermissiveRoles = {}
    <3>1. g = FromRecords(watch)
      BY <2>3 DEF FromDatabase
    <3>2. Reduced(g, D)
      BY <1>2, <1>4, <2>1, <3>1
    <3>3. PICK row \in D : Of(g, row)
      BY <3>2 DEF Reduced
    <3> QED
      BY <1>1, <2>1, <3>3 DEF Of
  <2> QED
    BY <2>2, <2>3
<1> QED
  BY <1>3, <1>4 DEF D

-----------------------------------------------------------------------------
(* The steps                                                               *)

(* The rows and the context stay what they should be. *)
LEMMA TypedStays ==
    ASSUME GrantsTyped, GrantSteps
    PROVE  GrantsTyped'
<1> USE DEF GrantsTyped
<1>0. Rows \subseteq Row
  BY DEF Rows, Range
<1>1. CASE Resolve
  BY <1>1 DEF Resolve, Rows
<1>2. CASE ExpireGrant
  BY <1>2 DEF ExpireGrant, Rows
<1>3. CASE SetActive
  BY <1>3 DEF SetActive, Rows
<1>4. CASE SyncUser
  <2>1. PICK row \in Row : /\ log' = Append(log, row)
                           /\ primary' = IF log = <<>> THEN {row} ELSE primary
                           /\ UNCHANGED <<active, watch>>
    BY <1>4 DEF SyncUser
  <2>2. log' \in Seq(Row) /\ Range(log') = Range(log) \cup {row}
    BY <2>1, RangeAppend
  <2> QED
    BY <2>1, <2>2 DEF Rows
<1>5. CASE AddRole
  <2>1. PICK row \in Row : /\ log' = IF row \in Rows THEN log ELSE Append(log, row)
                           /\ primary' = IF PrimaryIs(row.site) THEN primary \cup {row} ELSE primary \ {row}
                           /\ UNCHANGED <<active, watch>>
    BY <1>5 DEF AddRole, ClearAfter
  <2>2. log' \in Seq(Row) /\ Range(log') = Range(log) \cup {row}
    <3>1. Range(Append(log, row)) = Range(log) \cup {row}
      BY RangeAppend
    <3> QED
      BY <2>1, <3>1 DEF Rows
  <2> QED
    BY <2>1, <2>2 DEF Rows
<1>6. ASSUME NEW S, NEW promote, Delete(S, promote), UNCHANGED <<active, watch>>
      PROVE  GrantsTyped'
  <2>1. log' = Kept(log, Rows \ S)
    BY <1>6 DEF Delete
  <2>2. PICK B : B = Rows \ S
    OBVIOUS
  <2>3. Kept(log, B) \in Seq(Row) /\ Range(Kept(log, B)) = Range(log) \cap B
    BY KeptType, KeptRange
  <2>4. log' \in Seq(Row) /\ Range(log') = Rows \ S
    BY <2>1, <2>2, <2>3 DEF Rows
  <2>5. primary' \subseteq (primary \ S) \cup Range(log')
    BY <1>6 DEF Delete, Promoted
  <2> QED
    BY <1>6, <2>4, <2>5 DEF Rows
<1>7. CASE RemoveRole
  BY <1>6, <1>7 DEF RemoveRole, ClearAfter
<1>8. CASE RemoveMember
  BY <1>6, <1>8 DEF RemoveMember, ClearAfter
<1> QED
  BY <1>1, <1>2, <1>3, <1>4, <1>5, <1>7, <1>8 DEF GrantSteps

(* The same records and statuses give the same results. *)
LEMMA SameResults ==
    ASSUME UNCHANGED <<active, watch>>, watch.client # None,
           AccessRecords(RequestedBy(watch))' = AccessRecords(RequestedBy(watch)),
           MostPermissiveRoles' = MostPermissiveRoles
    PROVE  FromDatabase(watch)' = FromDatabase(watch)
<1> DEFINE requested == AccessRecords(RequestedBy(watch))
<1>1. FromRecords(watch) = IF requested # <<>> THEN ValidateAndBuildAccessGrantResult(requested)
                           ELSE IF watch.bootstrap THEN EphemeralGrant(watch)
                           ELSE Denied("access_grant_request_denied")
  BY DEF FromRecords
<1>2. FromRecords(watch)' = IF requested' # <<>> THEN ValidateAndBuildAccessGrantResult(requested)'
                            ELSE IF watch'.bootstrap THEN EphemeralGrant(watch)'
                            ELSE Denied("access_grant_request_denied")'
  BY DEF FromRecords
<1>3. ValidateAndBuildAccessGrantResult(requested)' = ValidateAndBuildAccessGrantResult(requested)
  <2>1. requested' = requested
    OBVIOUS
  <2> HIDE DEF requested
  <2> QED
    BY <2>1 DEF ValidateAndBuildAccessGrantResult, Validated, Denied
<1>4. FromRecords(watch)' = FromRecords(watch)
  BY <1>1, <1>2, <1>3 DEF EphemeralGrant, Denied, Grant
<1> QED
  BY <1>4 DEF FromDatabase, Grant

(* A change of rows that the request does not name, and that promotes none *)
(* of those it names, leaves the records of the request as they are.       *)
LEMMA SameRecords ==
    ASSUME GrantsTyped, NEW R, NEW S, R \cap S = {},
           Rows \cap R \cap primary' \subseteq primary,
           primary \ S \subseteq primary',
           \/ log' = log
           \/ \E row \in Row : row \in S /\ log' = Append(log, row)
           \/ log' = Kept(log, Rows \ S)
    PROVE  /\ Kept(log', R \cap primary') = Kept(log, R \cap primary)
           /\ Kept(log', R \ primary') = Kept(log, R \ primary)
<1>1. log \in Seq(Row) /\ Rows = Range(log) /\ primary \subseteq Rows
  BY DEF GrantsTyped, Rows
<1> DEFINE A == R \cap primary'
           B == R \ primary'
           C == R \cap primary
           D == R \ primary
<1>2. Range(log) \cap A = Range(log) \cap C /\ Range(log) \cap B = Range(log) \cap D
  BY <1>1
<1>3. A \cap S = {} /\ B \cap S = {}
  OBVIOUS
<1> HIDE DEF A, B, C, D
<1>4. Kept(log, A) = Kept(log, C) /\ Kept(log, B) = Kept(log, D)
  BY <1>1, <1>2, KeptSame
<1>5. CASE log' = log
  BY <1>4, <1>5 DEF A, B, C, D
<1>6. ASSUME NEW row \in Row, row \in S, log' = Append(log, row)
      PROVE  Kept(log', A) = Kept(log, A) /\ Kept(log', B) = Kept(log, B)
  <2>1. row \notin A /\ row \notin B
    BY <1>3, <1>6
  <2>2. Kept(Append(log, row), A) = Kept(log, A) /\ Kept(Append(log, row), B) = Kept(log, B)
    BY <1>1, <2>1, KeptAppend
  <2> QED
    BY <1>6, <2>2
<1>7. ASSUME log' = Kept(log, Rows \ S)
      PROVE  Kept(log', A) = Kept(log, A) /\ Kept(log', B) = Kept(log, B)
  <2>1. PICK E : E = Rows \ S
    OBVIOUS
  <2>2. Kept(Kept(log, E), A) = Kept(log, E \cap A) /\ Kept(Kept(log, E), B) = Kept(log, E \cap B)
    BY <1>1, KeptTwice
  <2>3. Range(log) \cap (E \cap A) = Range(log) \cap A /\ Range(log) \cap (E \cap B) = Range(log) \cap B
    BY <1>1, <1>3, <2>1
  <2>4. PICK F, G : F = E \cap A /\ G = E \cap B
    OBVIOUS
  <2>5. Kept(log, F) = Kept(log, A) /\ Kept(log, G) = Kept(log, B)
    BY <1>1, <2>3, <2>4, KeptSame
  <2> QED
    BY <1>7, <2>1, <2>2, <2>4, <2>5
<1> QED
  BY <1>4, <1>5, <1>6, <1>7 DEF A, B, C, D

(* A handler that does not clear the key of a context leaves what the      *)
(* context is granted, but for what is excused.                            *)
LEMMA UnclearedSame ==
    ASSUME GrantsTyped, GrantsTyped', NEW c, NEW Z, NEW S,
           watch \notin Cleared(c, Z), UNCHANGED <<active, watch>>, watch.client # None,
           \A row \in S : ClientOf[row.site] = c /\ row.site \in Z,
           MostPermissiveRoles' = MostPermissiveRoles,
           primary' \cap Rows \subseteq primary, primary \ S \subseteq primary',
           \/ log' = log
           \/ \E row \in Row : row \in S /\ log' = Append(log, row)
           \/ log' = Kept(log, Rows \ S)
    PROVE  FromDatabase(watch)' = FromDatabase(watch)
<1>1. PICK R : R = RequestedBy(watch)
  OBVIOUS
<1>2. RequestedBy(watch)' = R
  BY <1>1 DEF RequestedBy
<1>3. R \cap S = {}
  <2> SUFFICES ASSUME NEW row \in R, row \in S PROVE FALSE
    OBVIOUS
  <2>1. row \in Row /\ ClientOf[row.site] = watch.client /\ watch.site \in {None, row.site}
    BY <1>1 DEF RequestedBy
  <2>2. watch.client = c /\ watch.site \in Z \cup {None}
    BY <2>1
  <2>3. watch \in Cleared(c, Z)
    BY <2>2 DEF Cleared, GrantsTyped
  <2> QED
    BY <2>3
<1>4. /\ Kept(log', R \cap primary') = Kept(log, R \cap primary)
      /\ Kept(log', R \ primary') = Kept(log, R \ primary)
  BY <1>3, SameRecords
<1>5. AccessRecords(RequestedBy(watch))' = AccessRecords(RequestedBy(watch))
  BY <1>1, <1>2, <1>4 DEF AccessRecords
<1> QED
  BY <1>5, SameResults

(* What the cache may hold stays excused. *)
LEMMA ExcusedStays ==
    ASSUME GrantsTyped, GrantsTyped', StaleOnlyExcused, GrantSteps
    PROVE  StaleOnlyExcused'
<1>1. CASE Resolve
  <2>1. UNCHANGED <<log, primary, active, watch>> /\ cached' \in FromDatabase(watch)
    BY <1>1 DEF Resolve
  <2>2. FromDatabase(watch)' = FromDatabase(watch)
    BY <2>1 DEF FromDatabase, FromRecords, MostPermissiveRoles, Rows, AccessRecords, RequestedBy,
                ValidateAndBuildAccessGrantResult, Validated, EphemeralGrant, Denied, Grant
  <2> QED
    BY <2>1, <2>2 DEF StaleOnlyExcused
<1>2. CASE ExpireGrant
  BY <1>2 DEF ExpireGrant, StaleOnlyExcused
<1>3. CASE SetActive \/ SyncUser
  BY <1>3 DEF SetActive, SyncUser, StaleOnlyExcused
<1>4. ASSUME NEW c, NEW Z, NEW S, ClearAfter(c, Z),
             \A row \in S : ClientOf[row.site] = c /\ row.site \in Z,
             primary \ S \subseteq primary',
             \/ log' = log
             \/ \E row \in Row : row \in S /\ log' = Append(log, row)
             \/ log' = Kept(log, Rows \ S)
      PROVE  StaleOnlyExcused'
  <2>1. CASE watch \in Cleared(c, Z)
    BY <1>4, <2>1 DEF ClearAfter, StaleOnlyExcused
  <2>2. CASE watch \notin Cleared(c, Z)
    <3>1. /\ UNCHANGED <<active, watch, cached>>
          /\ excused' = (\/ excused
                         \/ MostPermissiveRoles' # MostPermissiveRoles
                         \/ ~(primary' \cap Rows \subseteq primary))
      BY <1>4, <2>2 DEF ClearAfter
    <3>2. CASE excused'
      BY <3>2 DEF StaleOnlyExcused
    <3>3. CASE watch.client = None
      <4>1. watch.site # None
        BY <2>2, <3>3 DEF Cleared, GrantsTyped
      <4> QED
        BY <3>1, <3>3, <4>1 DEF StaleOnlyExcused
    <3>4. CASE ~excused' /\ watch.client # None
      <4>1. /\ ~excused /\ MostPermissiveRoles' = MostPermissiveRoles
            /\ primary' \cap Rows \subseteq primary
        BY <3>1, <3>4
      <4>2. FromDatabase(watch)' = FromDatabase(watch)
        BY <1>4, <2>2, <3>1, <3>4, <4>1, UnclearedSame
      <4> QED
        BY <3>1, <3>4, <4>1, <4>2 DEF StaleOnlyExcused
    <3> QED
      BY <3>2, <3>3, <3>4
  <2> QED
    BY <2>1, <2>2
<1>5. CASE AddRole
  <2>1. PICK row \in Row : /\ log' = IF row \in Rows THEN log ELSE Append(log, row)
                           /\ primary' = IF PrimaryIs(row.site) THEN primary \cup {row} ELSE primary \ {row}
                           /\ ClearAfter(ClientOf[row.site], {row.site})
    BY <1>5 DEF AddRole
  <2>2. PICK S : S = {row}
    OBVIOUS
  <2>3. /\ \A r \in S : ClientOf[r.site] = ClientOf[row.site] /\ r.site \in {row.site}
        /\ primary \ S \subseteq primary'
        /\ log' = log \/ \E r \in Row : r \in S /\ log' = Append(log, r)
    BY <2>1, <2>2
  <2> QED
    BY <1>4, <2>1, <2>3
<1>6. CASE RemoveRole
  <2>1. PICK row \in Rows : /\ Delete({row}, row \in primary /\ primary = {row})
                            /\ ClearAfter(ClientOf[row.site], {row.site})
    BY <1>6 DEF RemoveRole
  <2>2. PICK S : S = {row}
    OBVIOUS
  <2>3. /\ \A r \in S : ClientOf[r.site] = ClientOf[row.site] /\ r.site \in {row.site}
        /\ primary \ S \subseteq primary'
        /\ log' = Kept(log, Rows \ S)
    BY <2>1, <2>2 DEF Delete
  <2> QED
    BY <1>4, <2>1, <2>3
<1>7. CASE RemoveMember
  <2>1. PICK c \in Clients, intent \in {"user", "system"} :
          LET S == {row \in Rows : ClientOf[row.site] = c} IN
          /\ Delete(S, intent = "system" /\ primary # {})
          /\ ClearAfter(c, {row.site : row \in S})
    BY <1>7 DEF RemoveMember
  <2>2. PICK S, Z : S = {row \in Rows : ClientOf[row.site] = c} /\ Z = {row.site : row \in S}
    OBVIOUS
  <2>3. /\ \A row \in S : ClientOf[row.site] = c /\ row.site \in Z
        /\ primary \ S \subseteq primary'
        /\ log' = Kept(log, Rows \ S) /\ ClearAfter(c, Z)
    BY <2>1, <2>2 DEF Delete
  <2> QED
    BY <1>4, <2>3
<1> QED
  BY <1>1, <1>2, <1>3, <1>5, <1>6, <1>7 DEF GrantSteps

(* The rows of a person become more only by one that is appended. *)
LEMMA LongerByAppending ==
    ASSUME GrantsTyped, GrantSteps, Len(log') > Len(log)
    PROVE  /\ \E row \in Row : log' = Append(log, row)
           /\ UNCHANGED <<active, watch>> /\ Rows \subseteq Rows'
<1>0. log \in Seq(Row) /\ Len(log) \in Nat
  BY DEF GrantsTyped
<1>1. log' # log
  BY <1>0
<1>2. ASSUME NEW S, NEW promote, Delete(S, promote) PROVE FALSE
  <2>1. PICK B : B = Rows \ S
    OBVIOUS
  <2>2. Len(Kept(log, B)) \in Nat /\ Len(Kept(log, B)) <= Len(log)
    BY <1>0, KeptType
  <2>3. log' = Kept(log, B)
    BY <1>2, <2>1 DEF Delete
  <2> QED
    BY <1>0, <2>2, <2>3
<1>3. AddRole \/ SyncUser
  BY <1>1, <1>2 DEF GrantSteps, Resolve, ExpireGrant, SetActive, RemoveRole, RemoveMember
<1>4. /\ \E row \in Row : log' = Append(log, row)
      /\ UNCHANGED <<active, watch>>
  BY <1>1, <1>3 DEF AddRole, SyncUser, ClearAfter
<1>5. PICK row \in Row : log' = Append(log, row)
  BY <1>4
<1>6. Range(log') = Range(log) \cup {row}
  BY <1>0, <1>5, RangeAppend
<1> QED
  BY <1>4, <1>6 DEF Rows

(* A step that adds a row takes nothing from a context with a client. *)
LEMMA AddingTakesNothing ==
    ASSUME GrantsTyped, GrantsTyped', DecidedSoundly, DecidedSoundly', GrantSteps,
           Len(log') > Len(log), active = Clients \cup Sites,
           watch.client # None, watch.intent = "user",
           NEW g \in FromDatabase(watch), NEW h \in FromDatabase(watch)',
           g.reason = "granted", g.role \in Roles
    PROVE  /\ h.reason = "granted"
           /\ IsScopeAtLeast(h.scope, g.scope)
           /\ g.capabilities \subseteq h.capabilities
<1>1. UNCHANGED <<active, watch>> /\ Rows \subseteq Rows'
  BY LongerByAppending
<1>2. g = FromRecords(watch)
  BY DEF FromDatabase
<1>3. h = FromRecords(watch)'
  BY <1>1 DEF FromDatabase
<1>4. PICK D, E : D = Deciding(watch) /\ E = Deciding(watch)'
  OBVIOUS
<1>5. D \subseteq E /\ D \subseteq Rows
  <2>1. D = {row \in Rows : ClientOf[row.site] = watch.client /\ watch.site \in {None, row.site}}
    BY <1>4 DEF Deciding
  <2>2. E = {row \in Rows' : ClientOf[row.site] = watch.client /\ watch.site \in {None, row.site}}
    BY <1>1, <1>4 DEF Deciding
  <2> QED
    BY <1>1, <2>1, <2>2
<1>6. Reduced(g, D)
  <2>1. PICK x : x = watch
    OBVIOUS
  <2>2. Decided(x, g, D)
    BY <1>2, <1>4, <2>1 DEF DecidedSoundly
  <2> QED
    BY <2>2, FromTheRows, AccessGrantsAssumption
<1>7. PICK row \in D : Of(g, row)
  BY <1>6 DEF Reduced
<1>8. PICK k : /\ Reduced(k, E)
               /\ (h = k /\ Serviceable(k)') \/ (h.reason # "granted" /\ ~Serviceable(k)')
  <2>1. E # {}
    BY <1>5, <1>7
  <2>2. Decided(watch, FromRecords(watch), Deciding(watch))'
    BY DEF DecidedSoundly
  <2> QED
    BY <2>1, <2>2, <1>3, <1>4 DEF Decided
<1>9. k \in Grants
  BY <1>8 DEF Reduced
<1>10. Serviceable(k)'
  BY <1>1, <1>9, GrantFields DEF Serviceable
<1>11. h = k /\ h.reason = "granted"
  BY <1>8, <1>9, <1>10, GrantFields
<1>12. IsScopeAtLeast(h.scope, g.scope)
  BY <1>5, <1>7, <1>8, <1>11 DEF Reduced, Of
<1>13. g.capabilities \subseteq h.capabilities
  BY <1>5, <1>6, <1>8, <1>11 DEF Reduced
<1> QED
  BY <1>11, <1>12, <1>13

(* The rows, the context and the cache entry of a person: in every state   *)
(* the rows are rows of the clients, the primary ones among them, and what *)
(* the cache holds is what the database gives unless that is excused.      *)
THEOREM GrantsInvariant == GrantsSpec => [](GrantsTyped /\ StaleOnlyExcused)
<1>1. GrantsInit => GrantsTyped /\ StaleOnlyExcused
  <2> SUFFICES ASSUME GrantsInit PROVE GrantsTyped /\ StaleOnlyExcused
    OBVIOUS
  <2>1. log \in Seq(Row) /\ primary = {} /\ watch \in Context /\ active = Clients \cup Sites
    BY AccessGrantsAssumption DEF GrantsInit
  <2>2. StaleOnlyExcused
    BY DEF GrantsInit, StaleOnlyExcused
  <2> QED
    BY <2>1, <2>2 DEF GrantsTyped
<1>2. GrantsTyped /\ StaleOnlyExcused /\ [GrantSteps]_grantVars
        => (GrantsTyped /\ StaleOnlyExcused)'
  <2> SUFFICES ASSUME GrantsTyped, StaleOnlyExcused, [GrantSteps]_grantVars
               PROVE  (GrantsTyped /\ StaleOnlyExcused)'
    OBVIOUS
  <2>1. CASE GrantSteps
    BY <2>1, TypedStays, ExcusedStays
  <2>2. CASE UNCHANGED grantVars
    <3>1. UNCHANGED <<log, primary, active, watch, cached, excused>>
      BY <2>2 DEF grantVars
    <3>2. GrantsTyped'
      BY <3>1 DEF GrantsTyped, Rows
    <3>3. FromDatabase(watch)' = FromDatabase(watch)
      BY <3>1 DEF FromDatabase, FromRecords, MostPermissiveRoles, Rows, AccessRecords, RequestedBy,
                  ValidateAndBuildAccessGrantResult, Validated, EphemeralGrant, Denied, Grant
    <3> QED
      BY <3>1, <3>2, <3>3 DEF StaleOnlyExcused
  <2> QED
    BY <2>1, <2>2
<1> QED
  BY <1>1, <1>2, PTL DEF GrantsSpec

(* A cached grant is one the database would give now, unless a change that *)
(* no handler clears has come since: no other key than those that          *)
(* clearAccessGrantResponseCache clears is touched by a role change.       *)
THEOREM StaleGrantsExcused == GrantsSpec => []StaleOnlyExcused
<1> QED
  BY GrantsInvariant, PTL

(* A grant says what the rows it is decided on say, and none but the       *)
(* bootstrap lets a request of another intent in without a SYSTEM role.    *)
THEOREM GrantsStaySound == GrantsSpec => []GrantSound
<1>1. GrantsTyped => GrantSound
  BY RecordsDecided, DecidedIsSound
<1> QED
  BY <1>1, GrantsInvariant, PTL

(* A role that is added never weakens what a context with a client is      *)
(* granted, whatever the order the rows are read in.                       *)
THEOREM AddedRolesNeverWeaken == GrantsSpec => AddNeverWeakens
<1>1. GrantsTyped => DecidedSoundly
  BY RecordsDecided
<1> DEFINE Weakens ==
      ~(/\ Len(log') > Len(log) /\ active = Clients \cup Sites
        /\ watch.client # None /\ watch.intent = "user"
        =>
        \A g \in FromDatabase(watch), h \in FromDatabase(watch)' :
           g.reason = "granted" /\ g.role \in Roles =>
                /\ h.reason = "granted"
                /\ IsScopeAtLeast(h.scope, g.scope)
                /\ g.capabilities \subseteq h.capabilities)
<1>2. /\ GrantsTyped /\ GrantsTyped' /\ DecidedSoundly /\ DecidedSoundly'
      /\ [GrantSteps]_grantVars
      => [~Weakens]_grantVars
  <2> SUFFICES ASSUME GrantsTyped, GrantsTyped', DecidedSoundly, DecidedSoundly', GrantSteps
               PROVE  ~Weakens
    BY DEF grantVars
  <2> QED
    BY AddingTakesNothing
<1> QED
  BY <1>1, <1>2, GrantsInvariant, PTL DEF GrantsSpec, AddNeverWeakens
=============================================================================
