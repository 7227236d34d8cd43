---------------------------- MODULE MemoryCache ----------------------------
(***************************************************************************)
(* MemoryCacheService (src/cache/memory-cache.service.ts): getOrSet with   *)
(* its coalescing of concurrent calls, together with the writers that      *)
(* change what the factories compute and then drop the cached entry        *)
(* (clearAccessGrantResponseCache, invalidateRoleCache).                   *)
(*                                                                         *)
(* The process is single threaded: what runs between two awaits is one     *)
(* step.  A read of the store and the code that uses what was read are     *)
(* separate steps, since other callers run while the read is awaited.      *)
(* A nil value is Nil: it is never taken for a hit.                        *)
(*                                                                         *)
(* cache-manager and the database are external: the store is a function    *)
(* from keys to values whose entries may vanish when their time to live is *)
(* over, and a factory reads the current value of its key, or rejects.     *)
(***************************************************************************)
EXTENDS Naturals, FiniteSets

CONSTANTS
    Keys,
    Values,     \* what a factory may compute, besides nil
    Callers,    \* slots for concurrent calls of getOrSet
    Writers,    \* slots for concurrent writers of the underlying data
    Nil         \* nil, and "no caller"

ASSUME MemoryCacheAssumption == Nil \notin Keys \cup Values \cup Callers

VARIABLES
    source,     \* key -> what its factory would compute now
    cache,      \* key -> the cached value
    inFlight,   \* key -> the caller whose promise is in the inFlight map
    caller,     \* slot -> the call being served there
    writer,     \* slot -> the key it has written and not yet invalidated
    dirty       \* history: the keys a fill or a lost invalidation may have left stale

vars == <<source, cache, inFlight, caller, writer, dirty>>

PCs == {"idle", "get", "got", "wait", "recheck", "rechecked", "factory",
        "computed", "stored"}

Call == [pc : PCs, key : Keys \cup {Nil}, val : Values \cup {Nil}]
IdleCall == [pc |-> "idle", key |-> Nil, val |-> Nil]

At(c, l) == caller[c].pc = l
KeyOf(c) == caller[c].key
Become(c, q) == caller' = [caller EXCEPT ![c] = q]
Goto(c, l) == Become(c, [caller[c] EXCEPT !.pc = l])

(* The states of the call that runs the promise of its key. *)
Running == {"recheck", "rechecked", "factory", "computed", "stored"}

(* A call that holds a value it has computed and not yet stored. *)
Holding(k) == \E c \in Callers : At(c, "computed") /\ KeyOf(c) = k

Init ==
    /\ source \in [Keys -> Values \cup {Nil}]
    /\ cache = [k \in Keys |-> Nil]
    /\ inFlight = [k \in Keys |-> Nil]
    /\ caller = [c \in Callers |-> IdleCall]
    /\ writer = [w \in Writers |-> Nil]
    /\ dirty = {}

-----------------------------------------------------------------------------
(* getOrSet                                                                *)

GetOrSet(c) ==
    /\ At(c, "idle")
    /\ \E k \in Keys : Become(c, [pc |-> "get", key |-> k, val |-> Nil])
    /\ UNCHANGED <<source, cache, inFlight, writer, dirty>>

(* The store answers a get: the first one or the re-check. *)
StoreGet(c) ==
    /\ caller[c].pc \in {"get", "recheck"}
    /\ Become(c, [caller[c] EXCEPT !.pc = IF @ = "get" THEN "got" ELSE "rechecked",
                                   !.val = cache[KeyOf(c)]])
    /\ UNCHANGED <<source, cache, inFlight, writer, dirty>>

(* The first get rejects. *)
GetFails(c) ==
    /\ At(c, "get")
    /\ Become(c, IdleCall)
    /\ UNCHANGED <<source, cache, inFlight, writer, dirty>>

(* A hit. *)
ReturnCached(c) ==
    /\ At(c, "got") /\ caller[c].val # Nil
    /\ Become(c, IdleCall)
    /\ UNCHANGED <<source, cache, inFlight, writer, dirty>>

(* A miss, while another call computes the same key. *)
JoinInFlight(c) ==
    /\ At(c, "got") /\ caller[c].val = Nil
    /\ inFlight[KeyOf(c)] # Nil
    /\ Goto(c, "wait")
    /\ UNCHANGED <<source, cache, inFlight, writer, dirty>>

(* Faulty variant: the promise is not entered in the map before the first  *)
(* await inside it.                                                        *)
StartFlightLate(c) ==
    /\ At(c, "got") /\ caller[c].val = Nil
    /\ inFlight[KeyOf(c)] = Nil
    /\ Goto(c, "recheck")
    /\ UNCHANGED <<source, cache, inFlight, writer, dirty>>

(* A miss and no call to join: the promise is created, runs up to its      *)
(* first await and is entered in the map, all before any other call runs.  *)
StartFlight(c) ==
    /\ At(c, "got") /\ caller[c].val = Nil
    /\ inFlight[KeyOf(c)] = Nil
    /\ inFlight' = [inFlight EXCEPT ![KeyOf(c)] = c]
    /\ Goto(c, "recheck")
    /\ UNCHANGED <<source, cache, writer, dirty>>

(* The promise settles: the finally block removes it from the map, and the *)
(* call that runs it and every call that joined it are answered.           *)
Settle(c) ==
    /\ inFlight' = [inFlight EXCEPT ![KeyOf(c)] = Nil]
    /\ caller' = [d \in Callers |->
                    IF d = c \/ (At(d, "wait") /\ KeyOf(d) = KeyOf(c))
                    THEN IdleCall ELSE caller[d]]

RecheckHit(c) ==
    /\ At(c, "rechecked") /\ caller[c].val # Nil
    /\ Settle(c)
    /\ UNCHANGED <<source, cache, writer, dirty>>

RecheckMiss(c) ==
    /\ At(c, "rechecked") /\ caller[c].val = Nil
    /\ Goto(c, "factory")
    /\ UNCHANGED <<source, cache, inFlight, writer, dirty>>

(* The factory reads the database. *)
Factory(c) ==
    /\ At(c, "factory")
    /\ Become(c, [caller[c] EXCEPT !.pc = "computed", !.val = source[KeyOf(c)]])
    /\ UNCHANGED <<source, cache, inFlight, writer, dirty>>

(* Faulty variant: the map entry is removed only on success. *)
FlightFailsLeaky(c) ==
    /\ caller[c].pc \in {"recheck", "factory", "computed"}
    /\ caller' = [d \in Callers |->
                    IF d = c \/ (At(d, "wait") /\ KeyOf(d) = KeyOf(c))
                    THEN IdleCall ELSE caller[d]]
    /\ UNCHANGED <<source, cache, inFlight, writer, dirty>>

(* An await inside the promise rejects, the factory or the store; the      *)
(* finally block runs all the same.                                        *)
FlightFails(c) ==
    /\ caller[c].pc \in {"recheck", "factory", "computed"}
    /\ Settle(c)
    /\ UNCHANGED <<source, cache, writer, dirty>>

StoreSet(c) ==
    /\ At(c, "computed")
    /\ cache' = [cache EXCEPT ![KeyOf(c)] = caller[c].val]
    /\ Goto(c, "stored")
    /\ UNCHANGED <<source, inFlight, writer, dirty>>

Finish(c) ==
    /\ At(c, "stored")
    /\ Settle(c)
    /\ UNCHANGED <<source, cache, writer, dirty>>

-----------------------------------------------------------------------------
(* Writers and the store                                                   *)

(* Faulty variant: nothing is dropped after the commit. *)
CommitOnly(w) ==
    /\ writer[w] = Nil
    /\ \E k \in Keys : \E v \in (Values \cup {Nil}) \ {source[k]} :
         /\ source' = [source EXCEPT ![k] = v]
         /\ dirty' = IF Holding(k) THEN dirty \cup {k} ELSE dirty
    /\ UNCHANGED <<cache, inFlight, caller, writer>>

(* A handler commits a change of what key k is computed from.  dirty       *)
(* remembers that a call held a value from before it.                      *)
Commit(w) ==
    /\ writer[w] = Nil
    /\ \E k \in Keys : \E v \in (Values \cup {Nil}) \ {source[k]} :
         /\ source' = [source EXCEPT ![k] = v]
         /\ writer' = [writer EXCEPT ![w] = k]
         /\ dirty' = IF Holding(k) THEN dirty \cup {k} ELSE dirty
    /\ UNCHANGED <<cache, inFlight, caller>>

(* What removing the entry of k leaves of dirty. *)
Cleaned(k) == IF Holding(k) THEN dirty ELSE dirty \ {k}

(* and then deletes the key. *)
Invalidate(w) ==
    LET k == writer[w] IN
    /\ k # Nil
    /\ cache' = [cache EXCEPT ![k] = Nil]
    /\ writer' = [writer EXCEPT ![w] = Nil]
    /\ dirty' = Cleaned(k)
    /\ UNCHANGED <<source, inFlight, caller>>

(* An error while deleting is logged and swallowed. *)
InvalidateFails(w) ==
    /\ writer[w] # Nil
    /\ writer' = [writer EXCEPT ![w] = Nil]
    /\ dirty' = dirty \cup {writer[w]}
    /\ UNCHANGED <<source, cache, inFlight, caller>>

(* The time to live of an entry is over. *)
Expire(k) ==
    /\ cache[k] # Nil
    /\ cache' = [cache EXCEPT ![k] = Nil]
    /\ dirty' = Cleaned(k)
    /\ UNCHANGED <<source, inFlight, caller, writer>>

-----------------------------------------------------------------------------

Advance(c) ==
    \/ StoreGet(c) \/ GetFails(c) \/ ReturnCached(c) \/ JoinInFlight(c)
    \/ StartFlight(c) \/ RecheckHit(c) \/ RecheckMiss(c) \/ Factory(c)
    \/ StoreSet(c) \/ FlightFails(c) \/ Finish(c)

Next ==
    \/ \E c \in Callers : GetOrSet(c) \/ Advance(c)
    \/ \E w \in Writers : Commit(w) \/ Invalidate(w) \/ InvalidateFails(w)
    \/ \E k \in Keys : Expire(k)

(* The event loop runs every callback that is ready, and every query of a  *)
(* factory ends: a call that can move does.                                *)
Fairness == \A c \in Callers : WF_vars(Advance(c))

Spec == Init /\ [][Next]_vars
FairSpec == Spec /\ Fairness

-----------------------------------------------------------------------------
(* What is checked.                                                        *)

(* Type invariant: calls keep a key while they are served. *)
TypeOK ==
    /\ source \in [Keys -> Values \cup {Nil}]
    /\ cache \in [Keys -> Values \cup {Nil}]
    /\ inFlight \in [Keys -> Callers \cup {Nil}]
    /\ caller \in [Callers -> Call]
    /\ writer \in [Writers -> Keys \cup {Nil}]
    /\ dirty \in SUBSET Keys
    /\ \A c \in Callers : caller[c].pc # "idle" => KeyOf(c) \in Keys

(* "only one factory call executes" for the calls that miss a key at the   *)
(* same time: no two calls are between the start of their promise and its  *)
(* end for one key.                                                        *)
SingleFlight ==
    \A c, d \in Callers :
        /\ caller[c].pc \in Running /\ caller[d].pc \in Running
        /\ KeyOf(c) = KeyOf(d)
        => c = d

(* The inFlight map holds exactly the promises that are running, so no     *)
(* call can join one that has settled, and a call that waits has a         *)
(* promise to wait for.                                                    *)
InFlightExact ==
    /\ \A k \in Keys, c \in Callers :
         (inFlight[k] = c) <=> (caller[c].pc \in Running /\ KeyOf(c) = k)
    /\ \A c \in Callers : At(c, "wait") => inFlight[KeyOf(c)] # Nil

(* A cached value that differs from what the factory would compute now is  *)
(* on its way out (its writer is about to delete it), or was left by a     *)
(* fill that read before the write and stored after it, or by a delete     *)
(* that failed: there is no fourth way to serve stale data until the time  *)
(* to live is over.                                                        *)
StaleOnlyByOverlap ==
    /\ \A k \in Keys : cache[k] \notin {Nil, source[k]} =>
         k \in dirty \/ \E w \in Writers : writer[w] = k
    /\ \A c \in Callers : At(c, "computed") /\ caller[c].val # source[KeyOf(c)] =>
         KeyOf(c) \in dirty

(* The inductive invariant. *)
Inv == TypeOK /\ SingleFlight /\ InFlightExact /\ StaleOnlyByOverlap

(* Every call is answered, joined ones too, even when factories reject. *)
Answered == \A c \in Callers : caller[c].pc # "idle" ~> caller[c].pc = "idle"
=============================================================================
