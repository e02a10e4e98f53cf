----------------------------- MODULE PowerCache -----------------------------
(***************************************************************************)
(* PowerCache (src/helpers/cache/core.js): its synchronous operations on   *)
(* the entries (CacheOps), and getOrSetAsync() with its flights.           *)
(*                                                                         *)
(* A flight is one run of a factory.  A "fetch" is awaited by the call     *)
(* that began it, with a timeout, and by the calls that joined it; a       *)
(* "refresh" runs in the background of a stale answer.  The two maps       *)
(* _inflightPromises and _inflightControllers are set and cleared together *)
(* and are one function here.                                              *)
(***************************************************************************)
EXTENDS CacheOps

CONSTANTS
  AsyncKeys,           \* the keys getOrSetAsync is called with
  Flights,             \* factory runs, in the order they begin
  CacheCalls,               \* calls of getOrSetAsync
  MaxInflightRefreshes

ASSUME FlightConstants == AsyncKeys \subseteq Keys /\ Nil \notin Flights

VARIABLES
  asynchronous,  \* whether getOrSetAsync is called
  cache,
  flights,     \* each flight's key, kind, whether its factory runs, whether it was signalled
  inflight,    \* key -> the flight registered for it, or Nil
  calls,       \* each call: "new", "owner", "joiner" or "settled", and its flight
  disposed,
  cleared      \* history: keys registered when clear() dropped their registration

vars == << asynchronous, cache, flights, inflight, calls, disposed, cleared >>

IdleFlight == [key |-> Nil, kind |-> "none", running |-> FALSE, aborted |-> FALSE]

InitWith(policy, async) ==
  /\ asynchronous = async
  /\ cache = NewCache(policy)
  /\ flights = [f \in Flights |-> IdleFlight]
  /\ inflight = [k \in Keys |-> Nil]
  /\ calls = [i \in CacheCalls |-> [state |-> "new", flight |-> Nil]]
  /\ disposed = FALSE
  /\ cleared = {}

\* Flights begin, and calls are made, in the order of their numbers.
Unused ==
  { f \in Flights : flights[f].kind = "none" /\ \A g \in Flights : g < f => flights[g].kind # "none" }
IsNew(i) == calls[i].state = "new" /\ \A j \in CacheCalls : j < i => calls[j].state # "new"
Usable == ~cache.mishap

\* _abortInflight for each key of S.
Signalled(S) ==
  [f \in Flights |-> [flights[f] EXCEPT !.aborted = @ \/ \E k \in S \cap Keys : inflight[k] = f]]

\* The cache becomes c, and the flights of the keys it drops are signalled.
Becomes(c) ==
  /\ cache' = [c EXCEPT !.aborted = {}]
  /\ flights' = Signalled(c.aborted)

Does(c) ==
  /\ Usable
  /\ Becomes(c)
  /\ UNCHANGED << inflight, calls, disposed, cleared, asynchronous >>

-----------------------------------------------------------------------------
(* Operations without a flight of their own                                *)

Set(k, w, age, wins) == ~disposed /\ Does(SetKey(cache, k, w, age, wins))

SetPair(k1, k2, w, wins) == Does(SetMany(cache, k1, k2, w, wins))

Get(k) == Does(GetKey(cache, k))

Peek(k) == Does(Fetched(cache, k))

TouchKey(k, age) == Does(Touch(cache, k, age))

Delete(k) == Does(DeleteKey(cache, k))

InvalidateSome(S) == Does(Invalidate(cache, S))

Evict == Does(EvictOne(cache))

CleanupExpired(budget) == Does(Cleanup(cache, budget))

ResizeTo(limit) == Does(Resize(cache, limit))

ClearAll ==
  /\ Usable
  /\ Becomes(Clear(cache))
  /\ cleared' = cleared \cup { k \in Keys : inflight[k] # Nil }
  /\ inflight' = [k \in Keys |-> Nil]
  /\ UNCHANGED << calls, disposed, asynchronous >>

Dispose ==
  /\ ~disposed
  /\ disposed' = TRUE
  /\ Becomes(Clear(cache))
  /\ cleared' = cleared \cup { k \in Keys : inflight[k] # Nil }
  /\ inflight' = [k \in Keys |-> Nil]
  /\ UNCHANGED << calls, asynchronous >>

\* The clock reaches the entry's expiresAt, then its stale window's end.
Ages_(k) ==
  /\ Usable
  /\ \/ cache.age[k] = "fresh" /\ cache' = [cache EXCEPT !.age[k] = "expired"]
     \/ cache.age[k] = "expired" /\ cache' = [cache EXCEPT !.age[k] = "gone"]
  /\ UNCHANGED << flights, inflight, calls, disposed, cleared, asynchronous >>

-----------------------------------------------------------------------------
(* getOrSetAsync                                                           *)

Running == { f \in Flights : flights[f].running }
Registered == { k \in Keys : inflight[k] # Nil }
Settled == [state |-> "settled", flight |-> Nil]

Begin(f, k, kind) == [key |-> k, kind |-> kind, running |-> TRUE, aborted |-> FALSE]

\* getOrSetAsync() reads the map, not the small and ghost queues.
Hit(i, k) ==
  /\ Usable /\ IsNew(i)
  /\ k \in On(cache.main) /\ cache.age[k] \notin Expired
  /\ Becomes(MoveToTail(cache, k))
  /\ calls' = [calls EXCEPT ![i] = Settled]
  /\ UNCHANGED << inflight, disposed, cleared, asynchronous >>

\* A stale answer, and _refreshStaleEntry unless a flight is there or too many are.
HitStale(i, k) ==
  LET c == MoveToTail(cache, k)
      skip == inflight[k] # Nil \/ Cardinality(Registered) >= MaxInflightRefreshes
  IN  /\ Usable /\ IsNew(i)
      /\ k \in On(cache.main) /\ cache.age[k] = "expired"
      /\ cache' = [c EXCEPT !.aborted = {}]
      /\ IF skip THEN UNCHANGED << flights, inflight >>
         ELSE \E f \in Unused :
                /\ flights' = [Signalled(c.aborted) EXCEPT ![f] = Begin(f, k, "refresh")]
                /\ inflight' = [inflight EXCEPT ![k] = f]
      /\ calls' = [calls EXCEPT ![i] = Settled]
      /\ UNCHANGED << disposed, cleared, asynchronous >>

Missed(k) == k \notin On(cache.main) \/ cache.age[k] = "gone"
AfterMiss(k) == IF k \in On(cache.main) THEN Drop(cache, k, FALSE) ELSE cache

Join(i, k) ==
  /\ Usable /\ IsNew(i) /\ Missed(k) /\ inflight[k] # Nil
  /\ cache' = AfterMiss(k)
  /\ calls' = [calls EXCEPT ![i] = [state |-> "joiner", flight |-> inflight[k]]]
  /\ UNCHANGED << flights, inflight, disposed, cleared, asynchronous >>

Fetch(i, k) ==
  /\ Usable /\ IsNew(i) /\ Missed(k) /\ inflight[k] = Nil
  /\ cache' = AfterMiss(k)
  /\ \E f \in Unused :
       /\ flights' = [flights EXCEPT ![f] = Begin(f, k, "fetch")]
       /\ inflight' = [inflight EXCEPT ![k] = f]
       /\ calls' = [calls EXCEPT ![i] = [state |-> "owner", flight |-> f]]
  /\ UNCHANGED << disposed, cleared, asynchronous >>

Owners(f) == { i \in CacheCalls : calls[i] = [state |-> "owner", flight |-> f] }
Waiters(f) == { i \in CacheCalls : calls[i].flight = f }
Settle(S) == [i \in CacheCalls |-> IF i \in S THEN Settled ELSE calls[i]]

\* The factory ends.  Its value is stored first, whatever became of the key; then, for a
\* refresh and for a fetch whose owner still waits, what is registered for the key is
\* dropped (and by a fetch, signalled), whether it is this flight or another.
FactoryEnds(f, ok) ==
  LET k == flights[f].key
      c == IF ok /\ ~disposed THEN SetKey(cache, k, 1, "fresh", TRUE) ELSE cache
      owned == Owners(f) # {}
      ended == [Signalled(c.aborted \cup IF owned THEN {k} ELSE {}) EXCEPT ![f].running = FALSE]
  IN  /\ Usable /\ f \in Running
      /\ cache' = [c EXCEPT !.aborted = {}]
      /\ flights' = ended
      /\ inflight' = IF owned \/ flights[f].kind = "refresh" THEN [inflight EXCEPT ![k] = Nil] ELSE inflight
      /\ calls' = Settle(Waiters(f))
      /\ UNCHANGED << disposed, cleared, asynchronous >>

\* The owner's timer: the slot is released and the factory signalled, while it still runs.
TimesOut(f) ==
  LET k == flights[f].key
  IN  /\ Usable /\ f \in Running /\ Owners(f) # {}
      /\ calls' = Settle(Owners(f))
      /\ flights' = Signalled({k})
      /\ inflight' = [inflight EXCEPT ![k] = Nil]
      /\ UNCHANGED << cache, disposed, cleared, asynchronous >>

\* Bug: the slot is released without a signal.
TimesOutSilently(f) ==
  /\ Usable /\ f \in Running /\ Owners(f) # {}
  /\ calls' = Settle(Owners(f))
  /\ inflight' = [inflight EXCEPT ![flights[f].key] = Nil]
  /\ UNCHANGED << flights, cache, disposed, cleared, asynchronous >>

TimeOut(f) == TimesOut(f)

-----------------------------------------------------------------------------
Pair == { p \in Keys \X Keys : p[1] # p[2] }

Entries ==
  \/ \E k \in Keys :
       \/ \E w \in {1, 2}, age \in {"never", "fresh"}, wins \in BOOLEAN : Set(k, w, age, wins)
       \/ Get(k) \/ Peek(k)
       \/ \E age \in {"never", "fresh"} : TouchKey(k, age)
  \/ \E p \in Pair, wins \in BOOLEAN : SetPair(p[1], p[2], 1, wins)
  \/ \E S \in SUBSET Keys : InvalidateSome(S)
  \/ \E n \in {1, Cardinality(Keys)} : CleanupExpired(n)
  \/ \E m \in 1..MaxEntries : ResizeTo(m)

\* With getOrSetAsync() on some of the keys, and what can come between its steps.
Async ==
  \/ \E k \in AsyncKeys :
       \/ \E i \in CacheCalls : Hit(i, k) \/ HitStale(i, k) \/ Join(i, k) \/ Fetch(i, k)
       \/ Set(k, 1, "fresh", TRUE)
  \/ \E f \in Flights : TimeOut(f) \/ \E ok \in BOOLEAN : FactoryEnds(f, ok)

CacheNext ==
  \/ asynchronous /\ Async
  \/ ~asynchronous /\ Entries
  \/ \E k \in Keys : Delete(k) \/ Ages_(k)
  \/ Evict \/ ClearAll \/ Dispose

-----------------------------------------------------------------------------
EntriesAreSound == ~cache.mishap => ListsAreSound(cache) /\ PointersAreSound(cache)

CacheIsBounded == ~cache.mishap => IsBounded(cache)

\* At most one factory that was not told to stop runs for a key, unless clear() dropped a
\* registration of it; and what is registered runs, so that a key is never blocked by a
\* flight that is over.
FlightsAreSound ==
  /\ \A f, g \in Running :
       flights[f].key = flights[g].key /\ ~flights[f].aborted /\ ~flights[g].aborted
         => f = g \/ flights[f].key \in cleared
  /\ \A k \in Registered : inflight[k] \in Running /\ flights[inflight[k]].key = k
  /\ \A i \in CacheCalls : calls[i].state \in {"owner", "joiner"} => calls[i].flight \in Running
=============================================================================
