----------------------------- MODULE MCHelpers -----------------------------
(* The stores, the limiters, the coordination primitives and the listeners *)
(* side by side, for TLC.  They share no state: a behaviour is one of a single part, and *)
(* the others stay as they began.                                          *)
EXTENDS PowerCache, ExpiringTables, Sketches, Memoizer,
        RateLimits, FlowController, Backpressure, Batching, Chunker, Latch, Cron,
        EventBus, Observers, TLC

CONSTANTS k1, k2, k3

MCKeys == {k1, k2, k3}
MCMemoKeys == {k1}
MCLedgerKeys == 1..4
MCMissCost == k1 :> 2 @@ k2 :> 1 @@ k3 :> 1

\* k2 shares a counter with k1 in row 0, with k3 in row 1; k1 and k3 are each alone in a row.
MCColumn == [row \in 0..1 |-> IF row = 0 THEN k1 :> 0 @@ k2 :> 0 @@ k3 :> 1
                              ELSE k1 :> 0 @@ k2 :> 1 @@ k3 :> 1]

MCStrategies ==
  { << "macrotask", "macrotask" >>, << "microtask", "yield" >>, << "postTask", "macrotask" >> }

VARIABLE part

Parts == {"cache", "ttl", "seen", "ledger", "sketch", "hist", "memo", "limits", "flow", "gate", "batch", "chunks", "latch", "lock", "cron",
          "loop", "bus", "observers"}

storeVars == << vars, tvars, dvars, ledgerVars, svars, histVars, mvars >>
listenerVars == << busVars, obsVars, loopVars >>
primitiveVars == << rvars, bvars, batchVars, chunkVars, latchVars, lockVars, cronVars >>

\* The parts that are not the one that moves begin in one state.
StoreInit ==
  /\ \/ \E p \in Policies : InitWith(p, FALSE)
     \/ InitWith("lru", TRUE)
  /\ part # "cache" => cache.policy = "lru" /\ ~asynchronous
  /\ TInit /\ DInit /\ LedgerInit /\ SInit /\ HistInit /\ MInit

PrimitiveInit ==
  /\ RInit
  /\ part # "limits" => legs = Legs
  /\ part # "flow" => \A r \in FlowRates : flow.rate <= r
  /\ BInit /\ (part # "gate" => ~adaptive)
  /\ BatchInit /\ (part # "batch" => strategy = << "macrotask", "macrotask" >>)
  /\ ChunkInit /\ (part # "chunks" => setup = CHOOSE s \in ChunkSetups : ~s.stream)
  /\ LatchInit /\ (part # "latch" => count = 0) /\ LockInit
  /\ CronInit /\ (part # "cron" => policy = "skip" /\ ~overlap)

ListenerInit ==
  /\ BusInit
  /\ ObsInit /\ (part # "observers" => ~immediate /\ ~distinct)
  /\ LoopInit

Init == part \in Parts /\ StoreInit /\ PrimitiveInit /\ ListenerInit

StoreNext ==
  /\ \/ part = "cache" /\ CacheNext /\ UNCHANGED << tvars, dvars, ledgerVars, svars, histVars, mvars >>
     \/ part = "ttl" /\ TNext /\ UNCHANGED << vars, dvars, ledgerVars, svars, histVars, mvars >>
     \/ part = "seen" /\ DNext /\ UNCHANGED << vars, tvars, ledgerVars, svars, histVars, mvars >>
     \/ part = "ledger" /\ LedgerNext /\ UNCHANGED << vars, tvars, dvars, svars, histVars, mvars >>
     \/ part = "sketch" /\ SNext /\ UNCHANGED << vars, tvars, dvars, ledgerVars, histVars, mvars >>
     \/ part = "hist" /\ HistNext /\ UNCHANGED << vars, tvars, dvars, ledgerVars, svars, mvars >>
     \/ part = "memo" /\ MNext /\ UNCHANGED << vars, tvars, dvars, ledgerVars, svars, histVars >>
  /\ UNCHANGED << primitiveVars, listenerVars >>

PrimitiveNext ==
  /\ \/ part = "limits" /\ LimitsNext /\ UNCHANGED << bvars, batchVars, chunkVars, latchVars, lockVars, cronVars >>
     \/ part = "flow" /\ FlowNext /\ UNCHANGED << bvars, batchVars, chunkVars, latchVars, lockVars, cronVars >>
     \/ part = "gate" /\ BNext /\ UNCHANGED << rvars, batchVars, chunkVars, latchVars, lockVars, cronVars >>
     \/ part = "batch" /\ BatchNext /\ UNCHANGED << rvars, bvars, chunkVars, latchVars, lockVars, cronVars >>
     \/ part = "chunks" /\ ChunkNext /\ UNCHANGED << rvars, bvars, batchVars, latchVars, lockVars, cronVars >>
     \/ part = "latch" /\ LatchNext /\ UNCHANGED << rvars, bvars, batchVars, chunkVars, lockVars, cronVars >>
     \/ part = "lock" /\ LockNext /\ UNCHANGED << rvars, bvars, batchVars, chunkVars, latchVars, cronVars >>
     \/ part = "cron" /\ CronNext /\ UNCHANGED << rvars, bvars, batchVars, chunkVars, latchVars, lockVars >>
  /\ UNCHANGED << storeVars, listenerVars >>

ListenerNext ==
  /\ \/ part = "bus" /\ BusNext /\ UNCHANGED << obsVars, loopVars >>
     \/ part = "observers" /\ ObsNext /\ UNCHANGED << busVars, loopVars >>
     \/ part = "loop" /\ LoopNext /\ UNCHANGED << busVars, obsVars >>
  /\ UNCHANGED << storeVars, primitiveVars >>

Next == (StoreNext \/ PrimitiveNext \/ ListenerNext) /\ UNCHANGED part

Spec == Init /\ [][Next]_<< part, storeVars, primitiveVars, listenerVars >>

-----------------------------------------------------------------------------
(* Each part keeps its promises; one that does not move keeps what it had.  *)

\* Whatever was evicted, expired, promoted or replaced in whichever order, each list of the
\* cache is the chain its links say, holds each entry once, and only entries the map knows;
\* and its limits hold.
CacheIsSound == part = "cache" => EntriesAreSound /\ CacheIsBounded

\* Concurrent calls for a key share one run of its factory, of the cache and of the
\* memoizer alike, unless it was given up while it ran; nobody waits for a run that is over.
SharedRuns ==
  /\ part = "cache" => FlightsAreSound
  /\ part = "memo" => RunsAreShared

\* What a store answers from a shortcut is what it would answer from everything it was told:
\* the TTL map from its earliest expiry, the deduplicator from its pruned table, the sketch
\* from its packed and halved counters, the histogram from its buckets, the ledger of idempotency keys from what its bounded
\* sweeps left of it.
ShortcutsAreSound ==
  /\ part = "ttl" => NothingOverdueIsMissed
  /\ part = "seen" => DuplicatesAreKnown
  /\ part = "ledger" => RetriesAreSafe
  /\ part = "sketch" => EstimatesAreSound
  /\ part = "hist" => QuantilesAreClose

\* Over any stretch of time, and whatever the clock did, no limiter admits more than it
\* promises, a composed call is not charged on some legs and refused on another, and the
\* wait that is announced is the wait that is needed; a rate that was driven to its bound by
\* the latency leaves it with the first sample that is better.
LimitsAreSound ==
  /\ part \in {"limits", "flow"} => AdmissionIsBounded /\ NeverTorn /\ RetryAfterIsHonest
  /\ part = "loop" => LoopIsResponsive

\* Where each caller takes one unit: nobody waits at the backpressure gate without a refill to
\* come, and no refill loses a permit that is held.
GateKeepsFlowing == part = "gate" => RefillIsComing /\ PermitsAreKept

\* Every item given to a batch is on its way to the handler, and its promise is fulfilled
\* only when the handler has taken that very item; of an iterable that was cut into chunks,
\* every chunk is worked off or reported before drain() says so.
BatchesAreKept ==
  /\ part = "batch" => NothingIsStranded /\ PromisesAreTrue
  /\ part = "chunks" => ChunksAreWorkedOff

\* A waiter of the latch is one that a settlement will reach; a lock is held for a section
\* that runs, and comes free however that ends; every period of the cron job
\* is run, reported or given up once, and its runs do not overlap unless asked to.
CoordinationIsSound ==
  /\ part = "latch" => WaitersAreReachable
  /\ part = "lock" => LockIsSound
  /\ part = "cron" => PeriodsAreAccounted /\ RunsDoNotOverlap

\* Whoever registers, leaves, emits and sets values while listeners run: what is registered is
\* in the set the next emission reads, what was coalesced ends at the value of today, and what
\* a listener opened is closed.  Excused, each where its part says so: a bucket that was made
\* anew and removed by key (swapped), one function registered by on() and once() (mixed), nested
\* notifications (nested), an effect ended while it is told (tooLate), a disposed observer (gone).
ListenersAreKept ==
  /\ part = "bus" => BusIsSound
  /\ part = "observers" => ObserversAreSound
=============================================================================
