# performance-helpers in TLA+

`performance-helpers` is a JavaScript library of building blocks for programs that do much at
once: a worker pool, permit gates and bulkheads, queues, caches, circuit breakers, retries,
rate limiters, and reconnecting transports. Nothing in it is parallel inside one
component (every method runs to completion on one thread), and yet almost all of it is
concurrent: callers, workers, timers, abort signals and promise reactions reach a component in
any order, and each of them may find it in a state its author was not thinking of.

This directory models the components whose correctness depends on that order, checks them with
TLC on small instances, and proves the central facts with TLAPS for every value of the constants.

## 1. The system

File names without a directory are under `src/src/helpers/`. "State" is what a component keeps between calls.

| component | state | operations | used by |
|---|---|---|---|
| permit gate `powerPermitGate.js` | units available and held, the waiter queue, the count of cancelled entries | `acquire` `tryAcquire` `release` `reset` `dispose`, the abort listener | semaphore, bulkhead, backpressure |
| semaphore `powerSemaphore.js` | a permit gate | `acquire` `tryAcquire` `run` `reset` | user code |
| bulkhead `powerBulkhead.js` | one gate per partition, drain waiters | `run` `tryRun` `drain` `reset` | user code |
| backpressure `powerBackpressure.js` | a gate, a refill timer, an AIMD window | `acquire` `release` refill, `reset` `dispose` | user code |
| worker pool `powerPool.js` | workers and their task counts, `_activeTasks`, the task queue, pending responses by correlation id, `_isIdle`, drain waiters, the idempotency ledger | `postMessage(Batch)` `broadcast` `drain` `close` `shutdown` `resize` `addWorker` `removeWorker` `pauseQueue` `resumeQueue` `stopThePress`, autoscaling, replies, worker deaths, timers | chunking, user code |
| chunking `powerChunking.js` | a pump over an iterable | construct, `drain` | user code |
| ring queue `powerQueue.js` | a power-of-two buffer, head, tail, size, total weight | `push(Many)` `unshift(Many)` `fill` `shift` `removeAt` `shrink` `clear` `dispose` | gate, pool, transports |
| priority queue `powerPriorityQueue.js` | a binary heap of numbered entries | `push(Many)` `shift` `popLowest` `clear` | pool |
| cache `cache/core.js`, memoizer `cache/memoizer.js` | entries on lists with size, expiry and use, pointers into the lists, loads in flight | `get` `set` `delete` `getOrSetAsync`, refresh, clean-up, eviction under seven policies | user code |
| TTL map, deduplication, LFU sketch, histogram | expiries and their minimum, seen keys, packed counters, buckets and their cached order | reads and writes | pool, cache, transports, user code |
| circuit `powerCircuit.js`, retry `powerRetry.js`, deadline `powerDeadline.js`, task group `powerTaskGroup.js` | breaker state, probes, attempts, budgets, signals | `call`, `run`, attempt, hedge, `cancel` | user code |
| limiters `powerThrottle.js` `powerGCRA.js` `powerSlidingWindow.js` `powerRateLimit.js`, flow control `powerFlowControl.js`, flow controller `powerFlowController.js` with its servo | tokens or windows over a clock, legs, a rate and an integral | `tryConsume`, `reserve`, `release`, `observe` | adapters, user code |
| batch `powerBatch.js`, scheduler `powerScheduler.js` | buffered items, one shared message channel | `add` `flush` `clear`, `cancel` `dispose` | user code |
| latch `powerLatch.js`, cross lock `powerCrossLock.js`, cron `powerCron.js` | a count and waiters; a lock of the platform; a schedule | `wait` `countDown` `abort`; `run`; `start` `stop` `runNow` | user code |
| event bus `powerEventBus.js`, observer `powerObserver.js` | subscriber sets by key; a value, subscribers, a chain | `on` `once` `off` `emit`; `subscribe` `effect` `derive` | everything |
| WebSocket client, WebTransport client, RTC channel, datagram channel with sequencer and heartbeat, socket adapter, broadcast bus, frame decoder | connection state, queues, timers, generations, cursors | `connect` `send` `close` `drain`, the events of the platform's object | user code |
| realtime hub `powerRealtimeHub.js` | topics, subscribers with a queue and a policy each, a retained log, the memo of the last frame | `subscribe` `publish` `flush` `drain` `close` | user code |

How they interact: the semaphore, the bulkhead and backpressure call the gate; the gate and the
pool keep their waiters in a ring queue, the pool its tasks in the priority queue; the pool talks
to its workers by messages and to its users by promises, and chunking feeds it; a retry runs every
attempt through a circuit and pays for it from a budget, a deadline runs a retry, a group runs all
of them under one signal; a composed limiter charges its legs and may have to undo it; the flow
controller sets the rate of a limiter from latencies; batches ride on a scheduler's carriers; the
hub encodes one frame for several subscribers.

What is hard in this code:

* **several parties settle one promise**: the reply, the response timer, the caller's abort, the
  death of the worker, a queue eviction, a reset and a shutdown race for each pending response; so
  do a latch's waiters, a retried operation and the waits of the clients;
* **counters beside the state they count**: `_held` and `_available`, `_cancelledWaiters`,
  `_activeTasks` and each worker's `tasks`, `totalWeight`: each is updated by hand on every path;
* **cached conclusions**: `_isIdle`, the earliest expiry of a table, a histogram's order, the hub's
  frame memo must be refreshed by every path that changes what they were drawn from;
* **clean-up by key**: a `finally` block or an emission removes what is registered under a key,
  whoever registered it by then;
* **lazy deletion**: an aborted waiter stays in its queue until a release walks over it;
* **resets and reconnections under load**: units, tasks, timers and sockets of before are still out;
* **arithmetic at the edge**: a ring that wraps, a clock that steps back, nibbles, clamps at zero.

`PROJECT.json` lists these as hazards at their lines, each with the properties that would catch
it going wrong.

## 2. Modules

| module | models | how |
|---|---|---|
| `GateOps` | `powerPermitGate.js` | each method as an operator from gate record to gate record, so that a gate can stand alone or be one of several |
| `PermitGate` | a gate in use | one action per operation, the calls that made it in the record |
| `FifoSemaphore` | nothing in the code: what a gate promises | holders and a line, no compaction, no counters |
| `Bulkhead` | `powerBulkhead.js` | a function from partitions to gate records; one action per method and per promise reaction |
| `PoolOps` | `powerPool.js` | each method as an operator; `...Results` is the set of states the method may leave |
| `PowerPool` | a pool in use | callers, workers, operators, the autoscaler and drains as actions |
| `RingOps`, `HeapOps`, `Queues` | `powerQueue.js`, `powerPriorityQueue.js` | each method as an operator; the ring alone, and ring and heap given the same items |
| `Deque` | nothing in the code: what a ring promises | a sequence |
| `Resilience` | circuit, retry with budget and hedges, deadline, task group | the four composed: legs, attempts, timers, signals and the breaker they share |
| `CacheOps`, `PowerCache` | `cache/core.js` | lists, pointers and policies as functions of a record; `getOrSetAsync` and its flights as actions |
| `Memoizer` | `cache/memoizer.js` | runs registered by key, the wrapper's promise that stores and unregisters |
| `ExpiringTables` | TTL map, deduplication, the pool's idempotency ledger | entries in order, expiries, the shortcut beside them |
| `Sketches` | LFU sketch, histogram | bytes and nibbles; buckets between powers of gamma |
| `RateLimits` | throttle, GCRA, sliding window, their composition, flow control | a clock in ticks that may step back; tokens in exact fractions |
| `FlowController` | flow controller and servo | a bounded queue and an integral controller in integers |
| `Backpressure` | `powerBackpressure.js` | on top of `GateOps` |
| `Batching`, `Chunker` | batch and scheduler; chunking over a pool | carriers of scheduled work; a pump and the pool it fills |
| `Latch`, `Cron` | latch, cross lock; cron | waiters and settlements; periods, runs and the ledger of both |
| `EventBus`, `Observers` | event bus and subscriber sets; observers | a stack of emissions or notifications whose listeners act |
| `WebSocketClient`, `WebTransportClient`, `SocketAdapter` | the three with a life cycle | sockets or sessions numbered as they are made, each with its own late events; timers as bags |
| `Datagrams`, `RtcChannel`, `Broadcast`, `Framing` | datagram channel, sequencer, heartbeat; RTC channel; broadcast bus; frame decoder | a network that loses, repeats, reorders and cuts anywhere |
| `RealtimeHub` | `powerRealtimeHub.js` | queues, policies, replay, drain chains, and the microtasks between |
| `MC...` | | values of the constants for TLC |
| `..._proofs` | | lemmas and theorems |

`MCHelpers` and `MCRealtime` put small components that share no state side by side: a
behaviour is one of a single part, whose name is in `part`, and their properties bundle one
property per part.

A JavaScript method runs to completion, so it is one action, with every call it makes: an
`acquire` that compacts the queue and grants is one step. What is a step of its own is what the
event loop may put something else in front of: a reply, a timer, an abort event, a worker's
`exit`, the continuation of an `async` method after an `await`, a promise reaction. Where user code
is called in the middle (listeners, subscribers, effects, a post that calls a balancer), a stack of
what is being called is part of the state, and what that code does is a step as well.

**Data.** Callers are model values, and a call is made once: its id stands for the promise, the
release callback and the abort signal that belong to it. Messages have no content. Worker ids are
the smallest free ones, because the code compares ids only for equality; sockets, sessions,
flights and listeners are numbered in the order they are made. A byte of a stream is its place in
it. Statistics, events nobody in the model listens to, and log lines are left out.

**Nondeterminism.** Where the environment decides, the model allows both: a constructor
(of a worker, a socket or a session) or a `postMessage` that throws, a session that has no `ready`, which of two equally loaded workers has the lower latency, which
workers have been idle for longer than `idleTimeout`, which of two keys the sketch thinks is more
frequent, what a factory, a task or a handler results in, and when a timer fires.

A faulty form (`...KeepsCount`, `...Forgets...`) stands before some operators: the same operator
with one plausible mistake. The specification never uses it; with it in place of the operator
TLC finds the property it belongs to violated, which shows that the property looks where it should.

## 3. Runs

| run | instance | shows |
|---|---|---|
| `gate_unit` | 5 calls, capacity 2, queue limit 2, weight 1 | exact ledger, no idle permit, first come first served, every waiter settles |
| `gate_heavy_waiter` | weights 1 and 2 | *violated*: a waiter of weight 2 starves, see 6 |
| `bulkhead` | 3 calls, 2 partitions of capacity 2, queue limit 1, weights 1, 2 and 3, 2 drains | exact counters, isolation, `drain()` resolves exactly when idle |
| `pool_safety` | 4 calls, at most 2 workers, queue limit 2, 1 drain, ten scenarios | all safety properties of the pool |
| `pool_live` | 3 calls, 1 worker, three scenarios | every response and every drain settles |
| `pool_lost_on_dequeue` | 3 calls, posts that throw | *violated*: a queued response is lost, see 6 |
| `pool_exit_stall` | 3 calls, 1 worker that may die | *violated*: a drain hangs, see 6 |
| `queues` | 3 items, capacities 2, 4, 8, up to 6 queued | ring refines a sequence, weight exact, heap order, heap agrees with ring |
| `resilience` | 3 operations in a group, two scenarios, 2 attempts, one hedge, threshold 2, one probe, a budget of 2 tokens | probe slots, paid retries, no orphaned request, every run settles |
| `helpers` | eighteen parts: stores, limiters, coordination, listeners | one bundle of properties per kind |
| `realtime` | nine parts: clients, channels, hub | one bundle of properties per kind |
| `hub_memo` | one subscriber, batches of 3, values that come back | *violated*: a frame of another batch is sent, see 6 |

**Bounds, and why they are enough.** Five calls on a gate of two units are two holders, two
waiters, and one more to find the queue full or its count of cancelled entries wrong. Three calls
of weights 1 to 3 on partitions of two units make a heavy task hold a partition while another
waits and a third is shed or goes to the other partition; weight 3 is the task no partition can
hold. Two workers and a queue of two give a pool in which one worker dies while the other works
and the queue is full. Three restarts (`MaxBootFailures`) reach the bootstrap guard, whose counter
the model stops at its limit. Capacities 2, 4, 8 with six items let the ring wrap, grow twice, and
shrink while wrapped. The pool's scenarios (in `MCPowerPool`) fix the options and which operations
take place; each keeps together the operations that could disturb one another.

Two attempts and one hedge are what it takes for a leg to outlive its attempt and for two legs to
compete; a budget of two tokens runs out. Three keys in a cache of two entries and a weight of
three make every write evict, and three flights of one key are one that was given up, one that
replaced it and one that joins. Five ticks are two lifetimes of an entry; nine are four periods of
a cron job, more than a catch-up may replay. The limiters' clock has four ticks, more than a
window, and each odd event (a step back, a returned reservation, added tokens) comes once (`MaxOdd`). Seven items in chunks of two are a last chunk that is not full, and two
windows. Two listeners, two levels of emission and three registrations let a listener remove, add
and call itself and its neighbour. Three sockets or sessions with one retry and two calls of
`connect()` are one link that lives, one whose late events arrive, and one a timer makes; of the two frames
one is sent with `dropOnBackpressure` (`Droppable`), at once or out of the queue. Four
datagrams in a window of three overrun it. Three published values and a queue of two meet the
policy; six with three values of memory do so in `hub_memo`. Streams of at most three frames with
payloads of 0, 1, 3 and 4 bytes, a limit of 5 bytes (4 is one too many) and a buffer of 4 bytes
let every cut fall in a header, a payload and between frames, and double the buffer twice. Three
samples in six values are a histogram with equal, distinct, zero and infinite ones.
Ids are taken in the order of their numbers where they are interchangeable.

**Fairness.** `PermitGate!FairSpec` assumes that every holder releases: `run()` of the semaphore
and the bulkhead does so in a `finally` block. `PowerPool!FairSpec` assumes that a worker
answers what it was given and announces itself, that a paused queue is resumed, and that a due
promise reaction runs. `Bulkhead!FairSpec` assumes that promise reactions run and that tasks end.
`Resilience!Fairness` assumes that timers fire and promise reactions run, and not that any `fn`
ever returns. Nothing else is fair: no caller needs to call, no abort needs to come. Symmetry is
used in `pool_safety` only, where requests are interchangeable and no liveness is checked. What
`helpers` and `realtime` say of progress is said as safety: whoever waits is within reach of
something that is armed (a timer, a job, an emission under way), because the timer or job itself is the
platform's to run.

**Deadlock** is checked for the gate, the bulkhead and the queues. Elsewhere a system may stop:
a pool that was shut down, a run that is settled, a bounded clock at its end.

## 4. Properties

*Gate.* `LedgerIsSound`: `_held` is what callers really hold, a reset mints no permit for a holder
still running, each live waiter is queued exactly once. `UnitsConserved`, `PendingIsLiveWaiters`,
`NoIdlePermit`, `ImplementsFifo` (refinement of `FifoSemaphore`), `EveryWaiterSettles`.

*Bulkhead.* `CountsAreExact`: `_outstanding` and `_activeCount` between any two reactions.
`PermitsAreOwned`: a task holds its permit exactly from the reaction on it to its end, across resets,
so no partition runs more than it may. `DrainIsExact`: a drain is released only when no admitted call is
unsettled, and then at once. `EveryDrainResolves`, unless a heavy task is stuck (see 6).

*Pool.* `NoLostResponse`: an open promise belongs to a call that is queued or that a live worker
has. `SettledOnce`, `OpenIsRegistered`: no party settles a promise after another, or leaves one
behind when ids are reused. `WorkIsCounted`: the counters match the work in flight, for batches
that fail in the middle too, and the limits hold. `IdleIsAnnounced`, `DrainMeansDone`: a waiting drain has something
to wait for, and a resolved one means what it says. `WorkersAreKept`: where the readiness
gate is asked, a worker that is not ready has one task at most, and none in a pool of fixed size; and the pool stays
between its bounds while it is scaled and workers die, except where workers are added or taken off by hand, after a
reset, where a worker cannot be created or the bootstrap guard has stopped the refill. `ShutdownIsFinal`,
`AbortReleasesWaiter`; `EveryResponseSettles` and `EveryDrainSettles` under fairness.

*Queues.* `RingKeepsShape` (free slots are cleared, so nothing is retained), `ImplementsDeque`,
`TotalWeightIsExact`, `HeapIsSound` (heap order, and agreement with a search of the ring).

*Resilience.* `ProbeSlots`: the slots a half-open circuit counts are its probes in flight, until an abort ends
one of its calls, and never more than they are. `ExtraWorkIsPaid`: every retry and hedge took its token. `NoOrphan`: no request runs on
without having been told to stop once what it was for is settled. `EveryRunSettles`, even when no `fn` returns.

*Stores.* `CacheIsSound` (lists and the pointers into them, limits), `SharedRuns` (one run per
key, nobody waits for one that is over), `ShortcutsAreSound` (what a table, a ledger, a sketch and
a histogram answer from their shortcut is what they would answer from everything they were told:
`NothingOverdueIsMissed`, `DuplicatesAreKnown`, `RetriesAreSafe`, `EstimatesAreSound`,
`QuantilesAreClose`).

*Primitives.* `LimitsAreSound` (no stretch of time admits more than was promised, a composed call
is all or nothing, the announced wait suffices, the servo does not wind up), `GateKeepsFlowing` (for callers of one unit
each: who waits has a refill to come, and no permit is lost),
`BatchesAreKept` (no item is stranded, promises are true, every chunk is worked off or reported
before `drain()` says so), `CoordinationIsSound` (latch, lock, cron), `ListenersAreKept` (event
bus, observers).

*Realtime.* `LinksAreSound` (one live link, which is watched and tried again until told to stop or out of attempts;
each frame has one fate; conversion keeps the order; a drain comes to an end), `ChannelsDeliver`
(datagrams at most once and in order, RTC frames in order and released, receivers that do not answer
known; of a cut stream the unfinished rest is kept and the frames before it are passed over in order), `HubDelivers` (bounded slow consumers, no stranded
backlog, each frame the values in their order), `FrameIsItsBatch`.

Where the code is known to break such a property in a corner, a history variable says that the
corner was met (`mishap`, `raced`, `wsThrew`, `wtThrew`, `broken`, `ghost`, `late`, `stalled`, `swapped`, `mixed`,
`nested`, `tooLate`, `gone`) and the property excuses exactly that; section 6 lists them. `KeepsTrying` says nothing of
the streams tier, whose failed handshakes are not tried again.

## 5. Proofs

Everything below holds for every value of the constants the module allows: any set of calls, any
number of workers, any capacity and weights. `PROJECT.json` lists the theorems; the runs check the
same properties on small instances.

### The gate

`GateOps_proofs` and `PermitGate_proofs` prove:

* `TypeCorrect`, `HeldExact`, `CapacityBound`, `QueueSound`: the invariants `TypeOK`,
  `HeldIsOutstanding`, `CapacityIsCeiling` and `QueueIsLive`;
* `LedgerSound`: `LedgerIsSound`, their conjunction;
* `NoUnitLost`: `UnitsConserved`, if the gate starts full and resets ask for the whole capacity;
* `PendingExact`: `PendingIsLiveWaiters`, if no abort listener fires after a reset;
  `PendingNeverOverstates`: if one does, `pending` is too small and never too large;
* `NoPermitIdles`: `NoIdlePermit`, for unit weights;
* `GateIsFifo`: `ImplementsFifo`, the refinement of `FifoSemaphore`, if the gate is used as
  `PowerSemaphore` uses it (unit weights, starts full, full resets, no abort after a reset).

*The argument.* None of the first four is inductive alone: that a release never drives `_held` below
zero needs `_held` to be what the holders hold, that a grant to a waiter is a grant needs the
waiter to be queued once, and the ceiling needs both. `IInv` is their conjunction, with finiteness
of the sets of units. Units are counted as the cardinality of a set of (call, unit) pairs, not as
a recursive sum, so that "the holders after the step" is a disjoint union the library's
cardinality theorems apply to: `UnitsAdd` is the one lemma on counting, and each operation has a
lemma (`AcquireSound`, `ReleaseSound`, ...) that it leads from a sound gate to a sound gate.
`ServedFits` is the heart of the release: the waiters that are served need no more units than were
released. `CorpseInv` adds that the count of cancelled entries is the number of them in the queue,
`IdleInv` that nothing is available while somebody waits. The refinement maps the queue to its
live waiters, in order (`Line`, characterised by `Lists` and not by recursion): compaction and the entries of cancelled
waiters are then stutters, and a release that hands its unit on is one step of the ideal semaphore.

*From which assumptions.* `GateConstants`: a natural capacity, positive weights, finitely many
calls; and what each theorem names in its `ASSUME`. A gate used with other weights, or one reset below
its capacity, is outside `NoUnitLost`, `NoPermitIdles` and `GateIsFifo`; section 6 says what it does.

### The bulkhead

`Bulkhead_proofs` builds on the same lemmas, for any number of partitions and any resets.
`PartitionsAreIsolated` is the invariant `PermitsAreOwned`. Its inductive invariant says that
every partition's gate is sound and that every call is `Placed`: what its phase and partition say of
its status in each gate. The status is where the two halves meet (a waiter served by somebody
else's release becomes a holder while its own reaction has not run), so each gate operation has a
second lemma on what it does to the status of the calls (`ReleaseStatus`, ...), and each kind of step one
on the placement (`SentSound`, `MovedSound`, `EndSound`). `CountersAreExact` is `CountsAreExact`, from
`CountInv`: the counters are the cardinalities of the sets of calls they stand for, and nobody waits
where `outstanding` is zero. `DrainTellsTheTruth` is the action property `DrainIsExact`, from the same lemma.

### The pool

`PowerPool_proofs` proves, for any calls, correlation ids, sizes, scenarios and numbers of workers:

* `PoolStaysSound`: the inductive invariant `Main`;
* `WorkIsAlwaysCounted`, `OpenIsAlwaysRegistered`, `IdleIsAlwaysAnnounced`, `ShutdownIsAlwaysFinal`:
  the invariants `WorkIsCounted`, `OpenIsRegistered`, `IdleIsAnnounced`, `ShutdownIsFinal`;
* `NoResponseIsLost`: `NoLostResponse`, if no post of a request throws (`pool_lost_on_dequeue`
  shows what happens where one does);
* `AbortAlwaysReleases`: `AbortReleasesWaiter`, if the pool has a task queue and calls with a signal
  transfer nothing (in the other cases the code attaches no listener, see 6);
* `SettledStaysSettled`, `DrainAlwaysMeansDone`: the action properties `SettledOnce` and `DrainMeansDone`;
* `WorkersAreAlwaysKept`: `WorkersAreKept`, the size of the pool and the readiness of who works.

*The invariant.* `Main` has a part that holds between any two statements of the code, `Inv`, and a
part that only holds between two turns of the event loop. `Inv` is: types and distinct worker ids
(`Sound`); an unsettled promise is what its id leads to, and every entry is a request under its own id
(`Booked`); a call is in one place, new, queued once or with workers (`Placed`); the task counters are
the cardinalities of what the workers have (`Crewed`); the limits (`Within`); nobody waits in an
idle pool (`Restful`). The rest is: the idle state is the one that was announced (`Announced`);
somebody answers for every open promise, none is open after a shutdown, and none of an aborted
caller is (`Minded`); a pool that was shut down is empty (`Final` implies `Gone`). `WorkIsCounted` needs
all of `Inv`: a counter stays the number of calls in flight only if no call is given out twice,
which is `Placed`; a reply settles the right promise only by `Booked`. `NoLostResponse` is
`Minded` with `Placed`: a call leaves the queue only to be settled or to be carried.

*The argument.* A method of the pool is a composition of operators, so the proof is one too. What
an operator changes is stated once as a predicate on the states before and after it (`Settles`,
`Opens`, `Joins`, `Hands`, `Dismisses`, `Discards`, ...). From the predicate alone follow `Inv` of the state after
it and `Follows`, which says what it may have done to calls not in its hands; `Follows` and `Goes`
compose, so a method is the composition of its parts. Each action then has a lemma
`...Stands`: `Main` is kept, nothing settled changes, and a drain that is resolved finds nothing. `NextStands` is their
case split. TLC has checked `Main` in every state of the scenarios of `pool_safety`.

*Workers.* `WorkersAreAlwaysKept` has an invariant of its own beside `Main`. `Roomy` holds between any two statements: the
upper bound of the size, and that whoever is not ready has one task at most. `Full`, the lower bound, holds once the
dead have been replaced, so that the proof of a worker's exit carries it over the whole of `onExit`.

*Loops.* The loops of the pool (over the items of a batch, the queue, the workers) are recursive functions
local to an operator. A lemma about one states what it has done after `n` rounds, and takes the
least `n` for which that fails (`LeastExists`, from the library's well-founded orders); that the
function exists is shown in the same way (`KeptExists`, `GrownExists`, `PostedExists`, ...). This is why the
model has `Without` for a filter and keeps its loops as functions over a range of naturals.

*From which assumptions.* `PoolConstants` (natural bounds, finitely many calls, a mark for "no entry" that is no
call) and `PowerPoolConstants` (scenarios with sizes up to `MaxAlive`).

### The queues

`Queues_proofs` proves, for any set of items, any priorities and any set of buffer sizes:

* `ShapeKept`: `RingKeepsShape`, that the head and the size stay in range and exactly the slots
  of the window from head to tail hold items;
* `RingIsSequence`: `ImplementsDeque`, that every operation of the ring is the operation of the plain
  sequence it promises;
* `WeightExact`: `TotalWeightIsExact`, that the running total is the weight of what is queued;
* `HeapAlwaysSound`: `HeapIsSound`, that the binary heap is ordered, and hands out and drops the items
  that a search of the ring would.

*The argument.* `RingInv` speaks of slots of the buffer, the sequence of positions counted from
the head. The lemmas on slots translate one into the other: position `i` lies in slot
`(head + i) % capacity`, distinct positions of the window in distinct slots, and doubling or halving
the buffer keeps the positions while it changes the slots. Each operation then has one lemma, that it
keeps `RingInv` and what it does to the sequence, and one on the weight of the sequence, a recursive
function of it that is reasoned about like the pool's loops. `RoundUp` (the smallest power of two that fits) and
`Foremost` (the first of the heaviest) choose a least element; that it exists comes from the
library's theorem on well-founded orders. *From which assumptions:*
`RingConstants` and `QueuesConstants`: sizes are positive naturals, one of which is large enough for
`MaxItems`; `Items` holds neither the mark of a cleared slot nor anything the heap cannot take. That sizes
are powers of two (`& mask` is then `%`) is the one fact of the code the proofs do not need.

*The heap.* `HeapInv` says that every entry is ordered against its parent, and that the entries are, in
order of arrival, the items of the ring. A push moves one entry up the path of its ancestors, a shift moves one
down: in between, the heap is ordered except at the entry that moves, whose children are ordered against its
parent. That the root is the foremost entry is an induction on the position, done by the least
counterexample. The entry that `popLowest()` drops is the last among the least, hence a leaf: taking it out
leaves the rest ordered but for the entry put in its place, which can only rise.

### Retries, circuit, deadline, task group

`Resilience_proofs` proves, for any operations and options: `SlotsAreProbes` (`ProbeSlots`),
`BudgetHolds` (`ExtraWorkIsPaid`), `LosersAreTold` (`NoOrphan`) and `ResilienceTypes`. A disposed circuit is part of all of them:
its `call()` rejects with ECIRCUITDISPOSED, which a retry takes for a failed attempt (`FailsDisposed`), so that the run
is penalised, judged, and pays for its next attempt (`FailsDisposedSound`). *The argument.*
`ProbeSlots` needs that probes are attempts in progress and that a circuit which is not half-open has
none. That extra requests do not outnumber the tokens is not inductive, because a token is taken
before the request it pays for starts: `BudgetInv` counts requests from the moment they are paid (`Paid`, a set of pairs), a retry
from when its backoff sleep begins and a hedge from when its timer is armed. `NoOrphan` is
inductive once every attempt is numbered. `ResilienceSafety` is the conjunction.

### The helpers

`Helpers_proofs` proves four of the bundles the run `helpers` checks, for any values of their constants.
A behaviour is one of a single part, so that each part has an inductive invariant of its own. What the history
variables of section 4 excuse the theorems excuse too.

* `CoordinationHolds` (`CoordinationIsSound`). The latch and the cron job are inductive with their types; a replay of
  missed periods is a number of runs at once, of which none but the first is unexcused. The lock needs
  who is where: a request is in the queue at most once, and whoever holds the lock does not wait for it.
* `GateAlwaysFlows` (`GateKeepsFlowing`), on the lemmas of the gate. A gate that mints permits is not `IInv`: its ledger
  is bounded from below only (`PoolInv`). That a refill is armed while somebody waits needs that nobody
  waits while a permit is available, and that a heartbeat belongs to an adaptive controller.
* `ListenersAlwaysKept` (`ListenersAreKept`). For the bus: entries are numbered, a bucket has a listener once, and what
  is wanted is in the bucket its key leads to. For the observers: the lists name each subscriber once, a
  pending change is the value of today, and, as long as no notification is nested, a subscriber who is due knows
  the value, will still be told, or waits for the flush; an effect that is being run has nothing open.
* `RunsAlwaysShared` (`SharedRuns`). That two runs of a key are not both live cannot be inductive alone. `FlightInv` says which
  flights *matter* (they run, and are not aborted, or are a refresh, or have an owner): each is the one
  registered for its key, unless `clear()` dropped a registration of it, and a registered fetch has an owner who takes it
  out. `MemoInv` is the same of the memoizer: a running run whose key was not given up is the registered one.

### The clients of a link

`Realtime_proofs` proves `LinksAlwaysSound` (`LinksAreSound`), for any number of sockets, sessions, frames and attempts.

*WebSocket.* `WsInv` is four invariants that share little state. `LinkInv`, as long as `connect()` was not called
while a reconnect was due: only the socket in use is alive, and it is listened to; a retry, or a close that waits behind
frames, is of a closed client whose socket reports no more, and there is one of them, never both (`LinkDue`: this is
what keeps a second timer from being set over the first); the connect timer is that of the socket being opened; every other timer
is of an open client. `OutInv`: the queue and the frames being flushed name a frame at most once, and exactly those
that are queued. `InInv`: what waits on the inbound chain came in after what was delivered and in its order, and
nothing waits unless the chain is set, so that a frame which does not join it overtakes none.
*WebTransport.* `WtInv`: only the session in use is alive, a client that is to try again has none, and one that is connecting
has a session that lives or whose end is still to be heard, unless the handshake broke. A client whose
constructor threw (`wtThrew`) is closed and listens to no session, so that nothing late can end that state but a
retry or a `connect()`; a session without `ready` (mute) lives like one that is connecting, without a timer.
*Adapter.* `AdInv`: an open drain has a timer or a close to come, and a closed adapter a socket that is closing.
*From which assumptions.* `ClientConstants`, `WtConstants`: sockets, sessions and frames are numbered from 1.

### The channels

`Realtime_proofs` also proves `ChannelsAlwaysDeliver` (`ChannelsDeliver`), for any number of datagrams, any sizes, receivers,
payload lengths and pieces.

*Datagrams.* `DgInv` is `DatagramsAreSound` with the types; it is inductive. `ReleasedUpTo` says what the sequencer hands on
when a hole closes: the numbers up to the next hole, which is a largest element of a bounded set. `OnlyKeeps`: a flush that
keeps the refused datagrams keeps each once. Writing the step of `CheckHeart` down brought a mistake in the model
to light: its guard read `timer /\ stops => ~fresh`, which binds as `(timer /\ stops) => ~fresh`, so that a heart without a timer
could check; it is now that of `powerHeartbeat.js:184-214`.
*RTC.* `RtcInv`: what was sent, then what is queued, is in the order of `send()`; the queued bytes are those of the
queue; an open channel under pressure is over the threshold or has a `bufferedamountlow` to come. `DrainsFar` is the heart of it:
the drain loop stops at the first frame that brings the pressure back, so that either nothing is left or the pressure is on again.
*Broadcast.* `BcInv`: the frames that wait are among those that were sent, and each count is the cardinality of a receiver's.
*Frames.* `FrInv` is `FramesAreWhole` with the types and with the cursors in the buffer. `ReservedKeeps`: the bytes between the cursors
are the same after `_reserve()`, and the piece fits (`DoubledIsEnough`). `RoundKeeps`: a round of the loop begins
and ends at the start of a frame; a position holds the byte that is its number, so that `DeclaredAt` finds exactly the frame
that comes next. `LoopKeeps` puts the rounds together, and that there are as many as there are bytes is enough for the loop to be over.

*How something is shown of a loop.* The library's induction takes the property as a parameter, which no prover here can
instantiate. Instead, `UpTo` says that a *set* of places that has 0 and with each place the next one has them all
(by the least place outside it), and `StepwiseExists` that a recursive function over `0..n` is a function with its
values where they should be; both take sets and functions, no operators. Every loop above is then a function
`f[0], f[1], ...`, and the places where the invariant of the loop holds are such a set.
*From which assumptions.* `DatagramConstants`, `RtcConstants`, `BroadcastConstants` and `FramingConstants`: limits are natural numbers,
a header and a piece have at least one byte.

### The hub

`Realtime_proofs` also proves `HubAlwaysDelivers` (`HubDelivers`), for any members, topics, bounds, batch sizes, policies
and publications. `HubInv`: what a subscriber was sent and then what it has queued rises (`QueuesRise`), and so do the
retained logs (`LogsRise`), so that a replay joins what is published after it; `inFlight` is the number of batches whose `send()` has not been
released, and each microtask that is due belongs to one of those batches, counted (`ChainsAreKnown`), so that a release
that is heard finds a batch to release; who has a backlog has something at work for it (`NoBacklogIsStranded`).
The memo is the hard part. `Seamless` speaks of the `Trail`, the pairs of publications that followed one another in the memo or follow
one another in some queue. As long as values are published once and no queue has a gap, two pairs of the trail never have
the same first and different second members (`Forks`): a frame is then determined by its first value and its
length, and the one that is remembered under the same ends and length is the frame of the batch. *From which assumptions.*
`HubConstants`: natural bounds, positive batch sizes, the three policies, and topics that are not the marks "none" and "closed".

### Only model-checked

* Liveness under fairness, which the prover does not do: `EveryWaiterSettles`, `EveryDrainResolves`,
  `EveryResponseSettles`, `EveryDrainSettles`, `EveryRunSettles`.
* Bundles with a part that computes over a whole sequence or bag, by a fold or a recursive function, whose result for every input
  is an induction over data: `CacheIsSound` (chains of links), `ShortcutsAreSound` (sketch and histogram),
  `BatchesAreKept` (chunks).
* `LimitsAreSound`: products of rates and times, beyond the provers' linear arithmetic.
* `FrameIsItsBatch`, which is false (see 6); `HubAlwaysDelivers` has the case in which it holds.
* What a recursive function computes on every input, where the property would have to be
  passed to an induction theorem as a parameter; the least-counterexample argument replaces it where an invariant of the loop is enough.

## 6. Where code and documentation disagree

Each has a run whose single property is violated.

* `gate_heavy_waiter`. `release()` offers the queue only the units of that one release
  (`powerPermitGate.js:516`). Units that came back before stay in `_available`, so a waiter that
  needs two units is not served when two holders of one unit release. The comment there says that
  the waiter waits "for more permits"; they come, and it still waits.
* `pool_lost_on_dequeue`. A post that throws while an item is taken off the queue drops the item
  (`powerPool.js:2988`), and its promise is left to a timeout, if it has one. The comment at 1771
  says that every path that abandons a response rejects it.
* `pool_exit_stall`. When a worker dies with tasks queued, the replacement is created but the
  queue is not dispatched (`powerPool.js:3235`): the tasks wait for a message that may never come.
* `hub_memo`. The memo of the last encoded frame is looked up by the length and the two ends of
  the batch and is never cleared (`powerRealtimeHub.js:1314`): after x, y, x a batch x, z, x is sent as the frame of
  the former. The comment at 533 argues from an invariant about the queues of two subscribers; the
  batches here are two of one subscriber.

**Known deviations.** These were met while modelling; the model has the code's behaviour, and a
property, a scenario or a history variable says where it does not apply.

*Gate.*
* An abort that comes after `reset()` still counts a cancelled waiter (`powerPermitGate.js:284`), so
  `pending` under-reports later waiters. `AbortsAfterReset` is the constant that allows it;
  `gate_unit` sets it to FALSE.
* `reset({ available: n })` below the capacity loses units for good (`powerPermitGate.js:384`);
  `LedgerIsSound` still holds, `UnitsConserved` does not.

*Pool.*
* `resize()` and `stopThePress()` do not look at `_terminated` and create workers on a pool that
  was shut down; `ShutdownIsFinal` is stated for pools on which neither is called.
* `_dispatchQueuedTasks()` looks at the idle state only when it has posted something
  (`powerPool.js:5829`). A pass that only discards aborted or expired items, or whose posts throw, empties the
  queue in silence, and a waiting `drain()` hangs, against the comment at 5467 that it resolves when the pool is idle.
  `Prompt` in `IdleIsAnnounced` excuses pools on which such a pass can happen; the first attempt to prove the
  invariant without it met the case.
* `close()` of a pool that was shut down resolves at once, even where `resize()` or `stopThePress()` have
  put work into it since; `DrainMeansDone` leaves that combination out.
* A post with a transfer list has no abort listener while in flight (`powerPool.js:1218`); the
  scenarios have `zeroCopy` empty where `AbortReleasesWaiter` is checked.
* Growth on demand posts to the new worker before it is ready (`powerPool.js:1493`); readiness is
  checked for pools of fixed size. A batch chooses among all workers, ready or not.
* `readyTimeout` is looked at when something is posted or dispatched (`powerPool.js:3383`), so tasks
  queued behind a worker that never reports wait for the next call.
* With priority aging a reply takes the most urgent item off the queue (`powerPool.js:2943`), and
  resuming takes the oldest (`powerPool.js:5788`). How long an item must age to outweigh a more
  urgent one is a choice of the model (`Takes`).
* `drop-oldest` lets one queued task go for every item that must wait, even where the queue has room (1655). Queued
  items of a batch lose their signal, deadline and `deferred` mark.
* Autoscaling adds workers under queue pressure and dispatches nothing to them.
* The cursor of the idempotency ledger's bounded sweep does not come back to the oldest keys while
  new ones keep arriving, so an expired key may stay and be refused (the comment at 3588 says that every entry is reached); an awaited post that is
  refused settles its key, so the retry of a task that never ran is refused as well (3695).

*Stores.*
* Under `s3fifo`, removing an entry of the small queue overwrites head and tail of the main list
  (`cache/core.js:1268`), `setMany` does not look into the small queue (2462), and `invalidate`
  skips it (2794): `mishap`.
* After `clear()` or a delete the `finally` of an old flight ends a newer one of the same key
  (`cache/core.js:2666`, and the memoizer's likewise); a refresh that never settles blocks its key.
* A TTL map whose `onExpire` writes during a sweep may note the earliest expiry too late (not
  reachable in the model, whose callbacks do not write). `mark()` on a live key evicts an innocent one.

*Resilience.*
* A late success of a call admitted before the circuit opened closes it, and a stale `finally` gives
  back a probe slot it never took. `PowerDeadline` gives `PowerRetry` neither signal nor deadline,
  so a backoff sleep outlives both.
* A disposed circuit rejects with ECIRCUITDISPOSED (`powerCircuit.js:442`), and a retry gives up at once on ECIRCUITOPEN only
  (`powerRetry.js:792`): it sleeps and tries again up to `maxAttempts`, and spends tokens on attempts of which none can succeed.
* An abort ends a call admitted before the circuit opened and gives back a probe slot it never took: after an abort
  `ProbeSlots` is an upper bound only.

*Limits and coordination.*
* The undo of a composed call resets a leg that has no `rollback`, which gives it its whole budget
  (`powerRateLimit.js:762`). `observe()` of the flow control credits elapsed time at the new rate.
* The flow controller's integral starts at zero, so its first observation discards the initial rate.
* Refills of backpressure may put out more than the capacity, by design. Without `adaptive`, a refill that finds the pool full
  while somebody is queued arms no other (`powerBackpressure.js:443-454`); with callers of one unit that does not happen, with
  weights given through the options a heavy waiter could be left there.
* A cron tick that is skipped because the last run goes on is not reported as missed (362);
  replayed runs of an asynchronous task overlap; `stop()` and `start()` clear the mark of a run in flight.
* `drain()` of a chunker looks at its options only when the pump has ended; an endless iterable has none.
* A stolen lock lets two sections run at once (documented).

*Listeners.*
* `emit` removes an emptied bucket by key, and with it one that a listener has just made (`swapped`,
  `powerEventBus.js:427`). `once(fn)` beside `on(fn)`: the wrapper may remove the other registration
  (`mixed`), against the comment at `powerSubscriberSet.js:132`.
* A value set inside a notification reaches later subscribers before the older one (`nested`). An effect that is ended
  while the same notification is on its way runs its clean-up twice or leaks one (`tooLate`).

*Realtime.*
* The WebSocket client's reconnect timer opens a socket without looking at the state
  (`powerWebSocketClient.js:1907`), so a `connect()` before it leaves an open socket behind;
  `close()` during a handshake leaves `connect()` unsettled; a handshake of the streams tier that
  fails is not tried again although the comment there says so.
* Both clients: a constructor that throws when a reconnect is due leaves the client closed with nothing to come
  (`powerWebSocketClient.js:1252`, `powerWebTransportClient.js:568`). The timer ignores the rejection with the comment that
  `_handleClose` schedules the next attempt (1910 and 920), which only an event of a socket would call, and none was made.
  `wsThrew` and `wtThrew` excuse the state until a `connect()`. A WebTransport session without `ready` (555) rejects, and
  the client stays CONNECTING without a connect timer. The rejection of an older session's `ready` or `closed` settles its promise
  and with it clears the connect timer of a newer session (529); the model does the same. `connectTimeoutMs` is positive in the model.
* The WebTransport client stays CONNECTING after a failed handshake, and becomes OPEN without a
  session when it closes during the first stream's creation (`ghost`).
* The sequencer's `missing()` stops at the first gap (138), and a gap that opens behind another is not reported.
* The socket adapter counts a drain twice, `dispose()` leaves its promise waiting, and a message after
  the close arms the idle timer again.
* The hub may have two frames of one subscriber outstanding (1240), against the comment at 1131; a `send`
  that throws at once leaves the rest of the queue until the next publication.
* The frame decoder loses the frames that came in the same piece as one it refuses
  (`powerMessageCodec.js:507`), and refuses every later piece while its buffer grows, until `reset()`.

## 7. Not modelled

`PROJECT.json` has the reason for each component. In short: adapters that forward one call to one
call of a platform object (SSE, WebTransport adapter, message ports); byte-level codecs, buffers
and transfer lists; logging and measurement, except the histogram; the searches over real-valued
measurements (`powerAdaptiveProposal`, `powerBrownout`), whose interest is numerical; options, errors,
types and wrappers of the clock. Under `src/bench`, `src/tools` and the guides there is no behaviour
of the library.

Of the modelled ones: of the pool, health checks and codecs; of
the gate, the leak detector, which releases what a collected callback held, at a time the garbage collector decides; of the cache, `load`, the clean-up timer, the
statistics; of the limiters, per-key slots and legs that cannot say what they have left; of the
event bus, weak references, since the garbage collector decides; of the clients, compression and the
values of the delays; of the hub, presence; of the histogram, its floating-point sum and the
interpolation inside a bucket.

## 8. Plan

Modelling is done as far as the code's control goes, and of the proofs planned those of the pool, the helpers' coordination, the clients,
the channels, the frame decoder and the hub are done. What is left is proof:

1. the parts of the remaining bundles that compute nothing over a sequence: the batch, the TTL map, the deduplication
   and the servo;
2. the chain of the cache's lists (`ListsAreSound`), for which the lists must be described without recursion.

Liveness under fairness and what products of rates and times promise stay with TLC.
