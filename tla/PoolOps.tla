------------------------------- MODULE PoolOps -------------------------------
(***************************************************************************)
(* PowerPool (src/helpers/powerPool.js) as operators on one pool record.   *)
(* Each method runs to completion on the pool's own thread, so an operator *)
(* is the effect of one method; an operator whose name ends in "Results"   *)
(* is the set of the states the method may leave, where the environment    *)
(* decides (a worker constructor or a postMessage that throws, the         *)
(* latency that breaks a tie between workers).                             *)
(*                                                                         *)
(* A call is one postMessage().  A worker is named by the smallest id that *)
(* no worker of the pool has: ids are only ever compared for equality.     *)
(***************************************************************************)
EXTENDS Integers, Sequences, FiniteSets, SequencesExt

CONSTANTS
  Calls,            \* the posts that can be made
  Keys,             \* correlation ids
  MaxAlive,         \* a bound of the model: workers alive at once
  MaxBootFailures,  \* MAX_CONSECUTIVE_BOOTSTRAP_FAILURES
  Drains            \* the drain() and close() calls that can be made

Ids == 1..MaxAlive
NoCall == "none"     \* no entry in _pendingResponses
NoWorker == 0        \* entry.workerId is not set

ASSUME PoolConstants ==
  /\ MaxAlive \in Nat /\ MaxBootFailures \in Nat
  /\ IsFiniteSet(Calls) /\ NoCall \notin Calls

(***************************************************************************)
(* The options of the pool and of the calls, fixed when the pool is made.  *)
(***************************************************************************)
OptionsType ==
  [ requests     : SUBSET Calls,      \* calls that await a response
    keyOf        : [Calls -> Keys],   \* options.correlationId
    prio         : [Calls -> Nat],    \* options.priority
    zeroCopy     : SUBSET Calls,      \* calls with a transfer list
    mayThrow     : SUBSET Calls,      \* calls whose worker.postMessage() may throw
    signalled    : SUBSET Calls,      \* calls with an AbortSignal
    deadlined    : SUBSET Calls,      \* calls with a deadlineAt
    maxTasks     : Nat \ {0},         \* maxTasksPerWorker
    maxQueue     : Nat,               \* maxQueueLength
    maxDrains    : Nat \ {0},         \* maxDrainWaiters
    policy       : {"enqueue", "drop-oldest", "drop-newest", "reject"},
    taskQueue    : BOOLEAN,
    readyGate    : BOOLEAN,           \* workers announce that they are ready
    aging        : BOOLEAN,           \* priorityAgingMs > 0
    limits       : SUBSET (Nat \ {0}), \* what the adaptive limit may be; {} where it is off
    spawnMayFail : BOOLEAN ]          \* the worker constructor may throw

Operations ==
  {"post", "postTo", "broadcast", "abort", "elapse", "timeout", "ready", "exit", "pause",
   "add", "remove", "resize", "reap", "stopThePress", "drain", "giveUp", "close", "shutdown",
   "chatter", "batch", "batchTo", "stopThePressBatch", "autoscale", "overdue"}

(***************************************************************************)
(* What a call has come to.  "open" is a promise that has not settled,     *)
(* "sent" a post without one that was dispatched or queued; "misanswered"  *)
(* is a promise resolved with the reply to another call.                   *)
(***************************************************************************)
Outcome == {"new", "open", "sent", "refused", "resolved", "misanswered", "rejected"}

PoolType ==
  [ workers    : Seq(Ids),                   \* this.workers
    tasks      : [Ids -> Nat],               \* workerObj.tasks
    running    : [Ids -> SUBSET Calls],      \* what the worker really has to do
    ready      : [Ids -> BOOLEAN],
    overdue    : SUBSET Ids,                 \* created readyTimeout ago and not ready
    worked     : [Ids -> BOOLEAN],           \* everCompletedTask
    active     : Nat,                        \* _activeTasks
    queue      : Seq(Calls),                 \* in dispatch order
    pending    : [Keys -> Calls \cup {NoCall}],    \* _pendingResponses
    carrier    : [Keys -> Ids \cup {NoWorker}],    \* entry.workerId
    outcome    : [Calls -> Outcome],
    aborted    : SUBSET Calls,               \* signal.aborted
    elapsed    : SUBSET Calls,               \* deadlineAt has passed
    listens    : SUBSET Calls,               \* an abort listener is attached
    paused     : BOOLEAN,
    terminated : BOOLEAN,
    idle       : BOOLEAN,                    \* _isIdle
    drains     : [Drains -> {"new", "waiting", "resolved", "rejected"}],
    closing    : SUBSET Drains,              \* close() goes on to shutdown()
    minSize    : Nat,
    maxSize    : Nat,
    boots      : Nat,                        \* _consecutiveBootstrapFailures
    limit      : Nat,                        \* ceil(_adaptiveLimit), 0 where it is off
    options    : OptionsType,
    uses       : SUBSET Operations ]         \* the operations that take place

Live(p) == {p.workers[i] : i \in 1..Len(p.workers)}
Dead(p) == p.aborted \cup p.elapsed          \* items the dispatch loops discard
\* Faulty form: a queue that nobody serves is taken for an idle pool.
NoActiveTask(p) == p.active = 0

Quiet(p) == p.active = 0 /\ p.queue = << >>  \* allWorkersIdle && queueEmpty
\* Faulty form: the clamp is missing.
Unclamped(n) == n

\* Math.max(0, n), the clamp on both task counters.
AtLeast0(n) == IF n < 0 THEN 0 ELSE n
Larger(a, b) == IF a >= b THEN a ELSE b
Smaller(a, b) == IF a <= b THEN a ELSE b

\* What is left of a sequence without the elements of X, in its order.  SelectSeq, as a
\* recursive function that a proof can unfold.
Without(s, X) ==
  LET kept[i \in 0..Len(s)] == IF i = 0 THEN << >>
                               ELSE IF s[i] \in X THEN kept[i - 1]
                               ELSE Append(kept[i - 1], s[i])
  IN  kept[Len(s)]

-----------------------------------------------------------------------------
(***************************************************************************)
(* Pending responses.                                                      *)
(***************************************************************************)

\* Faulty form: the settled entry stays in the map.
SettleKeepsEntry(p, K, how) ==
  [ p EXCEPT
      !.outcome = [c \in Calls |-> IF \E k \in K : p.pending[k] = c THEN how ELSE p.outcome[c]] ]

\* _cleanupPendingResponse(key, ...) for every key of K.
Settle(p, K, how) ==
  [ p EXCEPT
      !.outcome = [c \in Calls |-> IF \E k \in K : p.pending[k] = c THEN how ELSE p.outcome[c]],
      !.pending = [k \in Keys |-> IF k \in K THEN NoCall ELSE p.pending[k]] ]

\* Faulty form: the entry is overwritten and its promise orphaned.
CreatePendingOverwrites(p, c) ==
  [ p EXCEPT !.pending[p.options.keyOf[c]] = c,
             !.carrier[p.options.keyOf[c]] = NoWorker,
             !.outcome[c] = "open" ]

\* _createPendingResponsePromise: the entry a key already has is rejected first.
CreatePending(p, c) ==
  LET q == Settle(p, {p.options.keyOf[c]}, "rejected")
  IN  [ q EXCEPT !.pending[p.options.keyOf[c]] = c,
                 !.carrier[p.options.keyOf[c]] = NoWorker,
                 !.outcome[c] = "open" ]

\* The call is turned down: its promise rejects, or postMessage returns false.
Refuse(p, c) ==
  IF c \in p.options.requests THEN Settle(p, {p.options.keyOf[c]}, "rejected")
  ELSE [p EXCEPT !.outcome[c] = "refused"]

-----------------------------------------------------------------------------
(***************************************************************************)
(* Idle state and workers.                                                 *)
(***************************************************************************)

\* _updateIdleState(), with the drain() waiters that listen for "idle".
UpdateIdleState(p) ==
  IF Quiet(p) /\ ~p.idle
  THEN [ p EXCEPT !.idle = TRUE,
                  !.drains = [d \in Drains |-> IF p.drains[d] = "waiting" THEN "resolved"
                                               ELSE p.drains[d]] ]
  ELSE [ p EXCEPT !.idle = p.idle /\ Quiet(p) ]

\* _addWorkerInstance()
AddWorkerInstance(p) ==
  LET w == Min(Ids \ Live(p))
  IN  [ p EXCEPT !.workers = Append(p.workers, w),
                 !.tasks[w] = 0,
                 !.running[w] = {},
                 !.ready[w] = ~p.options.readyGate,
                 !.overdue = p.overdue \ {w},
                 !.worked[w] = FALSE ]

AddWorkers(p, n) ==
  LET grown[i \in 0..n] == IF i = 0 THEN p ELSE AddWorkerInstance(grown[i - 1])
  IN  grown[n]

\* A loop that adds n workers stops at the first constructor that throws.
AddedResults(p, n) ==
  {AddWorkers(p, i) : i \in IF p.options.spawnMayFail THEN 0..n ELSE {n}}

\* The tasks the workers of W are counted to have.
TasksOf(p, W) == Cardinality(UNION {{w} \X (1..p.tasks[w]) : w \in W})

\* Faulty form: the promises of a terminated worker are left to their timers.
TerminateWorkersForgetsPending(p, W) ==
  [ p EXCEPT
      !.active  = AtLeast0(p.active - TasksOf(p, W)),
      !.tasks   = [w \in Ids |-> IF w \in W THEN 0 ELSE p.tasks[w]],
      !.running = [w \in Ids |-> IF w \in W THEN {} ELSE p.running[w]] ]

\* _terminateWorker() for every worker of W; the caller takes W off the array.
TerminateWorkers(p, W) ==
  LET doomed == {k \in Keys : p.pending[k] # NoCall /\ p.carrier[k] \in W}
  IN  [ Settle(p, doomed, "rejected") EXCEPT
          !.active  = AtLeast0(p.active - TasksOf(p, W)),
          !.tasks   = [w \in Ids |-> IF w \in W THEN 0 ELSE p.tasks[w]],
          !.running = [w \in Ids |-> IF w \in W THEN {} ELSE p.running[w]] ]

TakeOff(p, W) == [p EXCEPT !.workers = Without(p.workers, W)]

-----------------------------------------------------------------------------
(***************************************************************************)
(* Dispatch.                                                               *)
(***************************************************************************)

\* Faulty form: the abort listener of the queue is all there is.
DispatchNeverListens(p, c, w, listen) ==
  LET k == p.options.keyOf[c]
  IN  [ p EXCEPT
          !.running[w] = p.running[w] \cup {c},
          !.tasks[w]   = p.tasks[w] + 1,
          !.active     = p.active + 1,
          !.carrier[k] = IF p.pending[k] # NoCall /\ c \in p.options.requests THEN w
                         ELSE p.carrier[k],
          !.outcome[c] = IF p.outcome[c] = "new" THEN "sent" ELSE p.outcome[c] ]

\* _dispatchToWorker(), and the direct post of _postToWorkerObj(), which does
\* the same but attaches no abort listener.
Dispatch(p, c, w, listen) ==
  LET k == p.options.keyOf[c]
  IN  [ p EXCEPT
          !.running[w] = p.running[w] \cup {c},
          !.tasks[w]   = p.tasks[w] + 1,
          !.active     = p.active + 1,
          !.carrier[k] = IF p.pending[k] # NoCall /\ c \in p.options.requests THEN w
                         ELSE p.carrier[k],
          !.listens    = IF listen THEN p.listens \cup ({c} \cap p.options.requests)
                         ELSE p.listens,
          !.outcome[c] = IF p.outcome[c] = "new" THEN "sent" ELSE p.outcome[c] ]

\* _postToWorkerObj(): the post succeeds or, where it may throw, fails.
PostToResults(p, c, w, listen) ==
  {UpdateIdleState(Dispatch(p, c, w, listen /\ c \notin p.options.zeroCopy))}
    \cup (IF c \in p.options.mayThrow THEN {Refuse(p, c)} ELSE {})

\* Where push() places c: the priority queue behind its equals, the queue that is kept
\* where priorities age at the end.
Enqueue(p, c) ==
  LET ahead == {i \in 1..Len(p.queue) :
                  p.options.aging \/ p.options.prio[p.queue[i]] >= p.options.prio[c]}
  IN  InsertAt(p.queue, 1 + Cardinality(ahead), c)

\* The queue after several items.
EnqueuedAll(p, items) ==
  LET queue[i \in 0..Len(items)] ==
        IF i = 0 THEN p.queue ELSE Enqueue([p EXCEPT !.queue = queue[i - 1]], items[i])
  IN  queue[Len(items)]

\* The requests among the first n queued items, as correlation ids.
QueuedKeys(p, n) ==
  {p.options.keyOf[p.queue[i]] : i \in {j \in 1..n : p.queue[j] \in p.options.requests}}

\* Faulty form: one item too many.
QueueOverfull(p) == Len(p.queue) > p.options.maxQueue

\* _reserveQueueSlots(1) === 0, for the policies that do not evict.
QueueFull(p) == Len(p.queue) >= p.options.maxQueue

\* _enqueueOrReject()
EnqueueOrReject(p, c) ==
  LET evicts == p.options.policy = "drop-oldest" /\ p.queue # << >>
      turned == \/ p.options.policy = "reject"
                \/ p.options.policy = "drop-newest" /\ p.queue # << >>
                \/ ~evicts /\ QueueFull(p)
      room   == IF evicts
                THEN [ Settle(p, QueuedKeys(p, 1), "rejected") EXCEPT !.queue = Tail(p.queue) ]
                ELSE p
  IN  IF turned THEN Refuse(p, c)
      ELSE UpdateIdleState(
             [ room EXCEPT
                 !.queue      = Enqueue(room, c),
                 !.listens    = room.listens \cup ({c} \cap p.options.requests),
                 !.outcome[c] = IF room.outcome[c] = "new" THEN "sent" ELSE room.outcome[c] ])

ReadyWorkers(p) == Without(p.workers, {w \in Ids : ~p.ready[w]})

\* _readyWorkers() takes a worker that is overdue for ready.
LookedAt(p) ==
  [p EXCEPT !.ready = [w \in Ids |-> p.ready[w] \/ w \in p.overdue], !.overdue = {}]

\* _findLeastLoadedWorker() over every worker, as a batch asks for it: the readiness
\* gate is not consulted.
LeastLoadedOfAll(p) ==
  {w \in Live(p) : \A v \in Live(p) : p.tasks[w] <= p.tasks[v]}

\* _selectWorker(): a ready worker with the fewest tasks; which one of several
\* is decided by their latencies.
LeastLoaded(p) ==
  LET ready == {w \in Live(p) : p.ready[w]}
  IN  {w \in ready : \A v \in ready : p.tasks[w] <= p.tasks[v]}

\* The adaptive limit leaves room for one more task.
UnderLimit(p) == p.limit = 0 \/ p.active < p.limit

\* A post that the adaptive limit holds back.
HeldBack(p, c) == IF p.options.taskQueue THEN EnqueueOrReject(p, c) ELSE Refuse(p, c)

\* _postMessageInner() once the call has been accepted for routing.
RouteResults(p, c) ==
  LET least == {w \in LeastLoaded(p) : p.tasks[w] < p.options.maxTasks}
      ready == ReadyWorkers(p)
  IN  IF ~UnderLimit(p) THEN {HeldBack(p, c)}
      ELSE IF least # {} THEN UNION {PostToResults(p, c, w, TRUE) : w \in least}
      ELSE IF Len(p.workers) < p.maxSize
      THEN PostToResults(AddWorkerInstance(p), c, Min(Ids \ Live(p)), TRUE)
             \cup (IF p.options.spawnMayFail THEN {Refuse(p, c)} ELSE {})
      ELSE IF p.options.taskQueue THEN {EnqueueOrReject(p, c)}
      ELSE IF ready = << >> THEN {Refuse(p, c)}
      ELSE UNION {PostToResults(p, c, ready[i], FALSE) : i \in 1..Len(ready)}

\* A request is registered before it is routed.
Registered(p, c) == IF c \in p.options.requests THEN CreatePending(p, c) ELSE p

\* What postMessage() does with a call before it is routed: it throws after
\* shutdown, and refuses a signal that has aborted or a deadline that has gone.
AcceptedResults(p, c, routed) ==
  IF p.terminated \/ c \in p.aborted THEN {[p EXCEPT !.outcome[c] = "refused"]}
  ELSE IF c \in p.elapsed THEN {Refuse(Registered(p, c), c)}
  ELSE routed

PostMessageResults(p, c) ==
  LET q == LookedAt(p)
  IN  AcceptedResults(q, c, RouteResults(Registered(q, c), c))

\* postMessage() with options.workerId.
PostToWorkerResults(p, c, w) ==
  AcceptedResults(p, c,
    IF ~UnderLimit(p) THEN {HeldBack(Registered(p, c), c)}
    ELSE IF w \in Live(p) /\ p.tasks[w] < p.options.maxTasks
    THEN PostToResults(Registered(p, c), c, w, TRUE)
    ELSE {Refuse(Registered(p, c), c)})

-----------------------------------------------------------------------------
(***************************************************************************)
(* Batches.                                                                *)
(***************************************************************************)

\* _resolveBatchCorrelationIds(): an id that the factory gives twice, or that is
\* in use, fails the whole batch before anything is sent.
IdsCollide(p, items) ==
  \/ \E i, j \in 1..Len(items) : i # j /\ p.options.keyOf[items[i]] = p.options.keyOf[items[j]]
  \/ \E i \in 1..Len(items) : p.pending[p.options.keyOf[items[i]]] # NoCall

TurnedDown(p, items) ==
  [p EXCEPT !.outcome = [c \in Calls |-> IF Contains(items, c) THEN "refused" ELSE p.outcome[c]]]

\* postMessageBatch() whose items await responses posts them one by one.
AwaitedBatchResults(p, items, target) ==
  LET posted[i \in 0..Len(items)] ==
        IF i = 0 THEN {p}
        ELSE UNION {IF target = NoWorker THEN PostMessageResults(q, items[i])
                    ELSE PostToWorkerResults(q, items[i], target) : q \in posted[i - 1]}
  IN  IF IdsCollide(p, items) THEN {TurnedDown(p, items)} ELSE posted[Len(items)]

\* One item of postMessageBatch() that awaits nothing.  s.p is the pool, s.chosen
\* the worker that is used until it is full, s.queued what is to be queued in the
\* end; a batch for one worker (targeted) chooses no other.
BatchItemResults(s, c, targeted) ==
  LET p       == s.p
      least   == {w \in IF s.chosen # NoWorker THEN {s.chosen}
                        ELSE IF targeted THEN {} ELSE LeastLoadedOfAll(p) :
                     p.tasks[w] < p.options.maxTasks}
      grown   == AddWorkerInstance(p)
      policy  == p.options.policy
      evicted == IF policy = "drop-oldest" /\ p.queue # << >>
                 THEN [Settle(p, QueuedKeys(p, 1), "rejected") EXCEPT !.queue = Tail(p.queue)]
                 ELSE p
      sent(q, w) == [ s EXCEPT !.p = Dispatch(q, c, w, FALSE),
                               !.chosen = IF q.tasks[w] + 1 < q.options.maxTasks THEN w
                                          ELSE NoWorker ]
      held(q) == [s EXCEPT !.p = [q EXCEPT !.outcome[c] = "sent"], !.queued = Append(s.queued, c)]
      no(q)   == [s EXCEPT !.p = [q EXCEPT !.outcome[c] = "refused"]]
      try(q, w) == {sent(q, w)} \cup IF c \in p.options.mayThrow THEN {no(q)} ELSE {}
  IN  IF ~UnderLimit(p) THEN {IF p.options.taskQueue THEN held(p) ELSE no(p)}
      ELSE IF least # {} THEN UNION {try(p, w) : w \in least}
      ELSE IF targeted THEN {no(p)}
      ELSE IF Len(p.workers) < p.maxSize
      THEN try(grown, Min(Ids \ Live(p))) \cup IF p.options.spawnMayFail THEN {no(p)} ELSE {}
      ELSE IF p.options.taskQueue
      THEN {IF policy = "reject" \/ (policy = "drop-newest" /\ p.queue # << >>) THEN no(p)
            ELSE held(evicted)}
      ELSE IF p.workers = << >> THEN {no(p)}
      ELSE UNION {{[r EXCEPT !.chosen = s.chosen] : r \in try(p, w)} : w \in Live(p)}

\* Faulty form: the batch is queued whole.
ReservesAll(p, n) == n

\* _reserveQueueSlots(n): the number of items the queue will take.
Reserves(p, n) == Smaller(n, AtLeast0(p.options.maxQueue - Len(p.queue)))

\* _reserveQueueSlots(n), the part that makes room.
MadeRoom(p, n) ==
  LET excess == Len(p.queue) + n - p.options.maxQueue
      gone   == IF p.options.policy = "drop-oldest" THEN Smaller(AtLeast0(excess), Len(p.queue))
                ELSE 0
  IN  [ Settle(p, QueuedKeys(p, gone), "rejected") EXCEPT
          !.queue = SubSeq(p.queue, gone + 1, Len(p.queue)) ]

\* Faulty form: the idle state is looked at only when something was queued.
BatchEndsUnseen(p, s) ==
  LET room     == MadeRoom(s.p, Len(s.queued))
      admitted == SubSeq(s.queued, 1, Reserves(room, Len(s.queued)))
      left     == TurnedDown(room, SubSeq(s.queued, Len(admitted) + 1, Len(s.queued)))
      after    == [left EXCEPT !.queue = EnqueuedAll(left, admitted)]
  IN  IF admitted # << >> THEN UpdateIdleState(after) ELSE after

\* The end of postMessageBatch(): what fits is queued, the rest refused.
BatchEnds(p, s) ==
  LET room     == MadeRoom(s.p, Len(s.queued))
      admitted == SubSeq(s.queued, 1, Reserves(room, Len(s.queued)))
      left     == TurnedDown(room, SubSeq(s.queued, Len(admitted) + 1, Len(s.queued)))
      after    == [left EXCEPT !.queue = EnqueuedAll(left, admitted)]
  IN  IF after.active # p.active \/ admitted # << >> THEN UpdateIdleState(after) ELSE after

\* postMessageBatch(); target is options.workerId, or NoWorker.
BatchResults(p, items, target) ==
  LET start == [ p |-> p, queued |-> << >>,
                 chosen |-> IF target \in Live(p) /\ p.tasks[target] < p.options.maxTasks
                            THEN target ELSE NoWorker ]
      done[i \in 0..Len(items)] ==
        IF i = 0 THEN {start}
        ELSE UNION {BatchItemResults(s, items[i], target # NoWorker) : s \in done[i - 1]}
  IN  IF p.terminated THEN {TurnedDown(p, items)}
      ELSE IF items[1] \in p.options.requests THEN AwaitedBatchResults(p, items, target)
      ELSE IF target \notin Live(p) \cup {NoWorker} THEN {TurnedDown(p, items)}
      ELSE {BatchEnds(p, s) : s \in done[Len(items)]}

-----------------------------------------------------------------------------
(***************************************************************************)
(* The two loops that take work off the queue.                             *)
(***************************************************************************)

\* The positions that are taken off before position i: all before it, or, where
\* priorities age, those that are not outweighed.
TakenBefore(p, i) ==
  {j \in 1..i - 1 : p.options.aging => p.options.prio[p.queue[j]] >= p.options.prio[p.queue[i]]}

\* What a dequeue may take off: dead items, and then one that is live if there is one.  How
\* long an item must wait to outweigh a more urgent one is a choice.
Takes(p) ==
  LET all  == 1..Len(p.queue)
      live == {i \in all : p.queue[i] \notin Dead(p)}
      closed(S) == \A i \in S : TakenBefore(p, i) \subseteq S
  IN  IF live = {} THEN {<< all, 0 >>}
      ELSE {t \in (SUBSET (all \ live)) \X live :
              closed(t[1]) /\ TakenBefore(p, t[2]) \subseteq t[1]}

\* The dequeue at the end of worker.onmessage: aborted and elapsed items are
\* discarded, one live item is posted to w, and a post that throws loses it.
TakeNextResults(p, w) ==
  LET without(D, n) ==
        [ Settle(p, {p.options.keyOf[p.queue[i]] : i \in {j \in D : p.queue[j] \in p.options.requests}},
                 "rejected") EXCEPT
            !.queue = Without(p.queue, {p.queue[i] : i \in (D \cup {n}) \ {0}}) ]
  IN  UNION { LET q == without(t[1], t[2])
                  c == p.queue[t[2]]
              IN  IF t[2] = 0 THEN {q}
                  ELSE {Dispatch(q, c, w, TRUE)} \cup (IF c \in p.options.mayThrow THEN {q} ELSE {}) :
              t \in Takes(p) }

\* worker.onmessage: every message counts as the end of a task.
Uncounted(p, w) ==
  [ p EXCEPT !.tasks[w] = AtLeast0(p.tasks[w] - 1),
             !.active   = AtLeast0(p.active - 1),
             !.worked[w] = p.worked[w] \/ p.tasks[w] > 0 ]   \* a start time was kept

AfterMessageResults(p, w) ==
  LET takes == ~p.paused /\ p.queue # << >> /\ p.tasks[w] < p.options.maxTasks
  IN  {UpdateIdleState(q) : q \in IF takes THEN TakeNextResults(p, w) ELSE {p}}

\* A message of worker w that answers no call.
ChatterResults(p, w) == AfterMessageResults(Uncounted(p, w), w)

\* The reply of worker w to call c.
ReplyResults(p, w, c) ==
  LET done     == [ Uncounted(p, w) EXCEPT !.running[w] = p.running[w] \ {c} ]
      answered == IF c \notin p.options.requests THEN done
                  ELSE Settle(done, {p.options.keyOf[c]},
                              IF p.pending[p.options.keyOf[c]] = c THEN "resolved"
                              ELSE "misanswered")
  IN  AfterMessageResults(answered, w)

\* One item of _dispatchQueuedTasks(): s.p is the pool, s.free the slots each
\* worker has left in this pass, s.sent whether anything was posted.
Offer(s, c, throws) ==
  LET open == Without(ReadyWorkers(s.p), {w \in Ids : s.free[w] <= 0})
      w    == Head(open)
      rest == [ s.p EXCEPT !.queue = Tail(s.p.queue) ]
  IN  IF open = << >> \/ ~UnderLimit(s.p) THEN s
      ELSE IF c \in Dead(s.p)
      THEN [ s EXCEPT !.p = [ Settle(s.p, QueuedKeys(s.p, 1), "rejected") EXCEPT
                                !.queue = Tail(s.p.queue) ] ]
      ELSE IF c \in throws
      THEN [ s EXCEPT !.p = rest, !.free[w] = 0 ]
      ELSE [ p |-> Dispatch(rest, c, w, TRUE), free |-> [s.free EXCEPT ![w] = s.free[w] - 1],
             sent |-> TRUE ]

\* The pass over the queue, where the posts of throws throw.
AfterOffers(p, throws) ==
  LET offered[i \in 0..Len(p.queue)] ==
        IF i = 0
        THEN [ p |-> LookedAt(p), free |-> [w \in Ids |-> p.options.maxTasks - p.tasks[w]],
               sent |-> FALSE ]
        ELSE Offer(offered[i - 1], p.queue[i], throws)
  IN  offered[Len(p.queue)]

\* Faulty form: resuming clears the flag and nothing else.
DispatchNothing(p) == {p}

\* _dispatchQueuedTasks(): the idle state is updated only if something was sent.
DispatchQueuedTasksResults(p) ==
  LET end(s) == IF s.sent THEN UpdateIdleState(s.p) ELSE s.p
  IN  IF p.paused \/ ~p.options.taskQueue \/ p.queue = << >> THEN {p}
      ELSE {end(AfterOffers(p, throws)) : throws \in SUBSET p.options.mayThrow}

-----------------------------------------------------------------------------
(***************************************************************************)
(* Lifecycle.                                                              *)
(***************************************************************************)

\* Faulty form: the shortfall is taken before the dead worker is off the array.
WorkerExitCountsDead(p, w) ==
  LET gone  == TakeOff(TerminateWorkers(p, {w}), {w})
      boots == IF p.worked[w] THEN 0 ELSE Smaller(p.boots + 1, MaxBootFailures)
      q     == [gone EXCEPT !.boots = boots]
      short == AtLeast0(Smaller(p.minSize, p.maxSize) - Len(p.workers))
  IN  {UpdateIdleState(r) :
         r \in IF boots >= MaxBootFailures \/ p.terminated THEN {q} ELSE AddedResults(q, short)}

\* Faulty form: giving up on the refill returns before the idle check.
WorkerExitSkipsIdle(p, w) ==
  LET gone  == TakeOff(TerminateWorkers(p, {w}), {w})
      boots == IF p.worked[w] THEN 0 ELSE Smaller(p.boots + 1, MaxBootFailures)
      q     == [gone EXCEPT !.boots = boots]
      short == AtLeast0(Smaller(p.minSize, p.maxSize) - Len(q.workers))
  IN  IF boots >= MaxBootFailures \/ p.terminated THEN {q}
      ELSE {UpdateIdleState(r) : r \in AddedResults(q, short)}

\* _handleWorkerExit(); the failure count is only compared with its limit, so it
\* stops there.
WorkerExitResults(p, w) ==
  LET gone  == TakeOff(TerminateWorkers(p, {w}), {w})
      boots == IF p.worked[w] THEN 0 ELSE Smaller(p.boots + 1, MaxBootFailures)
      q     == [gone EXCEPT !.boots = boots]
      short == AtLeast0(Smaller(p.minSize, p.maxSize) - Len(q.workers))
  IN  {UpdateIdleState(r) :
         r \in IF boots >= MaxBootFailures \/ p.terminated THEN {q} ELSE AddedResults(q, short)}

\* resize({ minSize, maxSize }): grow to the minimum, then pop down to the maximum.
ResizeResults(p, min, max) ==
  LET sized == [p EXCEPT !.minSize = min, !.maxSize = Larger(min, max)]
      cut(q) == LET excess == {q.workers[i] : i \in (sized.maxSize + 1)..Len(q.workers)}
                IN  TakeOff(TerminateWorkers(q, excess), excess)
  IN  {UpdateIdleState(cut(q)) : q \in AddedResults(sized, AtLeast0(min - Len(p.workers)))}

\* removeWorker(): the last worker, whatever it is doing.
RemoveWorker(p) ==
  LET w == p.workers[Len(p.workers)]
  IN  UpdateIdleState(TakeOff(TerminateWorkers(p, {w}), {w}))

\* Workers of W come off the array from its end, each replaced by the last one,
\* while more than floor are left.
ShrunkTo(p, W, floor) ==
  LET n == Len(p.workers)
      swapOut(s, i) == IF Len(s) > floor /\ s[i] \in W
                       THEN SubSeq([s EXCEPT ![i] = s[Len(s)]], 1, Len(s) - 1)
                       ELSE s
      after[k \in 0..n] == IF k = 0 THEN p.workers ELSE swapOut(after[k - 1], n + 1 - k)
      left == after[n]
      cut  == Live(p) \ {left[i] : i \in 1..Len(left)}
  IN  [TerminateWorkers(p, cut) EXCEPT !.workers = left]

\* _reapIdleWorkers(), where the workers of old have been idle past idleTimeout.
ReapIdleWorkers(p, old) == UpdateIdleState(ShrunkTo(p, old, p.minSize))

\* The states _updateAdaptiveLimit() may leave: what the latencies make of the limit
\* is a choice.
LimitedResults(p) ==
  IF p.options.limits = {} THEN {p} ELSE {[p EXCEPT !.limit = n] : n \in p.options.limits}

\* Faulty form: the minimum size is not looked at.
ScaledDownBelow(p) ==
  IF p.queue # << >>
  THEN {} ELSE {ShrunkTo(p, {w \in Live(p) : p.tasks[w] = 0}, n) : n \in 0..Len(p.workers) - 1}

\* The part of _autoScaleTick() that removes idle workers when latency is low.
ScaledDown(p) ==
  IF p.queue # << >> \/ Len(p.workers) <= p.minSize
  THEN {}
  ELSE {ShrunkTo(p, {w \in Live(p) : p.tasks[w] = 0}, n) : n \in p.minSize..Len(p.workers) - 1}

\* The part that adds workers when latency is high or the queue is long.
ScaledUp(p) == UNION {AddedResults(p, n) : n \in 1..p.maxSize - Len(p.workers)}

\* _autoScaleTick(): which way it scales, and how far, is decided by the latencies,
\* the cooldown and the servo.  Nothing is taken off the queue.
AutoscaleResults(p) ==
  {p} \cup UNION {{q} \cup ScaledUp(q) \cup ScaledDown(q) : q \in LimitedResults(p)}

\* Faulty form: the queue outlives the pool.
ShutdownKeepsQueue(p) ==
  IF p.terminated THEN p
  ELSE UpdateIdleState(
         [ TerminateWorkers(Settle(p, Keys, "rejected"), Live(p)) EXCEPT
             !.terminated = TRUE, !.workers = << >>, !.active = 0 ])

\* shutdown()
Shutdown(p) ==
  IF p.terminated THEN p
  ELSE UpdateIdleState(
         [ TerminateWorkers(Settle(p, Keys, "rejected"), Live(p)) EXCEPT
             !.terminated = TRUE, !.workers = << >>, !.queue = << >>, !.active = 0 ])

\* _resetPoolForStopThePress()
ResetPoolResults(p, recreate) ==
  LET bare == [ TerminateWorkers(Settle(p, Keys, "rejected"), Live(p)) EXCEPT
                  !.workers = << >>, !.queue = << >>, !.active = 0 ]
      size == Larger(p.minSize, Smaller(Len(p.workers), p.maxSize))
  IN  {UpdateIdleState(q) : q \in IF recreate THEN AddedResults(bare, size) ELSE {bare}}

\* stopThePress(): reset, then post as usual, or only queue the message (and
\* never await it) when no worker is to be recreated.
StopThePressResults(p, c, recreate) ==
  UNION {IF recreate THEN PostMessageResults(q, c) ELSE {EnqueueOrReject(q, c)} :
           q \in ResetPoolResults(p, recreate)}

\* stopThePressBatch(): reset, then post the batch, growing a pool left without
\* workers.
StopThePressBatchResults(p, items, recreate) ==
  UNION {BatchResults(q, items, NoWorker) : q \in ResetPoolResults(p, recreate)}

\* Faulty form: a broadcast is counted as one task.
BroadcastCountsOnce(p, c) ==
  UpdateIdleState(
    [ p EXCEPT
        !.running = [w \in Ids |-> IF w \in Live(p) THEN p.running[w] \cup {c} ELSE p.running[w]],
        !.tasks   = [w \in Ids |-> IF w \in Live(p) THEN p.tasks[w] + 1 ELSE p.tasks[w]],
        !.active  = p.active + 1,
        !.outcome[c] = "sent" ])

\* broadcast(): every worker gets the message, nobody waits for an answer.
Broadcast(p, c) ==
  UpdateIdleState(
    [ p EXCEPT
        !.running = [w \in Ids |-> IF w \in Live(p) THEN p.running[w] \cup {c} ELSE p.running[w]],
        !.tasks   = [w \in Ids |-> IF w \in Live(p) THEN p.tasks[w] + 1 ELSE p.tasks[w]],
        !.active  = p.active + Len(p.workers),
        !.outcome[c] = "sent" ])
=============================================================================
