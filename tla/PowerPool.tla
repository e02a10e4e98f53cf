------------------------------ MODULE PowerPool ------------------------------
(***************************************************************************)
(* PowerPool in use: callers post, abort and wait, workers answer and die, *)
(* operators pause, resize, reset and shut the pool down, in any order.    *)
(* What a pool is set up with and used for is a scenario, chosen once.     *)
(***************************************************************************)
EXTENDS PoolOps

CONSTANTS
  Scenarios,   \* how the pool is set up and what its users do, see ScenarioType
  Sizes        \* the arguments of resize()

(***************************************************************************)
(* A scenario fixes the options of the pool and of the calls, the sizes    *)
(* the pool is constructed with, and the operations that take place.  The  *)
(* constructor makes maxSize at least minSize.                             *)
(***************************************************************************)
ScenarioType ==
  {s \in [options : OptionsType, minSize : 0..MaxAlive, maxSize : 0..MaxAlive,
          uses : SUBSET Operations] : s.minSize <= s.maxSize}

ASSUME PowerPoolConstants == Scenarios \subseteq ScenarioType /\ Sizes \subseteq 0..MaxAlive

VARIABLE pool   \* the pool record of PoolOps

vars == pool

\* The pool before its first workers.
Unstaffed(s) ==
  [ workers |-> << >>, tasks |-> [w \in Ids |-> 0], running |-> [w \in Ids |-> {}],
    ready |-> [w \in Ids |-> FALSE], overdue |-> {}, worked |-> [w \in Ids |-> FALSE], active |-> 0,
    queue |-> << >>, pending |-> [k \in Keys |-> NoCall],
    carrier |-> [k \in Keys |-> NoWorker], outcome |-> [c \in Calls |-> "new"],
    aborted |-> {}, elapsed |-> {}, listens |-> {}, paused |-> FALSE, terminated |-> FALSE,
    idle |-> TRUE, drains |-> [d \in Drains |-> "new"], closing |-> {},
    minSize |-> s.minSize, maxSize |-> s.maxSize, boots |-> 0,
    limit |-> IF s.options.limits = {} THEN 0 ELSE Min(s.options.limits),
    options |-> s.options, uses |-> s.uses ]

NewPool(s) == AddWorkers(Unstaffed(s), s.minSize)

Init == \E s \in Scenarios : pool = NewPool(s)

\* Operation op takes place in this scenario.
Uses(op) == op \in pool.uses

\* A model bound: every worker alive needs an id.
RoomFor(n) == Len(pool.workers) + n <= MaxAlive

-----------------------------------------------------------------------------
(* Callers *)

PostMessage(c) ==
  /\ Uses("post")
  /\ pool.outcome[c] = "new"
  /\ pool' \in PostMessageResults(pool, c)

PostMessageTo(c, w) ==
  /\ Uses("postTo")
  /\ pool.outcome[c] = "new"
  /\ pool' \in PostToWorkerResults(pool, c, w)

\* The items of a batch: all of them await a response, or none does.
Batches ==
  { s \in UNION {[1..n -> {c \in Calls : pool.outcome[c] = "new"}] : n \in {2, 3}} :
      /\ IsInjective(s)
      /\ \/ \A i \in 1..Len(s) : s[i] \in pool.options.requests
         \/ \A i \in 1..Len(s) : s[i] \notin pool.options.requests }

PostMessageBatch(items) ==
  /\ Uses("batch")
  /\ pool' \in BatchResults(pool, items, NoWorker)

PostMessageBatchTo(items, w) ==
  /\ Uses("batchTo")
  /\ pool' \in BatchResults(pool, items, w)

BroadcastMessage(c) ==
  /\ Uses("broadcast")
  /\ c \notin pool.options.requests \cup pool.options.mayThrow
  /\ pool.outcome[c] = "new"
  /\ pool' = Broadcast(pool, c)

\* The caller's signal fires: the listener, where there is one, settles whatever
\* is registered under the call's correlation id.
Abort(c) ==
  /\ Uses("abort")
  /\ c \in pool.options.signalled \ pool.aborted
  /\ LET keys == IF c \in pool.listens THEN {pool.options.keyOf[c]} ELSE {}
     IN  pool' = [Settle(pool, keys, "rejected") EXCEPT !.aborted = pool.aborted \cup {c}]

\* deadlineAt passes; nothing happens until the item is looked at.
Elapse(c) ==
  /\ Uses("elapse")
  /\ c \in pool.options.deadlined \ pool.elapsed
  /\ pool' = [pool EXCEPT !.elapsed = pool.elapsed \cup {c}]

\* The response timer of a pending entry.
ResponseTimeout(k) ==
  /\ Uses("timeout")
  /\ pool.pending[k] # NoCall
  /\ pool' = Settle(pool, {k}, "rejected")

-----------------------------------------------------------------------------
(* Workers *)

Reply(w, c) ==
  /\ w \in Live(pool)
  /\ c \in pool.running[w]
  /\ pool' \in ReplyResults(pool, w, c)

\* A worker posts a message that answers nothing: progress, a log line.
WorkerSays(w) ==
  /\ Uses("chatter")
  /\ w \in Live(pool)
  /\ pool' \in ChatterResults(pool, w)

\* The pool once worker w has announced itself.
Announcing(p, w) == [p EXCEPT !.ready[w] = TRUE, !.overdue = p.overdue \ {w}]

\* The ready signal.
WorkerReady(w) ==
  /\ Uses("ready") /\ pool.options.readyGate
  /\ w \in Live(pool) /\ ~pool.ready[w]
  /\ pool' \in DispatchQueuedTasksResults(Announcing(pool, w))

\* readyTimeout passes; nothing happens until the worker is looked at.
ReadyTimeout(w) ==
  /\ Uses("overdue")
  /\ w \in Live(pool) \ pool.overdue /\ ~pool.ready[w]
  /\ pool' = [pool EXCEPT !.overdue = pool.overdue \cup {w}]

WorkerExit(w) ==
  /\ Uses("exit")
  /\ w \in Live(pool)
  /\ pool' \in WorkerExitResults(pool, w)

-----------------------------------------------------------------------------
(* Operators *)

PauseQueue ==
  /\ Uses("pause")
  /\ pool' = [pool EXCEPT !.paused = TRUE]

ResumeQueue ==
  /\ Uses("pause")
  /\ pool.paused
  /\ pool' \in DispatchQueuedTasksResults([pool EXCEPT !.paused = FALSE])

AddWorker ==
  /\ Uses("add")
  /\ RoomFor(1)
  /\ pool' \in IF pool.terminated THEN {pool}
               ELSE {UpdateIdleState(q) : q \in AddedResults(pool, 1)}

RemoveLastWorker ==
  /\ Uses("remove")
  /\ pool.workers # << >>
  /\ pool' = RemoveWorker(pool)

Resize(min, max) ==
  /\ Uses("resize")
  /\ min <= MaxAlive
  /\ pool' \in ResizeResults(pool, min, max)

ReapTick ==
  /\ Uses("reap") /\ ~pool.terminated
  /\ \E old \in SUBSET {w \in Live(pool) : pool.tasks[w] = 0} :
       pool' = ReapIdleWorkers(pool, old)

StopThePress(c, recreate) ==
  /\ Uses("stopThePress")
  /\ pool.outcome[c] = "new"
  /\ recreate \/ c \notin pool.options.requests
  /\ pool' \in StopThePressResults(pool, c, recreate)

StopThePressBatch(items, recreate) ==
  /\ Uses("stopThePressBatch")
  /\ pool' \in StopThePressBatchResults(pool, items, recreate)

AutoscaleTick ==
  /\ Uses("autoscale") /\ ~pool.terminated
  /\ pool' \in AutoscaleResults(pool)

ShutdownPool ==
  /\ Uses("shutdown")
  /\ pool' = Shutdown(pool)

\* drain()
Waiting(p) == {d \in Drains : p.drains[d] = "waiting"}

\* Faulty form: a drain of an idle pool waits for the next idle event.
StartDrainAlwaysWaits(p, d) ==
  IF Cardinality(Waiting(p)) >= p.options.maxDrains THEN [p EXCEPT !.drains[d] = "rejected"]
  ELSE [p EXCEPT !.drains[d] = "waiting"]

StartDrain(p, d) ==
  IF Quiet(p) THEN [p EXCEPT !.drains[d] = "resolved"]
  ELSE IF Cardinality(Waiting(p)) >= p.options.maxDrains THEN [p EXCEPT !.drains[d] = "rejected"]
  ELSE [p EXCEPT !.drains[d] = "waiting"]

Drain(d) ==
  /\ Uses("drain")
  /\ pool.drains[d] = "new"
  /\ pool' = StartDrain(pool, d)

\* The signal or the timeout of a waiting drain().
DrainGivesUp(d) ==
  /\ Uses("giveUp")
  /\ pool.drains[d] = "waiting"
  /\ pool' = [pool EXCEPT !.drains[d] = "rejected"]

\* close(): drain(), then, when that has settled either way, shutdown().
Close(d) ==
  /\ Uses("close")
  /\ pool.drains[d] = "new"
  /\ pool' = IF pool.terminated THEN [pool EXCEPT !.drains[d] = "resolved"]
             ELSE [StartDrain(pool, d) EXCEPT !.closing = pool.closing \cup {d}]

CloseGoesOn(d) ==
  /\ d \in pool.closing
  /\ pool.drains[d] \in {"resolved", "rejected"}
  /\ pool' = [Shutdown(pool) EXCEPT !.closing = pool.closing \ {d}]

-----------------------------------------------------------------------------
Next ==
  \/ \E c \in Calls : PostMessage(c)
  \/ \E c \in Calls, w \in Ids : PostMessageTo(c, w)
  \/ \E items \in Batches : PostMessageBatch(items)
  \/ \E items \in Batches, w \in Ids : PostMessageBatchTo(items, w)
  \/ \E c \in Calls : BroadcastMessage(c)
  \/ \E c \in Calls : Abort(c)
  \/ \E c \in Calls : Elapse(c)
  \/ \E k \in Keys : ResponseTimeout(k)
  \/ \E w \in Ids, c \in Calls : Reply(w, c)
  \/ \E w \in Ids : WorkerSays(w)
  \/ \E w \in Ids : WorkerReady(w)
  \/ \E w \in Ids : ReadyTimeout(w)
  \/ \E w \in Ids : WorkerExit(w)
  \/ PauseQueue
  \/ ResumeQueue
  \/ AddWorker
  \/ RemoveLastWorker
  \/ \E min, max \in Sizes : Resize(min, max)
  \/ ReapTick
  \/ \E c \in Calls, recreate \in BOOLEAN : StopThePress(c, recreate)
  \/ \E items \in Batches, recreate \in BOOLEAN : StopThePressBatch(items, recreate)
  \/ AutoscaleTick
  \/ ShutdownPool
  \/ \E d \in Drains : Drain(d)
  \/ \E d \in Drains : DrainGivesUp(d)
  \/ \E d \in Drains : Close(d)
  \/ \E d \in Drains : CloseGoesOn(d)

Spec == Init /\ [][Next]_vars

\* Workers answer what they were given and announce themselves, a paused queue is
\* resumed, and a promise reaction that is due (close() after its drain) runs.
FairSpec ==
  /\ Spec
  /\ \A w \in Ids, c \in Calls : WF_vars(Reply(w, c))
  /\ \A w \in Ids : WF_vars(WorkerReady(w))
  /\ WF_vars(ResumeQueue)
  /\ \A d \in Drains : WF_vars(CloseGoesOn(d))

-----------------------------------------------------------------------------
(***************************************************************************)
(* Properties.                                                             *)
(***************************************************************************)

(* Every field of the pool has its type.                                   *)
TypeOK == pool \in PoolType

(* _activeTasks is the work the live workers have really been given and    *)
(* have not answered, however replies, deaths, resizes and resets          *)
(* interleave: the counter neither drifts nor is decremented twice, as     *)
(* long as workers post nothing but replies.                               *)
ActiveIsInFlight ==
  ~Uses("chatter") =>
  /\ \A w \in Live(pool) : pool.tasks[w] = Cardinality(pool.running[w])
  /\ pool.active = Cardinality({wc \in Live(pool) \X Calls : wc[2] \in pool.running[wc[1]]})

OwnKeys(o) == \A c, d \in Calls : o.keyOf[c] = o.keyOf[d] => c = d

(* No response is lost: a promise that has not settled belongs to a call   *)
(* that is queued or that a live worker still has, so something will       *)
(* settle it.  For calls with correlation ids of their own.                *)
NoLostResponse ==
  OwnKeys(pool.options) =>
  \A c \in Calls : pool.outcome[c] = "open" =>
    \/ \E i \in 1..Len(pool.queue) : pool.queue[i] = c
    \/ \E w \in Live(pool) : c \in pool.running[w] /\ pool.carrier[pool.options.keyOf[c]] = w

(* A promise that has not settled is the one registered under its          *)
(* correlation id: reusing an id rejects the earlier waiter, it never      *)
(* orphans it.                                                             *)
OpenIsRegistered ==
  \A c \in Calls : pool.outcome[c] = "open" <=> pool.pending[pool.options.keyOf[c]] = c

\* No pass over the queue can empty it by discarding alone.  _dispatchQueuedTasks()
\* looks at the idle state only when it has posted something, so where resuming or a
\* ready signal discards the whole queue, a drain() goes on waiting.
Prompt(p) == {"pause", "ready"} \cap p.uses = {} \/ (Dead(p) = {} /\ p.options.mayThrow = {})

(* A drain() that waits has something to wait for: when the queue is empty *)
(* and no task is in flight, the idle event has been emitted and every     *)
(* waiter released; and a pool that calls itself idle is.                  *)
IdleIsAnnounced ==
  /\ pool.idle => Quiet(pool)
  /\ Prompt(pool) /\ Quiet(pool) => Waiting(pool) = {}

\* The operations that do not look at _terminated.
Revivals == {"resize", "stopThePress", "stopThePressBatch"}

(* Shutdown is final: no worker, no queued task and no pending response is *)
(* left or comes back.  Where nobody calls an operation that does not look *)
(* at _terminated.                                                         *)
ShutdownIsFinal ==
  pool.terminated /\ Revivals \cap pool.uses = {} =>
    /\ pool.workers = << >> /\ Quiet(pool)
    /\ \A c \in Calls : pool.outcome[c] # "open"

(* An abort releases the waiter, whether the call is queued or in flight.  *)
AbortReleasesWaiter == \A c \in pool.aborted : pool.outcome[c] # "open"

\* The operations that give work to workers without asking whether they are ready.
Ungated == {"postTo", "batch", "batchTo", "broadcast", "chatter", "stopThePressBatch"}

\* The operations that may leave a pool without workers.
Resets == {"stopThePress", "stopThePressBatch"}

\* A pool whose size nothing changes.
Fixed(p) ==
  /\ p.minSize = p.maxSize /\ ~p.options.spawnMayFail
  /\ ({"remove", "resize", "exit"} \cup Resets) \cap p.uses = {}

(* A worker that has not announced itself has one task at most, the one it *)
(* was created for or the next after that; in a pool of fixed size it has  *)
(* none.  Where the readiness gate is asked.                               *)
OnlyReadyWorkersWork ==
  Ungated \cap pool.uses = {} =>
    \A w \in Live(pool) : ~pool.ready[w] =>
      /\ \A c, d \in pool.running[w] : c = d
      /\ Fixed(pool) => pool.running[w] = {}

(* The pool never grows past its maximum, where nobody adds workers by     *)
(* hand; and it keeps its minimum size across worker deaths, until a run   *)
(* of workers that never did anything stops the refill.  The latter where  *)
(* nobody takes workers off by hand and workers can be created.            *)
Staffed ==
  /\ ~Uses("add") => Len(pool.workers) <= pool.maxSize
  /\ ({"remove"} \cup Resets) \cap pool.uses = {} /\ ~pool.options.spawnMayFail =>
       \/ pool.terminated
       \/ Uses("exit") /\ pool.boots >= MaxBootFailures
       \/ Len(pool.workers) >= pool.minSize

(* No worker is given more than maxTasksPerWorker tasks at a time, and the *)
(* queue never holds more than maxQueueLength; a broadcast, and a post to  *)
(* a pool without a queue, go to a worker whatever its load.               *)
LimitsHold ==
  /\ ~Uses("broadcast") /\ pool.options.taskQueue => \A w \in Live(pool) : pool.tasks[w] <= pool.options.maxTasks
  /\ Len(pool.queue) <= pool.options.maxQueue

(* The work of the pool is counted exactly and kept within its limits.     *)
WorkIsCounted == TypeOK /\ ActiveIsInFlight /\ LimitsHold

(* The workers are as many as they should be and are given work only when  *)
(* they can take it.                                                       *)
WorkersAreKept == Staffed /\ OnlyReadyWorkersWork

(* drain() resolves only when all the work accepted so far is done: no     *)
(* live worker still has, and the queue no longer holds, a call that had   *)
(* been posted before the step that resolves it.  For workers that post    *)
(* nothing but replies.  The close() of a pool already shut down resolves  *)
(* at once, whatever the operations that do not look at _terminated have   *)
(* since put into the pool: it is left out where those take place.         *)
DrainMeansDone ==
  [][ /\ ~Uses("chatter")
      /\ pool.terminated /\ Uses("close") => Revivals \cap pool.uses = {}
      => \A d \in Drains, c \in Calls :
        /\ pool.drains[d] # "resolved" /\ pool'.drains[d] = "resolved"
        /\ pool.outcome[c] # "new"
        => /\ \A i \in 1..Len(pool'.queue) : pool'.queue[i] # c
           /\ \A w \in Live(pool') : c \notin pool'.running[w] ]_vars

(* A settled promise stays settled the way it was: a late reply, timeout,  *)
(* abort or teardown does not settle it again.                             *)
SettledOnce ==
  [][ \A c \in Calls :
        pool.outcome[c] \in {"resolved", "rejected", "refused", "misanswered"} =>
          pool'.outcome[c] = pool.outcome[c] ]_vars

(* Every response is settled in the end, when workers answer and the queue *)
(* is resumed.                                                             *)
EveryResponseSettles == \A c \in Calls : pool.outcome[c] = "open" ~> pool.outcome[c] # "open"

(* Every drain() and close() settles in the end.                           *)
EveryDrainSettles == \A d \in Drains : pool.drains[d] = "waiting" ~> pool.drains[d] # "waiting"
=============================================================================
