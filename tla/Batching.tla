------------------------------ MODULE Batching ------------------------------
(***************************************************************************)
(* PowerBatch (src/helpers/powerBatch.js) over PowerScheduler              *)
(* (src/helpers/powerScheduler.js).  What carries a scheduled flush is a   *)
(* microtask, a yield continuation, a posted task, or a listener on the    *)
(* one MessageChannel that every scheduler of the process shares.  The     *)
(* carriers run in any order here, which allows more than the event loop.  *)
(***************************************************************************)
EXTENDS Integers, Sequences, FiniteSets

CONSTANTS
  Batches, Strategies,   \* the batches, and the functions from them to a strategy
  Items, BatchSize,        \* items are 1..n, added in that order; maxSize of each batch
  Channels               \* channels are 1..n; 0 stands for none

ASSUME BatchingConstants == Items \cup Channels \subseteq Nat \ {0} /\ BatchSize \in Nat \ {0}

VARIABLES
  strategy,
  queue, pending,    \* per batch: items collected, and the promise they share or 0
  promises,          \* how each promise made so far has settled
  promiseOf,         \* the promise add() returned for an item, 0 before
  handling,          \* batches the handler is working on
  handled,           \* items whose handler call was fulfilled
  sched,             \* per scheduler: _scheduled and what carries the flush
  channel            \* the shared channel: current one, messages, closed ones, _macrotaskPending

batchVars == << strategy, queue, pending, promises, promiseOf, handling, handled, sched, channel >>

Unscheduled == [scheduled |-> FALSE, micro |-> 0, gen |-> 0, yields |-> {}, task |-> FALSE, on |-> 0]

BatchInit ==
  /\ strategy \in Strategies
  /\ queue = [b \in Batches |-> << >>] /\ pending = [b \in Batches |-> 0]
  /\ promises = << >> /\ promiseOf = [i \in Items |-> 0]
  /\ handling = {} /\ handled = {}
  /\ sched = [b \in Batches |-> Unscheduled]
  /\ channel = [current |-> 0, made |-> 0, posted |-> [c \in Channels |-> 0],
                closed |-> {}, pending |-> 0]

-----------------------------------------------------------------------------
(* The scheduler                                                           *)

\* scheduleMacrotask(): a listener, and a message that will wake every listener.
Posted(ch) ==
  LET c == IF ch.current = 0 THEN ch.made + 1 ELSE ch.current
  IN  [ch EXCEPT !.current = c, !.made = IF c > @ THEN c ELSE @, !.posted[c] = @ + 1,
                 !.pending = @ + 1]

Less1(n) == IF n > 0 THEN n - 1 ELSE 0

Scheduled(s, how, ch) ==
  CASE s.scheduled         -> s
    [] how = "microtask"   -> [s EXCEPT !.scheduled = TRUE, !.micro = @ + 1]
    [] how = "postTask"    -> [s EXCEPT !.scheduled = TRUE, !.task = TRUE]
    [] how = "yield"       -> [s EXCEPT !.scheduled = TRUE, !.gen = @ + 1, !.yields = @ \cup {s.gen + 1}]
    [] how = "macrotask"   -> [s EXCEPT !.scheduled = TRUE, !.on = Posted(ch).current]

ChannelScheduled(s, how, ch) == IF ~s.scheduled /\ how = "macrotask" THEN Posted(ch) ELSE ch

\* cancel(): a microtask and a yield cannot be called back; they find nothing scheduled.
Cancelled(s) == IF s.scheduled THEN [s EXCEPT !.scheduled = FALSE, !.task = FALSE, !.on = 0] ELSE s
ChannelCancelled(s, ch) == IF s.on # 0 THEN [ch EXCEPT !.pending = Less1(@)] ELSE ch

ScheduleFlush(b, s, ch) ==
  /\ sched' = [sched EXCEPT ![b] = Scheduled(s, strategy[b], ch)]
  /\ channel' = ChannelScheduled(s, strategy[b], ch)

-----------------------------------------------------------------------------
(* The batch                                                               *)

\* Bug: the promise of the batch that is being handled stays the pending one.
RunBatchesSharing(B, q, p) ==
  /\ handling' = handling \cup
       { [batch |-> b, items |-> {q[b][k] : k \in DOMAIN q[b]}, promise |-> p[b]] :
           b \in {x \in B : q[x] # << >>} }
  /\ queue' = [b \in Batches |-> IF b \in B THEN << >> ELSE q[b]]
  /\ pending' = p

\* _runBatch() of each batch of B: the queue is drained and the promise goes with it.
RunBatches(B, q, p) ==
  /\ handling' = handling \cup
       { [batch |-> b, items |-> {q[b][k] : k \in DOMAIN q[b]}, promise |-> p[b]] :
           b \in {x \in B : q[x] # << >>} }
  /\ queue' = [b \in Batches |-> IF b \in B THEN << >> ELSE q[b]]
  /\ pending' = [b \in Batches |-> IF b \in B THEN 0 ELSE p[b]]

\* A batch that is run with nothing in it answers a flush that waits for it.
Answered(B) ==
  [k \in DOMAIN promises |->
     IF \E b \in B : queue[b] = << >> /\ pending[b] = k THEN "resolved" ELSE promises[k]]

\* _run(), of those of B that are still scheduled.
Run(B, s) ==
  LET run == {b \in B : s[b].scheduled}
  IN  /\ sched' = [b \in Batches |-> IF b \in run THEN [s[b] EXCEPT !.scheduled = FALSE] ELSE s[b]]
      /\ RunBatches(run, queue, pending)
      /\ promises' = Answered(run)
      /\ UNCHANGED << strategy, promiseOf, handled >>

EnsuredPromise(b) == IF pending[b] = 0 THEN Len(promises) + 1 ELSE pending[b]
EnsuredPromises(b) == IF pending[b] = 0 THEN Append(promises, "open") ELSE promises

Add(b, i) ==
  LET p == EnsuredPromise(b)
      q == [queue EXCEPT ![b] = Append(@, i)]
      full == Len(q[b]) >= BatchSize
  IN  /\ promiseOf[i] = 0 /\ \A j \in Items : j < i => promiseOf[j] # 0
      /\ promiseOf' = [promiseOf EXCEPT ![i] = p]
      /\ promises' = EnsuredPromises(b)
      /\ IF full
         THEN /\ RunBatches({b}, q, [pending EXCEPT ![b] = p])
              /\ sched' = [sched EXCEPT ![b] = Cancelled(@)]
              /\ channel' = ChannelCancelled(sched[b], channel)
         ELSE /\ queue' = q /\ pending' = [pending EXCEPT ![b] = p]
              /\ ScheduleFlush(b, sched[b], channel)
              /\ UNCHANGED handling
      /\ UNCHANGED << strategy, handled >>

\* flush() of a batch that holds something: it waits for the shared promise.
Flush(b) ==
  /\ queue[b] # << >> \/ sched[b].scheduled
  /\ pending' = [pending EXCEPT ![b] = EnsuredPromise(b)]
  /\ promises' = EnsuredPromises(b)
  /\ ScheduleFlush(b, sched[b], channel)
  /\ UNCHANGED << strategy, queue, promiseOf, handling, handled >>

ClearBatch(b) ==
  /\ queue' = [queue EXCEPT ![b] = << >>] /\ pending' = [pending EXCEPT ![b] = 0]
  /\ promises' = [k \in DOMAIN promises |-> IF k = pending[b] THEN "cleared" ELSE promises[k]]
  /\ sched' = [sched EXCEPT ![b] = Cancelled(@)]
  /\ channel' = ChannelCancelled(sched[b], channel)
  /\ UNCHANGED << strategy, promiseOf, handling, handled >>

\* The handler settles, and the promise of its batch with it.
Handled(r, outcome) ==
  /\ handling' = handling \ {r}
  /\ promises' = [promises EXCEPT ![r.promise] = outcome]
  /\ handled' = IF outcome = "resolved" THEN handled \cup r.items ELSE handled
  /\ UNCHANGED << strategy, queue, pending, promiseOf, sched, channel >>

-----------------------------------------------------------------------------
(* What carries a flush                                                    *)

Microtask(b) ==
  /\ sched[b].micro > 0
  /\ Run({b}, [sched EXCEPT ![b].micro = @ - 1])
  /\ UNCHANGED channel

Yielded(b) ==
  \E g \in sched[b].yields :
    /\ LET s == [sched EXCEPT ![b].yields = @ \ {g}]
       IN  Run(IF g = sched[b].gen THEN {b} ELSE {}, s)
    /\ UNCHANGED channel

Task(b) ==
  /\ sched[b].task
  /\ Run({b}, [sched EXCEPT ![b].task = FALSE])
  /\ UNCHANGED channel

\* A message is delivered: every listener of the channel removes itself and runs.
Message(c) ==
  LET woken == {b \in Batches : sched[b].on = c}
      left == channel.pending - Cardinality(woken)
  IN  /\ channel.posted[c] > 0 /\ c \notin channel.closed
      /\ channel' = [channel EXCEPT !.posted[c] = @ - 1, !.pending = IF left > 0 THEN left ELSE 0]
      /\ Run(woken, [b \in Batches |-> IF b \in woken THEN [sched[b] EXCEPT !.on = 0] ELSE sched[b]])

\* Bug: the channel is closed whatever is still in flight on it.
ClosedChannelAnyway ==
  [channel EXCEPT !.current = 0, !.closed = @ \cup {channel.current}]

ClosedChannel ==
  [channel EXCEPT !.current = 0,
                  !.closed = IF channel.pending > 0 THEN @ ELSE @ \cup {channel.current}]

\* Some scheduler of the process is disposed, and releases the shared channel.
ReleaseChannel ==
  /\ channel.current # 0 /\ channel.made + 1 \in Channels
  /\ channel' = ClosedChannel
  /\ UNCHANGED << strategy, queue, pending, promises, promiseOf, handling, handled, sched >>

BatchNext ==
  \/ \E b \in Batches : \/ \E i \in Items : Add(b, i)
                        \/ Flush(b) \/ ClearBatch(b) \/ Microtask(b) \/ Yielded(b) \/ Task(b)
  \/ \E r \in handling, outcome \in {"resolved", "rejected"} : Handled(r, outcome)
  \/ \E c \in Channels : Message(c)
  \/ ReleaseChannel

-----------------------------------------------------------------------------
Carried(b) ==
  \/ sched[b].micro > 0
  \/ sched[b].gen \in sched[b].yields
  \/ sched[b].task
  \/ sched[b].on # 0 /\ sched[b].on \notin channel.closed /\ channel.posted[sched[b].on] > 0

\* Items that were collected are on their way: their batch is scheduled, and what will
\* flush it is still alive, also when another scheduler has released the shared channel.
NothingIsStranded ==
  \A b \in Batches :
    /\ queue[b] # << >> => sched[b].scheduled /\ pending[b] # 0
    /\ sched[b].scheduled => Carried(b)

\* A promise of add() is fulfilled only when the handler has taken that very item.
PromisesAreTrue ==
  \A i \in Items : promiseOf[i] # 0 /\ promises[promiseOf[i]] = "resolved" => i \in handled
=============================================================================
