------------------------------ MODULE Bulkhead ------------------------------
(***************************************************************************)
(* PowerBulkhead (src/helpers/powerBulkhead.js): one permit gate for each  *)
(* partition, tasks of any weight run under the permits, and drain()       *)
(* callers that wait for the bulkhead to be idle.                          *)
(*                                                                         *)
(* A method runs to completion, but run() leaves three promise reactions   *)
(* behind (the one on the permit, the one that ends the task, the one that *)
(* ends the call), and each is a step of its own: other calls, aborts and  *)
(* resets happen between them.                                             *)
(***************************************************************************)
EXTENDS GateOps

CONSTANTS
  Partitions,     \* this._partitions, a whole number >= 1
  Weights,        \* the weights tasks ask for
  NoKey,          \* no partition key: the task takes the next partition in turn
  Keys,           \* the partitions that partition keys are hashed to, and NoKey
  ResetTo,        \* the values reset({ available }) is called with
  MaxDrains       \* bound on the drain() callers that wait at one time

Partition == 0..(Partitions - 1)

ASSUME BulkheadConstants ==
  /\ Partitions \in Nat \ {0}
  /\ Weights \subseteq Nat \ {0}
  /\ NoKey \notin Partition /\ Keys \subseteq Partition \cup {NoKey}
  /\ ResetTo \subseteq Nat
  /\ MaxDrains \in Nat

(***************************************************************************)
(* How far a call has come: "asked" until the reaction on its permit runs, *)
(* "running" until its task ends, "trying" the same for tryRun(),          *)
(* "closing" until the outermost finally; "refused" calls were never       *)
(* admitted.                                                               *)
(***************************************************************************)
Phase == {"new", "asked", "running", "trying", "closing", "settled", "refused"}

VARIABLES
  gates,           \* the gate of each bucket
  shed,            \* bucket.shed; this._shed is always their sum
  nextPartition,   \* this._nextPartition
  active,          \* this._activeCount
  outstanding,     \* this._outstanding
  drainWaiters,    \* this._drainWaiters.length
  phase,           \* how far each call has come
  home,            \* the partition each call was sent to
  willQueue        \* the local willQueue of each run(), until its reaction has run

buckets == << gates, shed >>
counts == << active, outstanding >>
calls == << phase, home, willQueue >>
vars == << gates, shed, nextPartition, active, outstanding, drainWaiters, phase, home, willQueue >>

Init ==
  /\ gates = [p \in Partition |-> NewGate(Capacity)]
  /\ shed = [p \in Partition |-> 0]
  /\ nextPartition = 0
  /\ active = 0
  /\ outstanding = 0
  /\ drainWaiters = 0
  /\ phase = [c \in Calls |-> "new"]
  /\ home = [c \in Calls |-> 0]
  /\ willQueue = [c \in Calls |-> FALSE]

\* Calls are interchangeable names, so the next one made takes a given unused
\* name; phase then says how many were made.
IsNext(c) ==
  /\ phase[c] = "new"
  /\ c = CHOOSE d \in Calls : phase[d] = "new"

\* _choosePartition(key): a key, or the partitioner, names the partition; with
\* neither the partitions take turns.
ChoosePartition(key) == IF key = NoKey THEN nextPartition ELSE key

TakeTurn(key) ==
  nextPartition' = IF key = NoKey THEN (nextPartition + 1) % Partitions ELSE nextPartition

LessOne(n) == Greater(0, n - 1)

\* Faulty form: drain() is released when nothing is active and nothing waits.
WaitersIfBusyByActive(waiting, busy) ==
  IF active = 0 /\ \A p \in Partition : Pending(gates[p]) = 0 THEN 0 ELSE waiting

\* _resolveDrainWaitersIfIdle(): the drain() callers still waiting afterwards.
WaitersIfBusy(waiting, busy) == IF busy = 0 THEN 0 ELSE waiting

Sent(c, p, ph) ==
  /\ phase' = [phase EXCEPT ![c] = ph]
  /\ home' = [home EXCEPT ![c] = p]

\* The refusal in run() that keeps the caller away from a gate with no room.
MustShed(g, w) == g.available < w /\ Pending(g) >= QueueCapacity

\* run(task, { weight }) of a task that no partition can hold.
RunTooHeavy(c, key, w) ==
  /\ IsNext(c)
  /\ w > Capacity
  /\ TakeTurn(key)
  /\ Sent(c, ChoosePartition(key), "refused")
  /\ UNCHANGED << buckets, counts, drainWaiters, willQueue >>

\* run(task, { weight }) that finds no permit and no place to wait.
RunShed(c, key, w) ==
  LET p == ChoosePartition(key)
  IN  /\ IsNext(c)
      /\ w <= Capacity
      /\ MustShed(gates[p], w)
      /\ TakeTurn(key)
      /\ shed' = [shed EXCEPT ![p] = @ + 1]
      /\ Sent(c, p, "refused")
      /\ UNCHANGED << gates, counts, drainWaiters, willQueue >>

\* run(task, { weight, signal }) that is admitted.  An aborted signal makes the
\* gate refuse; the reaction on that rejection follows.
Run(c, key, w, signal) ==
  LET p     == ChoosePartition(key)
      waits == gates[p].available < w
  IN  /\ IsNext(c)
      /\ w <= Capacity
      /\ ~MustShed(gates[p], w)
      /\ TakeTurn(key)
      /\ gates' = [gates EXCEPT ![p] = AfterAcquire(@, c, w, signal)]
      /\ outstanding' = outstanding + 1
      /\ active' = IF waits THEN active ELSE active + 1
      /\ willQueue' = [willQueue EXCEPT ![c] = waits]
      /\ Sent(c, p, "asked")
      /\ UNCHANGED << shed, drainWaiters >>

\* tryRun(task, { weight }): without a permit it returns null.
TryRun(c, key, w) ==
  LET p   == ChoosePartition(key)
      got == gates[p].available >= w
  IN  /\ IsNext(c)
      /\ TakeTurn(key)
      /\ gates' = [gates EXCEPT ![p] = AfterTryAcquire(@, c, w)]
      /\ outstanding' = IF got THEN outstanding + 1 ELSE outstanding
      /\ active' = IF got THEN active + 1 ELSE active
      /\ Sent(c, p, IF got THEN "trying" ELSE "refused")
      /\ UNCHANGED << shed, drainWaiters, willQueue >>

StatusOf(c) == gates[home[c]].status[c]

\* The reaction on a granted permit, after which the task runs.
Start(c) ==
  /\ phase[c] = "asked"
  /\ StatusOf(c) = "holding"
  /\ active' = IF willQueue[c] THEN active + 1 ELSE active
  /\ phase' = [phase EXCEPT ![c] = "running"]
  /\ willQueue' = [willQueue EXCEPT ![c] = FALSE]
  /\ UNCHANGED << buckets, nextPartition, outstanding, drainWaiters, home >>

\* Faulty form: the count taken on submission is not given back.
RefusalKeepsActive(c) ==
  /\ phase[c] = "asked"
  /\ StatusOf(c) \in {"refused", "cancelled", "reset"}
  /\ UNCHANGED active
  /\ drainWaiters' = WaitersIfBusy(drainWaiters, outstanding)
  /\ phase' = [phase EXCEPT ![c] = "closing"]
  /\ willQueue' = [willQueue EXCEPT ![c] = FALSE]
  /\ UNCHANGED << buckets, nextPartition, outstanding, home >>

\* The reaction on a permit that was aborted or reset.
Refusal(c) ==
  /\ phase[c] = "asked"
  /\ StatusOf(c) \in {"refused", "cancelled", "reset"}
  /\ active' = IF willQueue[c] THEN active ELSE LessOne(active)
  /\ drainWaiters' = WaitersIfBusy(drainWaiters, outstanding)
  /\ phase' = [phase EXCEPT ![c] = "closing"]
  /\ willQueue' = [willQueue EXCEPT ![c] = FALSE]
  /\ UNCHANGED << buckets, nextPartition, outstanding, home >>

\* The gate of c's partition after its release callback.
Releases(c) ==
  LET p == home[c]
      g == gates[p]
  IN  \E n \in 0..Len(g.waiters) :
        /\ ServesFirst(g, n, g.weight[c])
        /\ gates' = [gates EXCEPT ![p] = AfterRelease(g, c, n)]

\* The task of a run() settles: its finally releases the permit.
End(c) ==
  /\ phase[c] = "running"
  /\ Releases(c)
  /\ active' = LessOne(active)
  /\ drainWaiters' = WaitersIfBusy(drainWaiters, outstanding)
  /\ phase' = [phase EXCEPT ![c] = "closing"]
  /\ UNCHANGED << shed, nextPartition, outstanding, home, willQueue >>

\* The task of a tryRun() settles: one finally does everything.
EndTry(c) ==
  /\ phase[c] = "trying"
  /\ Releases(c)
  /\ active' = LessOne(active)
  /\ outstanding' = LessOne(outstanding)
  /\ drainWaiters' = WaitersIfBusy(drainWaiters, outstanding')
  /\ phase' = [phase EXCEPT ![c] = "settled"]
  /\ UNCHANGED << shed, nextPartition, home, willQueue >>

\* Faulty form: the last call leaves without waking the drain() callers.
SettleSilently(c) ==
  /\ phase[c] = "closing"
  /\ outstanding' = LessOne(outstanding)
  /\ UNCHANGED drainWaiters
  /\ phase' = [phase EXCEPT ![c] = "settled"]
  /\ UNCHANGED << buckets, nextPartition, active, home, willQueue >>

\* The outermost finally of run().
Settle(c) ==
  /\ phase[c] = "closing"
  /\ outstanding' = LessOne(outstanding)
  /\ drainWaiters' = WaitersIfBusy(drainWaiters, outstanding')
  /\ phase' = [phase EXCEPT ![c] = "settled"]
  /\ UNCHANGED << buckets, nextPartition, active, home, willQueue >>

\* The signal of c fires while the gate still listens to it.
Abort(c) ==
  /\ gates[home[c]].onAbort[c]
  /\ StatusOf(c) \in {"waiting", "reset"}
  /\ gates' = [gates EXCEPT ![home[c]] = AfterAbort(@, c)]
  /\ UNCHANGED << shed, nextPartition, counts, drainWaiters, calls >>

\* drain() resolves at once when nothing is outstanding and leaves no trace.
Drain ==
  /\ outstanding # 0
  /\ drainWaiters < MaxDrains
  /\ drainWaiters' = drainWaiters + 1
  /\ UNCHANGED << buckets, nextPartition, counts, calls >>

\* reset({ available }); dispose() is the same reset.
Reset(wanted) ==
  /\ gates' = [p \in Partition |-> AfterReset(gates[p], wanted)]
  /\ shed' = [p \in Partition |-> 0]
  /\ drainWaiters' = WaitersIfBusy(drainWaiters, outstanding)
  /\ UNCHANGED << nextPartition, counts, calls >>

Next ==
  \/ \E c \in Calls, key \in Keys, w \in Weights :
       \/ RunTooHeavy(c, key, w)
       \/ RunShed(c, key, w)
       \/ \E signal \in Signal : Run(c, key, w, signal)
       \/ TryRun(c, key, w)
  \/ \E c \in Calls :
       Start(c) \/ Refusal(c) \/ End(c) \/ EndTry(c) \/ Settle(c) \/ Abort(c)
  \/ Drain
  \/ \E wanted \in ResetTo : Reset(wanted)

Spec == Init /\ [][Next]_vars

\* Promise reactions always run; that tasks end is asked of the caller.
FairSpec ==
  /\ Spec
  /\ \A c \in Calls : /\ WF_vars(Start(c))
                      /\ WF_vars(Refusal(c))
                      /\ WF_vars(End(c))
                      /\ WF_vars(EndTry(c))
                      /\ WF_vars(Settle(c))

-----------------------------------------------------------------------------
(***************************************************************************)
(* Properties.                                                             *)
(***************************************************************************)

Unsettled == {c \in Calls : phase[c] \in {"asked", "running", "trying", "closing"}}

Running(p) == {c \in Calls : phase[c] \in {"running", "trying"} /\ home[c] = p}

(* The counters are exact between any two reactions: _outstanding is the   *)
(* admitted calls whose outermost finally has not run, and _activeCount    *)
(* the tasks that run plus the calls counted on submission whose permit    *)
(* has not been answered.  The clamps at zero never hide a missing count.  *)
CountsAreExact ==
  /\ outstanding = Cardinality(Unsettled)
  /\ active = Cardinality({c \in Calls : \/ phase[c] \in {"running", "trying"}
                                         \/ phase[c] = "asked" /\ ~willQueue[c]})

(* Isolation: a task holds its permit exactly from the reaction on it to  *)
(* its end, across resets and aborts, so a partition's tasks never weigh   *)
(* more than its maxConcurrency together and no permit outlives its task.  *)
PermitsAreOwned ==
  \A p \in Partition :
    /\ \A c \in Running(p) : gates[p].status[c] = "holding"
    /\ \A c \in Holders(gates[p]) :
         home[c] = p /\ phase[c] \in {"asked", "running", "trying"}
    /\ UnitCount(gates[p], Running(p)) <= Capacity

(* drain() tells the truth both ways: its callers are released only when   *)
(* no admitted call is unsettled, a task promoted from the queue and not   *)
(* yet begun included, and none is left waiting once that is so.           *)
DrainIsExact ==
  /\ [][drainWaiters' < drainWaiters => Unsettled' = {}]_vars
  /\ [](Unsettled = {} => drainWaiters = 0)

(* Every drain() resolves once tasks end, unless a task that needs more    *)
(* than one unit is stuck in a queue (see EveryWaiterSettles of the gate). *)
EveryDrainResolves ==
  drainWaiters > 0 ~>
    \/ drainWaiters = 0
    \/ \E c \in Calls : StatusOf(c) = "waiting" /\ gates[home[c]].weight[c] > 1
=============================================================================
