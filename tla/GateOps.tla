------------------------------- MODULE GateOps -------------------------------
(***************************************************************************)
(* The permit gate of src/helpers/powerPermitGate.js as operators on one   *)
(* gate record, so that the classes built on it (PowerSemaphore,           *)
(* PowerBackpressure, one gate per PowerBulkhead partition) share them.    *)
(*                                                                         *)
(* A call is one acquire() or tryAcquire(): it is made once, so a call     *)
(* also names the queue entry it may create and the release callback it    *)
(* may be given.  JavaScript runs a method to completion, so each operator *)
(* is the whole effect of one method.                                      *)
(***************************************************************************)
EXTENDS Integers, Sequences, FiniteSets

CONSTANTS
  Calls,          \* the acquire calls that can be made
  Capacity,       \* this._capacity, a whole number >= 1
  QueueCapacity   \* this._queueCapacity, the number of callers that may wait

ASSUME GateConstants ==
  /\ IsFiniteSet(Calls)
  /\ Capacity \in Nat \ {0}
  /\ QueueCapacity \in Nat

(***************************************************************************)
(* What has become of a call.  "cancelled" is entry.cancelled, set by the  *)
(* abort listener; "reset" is a waiter rejected by reset(); "refused" is a *)
(* rejection, or a null, that never entered the queue.                     *)
(***************************************************************************)
Status == {"new", "waiting", "holding", "released", "refused", "cancelled", "reset"}

\* What the caller passes as options.signal.
Signal == {"none", "live", "aborted"}

GateType ==
  [ available        : Nat,
    held             : Nat,
    cancelledWaiters : Nat,
    waiters          : Seq(Calls),
    status           : [Calls -> Status],
    weight           : [Calls -> Nat],
    onAbort          : [Calls -> BOOLEAN] ]   \* the abort listener is attached

NewGate(tokens) ==
  [ available        |-> tokens,
    held             |-> 0,
    cancelledWaiters |-> 0,
    waiters          |-> << >>,
    status           |-> [c \in Calls |-> "new"],
    weight           |-> [c \in Calls |-> 1],
    onAbort          |-> [c \in Calls |-> FALSE] ]

Lesser(a, b) == IF a <= b THEN a ELSE b
Greater(a, b) == IF a >= b THEN a ELSE b

(***************************************************************************)
(* The capacity units that the calls of S weigh together, counted as a set *)
(* of <<call, unit>> pairs so that no sum is needed.                       *)
(***************************************************************************)
Units(g, S) == {u \in S \X (1..Capacity) : u[2] <= g.weight[u[1]]}
UnitCount(g, S) == Cardinality(Units(g, S))

Holders(g) == {c \in Calls : g.status[c] = "holding"}
LiveWaiters(g) == {c \in Calls : g.status[c] = "waiting"}

\* get pending(), get isFull()
Pending(g) == Greater(0, Len(g.waiters) - g.cancelledWaiters)
IsFull(g) == Pending(g) >= QueueCapacity

(* Each call is queued once, every live waiter is queued, and whatever     *)
(* else is queued was cancelled.                                           *)
QueueInv(g) ==
  /\ \A i, j \in 1..Len(g.waiters) : g.waiters[i] = g.waiters[j] => i = j
  /\ \A c \in LiveWaiters(g) : \E i \in 1..Len(g.waiters) : g.waiters[i] = c
  /\ \A i \in 1..Len(g.waiters) : g.status[g.waiters[i]] \in {"waiting", "cancelled"}

\* The entries among the first n of the queue that are still waiting.
LiveAmong(g, n) == {c \in LiveWaiters(g) : \E i \in 1..n : g.waiters[i] = c}
UnitsAmong(g, n) == UnitCount(g, LiveAmong(g, n))

(***************************************************************************)
(* _serveWaiters(permits, ...): the loop takes entries off the head of the *)
(* queue while it still has permits to give, drops the cancelled ones, and *)
(* stops at the first live one that needs more than is left.  ServesFirst  *)
(* says that the loop has taken exactly the first n entries.               *)
(***************************************************************************)
ServesFirst(g, n, permits) ==
  /\ \A i \in 1..n : UnitsAmong(g, i - 1) < permits /\ UnitsAmong(g, i) <= permits
  /\ n < Len(g.waiters) =>
       UnitsAmong(g, n) >= permits \/ UnitsAmong(g, n + 1) > permits

\* Faulty form: a cancelled entry is compacted without lowering the counter.
AfterServeKeepsCount(g, n, fromAvailable) ==
  LET served == LiveAmong(g, n)
      units  == UnitsAmong(g, n)
  IN  [ available        |-> IF fromAvailable THEN g.available - units ELSE g.available,
        held             |-> IF fromAvailable THEN g.held + units ELSE g.held,
        cancelledWaiters |-> g.cancelledWaiters,
        waiters          |-> SubSeq(g.waiters, n + 1, Len(g.waiters)),
        status           |-> [c \in Calls |-> IF c \in served THEN "holding" ELSE g.status[c]],
        weight           |-> g.weight,
        onAbort          |-> [c \in Calls |-> g.onAbort[c] /\ c \notin served] ]

\* Faulty form: the entry the loop stops at is shifted off as well.
AfterServeShiftsFirst(g, n, fromAvailable) ==
  LET served  == LiveAmong(g, n)
      units   == UnitsAmong(g, n)
      corpses == Cardinality({i \in 1..n : g.status[g.waiters[i]] # "waiting"})
  IN  [ available        |-> IF fromAvailable THEN g.available - units ELSE g.available,
        held             |-> IF fromAvailable THEN g.held + units ELSE g.held,
        cancelledWaiters |-> Greater(0, g.cancelledWaiters - corpses),
        waiters          |-> SubSeq(g.waiters, n + 2, Len(g.waiters)),
        status           |-> [c \in Calls |-> IF c \in served THEN "holding" ELSE g.status[c]],
        weight           |-> g.weight,
        onAbort          |-> [c \in Calls |-> g.onAbort[c] /\ c \notin served] ]

\* The gate after the loop: fromAvailable says that the served units are drawn
\* from _available (_grantTo) instead of handed over by a releasing holder.
AfterServe(g, n, fromAvailable) ==
  LET served  == LiveAmong(g, n)
      units   == UnitsAmong(g, n)
      corpses == Cardinality({i \in 1..n : g.status[g.waiters[i]] # "waiting"})
  IN  [ available        |-> IF fromAvailable THEN g.available - units ELSE g.available,
        held             |-> IF fromAvailable THEN g.held + units ELSE g.held,
        cancelledWaiters |-> Greater(0, g.cancelledWaiters - corpses),
        waiters          |-> SubSeq(g.waiters, n + 1, Len(g.waiters)),
        status           |-> [c \in Calls |-> IF c \in served THEN "holding" ELSE g.status[c]],
        weight           |-> g.weight,
        onAbort          |-> [c \in Calls |-> g.onAbort[c] /\ c \notin served] ]

\* Faulty form: _held is lowered by a unit handed to a waiter as well.
AfterReleaseLowersHeld(g, c, n) ==
  LET h     == AfterServe(g, n, FALSE)
      freed == g.weight[c] - UnitsAmong(g, n)
  IN  [ h EXCEPT
          !.available = IF freed > 0 THEN Lesser(Capacity, g.available + freed)
                        ELSE g.available,
          !.held      = Greater(0, g.held - g.weight[c]),
          !.status    = [h.status EXCEPT ![c] = "released"] ]

\* Faulty form: a queue of cancelled entries is taken for a queue of waiters.
AfterReleaseLosesUnit(g, c, n) ==
  LET h     == AfterServe(g, n, FALSE)
      freed == IF g.waiters = << >> THEN g.weight[c] ELSE 0
  IN  [ h EXCEPT
          !.available = IF freed > 0 THEN Lesser(Capacity, g.available + freed)
                        ELSE g.available,
          !.held      = Greater(0, g.held - (g.weight[c] - UnitsAmong(g, n))),
          !.status    = [h.status EXCEPT ![c] = "released"] ]

\* Faulty form: the unit goes back to the pool past the waiters.
AfterReleaseForgetsWaiters(g, c, n) ==
  [ g EXCEPT
      !.available = Lesser(Capacity, g.available + g.weight[c]),
      !.held      = Greater(0, g.held - g.weight[c]),
      !.status    = [g.status EXCEPT ![c] = "released"] ]

\* release(count), reached through the release callback of a holder c.
AfterRelease(g, c, n) ==
  LET h     == AfterServe(g, n, FALSE)
      freed == g.weight[c] - UnitsAmong(g, n)
  IN  [ h EXCEPT
          !.available = IF freed > 0 THEN Lesser(Capacity, g.available + freed)
                        ELSE g.available,
          !.held      = Greater(0, g.held - freed),
          !.status    = [h.status EXCEPT ![c] = "released"] ]

Refused(g, c) == [g EXCEPT !.status = [g.status EXCEPT ![c] = "refused"]]

\* _grant(weight): a permit that is available is taken now.
Granted(g, c, w) ==
  [ g EXCEPT !.available = g.available - w,
             !.held      = g.held + w,
             !.status    = [g.status EXCEPT ![c] = "holding"],
             !.weight    = [g.weight EXCEPT ![c] = w] ]

Queued(g, c, w, listens) ==
  [ g EXCEPT !.waiters = Append(g.waiters, c),
             !.status  = [g.status EXCEPT ![c] = "waiting"],
             !.weight  = [g.weight EXCEPT ![c] = w],
             !.onAbort = [g.onAbort EXCEPT ![c] = listens] ]

\* Faulty form: the queue length is tested with > in place of >=.
AfterAcquireOneTooMany(g, c, w, signal) ==
  IF w > Capacity \/ signal = "aborted" THEN Refused(g, c)
  ELSE IF g.available >= w THEN Granted(g, c, w)
  ELSE IF Pending(g) > QueueCapacity THEN Refused(g, c)
  ELSE Queued(g, c, w, signal = "live")

\* acquire({ weight, signal })
AfterAcquire(g, c, w, signal) ==
  IF w > Capacity \/ signal = "aborted" THEN Refused(g, c)
  ELSE IF g.available >= w THEN Granted(g, c, w)
  ELSE IF IsFull(g) THEN Refused(g, c)
  ELSE Queued(g, c, w, signal = "live")

\* Faulty form: one unit too few is enough.
AfterTryAcquireOneShort(g, c, w) ==
  IF g.available >= w - 1 THEN Granted(g, c, w) ELSE Refused(g, c)

\* tryAcquire(weight)
AfterTryAcquire(g, c, w) ==
  IF g.available >= w THEN Granted(g, c, w) ELSE Refused(g, c)

\* entry.onAbort: the listener acts on an entry that is neither cancelled nor
\* settled.  reset() does not settle the entries it rejects.
AfterAbort(g, c) ==
  [ g EXCEPT !.cancelledWaiters = g.cancelledWaiters + 1,
             !.status  = [g.status EXCEPT ![c] = "cancelled"],
             !.onAbort = [g.onAbort EXCEPT ![c] = FALSE] ]

\* Faulty form: a reset mints every unit, the ones still held included.
AfterResetMintsHeld(g, wanted) ==
  [ g EXCEPT
      !.waiters          = << >>,
      !.cancelledWaiters = 0,
      !.available        = Lesser(Capacity, wanted),
      !.status           = [c \in Calls |-> IF g.status[c] = "waiting" THEN "reset"
                                            ELSE g.status[c]] ]

\* reset({ available }): the queue is emptied, listeners stay where they are.
AfterReset(g, wanted) ==
  [ g EXCEPT
      !.waiters          = << >>,
      !.cancelledWaiters = 0,
      !.available        = Greater(0, Lesser(Lesser(Capacity, wanted), Capacity - g.held)),
      !.status           = [c \in Calls |-> IF g.status[c] = "waiting" THEN "reset"
                                            ELSE g.status[c]] ]
=============================================================================
