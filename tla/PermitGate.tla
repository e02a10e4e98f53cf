----------------------------- MODULE PermitGate -----------------------------
(***************************************************************************)
(* PowerPermitGate (src/helpers/powerPermitGate.js) and the class that     *)
(* only renames it, PowerSemaphore (src/helpers/powerSemaphore.js), used   *)
(* by callers that acquire, hold, release, abort their wait and reset the  *)
(* gate in any order.                                                      *)
(***************************************************************************)
EXTENDS GateOps

CONSTANTS
  Weights,             \* the weights callers ask for
  InitialTokens,       \* options.initialTokens, clamped to the capacity
  ResetTo,             \* the values reset({ available }) is called with
  AbortsAfterReset     \* callers may abort a wait that reset() has rejected

ASSUME PermitGateConstants ==
  /\ Weights \subseteq Nat \ {0}
  /\ InitialTokens \in 0..Capacity
  /\ ResetTo \subseteq Nat
  /\ AbortsAfterReset \in BOOLEAN

VARIABLES
  gate,       \* the gate record of GateOps
  disposed    \* dispose() has replaced reset() by a function that does nothing

vars == << gate, disposed >>

Init ==
  /\ gate = NewGate(InitialTokens)
  /\ disposed = FALSE

Acquire(c, w, signal) ==
  /\ gate.status[c] = "new"
  /\ gate' = AfterAcquire(gate, c, w, signal)
  /\ UNCHANGED disposed

TryAcquire(c, w) ==
  /\ gate.status[c] = "new"
  /\ gate' = AfterTryAcquire(gate, c, w)
  /\ UNCHANGED disposed

\* The signal passed to call c fires while its listener is attached.
Abort(c) ==
  /\ gate.onAbort[c]
  /\ gate.status[c] = "waiting" \/ (AbortsAfterReset /\ gate.status[c] = "reset")
  /\ gate' = AfterAbort(gate, c)
  /\ UNCHANGED disposed

\* A holder calls its release callback; the callback acts once.
Release(c) ==
  /\ gate.status[c] = "holding"
  /\ \E n \in 0..Len(gate.waiters) :
       /\ ServesFirst(gate, n, gate.weight[c])
       /\ gate' = AfterRelease(gate, c, n)
  /\ UNCHANGED disposed

Reset(wanted) ==
  /\ ~disposed
  /\ gate' = AfterReset(gate, wanted)
  /\ UNCHANGED disposed

Dispose ==
  /\ gate' = IF disposed THEN gate ELSE AfterReset(gate, Capacity)
  /\ disposed' = TRUE

Next ==
  \/ \E c \in Calls, w \in Weights, signal \in Signal : Acquire(c, w, signal)
  \/ \E c \in Calls, w \in Weights : TryAcquire(c, w)
  \/ \E c \in Calls : Abort(c)
  \/ \E c \in Calls : Release(c)
  \/ \E wanted \in ResetTo : Reset(wanted)
  \/ Dispose

Spec == Init /\ [][Next]_vars

\* Every holder releases: PowerSemaphore.run() and PowerBulkhead.run() call the
\* release callback in a finally block.
FairSpec == Spec /\ \A c \in Calls : WF_vars(Release(c))

-----------------------------------------------------------------------------
(***************************************************************************)
(* Properties.                                                             *)
(***************************************************************************)

(* Every counter and table of the gate has its type; in particular no      *)
(* interleaving of grants, transfers and resets drives _available or _held *)
(* below zero.                                                             *)
TypeOK ==
  /\ gate \in GateType
  /\ disposed \in BOOLEAN

(* _held is exactly the units that callers hold through release callbacks  *)
(* not yet called, on the fast path, on the transfer path and across a     *)
(* reset.                                                                  *)
HeldIsOutstanding == gate.held = UnitCount(gate, Holders(gate))

(* Capacity is a ceiling: the units out and the units available never      *)
(* exceed it, so reset() mints no permit for a holder still running.       *)
CapacityIsCeiling == gate.available + UnitCount(gate, Holders(gate)) <= Capacity

(* The queue holds each call once, every live waiter is in it, and         *)
(* everything else in it is a cancelled entry awaiting compaction.         *)
QueueIsLive == QueueInv(gate)

(* The books of the gate agree with each other: types, units held, the     *)
(* ceiling and the queue.                                                  *)
LedgerIsSound == TypeOK /\ HeldIsOutstanding /\ CapacityIsCeiling /\ QueueIsLive

(* No unit is lost: what is not held is available, as the comment on _held *)
(* and the guide's `available + active === capacity` say.                  *)
UnitsConserved == gate.available + gate.held = Capacity

(* pending counts the live waiters exactly, however many aborted entries   *)
(* are still physically in the queue.                                      *)
PendingIsLiveWaiters == Pending(gate) = Cardinality(LiveWaiters(gate))

(* No lost wake-up: a permit is not left available while a live waiter is  *)
(* queued for it.                                                          *)
NoIdlePermit ==
  \A i \in 1..Len(gate.waiters) :
    gate.status[gate.waiters[i]] = "waiting" => gate.available < gate.weight[gate.waiters[i]]

\* The live waiters in the order of the queue, without the cancelled entries.
Ahead(g, c, d) ==
  \E i, j \in 1..Len(g.waiters) : i < j /\ g.waiters[i] = c /\ g.waiters[j] = d

InOrder(g, s) == \A i, j \in 1..Len(s) : i < j => Ahead(g, s[i], s[j])

Line(g) ==
  CHOOSE s \in [1..Cardinality(LiveWaiters(g)) -> LiveWaiters(g)] : InOrder(g, s)

(* The lazily compacted queue, the transfer of a unit from a releasing     *)
(* holder to a waiter and the reset behave as an ideal first-come          *)
(* semaphore whose line holds exactly the live waiters.  For unit weights. *)
Ideal == INSTANCE FifoSemaphore
           WITH holding <- Holders(gate),
                line    <- Line(gate)

ImplementsFifo == Ideal!Spec

(* A caller that waits is granted, aborted or reset in the end, provided   *)
(* holders release.                                                        *)
EveryWaiterSettles ==
  \A c \in Calls : gate.status[c] = "waiting" ~> gate.status[c] # "waiting"
=============================================================================
