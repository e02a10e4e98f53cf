------------------------------- MODULE Queues -------------------------------
(***************************************************************************)
(* The two queues of the library under arbitrary use: the ring buffer on   *)
(* its own, and the ring and the heap given the same items, where taking   *)
(* the foremost of the highest priority from the one must be taking the    *)
(* root of the other.                                                      *)
(***************************************************************************)
EXTENDS RingOps, HeapOps

CONSTANTS
  InitialCapacity,   \* the constructor's argument
  Batches,           \* the arrays that may be added at once
  Minimums,          \* the arguments of shrink()
  MaxItems,          \* a bound of the model: items queued at once
  MaxSeq             \* a bound of the model: pushes to the heap since it was empty

ASSUME QueuesConstants ==
  /\ Items \subseteq HeapItems
  /\ InitialCapacity \in Nat /\ Fits(2) /\ Fits(InitialCapacity)
  /\ Batches \subseteq Seq(Items) \ {<< >>}
  /\ \A item \in Items, n \in 1..MaxItems : [i \in 1..n |-> item] \in Batches
  /\ Minimums \subseteq Nat /\ \A m \in Minimums : Fits(m)
  /\ MaxItems \in Nat /\ MaxSeq \in Nat /\ Fits(MaxItems)

VARIABLES
  ring,     \* a PowerQueue
  heap,     \* a PowerPriorityQueue
  paired    \* the heap is given the items of the ring

vars == << ring, heap, paired >>

Init ==
  /\ ring = NewRing(InitialCapacity)
  /\ heap = NewHeap
  /\ paired \in BOOLEAN

Room(n) == ring.size + n <= MaxItems /\ (paired => heap.seq + n <= MaxSeq)

-----------------------------------------------------------------------------
PushMany(batch) ==
  /\ Room(Len(batch))
  /\ ring' = AfterPushMany(ring, batch)
  /\ heap' = IF paired THEN AfterHeapPushMany(heap, batch) ELSE heap
  /\ UNCHANGED paired

Push(item) ==
  /\ Room(1)
  /\ ring' = AfterPush(ring, item)
  /\ heap' = IF paired THEN AfterHeapPush(heap, item) ELSE heap
  /\ UNCHANGED paired

Fill(item, n) ==
  /\ ~paired
  /\ Room(n)
  /\ ring' = AfterFill(ring, item, n)
  /\ UNCHANGED << heap, paired >>

UnshiftMany(batch) ==
  /\ ~paired
  /\ Room(Len(batch))
  /\ ring' = AfterUnshiftMany(ring, batch)
  /\ UNCHANGED << heap, paired >>

Unshift(item) ==
  /\ ~paired
  /\ Room(1)
  /\ ring' = AfterUnshift(ring, item)
  /\ UNCHANGED << heap, paired >>

Shift ==
  /\ ~paired
  /\ ring.size > 0
  /\ ring' = AfterShift(ring)
  /\ UNCHANGED << heap, paired >>

RemoveAt(i) ==
  /\ ~paired
  /\ ring' = AfterRemoveAt(ring, i)
  /\ UNCHANGED << heap, paired >>

ShiftHighestPriority ==
  /\ ring.size > 0
  /\ ring' = AfterRemoveAt(ring, Foremost(ring, Priority))
  /\ heap' = IF paired THEN AfterHeapShift(heap) ELSE heap
  /\ UNCHANGED paired

\* The hindmost item of the lowest priority, by removeAt() and by popLowest().
DropLowest(i) ==
  /\ paired
  /\ \A j \in 0..(ring.size - 1) :
       Priority[At(ring, i)] <= Priority[At(ring, j)]
         /\ (j > i => Priority[At(ring, i)] < Priority[At(ring, j)])
  /\ ring' = AfterRemoveAt(ring, i)
  /\ heap' = AfterPopLowest(heap)
  /\ UNCHANGED paired

Clear ==
  /\ ring' = AfterClear(ring)
  /\ heap' = IF paired THEN AfterHeapClear(heap) ELSE heap
  /\ UNCHANGED paired

Shrink(minimum) ==
  /\ ring' = AfterShrink(ring, minimum)
  /\ UNCHANGED << heap, paired >>

Dispose ==
  /\ ring' = AfterDispose(ring)
  /\ heap' = IF paired THEN AfterHeapClear(heap) ELSE heap
  /\ UNCHANGED paired

Next ==
  \/ \E batch \in Batches : PushMany(batch)
  \/ \E item \in Items : Push(item)
  \/ \E batch \in Batches : UnshiftMany(batch)
  \/ \E item \in Items : Unshift(item)
  \/ \E item \in Items, n \in 1..MaxItems : Fill(item, n)
  \/ Shift
  \/ \E i \in 0..(ring.size - 1) : RemoveAt(i)
  \/ ShiftHighestPriority
  \/ \E i \in 0..(ring.size - 1) : DropLowest(i)
  \/ Clear
  \/ \E minimum \in Minimums : Shrink(minimum)
  \/ Dispose

Spec == Init /\ [][Next]_vars

-----------------------------------------------------------------------------
(***************************************************************************)
(* Properties.                                                             *)
(***************************************************************************)

(* The ring keeps its shape through growth, wrap-around, shrinking and     *)
(* removal from the middle: the tail follows from head and size, queued    *)
(* slots hold items, and every other slot has been cleared, so that no     *)
(* reference to an item that has left is kept.                             *)
RingKeepsShape == RingInv(ring)

(* Whatever the position of the head and however often the buffer is       *)
(* copied, the ring behaves as a plain sequence: toArray() changes only by *)
(* the items added at an end or removed, in their order.                   *)
Sequence == INSTANCE Deque WITH items <- ToArray(ring)
ImplementsDeque == Sequence!Spec

(* totalWeight is the weight of what is queued.                            *)
TotalWeightIsExact == ring.totalWeight = WeightOf(ToArray(ring))

(* The heap order holds after every push, shift and popLowest.             *)
HeapIsOrdered ==
  \A j \in 2..Len(heap.entries) : IsBetter(heap.entries[j \div 2], heap.entries[j])

(* The heap hands out and drops exactly the items the ring does: the       *)
(* oldest of the highest priority and the newest of the lowest.            *)
HeapAgreesWithRing == paired => Arrivals(heap) = ToArray(ring)

(* The heap is the priority queue that it stands for.                      *)
HeapIsSound == HeapIsOrdered /\ HeapAgreesWithRing
=============================================================================
