------------------------------- MODULE RingOps -------------------------------
(***************************************************************************)
(* PowerQueue (src/helpers/powerQueue.js), the ring buffer under every     *)
(* waiting list of the library, as operators on one ring record.  Slots    *)
(* are numbered from 0 as in the code; `& mask` on a power of two is %.    *)
(***************************************************************************)
EXTENDS Integers, Sequences

CONSTANTS
  Items,        \* what is queued
  Weight,       \* itemWeight(item)
  Capacities,   \* the powers of two a buffer can have in the model
  Empty         \* undefined, the content of a free slot

ASSUME RingConstants ==
  /\ Weight \in [Items -> Nat]
  /\ Capacities \subseteq Nat \ {0}
  /\ Empty \notin Items

\* A bound of the model: the largest buffer is large enough for n items.
Fits(n) == \E c \in Capacities : n <= c

\* `while (cap < want) cap <<= 1`, in the constructor, grow() and shrink().
RoundUp(n) == CHOOSE c \in Capacities : n <= c /\ \A d \in Capacities : n <= d => c <= d

NewRing(requested) ==
  LET cap == RoundUp(IF requested < 2 THEN 2 ELSE requested)
  IN  [ capacity |-> cap, buffer |-> [k \in 0..(cap - 1) |-> Empty],
        head |-> 0, tail |-> 0, size |-> 0, totalWeight |-> 0 ]

\* The item at position i from the head, i = 0..size-1.
At(r, i) == r.buffer[(r.head + i) % r.capacity]

ToArray(r) == [i \in 1..r.size |-> At(r, i - 1)]

\* The weight of a sequence of items.
WeightOf(s) ==
  LET upTo[n \in 0..Len(s)] == IF n = 0 THEN 0 ELSE upTo[n - 1] + Weight[s[n]]
  IN  upTo[Len(s)]

\* Faulty form: the slots are copied as they lie, without un-rotating them.
RelocatedAsIs(r, cap) ==
  [ r EXCEPT
      !.capacity = cap,
      !.buffer   = [k \in 0..(cap - 1) |-> IF k < r.capacity THEN r.buffer[k] ELSE Empty],
      !.head     = 0,
      !.tail     = r.size % cap ]

\* The copy into a new buffer that _grow() and shrink() make.
Relocated(r, cap) ==
  [ r EXCEPT
      !.capacity = cap,
      !.buffer   = [k \in 0..(cap - 1) |-> IF k < r.size THEN At(r, k) ELSE Empty],
      !.head     = 0,
      !.tail     = r.size % cap ]

\* `while (this._capacity < need) this._grow()`
Roomy(r, need) == IF r.capacity < need THEN Relocated(r, RoundUp(need)) ELSE r

\* The items written to consecutive slots, from slot first on, around the end.
Written(r, first, items) ==
  [k \in 0..(r.capacity - 1) |->
     LET d == (k - first) % r.capacity
     IN  IF d < Len(items) THEN items[d + 1] ELSE r.buffer[k]]

\* pushMany(items)
AfterPushMany(r, items) ==
  LET g == Roomy(r, r.size + Len(items))
  IN  [ g EXCEPT
          !.buffer      = Written(g, g.tail, items),
          !.tail        = (g.tail + Len(items)) % g.capacity,
          !.size        = g.size + Len(items),
          !.totalWeight = g.totalWeight + WeightOf(items) ]

\* push(item) and fill(item, n)
AfterPush(r, item) == AfterPushMany(r, << item >>)
AfterFill(r, item, n) == AfterPushMany(r, [i \in 1..n |-> item])

\* unshiftMany(items)
AfterUnshiftMany(r, items) ==
  LET g     == Roomy(r, r.size + Len(items))
      start == (g.head - Len(items)) % g.capacity
  IN  [ g EXCEPT
          !.buffer      = Written(g, start, items),
          !.head        = start,
          !.size        = g.size + Len(items),
          !.totalWeight = g.totalWeight + WeightOf(items) ]

\* unshift(item)
AfterUnshift(r, item) == AfterUnshiftMany(r, << item >>)

\* Faulty form: the slot keeps its reference.
AfterShiftKeepsItem(r) ==
  [ r EXCEPT
      !.head        = (r.head + 1) % r.capacity,
      !.size        = r.size - 1,
      !.totalWeight = r.totalWeight - Weight[At(r, 0)] ]

\* shift()
AfterShift(r) ==
  [ r EXCEPT
      !.buffer      = [r.buffer EXCEPT ![r.head] = Empty],
      !.head        = (r.head + 1) % r.capacity,
      !.size        = r.size - 1,
      !.totalWeight = r.totalWeight - Weight[At(r, 0)] ]

\* Faulty form: the weight of the item that slid into the gap is taken off.
AfterRemoveAtWeighsNext(r, i) ==
  LET last == (r.head + r.size - 1) % r.capacity
      slid == [k \in 0..(r.capacity - 1) |->
                 LET d == (k - r.head) % r.capacity
                 IN  IF i <= d /\ d < r.size - 1 THEN r.buffer[(k + 1) % r.capacity]
                     ELSE r.buffer[k]]
  IN  [ r EXCEPT
          !.buffer      = [slid EXCEPT ![last] = Empty],
          !.tail        = last,
          !.size        = r.size - 1,
          !.totalWeight = r.totalWeight - Weight[slid[(r.head + i) % r.capacity]] ]

\* removeAt(i), i counted from 0: the items behind it slide one slot forward.
AfterRemoveAt(r, i) ==
  LET last == (r.head + r.size - 1) % r.capacity
      slid == [k \in 0..(r.capacity - 1) |->
                 LET d == (k - r.head) % r.capacity
                 IN  IF i <= d /\ d < r.size - 1 THEN r.buffer[(k + 1) % r.capacity]
                     ELSE r.buffer[k]]
  IN  [ r EXCEPT
          !.buffer      = [slid EXCEPT ![last] = Empty],
          !.tail        = last,
          !.size        = r.size - 1,
          !.totalWeight = r.totalWeight - Weight[At(r, i)] ]

\* clear(), which returns early on an empty queue and leaves the head where it is.
AfterClear(r) ==
  IF r.size = 0 THEN r
  ELSE [ r EXCEPT
           !.buffer = [k \in 0..(r.capacity - 1) |->
                         IF (k - r.head) % r.capacity < r.size THEN Empty ELSE r.buffer[k]],
           !.head = 0, !.tail = 0, !.size = 0, !.totalWeight = 0 ]

\* shrink(minimum)
AfterShrink(r, minimum) ==
  LET want == IF r.size > minimum THEN r.size ELSE minimum
      cap  == RoundUp(IF want < 2 THEN 2 ELSE want)
  IN  IF cap >= r.capacity THEN r ELSE Relocated(r, cap)

\* dispose(): clear(), and a fresh buffer whatever clear() did.
AfterDispose(r) ==
  [ AfterClear(r) EXCEPT !.buffer = [k \in 0..(r.capacity - 1) |-> Empty],
                         !.head = 0, !.tail = 0 ]

\* The position shiftHighestPriority(priorityFn) removes: the first of the
\* items of highest priority.
Foremost(r, priority) ==
  CHOOSE i \in 0..(r.size - 1) :
    /\ \A j \in 0..(i - 1) : priority[At(r, j)] < priority[At(r, i)]
    /\ \A j \in i..(r.size - 1) : priority[At(r, j)] <= priority[At(r, i)]

-----------------------------------------------------------------------------
\* The shape of a ring: the tail follows from the head and the size, the slots
\* of the queued items hold items, and every other slot has been cleared.
RingInv(r) ==
  /\ r = [ capacity |-> r.capacity, buffer |-> r.buffer, head |-> r.head, tail |-> r.tail,
           size |-> r.size, totalWeight |-> r.totalWeight ]
  /\ r.capacity \in Capacities
  /\ r.head \in 0..(r.capacity - 1)
  /\ r.size \in 0..r.capacity
  /\ r.tail = (r.head + r.size) % r.capacity
  /\ DOMAIN r.buffer = 0..(r.capacity - 1)
  /\ \A k \in 0..(r.capacity - 1) :
       IF (k - r.head) % r.capacity < r.size THEN r.buffer[k] \in Items ELSE r.buffer[k] = Empty
=============================================================================
