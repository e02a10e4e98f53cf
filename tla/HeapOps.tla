------------------------------- MODULE HeapOps -------------------------------
(***************************************************************************)
(* PowerPriorityQueue (src/helpers/powerPriorityQueue.js) as operators on  *)
(* one heap record: entries is _heap[1.._size] and seq is _seq.  An entry  *)
(* is better than another if its priority is higher or, among equals, if   *)
(* it was pushed earlier.                                                  *)
(***************************************************************************)
EXTENDS Integers, Sequences, FiniteSets

CONSTANTS
  HeapItems,   \* what is queued
  Priority     \* itemPriority(item)

ASSUME HeapConstants == Priority \in [HeapItems -> Int]

NewHeap == [entries |-> << >>, seq |-> 0]

IsBetter(a, b) ==
  IF Priority[a.item] # Priority[b.item] THEN Priority[a.item] > Priority[b.item]
  ELSE a.seq < b.seq

\* The position i of s and its ancestors.
PathUp(i) ==
  LET path[j \in 1..i] == {j} \cup (IF j = 1 THEN {} ELSE path[j \div 2])
  IN  path[i]

\* _siftUp(i): the entry at i rises past the ancestors it is better than, each of
\* which moves down one step of the path.
SiftUp(s, i) ==
  LET path == PathUp(i)
      top  == CHOOSE t \in path :
                /\ \A j \in path : t <= j /\ j < i => IsBetter(s[i], s[j])
                /\ t > 1 => ~IsBetter(s[i], s[t \div 2])
  IN  [j \in 1..Len(s) |-> IF j = top THEN s[i]
                           ELSE IF j \in path /\ j > top THEN s[j \div 2] ELSE s[j]]

\* Faulty form: the right child is never looked at.
SiftDownLeftOnly(s, i) ==
  LET n == Len(s)
      sinks[j \in 1..n] == \/ j = i
                           \/ j > i /\ j % 2 = 0 /\ sinks[j \div 2] /\ IsBetter(s[j], s[i])
      path == {j \in i..n : sinks[j]}
      end  == CHOOSE t \in path : \A j \in path : j <= t
  IN  [j \in 1..n |-> IF j = end THEN s[i]
                      ELSE IF j \in path THEN s[CHOOSE k \in path : k \div 2 = j /\ k > j]
                      ELSE s[j]]

\* _siftDown(i): the entry at i sinks past the better child as long as that child
\* is better than it.
SiftDown(s, i) ==
  LET n == Len(s)
      preferred(j) == LET twin == IF j % 2 = 0 THEN j + 1 ELSE j - 1
                      IN  twin <= n => IsBetter(s[j], s[twin])
      sinks[j \in 1..n] == \/ j = i
                           \/ j > i /\ sinks[j \div 2] /\ preferred(j) /\ IsBetter(s[j], s[i])
      path == {j \in i..n : sinks[j]}
      end  == CHOOSE t \in path : \A j \in path : j <= t
  IN  [j \in 1..n |-> IF j = end THEN s[i]
                      ELSE IF j \in path THEN s[CHOOSE k \in path : k \div 2 = j /\ k > j]
                      ELSE s[j]]

\* push(item)
AfterHeapPush(h, item) ==
  [ entries |-> SiftUp(Append(h.entries, [item |-> item, seq |-> h.seq]), Len(h.entries) + 1),
    seq     |-> h.seq + 1 ]

\* pushMany(items)
AfterHeapPushMany(h, items) ==
  LET pushed[n \in 0..Len(items)] == IF n = 0 THEN h ELSE AfterHeapPush(pushed[n - 1], items[n])
  IN  pushed[Len(items)]

\* shift(): the last entry replaces the root and sinks.
AfterHeapShift(h) ==
  LET n    == Len(h.entries)
      rest == [j \in 1..(n - 1) |-> IF j = 1 THEN h.entries[n] ELSE h.entries[j]]
  IN  [h EXCEPT !.entries = IF n = 1 THEN << >> ELSE SiftDown(rest, 1)]

\* The entry popLowest() removes: the worst one.
Worst(h) ==
  CHOOSE i \in 1..Len(h.entries) :
    \A j \in 1..Len(h.entries) : j # i => IsBetter(h.entries[j], h.entries[i])

\* Faulty form: the entry that fills the gap only sinks.
AfterPopLowestOnlySinks(h) ==
  LET n    == Len(h.entries)
      gap  == Worst(h)
      rest == [j \in 1..(n - 1) |-> IF j = gap THEN h.entries[n] ELSE h.entries[j]]
  IN  [h EXCEPT !.entries = IF gap = n THEN rest ELSE SiftDown(rest, gap)]

\* popLowest(): the last entry fills the gap, sinks, and rises from the gap.
AfterPopLowest(h) ==
  LET n    == Len(h.entries)
      gap  == Worst(h)
      rest == [j \in 1..(n - 1) |-> IF j = gap THEN h.entries[n] ELSE h.entries[j]]
  IN  [h EXCEPT !.entries = IF gap = n THEN rest ELSE SiftUp(SiftDown(rest, gap), gap)]

\* clear(), which starts the sequence numbers again.
AfterHeapClear(h) == NewHeap

\* The items in the order they were pushed.
Arrivals(h) ==
  [i \in 1..Len(h.entries) |->
     LET place == CHOOSE j \in 1..Len(h.entries) :
                    Cardinality({k \in 1..Len(h.entries) : h.entries[k].seq < h.entries[j].seq})
                      = i - 1
     IN  h.entries[place].item]
=============================================================================
