-------------------------------- MODULE Deque --------------------------------
(***************************************************************************)
(* What PowerQueue promises: a sequence of items that grows at either end  *)
(* by a batch, loses one item at a time from anywhere, or is emptied.      *)
(***************************************************************************)
EXTENDS Integers, Sequences

CONSTANT Batches   \* the non-empty sequences that may be added at once

VARIABLE items

Init == items = << >>

Add(batch) == items' = items \o batch
AddInFront(batch) == items' = batch \o items

Remove(i) ==
  items' = [j \in 1..(Len(items) - 1) |-> IF j < i THEN items[j] ELSE items[j + 1]]

Clear == items' = << >>

Next ==
  \/ \E batch \in Batches : Add(batch) \/ AddInFront(batch)
  \/ \E i \in 1..Len(items) : Remove(i)
  \/ Clear

Spec == Init /\ [][Next]_items
=============================================================================
