------------------------------ MODULE MCQueues ------------------------------
(* Values of the constants of Queues for model checking. *)
EXTENDS Queues

ThreeItems == 1..3                              \* an item is its priority
TwiceItsNumber == [item \in Items |-> 2 * item]
ItsNumber == [item \in Items |-> item]
PowersOfTwo == {2, 4, 8}
ShortArrays == UNION {[1..n -> Items] : n \in 1..2}
Runs == {[i \in 1..n |-> item] : n \in 1..MaxItems, item \in Items}
Arrays == ShortArrays \cup Runs
=============================================================================
