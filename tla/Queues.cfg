\* The ring alone, and the ring and the heap side by side.
SPECIFICATION Spec
CONSTANTS
  Items <- ThreeItems
  HeapItems <- ThreeItems
  Weight <- TwiceItsNumber
  Priority <- ItsNumber
  Capacities <- PowersOfTwo
  Empty = Empty
  InitialCapacity = 0
  Batches <- Arrays
  Minimums = {0, 3}
  MaxItems = 6
  MaxSeq = 7
INVARIANTS
  RingKeepsShape
  TotalWeightIsExact
  HeapIsSound
PROPERTY ImplementsDeque
