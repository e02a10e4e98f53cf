------------------------------ MODULE CacheOps ------------------------------
(***************************************************************************)
(* The entries of one PowerCache (src/helpers/cache/core.js) as a record,  *)
(* and its operations as functions of it.                                  *)
(*                                                                         *)
(* A key stands for the node that holds it, a linked list is a sequence of *)
(* keys from head to tail, and the map is the set of keys on a list.       *)
(* Pointers kept beside the lists (the eviction candidate, SLRU's          *)
(* boundary, SIEVE's hand, the cleanup cursor, the window memo) are keys,  *)
(* Nil, or Freed when the node they name was given back (maxPoolSize 0:    *)
(* a node is not used again).                                              *)
(*                                                                         *)
(* Under policy "s3fifo" _remove patches head and tail of the main list    *)
(* whatever queue the node is in, and setMany() does not look into the     *)
(* small and ghost queues.  What the lists are after that is not modelled: *)
(* the record's mishap says that it happened.                              *)
(***************************************************************************)
EXTENDS Integers, Sequences, FiniteSets

LOCAL INSTANCE SequencesExt
LOCAL INSTANCE FiniteSetsExt

CONSTANTS
  Keys,
  MaxWeight,      \* options.maxWeight
  MaxEntries,     \* options.maxEntries
  WindowSize,     \* options.windowSize, under policy "window"
  MissCost,       \* options.missCost, under policy "cost": key -> cost
  Nil, Freed

\* "gate" and "window" are policy 'lru' with admission 'tinylfu', without and
\* with a window; "cost" is 'lru' with a missCost.
Policies == {"lru", "cost", "gate", "window", "slru", "sieve", "s3fifo"}

\* How an entry's expiresAt compares to the clock: no expiry, not reached, passed,
\* and passed by more than staleTtl.
Ages == {"never", "fresh", "expired", "gone"}
Expired == {"expired", "gone"}

ASSUME CacheConstants ==
  /\ IsFiniteSet(Keys) /\ Nil \notin Keys /\ Freed \notin Keys
  /\ MaxWeight \in Nat /\ MaxEntries \in Nat \ {0} /\ WindowSize \in 1..MaxEntries
  /\ MissCost \in [Keys -> Nat]

SmallMax == IF MaxEntries < 20 THEN 1 ELSE MaxEntries \div 10
GhostMax == IF MaxEntries < 10 THEN 1 ELSE MaxEntries \div 5

NewCache(policy) ==
  [ policy |-> policy, limit |-> MaxEntries,
    main |-> << >>, small |-> << >>, ghost |-> << >>,
    weight |-> [k \in Keys |-> 0], age |-> [k \in Keys |-> "never"],
    inWindow |-> {}, visited |-> {}, total |-> 0,
    candidate |-> Nil, boundary |-> Nil, hand |-> Nil, cursor |-> Nil,
    memo |-> Nil, memoTail |-> Nil,
    aborted |-> {},        \* keys whose flight this operation signals
    mishap |-> FALSE ]

-----------------------------------------------------------------------------
(* Reading the lists                                                       *)

On(s) == { s[i] : i \in DOMAIN s }
Head1(s) == IF s = << >> THEN Nil ELSE s[1]
Tail1(s) == IF s = << >> THEN Nil ELSE s[Len(s)]
At(s, k) == CHOOSE i \in DOMAIN s : s[i] = k
NextOf(s, k) == IF k \in On(s) /\ At(s, k) < Len(s) THEN s[At(s, k) + 1] ELSE Nil
PrevOf(s, k) == IF k \in On(s) /\ At(s, k) > 1 THEN s[At(s, k) - 1] ELSE Nil
Or(x, y) == IF x = Nil THEN y ELSE x

Live(c) == On(c.main) \cup On(c.small)
Size(c) == Len(c.main) + Len(c.small)
Known(c) == Live(c) \cup On(c.ghost)
TooMuch(c) == Size(c) > c.limit \/ c.total > MaxWeight

-----------------------------------------------------------------------------
(* Linking and unlinking                                                   *)

Allocated(c, k, w, age) ==
  [c EXCEPT !.weight[k] = w, !.age[k] = age, !.inWindow = @ \ {k}, !.visited = @ \ {k}]

FreeNode(c, k) ==
  LET gone(p) == IF p = k THEN Freed ELSE p
  IN  [Allocated(c, k, 0, "never") EXCEPT
         !.candidate = gone(@), !.boundary = gone(@), !.hand = gone(@),
         !.cursor = gone(@), !.memo = gone(@), !.memoTail = gone(@)]

Remove_(c, k) ==
  LET p == PrevOf(c.main, k)
      rest == Remove(c.main, k)
      w == k \in c.inWindow
  IN  [c EXCEPT !.main = rest,
         !.candidate = IF p = Nil THEN Head1(rest) ELSE @,
         !.boundary = IF @ = k THEN p ELSE @,
         !.hand = IF c.policy = "sieve" /\ @ = k THEN Or(NextOf(c.main, k), Head1(rest)) ELSE @,
         !.memo = IF w THEN Nil ELSE @, !.memoTail = IF w THEN Nil ELSE @]

\* Bug: removal does not look whether the boundary goes.
RemoveKeepsBoundary(c, k) == [Remove_(c, k) EXCEPT !.boundary = c.boundary]

RemoveFrom(c, k) == Remove_(c, k)

\* Only a node of the main list is unlinked as the code means it.
UnlinkNode(c, k, advance) ==
  LET n == NextOf(c.main, k)
      d == [c EXCEPT !.total = @ - c.weight[k],
                     !.cursor = IF @ = k THEN n ELSE @,
                     !.candidate = IF advance THEN n ELSE @]
  IN  IF k \in On(c.main) THEN RemoveFrom(d, k) ELSE [c EXCEPT !.mishap = TRUE]

Drop(c, k, advance) ==
  LET d == UnlinkNode(c, k, advance)
  IN  IF d.mishap THEN d ELSE FreeNode(d, k)

Evicted(c, k, advance) == Drop([c EXCEPT !.aborted = @ \cup {k}], k, advance)

AppendSmall(c, k) == [c EXCEPT !.small = Append(@, k)]

AppendMain(c, k) ==
  [c EXCEPT !.main = Append(@, k), !.candidate = IF c.main = << >> THEN k ELSE @]

AppendGhost(c, k) ==
  [c EXCEPT !.ghost = Append(@, k), !.weight[k] = 0, !.age[k] = "never"]

InsertIntoProbation(c, k) ==
  LET b == c.boundary
      d == [c EXCEPT !.boundary = k]
  IN  CASE b = Nil         -> [d EXCEPT !.main = << k >> \o @, !.candidate = k]
        [] b \in On(c.main) -> [d EXCEPT !.main = InsertAt(@, At(@, b) + 1, k)]
        [] OTHER            -> [c EXCEPT !.mishap = TRUE]

AppendNode(c, k) ==
  CASE c.policy = "s3fifo"                        -> AppendSmall(c, k)
    [] c.policy = "slru" /\ c.main # << >>        -> InsertIntoProbation(c, k)
    [] OTHER ->
         [AppendMain(c, k) EXCEPT
            !.boundary = IF c.policy = "slru" THEN k ELSE @,
            !.hand = IF c.policy = "sieve" /\ c.main = << >> THEN k ELSE @]

-----------------------------------------------------------------------------
(* The admission window: the run of window nodes that ends the list        *)

MemoHolds(c) ==
  /\ c.memo # Nil /\ c.memoTail = Tail1(c.main)
  /\ PrevOf(c.main, c.memo) \notin c.inWindow

WalkedOldest(c) ==
  LET s == c.main
      run == { i \in DOMAIN s : \A j \in i..Len(s) : s[j] \in c.inWindow }
  IN  IF run = {} THEN Nil ELSE s[CHOOSE i \in run : \A j \in run : i <= j]

\* _windowOldest() with its memo: what it answers, and the cache after the call.
WindowOldest(c) == IF MemoHolds(c) THEN c.memo ELSE WalkedOldest(c)
AfterOldest(c) ==
  IF MemoHolds(c) THEN c ELSE [c EXCEPT !.memo = WalkedOldest(c), !.memoTail = Tail1(c.main)]

InsertAtMainSpaceMrU(c, k) ==
  LET start == WindowOldest(c)
      d == AfterOldest(c)
  IN  CASE start = Nil          -> AppendMain(d, k)
        [] start \in On(c.main) ->
             [d EXCEPT !.main = InsertAt(@, At(@, start), k),
                       !.candidate = IF Head1(d.main) = start THEN k ELSE @]
        [] OTHER                -> [d EXCEPT !.mishap = TRUE]

PromoteFromWindow(c, k) ==
  [InsertAtMainSpaceMrU(RemoveFrom(c, k), k) EXCEPT !.inWindow = @ \ {k}]

\* wins is the comparison of the two sketch estimates.
ArbitrateWindow(c, previousSize, wins) ==
  LET oldest == WindowOldest(c)
      d == AfterOldest(c)
      victim == PrevOf(d.main, oldest)
      full == victim # Nil /\ (previousSize >= c.limit \/ c.total > MaxWeight)
  IN  CASE (Len(c.main) <= WindowSize \/ oldest = Nil) -> c
        [] ~full -> PromoteFromWindow(d, oldest)
        [] (full /\ (wins \/ c.total > MaxWeight)) -> PromoteFromWindow(Drop(d, victim, TRUE), oldest)
        [] OTHER -> Drop(d, oldest, TRUE)

-----------------------------------------------------------------------------
(* Eviction                                                                *)

\* _cheapestEvictionCandidate: the first of the least costly from the candidate on.
Cheapest(c) ==
  LET s == c.main
      start == Or(c.candidate, Head1(s))
      from == { i \in DOMAIN s : i >= At(s, start) }
  IN  IF start \notin On(s) THEN start
      ELSE s[CHOOSE i \in from : \A j \in from :
               \/ MissCost[s[i]] < MissCost[s[j]]
               \/ MissCost[s[i]] = MissCost[s[j]] /\ i <= j]

Victim(c) == IF c.policy = "cost" THEN Cheapest(c) ELSE Or(c.candidate, Head1(c.main))

WithCandidate(c) == [c EXCEPT !.candidate = Or(@, Head1(c.main))]

\* No loop of evictions goes on for longer: each round drops a node or clears a mark.
Rounds == 2 * Cardinality(Keys)

ListEvict(c) ==
  LET after[n \in 0..Rounds] ==
        IF n = 0 THEN c
        ELSE LET d == after[n - 1]
             IN  IF d.mishap \/ ~TooMuch(d) \/ Victim(d) = Nil THEN d
                 ELSE Evicted(d, Victim(d), TRUE)
  IN  WithCandidate(after[Rounds])

SieveEvict(c) ==
  LET after[n \in 0..Rounds] ==
        IF n = 0 THEN c
        ELSE LET d == after[n - 1]
                 node == Or(d.hand, Head1(d.main))
                 e == [d EXCEPT !.hand = Or(NextOf(d.main, node), Tail1(d.main))]
             IN  CASE d.mishap \/ ~TooMuch(d) \/ node = Nil -> d
                   [] OTHER -> IF node \in d.visited THEN [e EXCEPT !.visited = @ \ {node}]
                               ELSE Evicted(e, node, FALSE)
  IN  after[Rounds]

SmallEvict(c) ==
  LET after[n \in 0..Len(c.small)] ==
        IF n = 0 THEN c
        ELSE LET d == after[n - 1]
                 k == Head1(d.small)
                 e == [d EXCEPT !.small = Tail(@), !.total = @ - d.weight[k]]
             IN  CASE Len(d.small) <= SmallMax -> d
                   [] OTHER -> IF Len(d.ghost) < GhostMax THEN AppendGhost(e, k)
                               ELSE FreeNode([e EXCEPT !.aborted = @ \cup {k}], k)
  IN  after[Len(c.small)]

MainEvict(c) ==
  LET after[n \in 0..Rounds] ==
        IF n = 0 THEN c
        ELSE LET d == after[n - 1]
                 k == Victim(d)
             IN  CASE d.mishap \/ ~TooMuch(d) \/ k = Nil -> d
                   [] OTHER -> IF Len(d.ghost) < GhostMax THEN AppendGhost(UnlinkNode(d, k, TRUE), k)
                               ELSE Evicted(d, k, TRUE)
  IN  WithCandidate(after[Rounds])

\* Bug: main space is bounded on its own, the small queue is not counted.
MainEvictAlone(c) ==
  LET after[n \in 0..Rounds] ==
        IF n = 0 THEN c
        ELSE LET d == after[n - 1]
             IN  IF Victim(d) = Nil \/ (Len(d.main) <= d.limit /\ d.total <= MaxWeight) THEN d
                 ELSE Evicted(d, Victim(d), TRUE)
  IN  WithCandidate(after[Rounds])

\* Bug
S3FifoEvictAlone(c) == MainEvictAlone(SmallEvict(c))

S3FifoEvict(c) == MainEvict(SmallEvict(c))

EvictIfNeeded(c) ==
  CASE c.policy = "sieve"  -> SieveEvict(c)
    [] c.policy = "s3fifo" -> S3FifoEvict(c)
    [] OTHER               -> ListEvict(c)

-----------------------------------------------------------------------------
(* Operations                                                              *)

MoveToTail(c, k) ==
  CASE c.policy = "sieve" -> [c EXCEPT !.visited = @ \cup {k}]
    [] c.policy = "s3fifo" /\ k \in On(c.small) ->
         EvictIfNeeded(AppendMain([c EXCEPT !.small = Remove(@, k)], k))
    [] c.policy = "s3fifo" /\ k \in On(c.ghost) ->
         EvictIfNeeded(AppendMain([c EXCEPT !.ghost = Remove(@, k)], k))
    [] c.policy = "s3fifo" -> c
    [] c.policy = "slru" /\ Tail1(c.main) = k ->
         [c EXCEPT !.boundary = IF @ = k THEN PrevOf(c.main, k) ELSE @]
    [] c.policy = "slru" -> AppendMain(RemoveFrom(c, k), k)
    [] c.policy = "window" /\ k \notin c.inWindow -> InsertAtMainSpaceMrU(RemoveFrom(c, k), k)
    [] Tail1(c.main) = k -> c
    [] OTHER -> AppendNode(RemoveFrom(c, k), k)

UpdateExisting(c, k, w, age) ==
  MoveToTail([c EXCEPT !.total = @ - c.weight[k] + w, !.weight[k] = w, !.age[k] = age], k)

\* _insertNew with the admission filter: whether it refuses the key, and the cache when not.
RefusedEntry(c, wins) ==
  c.policy = "gate" /\ Len(c.main) >= c.limit /\ Or(c.candidate, Head1(c.main)) # Nil /\ ~wins

InsertNew(c, k, w, age, wins) ==
  LET d == [AppendNode(Allocated(c, k, w, age), k) EXCEPT !.total = @ + w]
  IN  IF c.policy = "window"
      THEN ArbitrateWindow([d EXCEPT !.inWindow = @ \cup {k}], Len(c.main), wins)
      ELSE d

SetKey(c, k, w, age, wins) ==
  CASE k \in Known(c)   -> EvictIfNeeded(UpdateExisting(c, k, w, age))
    [] RefusedEntry(c, wins) -> c
    [] OTHER            -> EvictIfNeeded(InsertNew(c, k, w, age, wins))

\* One pair of setMany(), which looks the key up in the map alone.
PutOne(c, k, w, wins) ==
  CASE k \in On(c.main) -> UpdateExisting(c, k, w, "never")
    [] RefusedEntry(c, wins) -> c
    [] k \in Known(c)   -> [c EXCEPT !.mishap = TRUE]
    [] OTHER            -> InsertNew(c, k, w, "never", wins)

SetMany(c, k1, k2, w, wins) ==
  LET d == PutOne(c, k1, w, wins)
  IN  EvictIfNeeded(IF d.mishap THEN d ELSE PutOne(d, k2, w, wins))

\* _fetchValidNode: what it leaves, and whether it returns the node.
Valid(c, k) == k \in Live(c) /\ c.age[k] \notin Expired
Fetched(c, k) == IF k \in Live(c) /\ ~Valid(c, k) THEN Drop(c, k, FALSE) ELSE c

GetKey(c, k) == IF Valid(c, k) THEN MoveToTail(c, k) ELSE Fetched(c, k)

Touch(c, k, age) ==
  IF Valid(c, k) THEN MoveToTail([c EXCEPT !.age[k] = age], k) ELSE Fetched(c, k)

DeleteKey(c, k) ==
  LET d == [c EXCEPT !.aborted = @ \cup {k}]
  IN  IF k \in Known(c) THEN Drop(d, k, FALSE) ELSE d

\* Nodes of the small and ghost queues are collected, and skipped.
Invalidate(c, chosen) ==
  LET doomed == chosen \cap On(c.main)
      after[n \in 0..Cardinality(doomed)] ==
        IF n = 0 THEN c
        ELSE LET d == after[n - 1]
                 left == doomed \cap On(d.main)
                 k == CHOOSE x \in left : \A y \in left : At(d.main, x) <= At(d.main, y)
             IN  Evicted(d, k, FALSE)
      rest == after[Cardinality(doomed)]
  IN  [rest EXCEPT !.candidate = IF @ \in On(rest.main) THEN @ ELSE Head1(rest.main)]

\* evict(1)
EvictOne(c) ==
  LET k == Or(c.candidate, Head1(c.main))
  IN  IF k = Nil THEN c
      ELSE LET d == Evicted(c, k, TRUE) IN IF d.mishap THEN d ELSE WithCandidate(d)

\* cleanupExpiredUpTo(budget) from a node on, then the cursor.
Cleanup(c, budget) ==
  LET after[n \in 0..budget] ==
        IF n = 0 THEN [cache |-> c, at |-> Or(c.cursor, Head1(c.main))]
        ELSE LET d == after[n - 1].cache
                 k == after[n - 1].at
             IN  IF d.mishap \/ k = Nil THEN after[n - 1]
                 ELSE [ cache |-> IF d.age[k] \in Expired THEN Drop(d, k, FALSE) ELSE d,
                        at    |-> NextOf(d.main, k) ]
      rest == after[budget].cache
  IN  [rest EXCEPT !.cursor = Or(after[budget].at, Head1(rest.main))]

\* clear() leaves the window memo, whose nodes it frees.
Clear(c) ==
  LET gone(p) == IF p = Nil THEN Nil ELSE Freed
  IN  [NewCache(c.policy) EXCEPT !.limit = c.limit, !.aborted = Keys,
         !.memo = gone(c.memo), !.memoTail = gone(c.memoTail)]

Resize(c, limit) ==
  LET d == EvictIfNeeded([c EXCEPT !.limit = limit])
  IN  IF d.mishap THEN d ELSE [d EXCEPT !.cursor = Nil, !.candidate = Head1(d.main)]

-----------------------------------------------------------------------------
(* What the record must satisfy as long as there was no mishap             *)

NoDuplicates(s) == Cardinality(On(s)) = Len(s)

ListsAreSound(c) ==
  /\ NoDuplicates(c.main \o c.small \o c.ghost)
  /\ c.policy # "s3fifo" => c.small = << >> /\ c.ghost = << >>
  /\ c.total = MapThenSumSet(LAMBDA k : c.weight[k], Live(c))
  /\ \A k \in Keys \ Live(c) : c.weight[k] = 0 /\ c.age[k] = "never"

\* SLRU's boundary ends a prefix of the list; SIEVE's hand and the cursor are in it; the
\* memo, when its test passes, is what a walk finds; the window is a suffix.
PointersAreSound(c) ==
  LET linked == On(c.main) \cup {Nil}
  IN  /\ c.boundary \in linked /\ c.hand \in linked /\ c.cursor \in linked
      /\ c.policy \notin {"cost", "window"} => c.candidate = Head1(c.main)
      /\ MemoHolds(c) => c.memo = WalkedOldest(c)
      /\ c.inWindow \subseteq On(c.main)
      /\ \A k \in c.inWindow : NextOf(c.main, k) \in c.inWindow \cup {Nil}
      /\ Cardinality(c.inWindow) <= WindowSize

IsBounded(c) ==
  /\ Size(c) <= c.limit
  /\ Len(c.small) <= SmallMax /\ Len(c.ghost) <= GhostMax
  /\ \/ c.total <= MaxWeight
     \/ c.policy = "s3fifo" /\ c.main = << >>
=============================================================================
