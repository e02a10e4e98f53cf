---------------------------- MODULE Queues_proofs ----------------------------
(***************************************************************************)
(* The ring of Queues keeps its shape, implements a plain sequence and     *)
(* knows its weight, and the heap that is given the same items keeps its   *)
(* order and holds what the ring holds, for any items, priorities,         *)
(* capacities, batches and bounds.                                         *)
(***************************************************************************)
EXTENDS Queues, FiniteSetTheorems, SequenceTheorems, WellFoundedInduction, TLAPS

(***************************************************************************)
(* The ring.  Every operation of RingOps leads from a ring of sound shape  *)
(* to a ring of sound shape, and does to the array what it says.  The      *)
(* shape is stated by slot (RingInv); the proofs read it by position from  *)
(* the head (Positions), because that is how the operations move items.    *)
(***************************************************************************)
(* A position counted from the head and a slot of the buffer determine     *)
(* each other: the arithmetic of `& mask`.                                 *)
LEMMA SlotAt ==
  ASSUME NEW n \in Nat \ {0}, NEW h \in 0..(n - 1), NEW i \in 0..(n - 1)
  PROVE  /\ (h + i) % n \in 0..(n - 1)
         /\ (h + i) % n = IF h + i < n THEN h + i ELSE h + i - n
         /\ (((h + i) % n) - h) % n = i
<1>1. (h + i) % n = IF h + i < n THEN h + i ELSE h + i - n
  OBVIOUS
<1>2. (((h + i) % n) - h) % n = i
  <2>1. CASE h + i < n
    BY <1>1, <2>1
  <2>2. CASE h + i >= n
    <3>1. ((h + i) % n) - h = i - n
      BY <1>1, <2>2
    <3>2. (i - n) % n = i
      OBVIOUS
    <3> QED BY <3>1, <3>2
  <2> QED BY <2>1, <2>2
<1> QED BY <1>1, <1>2

(* Every slot is at one position.                                         *)
LEMMA SlotOf ==
  ASSUME NEW n \in Nat \ {0}, NEW h \in 0..(n - 1), NEW k \in 0..(n - 1)
  PROVE  \E i \in 0..(n - 1) : (k - h) % n = i /\ (h + i) % n = k
<1> DEFINE i == IF k >= h THEN k - h ELSE k - h + n
<1>1. i \in 0..(n - 1) /\ (k - h) % n = i /\ (h + i) % n = k
  OBVIOUS
<1> HIDE DEF i
<1> QED BY <1>1

(* A non-empty set of numbers has a least element and, if it is bounded, a *)
(* greatest one.                                                           *)
LEMMA LeastExists ==
  ASSUME NEW T, T \subseteq Nat, T # {}
  PROVE  \E c \in T : \A d \in T : c <= d
<1> DEFINE R == OpToRel(<, Nat)
<1>1. R = {ss \in Nat \X Nat : ss[1] < ss[2]}
  BY DEF OpToRel
<1>2. PICK c \in T : \A d \in T : ~(<< d, c >> \in R)
  <2> HIDE DEF R
  <2>1. IsWellFoundedOn(R, Nat)
    BY NatLessThanWellFounded DEF R
  <2> QED BY <2>1, WFMin
<1>3. ASSUME NEW d \in T, ~(c <= d) PROVE FALSE
  <2>1. c \in Nat /\ d \in Nat /\ d < c
    BY <1>3
  <2>2. << d, c >> \in R
    BY <1>1, <2>1
  <2> QED BY <1>2, <2>2
<1> HIDE DEF R
<1> QED BY <1>3

(* The greatest element, as the least distance from the bound.             *)
LEMMA GreatestExists ==
  ASSUME NEW m \in Nat, NEW T, T \subseteq 0..m, T # {}
  PROVE  \E c \in T : \A d \in T : d <= c
<1> DEFINE M == {m - t : t \in T}
<1>1. M \subseteq Nat /\ M # {}
  <2>1. \A t \in T : m - t \in Nat
    OBVIOUS
  <2> QED BY <2>1
<1>2. PICK c \in T : \A x \in M : m - c <= x
  <2> HIDE DEF M
  <2>1. PICK y \in M : \A x \in M : y <= x
    BY <1>1, LeastExists
  <2>2. PICK c \in T : y = m - c
    BY <2>1 DEF M
  <2> QED BY <2>1, <2>2
<1>3. \A d \in T : m - c <= m - d
  BY <1>2
<1>4. \A d \in T : d <= c
  BY <1>3
<1> QED BY <1>4

(* A buffer size that is large enough exists, so RoundUp finds one.        *)
LEMMA RoundUpFits ==
  ASSUME NEW n \in Nat, Fits(n)
  PROVE  RoundUp(n) \in Capacities /\ n <= RoundUp(n)
<1> DEFINE T == {c \in Capacities : n <= c}
<1>1. T \subseteq Nat /\ T # {}
  BY RingConstants DEF Fits
<1>2. \E c \in T : \A d \in T : c <= d
  <2> HIDE DEF T
  <2> QED BY <1>1, LeastExists
<1>3. \E c \in Capacities : n <= c /\ \A d \in Capacities : n <= d => c <= d
  BY <1>2
<1> HIDE DEF T
<1> QED BY <1>3 DEF RoundUp

(* Going i slots and then j slots is going i + j slots.                    *)
LEMMA Advance ==
  ASSUME NEW n \in Nat \ {0}, NEW h \in 0..(n - 1), NEW i \in 0..n, NEW j \in 0..n,
         i + j <= n
  PROVE  (((h + i) % n) + j) % n = (h + (i + j)) % n
<1> DEFINE s == (h + i) % n
<1>1. s = IF h + i < n THEN h + i ELSE h + i - n
  OBVIOUS
<1>2. (h + (i + j)) % n = IF h + (i + j) < n THEN h + (i + j) ELSE h + (i + j) - n
  OBVIOUS
<1> DEFINE x == s + j
<1>3. x \in Int /\ 0 <= x /\ x < n + n
  BY <1>1
<1>4. x = IF h + i < n THEN h + (i + j) ELSE h + (i + j) - n
  BY <1>1
<1> HIDE DEF x
<1>5. x % n = IF x < n THEN x ELSE x - n
  <2>1. CASE x < n
    BY <1>3, <2>1
  <2>2. CASE x >= n
    BY <1>3, <2>2
  <2> QED BY <1>3, <2>1, <2>2
<1>6. x % n = (h + (i + j)) % n
  BY <1>2, <1>3, <1>4, <1>5
<1> QED BY <1>6 DEF x

(* The slot len positions in front of the head.                            *)
LEMMA Retreat ==
  ASSUME NEW n \in Nat \ {0}, NEW h \in 0..(n - 1), NEW len \in 0..n
  PROVE  /\ (h - len) % n \in 0..(n - 1)
         /\ (((h - len) % n) + len) % n = h
<1> DEFINE s == (h - len) % n
<1>1. s = IF h >= len THEN h - len ELSE h - len + n
  OBVIOUS
<1>2. s \in 0..(n - 1)
  BY <1>1
<1>3. (s + len) % n = h
  <2> HIDE DEF s
  <2>1. CASE h >= len
    <3>1. s + len = h
      BY <1>1, <2>1
    <3>2. h % n = h
      OBVIOUS
    <3> QED BY <3>1, <3>2
  <2>2. CASE h < len
    <3>1. s + len = h + n
      BY <1>1, <2>2
    <3>2. (h + n) % n = h
      OBVIOUS
    <3> QED BY <3>1, <3>2
  <2> QED BY <2>1, <2>2
<1> QED BY <1>2, <1>3

-----------------------------------------------------------------------------
(***************************************************************************)
(* The ring, position by position.                                         *)
(***************************************************************************)

(* The shape of a ring, read from the head.                                *)
Positions(r) ==
  \A i \in 0..(r.capacity - 1) : IF i < r.size THEN At(r, i) \in Items ELSE At(r, i) = Empty

(* r has the fields of a ring and no others.                               *)
IsRecord(r) ==
  r = [ capacity |-> r.capacity, buffer |-> r.buffer, head |-> r.head, tail |-> r.tail,
        size |-> r.size, totalWeight |-> r.totalWeight ]

(* What is left of the shape once positions are taken care of.             *)
Frame(r) ==
  /\ IsRecord(r)
  /\ r.capacity \in Capacities
  /\ r.head \in 0..(r.capacity - 1)
  /\ r.size \in 0..r.capacity
  /\ r.tail = (r.head + r.size) % r.capacity
  /\ DOMAIN r.buffer = 0..(r.capacity - 1)

(* From positions to slots, for one buffer.                                *)
LEMMA SlotsByPosition ==
  ASSUME NEW n \in Nat \ {0}, NEW h \in 0..(n - 1), NEW z \in 0..n, NEW b,
         \A i \in 0..(n - 1) : IF i < z THEN b[(h + i) % n] \in Items ELSE b[(h + i) % n] = Empty,
         NEW k \in 0..(n - 1)
  PROVE  IF (k - h) % n < z THEN b[k] \in Items ELSE b[k] = Empty
<1>1. PICK i \in 0..(n - 1) : (k - h) % n = i /\ (h + i) % n = k
  BY SlotOf
<1>2. IF i < z THEN b[k] \in Items ELSE b[k] = Empty
  BY <1>1
<1> QED BY <1>1, <1>2

(* A ring that is sound by position is sound by slot...                    *)
LEMMA ShapeByPosition ==
  ASSUME NEW r, Frame(r), Positions(r)
  PROVE  RingInv(r)
<1> DEFINE n == r.capacity
           h == r.head
           z == r.size
           b == r.buffer
<1>1. n \in Nat \ {0} /\ h \in 0..(n - 1) /\ z \in 0..n
  BY RingConstants DEF Frame
<1>2. \A i \in 0..(n - 1) : IF i < z THEN b[(h + i) % n] \in Items ELSE b[(h + i) % n] = Empty
  BY DEF Positions, At
<1> HIDE DEF n, h, z, b
<1>3. \A k \in 0..(n - 1) : IF (k - h) % n < z THEN b[k] \in Items ELSE b[k] = Empty
  BY <1>1, <1>2, SlotsByPosition
<1> USE DEF n, h, z, b
<1> QED BY <1>3 DEF RingInv, Frame, IsRecord

(* ... and the other way round.                                            *)
LEMMA PositionsOfShape ==
  ASSUME NEW r, RingInv(r)
  PROVE  Frame(r) /\ Positions(r) /\ r.capacity \in Nat \ {0}
<1>1. r.capacity \in Nat \ {0} /\ r.head \in 0..(r.capacity - 1)
  BY RingConstants DEF RingInv
<1>2. ASSUME NEW i \in 0..(r.capacity - 1)
      PROVE  IF i < r.size THEN At(r, i) \in Items ELSE At(r, i) = Empty
  <2> DEFINE k == (r.head + i) % r.capacity
  <2>1. k \in 0..(r.capacity - 1) /\ (k - r.head) % r.capacity = i
    BY <1>1, SlotAt
  <2> HIDE DEF k
  <2>2. IF i < r.size THEN r.buffer[k] \in Items ELSE r.buffer[k] = Empty
    BY <2>1 DEF RingInv
  <2> QED BY <2>2 DEF At, k
<1> QED BY <1>1, <1>2 DEF RingInv, Frame, IsRecord, Positions

(* toArray gives the items in order.                                       *)
LEMMA ArrayOfRing ==
  ASSUME NEW r, RingInv(r)
  PROVE  /\ ToArray(r) \in Seq(Items)
         /\ Len(ToArray(r)) = r.size
         /\ r.size \in Nat
         /\ \A i \in 1..r.size : ToArray(r)[i] = At(r, i - 1)
<1>1. r.size \in Nat /\ r.size <= r.capacity /\ r.capacity \in Nat
  BY RingConstants DEF RingInv
<1>2. \A i \in 1..r.size : At(r, i - 1) \in Items
  BY <1>1, PositionsOfShape DEF Positions
<1>3. ToArray(r) \in [1..r.size -> Items]
  BY <1>2 DEF ToArray
<1>4. ToArray(r) \in Seq(Items) /\ Len(ToArray(r)) = r.size
  BY <1>1, <1>3
<1> QED BY <1>1, <1>4 DEF ToArray

(* A fresh ring is empty.                                                  *)
LEMMA NewRingSound ==
  ASSUME NEW n \in Nat, Fits(n), Fits(2)
  PROVE  RingInv(NewRing(n)) /\ ToArray(NewRing(n)) = << >>
<1> DEFINE cap == RoundUp(IF n < 2 THEN 2 ELSE n)
           r   == NewRing(n)
<1>1. cap \in Capacities /\ cap \in Nat \ {0}
  BY RoundUpFits, RingConstants
<1> HIDE DEF cap
<1>2. r = [ capacity |-> cap, buffer |-> [k \in 0..(cap - 1) |-> Empty],
            head |-> 0, tail |-> 0, size |-> 0, totalWeight |-> 0 ]
  BY DEF NewRing, cap
<1> HIDE DEF r
<1>3. 0 % cap = 0
  BY <1>1
<1>4. Frame(r)
  BY <1>1, <1>2, <1>3 DEF Frame, IsRecord
<1>5. Positions(r)
  <2> SUFFICES ASSUME NEW i \in 0..(cap - 1) PROVE At(r, i) = Empty
    BY <1>1, <1>2 DEF Positions
  <2>1. i % cap \in 0..(cap - 1)
    BY <1>1
  <2> QED BY <1>1, <1>2, <2>1 DEF At
<1>6. ToArray(r) = << >>
  BY <1>2 DEF ToArray
<1> QED BY <1>4, <1>5, <1>6, ShapeByPosition DEF r

(* A copy into a buffer that is large enough changes no item.              *)
LEMMA RelocatedSound ==
  ASSUME NEW r, RingInv(r), NEW cap \in Capacities, r.size <= cap
  PROVE  LET g == Relocated(r, cap)
         IN  RingInv(g) /\ ToArray(g) = ToArray(r) /\ g.capacity = cap /\ g.size = r.size
<1> DEFINE g == Relocated(r, cap)
<1>1. cap \in Nat \ {0} /\ r.size \in Nat /\ r.size <= r.capacity /\ r.capacity \in Nat
  BY RingConstants DEF RingInv
<1> DEFINE copy == [k \in 0..(cap - 1) |-> IF k < r.size THEN At(r, k) ELSE Empty]
           end  == r.size % cap
<1>2. /\ IsRecord(g) /\ g.capacity = cap /\ g.buffer = copy /\ g.head = 0 /\ g.tail = end
      /\ g.size = r.size
  <2>1. IsRecord(r)
    BY DEF RingInv, IsRecord
  <2>2. g = [r EXCEPT !.capacity = cap, !.buffer = copy, !.head = 0, !.tail = end]
    BY DEF Relocated
  <2> HIDE DEF g, copy, end
  <2> QED BY <2>1, <2>2 DEF IsRecord
<1> HIDE DEF g
<1>3. Frame(g)
  BY <1>1, <1>2 DEF Frame
<1>4. \A i \in 0..(cap - 1) : At(g, i) = IF i < r.size THEN At(r, i) ELSE Empty
  <2> SUFFICES ASSUME NEW i \in 0..(cap - 1)
               PROVE  At(g, i) = IF i < r.size THEN At(r, i) ELSE Empty
    OBVIOUS
  <2>1. (0 + i) % cap = i
    BY <1>1
  <2>2. At(g, i) = g.buffer[i]
    BY <1>2, <2>1 DEF At
  <2> QED BY <1>2, <2>2
<1>5. \A i \in 0..(r.capacity - 1) : i < r.size => At(r, i) \in Items
  BY PositionsOfShape DEF Positions
<1>6. Positions(g)
  BY <1>1, <1>2, <1>4, <1>5 DEF Positions
<1>7. ToArray(g) = ToArray(r)
  <2>1. \A i \in 1..r.size : At(g, i - 1) = At(r, i - 1)
    BY <1>1, <1>4
  <2> QED BY <1>2, <2>1 DEF ToArray
<1> QED BY <1>2, <1>3, <1>6, <1>7, ShapeByPosition DEF g

(* `while (capacity < need) grow()` makes room and changes no item.        *)
LEMMA RoomySound ==
  ASSUME NEW r, RingInv(r), NEW need \in Nat, Fits(need), r.size <= need
  PROVE  LET g == Roomy(r, need)
         IN  RingInv(g) /\ ToArray(g) = ToArray(r) /\ g.size = r.size /\ need <= g.capacity
<1>1. r.capacity \in Nat /\ r.size \in Nat
  BY RingConstants DEF RingInv
<1>2. CASE r.capacity < need
  <2> DEFINE cap == RoundUp(need)
  <2>1. cap \in Capacities /\ need <= cap /\ cap \in Nat
    BY RoundUpFits, RingConstants
  <2>2. Roomy(r, need) = Relocated(r, cap)
    BY <1>2 DEF Roomy
  <2> HIDE DEF cap
  <2>3. r.size <= cap
    BY <1>1, <2>1
  <2> QED BY <2>1, <2>2, <2>3, RelocatedSound
<1>3. CASE ~(r.capacity < need)
  BY <1>1, <1>3 DEF Roomy
<1> QED BY <1>2, <1>3

(* pushMany, push and fill append.                                         *)
LEMMA PushManySound ==
  ASSUME NEW r, RingInv(r), NEW items \in Seq(Items), Fits(r.size + Len(items))
  PROVE  LET a == AfterPushMany(r, items)
         IN  RingInv(a) /\ ToArray(a) = ToArray(r) \o items
<1> DEFINE g   == Roomy(r, r.size + Len(items))
           a   == AfterPushMany(r, items)
           n   == g.capacity
           h   == g.head
           z   == g.size
           b   == g.buffer
           t   == g.tail
           len == Len(items)
           w   == [k \in 0..(n - 1) |->
                     LET d == (k - t) % n IN IF d < len THEN items[d + 1] ELSE b[k]]
           end == (t + len) % n
           wt  == g.totalWeight + WeightOf(items)
<1>1. len \in Nat /\ (\A j \in 1..len : items[j] \in Items)
  OBVIOUS
<1>2. r.size \in Nat
  BY RingConstants DEF RingInv
<1>3. RingInv(g) /\ ToArray(g) = ToArray(r) /\ z = r.size /\ z + len <= n
  BY <1>1, <1>2, RoomySound
<1>4. /\ IsRecord(a) /\ a.capacity = n /\ a.buffer = w /\ a.head = h /\ a.tail = end
      /\ a.size = z + len
  <2> HIDE DEF g
  <2>1. IsRecord(g)
    BY <1>3 DEF RingInv, IsRecord
  <2>2. Written(g, g.tail, items) = w
    BY DEF Written
  <2>3. a = [g EXCEPT !.buffer = w, !.tail = end, !.size = z + len, !.totalWeight = wt]
    BY <2>2 DEF AfterPushMany, g
  <2> DEFINE size == z + len
  <2> HIDE DEF a, w, end, wt, size
  <2>4. a = [g EXCEPT !.buffer = w, !.tail = end, !.size = size, !.totalWeight = wt]
    BY <2>3 DEF size
  <2>5. /\ IsRecord(a) /\ a.capacity = g.capacity /\ a.buffer = w /\ a.head = g.head
        /\ a.tail = end /\ a.size = size
    BY <2>1, <2>4 DEF IsRecord
  <2> QED BY <2>5 DEF size
<1>5. n \in Capacities /\ n \in Nat \ {0} /\ h \in 0..(n - 1) /\ z \in 0..n /\ t = (h + z) % n
  BY <1>3, RingConstants DEF RingInv
<1>6. \A i \in 0..(n - 1) : IF i < z THEN b[(h + i) % n] \in Items ELSE b[(h + i) % n] = Empty
  BY <1>3, PositionsOfShape DEF Positions, At
<1> HIDE DEF g, n, h, z, b, t, a, len
<1>7. end = (h + (z + len)) % n
  <2>1. len \in 0..n
    BY <1>1, <1>3, <1>5
  <2>2. (((h + z) % n) + len) % n = (h + (z + len)) % n
    BY <1>3, <1>5, <2>1, Advance
  <2> QED BY <1>5, <2>2
<1> HIDE DEF end
<1>8. DOMAIN w = 0..(n - 1)
  OBVIOUS
<1>9. \A i \in 0..(n - 1) : w[(h + i) % n] = IF z <= i /\ i < z + len THEN items[i - z + 1]
                                             ELSE b[(h + i) % n]
  <2> SUFFICES ASSUME NEW i \in 0..(n - 1)
               PROVE  w[(h + i) % n] = IF z <= i /\ i < z + len THEN items[i - z + 1]
                                       ELSE b[(h + i) % n]
    OBVIOUS
  <2> DEFINE slot == (h + i) % n
             d    == (slot - t) % n
  <2>1. slot = IF h + i < n THEN h + i ELSE h + i - n
    BY <1>5
  <2>2. t = IF h + z < n THEN h + z ELSE h + z - n
    BY <1>5
  <2>3. slot \in 0..(n - 1) /\ t \in 0..(n - 1)
    BY <1>5, <2>1, <2>2
  <2>4. w[slot] = IF d < len THEN items[d + 1] ELSE b[slot]
    <3> HIDE DEF slot
    <3> QED BY <2>3
  <2> HIDE DEF slot, w
  <2>5. d = IF slot >= t THEN slot - t ELSE slot - t + n
    BY <1>5, <2>3
  <2> HIDE DEF d
  <2>6. d = IF i >= z THEN i - z ELSE i - z + n
    BY <1>5, <2>1, <2>2, <2>5
  <2>7. CASE z <= i /\ i < z + len
    <3>1. d < len /\ d + 1 = i - z + 1
      BY <1>1, <1>5, <2>6, <2>7
    <3> QED BY <2>4, <2>7, <3>1 DEF slot
  <2>8. CASE ~(z <= i /\ i < z + len)
    <3>1. ~(d < len)
      <4>1. CASE i >= z
        BY <1>1, <1>3, <1>5, <2>6, <2>8, <4>1
      <4>2. CASE i < z
        BY <1>1, <1>3, <1>5, <2>6, <2>8, <4>2
      <4> QED BY <1>5, <4>1, <4>2
    <3> QED BY <2>4, <2>8, <3>1 DEF slot
  <2> QED BY <2>7, <2>8
<1> HIDE DEF w
<1>10. Frame(a)
  <2>1. z + len \in 0..n
    BY <1>1, <1>3, <1>5
  <2> QED BY <1>4, <1>5, <1>7, <1>8, <2>1 DEF Frame
<1>11. \A i \in 0..(n - 1) : At(a, i) = IF z <= i /\ i < z + len THEN items[i - z + 1]
                                        ELSE b[(h + i) % n]
  BY <1>4, <1>9 DEF At
<1>12. Positions(a)
  <2> SUFFICES ASSUME NEW i \in 0..(n - 1)
               PROVE  IF i < z + len THEN At(a, i) \in Items ELSE At(a, i) = Empty
    BY <1>4 DEF Positions
  <2>1. CASE z <= i /\ i < z + len
    <3>1. i - z + 1 \in 1..len
      BY <1>1, <1>5, <2>1
    <3> QED BY <1>1, <1>11, <2>1, <3>1
  <2>2. CASE i < z
    BY <1>1, <1>5, <1>6, <1>11, <2>2
  <2>3. CASE i >= z + len
    BY <1>1, <1>5, <1>6, <1>11, <2>3
  <2> QED BY <1>1, <1>5, <2>1, <2>2, <2>3
<1>13. RingInv(a)
  BY <1>10, <1>12, ShapeByPosition
<1>14. ToArray(a) = ToArray(r) \o items
  <2> DEFINE s == ToArray(r)
             c == s \o items
  <2>1. s \in Seq(Items) /\ Len(s) = z /\ \A i \in 1..z : s[i] = b[(h + (i - 1)) % n]
    BY <1>3, ArrayOfRing DEF At, z, b, h, n
  <2> HIDE DEF s
  <2>2. c \in Seq(Items) /\ Len(c) = z + len
         /\ \A i \in 1..(z + len) : c[i] = IF i <= z THEN s[i] ELSE items[i - z]
    BY <2>1, ConcatProperties DEF len
  <2>3. ToArray(a) \in Seq(Items) /\ Len(ToArray(a)) = z + len
         /\ \A i \in 1..(z + len) : ToArray(a)[i] = At(a, i - 1)
    BY <1>4, <1>13, ArrayOfRing
  <2> HIDE DEF c
  <2>4. ASSUME NEW i \in 1..(z + len) PROVE ToArray(a)[i] = c[i]
    <3>1. i - 1 \in 0..(n - 1)
      BY <1>1, <1>3, <1>5
    <3>2. CASE i <= z
      <4>1. At(a, i - 1) = b[(h + (i - 1)) % n]
        <5>1. ~(z <= i - 1)
          BY <1>5, <3>2
        <5> QED BY <1>11, <3>1, <5>1
      <4>2. i \in 1..z
        BY <1>5, <3>2
      <4> QED BY <2>1, <2>2, <2>3, <3>2, <4>1, <4>2
    <3>3. CASE i > z
      <4>1. (i - 1) - z + 1 = i - z /\ z <= i - 1 /\ i - 1 < z + len /\ ~(i <= z)
        BY <1>1, <1>5, <3>3
      <4>2. At(a, i - 1) = items[(i - 1) - z + 1]
        BY <1>11, <3>1, <4>1
      <4> QED BY <2>2, <2>3, <4>1, <4>2
    <3> QED BY <1>1, <1>5, <3>2, <3>3
  <2>5. ToArray(a) = c
    BY <2>2, <2>3, <2>4, SeqEqual
  <2> QED BY <2>5 DEF c, s
<1> QED BY <1>13, <1>14 DEF a

(* unshiftMany and unshift put a block in front of the head.               *)
LEMMA UnshiftManySound ==
  ASSUME NEW r, RingInv(r), NEW items \in Seq(Items), Fits(r.size + Len(items))
  PROVE  LET a == AfterUnshiftMany(r, items)
         IN  RingInv(a) /\ ToArray(a) = items \o ToArray(r)
<1> DEFINE g   == Roomy(r, r.size + Len(items))
           a   == AfterUnshiftMany(r, items)
           n   == g.capacity
           h   == g.head
           z   == g.size
           b   == g.buffer
           len == Len(items)
           f   == (h - len) % n
           w   == [k \in 0..(n - 1) |->
                     LET d == (k - f) % n IN IF d < len THEN items[d + 1] ELSE b[k]]
           wt  == g.totalWeight + WeightOf(items)
<1>1. len \in Nat /\ (\A j \in 1..len : items[j] \in Items)
  OBVIOUS
<1>2. r.size \in Nat
  BY RingConstants DEF RingInv
<1>3. RingInv(g) /\ ToArray(g) = ToArray(r) /\ z = r.size /\ z + len <= n
  BY <1>1, <1>2, RoomySound
<1>4. /\ IsRecord(a) /\ a.capacity = n /\ a.buffer = w /\ a.head = f /\ a.tail = g.tail
      /\ a.size = z + len
  <2> HIDE DEF g
  <2>1. IsRecord(g)
    BY <1>3 DEF RingInv, IsRecord
  <2>2. Written(g, f, items) = w
    BY DEF Written
  <2>3. a = [g EXCEPT !.buffer = w, !.head = f, !.size = z + len, !.totalWeight = wt]
    BY <2>2 DEF AfterUnshiftMany, g
  <2> DEFINE size == z + len
  <2> HIDE DEF a, w, f, wt, size
  <2>4. a = [g EXCEPT !.buffer = w, !.head = f, !.size = size, !.totalWeight = wt]
    BY <2>3 DEF size
  <2>5. /\ IsRecord(a) /\ a.capacity = g.capacity /\ a.buffer = w /\ a.head = f
        /\ a.tail = g.tail /\ a.size = size
    BY <2>1, <2>4 DEF IsRecord
  <2> QED BY <2>5 DEF size
<1>5. /\ n \in Capacities /\ n \in Nat \ {0} /\ h \in 0..(n - 1) /\ z \in 0..n
      /\ g.tail = (h + z) % n
  BY <1>3, RingConstants DEF RingInv
<1>6. \A i \in 0..(n - 1) : IF i < z THEN b[(h + i) % n] \in Items ELSE b[(h + i) % n] = Empty
  BY <1>3, PositionsOfShape DEF Positions, At
<1> HIDE DEF g, n, h, z, b, a, len
<1>7. f \in 0..(n - 1) /\ (f + len) % n = h
  <2>1. len \in 0..n
    BY <1>1, <1>3, <1>5
  <2> QED BY <1>5, <2>1, Retreat
<1>8. DOMAIN w = 0..(n - 1)
  OBVIOUS
<1> HIDE DEF f
<1>9. \A j \in 0..n : len + j <= n => (h + j) % n = (f + (len + j)) % n
  <2> SUFFICES ASSUME NEW j \in 0..n, len + j <= n
               PROVE  (h + j) % n = (f + (len + j)) % n
    OBVIOUS
  <2>1. len \in 0..n
    BY <1>1, <1>3, <1>5
  <2>2. (((f + len) % n) + j) % n = (f + (len + j)) % n
    BY <1>5, <1>7, <2>1, Advance
  <2> QED BY <1>7, <2>2
<1>10. ASSUME NEW i \in 0..(n - 1)
       PROVE  w[(f + i) % n] = IF i < len THEN items[i + 1] ELSE b[(h + (i - len)) % n]
  <2> DEFINE slot == (f + i) % n
  <2>1. slot \in 0..(n - 1) /\ (slot - f) % n = i
    BY <1>5, <1>7, SlotAt
  <2>2. w[slot] = IF i < len THEN items[i + 1] ELSE b[slot]
    <3> HIDE DEF slot
    <3> QED BY <2>1
  <2>3. CASE i < len
    BY <2>2, <2>3
  <2>4. CASE ~(i < len)
    <3>1. i - len \in 0..n /\ len + (i - len) = i
      BY <1>1, <1>5, <2>4
    <3>2. (h + (i - len)) % n = (f + (len + (i - len))) % n
      BY <1>5, <1>9, <3>1
    <3>3. (h + (i - len)) % n = slot
      BY <3>1, <3>2
    <3> HIDE DEF slot, w
    <3>4. w[slot] = b[(h + (i - len)) % n]
      BY <2>2, <2>4, <3>3
    <3> QED BY <2>4, <3>4 DEF slot
  <2> QED BY <2>3, <2>4
<1> HIDE DEF w
<1>11. \A i \in 0..(n - 1) : At(a, i) = IF i < len THEN items[i + 1] ELSE b[(h + (i - len)) % n]
  BY <1>4, <1>10 DEF At
<1>12. Frame(a)
  <2>1. z + len \in 0..n /\ z + len = len + z
    BY <1>1, <1>3, <1>5
  <2>2. g.tail = (f + (z + len)) % n
    BY <1>1, <1>3, <1>5, <1>9, <2>1
  <2> QED BY <1>4, <1>5, <1>7, <1>8, <2>1, <2>2 DEF Frame
<1>13. Positions(a)
  <2> SUFFICES ASSUME NEW i \in 0..(n - 1)
               PROVE  IF i < z + len THEN At(a, i) \in Items ELSE At(a, i) = Empty
    BY <1>4 DEF Positions
  <2>1. CASE i < len
    <3>1. i + 1 \in 1..len /\ i < z + len
      BY <1>1, <1>5, <2>1
    <3> QED BY <1>1, <1>11, <2>1, <3>1
  <2>2. CASE ~(i < len)
    <3>1. i - len \in 0..(n - 1) /\ (i - len < z <=> i < z + len)
      BY <1>1, <1>5, <2>2
    <3> QED BY <1>6, <1>11, <2>2, <3>1
  <2> QED BY <2>1, <2>2
<1>14. RingInv(a)
  BY <1>12, <1>13, ShapeByPosition
<1>15. ToArray(a) = items \o ToArray(r)
  <2> DEFINE s == ToArray(r)
             c == items \o s
  <2>1. s \in Seq(Items) /\ Len(s) = z /\ \A i \in 1..z : s[i] = b[(h + (i - 1)) % n]
    BY <1>3, ArrayOfRing DEF At, z, b, h, n
  <2> HIDE DEF s
  <2>2. c \in Seq(Items) /\ Len(c) = len + z
         /\ \A i \in 1..(len + z) : c[i] = IF i <= len THEN items[i] ELSE s[i - len]
    BY <2>1, ConcatProperties DEF len
  <2>3. ToArray(a) \in Seq(Items) /\ Len(ToArray(a)) = z + len
         /\ \A i \in 1..(z + len) : ToArray(a)[i] = At(a, i - 1)
    BY <1>4, <1>14, ArrayOfRing
  <2>4. z + len = len + z
    BY <1>1, <1>5
  <2> HIDE DEF c
  <2>5. ASSUME NEW i \in 1..(len + z) PROVE ToArray(a)[i] = c[i]
    <3>1. i - 1 \in 0..(n - 1)
      BY <1>1, <1>3, <1>5
    <3>2. CASE i <= len
      <4>1. i - 1 < len /\ (i - 1) + 1 = i
        BY <1>1, <3>2
      <4>2. At(a, i - 1) = items[i]
        BY <1>11, <3>1, <4>1
      <4> QED BY <2>2, <2>3, <2>4, <3>2, <4>2
    <3>3. CASE ~(i <= len)
      <4>1. ~(i - 1 < len) /\ (i - 1) - len = (i - len) - 1 /\ i - len \in 1..z
        BY <1>1, <1>5, <3>3
      <4>2. At(a, i - 1) = b[(h + ((i - len) - 1)) % n]
        BY <1>11, <3>1, <4>1
      <4>3. s[i - len] = b[(h + ((i - len) - 1)) % n]
        BY <2>1, <4>1
      <4> QED BY <2>2, <2>3, <2>4, <3>3, <4>2, <4>3
    <3> QED BY <3>2, <3>3
  <2>6. ToArray(a) = c
    BY <2>2, <2>3, <2>4, <2>5, SeqEqual
  <2> QED BY <2>6 DEF c, s
<1> QED BY <1>14, <1>15 DEF a

(* The sequence s without its i-th item.                                   *)
Without(s, i) == [j \in 1..(Len(s) - 1) |-> IF j < i THEN s[j] ELSE s[j + 1]]

(* shift takes the first item and clears its slot.                         *)
LEMMA ShiftSound ==
  ASSUME NEW r, RingInv(r), r.size > 0
  PROVE  LET a == AfterShift(r)
         IN  RingInv(a) /\ ToArray(a) = Without(ToArray(r), 1)
<1> DEFINE a  == AfterShift(r)
           n  == r.capacity
           h  == r.head
           z  == r.size
           b  == r.buffer
           f  == (h + 1) % n
           w  == [b EXCEPT ![h] = Empty]
           wt == r.totalWeight - Weight[At(r, 0)]
<1>1. /\ n \in Capacities /\ n \in Nat \ {0} /\ h \in 0..(n - 1) /\ z \in 1..n
      /\ r.tail = (h + z) % n /\ DOMAIN b = 0..(n - 1)
  BY RingConstants DEF RingInv
<1>2. \A i \in 0..(n - 1) : IF i < z THEN b[(h + i) % n] \in Items ELSE b[(h + i) % n] = Empty
  BY PositionsOfShape DEF Positions, At
<1>3. /\ IsRecord(a) /\ a.capacity = n /\ a.buffer = w /\ a.head = f /\ a.tail = r.tail
      /\ a.size = z - 1
  <2>1. IsRecord(r)
    BY DEF RingInv, IsRecord
  <2> DEFINE size == z - 1
  <2>2. a = [r EXCEPT !.buffer = w, !.head = f, !.size = size, !.totalWeight = wt]
    BY DEF AfterShift
  <2> HIDE DEF a, w, f, wt, size
  <2>3. /\ IsRecord(a) /\ a.capacity = r.capacity /\ a.buffer = w /\ a.head = f
        /\ a.tail = r.tail /\ a.size = size
    BY <2>1, <2>2 DEF IsRecord
  <2> QED BY <2>3 DEF size
<1> HIDE DEF a, n, h, z, b
<1>4. f \in 0..(n - 1)
  BY <1>1
<1>5. \A j \in 0..(n - 1) : (f + j) % n = (h + (1 + j)) % n
  <2> SUFFICES ASSUME NEW j \in 0..(n - 1) PROVE (f + j) % n = (h + (1 + j)) % n
    OBVIOUS
  <2>1. 1 \in 0..n /\ j \in 0..n /\ 1 + j <= n
    BY <1>1
  <2> QED BY <1>1, <2>1, Advance
<1> HIDE DEF f
<1>6. DOMAIN w = 0..(n - 1)
  BY <1>1
<1>7. ASSUME NEW i \in 0..(n - 1)
      PROVE  w[(f + i) % n] = IF i = n - 1 THEN Empty ELSE b[(h + (i + 1)) % n]
  <2>1. CASE i = n - 1
    <3>1. (h + (1 + i)) % n = h
      <4>1. h + (1 + i) = h + n
        BY <1>1, <2>1
      <4>2. (h + n) % n = h
        BY <1>1
      <4> QED BY <4>1, <4>2
    <3>2. (f + i) % n = h
      BY <1>5, <3>1
    <3> QED BY <1>1, <2>1, <3>2
  <2>2. CASE i # n - 1
    <3> DEFINE slot == (h + (i + 1)) % n
    <3>1. i + 1 \in 0..(n - 1) /\ 1 + i = i + 1
      BY <1>1, <2>2
    <3>2. slot = IF h + (i + 1) < n THEN h + (i + 1) ELSE h + (i + 1) - n
      BY <1>1, <3>1
    <3>3. (f + i) % n = slot
      BY <1>5, <3>1
    <3> HIDE DEF slot
    <3>4. slot \in 0..(n - 1) /\ slot # h
      BY <1>1, <3>1, <3>2
    <3>5. w[slot] = b[slot]
      BY <1>1, <3>4
    <3> HIDE DEF w
    <3> QED BY <2>2, <3>3, <3>5 DEF slot
  <2> QED BY <2>1, <2>2
<1> HIDE DEF w
<1>8. \A i \in 0..(n - 1) : At(a, i) = IF i = n - 1 THEN Empty ELSE b[(h + (i + 1)) % n]
  BY <1>3, <1>7 DEF At
<1>9. Frame(a)
  <2>1. z - 1 \in 0..n /\ z - 1 \in 0..(n - 1) /\ 1 + (z - 1) = z
    BY <1>1
  <2>2. r.tail = (f + (z - 1)) % n
    BY <1>1, <1>5, <2>1
  <2> QED BY <1>1, <1>3, <1>4, <1>6, <2>1, <2>2 DEF Frame
<1>10. Positions(a)
  <2> SUFFICES ASSUME NEW i \in 0..(n - 1)
               PROVE  IF i < z - 1 THEN At(a, i) \in Items ELSE At(a, i) = Empty
    BY <1>3 DEF Positions
  <2>1. CASE i = n - 1
    BY <1>1, <1>8, <2>1
  <2>2. CASE i # n - 1
    <3>1. i + 1 \in 0..(n - 1) /\ (i + 1 < z <=> i < z - 1)
      BY <1>1, <2>2
    <3> QED BY <1>2, <1>8, <2>2, <3>1
  <2> QED BY <2>1, <2>2
<1>11. RingInv(a)
  BY <1>9, <1>10, ShapeByPosition
<1>12. ToArray(a) = Without(ToArray(r), 1)
  <2>1. Len(ToArray(r)) = z /\ \A i \in 1..z : ToArray(r)[i] = b[(h + (i - 1)) % n]
    BY ArrayOfRing DEF At, z, b, h, n
  <2>2. ASSUME NEW j \in 1..(z - 1)
        PROVE  At(a, j - 1) = (IF j < 1 THEN ToArray(r)[j] ELSE ToArray(r)[j + 1])
    <3>1. /\ j - 1 \in 0..(n - 1) /\ j - 1 # n - 1 /\ j + 1 \in 1..z /\ ~(j < 1)
          /\ (j - 1) + 1 = (j + 1) - 1
      BY <1>1
    <3>2. At(a, j - 1) = b[(h + ((j + 1) - 1)) % n]
      BY <1>8, <3>1
    <3>3. ToArray(r)[j + 1] = b[(h + ((j + 1) - 1)) % n]
      BY <2>1, <3>1
    <3> QED BY <3>1, <3>2, <3>3
  <2> QED BY <1>3, <2>1, <2>2 DEF ToArray, Without
<1> QED BY <1>11, <1>12 DEF a

(* removeAt closes the gap and clears the slot of the last item.           *)
LEMMA RemoveAtSound ==
  ASSUME NEW r, RingInv(r), NEW x \in 0..(r.size - 1)
  PROVE  LET a == AfterRemoveAt(r, x)
         IN  RingInv(a) /\ ToArray(a) = Without(ToArray(r), x + 1)
<1> DEFINE a    == AfterRemoveAt(r, x)
           n    == r.capacity
           h    == r.head
           z    == r.size
           b    == r.buffer
           last == (r.head + r.size - 1) % r.capacity
           slid == [k \in 0..(n - 1) |->
                      LET d == (k - h) % n
                      IN  IF x <= d /\ d < z - 1 THEN b[(k + 1) % n] ELSE b[k]]
           w    == [slid EXCEPT ![last] = Empty]
           wt   == r.totalWeight - Weight[At(r, x)]
<1>1. /\ n \in Capacities /\ n \in Nat \ {0} /\ h \in 0..(n - 1) /\ z \in 1..n
      /\ x \in 0..(z - 1) /\ DOMAIN b = 0..(n - 1)
  BY RingConstants DEF RingInv
<1>2. \A i \in 0..(n - 1) : IF i < z THEN b[(h + i) % n] \in Items ELSE b[(h + i) % n] = Empty
  BY PositionsOfShape DEF Positions, At
<1>3. /\ IsRecord(a) /\ a.capacity = n /\ a.buffer = w /\ a.head = h /\ a.tail = last
      /\ a.size = z - 1
  <2>1. IsRecord(r)
    BY DEF RingInv, IsRecord
  <2> DEFINE size == z - 1
  <2>2. a = [r EXCEPT !.buffer = w, !.tail = last, !.size = size, !.totalWeight = wt]
    BY DEF AfterRemoveAt
  <2> HIDE DEF a, w, last, wt, size
  <2>3. /\ IsRecord(a) /\ a.capacity = r.capacity /\ a.buffer = w /\ a.head = r.head
        /\ a.tail = last /\ a.size = size
    BY <2>1, <2>2 DEF IsRecord
  <2> QED BY <2>3 DEF size
<1>4. last = (h + (z - 1)) % n
  <2>1. h + z - 1 = h + (z - 1)
    BY <1>1
  <2> QED BY <2>1
<1> HIDE DEF a, n, h, z, b, last
<1>5. z - 1 \in 0..(n - 1) /\ last \in 0..(n - 1)
  <2>1. z - 1 \in 0..(n - 1)
    BY <1>1
  <2> QED BY <1>1, <1>4, <2>1, SlotAt
<1>6. DOMAIN w = 0..(n - 1)
  OBVIOUS
<1>7. ASSUME NEW i \in 0..(n - 1)
      PROVE  w[(h + i) % n] = IF i = z - 1 THEN Empty
                              ELSE IF x <= i /\ i < z - 1 THEN b[(h + (i + 1)) % n]
                              ELSE b[(h + i) % n]
  <2> DEFINE slot == (h + i) % n
  <2>1. slot \in 0..(n - 1) /\ (slot - h) % n = i
    BY <1>1, SlotAt
  <2>2. (last - h) % n = z - 1
    BY <1>1, <1>4, <1>5, SlotAt
  <2>3. slot = last <=> i = z - 1
    <3>1. slot = last => i = z - 1
      <4> HIDE DEF slot
      <4> QED BY <2>1, <2>2
    <3>2. i = z - 1 => slot = last
      BY <1>4
    <3> QED BY <3>1, <3>2
  <2>4. (slot + 1) % n = (h + (i + 1)) % n
    <3>1. i \in 0..n /\ 1 \in 0..n /\ i + 1 <= n
      BY <1>1
    <3> QED BY <1>1, <3>1, Advance
  <2>5. slid[slot] = IF x <= i /\ i < z - 1 THEN b[(slot + 1) % n] ELSE b[slot]
    <3> HIDE DEF slot
    <3> QED BY <2>1
  <2>6. DOMAIN slid = 0..(n - 1)
    OBVIOUS
  <2>7. w[slot] = IF slot = last THEN Empty ELSE slid[slot]
    <3> HIDE DEF slot, slid
    <3> QED BY <1>5, <2>1, <2>6
  <2> HIDE DEF w, slid
  <2>8. CASE i = z - 1
    BY <2>3, <2>7, <2>8
  <2>9. CASE i # z - 1 /\ x <= i /\ i < z - 1
    <3>1. w[slot] = b[(slot + 1) % n]
      <4> HIDE DEF slot
      <4> QED BY <2>3, <2>5, <2>7, <2>9
    <3> QED BY <2>4, <2>9, <3>1
  <2>10. CASE i # z - 1 /\ ~(x <= i /\ i < z - 1)
    <3>1. w[slot] = b[slot]
      <4> HIDE DEF slot
      <4> QED BY <2>3, <2>5, <2>7, <2>10
    <3> QED BY <2>10, <3>1
  <2> QED BY <2>8, <2>9, <2>10
<1> HIDE DEF w
<1>8. \A i \in 0..(n - 1) : At(a, i) = IF i = z - 1 THEN Empty
                                       ELSE IF x <= i /\ i < z - 1 THEN b[(h + (i + 1)) % n]
                                       ELSE b[(h + i) % n]
  BY <1>3, <1>7 DEF At
<1>9. Frame(a)
  <2>1. z - 1 \in 0..n
    BY <1>1
  <2> QED BY <1>1, <1>3, <1>4, <1>6, <2>1 DEF Frame
<1>10. Positions(a)
  <2> SUFFICES ASSUME NEW i \in 0..(n - 1)
               PROVE  IF i < z - 1 THEN At(a, i) \in Items ELSE At(a, i) = Empty
    BY <1>3 DEF Positions
  <2>1. CASE i = z - 1
    BY <1>1, <1>8, <2>1
  <2>2. CASE x <= i /\ i < z - 1
    <3>1. i + 1 \in 0..(n - 1) /\ i + 1 < z /\ i # z - 1
      BY <1>1, <2>2
    <3>2. At(a, i) = b[(h + (i + 1)) % n]
      BY <1>8, <2>2, <3>1
    <3> QED BY <1>2, <2>2, <3>1, <3>2
  <2>3. CASE i # z - 1 /\ ~(x <= i /\ i < z - 1)
    <3>1. At(a, i) = b[(h + i) % n]
      BY <1>8, <2>3
    <3>2. i < z - 1 <=> i < z
      BY <1>1, <2>3
    <3> QED BY <1>2, <3>1, <3>2
  <2> QED BY <2>1, <2>2, <2>3
<1>11. RingInv(a)
  BY <1>9, <1>10, ShapeByPosition
<1>12. ToArray(a) = Without(ToArray(r), x + 1)
  <2>1. Len(ToArray(r)) = z /\ \A i \in 1..z : ToArray(r)[i] = b[(h + (i - 1)) % n]
    BY ArrayOfRing DEF At, z, b, h, n
  <2>2. ASSUME NEW j \in 1..(z - 1)
        PROVE  At(a, j - 1) = (IF j < x + 1 THEN ToArray(r)[j] ELSE ToArray(r)[j + 1])
    <3>1. /\ j - 1 \in 0..(n - 1) /\ j - 1 # z - 1 /\ j + 1 \in 1..z /\ j \in 1..z
          /\ (j - 1) + 1 = (j + 1) - 1 /\ (x <= j - 1 <=> ~(j < x + 1)) /\ j - 1 < z - 1
      BY <1>1
    <3>2. CASE j < x + 1
      <4>1. At(a, j - 1) = b[(h + (j - 1)) % n]
        BY <1>8, <3>1, <3>2
      <4> QED BY <2>1, <3>1, <3>2, <4>1
    <3>3. CASE ~(j < x + 1)
      <4>1. At(a, j - 1) = b[(h + ((j + 1) - 1)) % n]
        BY <1>8, <3>1, <3>3
      <4>2. ToArray(r)[j + 1] = b[(h + ((j + 1) - 1)) % n]
        BY <2>1, <3>1
      <4> QED BY <3>3, <4>1, <4>2
    <3> QED BY <3>2, <3>3
  <2> QED BY <1>3, <2>1, <2>2 DEF ToArray, Without
<1> QED BY <1>11, <1>12 DEF a

(* clear and dispose leave an empty ring.                                  *)
LEMMA ClearSound ==
  ASSUME NEW r, RingInv(r)
  PROVE  LET a == AfterClear(r)
         IN  RingInv(a) /\ ToArray(a) = << >> /\ a.size = 0 /\ a.capacity = r.capacity
<1> DEFINE a == AfterClear(r)
           n == r.capacity
           w == [k \in 0..(n - 1) |-> IF (k - r.head) % n < r.size THEN Empty ELSE r.buffer[k]]
<1>1. CASE r.size = 0
  BY <1>1 DEF AfterClear, ToArray
<1>2. CASE r.size # 0
  <2>1. n \in Capacities /\ n \in Nat \ {0}
    BY RingConstants DEF RingInv
  <2>2. \A k \in 0..(n - 1) : w[k] = Empty
    BY DEF RingInv
  <2>3. /\ IsRecord(a) /\ a.capacity = n /\ a.buffer = w /\ a.head = 0 /\ a.tail = 0
        /\ a.size = 0
    <3>1. IsRecord(r)
      BY DEF RingInv, IsRecord
    <3>2. a = [r EXCEPT !.buffer = w, !.head = 0, !.tail = 0, !.size = 0, !.totalWeight = 0]
      BY <1>2 DEF AfterClear
    <3> HIDE DEF a, w
    <3> QED BY <3>1, <3>2 DEF IsRecord
  <2>4. DOMAIN w = 0..(n - 1)
    OBVIOUS
  <2> HIDE DEF a, w, n
  <2>5. 0 % n = 0 /\ 0 \in 0..(n - 1)
    BY <2>1
  <2>6. Frame(a)
    BY <2>1, <2>3, <2>4, <2>5 DEF Frame
  <2>7. Positions(a)
    <3> SUFFICES ASSUME NEW i \in 0..(n - 1) PROVE At(a, i) = Empty
      BY <2>1, <2>3 DEF Positions
    <3>1. (0 + i) % n \in 0..(n - 1)
      BY <2>1
    <3> QED BY <2>2, <2>3, <3>1 DEF At
  <2> QED BY <2>3, <2>6, <2>7, ShapeByPosition DEF ToArray, a, n
<1> QED BY <1>1, <1>2

(* dispose, which takes a fresh buffer after clear.                        *)
LEMMA DisposeSound ==
  ASSUME NEW r, RingInv(r)
  PROVE  LET a == AfterDispose(r) IN RingInv(a) /\ ToArray(a) = << >>
<1> DEFINE a == AfterDispose(r)
           c == AfterClear(r)
           n == r.capacity
           w == [k \in 0..(n - 1) |-> Empty]
<1>1. n \in Capacities /\ n \in Nat \ {0}
  BY RingConstants DEF RingInv
<1>2. IsRecord(c) /\ c.size = 0 /\ c.capacity = n
  BY ClearSound DEF RingInv, IsRecord
<1>3. a = [c EXCEPT !.buffer = w, !.head = 0, !.tail = 0]
  BY DEF AfterDispose
<1>4. DOMAIN w = 0..(n - 1) /\ \A k \in 0..(n - 1) : w[k] = Empty
  OBVIOUS
<1> HIDE DEF a, c, w, n
<1>5. /\ IsRecord(a) /\ a.capacity = n /\ a.buffer = w /\ a.head = 0 /\ a.tail = 0
      /\ a.size = 0
  BY <1>2, <1>3 DEF IsRecord
<1>6. 0 % n = 0 /\ 0 \in 0..(n - 1)
  BY <1>1
<1>7. Frame(a)
  BY <1>1, <1>4, <1>5, <1>6 DEF Frame
<1>8. Positions(a)
  <2> SUFFICES ASSUME NEW i \in 0..(n - 1) PROVE At(a, i) = Empty
    BY <1>1, <1>5 DEF Positions
  <2>1. (0 + i) % n \in 0..(n - 1)
    BY <1>1
  <2> QED BY <1>4, <1>5, <2>1 DEF At
<1> QED BY <1>5, <1>7, <1>8, ShapeByPosition DEF ToArray, a

(* shrink changes no item.                                                 *)
LEMMA ShrinkSound ==
  ASSUME NEW r, RingInv(r), NEW minimum \in Nat, Fits(minimum), Fits(2)
  PROVE  LET a == AfterShrink(r, minimum) IN RingInv(a) /\ ToArray(a) = ToArray(r)
<1> DEFINE want == IF r.size > minimum THEN r.size ELSE minimum
           need == IF want < 2 THEN 2 ELSE want
           cap  == RoundUp(need)
<1>1. r.size \in Nat /\ r.size <= r.capacity /\ r.capacity \in Capacities
  BY RingConstants DEF RingInv
<1>2. need \in Nat /\ r.size <= need
  BY <1>1
<1>3. Fits(need)
  BY <1>1 DEF Fits
<1> HIDE DEF need
<1>4. cap \in Capacities /\ need <= cap
  BY <1>2, <1>3, RoundUpFits
<1>5. r.size <= cap
  <2> HIDE DEF cap
  <2>1. cap \in Nat
    BY <1>4, RingConstants
  <2> QED BY <1>1, <1>2, <1>4, <2>1
<1>6. AfterShrink(r, minimum) = IF cap >= r.capacity THEN r ELSE Relocated(r, cap)
  BY DEF AfterShrink, need
<1> HIDE DEF cap
<1>7. RingInv(Relocated(r, cap)) /\ ToArray(Relocated(r, cap)) = ToArray(r)
  BY <1>4, <1>5, RelocatedSound
<1> QED BY <1>6, <1>7

(* Of finitely many numbers one is the first of the largest: the last of   *)
(* those that exceed everything before them.                               *)
LEMMA FirstOfLargest ==
  ASSUME NEW z \in Nat \ {0}, NEW p \in [0..(z - 1) -> Int]
  PROVE  \E i \in 0..(z - 1) : /\ \A j \in 0..(i - 1) : p[j] < p[i]
                              /\ \A j \in i..(z - 1) : p[j] <= p[i]
<1> DEFINE T == {i \in 0..(z - 1) : \A j \in 0..(i - 1) : p[j] < p[i]}
<1>1. T \subseteq 0..(z - 1) /\ 0 \in T
  OBVIOUS
<1>2. PICK i \in T : \A d \in T : d <= i
  <2> HIDE DEF T
  <2>1. z - 1 \in Nat
    OBVIOUS
  <2> QED BY <1>1, <2>1, GreatestExists
<1>3. i \in 0..(z - 1) /\ \A j \in 0..(i - 1) : p[j] < p[i]
  BY <1>2
<1>4. ASSUME NEW e \in i..(z - 1), ~(p[e] <= p[i]) PROVE FALSE
  <2> DEFINE U == {j \in i..(z - 1) : p[j] > p[i]}
  <2>1. U \subseteq Nat /\ U # {}
    BY <1>3, <1>4
  <2>2. PICK j \in U : \A d \in U : j <= d
    <3> HIDE DEF U
    <3> QED BY <2>1, LeastExists
  <2>3. j \in 0..(z - 1) /\ i < j /\ p[j] > p[i]
    BY <1>3, <2>2
  <2>4. ASSUME NEW k \in 0..(j - 1) PROVE p[k] < p[j]
    <3>1. k \in 0..(z - 1) /\ p[k] \in Int /\ p[i] \in Int /\ p[j] \in Int
      BY <1>3, <2>3
    <3>2. CASE k < i
      BY <1>3, <2>3, <3>1, <3>2
    <3>3. CASE k >= i
      <4>1. k \in i..(z - 1) /\ k \notin U
        BY <1>3, <2>2, <2>3, <3>1, <3>3
      <4>2. p[k] <= p[i]
        BY <3>1, <4>1
      <4> QED BY <2>3, <3>1, <4>2
    <3> QED BY <1>3, <3>1, <3>2, <3>3
  <2>5. j \in T
    BY <2>3, <2>4
  <2>6. j <= i
    <3> HIDE DEF T
    <3> QED BY <1>2, <2>5
  <2> HIDE DEF T, U
  <2>7. i \in Int /\ j \in Int BY <1>3, <2>3
  <2> QED BY <2>3, <2>6, <2>7
<1> QED BY <1>3, <1>4

-----------------------------------------------------------------------------
\* Totals: total[n] is the weight of the first n items of s.
AddsUp(s, m, total) ==
  /\ total[0] = 0
  /\ \A n \in 1..m : total[n] = total[n - 1] + Weight[s[n]]

IsTotal(s, m, total) == total \in [0..m -> Nat] /\ AddsUp(s, m, total)

(* Totals exist up to every position: otherwise take the first position up *)
(* to which there are none, and extend those before it.                    *)
LEMMA TotalExists ==
  ASSUME NEW s \in Seq(Items), NEW m \in 0..Len(s)
  PROVE  \E total : IsTotal(s, m, total)
<1> DEFINE T == {n \in 0..Len(s) : ~\E total : IsTotal(s, n, total)}
<1>1. T \subseteq Nat
  OBVIOUS
<1>2. SUFFICES ASSUME T # {} PROVE FALSE
  OBVIOUS
<1>3. PICK n \in T : \A d \in T : n <= d
  <2> HIDE DEF T
  <2> QED BY <1>1, <1>2, LeastExists
<1>4. n \in 0..Len(s) /\ Len(s) \in Nat
  BY <1>3
<1>5. n # 0
  <2>1. IsTotal(s, 0, [i \in 0..0 |-> 0])
    BY DEF IsTotal, AddsUp
  <2> QED BY <1>3, <2>1
<1>6. PICK before : IsTotal(s, n - 1, before)
  BY <1>3, <1>4, <1>5
<1> DEFINE total == [i \in 0..n |-> IF i = n THEN before[n - 1] + Weight[s[n]] ELSE before[i]]
<1>7. Weight[s[n]] \in Nat
  BY <1>4, <1>5, RingConstants
<1>8. IsTotal(s, n, total)
  BY <1>4, <1>5, <1>6, <1>7 DEF IsTotal, AddsUp
<1> QED BY <1>3, <1>8

(* Totals are determined by the items.                                     *)
LEMMA TotalIsUnique ==
  ASSUME NEW s \in Seq(Items), NEW m \in Nat, NEW t, NEW u,
         AddsUp(s, m, t), AddsUp(s, m, u)
  PROVE  \A n \in 0..m : t[n] = u[n]
<1> DEFINE T == {n \in 0..m : t[n] # u[n]}
<1>1. T \subseteq Nat
  OBVIOUS
<1>2. SUFFICES ASSUME T # {} PROVE FALSE
  OBVIOUS
<1>3. PICK n \in T : \A d \in T : n <= d
  <2> HIDE DEF T
  <2> QED BY <1>1, <1>2, LeastExists
<1>4. n \in 1..m
  BY <1>3 DEF IsTotal, AddsUp
<1>5. t[n - 1] = u[n - 1]
  BY <1>3, <1>4
<1> QED BY <1>3, <1>4, <1>5 DEF IsTotal, AddsUp

(* WeightOf is the last total.                                             *)
LEMMA WeightIsTotal ==
  ASSUME NEW s \in Seq(Items)
  PROVE  \E total : IsTotal(s, Len(s), total) /\ WeightOf(s) = total[Len(s)]
<1> DEFINE upTo == CHOOSE f : f = [n \in 0..Len(s) |-> IF n = 0 THEN 0 ELSE f[n - 1] + Weight[s[n]]]
<1>1. PICK total : IsTotal(s, Len(s), total)
  BY TotalExists
<1>2. total = [n \in 0..Len(s) |-> IF n = 0 THEN 0 ELSE total[n - 1] + Weight[s[n]]]
  BY <1>1 DEF IsTotal, AddsUp
<1>3. WeightOf(s) = upTo[Len(s)]
  BY DEF WeightOf
<1>4. upTo = [n \in 0..Len(s) |-> IF n = 0 THEN 0 ELSE upTo[n - 1] + Weight[s[n]]]
  BY <1>2
<1> HIDE DEF upTo
<1>5. AddsUp(s, Len(s), upTo)
  <2>1. Len(s) \in Nat
    OBVIOUS
  <2>2. upTo[0] = 0
    BY <1>4, <2>1
  <2>3. ASSUME NEW n \in 1..Len(s) PROVE upTo[n] = upTo[n - 1] + Weight[s[n]]
    <3>1. n \in 0..Len(s) /\ n # 0
      OBVIOUS
    <3> QED BY <1>4, <3>1
  <2> QED BY <2>2, <2>3 DEF AddsUp
<1>6. upTo[Len(s)] = total[Len(s)]
  <2>1. Len(s) \in Nat /\ Len(s) \in 0..Len(s)
    OBVIOUS
  <2> QED BY <1>1, <1>5, <2>1, TotalIsUnique DEF IsTotal
<1> QED BY <1>1, <1>3, <1>6

(* Nothing weighs nothing.                                                 *)
LEMMA WeightOfNothing == WeightOf(<< >>) = 0
<1>1. << >> \in Seq(Items) /\ Len(<< >>) = 0
  OBVIOUS
<1> QED BY <1>1, WeightIsTotal DEF IsTotal, AddsUp

(* Weights add up.                                                         *)
LEMMA WeightOfConcat ==
  ASSUME NEW s \in Seq(Items), NEW t \in Seq(Items)
  PROVE  /\ WeightOf(s) \in Nat
         /\ WeightOf(s \o t) = WeightOf(s) + WeightOf(t)
<1> DEFINE m == Len(s)
           n == Len(t)
<1>1. /\ m \in Nat /\ n \in Nat /\ s \o t \in Seq(Items) /\ Len(s \o t) = m + n
      /\ \A i \in 1..m : (s \o t)[i] = s[i]
      /\ \A i \in 1..n : (s \o t)[m + i] = t[i]
  OBVIOUS
<1>2. PICK a : IsTotal(s, m, a) /\ WeightOf(s) = a[m]
  BY WeightIsTotal
<1>3. PICK b : IsTotal(t, n, b) /\ WeightOf(t) = b[n]
  BY WeightIsTotal
<1>4. PICK c : IsTotal(s \o t, m + n, c) /\ WeightOf(s \o t) = c[m + n]
  BY <1>1, WeightIsTotal
<1> DEFINE d == [i \in 0..(m + n) |-> IF i <= m THEN a[i] ELSE a[m] + b[i - m]]
           u == s \o t
<1> HIDE DEF m, n, u
<1>5. AddsUp(u, m + n, d)
  <2>1. a[m] \in Nat /\ (\A i \in 0..m : a[i] \in Nat) /\ \A i \in 0..n : b[i] \in Nat
    BY <1>1, <1>2, <1>3 DEF IsTotal
  <2>2. d[0] = 0
    BY <1>1, <1>2 DEF IsTotal, AddsUp
  <2>3. ASSUME NEW i \in 1..(m + n), i <= m PROVE d[i] = d[i - 1] + Weight[u[i]]
    <3>1. u[i] = s[i] /\ i \in 1..m
      BY <1>1, <2>3 DEF u
    <3>2. d[i] = a[i] /\ d[i - 1] = a[i - 1]
      BY <1>1, <2>3
    <3> QED BY <1>2, <3>1, <3>2 DEF IsTotal, AddsUp
  <2>4. ASSUME NEW i \in 1..(m + n), ~(i <= m) PROVE d[i] = d[i - 1] + Weight[u[i]]
    <3> DEFINE j == i - m
    <3>1. j \in 1..n /\ i = m + j
      BY <1>1, <2>4
    <3>2. u[i] = t[j]
      BY <1>1, <3>1 DEF u
    <3>3. d[i] = a[m] + b[j]
      BY <1>1, <2>4
    <3>4. d[i - 1] = a[m] + b[j - 1]
      <4>1. CASE i - 1 <= m
        <5>1. i - 1 = m /\ j - 1 = 0
          BY <1>1, <2>4, <4>1
        <5>2. d[i - 1] = a[m]
          BY <1>1, <5>1
        <5>3. b[0] = 0
          BY <1>3 DEF IsTotal, AddsUp
        <5> QED BY <2>1, <5>1, <5>2, <5>3
      <4>2. CASE ~(i - 1 <= m)
        <5>1. i - 1 \in 0..(m + n) /\ (i - 1) - m = j - 1
          BY <1>1, <4>2
        <5> QED BY <4>2, <5>1
      <4> QED BY <4>1, <4>2
    <3>5. b[j] = b[j - 1] + Weight[t[j]]
      BY <1>3, <3>1 DEF IsTotal, AddsUp
    <3>6. Weight[t[j]] \in Nat
      <4>1. t[j] \in Items
        BY <3>1 DEF n
      <4> QED BY <4>1, RingConstants
    <3>7. b[j] \in Nat /\ b[j - 1] \in Nat
      BY <1>1, <2>1, <3>1
    <3>8. (a[m] + b[j]) = (a[m] + b[j - 1]) + Weight[t[j]]
      <4> DEFINE x == a[m]  y == b[j]  z == b[j - 1]  w == Weight[t[j]]
      <4>1. x \in Nat /\ y \in Nat /\ z \in Nat /\ w \in Nat /\ y = z + w
        BY <2>1, <3>5, <3>6, <3>7
      <4> HIDE DEF x, y, z, w
      <4>2. x + y = (x + z) + w
        BY <4>1
      <4> QED BY <4>2 DEF x, y, z, w
    <3> HIDE DEF d, j
    <3> QED BY <3>2, <3>3, <3>4, <3>8
  <2> QED BY <2>2, <2>3, <2>4 DEF AddsUp
<1>6. d[m + n] = a[m] + b[n]
  <2>1. CASE n = 0
    <3>1. b[0] = 0 /\ a[m] \in Nat
      BY <1>1, <1>3, <1>2 DEF IsTotal, AddsUp
    <3> QED BY <1>1, <2>1, <3>1
  <2>2. CASE n # 0
    BY <1>1, <2>2
  <2> QED BY <2>1, <2>2
<1>7. c[m + n] = d[m + n]
  <2>1. m + n \in Nat /\ m + n \in 0..(m + n) /\ u \in Seq(Items)
    BY <1>1 DEF u
  <2> HIDE DEF d
  <2> QED BY <1>4, <1>5, <2>1, TotalIsUnique DEF IsTotal, u
<1>8. a[m] \in Nat
  BY <1>1, <1>2 DEF IsTotal
<1> QED BY <1>2, <1>3, <1>4, <1>6, <1>7, <1>8

(* One item weighs its weight.                                             *)
LEMMA WeightOfOne ==
  ASSUME NEW item \in Items
  PROVE  WeightOf(<< item >>) = Weight[item] /\ Weight[item] \in Nat
<1>1. << item >> \in Seq(Items) /\ Len(<< item >>) = 1 /\ << item >>[1] = item
  OBVIOUS
<1>2. PICK total : IsTotal(<< item >>, 1, total) /\ WeightOf(<< item >>) = total[1]
  BY <1>1, WeightIsTotal
<1>3. total[1] = 0 + Weight[item]
  BY <1>1, <1>2 DEF IsTotal, AddsUp
<1>4. Weight[item] \in Nat
  BY RingConstants
<1> QED BY <1>2, <1>3, <1>4

\* u is s, m long, and then t, n long.
Joins(u, s, m, t, n) ==
  /\ u \in Seq(Items) /\ Len(u) = m + n
  /\ \A i \in 1..m : u[i] = s[i]
  /\ \A i \in 1..n : u[m + i] = t[i]

(* Two sequences one after the other...                                    *)
LEMMA Joined ==
  ASSUME NEW s \in Seq(Items), NEW t \in Seq(Items)
  PROVE  Joins(s \o t, s, Len(s), t, Len(t))
BY DEF Joins

(* ... and two sequences with the same items.                              *)
LEMMA SameItems ==
  ASSUME NEW s \in Seq(Items), NEW t \in Seq(Items), Len(s) = Len(t),
         \A i \in 1..Len(s) : s[i] = t[i]
  PROVE  s = t
OBVIOUS

(* Without an item, a sequence weighs that much less.                      *)
LEMMA WeightOfWithout ==
  ASSUME NEW s \in Seq(Items), NEW i \in 1..Len(s)
  PROVE  WeightOf(Without(s, i)) = WeightOf(s) - Weight[s[i]]
<1> DEFINE m == Len(s)
           a == [j \in 1..(i - 1) |-> s[j]]
           b == [j \in 1..(m - i) |-> s[i + j]]
           o == << s[i] >>
           w == Without(s, i)
<1>1. m \in Nat /\ i \in 1..m /\ i - 1 \in Nat /\ m - i \in Nat /\ s[i] \in Items
  OBVIOUS
<1>2. a \in Seq(Items) /\ Len(a) = i - 1
  <2>1. a \in [1..(i - 1) -> Items]
    OBVIOUS
  <2> QED BY <1>1, <2>1
<1>3. b \in Seq(Items) /\ Len(b) = m - i
  <2>1. b \in [1..(m - i) -> Items]
    BY <1>1
  <2> QED BY <1>1, <2>1
<1>4. o \in Seq(Items) /\ Len(o) = 1 /\ o[1] = s[i]
  BY <1>1
<1>5. \A j \in 1..(i - 1) : a[j] = s[j]
  OBVIOUS
<1>6. \A j \in 1..(m - i) : b[j] = s[i + j]
  OBVIOUS
<1>7. w \in Seq(Items) /\ Len(w) = m - 1
  <2>1. m - 1 \in Nat
    BY <1>1
  <2>2. w \in [1..(m - 1) -> Items]
    BY <1>1 DEF Without
  <2> QED BY <2>1, <2>2
<1>8. \A j \in 1..(m - 1) : w[j] = IF j < i THEN s[j] ELSE s[j + 1]
  BY DEF Without
<1> DEFINE ab == a \o b
           ob == o \o b
           aob == a \o ob
<1>19. ab = a \o b /\ ob = o \o b /\ aob = a \o ob OBVIOUS
<1> HIDE DEF a, b, o, w, m, ab, ob, aob
<1> DEFINE p == i - 1  q == m - i  r == 1 + q
<1>18. p = i - 1 /\ q = m - i /\ r = 1 + q OBVIOUS
<1> HIDE DEF p, q, r
<1>20. p = Len(a) /\ q = Len(b) /\ 1 = Len(o) BY <1>2, <1>3, <1>4, <1>18
<1>9. /\ ab \in Seq(Items) /\ Len(ab) = p + q
      /\ \A j \in 1..p : ab[j] = a[j]
      /\ \A j \in 1..q : ab[p + j] = b[j]
  <2>1. Joins(ab, a, p, b, q) BY <1>2, <1>3, <1>19, <1>20, Joined
  <2> QED BY <2>1 DEF Joins
<1>10. /\ ob \in Seq(Items) /\ Len(ob) = r
       /\ ob[1] = s[i]
       /\ \A j \in 1..q : ob[1 + j] = b[j]
  <2>1. /\ ob \in Seq(Items) /\ Len(ob) = 1 + q
        /\ \A j \in 1..1 : ob[j] = o[j]
        /\ \A j \in 1..q : ob[1 + j] = b[j]
    <3>1. Joins(ob, o, 1, b, q) BY <1>3, <1>4, <1>19, <1>20, Joined
    <3> QED BY <3>1 DEF Joins
  <2> QED BY <1>4, <1>18, <2>1
<1>11. /\ aob \in Seq(Items) /\ Len(aob) = p + r
       /\ \A j \in 1..p : aob[j] = a[j]
       /\ \A j \in 1..r : aob[p + j] = ob[j]
  <2>1. Joins(aob, a, p, ob, r) BY <1>2, <1>10, <1>19, <1>20, Joined
  <2> QED BY <2>1 DEF Joins
<1>12. s = aob
  <2>1. Len(s) = m /\ Len(aob) = m
    BY <1>1, <1>11, <1>18 DEF m
  <2>2. ASSUME NEW j \in 1..m PROVE s[j] = aob[j]
    <3>1. CASE j < i
      <4>1. j \in 1..p
        BY <1>1, <1>18, <3>1
      <4> QED BY <1>5, <1>11, <1>18, <4>1
    <3>2. CASE j = i
      <4>1. 1 \in 1..r /\ p + 1 = j
        BY <1>1, <1>18, <3>2
      <4> QED BY <1>10, <1>11, <3>2, <4>1
    <3>3. CASE j > i
      <4> DEFINE k == j - i
      <4>1. /\ k \in 1..q /\ 1 + k \in 1..r
            /\ p + (1 + k) = j /\ i + k = j
        BY <1>1, <1>18, <3>3
      <4> HIDE DEF k
      <4>2. aob[j] = ob[1 + k]
        BY <1>11, <4>1
      <4>3. ob[1 + k] = b[k] /\ b[k] = s[i + k]
        BY <1>6, <1>10, <1>18, <4>1
      <4> QED BY <4>1, <4>2, <4>3
    <3> QED BY <1>1, <1>18, <3>1, <3>2, <3>3
  <2> QED BY <1>11, <2>1, <2>2, SameItems
<1>13. w = ab
  <2>1. Len(ab) = m - 1
    BY <1>1, <1>9, <1>18
  <2>2. ASSUME NEW j \in 1..(m - 1) PROVE w[j] = ab[j]
    <3>1. CASE j < i
      <4>1. j \in 1..p
        BY <1>1, <1>18, <3>1
      <4> QED BY <1>5, <1>8, <1>9, <1>18, <3>1, <4>1
    <3>2. CASE ~(j < i)
      <4> DEFINE k == j - p
      <4>1. k \in 1..q /\ p + k = j /\ i + k = j + 1
        BY <1>1, <1>18, <3>2
      <4> HIDE DEF k
      <4>2. ab[j] = b[k] /\ b[k] = s[i + k]
        BY <1>6, <1>9, <1>18, <4>1
      <4> QED BY <1>8, <3>2, <4>1, <4>2
    <3> QED BY <3>1, <3>2
  <2> QED BY <1>7, <1>9, <2>1, <2>2, SameItems
<1>14. /\ WeightOf(s) = WeightOf(a) + WeightOf(ob)
       /\ WeightOf(ob) = WeightOf(o) + WeightOf(b)
       /\ WeightOf(w) = WeightOf(a) + WeightOf(b)
  <2>1. WeightOf(aob) = WeightOf(a) + WeightOf(ob)
    BY <1>2, <1>10, WeightOfConcat DEF aob
  <2>2. WeightOf(ob) = WeightOf(o) + WeightOf(b)
    BY <1>3, <1>4, WeightOfConcat DEF ob
  <2>3. WeightOf(ab) = WeightOf(a) + WeightOf(b)
    BY <1>2, <1>3, WeightOfConcat DEF ab
  <2> QED BY <1>12, <1>13, <2>1, <2>2, <2>3
<1>15. WeightOf(o) = Weight[s[i]] /\ Weight[s[i]] \in Nat
  BY <1>1, WeightOfOne DEF o
<1>16. WeightOf(a) \in Nat /\ WeightOf(b) \in Nat
  BY <1>2, <1>3, WeightOfConcat
<1>17. WeightOf(w) = WeightOf(s) - Weight[s[i]]
  BY <1>14, <1>15, <1>16
<1> QED BY <1>17 DEF w

\* totalWeight is the weight of what is queued.
Weighed(r) == r.totalWeight = WeightOf(ToArray(r))

(* A fresh ring weighs nothing.                                            *)
LEMMA NewRingWeighed ==
  ASSUME NEW n \in Nat, Fits(n), Fits(2)
  PROVE  Weighed(NewRing(n))
<1>1. ToArray(NewRing(n)) = << >> BY NewRingSound
<1>2. NewRing(n).totalWeight = 0 BY DEF NewRing
<1> QED BY <1>1, <1>2, WeightOfNothing DEF Weighed

(* A copy into a larger buffer weighs the same.                            *)
LEMMA RelocatedWeighs ==
  ASSUME NEW r, RingInv(r), NEW cap
  PROVE  Relocated(r, cap).totalWeight = r.totalWeight
<1> DEFINE copy == [k \in 0..(cap - 1) |-> IF k < r.size THEN At(r, k) ELSE Empty]
           end  == r.size % cap
<1>1. IsRecord(r) BY DEF RingInv, IsRecord
<1>2. Relocated(r, cap) = [r EXCEPT !.capacity = cap, !.buffer = copy, !.head = 0, !.tail = end]
  BY DEF Relocated
<1> HIDE DEF copy, end
<1> QED BY <1>1, <1>2 DEF IsRecord

(* pushMany adds the weight of what it adds.                               *)
LEMMA PushManyWeighed ==
  ASSUME NEW r, RingInv(r), Weighed(r), NEW items \in Seq(Items), Fits(r.size + Len(items))
  PROVE  Weighed(AfterPushMany(r, items))
<1> DEFINE g   == Roomy(r, r.size + Len(items))
           a   == AfterPushMany(r, items)
           b   == Written(g, g.tail, items)
           t   == (g.tail + Len(items)) % g.capacity
           z   == g.size + Len(items)
           w   == g.totalWeight + WeightOf(items)
<1>1. ToArray(a) = ToArray(r) \o items /\ ToArray(r) \in Seq(Items)
  BY PushManySound, ArrayOfRing
<1>2. RingInv(g)
  <2>1. r.size \in Nat /\ r.size + Len(items) \in Nat /\ r.size <= r.size + Len(items)
    <3>1. r.size \in Nat /\ Len(items) \in Nat BY ArrayOfRing
    <3> DEFINE x == r.size  y == Len(items)
    <3> HIDE DEF x, y
    <3>2. x + y \in Nat /\ x <= x + y BY <3>1 DEF x, y
    <3> QED BY <3>1, <3>2 DEF x, y
  <2> QED BY <2>1, RoomySound
<1>3. g.totalWeight = r.totalWeight
  BY RelocatedWeighs DEF Roomy
<1>4. IsRecord(g) BY <1>2 DEF RingInv, IsRecord
<1>5. a = [g EXCEPT !.buffer = b, !.tail = t, !.size = z, !.totalWeight = w]
  BY DEF AfterPushMany
<1>6. w = r.totalWeight + WeightOf(items) BY <1>3
<1> HIDE DEF g, a, b, t, z, w
<1>7. a.totalWeight = w BY <1>4, <1>5 DEF IsRecord
<1>8. WeightOf(ToArray(r) \o items) = WeightOf(ToArray(r)) + WeightOf(items)
  BY <1>1, WeightOfConcat
<1>9. Weighed(a) BY <1>1, <1>6, <1>7, <1>8 DEF Weighed
<1> QED BY <1>9 DEF a

(* unshiftMany adds the weight of what it adds.                            *)
LEMMA UnshiftManyWeighed ==
  ASSUME NEW r, RingInv(r), Weighed(r), NEW items \in Seq(Items), Fits(r.size + Len(items))
  PROVE  Weighed(AfterUnshiftMany(r, items))
<1> DEFINE g   == Roomy(r, r.size + Len(items))
           a   == AfterUnshiftMany(r, items)
           s   == (g.head - Len(items)) % g.capacity
           b   == Written(g, s, items)
           z   == g.size + Len(items)
           w   == g.totalWeight + WeightOf(items)
<1>1. ToArray(a) = items \o ToArray(r) /\ ToArray(r) \in Seq(Items)
  BY UnshiftManySound, ArrayOfRing
<1>2. RingInv(g)
  <2>1. r.size \in Nat /\ r.size + Len(items) \in Nat /\ r.size <= r.size + Len(items)
    <3>1. r.size \in Nat /\ Len(items) \in Nat BY ArrayOfRing
    <3> DEFINE x == r.size  y == Len(items)
    <3> HIDE DEF x, y
    <3>2. x + y \in Nat /\ x <= x + y BY <3>1 DEF x, y
    <3> QED BY <3>1, <3>2 DEF x, y
  <2> QED BY <2>1, RoomySound
<1>3. g.totalWeight = r.totalWeight
  BY RelocatedWeighs DEF Roomy
<1>4. IsRecord(g) BY <1>2 DEF RingInv, IsRecord
<1>5. a = [g EXCEPT !.buffer = b, !.head = s, !.size = z, !.totalWeight = w]
  BY DEF AfterUnshiftMany
<1>6. w = r.totalWeight + WeightOf(items) BY <1>3
<1> HIDE DEF g, a, b, s, z, w
<1>7. a.totalWeight = w BY <1>4, <1>5 DEF IsRecord
<1>8. /\ WeightOf(items \o ToArray(r)) = WeightOf(items) + WeightOf(ToArray(r))
      /\ WeightOf(items) \in Nat /\ WeightOf(ToArray(r)) \in Nat
  BY <1>1, WeightOfConcat
<1>9. WeightOf(items \o ToArray(r)) = WeightOf(ToArray(r)) + WeightOf(items)
  <2> DEFINE x == WeightOf(items)  y == WeightOf(ToArray(r))
  <2>1. x \in Nat /\ y \in Nat /\ WeightOf(items \o ToArray(r)) = x + y BY <1>8
  <2> HIDE DEF x, y
  <2>2. x + y = y + x BY <2>1
  <2> QED BY <2>1, <2>2 DEF x, y
<1>10. Weighed(a) BY <1>1, <1>6, <1>7, <1>9 DEF Weighed
<1> QED BY <1>10 DEF a

(* shift takes off the weight of the item at the head.                     *)
LEMMA ShiftWeighed ==
  ASSUME NEW r, RingInv(r), Weighed(r), r.size > 0
  PROVE  Weighed(AfterShift(r))
<1> DEFINE a == AfterShift(r)
           b == [r.buffer EXCEPT ![r.head] = Empty]
           h == (r.head + 1) % r.capacity
           z == r.size - 1
           w == r.totalWeight - Weight[At(r, 0)]
<1>1. ToArray(a) = Without(ToArray(r), 1) BY ShiftSound
<1>2. /\ ToArray(r) \in Seq(Items) /\ Len(ToArray(r)) = r.size /\ 1 \in 1..r.size
      /\ ToArray(r)[1] = At(r, 0)
  BY ArrayOfRing
<1>3. IsRecord(r) BY DEF RingInv, IsRecord
<1>4. a = [r EXCEPT !.buffer = b, !.head = h, !.size = z, !.totalWeight = w]
  BY DEF AfterShift
<1>5. WeightOf(Without(ToArray(r), 1)) = WeightOf(ToArray(r)) - Weight[ToArray(r)[1]]
  BY <1>2, WeightOfWithout
<1>6. w = WeightOf(ToArray(r)) - Weight[ToArray(r)[1]] BY <1>2 DEF Weighed
<1> HIDE DEF a, b, h, z, w
<1>7. a.totalWeight = w BY <1>3, <1>4 DEF IsRecord
<1>8. Weighed(a) BY <1>1, <1>5, <1>6, <1>7 DEF Weighed
<1> QED BY <1>8 DEF a

(* removeAt takes off the weight of the item it removes.                   *)
LEMMA RemoveAtWeighed ==
  ASSUME NEW r, RingInv(r), Weighed(r), NEW x \in 0..(r.size - 1)
  PROVE  Weighed(AfterRemoveAt(r, x))
<1> DEFINE a    == AfterRemoveAt(r, x)
           last == (r.head + r.size - 1) % r.capacity
           slid == [k \in 0..(r.capacity - 1) |->
                      LET d == (k - r.head) % r.capacity
                      IN  IF x <= d /\ d < r.size - 1 THEN r.buffer[(k + 1) % r.capacity]
                          ELSE r.buffer[k]]
           b    == [slid EXCEPT ![last] = Empty]
           z    == r.size - 1
           w    == r.totalWeight - Weight[At(r, x)]
<1>1. ToArray(a) = Without(ToArray(r), x + 1) BY RemoveAtSound
<1>2. /\ ToArray(r) \in Seq(Items) /\ Len(ToArray(r)) = r.size /\ x + 1 \in 1..r.size
      /\ ToArray(r)[x + 1] = At(r, x)
  <2>1. /\ ToArray(r) \in Seq(Items) /\ Len(ToArray(r)) = r.size /\ r.size \in Nat
        /\ \A i \in 1..r.size : ToArray(r)[i] = At(r, i - 1)
    BY ArrayOfRing
  <2>2. x + 1 \in 1..r.size /\ (x + 1) - 1 = x BY <2>1
  <2> QED BY <2>1, <2>2
<1>3. IsRecord(r) BY DEF RingInv, IsRecord
<1>4. a = [r EXCEPT !.buffer = b, !.tail = last, !.size = z, !.totalWeight = w]
  BY DEF AfterRemoveAt
<1>5. WeightOf(Without(ToArray(r), x + 1)) = WeightOf(ToArray(r)) - Weight[ToArray(r)[x + 1]]
  BY <1>2, WeightOfWithout
<1>6. w = WeightOf(ToArray(r)) - Weight[ToArray(r)[x + 1]] BY <1>2 DEF Weighed
<1> HIDE DEF a, b, last, z, w
<1>7. a.totalWeight = w BY <1>3, <1>4 DEF IsRecord
<1>8. Weighed(a) BY <1>1, <1>5, <1>6, <1>7 DEF Weighed
<1> QED BY <1>8 DEF a

(* clear and dispose leave no weight, whatever early return clear took.    *)
LEMMA ClearWeighed ==
  ASSUME NEW r, RingInv(r), Weighed(r)
  PROVE  Weighed(AfterClear(r)) /\ Weighed(AfterDispose(r))
<1> DEFINE c == AfterClear(r)
           d == AfterDispose(r)
           n == r.capacity
           v == [k \in 0..(n - 1) |-> IF (k - r.head) % n < r.size THEN Empty ELSE r.buffer[k]]
           e == [k \in 0..(n - 1) |-> Empty]
<1>1. /\ RingInv(c) /\ ToArray(c) = << >>
      /\ RingInv(d) /\ ToArray(d) = << >>
  BY ClearSound, DisposeSound
<1>2. IsRecord(r) /\ IsRecord(c) BY <1>1 DEF RingInv, IsRecord
<1>3. c = IF r.size = 0 THEN r
          ELSE [r EXCEPT !.buffer = v, !.head = 0, !.tail = 0, !.size = 0, !.totalWeight = 0]
  BY DEF AfterClear
<1>4. d = [c EXCEPT !.buffer = e, !.head = 0, !.tail = 0]
  BY DEF AfterDispose
<1>5. r.size = 0 => r.totalWeight = 0
  BY WeightOfNothing DEF Weighed, ToArray
<1> HIDE DEF c, d, n, v, e
<1>6. c.totalWeight = 0
  BY <1>2, <1>3, <1>5 DEF IsRecord
<1>7. d.totalWeight = 0
  BY <1>2, <1>4, <1>6 DEF IsRecord
<1>8. Weighed(c) /\ Weighed(d) BY <1>1, <1>6, <1>7, WeightOfNothing DEF Weighed
<1> QED BY <1>8 DEF c, d

(* shrink changes no weight.                                               *)
LEMMA ShrinkWeighed ==
  ASSUME NEW r, RingInv(r), Weighed(r), NEW minimum \in Nat, Fits(minimum), Fits(2)
  PROVE  Weighed(AfterShrink(r, minimum))
<1>1. ToArray(AfterShrink(r, minimum)) = ToArray(r) BY ShrinkSound
<1>2. AfterShrink(r, minimum).totalWeight = r.totalWeight
  BY RelocatedWeighs DEF AfterShrink
<1> QED BY <1>1, <1>2 DEF Weighed

-----------------------------------------------------------------------------
(***************************************************************************)
(* What the steps of Queues do to the ring.                                *)
(***************************************************************************)
(* Room in the model means that some buffer is large enough.               *)
LEMMA RoomFits ==
  ASSUME RingInv(ring), NEW n \in Nat, Room(n)
  PROVE  Fits(ring.size + n)
<1>1. PICK c \in Capacities : MaxItems <= c
  BY QueuesConstants DEF Fits
<1>2. c \in Nat /\ MaxItems \in Nat /\ ring.size \in Nat
  BY RingConstants, QueuesConstants DEF RingInv
<1>3. ring.size + n <= c
  BY <1>1, <1>2 DEF Room
<1> QED BY <1>3 DEF Fits

(* fill and push add one of the batches: n copies of an item.              *)
LEMMA CopiesAreABatch ==
  ASSUME NEW item \in Items, NEW n \in 1..MaxItems
  PROVE  LET s == [i \in 1..n |-> item]
         IN  s \in Batches /\ s \in Seq(Items) /\ Len(s) = n
<1> DEFINE s == [i \in 1..n |-> item]
<1>1. n \in Nat
  BY QueuesConstants
<1>2. s \in Batches
  BY QueuesConstants
<1>3. s \in [1..n -> Items]
  OBVIOUS
<1>4. s \in Seq(Items) /\ Len(s) = n
  BY <1>1, <1>3
<1> QED BY <1>2, <1>4

(* shiftHighestPriority finds a position: the first of the best.           *)
LEMMA ForemostExists ==
  ASSUME RingInv(ring), ring.size > 0
  PROVE  LET f == Foremost(ring, Priority)
         IN  /\ f \in 0..(ring.size - 1)
             /\ \A j \in 0..(f - 1) : Priority[At(ring, j)] < Priority[At(ring, f)]
             /\ \A j \in f..(ring.size - 1) : Priority[At(ring, j)] <= Priority[At(ring, f)]
<1> DEFINE z == ring.size
           p == [j \in 0..(z - 1) |-> Priority[At(ring, j)]]
<1>1. z \in Nat \ {0} /\ z <= ring.capacity /\ ring.capacity \in Nat
  BY RingConstants DEF RingInv
<1>2. \A j \in 0..(z - 1) : Priority[At(ring, j)] \in Int
  <2>1. \A j \in 0..(z - 1) : At(ring, j) \in Items
    BY <1>1, PositionsOfShape DEF Positions
  <2> QED BY <2>1, QueuesConstants, HeapConstants
<1>3. p \in [0..(z - 1) -> Int]
  BY <1>2
<1>4. \E i \in 0..(z - 1) : /\ \A j \in 0..(i - 1) : p[j] < p[i]
                           /\ \A j \in i..(z - 1) : p[j] <= p[i]
  <2> HIDE DEF p, z
  <2> QED BY <1>1, <1>3, FirstOfLargest
<1>5. \E i \in 0..(z - 1) :
        /\ \A j \in 0..(i - 1) : Priority[At(ring, j)] < Priority[At(ring, i)]
        /\ \A j \in i..(z - 1) : Priority[At(ring, j)] <= Priority[At(ring, i)]
  <2>1. PICK i \in 0..(z - 1) : /\ \A j \in 0..(i - 1) : p[j] < p[i]
                                /\ \A j \in i..(z - 1) : p[j] <= p[i]
    BY <1>4
  <2>2. \A j \in 0..(z - 1) : p[j] = Priority[At(ring, j)]
    OBVIOUS
  <2>3. (\A j \in 0..(i - 1) : j \in 0..(z - 1)) /\ (\A j \in i..(z - 1) : j \in 0..(z - 1))
    BY <1>1, <2>1
  <2> HIDE DEF p
  <2> QED BY <2>1, <2>2, <2>3
<1> QED BY <1>5 DEF Foremost

(* What every step does to the ring: its shape is kept and its array       *)
(* changes as the abstract sequence may.                                   *)
LEMMA RingStep ==
  ASSUME RingInv(ring), Next
  PROVE  RingInv(ring') /\ (Sequence!Next \/ ToArray(ring)' = ToArray(ring))
<1> DEFINE s == ToArray(ring)
<1>1. s \in Seq(Items) /\ Len(s) = ring.size /\ ring.size \in Nat
  BY ArrayOfRing
<1>2. ASSUME NEW batch \in Batches, PushMany(batch)
      PROVE  RingInv(ring') /\ Sequence!Next
  <2>1. batch \in Seq(Items) /\ Fits(ring.size + Len(batch))
    BY <1>2, RoomFits, QueuesConstants DEF PushMany
  <2>2. RingInv(ring') /\ ToArray(ring)' = s \o batch
    BY <1>2, <2>1, PushManySound DEF PushMany
  <2> QED BY <2>2 DEF Sequence!Next, Sequence!Add
<1>3. ASSUME NEW batch \in Batches, UnshiftMany(batch)
      PROVE  RingInv(ring') /\ Sequence!Next
  <2>1. batch \in Seq(Items) /\ Fits(ring.size + Len(batch))
    BY <1>3, RoomFits, QueuesConstants DEF UnshiftMany
  <2>2. RingInv(ring') /\ ToArray(ring)' = batch \o s
    BY <1>3, <2>1, UnshiftManySound DEF UnshiftMany
  <2> QED BY <2>2 DEF Sequence!Next, Sequence!AddInFront
<1>4. ASSUME NEW item \in Items, NEW n \in 1..MaxItems, Fill(item, n)
      PROVE  RingInv(ring') /\ Sequence!Next
  <2> DEFINE batch == [i \in 1..n |-> item]
  <2>1. batch \in Batches /\ batch \in Seq(Items) /\ Len(batch) = n
    BY CopiesAreABatch
  <2>2. ring' = AfterPushMany(ring, batch) /\ Room(n) /\ n \in Nat
    BY <1>4, QueuesConstants DEF Fill, AfterFill
  <2> HIDE DEF batch
  <2>3. Fits(ring.size + Len(batch))
    BY <2>1, <2>2, RoomFits
  <2>4. RingInv(ring') /\ ToArray(ring)' = s \o batch
    BY <2>1, <2>2, <2>3, PushManySound
  <2> QED BY <2>1, <2>4 DEF Sequence!Next, Sequence!Add
<1>5. ASSUME NEW item \in Items, Push(item)
      PROVE  RingInv(ring') /\ Sequence!Next
  <2> DEFINE batch == << item >>
  <2>1. 1 \in 1..MaxItems
    BY <1>1, <1>5, QueuesConstants DEF Push, Room
  <2>2. batch = [i \in 1..1 |-> item]
    OBVIOUS
  <2>3. batch \in Batches /\ batch \in Seq(Items) /\ Len(batch) = 1
    BY <2>1, <2>2, CopiesAreABatch
  <2>4. ring' = AfterPushMany(ring, batch) /\ Room(1)
    BY <1>5 DEF Push, AfterPush
  <2> HIDE DEF batch
  <2>5. Fits(ring.size + Len(batch))
    BY <2>3, <2>4, RoomFits
  <2>6. RingInv(ring') /\ ToArray(ring)' = s \o batch
    BY <2>3, <2>4, <2>5, PushManySound
  <2> QED BY <2>3, <2>6 DEF Sequence!Next, Sequence!Add
<1>6. ASSUME NEW item \in Items, Unshift(item)
      PROVE  RingInv(ring') /\ Sequence!Next
  <2> DEFINE batch == << item >>
  <2>1. 1 \in 1..MaxItems
    BY <1>1, <1>6, QueuesConstants DEF Unshift, Room
  <2>2. batch = [i \in 1..1 |-> item]
    OBVIOUS
  <2>3. batch \in Batches /\ batch \in Seq(Items) /\ Len(batch) = 1
    BY <2>1, <2>2, CopiesAreABatch
  <2>4. ring' = AfterUnshiftMany(ring, batch) /\ Room(1)
    BY <1>6 DEF Unshift, AfterUnshift
  <2> HIDE DEF batch
  <2>5. Fits(ring.size + Len(batch))
    BY <2>3, <2>4, RoomFits
  <2>6. RingInv(ring') /\ ToArray(ring)' = batch \o s
    BY <2>3, <2>4, <2>5, UnshiftManySound
  <2> QED BY <2>3, <2>6 DEF Sequence!Next, Sequence!AddInFront
<1>7. CASE Shift
  <2>1. RingInv(ring') /\ ToArray(ring)' = Without(s, 1)
    BY <1>7, ShiftSound DEF Shift
  <2>2. 1 \in 1..Len(s)
    BY <1>1, <1>7 DEF Shift
  <2> QED BY <2>1, <2>2 DEF Sequence!Next, Sequence!Remove, Without
<1>8. ASSUME NEW i \in 0..(ring.size - 1), ring' = AfterRemoveAt(ring, i)
      PROVE  RingInv(ring') /\ Sequence!Next
  <2>1. RingInv(ring') /\ ToArray(ring)' = Without(s, i + 1)
    BY <1>8, RemoveAtSound
  <2>2. i + 1 \in 1..Len(s)
    BY <1>1
  <2> QED BY <2>1, <2>2 DEF Sequence!Next, Sequence!Remove, Without
<1>9. CASE ShiftHighestPriority
  <2> DEFINE i == Foremost(ring, Priority)
  <2>1. i \in 0..(ring.size - 1)
    BY <1>9, ForemostExists DEF ShiftHighestPriority
  <2> QED BY <1>8, <1>9, <2>1 DEF ShiftHighestPriority
<1>10. CASE Clear
  <2>1. RingInv(ring') /\ ToArray(ring)' = << >>
    BY <1>10, ClearSound DEF Clear
  <2> QED BY <2>1 DEF Sequence!Next, Sequence!Clear
<1>11. CASE Dispose
  <2>1. RingInv(ring') /\ ToArray(ring)' = << >>
    BY <1>11, DisposeSound DEF Dispose
  <2> QED BY <2>1 DEF Sequence!Next, Sequence!Clear
<1>12. ASSUME NEW minimum \in Minimums, Shrink(minimum)
       PROVE  RingInv(ring') /\ ToArray(ring)' = s
  BY <1>12, ShrinkSound, QueuesConstants DEF Shrink
<1>13. ASSUME NEW i \in 0..(ring.size - 1), RemoveAt(i) \/ DropLowest(i)
       PROVE  RingInv(ring') /\ Sequence!Next
  BY <1>8, <1>13 DEF RemoveAt, DropLowest
<1> QED BY <1>2, <1>3, <1>4, <1>5, <1>6, <1>7, <1>9, <1>10, <1>11, <1>12, <1>13 DEF Next

(* RingKeepsShape, for all constants.                                      *)
THEOREM ShapeKept == Spec => []RingKeepsShape
<1>1. Init => RingKeepsShape
  BY NewRingSound, QueuesConstants DEF Init, RingKeepsShape
<1>2. RingKeepsShape /\ [Next]_vars => RingKeepsShape'
  <2> SUFFICES ASSUME RingKeepsShape, [Next]_vars PROVE RingKeepsShape'
    OBVIOUS
  <2>1. CASE Next
    BY <2>1, RingStep DEF RingKeepsShape
  <2>2. CASE UNCHANGED vars
    BY <2>2 DEF vars, RingKeepsShape
  <2> QED BY <2>1, <2>2
<1> QED BY <1>1, <1>2, PTL DEF Spec

(* ImplementsDeque, for all constants: the ring is a plain sequence,       *)
(* whatever the position of its head and however often it is copied.       *)
THEOREM RingIsSequence == Spec => ImplementsDeque
<1>1. Init => Sequence!Init
  BY NewRingSound, QueuesConstants DEF Init, Sequence!Init
<1>2. RingKeepsShape /\ [Next]_vars => [Sequence!Next]_(ToArray(ring))
  <2> SUFFICES ASSUME RingKeepsShape, [Next]_vars
               PROVE  Sequence!Next \/ UNCHANGED ToArray(ring)
    OBVIOUS
  <2>1. CASE Next
    BY <2>1, RingStep DEF RingKeepsShape
  <2>2. CASE UNCHANGED vars
    BY <2>2 DEF vars
  <2> QED BY <2>1, <2>2
<1> QED BY <1>1, <1>2, ShapeKept, PTL DEF Spec, ImplementsDeque, Sequence!Spec

-----------------------------------------------------------------------------
(* What every step does to the ring's weight.                              *)
LEMMA WeightStep ==
  ASSUME RingInv(ring), Weighed(ring), Next
  PROVE  Weighed(ring')
<1>1. ring.size \in Nat
  BY ArrayOfRing
<1>2. ASSUME NEW batch \in Batches, PushMany(batch) PROVE Weighed(ring')
  <2>1. batch \in Seq(Items) /\ Fits(ring.size + Len(batch))
    BY <1>2, RoomFits, QueuesConstants DEF PushMany
  <2> QED BY <1>2, <2>1, PushManyWeighed DEF PushMany
<1>3. ASSUME NEW batch \in Batches, UnshiftMany(batch) PROVE Weighed(ring')
  <2>1. batch \in Seq(Items) /\ Fits(ring.size + Len(batch))
    BY <1>3, RoomFits, QueuesConstants DEF UnshiftMany
  <2> QED BY <1>3, <2>1, UnshiftManyWeighed DEF UnshiftMany
<1>4. ASSUME NEW item \in Items, NEW n \in 1..MaxItems, Room(n)
      PROVE  LET batch == [i \in 1..n |-> item]
             IN  batch \in Seq(Items) /\ Fits(ring.size + Len(batch))
  <2> DEFINE batch == [i \in 1..n |-> item]
  <2>1. batch \in Seq(Items) /\ Len(batch) = n /\ n \in Nat
    BY CopiesAreABatch, QueuesConstants
  <2> HIDE DEF batch
  <2>2. Fits(ring.size + Len(batch)) BY <1>4, <2>1, RoomFits
  <2> QED BY <2>1, <2>2 DEF batch
<1>5. ASSUME NEW item \in Items, NEW n \in 1..MaxItems, Fill(item, n) PROVE Weighed(ring')
  BY <1>4, <1>5, PushManyWeighed DEF Fill, AfterFill
<1>6. ASSUME NEW item \in Items, Room(1)
      PROVE  << item >> \in Seq(Items) /\ Fits(ring.size + Len(<< item >>))
  <2>1. 1 \in 1..MaxItems
    BY <1>1, <1>6, QueuesConstants DEF Room
  <2>2. << item >> = [i \in 1..1 |-> item]
    OBVIOUS
  <2> QED BY <1>4, <1>6, <2>1, <2>2
<1>7. ASSUME NEW item \in Items, Push(item) PROVE Weighed(ring')
  BY <1>6, <1>7, PushManyWeighed DEF Push, AfterPush
<1>8. ASSUME NEW item \in Items, Unshift(item) PROVE Weighed(ring')
  BY <1>6, <1>8, UnshiftManyWeighed DEF Unshift, AfterUnshift
<1>9. CASE Shift
  BY <1>9, ShiftWeighed DEF Shift
<1>10. ASSUME NEW i \in 0..(ring.size - 1), RemoveAt(i) \/ DropLowest(i) PROVE Weighed(ring')
  BY <1>10, RemoveAtWeighed DEF RemoveAt, DropLowest
<1>11. CASE ShiftHighestPriority
  <2>1. Foremost(ring, Priority) \in 0..(ring.size - 1)
    BY <1>11, ForemostExists DEF ShiftHighestPriority
  <2> QED BY <1>11, <2>1, RemoveAtWeighed DEF ShiftHighestPriority
<1>12. CASE Clear \/ Dispose
  BY <1>12, ClearWeighed DEF Clear, Dispose
<1>13. ASSUME NEW minimum \in Minimums, Shrink(minimum) PROVE Weighed(ring')
  BY <1>13, ShrinkWeighed, QueuesConstants DEF Shrink
<1> QED BY <1>2, <1>3, <1>5, <1>7, <1>8, <1>9, <1>10, <1>11, <1>12, <1>13 DEF Next

(* TotalWeightIsExact, for all constants: the running total that every     *)
(* operation adjusts is the weight of the items that are queued.           *)
THEOREM WeightExact == Spec => []TotalWeightIsExact
<1>1. Init => Weighed(ring)
  BY NewRingWeighed, QueuesConstants DEF Init
<1>2. RingKeepsShape /\ Weighed(ring) /\ [Next]_vars => Weighed(ring)'
  <2> SUFFICES ASSUME RingKeepsShape, Weighed(ring), [Next]_vars PROVE Weighed(ring)'
    OBVIOUS
  <2>1. CASE Next
    BY <2>1, WeightStep DEF RingKeepsShape
  <2>2. CASE UNCHANGED vars
    BY <2>2 DEF vars, Weighed
  <2> QED BY <2>1, <2>2
<1>3. Weighed(ring) => TotalWeightIsExact
  BY DEF Weighed, TotalWeightIsExact
<1> QED BY <1>1, <1>2, <1>3, ShapeKept, PTL DEF Spec

-----------------------------------------------------------------------------
(***************************************************************************)
(* The heap.                                                               *)
(***************************************************************************)

(* What holds of a number as soon as it holds of all smaller ones.         *)
LEMMA BySmaller ==
  ASSUME NEW n \in Nat, NEW T, \A m \in 1..n : (\A k \in 1..(m - 1) : k \in T) => m \in T
  PROVE  \A m \in 1..n : m \in T
<1> DEFINE F == {m \in 1..n : m \notin T}
<1>1. SUFFICES ASSUME F # {} PROVE FALSE OBVIOUS
<1>2. PICK m \in F : \A k \in F : m <= k
  <2>1. F \subseteq Nat OBVIOUS
  <2> HIDE DEF F
  <2> QED BY <1>1, <2>1, LeastExists
<1>3. \A k \in 1..(m - 1) : k \in T
  <2>1. \A k \in 1..(m - 1) : k \in 1..n /\ ~(m <= k) BY <1>2
  <2> QED BY <1>2, <2>1
<1> QED BY <1>2, <1>3

(* Parent and children.                                                    *)
LEMMA Halves ==
  ASSUME NEW j \in Nat, j >= 2
  PROVE  /\ j \div 2 \in Nat /\ j \div 2 >= 1 /\ j \div 2 < j
         /\ j = 2 * (j \div 2) \/ j = 2 * (j \div 2) + 1
OBVIOUS

(* _siftUp() goes from a position to its parent.                           *)
IsPath(i, path) ==
  path = [j \in 1..i |-> {j} \cup (IF j = 1 THEN {} ELSE path[j \div 2])]

(* The function that PathUp() describes exists.                            *)
LEMMA PathExists ==
  ASSUME NEW i \in Nat
  PROVE  \E path : IsPath(i, path)
<1> DEFINE T == {m \in 0..i : ~\E path : IsPath(m, path)}
<1>1. SUFFICES ASSUME T # {} PROVE FALSE OBVIOUS
<1>2. PICK m \in T : \A k \in T : m <= k
  <2>1. T \subseteq Nat OBVIOUS
  <2> HIDE DEF T
  <2> QED BY <1>1, <2>1, LeastExists
<1>3. m \in 0..i /\ m \in Nat /\ ~\E path : IsPath(m, path) BY <1>2
<1>4. m # 0
  <2>1. IsPath(0, [j \in 1..0 |-> {}]) BY DEF IsPath
  <2> QED BY <1>3, <2>1
<1>5. PICK before : IsPath(m - 1, before)
  <2>1. m - 1 \in 0..i /\ ~(m <= m - 1) BY <1>3, <1>4
  <2> QED BY <1>2, <2>1
<1> DEFINE path == [j \in 1..m |-> {j} \cup (IF j = 1 THEN {} ELSE before[j \div 2])]
<1>6. \A j \in 1..(m - 1) : path[j] = before[j]
  <2>1. ASSUME NEW j \in 1..(m - 1) PROVE path[j] = before[j]
    <3>1. j \in 1..m BY <1>3
    <3>2. path[j] = {j} \cup (IF j = 1 THEN {} ELSE before[j \div 2]) BY <3>1
    <3>3. before[j] = {j} \cup (IF j = 1 THEN {} ELSE before[j \div 2]) BY <1>5 DEF IsPath
    <3> QED BY <3>2, <3>3
  <2> QED BY <2>1
<1>7. \A j \in 1..m : j # 1 => j \div 2 \in 1..(m - 1)
  <2>1. ASSUME NEW j \in 1..m, j # 1 PROVE j \div 2 \in 1..(m - 1)
    <3>1. j \in Nat /\ j >= 2 BY <2>1
    <3> QED BY <1>3, <2>1, <3>1, Halves
  <2> QED BY <2>1
<1>8. IsPath(m, path)
  <2>1. ASSUME NEW j \in 1..m
        PROVE  path[j] = {j} \cup (IF j = 1 THEN {} ELSE path[j \div 2])
    <3>1. path[j] = {j} \cup (IF j = 1 THEN {} ELSE before[j \div 2]) OBVIOUS
    <3>2. CASE j = 1 BY <3>1, <3>2
    <3>3. CASE j # 1
      <4>1. path[j \div 2] = before[j \div 2] BY <1>6, <1>7, <3>3
      <4> HIDE DEF path
      <4> QED BY <3>1, <3>3, <4>1
    <3> QED BY <3>2, <3>3
  <2>2. path = [j \in 1..m |-> path[j]] OBVIOUS
  <2> HIDE DEF path
  <2> QED BY <2>1, <2>2 DEF IsPath
<1> QED BY <1>3, <1>8

\* What the path from i upwards is like.
Ascent(i, P) ==
  /\ i \in P /\ P \subseteq 1..i
  /\ \A j \in P : j # 1 => j \div 2 \in P
  /\ \A j, k \in P : j < k => j <= k \div 2

(* The path is a chain that leads to the root.                             *)
LEMMA PathAscends ==
  ASSUME NEW i \in Nat, i >= 1
  PROVE  Ascent(i, PathUp(i))
<1> DEFINE path == CHOOSE f : f = [j \in 1..i |-> {j} \cup (IF j = 1 THEN {} ELSE f[j \div 2])]
<1>1. PathUp(i) = path[i] BY DEF PathUp
<1>2. path = [j \in 1..i |-> {j} \cup (IF j = 1 THEN {} ELSE path[j \div 2])]
  <2>1. PICK f : IsPath(i, f) BY PathExists
  <2>2. f = [j \in 1..i |-> {j} \cup (IF j = 1 THEN {} ELSE f[j \div 2])] BY <2>1 DEF IsPath
  <2> QED BY <2>2
<1> HIDE DEF path
<1> DEFINE T == {m \in 1..i : Ascent(m, path[m])}
<1>3. ASSUME NEW m \in 1..i, \A k \in 1..(m - 1) : k \in T PROVE m \in T
  <2>1. m \in Nat OBVIOUS
  <2>2. CASE m = 1
    <3>1. path[1] = {1} BY <1>2, <2>2
    <3> QED BY <2>2, <3>1 DEF Ascent
  <2>3. CASE m # 1
    <3> DEFINE h == m \div 2
    <3>1. h \in Nat /\ h >= 1 /\ h < m BY <2>1, <2>3, Halves
    <3>2. path[m] = {m} \cup path[h] BY <1>2, <2>3
    <3>3. Ascent(h, path[h])
      <4>1. h \in 1..(m - 1) BY <2>1, <3>1
      <4> HIDE DEF h
      <4> QED BY <1>3, <4>1
    <3> HIDE DEF h
    <3>4. PICK P : P = path[h] OBVIOUS
    <3>5. \A j \in P : j \in Nat /\ j >= 1 /\ j <= h BY <3>1, <3>3, <3>4 DEF Ascent
    <3>6. \A j \in {m} \cup P : j # 1 => j \div 2 \in {m} \cup P
      BY <3>3, <3>4 DEF Ascent, h
    <3>7. \A j, k \in {m} \cup P : j < k => j <= k \div 2
      <4>1. ASSUME NEW j \in {m} \cup P, NEW k \in {m} \cup P, j < k PROVE j <= k \div 2
        <5>1. j # m /\ j \in P BY <2>1, <3>1, <3>5, <4>1
        <5>2. CASE k = m BY <3>5, <5>1, <5>2 DEF h
        <5>3. CASE k # m BY <3>3, <3>4, <4>1, <5>1, <5>3 DEF Ascent
        <5> QED BY <5>2, <5>3
      <4> QED BY <4>1
    <3>8. {m} \cup P \subseteq 1..m BY <2>1, <3>1, <3>5
    <3>9. Ascent(m, {m} \cup P) BY <3>6, <3>7, <3>8 DEF Ascent
    <3> QED BY <3>2, <3>4, <3>9
  <2> QED BY <2>2, <2>3
<1>4. i \in T
  <2> HIDE DEF T
  <2>1. \A m \in 1..i : m \in T BY <1>3, BySmaller
  <2> QED BY <2>1
<1> QED BY <1>1, <1>4

Entry == [item : HeapItems, seq : Nat]

\* Entries, no two of them pushed at once.
Entries(s) ==
  s \in Seq(Entry) /\ \A i, j \in 1..Len(s) : s[i].seq = s[j].seq => i = j

EntriesOf(s) == {s[j] : j \in 1..Len(s)}

Ordered(s) == \A j \in 2..Len(s) : IsBetter(s[j \div 2], s[j])

(* The entry at a position.                                                *)
LEMMA EntryAt ==
  ASSUME NEW s \in Seq(Entry), NEW i \in 1..Len(s)
  PROVE  s[i] \in Entry /\ s[i].seq \in Nat /\ s[i].item \in HeapItems
<1>1. s[i] \in Entry OBVIOUS
<1> QED BY <1>1 DEF Entry

(* The order of entries.                                                   *)
LEMMA BetterOrders ==
  ASSUME NEW a \in Entry, NEW b \in Entry
  PROVE  /\ ~(IsBetter(a, b) /\ IsBetter(b, a))
         /\ a.seq # b.seq => IsBetter(a, b) \/ IsBetter(b, a)
         /\ \A c \in Entry : IsBetter(a, b) /\ IsBetter(b, c) => IsBetter(a, c)
<1>1. \A e \in Entry : Priority[e.item] \in Int /\ e.seq \in Nat
  BY HeapConstants DEF Entry
<1> QED BY <1>1 DEF IsBetter

(* The entries of a heap can be told apart.                                *)
LEMMA BetterOrWorse ==
  ASSUME NEW s, Entries(s), NEW i \in 1..Len(s), NEW j \in 1..Len(s), i # j
  PROVE  /\ IsBetter(s[i], s[j]) \/ IsBetter(s[j], s[i])
         /\ ~(IsBetter(s[i], s[j]) /\ IsBetter(s[j], s[i]))
<1>1. s[i] \in Entry /\ s[j] \in Entry /\ s[i].seq # s[j].seq BY DEF Entries
<1> QED BY <1>1, BetterOrders

(* The same entries at other positions.                                    *)
LEMMA Permuted ==
  ASSUME NEW s, Entries(s), NEW f \in [1..Len(s) -> 1..Len(s)],
         \A j, k \in 1..Len(s) : f[j] = f[k] => j = k
  PROVE  LET t == [j \in 1..Len(s) |-> s[f[j]]]
         IN  Entries(t) /\ Len(t) = Len(s) /\ EntriesOf(t) = EntriesOf(s)
<1> DEFINE n == Len(s)
           N == 1..n
           t == [j \in N |-> s[f[j]]]
<1>1. n \in Nat /\ s \in Seq(Entry) BY DEF Entries
<1>2. \A j \in N : s[j] \in Entry BY <1>1
<1>3. t \in [N -> Entry] BY <1>2
<1>4. t \in Seq(Entry) /\ Len(t) = n BY <1>1, <1>3
<1>5. IsFiniteSet(N)
  <2> HIDE DEF n
  <2> QED BY <1>1, FS_Interval
<1>6. f \in Injection(N, N) BY DEF Injection, IsInjective
<1> HIDE DEF N
<1>7. f \in Surjection(N, N) BY <1>5, <1>6, FS_Injection
<1>8. \A k \in N : \E j \in N : f[j] = k BY <1>7 DEF Surjection
<1>9. EntriesOf(t) = EntriesOf(s)
  <2>1. EntriesOf(t) = {t[j] : j \in N} BY <1>4 DEF EntriesOf, N
  <2>2. EntriesOf(s) = {s[j] : j \in N} BY DEF EntriesOf, N
  <2>3. \A j \in N : t[j] = s[f[j]] /\ f[j] \in N BY DEF N
  <2> HIDE DEF t
  <2> QED BY <1>8, <2>1, <2>2, <2>3, SMTT(60)
<1>10. \A j, k \in N : t[j].seq = t[k].seq => j = k
  BY DEF Entries, N
<1> QED BY <1>4, <1>9, <1>10 DEF Entries, N

(* _siftUp() of a leaf puts a heap in order that is in order but for it.   *)
LEMMA SiftUpOrders ==
  ASSUME NEW s, Entries(s), NEW i \in 1..Len(s), 2 * i > Len(s),
         \A j \in 2..Len(s) : j # i => IsBetter(s[j \div 2], s[j])
  PROVE  LET t == SiftUp(s, i)
         IN  Entries(t) /\ Len(t) = Len(s) /\ EntriesOf(t) = EntriesOf(s) /\ Ordered(t)
<1> DEFINE n == Len(s)
           path == PathUp(i)
           T == {u \in path : \A j \in path : u <= j /\ j < i => IsBetter(s[i], s[j])}
<1>1. n \in Nat /\ i \in Nat /\ i >= 1 /\ i <= n /\ s \in Seq(Entry) BY DEF Entries
<1>2. Ascent(i, path) BY <1>1, PathAscends
<1> HIDE DEF path
<1>3. \A j \in path : j \in Nat /\ j >= 1 /\ j <= i BY <1>2 DEF Ascent
<1>4. \E u \in path :
        /\ \A j \in path : u <= j /\ j < i => IsBetter(s[i], s[j])
        /\ u > 1 => ~IsBetter(s[i], s[u \div 2])
  <2>1. i \in T BY <1>2, <1>3 DEF Ascent
  <2>2. PICK u \in T : \A k \in T : u <= k
    <3>1. T \subseteq Nat BY <1>3
    <3> HIDE DEF T
    <3> QED BY <2>1, <3>1, LeastExists
  <2>3. ASSUME u > 1, IsBetter(s[i], s[u \div 2]) PROVE FALSE
    <3> DEFINE h == u \div 2
    <3>1. u \in path /\ u \in Nat /\ u >= 2 BY <1>3, <2>2, <2>3
    <3>2. h \in path /\ h < u /\ h \in Nat BY <1>2, <3>1, Halves DEF Ascent
    <3>3. ASSUME NEW j \in path, h <= j, j < i PROVE IsBetter(s[i], s[j])
      <4>1. CASE u <= j BY <2>2, <3>3, <4>1
      <4>2. CASE ~(u <= j)
        <5>1. j < u BY <1>3, <3>1, <4>2
        <5>2. j <= h BY <1>2, <3>1, <5>1 DEF Ascent
        <5>3. j = h
          <6> HIDE DEF h
          <6> QED BY <1>3, <3>2, <3>3, <5>2
        <5> QED BY <2>3, <5>3
      <4> QED BY <4>1, <4>2
    <3> HIDE DEF h
    <3>4. h \in T BY <3>2, <3>3
    <3>5. ~(u <= h) BY <3>1, <3>2
    <3> QED BY <2>2, <3>4, <3>5
  <2> QED BY <2>2, <2>3
<1> DEFINE top == CHOOSE u \in path :
                    /\ \A j \in path : u <= j /\ j < i => IsBetter(s[i], s[j])
                    /\ u > 1 => ~IsBetter(s[i], s[u \div 2])
           f == [j \in 1..n |-> IF j = top THEN i ELSE IF j \in path /\ j > top THEN j \div 2 ELSE j]
           t == [j \in 1..n |-> s[f[j]]]
<1>5. /\ top \in path
      /\ \A j \in path : top <= j /\ j < i => IsBetter(s[i], s[j])
      /\ top > 1 => ~IsBetter(s[i], s[top \div 2])
  BY <1>4
<1>6. SiftUp(s, i) = t
  <2>1. SiftUp(s, i) = [j \in 1..n |-> IF j = top THEN s[i]
                                       ELSE IF j \in path /\ j > top THEN s[j \div 2] ELSE s[j]]
    BY DEF SiftUp, path
  <2> HIDE DEF top
  <2> QED BY <2>1
<1> HIDE DEF top
<1>7. top \in Nat /\ top >= 1 /\ top <= i BY <1>3, <1>5
\* Above the place of the entry that rises, positions take their parent's.
<1>8. ASSUME NEW j \in path, j > top
      PROVE  /\ j \div 2 \in path /\ j \div 2 >= top /\ j \div 2 < j /\ j \div 2 \in Nat
             /\ j \div 2 < i
  <2>1. j \in Nat /\ j >= 2 /\ j <= i BY <1>3, <1>7, <1>8
  <2>2. j \div 2 \in path BY <1>2, <2>1 DEF Ascent
  <2>3. top <= j \div 2 BY <1>2, <1>5, <1>7, <1>8, <2>1 DEF Ascent
  <2>4. j \div 2 < j /\ j \div 2 \in Nat BY <2>1, Halves
  <2> QED BY <1>1, <1>7, <2>1, <2>2, <2>3, <2>4
<1>9. f \in [1..n -> 1..n]
  <2>1. ASSUME NEW j \in 1..n PROVE f[j] \in 1..n
    <3>1. CASE j = top BY <1>1, <3>1
    <3>2. CASE j # top /\ j \in path /\ j > top
      <4>1. f[j] = j \div 2 BY <3>2
      <4>2. j \div 2 \in 1..n BY <1>1, <1>3, <1>7, <1>8, <3>2
      <4> QED BY <4>1, <4>2
    <3>3. CASE j # top /\ ~(j \in path /\ j > top) BY <3>3
    <3> QED BY <3>1, <3>2, <3>3
  <2>2. f = [j \in 1..n |-> f[j]] OBVIOUS
  <2> HIDE DEF f
  <2> QED BY <2>1, <2>2
<1>10. /\ f[top] = i
       /\ \A j \in 1..n : j \in path /\ j > top => f[j] = j \div 2
       /\ \A j \in 1..n : j # top /\ ~(j \in path /\ j > top) => f[j] = j
  BY <1>1, <1>7
<1> HIDE DEF f
<1>11. \A j, k \in 1..n : f[j] = f[k] => j = k
  <2>1. ASSUME NEW j \in 1..n, j \in path, j > top, NEW k \in 1..n, f[j] = f[k] PROVE j = k
    <3> DEFINE h == j \div 2
    <3>1. f[j] = h /\ h \in path /\ h >= top /\ h < j /\ h < i /\ h \in Nat BY <1>8, <1>10, <2>1
    <3>2. CASE k = top
      <4>1. f[k] = i /\ h # i
        <5> HIDE DEF h
        <5> QED BY <1>1, <1>10, <3>1, <3>2
      <4> QED BY <2>1, <3>1, <4>1
    <3>3. CASE k \in path /\ k > top
      <4> DEFINE l == k \div 2
      <4>1. f[k] = l /\ l \in path /\ l >= top /\ l < k /\ l \in Nat BY <1>8, <1>10, <3>3
      <4>2. l = h BY <2>1, <3>1, <4>1
      <4>3. ~(j < k)
        <5>1. j < k => j <= l BY <1>2, <2>1, <3>3 DEF Ascent
        <5> HIDE DEF h, l
        <5> QED BY <3>1, <4>1, <4>2, <5>1
      <4>4. ~(k < j)
        <5>1. k < j => k <= h BY <1>2, <2>1, <3>3 DEF Ascent
        <5> HIDE DEF h, l
        <5> QED BY <3>1, <4>1, <4>2, <5>1
      <4> QED BY <4>3, <4>4
    <3>4. CASE k # top /\ ~(k \in path /\ k > top)
      <4>1. f[k] = k BY <1>10, <3>4
      <4>2. k = h BY <2>1, <3>1, <4>1
      <4> HIDE DEF h
      <4> QED BY <1>7, <3>1, <3>4, <4>2
    <3> QED BY <3>2, <3>3, <3>4
  <2>2. ASSUME NEW k \in 1..n, k # top, ~(k \in path /\ k > top) PROVE f[k] # i
    <3>1. f[k] = k BY <1>10, <2>2
    <3>2. i \in path BY <1>2 DEF Ascent
    <3> QED BY <1>1, <1>7, <2>2, <3>1, <3>2
  <2>3. ASSUME NEW j \in 1..n, NEW k \in 1..n, f[j] = f[k] PROVE j = k
    <3>1. CASE j \in path /\ j > top BY <2>1, <2>3, <3>1
    <3>2. CASE k \in path /\ k > top BY <2>1, <2>3, <3>2
    <3>3. CASE ~(j \in path /\ j > top) /\ ~(k \in path /\ k > top)
      BY <1>10, <2>2, <2>3, <3>3
    <3> QED BY <3>1, <3>2, <3>3
  <2> QED BY <2>3
<1>12. Entries(t) /\ Len(t) = n /\ EntriesOf(t) = EntriesOf(s) BY <1>9, <1>11, Permuted
<1>13. ASSUME NEW j \in 2..n PROVE IsBetter(t[j \div 2], t[j])
  <2> DEFINE q == j \div 2
  <2>1. j \in 1..n /\ j \in Nat /\ j >= 2 BY <1>1
  <2>2. q \in Nat /\ q >= 1 /\ q < j /\ q \in 1..n
    <3>1. q \in Nat /\ q >= 1 /\ q < j BY <2>1, Halves
    <3> HIDE DEF q
    <3> QED BY <1>1, <2>1, <3>1
  <2>3. t[j] = s[f[j]] /\ t[q] = s[f[q]] BY <2>1, <2>2
  <2>4. \A k \in 1..n : s[k] \in Entry BY <1>1
  <2>5. q # i
    <3>1. j = 2 * q \/ j = 2 * q + 1 BY <2>1, Halves
    <3> HIDE DEF q
    <3> QED BY <1>1, <2>1, <2>2, <3>1
  <2>6. j # i => IsBetter(s[q], s[j]) OBVIOUS
  <2>7. q >= 2 => IsBetter(s[q \div 2], s[q])
    <3> HIDE DEF q
    <3>1. q >= 2 => q \in 2..n BY <2>2, <1>1
    <3> QED BY <2>5, <3>1
  <2>8. j \in path => q \in path BY <1>2, <2>1 DEF Ascent
  <2>9. \A k \in path : k < j => k <= q \/ j \notin path BY <1>2, <2>1 DEF Ascent
  <2> HIDE DEF q, t
  <2> SUFFICES IsBetter(t[q], t[j]) BY DEF q
  <2>10. CASE j \in path /\ j > top
    <3>1. f[j] = q BY <1>10, <2>1, <2>10 DEF q
    <3>2. CASE q = top
      <4>1. f[q] = i /\ q < i BY <1>8, <1>10, <2>10, <3>2 DEF q
      <4> QED BY <1>5, <2>3, <2>8, <2>10, <3>1, <3>2, <4>1, <1>7
    <3>3. CASE q # top
      <4>1. q > top /\ q \in path BY <1>7, <1>8, <2>2, <2>10, <3>3 DEF q
      <4>2. f[q] = q \div 2 BY <1>10, <2>2, <4>1
      <4>3. q >= 2 BY <1>7, <2>2, <4>1
      <4> QED BY <2>3, <2>7, <3>1, <4>2, <4>3
    <3> QED BY <3>2, <3>3
  <2>11. CASE j = top
    <3>1. f[j] = i BY <1>10, <2>11
    <3>2. f[q] = q BY <1>7, <1>10, <2>2, <2>11
    <3>3. ~IsBetter(s[i], s[q]) BY <1>5, <2>1, <2>11 DEF q
    <3>4. IsBetter(s[q], s[i]) BY <1>1, <2>2, <2>5, <3>3, BetterOrWorse
    <3> QED BY <2>3, <3>1, <3>2, <3>4
  <2>12. CASE j # top /\ ~(j \in path /\ j > top)
    <3>1. f[j] = j BY <1>10, <2>1, <2>12
    <3>2. j # i BY <1>2, <1>7, <2>12, <1>1 DEF Ascent
    <3>3. IsBetter(s[q], s[j]) BY <2>6, <3>2
    <3>4. CASE q = top
      <4>1. f[q] = i BY <1>10, <3>4
      <4>2. q < i BY <1>1, <1>7, <2>2, <2>5, <3>4
      <4>3. IsBetter(s[i], s[q]) BY <1>5, <1>7, <3>4, <4>2
      <4>4. IsBetter(s[i], s[j]) BY <1>1, <2>1, <2>2, <2>4, <3>3, <4>3, BetterOrders
      <4> QED BY <2>3, <3>1, <4>1, <4>4
    <3>5. CASE q # top /\ q \in path /\ q > top
      <4>1. f[q] = q \div 2 BY <1>10, <2>2, <3>5
      <4>2. q >= 2 BY <1>7, <2>2, <3>5
      <4>3. q \div 2 \in 1..n
        <5>1. q \div 2 \in Nat /\ q \div 2 >= 1 /\ q \div 2 < q BY <2>2, <4>2, Halves
        <5> QED BY <1>1, <2>2, <5>1
      <4>4. IsBetter(s[q \div 2], s[j]) BY <2>1, <2>2, <2>4, <2>7, <3>3, <4>2, <4>3, BetterOrders
      <4> QED BY <2>3, <3>1, <4>1, <4>4
    <3>6. CASE q # top /\ ~(q \in path /\ q > top)
      <4>1. f[q] = q BY <1>10, <2>2, <3>6
      <4> QED BY <2>3, <3>1, <3>3, <4>1
    <3> QED BY <3>4, <3>5, <3>6
  <2> QED BY <2>10, <2>11, <2>12
<1>14. Ordered(t) BY <1>12, <1>13 DEF Ordered
<1> HIDE DEF t
<1> QED BY <1>6, <1>12, <1>14

\* The other child of the parent of j.
Twin(j) == IF j % 2 = 0 THEN j + 1 ELSE j - 1

Preferred(s, j) == Twin(j) <= Len(s) => IsBetter(s[j], s[Twin(j)])

(* The two children of a position are each other's twins.                  *)
LEMMA Twins ==
  ASSUME NEW j \in Nat, j >= 2
  PROVE  /\ Twin(j) \in Nat /\ Twin(j) >= 2 /\ Twin(j) # j /\ Twin(Twin(j)) = j
         /\ Twin(j) \div 2 = j \div 2
         /\ \A k \in Nat : k >= 2 /\ k \div 2 = j \div 2 /\ k # j => k = Twin(j)
BY DEF Twin

\* _siftDown(i) goes from a position to the better child.
IsDescent(s, i, n, f) ==
  f = [j \in 1..n |-> \/ j = i
                      \/ j > i /\ f[j \div 2] /\ Preferred(s, j) /\ IsBetter(s[j], s[i])]

(* The function that SiftDown() describes exists.                          *)
LEMMA DescentExists ==
  ASSUME NEW s, NEW i \in Nat, i >= 1, NEW n \in Nat
  PROVE  \E f : IsDescent(s, i, n, f)
<1> DEFINE T == {m \in 0..n : ~\E f : IsDescent(s, i, m, f)}
           good(j) == Preferred(s, j) /\ IsBetter(s[j], s[i])
<1>1. SUFFICES ASSUME T # {} PROVE FALSE OBVIOUS
<1>2. PICK m \in T : \A k \in T : m <= k
  <2>1. T \subseteq Nat OBVIOUS
  <2> HIDE DEF T
  <2> QED BY <1>1, <2>1, LeastExists
<1>3. m \in 0..n /\ m \in Nat /\ ~\E f : IsDescent(s, i, m, f) BY <1>2
<1>4. m # 0
  <2>1. IsDescent(s, i, 0, [j \in 1..0 |-> FALSE]) BY DEF IsDescent
  <2> QED BY <1>3, <2>1
<1>5. PICK before : IsDescent(s, i, m - 1, before)
  <2>1. m - 1 \in 0..n /\ ~(m <= m - 1) BY <1>3, <1>4
  <2> QED BY <1>2, <2>1
<1> HIDE DEF good
<1> DEFINE f == [j \in 1..m |-> j = i \/ (j > i /\ before[j \div 2] /\ good(j))]
<1>6. before = [j \in 1..(m - 1) |-> j = i \/ (j > i /\ before[j \div 2] /\ good(j))]
  BY <1>5 DEF IsDescent, good
<1>7. \A j \in 1..(m - 1) : f[j] = before[j]
  <2>1. ASSUME NEW j \in 1..(m - 1) PROVE f[j] = before[j]
    <3>1. j \in 1..m BY <1>3
    <3>2. f[j] = (j = i \/ (j > i /\ before[j \div 2] /\ good(j))) BY <3>1
    <3>3. before[j] = (j = i \/ (j > i /\ before[j \div 2] /\ good(j))) BY <1>6
    <3> HIDE DEF f
    <3> QED BY <3>2, <3>3
  <2> QED BY <2>1
<1>8. \A j \in 1..m : f[j] = (j = i \/ (j > i /\ f[j \div 2] /\ good(j)))
  <2>1. ASSUME NEW j \in 1..m PROVE f[j] = (j = i \/ (j > i /\ f[j \div 2] /\ good(j)))
    <3>1. f[j] = (j = i \/ (j > i /\ before[j \div 2] /\ good(j))) OBVIOUS
    <3>2. CASE ~(j > i) BY <3>1, <3>2
    <3>3. CASE j > i
      <4>1. j \in Nat /\ j >= 2 BY <3>3
      <4>2. j \div 2 \in 1..(m - 1) BY <1>3, <4>1, Halves
      <4>3. f[j \div 2] = before[j \div 2] BY <1>7, <4>2
      <4> HIDE DEF f
      <4> QED BY <3>1, <4>3
    <3> QED BY <3>2, <3>3
  <2> QED BY <2>1
<1>9. f = [j \in 1..m |-> f[j]] OBVIOUS
<1> HIDE DEF f
<1>10. f = [j \in 1..m |-> j = i \/ (j > i /\ f[j \div 2] /\ good(j))]
  BY <1>8, <1>9
<1>11. IsDescent(s, i, m, f) BY <1>10 DEF IsDescent, good
<1> QED BY <1>3, <1>11

\* What the way down from i is like.
Descent(s, i, P) ==
  /\ i \in P /\ P \subseteq i..Len(s)
  /\ \A j \in (i + 1)..Len(s) :
       j \in P <=> j \div 2 \in P /\ Preferred(s, j) /\ IsBetter(s[j], s[i])

\* What happens along it.
Sunk(s, i, P, last) ==
  [j \in 1..Len(s) |-> IF j = last THEN s[i]
                       ELSE IF j \in P THEN s[CHOOSE k \in P : k \div 2 = j /\ k > j]
                       ELSE s[j]]

(* _siftDown(i) moves the entries on a descent up and the entry at i to    *)
(* its end.                                                                *)
LEMMA SiftDownDescends ==
  ASSUME NEW S, NEW s \in Seq(S), NEW i \in 1..Len(s)
  PROVE  \E P : /\ Descent(s, i, P)
                /\ SiftDown(s, i) = Sunk(s, i, P, CHOOSE t \in P : \A j \in P : j <= t)
<1> DEFINE n == Len(s)
           sinks == CHOOSE f : f = [j \in 1..n |->
                      \/ j = i
                      \/ /\ j > i
                         /\ f[j \div 2]
                         /\ (IF j % 2 = 0 THEN j + 1 ELSE j - 1) <= n
                              => IsBetter(s[j], s[IF j % 2 = 0 THEN j + 1 ELSE j - 1])
                         /\ IsBetter(s[j], s[i])]
           P == {j \in i..n : sinks[j]}
<1>1. SiftDown(s, i) = Sunk(s, i, P, CHOOSE t \in P : \A j \in P : j <= t)
  BY DEF SiftDown, Sunk
<1>2. n \in Nat /\ i \in Nat /\ i >= 1 /\ i <= n OBVIOUS
<1>3. sinks = CHOOSE f : IsDescent(s, i, n, f) BY DEF IsDescent, Preferred, Twin
<1> HIDE DEF sinks
<1>4. IsDescent(s, i, n, sinks) BY <1>2, <1>3, DescentExists
<1>5. \A j \in 1..n : sinks[j] <=> (j = i \/ (j > i /\ sinks[j \div 2] /\ Preferred(s, j) /\ IsBetter(s[j], s[i])))
  BY <1>4 DEF IsDescent
<1>6. Descent(s, i, P)
  <2>1. i \in P BY <1>2, <1>5
  <2>2. ASSUME NEW j \in (i + 1)..n
        PROVE  j \in P <=> j \div 2 \in P /\ Preferred(s, j) /\ IsBetter(s[j], s[i])
    <3> DEFINE h == j \div 2
    <3>1. j \in Nat /\ j >= 2 /\ j \in 1..n /\ j > i BY <1>2
    <3>2. h \in Nat /\ h >= 1 /\ h < j BY <3>1, Halves
    <3>3. sinks[j] <=> (sinks[h] /\ Preferred(s, j) /\ IsBetter(s[j], s[i])) BY <1>5, <3>1
    <3> HIDE DEF h
    <3>4. h \in 1..n BY <3>1, <3>2
    <3>5. sinks[h] => h >= i BY <1>2, <1>5, <3>4
    <3>6. sinks[h] <=> h \in P BY <3>4, <3>5
    <3>7. sinks[j] <=> j \in P BY <1>2, <3>1
    <3> QED BY <3>3, <3>6, <3>7 DEF h
  <2> QED BY <2>1, <2>2 DEF Descent
<1> QED BY <1>1, <1>6

(* Nothing is below a leaf.                                                *)
LEMMA LeavesStay ==
  ASSUME NEW S, NEW s \in Seq(S), NEW i \in 1..Len(s), 2 * i > Len(s)
  PROVE  SiftDown(s, i) = s
<1> DEFINE n == Len(s)
<1>1. n \in Nat /\ i \in Nat /\ i >= 1 /\ i <= n OBVIOUS
<1>2. PICK P : /\ Descent(s, i, P)
               /\ SiftDown(s, i) = Sunk(s, i, P, CHOOSE t \in P : \A j \in P : j <= t)
  BY SiftDownDescends
<1>3. ASSUME NEW j \in P, j # i PROVE FALSE
  <2>1. j \in (i + 1)..n BY <1>1, <1>2, <1>3 DEF Descent
  <2>2. j \div 2 \in P BY <1>2, <2>1 DEF Descent
  <2>3. j \div 2 >= i BY <1>1, <1>2, <2>2 DEF Descent
  <2>4. j \div 2 < i
    <3>1. j \in Nat /\ j >= 2 /\ j < 2 * i BY <1>1, <2>1
    <3> QED BY <1>1, <3>1, Halves
  <2>5. j \div 2 \in Nat BY <1>1, <2>1, Halves
  <2> QED BY <1>1, <2>3, <2>4, <2>5
<1>4. P = {i} BY <1>2, <1>3 DEF Descent
<1>5. (CHOOSE t \in P : \A j \in P : j <= t) = i BY <1>1, <1>4
<1>6. Sunk(s, i, P, i) = [j \in 1..n |-> s[j]] BY <1>4 DEF Sunk
<1>7. s = [j \in 1..n |-> s[j]] OBVIOUS
<1> QED BY <1>2, <1>5, <1>6, <1>7

(* No two children of one position are on the way down.                    *)
LEMMA OneChild ==
  ASSUME NEW s, Entries(s), NEW P, Descent(s, 1, P), NEW j \in P, NEW k \in P,
         j # 1, k # 1, j \div 2 = k \div 2
  PROVE  j = k
<1>1. j \in Nat /\ j >= 2 /\ j <= Len(s) /\ k \in Nat /\ k >= 2 /\ k <= Len(s)
  BY DEF Descent, Entries
<1>2. Preferred(s, j) /\ Preferred(s, k) BY <1>1 DEF Descent
<1>3. SUFFICES ASSUME j # k PROVE FALSE OBVIOUS
<1>4. k = Twin(j) /\ j = Twin(k) BY <1>1, <1>3, Twins
<1>5. IsBetter(s[j], s[k]) /\ IsBetter(s[k], s[j]) BY <1>1, <1>2, <1>4 DEF Preferred
<1>6. j \in 1..Len(s) /\ k \in 1..Len(s) BY <1>1 DEF Entries
<1> QED BY <1>3, <1>5, <1>6, BetterOrWorse

(* The way down does not end before its last position.                     *)
LEMMA ChildExists ==
  ASSUME NEW s, Entries(s), NEW P, Descent(s, 1, P), NEW q \in P, NEW last \in P, q < last
  PROVE  \E c \in P : c \div 2 = q /\ c > q
<1> DEFINE n == Len(s)
           T == {m \in 1..n : m \in P => \A j \in P : j < m => \E c \in P : c \div 2 = j /\ c > j /\ c <= m}
<1>1. n \in Nat /\ \A j \in P : j \in 1..n BY DEF Descent, Entries
<1>2. ASSUME NEW m \in 1..n, \A k \in 1..(m - 1) : k \in T PROVE m \in T
  <2>1. ASSUME m \in P, NEW j \in P, j < m PROVE \E c \in P : c \div 2 = j /\ c > j /\ c <= m
    <3> DEFINE h == m \div 2
    <3>1. m \in Nat /\ m >= 2 /\ j \in Nat /\ j >= 1 BY <1>1, <2>1
    <3>2. h \in Nat /\ h >= 1 /\ h < m BY <3>1, Halves
    <3>3. h \in P BY <1>1, <2>1, <3>1 DEF Descent
    <3>4. CASE j = h BY <2>1, <3>2, <3>4
    <3>5. CASE j < h
      <4>1. h \in T
        <5> HIDE DEF h, T
        <5>1. h \in 1..(m - 1) BY <3>1, <3>2
        <5> QED BY <1>2, <5>1
      <4>2. PICK c \in P : c \div 2 = j /\ c > j /\ c <= h BY <3>3, <3>5, <4>1
      <4>3. c <= m
        <5> HIDE DEF h
        <5> QED BY <1>1, <3>1, <3>2, <4>2
      <4> QED BY <4>2, <4>3
    <3>6. CASE h < j
      <4>1. j \in T
        <5> HIDE DEF T
        <5>1. j \in 1..(m - 1) BY <2>1, <3>1
        <5> QED BY <1>2, <5>1
      <4>2. PICK c \in P : c \div 2 = h /\ c > h /\ c <= j BY <3>3, <3>6, <4>1
      <4>3. c # 1 /\ m # 1 /\ c # m
        <5> HIDE DEF h
        <5> QED BY <1>1, <2>1, <3>1, <3>2, <4>2
      <4> QED BY <2>1, <4>2, <4>3, OneChild
    <3> HIDE DEF h
    <3> QED BY <3>1, <3>2, <3>4, <3>5, <3>6
  <2> QED BY <2>1
<1>3. last \in T
  <2> HIDE DEF T
  <2>1. \A m \in 1..n : m \in T BY <1>1, <1>2, BySmaller
  <2> QED BY <1>1, <2>1
<1> QED BY <1>3

(* _siftDown() of the root puts a heap in order that is in order but for   *)
(* it.                                                                     *)
LEMMA SiftDownOrders ==
  ASSUME NEW s, Entries(s), Len(s) >= 1,
         \A j \in 2..Len(s) : j \div 2 # 1 => IsBetter(s[j \div 2], s[j])
  PROVE  LET t == SiftDown(s, 1)
         IN  Entries(t) /\ Len(t) = Len(s) /\ EntriesOf(t) = EntriesOf(s) /\ Ordered(t)
<1> DEFINE n == Len(s)
<1>1. n \in Nat /\ s \in Seq(Entry) /\ 1 \in 1..n BY DEF Entries
<1>2. PICK P : /\ Descent(s, 1, P)
               /\ SiftDown(s, 1) = Sunk(s, 1, P, CHOOSE t \in P : \A j \in P : j <= t)
  BY <1>1, SiftDownDescends
<1> DEFINE last == CHOOSE t \in P : \A j \in P : j <= t
           child(j) == CHOOSE k \in P : k \div 2 = j /\ k > j
           f == [j \in 1..n |-> IF j = last THEN 1 ELSE IF j \in P THEN child(j) ELSE j]
           t == [j \in 1..n |-> s[f[j]]]
<1>3. \A j \in P : j \in Nat /\ j >= 1 /\ j <= n /\ j \in 1..n BY <1>2 DEF Descent
<1>4. last \in P /\ \A j \in P : j <= last
  <2>1. P \subseteq Nat /\ P # {} /\ \A j \in P : j <= n BY <1>2, <1>3 DEF Descent
  <2>2. \E k \in P : \A j \in P : j <= k
    <3>1. P \subseteq 0..n BY <1>1, <1>3
    <3> HIDE DEF n
    <3> QED BY <1>1, <2>1, <3>1, GreatestExists
  <2> QED BY <2>2
<1> HIDE DEF last
<1>5. ASSUME NEW j \in P, j # last
      PROVE  child(j) \in P /\ child(j) \div 2 = j /\ child(j) > j
  <2>1. j < last BY <1>3, <1>4, <1>5
  <2>2. \E k \in P : k \div 2 = j /\ k > j BY <1>2, <1>4, <2>1, ChildExists
  <2> QED BY <2>2
<1> HIDE DEF child
<1>6. SiftDown(s, 1) = t
  <2>1. SiftDown(s, 1) = [j \in 1..n |-> IF j = last THEN s[1] ELSE IF j \in P THEN s[child(j)] ELSE s[j]]
    BY <1>2 DEF Sunk, last, child
  <2> QED BY <2>1
<1>7. f \in [1..n -> 1..n]
  <2>1. ASSUME NEW j \in 1..n PROVE f[j] \in 1..n BY <1>1, <1>3, <1>5
  <2>2. f = [j \in 1..n |-> f[j]] OBVIOUS
  <2> HIDE DEF f
  <2> QED BY <2>1, <2>2
<1>8. /\ f[last] = 1
      /\ \A j \in P : j # last => f[j] = child(j)
      /\ \A j \in 1..n : j \notin P => f[j] = j
  BY <1>3, <1>4
<1>9. 1 \in P BY <1>2 DEF Descent
<1> HIDE DEF f
<1>10. \A j, k \in 1..n : f[j] = f[k] => j = k
  <2>1. ASSUME NEW j \in P, j # last, NEW k \in 1..n, f[j] = f[k] PROVE j = k
    <3>1. f[j] \in P /\ f[j] \div 2 = j /\ f[j] > j BY <1>5, <1>8, <2>1
    <3>2. CASE k \in P /\ k # last
      <4>1. f[k] \div 2 = k BY <1>5, <1>8, <3>2
      <4> QED BY <2>1, <3>1, <4>1
    <3>3. CASE k = last
      <4>1. f[j] = 1 BY <1>8, <2>1, <3>3
      <4>2. j >= 1 /\ j \in Nat BY <1>3
      <4> QED BY <3>1, <4>1, <4>2
    <3>4. CASE k \notin P BY <1>8, <2>1, <3>1, <3>4
    <3> QED BY <3>2, <3>3, <3>4
  <2>2. ASSUME NEW k \in 1..n, k \notin P PROVE f[k] # 1 BY <1>8, <1>9, <2>2
  <2>3. ASSUME NEW j \in 1..n, NEW k \in 1..n, f[j] = f[k] PROVE j = k
    <3>1. CASE j \in P /\ j # last BY <2>1, <2>3, <3>1
    <3>2. CASE k \in P /\ k # last BY <2>1, <2>3, <3>2
    <3>3. CASE ~(j \in P /\ j # last) /\ ~(k \in P /\ k # last) BY <1>8, <2>2, <2>3, <3>3
    <3> QED BY <3>1, <3>2, <3>3
  <2> QED BY <2>3
<1>11. Entries(t) /\ Len(t) = n /\ EntriesOf(t) = EntriesOf(s) BY <1>7, <1>10, Permuted
<1>12. ASSUME NEW j \in 2..n PROVE IsBetter(t[j \div 2], t[j])
  <2> DEFINE q == j \div 2
  <2>1. j \in 1..n /\ j \in Nat /\ j >= 2 /\ j <= n BY <1>1
  <2>2. q \in Nat /\ q >= 1 /\ q < j /\ q \in 1..n
    <3>1. q \in Nat /\ q >= 1 /\ q < j BY <2>1, Halves
    <3> HIDE DEF q
    <3> QED BY <1>1, <2>1, <3>1
  <2>3. t[j] = s[f[j]] /\ t[q] = s[f[q]] BY <2>1, <2>2
  <2>4. \A k \in 1..n : s[k] \in Entry BY <1>1
  <2>5. q # 1 => IsBetter(s[q], s[j]) OBVIOUS
  <2>6. j \in P <=> q \in P /\ Preferred(s, j) /\ IsBetter(s[j], s[1]) BY <1>2 DEF Descent
  <2>7. \A k \in P : k # 1 /\ k \div 2 = q => Preferred(s, k) /\ IsBetter(s[k], s[1]) BY <1>2, <1>3 DEF Descent
  <2>8. j # 1 /\ f[j] \in 1..n /\ f[q] \in 1..n BY <1>7, <2>1, <2>2
  <2>9. /\ Twin(j) \in Nat /\ Twin(j) >= 2 /\ Twin(j) # j /\ Twin(Twin(j)) = j /\ Twin(j) \div 2 = q
        /\ \A k \in Nat : k >= 2 /\ k \div 2 = q /\ k # j => k = Twin(j)
    BY <2>1, Twins
  <2>10. \A k \in P : k # 1 => k \div 2 \in P BY <1>2, <1>3 DEF Descent
  <2> DEFINE w == Twin(j)
  <2>11. w <= n => (w \in P <=> q \in P /\ Preferred(s, w) /\ IsBetter(s[w], s[1]))
    BY <1>1, <1>2, <2>9 DEF Descent
  <2> HIDE DEF q, t, w
  <2> SUFFICES IsBetter(t[q], t[j]) BY DEF q
  <2>12. CASE q \notin P
    <3>1. f[q] = q /\ f[j] = j BY <1>8, <2>1, <2>2, <2>6, <2>12
    <3> QED BY <1>9, <2>3, <2>5, <2>12, <3>1
  <2>13. CASE q = last
    <3>1. \A k \in P : k < j BY <1>3, <1>4, <2>1, <2>2, <2>13
    <3>2. j \notin P BY <2>1, <3>1
    <3>3. f[q] = 1 /\ f[j] = j BY <1>8, <2>1, <2>13, <3>2
    <3>4. IsBetter(s[1], s[j])
      <4>1. CASE ~IsBetter(s[j], s[1]) BY <1>1, <2>1, <2>8, <4>1, BetterOrWorse
      <4>2. CASE IsBetter(s[j], s[1])
        <5>1. ~Preferred(s, j) BY <1>4, <2>6, <2>13, <3>2, <4>2
        <5>2. w <= n /\ ~IsBetter(s[j], s[w]) BY <5>1 DEF Preferred, w
        <5>3. w \in 1..n /\ w # j /\ w # 1 BY <1>1, <2>9, <5>2 DEF w
        <5>4. IsBetter(s[w], s[j]) BY <2>1, <5>2, <5>3, BetterOrWorse
        <5>5. Preferred(s, w) BY <2>9, <5>4 DEF Preferred, w
        <5>6. w \notin P
          <6>1. w > q /\ w \in Nat BY <2>2, <2>9, Halves DEF w
          <6>2. q \in Nat BY <2>2
          <6>3. w \in P => w <= q BY <1>4, <2>13
          <6> QED BY <6>1, <6>2, <6>3
        <5>7. ~IsBetter(s[w], s[1]) BY <1>4, <2>11, <2>13, <5>2, <5>5, <5>6
        <5>8. IsBetter(s[1], s[w]) BY <1>1, <5>3, <5>7, BetterOrWorse
        <5> QED BY <1>1, <2>1, <2>4, <5>3, <5>4, <5>8, BetterOrders
      <4> QED BY <4>1, <4>2
    <3> QED BY <2>3, <3>3, <3>4
  <2>14. CASE q \in P /\ q # last
    <3> DEFINE c == child(q)
    <3>1. c \in P /\ c \div 2 = q /\ c > q /\ f[q] = c BY <1>5, <1>8, <2>14
    <3>2. c # 1 /\ c >= 2 /\ c \in 1..n /\ c \in Nat BY <1>3, <2>2, <3>1
    <3> HIDE DEF c
    <3>3. Preferred(s, c) /\ IsBetter(s[c], s[1]) BY <2>7, <3>1, <3>2
    <3>4. CASE j = c
      <4>1. CASE c = last BY <1>8, <2>3, <3>1, <3>3, <3>4, <4>1
      <4>2. CASE c # last
        <5> DEFINE d == child(c)
        <5>1. d \in P /\ d \div 2 = c /\ d > c /\ f[c] = d BY <1>5, <1>8, <3>1, <4>2
        <5>2. d \in 2..n BY <1>3, <3>2, <5>1
        <5>3. IsBetter(s[d \div 2], s[d]) BY <3>2, <5>1, <5>2
        <5> QED BY <2>3, <3>1, <3>4, <5>1, <5>3
      <4> QED BY <4>1, <4>2
    <3>5. CASE j # c
      <4>1. j \notin P
        <5>1. j \in P => j = c BY <1>2, <2>8, <3>1, <3>2, OneChild DEF q
        <5> QED BY <3>5, <5>1
      <4>2. f[j] = j BY <1>8, <2>1, <4>1
      <4>3. c = w BY <2>9, <3>1, <3>2, <3>5 DEF w
      <4>4. Twin(c) = j BY <2>9, <4>3 DEF w
      <4>5. IsBetter(s[c], s[j]) BY <2>1, <3>3, <4>4 DEF Preferred
      <4> QED BY <2>3, <3>1, <4>2, <4>5
    <3> QED BY <3>4, <3>5
  <2> QED BY <2>12, <2>13, <2>14
<1>13. Ordered(t) BY <1>11, <1>12 DEF Ordered
<1> HIDE DEF t
<1> QED BY <1>6, <1>11, <1>13

(* The root of a heap is its best entry.                                   *)
LEMMA RootIsBest ==
  ASSUME NEW s, Entries(s), Ordered(s)
  PROVE  \A j \in 2..Len(s) : IsBetter(s[1], s[j])
<1> DEFINE n == Len(s)
           T == {m \in 1..n : m # 1 => IsBetter(s[1], s[m])}
<1>1. n \in Nat /\ \A j \in 1..n : s[j] \in Entry BY DEF Entries
<1>2. ASSUME NEW m \in 1..n, \A k \in 1..(m - 1) : k \in T PROVE m \in T
  <2>1. CASE m = 1 BY <2>1
  <2>2. CASE m # 1
    <3> DEFINE h == m \div 2
    <3>1. m \in 2..n /\ m \in Nat /\ m >= 2 BY <2>2
    <3>2. h \in Nat /\ h >= 1 /\ h < m BY <3>1, Halves
    <3>3. IsBetter(s[h], s[m]) BY <3>1 DEF Ordered
    <3> HIDE DEF h
    <3>4. CASE h = 1 BY <3>3, <3>4
    <3>5. CASE h # 1
      <4>1. h \in 1..(m - 1) BY <3>1, <3>2
      <4>2. IsBetter(s[1], s[h]) BY <1>2, <3>5, <4>1
      <4>3. 1 \in 1..n /\ h \in 1..n BY <1>1, <3>1, <3>2
      <4>4. IsBetter(s[1], s[m]) BY <1>1, <3>3, <4>2, <4>3, BetterOrders
      <4> QED BY <4>4
    <3> QED BY <3>4, <3>5
  <2> QED BY <2>1, <2>2
<1> HIDE DEF T
<1>3. \A m \in 1..n : m \in T BY <1>1, <1>2, BySmaller
<1> QED BY <1>1, <1>3 DEF T

-----------------------------------------------------------------------------
\* a lists the entries of s in the order in which they were pushed.
Lists(s, a) ==
  /\ a \in Seq(Entry) /\ EntriesOf(a) = EntriesOf(s)
  /\ \A i, j \in 1..Len(a) : i < j => a[i].seq < a[j].seq

ItemsOf(a) == [i \in 1..Len(a) |-> a[i].item]

\* The heap holds the items of the array, which is in the order of arrival.
HeapInv(h, array) ==
  /\ h.seq \in Nat /\ Entries(h.entries) /\ Ordered(h.entries)
  /\ \A e \in EntriesOf(h.entries) : e.seq < h.seq
  /\ DOMAIN h = {"entries", "seq"}
  /\ \E a : Lists(h.entries, a) /\ array = ItemsOf(a)

(* A list of the entries is as long as the heap.                           *)
LEMMA ListLength ==
  ASSUME NEW s, Entries(s), NEW a, Lists(s, a)
  PROVE  Len(a) = Len(s)
<1> DEFINE m == Len(a)
           n == Len(s)
           E == EntriesOf(s)
           f == [i \in 1..m |-> a[i]]
           g == [i \in 1..n |-> s[i]]
<1>1. m \in Nat /\ n \in Nat BY DEF Lists, Entries
<1>2. \A i, j \in 1..m : a[i] = a[j] => i = j
  <2>1. \A i \in 1..m : a[i].seq \in Nat BY EntryAt DEF Lists
  <2>2. ASSUME NEW i \in 1..m, NEW j \in 1..m, a[i] = a[j] PROVE i = j
    <3>1. ~(i < j) /\ ~(j < i) BY <2>1, <2>2 DEF Lists
    <3> QED BY <1>1, <3>1
  <2> QED BY <2>2
<1>3. f \in Bijection(1..m, E)
  <2>1. E = {a[i] : i \in 1..m} BY DEF Lists, EntriesOf
  <2> HIDE DEF E, m
  <2> QED BY <1>2, <2>1 DEF Bijection, Injection, Surjection, IsInjective
<1>4. g \in Bijection(1..n, E)
  <2>1. E = {s[i] : i \in 1..n} BY DEF EntriesOf
  <2>2. \A i, j \in 1..n : s[i] = s[j] => i = j BY DEF Entries
  <2> HIDE DEF E, n
  <2> QED BY <2>1, <2>2 DEF Bijection, Injection, Surjection, IsInjective
<1> HIDE DEF f, g, E, m, n
<1>5. IsFiniteSet(1..m) /\ Cardinality(1..m) = m /\ IsFiniteSet(1..n) /\ Cardinality(1..n) = n
  BY <1>1, FS_Interval
<1>6. Cardinality(E) = m /\ Cardinality(E) = n
  BY <1>3, <1>4, <1>5, FS_Bijection DEF ExistsBijection
<1> QED BY <1>6 DEF m, n

(* What was pushed as the i-th has i - 1 entries before it: the heap       *)
(* enumerates the array.                                                   *)
LEMMA ArrivalsAreListed ==
  ASSUME NEW h, NEW array, HeapInv(h, array)
  PROVE  Arrivals(h) = array
<1> DEFINE s == h.entries
           n == Len(s)
           before(j) == {k \in 1..n : s[k].seq < s[j].seq}
<1>1. PICK a : Lists(s, a) /\ array = ItemsOf(a) BY DEF HeapInv
<1>2. Entries(s) /\ n \in Nat /\ Len(a) = n BY <1>1, ListLength DEF HeapInv, Entries
<1>3. \A k \in 1..n : \E i \in 1..n : s[k] = a[i] BY <1>1, <1>2 DEF Lists, EntriesOf
<1>4. \A i \in 1..n : \E k \in 1..n : s[k] = a[i] BY <1>1, <1>2 DEF Lists, EntriesOf
<1>5. \A i, j \in 1..n : i < j <=> a[i].seq < a[j].seq
  <2>1. \A i \in 1..n : a[i].seq \in Nat BY <1>1, <1>2, EntryAt DEF Lists
  <2>2. \A i, j \in 1..n : i < j => a[i].seq < a[j].seq BY <1>1, <1>2 DEF Lists
  <2> QED BY <1>2, <2>1, <2>2
<1>6. \A k, l \in 1..n : s[k] = s[l] => k = l BY <1>2 DEF Entries
<1> HIDE DEF s, n
<1>7. ASSUME NEW j \in 1..n, NEW r \in 1..n, s[j] = a[r]
      PROVE  Cardinality(before(j)) = r - 1
  <2> DEFINE at(i) == CHOOSE k \in 1..n : s[k] = a[i]
             f == [i \in 1..(r - 1) |-> at(i)]
  <2>1. \A i \in 1..n : at(i) \in 1..n /\ s[at(i)] = a[i] BY <1>4
  <2> HIDE DEF at
  <2>2. \A i \in 1..(r - 1) : i \in 1..n /\ i < r BY <1>2, <1>7
  <2>3. \A i \in 1..(r - 1) : at(i) \in before(j) BY <1>5, <1>7, <2>1, <2>2
  <2>4. \A i, k \in 1..(r - 1) : at(i) = at(k) => i = k
    <3>1. ASSUME NEW i \in 1..(r - 1), NEW k \in 1..(r - 1), at(i) = at(k) PROVE i = k
      <4>1. a[i] = a[k] BY <2>1, <2>2, <3>1
      <4>2. a[i].seq \in Nat BY <1>1, <1>2, <2>2, EntryAt DEF Lists
      <4>3. ~(i < k) /\ ~(k < i) BY <1>5, <2>2, <4>1, <4>2
      <4> QED BY <1>2, <1>7, <4>3
    <3> QED BY <3>1
  <2>5. \A k \in before(j) : \E i \in 1..(r - 1) : at(i) = k
    <3>1. ASSUME NEW k \in before(j) PROVE \E i \in 1..(r - 1) : at(i) = k
      <4>1. PICK i \in 1..n : s[k] = a[i] BY <1>3
      <4>2. i < r BY <1>5, <1>7, <4>1
      <4>3. i \in 1..(r - 1) BY <1>2, <4>2
      <4>4. at(i) = k BY <1>6, <2>1, <4>1
      <4> QED BY <4>3, <4>4
    <3> QED BY <3>1
  <2> HIDE DEF before
  <2>6. f \in Bijection(1..(r - 1), before(j))
    <3>1. \A i \in 1..(r - 1) : f[i] = at(i) OBVIOUS
    <3>2. f \in [1..(r - 1) -> before(j)] BY <2>3
    <3> HIDE DEF f
    <3> QED BY <2>4, <2>5, <3>1, <3>2 DEF Bijection, Injection, Surjection, IsInjective
  <2> HIDE DEF f
  <2>7. IsFiniteSet(1..(r - 1)) /\ Cardinality(1..(r - 1)) = r - 1
    <3>1. r - 1 \in Nat BY <1>7, <1>2
    <3> QED BY <3>1, FS_Interval
  <2> QED BY <2>6, <2>7, FS_Bijection DEF ExistsBijection
<1>8. ASSUME NEW i \in 1..n
      PROVE  s[CHOOSE j \in 1..n : Cardinality(before(j)) = i - 1] = a[i]
  <2>1. PICK k \in 1..n : s[k] = a[i] BY <1>4
  <2>2. Cardinality(before(k)) = i - 1 BY <1>7, <2>1
  <2> HIDE DEF before
  <2> DEFINE j == CHOOSE j \in 1..n : Cardinality(before(j)) = i - 1
  <2>3. j \in 1..n /\ Cardinality(before(j)) = i - 1 BY <2>2
  <2> HIDE DEF j
  <2>4. PICK r \in 1..n : s[j] = a[r] BY <1>3, <2>3
  <2>5. r - 1 = i - 1 BY <1>7, <2>3, <2>4
  <2>6. r = i BY <1>2, <2>5
  <2> QED BY <2>4, <2>6 DEF j
<1>9. Arrivals(h) = [i \in 1..n |-> s[CHOOSE j \in 1..n : Cardinality(before(j)) = i - 1].item]
  BY DEF Arrivals, s, n
<1>10. Arrivals(h) = [i \in 1..n |-> a[i].item]
  <2> HIDE DEF before
  <2> QED BY <1>8, <1>9
<1> QED BY <1>1, <1>2, <1>10 DEF ItemsOf

(* A new heap.                                                             *)
LEMMA NewHeapSound == HeapInv(NewHeap, << >>)
<1> DEFINE a == << >>
<1>1. a \in Seq(Entry) /\ Len(a) = 0 OBVIOUS
<1>2. Lists(a, a) /\ ItemsOf(a) = << >> BY <1>1 DEF Lists, ItemsOf
<1>3. Entries(a) /\ Ordered(a) /\ EntriesOf(a) = {} BY <1>1 DEF Entries, Ordered, EntriesOf
<1> QED BY <1>2, <1>3 DEF HeapInv, NewHeap

(* push()                                                                  *)
LEMMA HeapPushSound ==
  ASSUME NEW h, NEW array, HeapInv(h, array), NEW item \in HeapItems
  PROVE  HeapInv(AfterHeapPush(h, item), Append(array, item))
<1> DEFINE s == h.entries
           n == Len(s)
           e == [item |-> item, seq |-> h.seq]
           u == Append(s, e)
           t == SiftUp(u, n + 1)
           r == AfterHeapPush(h, item)
<1>1. PICK a : Lists(s, a) /\ array = ItemsOf(a) BY DEF HeapInv
<1>2. /\ Entries(s) /\ Ordered(s) /\ n \in Nat /\ s \in Seq(Entry) /\ h.seq \in Nat /\ e \in Entry
      /\ \A j \in 1..n : s[j].seq < h.seq /\ s[j].seq \in Nat /\ s[j] \in Entry
      /\ e.seq = h.seq /\ e.item = item
  <2>1. h.seq \in Nat /\ Entries(s) /\ Ordered(s) /\ \A x \in EntriesOf(s) : x.seq < h.seq
    BY DEF HeapInv
  <2>2. s \in Seq(Entry) /\ n \in Nat BY <2>1 DEF Entries
  <2>3. e \in Entry BY <2>1 DEF Entry
  <2> HIDE DEF s
  <2>4. \A j \in 1..n : s[j] \in EntriesOf(s) BY DEF EntriesOf
  <2> QED BY <2>1, <2>2, <2>3, <2>4, EntryAt
<1>3. r = [entries |-> t, seq |-> h.seq + 1] BY DEF AfterHeapPush
<1> HIDE DEF e, r
<1>4. u \in Seq(Entry) /\ Len(u) = n + 1 /\ u[n + 1] = e /\ \A j \in 1..n : u[j] = s[j]
  BY <1>2
<1> HIDE DEF s, n, u
<1>5. \A j \in 1..(n + 1) : j \in 1..n \/ j = n + 1 BY <1>2
<1>6. Entries(u)
  <2>1. \A i, j \in 1..(n + 1) : u[i].seq = u[j].seq => i = j
    <3>1. ASSUME NEW i \in 1..(n + 1), NEW j \in 1..(n + 1), u[i].seq = u[j].seq PROVE i = j
      <4>1. CASE i \in 1..n /\ j \in 1..n BY <1>2, <1>4, <3>1, <4>1 DEF Entries, n
      <4>2. CASE i \in 1..n /\ j = n + 1 BY <1>2, <1>4, <3>1, <4>2
      <4>3. CASE i = n + 1 /\ j \in 1..n BY <1>2, <1>4, <3>1, <4>3
      <4> QED BY <1>5, <4>1, <4>2, <4>3
    <3> QED BY <3>1
  <2> QED BY <1>4, <2>1 DEF Entries
<1>7. EntriesOf(u) = EntriesOf(s) \cup {e}
  <2>1. EntriesOf(u) = {u[j] : j \in 1..(n + 1)} BY <1>4 DEF EntriesOf
  <2>2. EntriesOf(s) = {s[j] : j \in 1..n} BY DEF EntriesOf, n
  <2>3. n + 1 \in 1..(n + 1) /\ \A j \in 1..n : j \in 1..(n + 1) BY <1>2
  <2> QED BY <1>4, <1>5, <2>1, <2>2, <2>3
<1>8. Entries(t) /\ EntriesOf(t) = EntriesOf(u) /\ Ordered(t)
  <2>1. ASSUME NEW j \in 2..(n + 1), j # n + 1 PROVE IsBetter(u[j \div 2], u[j])
    <3>1. j \in 2..n /\ j \in 1..n /\ j \in Nat /\ j >= 2 BY <1>2, <2>1
    <3>2. j \div 2 \in 1..n
      <4>1. j \div 2 \in Nat /\ j \div 2 >= 1 /\ j \div 2 < j BY <3>1, Halves
      <4> QED BY <1>2, <3>1, <4>1
    <3>3. IsBetter(s[j \div 2], s[j]) BY <1>2, <3>1 DEF Ordered, n
    <3> QED BY <1>4, <3>1, <3>2, <3>3
  <2>2. n + 1 \in 1..Len(u) /\ 2 * (n + 1) > Len(u) BY <1>2, <1>4
  <2>3. \A j \in 2..Len(u) : j # n + 1 => IsBetter(u[j \div 2], u[j]) BY <1>4, <2>1
  <2> QED BY <1>6, <2>2, <2>3, SiftUpOrders
<1> HIDE DEF t
<1> DEFINE b == Append(a, e)
<1>9. Len(a) = n /\ a \in Seq(Entry) BY <1>1, <1>2, ListLength DEF Lists, n
<1>10. b \in Seq(Entry) /\ Len(b) = n + 1 /\ b[n + 1] = e /\ \A j \in 1..n : b[j] = a[j]
  BY <1>2, <1>9
<1>11. ItemsOf(b) = Append(array, item)
  <2>1. array = [j \in 1..n |-> a[j].item] BY <1>1, <1>9 DEF ItemsOf
  <2>2. Len(array) = n /\ \A j \in 1..n : array[j] = a[j].item
    BY <1>2, <2>1
  <2>3. array \in Seq(HeapItems)
    <3>1. \A j \in 1..n : a[j].item \in HeapItems BY <1>9, EntryAt
    <3> QED BY <1>2, <2>1, <3>1
  <2>4. ItemsOf(b) = [j \in 1..(n + 1) |-> b[j].item] BY <1>10 DEF ItemsOf
  <2>5. ItemsOf(b) \in Seq(HeapItems) /\ Len(ItemsOf(b)) = n + 1
    <3> HIDE DEF b
    <3>1. \A j \in 1..(n + 1) : b[j].item \in HeapItems BY <1>10, EntryAt
    <3> QED BY <1>2, <2>4, <3>1
  <2> DEFINE c == Append(array, item)
  <2>6. c \in Seq(HeapItems) /\ Len(c) = n + 1 /\ c[n + 1] = item /\ \A j \in 1..n : c[j] = array[j]
    BY <1>2, <2>2, <2>3
  <2>7. \A j \in 1..(n + 1) : ItemsOf(b)[j] = c[j]
    <3> HIDE DEF b, c
    <3> QED BY <1>2, <1>5, <1>10, <2>2, <2>4, <2>6
  <2> HIDE DEF b, c
  <2>8. ItemsOf(b) = [j \in 1..(n + 1) |-> ItemsOf(b)[j]] /\ c = [j \in 1..(n + 1) |-> c[j]]
    BY <2>5, <2>6
  <2> QED BY <2>7, <2>8 DEF c
<1> HIDE DEF b
<1>12. Lists(t, b)
  <2>1. EntriesOf(b) = EntriesOf(a) \cup {e}
    <3>1. EntriesOf(b) = {b[j] : j \in 1..(n + 1)} BY <1>10 DEF EntriesOf
    <3>2. EntriesOf(a) = {a[j] : j \in 1..n} BY <1>9 DEF EntriesOf
    <3>3. n + 1 \in 1..(n + 1) /\ \A j \in 1..n : j \in 1..(n + 1) BY <1>2
    <3> QED BY <1>5, <1>10, <3>1, <3>2, <3>3
  <2>2. ASSUME NEW i \in 1..(n + 1), NEW j \in 1..(n + 1), i < j PROVE b[i].seq < b[j].seq
    <3>1. i \in 1..n BY <1>2, <2>2
    <3>2. CASE j \in 1..n BY <1>1, <1>9, <1>10, <2>2, <3>1, <3>2 DEF Lists
    <3>3. CASE j = n + 1
      <4>1. a[i] \in EntriesOf(s) BY <1>1, <1>9, <3>1 DEF Lists, EntriesOf
      <4>2. a[i].seq < h.seq BY <4>1 DEF HeapInv, s
      <4> QED BY <1>2, <1>10, <3>1, <3>3, <4>2
    <3> QED BY <1>5, <3>2, <3>3
  <2> QED BY <1>1, <1>7, <1>8, <1>10, <2>1, <2>2 DEF Lists
<1>13. \A x \in EntriesOf(t) : x.seq < h.seq + 1
  <2>1. \A x \in EntriesOf(s) : x.seq < h.seq /\ x.seq \in Nat
    BY <1>2 DEF EntriesOf, n
  <2> QED BY <1>2, <1>7, <1>8, <2>1
<1>14. h.seq + 1 \in Nat BY <1>2
<1>15. r.entries = t /\ r.seq = h.seq + 1 /\ DOMAIN r = {"entries", "seq"}
  BY <1>3
<1> QED BY <1>8, <1>11, <1>12, <1>13, <1>14, <1>15 DEF HeapInv, r

\* The heaps of pushMany(), one item after the other.
IsPushed(h, items, m, f) ==
  f = [n \in 0..m |-> IF n = 0 THEN h ELSE AfterHeapPush(f[n - 1], items[n])]

(* The function that AfterHeapPushMany() describes exists.                 *)
LEMMA PushedExists ==
  ASSUME NEW h, NEW items, NEW n \in Nat
  PROVE  \E f : IsPushed(h, items, n, f)
<1> DEFINE T == {m \in 0..n : \E f : IsPushed(h, items, m, f)}
<1>1. 0 \in T
  <2> DEFINE f == [m \in 0..0 |-> h]
  <2>1. IsPushed(h, items, 0, f) BY DEF IsPushed
  <2> QED BY <2>1
<1>2. ASSUME NEW m \in 1..n, m - 1 \in T PROVE m \in T
  <2>1. PICK before : IsPushed(h, items, m - 1, before) BY <1>2
  <2> DEFINE f == [k \in 0..m |-> IF k = m THEN AfterHeapPush(before[m - 1], items[m]) ELSE before[k]]
  <2>2. \A k \in 0..(m - 1) :
          before[k] = IF k = 0 THEN h ELSE AfterHeapPush(before[k - 1], items[k])
    BY <2>1 DEF IsPushed
  <2>3. \A k \in 0..m : f[k] = IF k = 0 THEN h ELSE AfterHeapPush(f[k - 1], items[k])
    <3>1. ASSUME NEW k \in 0..m PROVE f[k] = IF k = 0 THEN h ELSE AfterHeapPush(f[k - 1], items[k])
      <4>1. CASE k = 0
        <5>1. 0 \in 0..(m - 1) /\ 0 # m OBVIOUS
        <5> QED BY <2>2, <4>1, <5>1
      <4>2. CASE k # 0
        <5>1. k - 1 \in 0..(m - 1) /\ k - 1 \in 0..m /\ k - 1 # m BY <4>2
        <5>2. f[k - 1] = before[k - 1] BY <5>1
        <5>3. f[k] = AfterHeapPush(before[k - 1], items[k])
          <6>1. CASE k = m BY <6>1
          <6>2. CASE k # m
            <7>1. k \in 0..(m - 1) BY <6>2
            <7> QED BY <2>2, <4>2, <6>2, <7>1
          <6> QED BY <6>1, <6>2
        <5> HIDE DEF f
        <5> QED BY <4>2, <5>2, <5>3
      <4> QED BY <4>1, <4>2
    <3> QED BY <3>1
  <2>4. f = [k \in 0..m |-> f[k]] OBVIOUS
  <2> HIDE DEF f
  <2>5. IsPushed(h, items, m, f) BY <2>3, <2>4 DEF IsPushed
  <2> QED BY <2>5
<1> DEFINE F == {m \in 0..n : m \notin T}
<1>3. SUFFICES ASSUME F # {} PROVE FALSE OBVIOUS
<1> HIDE DEF T
<1>4. PICK m \in F : \A k \in F : m <= k
  <2>1. F \subseteq Nat OBVIOUS
  <2> HIDE DEF F
  <2> QED BY <1>3, <2>1, LeastExists
<1>5. m \in 1..n /\ m - 1 \in 0..n /\ ~(m <= m - 1) BY <1>1, <1>4
<1>6. m - 1 \in T BY <1>4, <1>5
<1> QED BY <1>2, <1>4, <1>5, <1>6

\* The array and the first m items.
JoinedTo(array, items, m) ==
  [i \in 1..(Len(array) + m) |-> IF i <= Len(array) THEN array[i] ELSE items[i - Len(array)]]

(* One more item joins at the end.                                         *)
LEMMA JoinedMore ==
  ASSUME NEW S, NEW array \in Seq(S), NEW items \in Seq(S), NEW m \in 1..Len(items)
  PROVE  JoinedTo(array, items, m) = Append(JoinedTo(array, items, m - 1), items[m])
<1> DEFINE n == Len(array)
           b == JoinedTo(array, items, m - 1)
           c == Append(b, items[m])
<1>1. n \in Nat /\ m \in Nat /\ m >= 1 /\ items[m] \in S OBVIOUS
<1>2. b \in [1..(n + m - 1) -> S]
  <2>1. ASSUME NEW i \in 1..(n + m - 1) PROVE (IF i <= n THEN array[i] ELSE items[i - n]) \in S
    <3>1. CASE i <= n BY <3>1
    <3>2. CASE ~(i <= n)
      <4>1. i - n \in 1..Len(items) BY <1>1, <3>2
      <4> QED BY <3>2, <4>1
    <3> QED BY <3>1, <3>2
  <2>2. n + (m - 1) = n + m - 1 BY <1>1
  <2> QED BY <2>1, <2>2 DEF JoinedTo
<1>3. b \in Seq(S) /\ Len(b) = n + m - 1 BY <1>1, <1>2
<1>4. \A i \in 1..(n + m - 1) : b[i] = IF i <= n THEN array[i] ELSE items[i - n] BY <1>1 DEF JoinedTo
<1> HIDE DEF b, n
<1>5. /\ Len(c) = n + m /\ c[n + m] = items[m] /\ \A i \in 1..(n + m - 1) : c[i] = b[i]
      /\ c = [i \in 1..(n + m) |-> c[i]]
  BY <1>1, <1>3
<1>6. \A i \in 1..(n + m) : c[i] = IF i <= n THEN array[i] ELSE items[i - n]
  <2> HIDE DEF c
  <2>1. ASSUME NEW i \in 1..(n + m) PROVE c[i] = IF i <= n THEN array[i] ELSE items[i - n]
    <3>1. CASE i = n + m
      <4>1. ~(i <= n) /\ i - n = m BY <1>1, <3>1
      <4> QED BY <1>5, <3>1, <4>1
    <3>2. CASE i # n + m
      <4>1. i \in 1..(n + m - 1) BY <1>1, <3>2
      <4> QED BY <1>4, <1>5, <4>1
    <3> QED BY <3>1, <3>2
  <2> QED BY <2>1
<1> HIDE DEF c
<1>7. c = JoinedTo(array, items, m) BY <1>5, <1>6 DEF JoinedTo, n
<1> QED BY <1>7 DEF c, b

(* pushMany()                                                              *)
LEMMA HeapPushManySound ==
  ASSUME NEW h, NEW array \in Seq(HeapItems), HeapInv(h, array), NEW items \in Seq(HeapItems)
  PROVE  HeapInv(AfterHeapPushMany(h, items), array \o items)
<1> DEFINE n == Len(items)
           pushed == CHOOSE f : f = [m \in 0..n |-> IF m = 0 THEN h ELSE AfterHeapPush(f[m - 1], items[m])]
<1>1. AfterHeapPushMany(h, items) = pushed[n] BY DEF AfterHeapPushMany
<1>2. n \in Nat OBVIOUS
<1>3. IsPushed(h, items, n, pushed)
  <2>1. PICK f : IsPushed(h, items, n, f) BY <1>2, PushedExists
  <2> QED BY <2>1 DEF IsPushed
<1> HIDE DEF pushed
<1> DEFINE T == {m \in 0..n : HeapInv(pushed[m], JoinedTo(array, items, m))}
           F == {m \in 0..n : m \notin T}
<1>4. 0 \in T
  <2>1. pushed[0] = h BY <1>2, <1>3 DEF IsPushed
  <2>2. JoinedTo(array, items, 0) = array
    <3>1. JoinedTo(array, items, 0) = [i \in 1..Len(array) |-> array[i]] BY DEF JoinedTo
    <3> QED BY <3>1
  <2> QED BY <1>2, <2>1, <2>2
<1>5. ASSUME NEW m \in 1..n, m - 1 \in T PROVE m \in T
  <2>1. pushed[m] = AfterHeapPush(pushed[m - 1], items[m])
    <3>1. m \in 0..n /\ m # 0 BY <1>2
    <3> QED BY <1>3, <3>1 DEF IsPushed
  <2>2. HeapInv(pushed[m - 1], JoinedTo(array, items, m - 1)) BY <1>5
  <2>3. items[m] \in HeapItems OBVIOUS
  <2>6. JoinedTo(array, items, m) = Append(JoinedTo(array, items, m - 1), items[m]) BY JoinedMore
  <2>4. HeapInv(pushed[m], JoinedTo(array, items, m))
    BY <2>1, <2>2, <2>3, <2>6, HeapPushSound
  <2>5. m \in 0..n BY <1>2
  <2> QED BY <2>4, <2>5
<1>6. n \in T
  <2> SUFFICES ASSUME n \notin T PROVE FALSE OBVIOUS
  <2> HIDE DEF T
  <2>1. n \in F /\ F \subseteq Nat BY <1>2
  <2>2. PICK m \in F : \A k \in F : m <= k
    <3> HIDE DEF F
    <3> QED BY <2>1, LeastExists
  <2>3. m \in 1..n /\ m - 1 \in 0..n /\ ~(m <= m - 1) BY <1>2, <1>4, <2>2
  <2>4. m - 1 \in T BY <2>2, <2>3
  <2> QED BY <1>5, <2>2, <2>3, <2>4
<1>7. JoinedTo(array, items, n) = array \o items
  <2> DEFINE c == array \o items
             l == Len(array) + n
  <2>1. /\ c \in Seq(HeapItems) /\ Len(c) = l
        /\ \A i \in 1..l : c[i] = IF i <= Len(array) THEN array[i] ELSE items[i - Len(array)]
    BY ConcatProperties
  <2> HIDE DEF c
  <2>2. c = [i \in 1..l |-> c[i]] BY <2>1
  <2>3. c = JoinedTo(array, items, n) BY <2>1, <2>2 DEF JoinedTo
  <2> QED BY <2>3 DEF c
<1> QED BY <1>1, <1>6, <1>7

\* One entry leaves, and the last takes its position.
Filled(s, g) == [j \in 1..(Len(s) - 1) |-> IF j = g THEN s[Len(s)] ELSE s[j]]

(* Filling the gap loses the entry that was there and no other.            *)
LEMMA FilledEntries ==
  ASSUME NEW s, Entries(s), NEW g \in 1..Len(s)
  PROVE  LET t == Filled(s, g)
         IN  Entries(t) /\ Len(t) = Len(s) - 1 /\ EntriesOf(t) = EntriesOf(s) \ {s[g]}
<1> DEFINE n == Len(s)
           f == [j \in 1..(n - 1) |-> IF j = g THEN n ELSE j]
           t == Filled(s, g)
<1>1. /\ n \in Nat /\ n >= 1 /\ s \in Seq(Entry)
      /\ g \in Nat /\ g <= n /\ g >= 1 /\ g \in 1..n
  BY DEF Entries
<1>2. \A j \in 1..(n - 1) : f[j] \in 1..n /\ f[j] # g /\ (j = g => f[j] = n) /\ (j # g => f[j] = j)
  BY <1>1
<1>3. \A j \in 1..(n - 1) : t[j] = s[f[j]] BY DEF Filled
<1>4. t \in Seq(Entry) /\ Len(t) = n - 1
  <2>1. \A j \in 1..(n - 1) : s[f[j]] \in Entry
    <3> HIDE DEF f
    <3> QED BY <1>1, <1>2
  <2>2. t = [j \in 1..(n - 1) |-> t[j]] BY DEF Filled
  <2> HIDE DEF t, n
  <2>3. t \in [1..(n - 1) -> Entry] BY <1>3, <2>1, <2>2
  <2> QED BY <1>1, <2>3
<1> HIDE DEF f, t
<1>5. \A j, k \in 1..(n - 1) : f[j] = f[k] => j = k BY <1>1, <1>2
<1>6. \A k \in 1..n : k # g => \E j \in 1..(n - 1) : f[j] = k
  <2>1. ASSUME NEW k \in 1..n, k # g PROVE \E j \in 1..(n - 1) : f[j] = k
    <3>1. CASE k = n
      <4>1. g \in 1..(n - 1) BY <1>1, <2>1, <3>1
      <4> QED BY <1>2, <3>1, <4>1
    <3>2. CASE k # n
      <4>1. k \in 1..(n - 1) BY <1>1, <3>2
      <4> QED BY <1>2, <2>1, <4>1
    <3> QED BY <3>1, <3>2
  <2> QED BY <2>1
<1>7. \A j, k \in 1..n : s[j].seq = s[k].seq => j = k BY DEF Entries
<1> HIDE DEF n
<1>8. Entries(t)
  <2>1. ASSUME NEW j \in 1..(n - 1), NEW k \in 1..(n - 1), t[j].seq = t[k].seq PROVE j = k
    <3>1. s[f[j]].seq = s[f[k]].seq BY <1>3, <2>1
    <3>2. f[j] = f[k] BY <1>2, <1>7, <3>1
    <3> QED BY <1>5, <3>2
  <2> QED BY <1>4, <2>1 DEF Entries
<1>9. EntriesOf(t) = EntriesOf(s) \ {s[g]}
  <2>1. EntriesOf(t) = {t[j] : j \in 1..(n - 1)} BY <1>4 DEF EntriesOf
  <2>2. EntriesOf(s) = {s[j] : j \in 1..n} BY DEF EntriesOf, n
  <2>3. \A k \in 1..n : k # g => s[k] # s[g] BY <1>1, <1>7
  <2>4. \A j \in 1..(n - 1) : t[j] \in {s[k] : k \in 1..n} \ {s[g]} BY <1>2, <1>3, <2>3
  <2>5. \A k \in 1..n : s[k] # s[g] => \E j \in 1..(n - 1) : t[j] = s[k]
    <3>1. ASSUME NEW k \in 1..n, s[k] # s[g] PROVE \E j \in 1..(n - 1) : t[j] = s[k]
      <4>1. k # g BY <3>1
      <4>2. PICK j \in 1..(n - 1) : f[j] = k BY <1>6, <4>1
      <4> QED BY <1>3, <4>2
    <3> QED BY <3>1
  <2> QED BY <2>1, <2>2, <2>4, <2>5
<1> QED BY <1>4, <1>8, <1>9 DEF t, n

(* The list of what is left.                                               *)
LEMMA ListWithout ==
  ASSUME NEW s, NEW a, Lists(s, a), NEW f \in 1..Len(a), NEW t, EntriesOf(t) = EntriesOf(s) \ {a[f]}
  PROVE  Lists(t, Without(a, f)) /\ ItemsOf(Without(a, f)) = Without(ItemsOf(a), f)
<1> DEFINE n == Len(a)
           b == Without(a, f)
<1>1. a \in Seq(Entry) /\ n \in Nat /\ f \in Nat /\ f >= 1 /\ f <= n BY DEF Lists
<1>2. \A i \in 1..(n - 1) : /\ i \in 1..n /\ i + 1 \in 1..n
                           /\ b[i] = (IF i < f THEN a[i] ELSE a[i + 1])
  BY <1>1 DEF Without
<1>3. b \in Seq(Entry) /\ Len(b) = n - 1
  <2>1. \A i \in 1..(n - 1) : b[i] \in Entry
    <3> HIDE DEF b
    <3> QED BY <1>1, <1>2
  <2>2. b = [i \in 1..(n - 1) |-> b[i]] BY DEF Without
  <2> HIDE DEF b, n
  <2>3. b \in [1..(n - 1) -> Entry] BY <2>1, <2>2
  <2> QED BY <1>1, <2>3
<1> HIDE DEF b
<1>4. \A i, j \in 1..n : i < j => a[i].seq < a[j].seq BY DEF Lists
<1>5. \A i, j \in 1..(n - 1) : i < j => b[i].seq < b[j].seq
  <2>1. ASSUME NEW i \in 1..(n - 1), NEW j \in 1..(n - 1), i < j PROVE b[i].seq < b[j].seq
    <3>1. PICK k \in 1..n : b[i] = a[k] /\ k = (IF i < f THEN i ELSE i + 1) BY <1>2
    <3>2. PICK l \in 1..n : b[j] = a[l] /\ l = (IF j < f THEN j ELSE j + 1) BY <1>2
    <3>3. k < l BY <1>1, <2>1, <3>1, <3>2
    <3> QED BY <1>4, <3>1, <3>2, <3>3
  <2> QED BY <2>1
<1>6. EntriesOf(b) = EntriesOf(a) \ {a[f]}
  <2>1. EntriesOf(b) = {b[i] : i \in 1..(n - 1)} BY <1>3 DEF EntriesOf
  <2>2. EntriesOf(a) = {a[i] : i \in 1..n} BY DEF EntriesOf
  <2>3. \A i \in 1..n : a[i].seq \in Nat BY <1>1, EntryAt
  <2> HIDE DEF n
  <2>4. \A i \in 1..n : i # f => a[i] # a[f]
    <3>1. ASSUME NEW i \in 1..n, i # f PROVE a[i] # a[f]
      <4>1. i < f \/ f < i BY <1>1, <3>1
      <4>2. f \in 1..n BY <1>1
      <4>3. a[i].seq < a[f].seq \/ a[f].seq < a[i].seq BY <1>4, <4>1, <4>2
      <4> QED BY <2>3, <4>2, <4>3
    <3> QED BY <3>1
  <2>5. \A i \in 1..(n - 1) : \E k \in 1..n : b[i] = a[k] /\ k # f
    <3>1. ASSUME NEW i \in 1..(n - 1) PROVE \E k \in 1..n : b[i] = a[k] /\ k # f
      <4>1. PICK k \in 1..n : b[i] = a[k] /\ k = (IF i < f THEN i ELSE i + 1) BY <1>2
      <4>2. k # f BY <1>1, <4>1
      <4> QED BY <4>1, <4>2
    <3> QED BY <3>1
  <2>6. \A k \in 1..n : k # f => \E i \in 1..(n - 1) : b[i] = a[k]
    <3>1. ASSUME NEW k \in 1..n, k # f PROVE \E i \in 1..(n - 1) : b[i] = a[k]
      <4>1. CASE k < f
        <5>1. k \in 1..(n - 1) BY <1>1, <4>1
        <5> QED BY <1>2, <4>1, <5>1
      <4>2. CASE k > f
        <5>1. k - 1 \in 1..(n - 1) /\ ~(k - 1 < f) /\ (k - 1) + 1 = k BY <1>1, <4>2
        <5> QED BY <1>2, <5>1
      <4> QED BY <1>1, <3>1, <4>1, <4>2
    <3> QED BY <3>1
  <2>7. ASSUME NEW x \in EntriesOf(b) PROVE x \in EntriesOf(a) \ {a[f]}
    <3>1. PICK i \in 1..(n - 1) : x = b[i] BY <2>1
    <3>2. PICK k \in 1..n : b[i] = a[k] /\ k # f BY <2>5
    <3>3. a[k] # a[f] BY <2>4, <3>2
    <3> QED BY <2>2, <3>1, <3>2, <3>3
  <2>8. ASSUME NEW x \in EntriesOf(a) \ {a[f]} PROVE x \in EntriesOf(b)
    <3>1. PICK k \in 1..n : x = a[k] BY <2>2
    <3>2. k # f BY <3>1
    <3>3. PICK i \in 1..(n - 1) : b[i] = a[k] BY <2>6, <3>2
    <3> QED BY <2>1, <3>1, <3>3
  <2> QED BY <2>7, <2>8
<1>7. Lists(t, b) BY <1>3, <1>5, <1>6 DEF Lists
<1>8. ItemsOf(b) = Without(ItemsOf(a), f)
  <2>1. ItemsOf(a) = [i \in 1..n |-> a[i].item] BY DEF ItemsOf
  <2>2. Len(ItemsOf(a)) = n BY <1>1, <2>1
  <2>3. ItemsOf(b) = [i \in 1..(n - 1) |-> b[i].item] BY <1>3 DEF ItemsOf
  <2>4. \A i \in 1..(n - 1) :
          b[i].item = IF i < f THEN ItemsOf(a)[i] ELSE ItemsOf(a)[i + 1]
    BY <1>2, <2>1
  <2> HIDE DEF n
  <2> QED BY <2>2, <2>3, <2>4 DEF Without
<1> QED BY <1>7, <1>8 DEF b

(* What is left of a heap when one entry has gone.                         *)
LEMMA HeapWithout ==
  ASSUME NEW h, NEW a, NEW array, HeapInv(h, array), Lists(h.entries, a), array = ItemsOf(a),
         NEW f \in 1..Len(a), NEW t, Entries(t), Ordered(t),
         EntriesOf(t) = EntriesOf(h.entries) \ {a[f]}
  PROVE  HeapInv([h EXCEPT !.entries = t], Without(array, f))
<1> DEFINE r == [h EXCEPT !.entries = t]
<1>1. r.entries = t /\ r.seq = h.seq /\ DOMAIN r = {"entries", "seq"} BY DEF HeapInv
<1>2. Lists(t, Without(a, f)) /\ ItemsOf(Without(a, f)) = Without(array, f) BY ListWithout
<1>3. \A e \in EntriesOf(t) : e.seq < h.seq BY DEF HeapInv
<1>4. h.seq \in Nat BY DEF HeapInv
<1> HIDE DEF r
<1>5. HeapInv(r, Without(array, f)) BY <1>1, <1>2, <1>3, <1>4 DEF HeapInv
<1> QED BY <1>5 DEF r

(* The list and the heap hold the same entries.                            *)
LEMMA ListedAt ==
  ASSUME NEW s, Entries(s), NEW a, Lists(s, a)
  PROVE  /\ \A i \in 1..Len(s) : \E r \in 1..Len(a) : s[i] = a[r]
         /\ \A r \in 1..Len(a) : \E i \in 1..Len(s) : a[r] = s[i]
         /\ \A i, j \in 1..Len(s) : s[i] = s[j] => i = j
         /\ \A r \in 1..Len(a) : ItemsOf(a)[r] = a[r].item /\ a[r] \in Entry
<1>1. {a[r] : r \in 1..Len(a)} = {s[i] : i \in 1..Len(s)} BY DEF Lists, EntriesOf
<1>2. \A i, j \in 1..Len(s) : s[i] = s[j] => i = j BY DEF Entries
<1>3. \A r \in 1..Len(a) : ItemsOf(a)[r] = a[r].item BY DEF ItemsOf
<1>4. \A r \in 1..Len(a) : a[r] \in Entry BY DEF Lists
<1>5. \A i \in 1..Len(s) : \E r \in 1..Len(a) : s[i] = a[r]
  <2>1. ASSUME NEW i \in 1..Len(s) PROVE \E r \in 1..Len(a) : s[i] = a[r]
    <3>1. s[i] \in {a[r] : r \in 1..Len(a)} BY <1>1
    <3> QED BY <3>1
  <2> QED BY <2>1
<1>6. \A r \in 1..Len(a) : \E i \in 1..Len(s) : a[r] = s[i]
  <2>1. ASSUME NEW r \in 1..Len(a) PROVE \E i \in 1..Len(s) : a[r] = s[i]
    <3>1. a[r] \in {s[i] : i \in 1..Len(s)} BY <1>1
    <3> QED BY <3>1
  <2> QED BY <2>1
<1> QED BY <1>2, <1>3, <1>4, <1>5, <1>6

(* shift() takes the oldest of the highest priority.                       *)
LEMMA HeapShiftSound ==
  ASSUME NEW h, NEW array, HeapInv(h, array), NEW f \in 1..Len(array),
         \A j \in 1..Len(array) : /\ j < f => Priority[array[j]] < Priority[array[f]]
                                  /\ Priority[array[j]] <= Priority[array[f]]
  PROVE  HeapInv(AfterHeapShift(h), Without(array, f))
<1> DEFINE s == h.entries
           n == Len(s)
           rest == Filled(s, 1)
           t == IF n = 1 THEN << >> ELSE SiftDown(rest, 1)
<1>1. PICK a : Lists(s, a) /\ array = ItemsOf(a) BY DEF HeapInv
<1>2. Entries(s) /\ Ordered(s) /\ n \in Nat /\ s \in Seq(Entry) BY DEF HeapInv, Entries
<1>3. Len(a) = n /\ Len(array) = n
  <2>1. Len(a) = n BY <1>1, <1>2, ListLength
  <2> HIDE DEF n
  <2> QED BY <1>1, <1>2, <2>1 DEF ItemsOf
<1>14. /\ \A i \in 1..n : \E r \in 1..n : s[i] = a[r]
       /\ \A r \in 1..n : \E i \in 1..n : a[r] = s[i]
       /\ \A i, j \in 1..n : s[i] = s[j] => i = j
       /\ \A r \in 1..n : array[r] = a[r].item /\ a[r] \in Entry
  <2> HIDE DEF s
  <2>1. /\ \A i \in 1..Len(s) : \E r \in 1..Len(a) : s[i] = a[r]
        /\ \A r \in 1..Len(a) : \E i \in 1..Len(s) : a[r] = s[i]
        /\ \A i, j \in 1..Len(s) : s[i] = s[j] => i = j
        /\ \A r \in 1..Len(a) : ItemsOf(a)[r] = a[r].item /\ a[r] \in Entry
    BY <1>1, <1>2, ListedAt
  <2>2. Len(a) = n /\ Len(s) = n BY <1>3
  <2> HIDE DEF n
  <2> QED BY <1>1, <2>1, <2>2
<1> HIDE DEF s, n
<1>4. n >= 1 /\ f \in 1..n /\ 1 \in 1..n BY <1>2, <1>3
<1>5. s[1] = a[f]
  <2>1. PICK m \in 1..n : a[f] = s[m] BY <1>4, <1>14
  <2>2. PICK r \in 1..n : s[1] = a[r] BY <1>4, <1>14
  <2>3. SUFFICES ASSUME m # 1 PROVE FALSE BY <2>1
  <2>4. IsBetter(a[r], a[f])
    <3>1. m \in 2..n BY <1>2, <2>3
    <3> QED BY <1>2, <2>1, <2>2, <3>1, RootIsBest DEF n
  <2>5. r # f
    <3>1. s[1] # s[m] BY <1>4, <1>14, <2>3
    <3> QED BY <2>1, <2>2, <3>1
  <2>6. /\ array[r] = a[r].item /\ array[f] = a[f].item
        /\ a[r].item \in HeapItems /\ a[f].item \in HeapItems
        /\ a[r].seq \in Nat /\ a[f].seq \in Nat
    BY <1>4, <1>14 DEF Entry
  <2>7. Priority[a[r].item] \in Int /\ Priority[a[f].item] \in Int BY <2>6, HeapConstants
  <2>8. Priority[a[r].item] <= Priority[a[f].item] /\ (r < f => Priority[a[r].item] < Priority[a[f].item])
    BY <1>3, <2>6
  <2>9. f < r => a[f].seq < a[r].seq BY <1>1, <1>3, <1>4 DEF Lists
  <2> QED BY <1>4, <2>4, <2>5, <2>6, <2>7, <2>8, <2>9 DEF IsBetter
<1>6. Entries(rest) /\ Len(rest) = n - 1 /\ EntriesOf(rest) = EntriesOf(s) \ {s[1]}
  BY <1>2, <1>4, FilledEntries DEF n
<1>7. Entries(t) /\ Ordered(t) /\ EntriesOf(t) = EntriesOf(s) \ {s[1]}
  <2>1. CASE n = 1
    <3>1. t = << >> BY <2>1
    <3>2. Entries(<< >>) /\ Ordered(<< >>) BY DEF Entries, Ordered
    <3>3. EntriesOf(<< >>) = {} BY DEF EntriesOf
    <3>4. EntriesOf(s) = {s[1]}
      <4>1. EntriesOf(s) = {s[j] : j \in 1..1} BY <2>1 DEF EntriesOf, n
      <4>2. 1..1 = {1} OBVIOUS
      <4> QED BY <4>1, <4>2
    <3> QED BY <3>1, <3>2, <3>3, <3>4
  <2>2. CASE n # 1
    <3>1. t = SiftDown(rest, 1) BY <2>2
    <3>2. \A j \in 2..(n - 1) : j \div 2 # 1 => IsBetter(rest[j \div 2], rest[j])
      <4>1. ASSUME NEW j \in 2..(n - 1), j \div 2 # 1 PROVE IsBetter(rest[j \div 2], rest[j])
        <5>1. j \in Nat /\ j >= 2 /\ j \in 2..n /\ j # 1 /\ j \in 1..(n - 1) BY <1>2, <4>1
        <5>2. j \div 2 \in Nat /\ j \div 2 >= 1 /\ j \div 2 < j BY <5>1, Halves
        <5>3. j \div 2 \in 1..(n - 1) BY <1>2, <5>1, <5>2
        <5>4. rest[j \div 2] = s[j \div 2] /\ rest[j] = s[j] BY <4>1, <5>1, <5>3 DEF Filled, n
        <5>5. IsBetter(s[j \div 2], s[j]) BY <1>2, <5>1 DEF Ordered, n
        <5> QED BY <5>4, <5>5
      <4> QED BY <4>1
    <3>3. n - 1 >= 1 BY <1>2, <1>4, <2>2
    <3> HIDE DEF rest
    <3>4. LET u == SiftDown(rest, 1)
          IN  Entries(u) /\ Len(u) = Len(rest) /\ EntriesOf(u) = EntriesOf(rest) /\ Ordered(u)
      BY <1>6, <3>2, <3>3, SiftDownOrders
    <3> QED BY <1>6, <3>1, <3>4
  <2> QED BY <2>1, <2>2
<1>8. AfterHeapShift(h) = [h EXCEPT !.entries = t] BY DEF AfterHeapShift, Filled, s, n
<1> HIDE DEF t, rest
<1>9. HeapInv([h EXCEPT !.entries = t], Without(array, f))
  BY <1>1, <1>3, <1>5, <1>7, HeapWithout DEF s
<1> QED BY <1>8, <1>9

(* popLowest() drops the newest of the lowest priority: a leaf, so that    *)
(* the entry that fills the gap can only rise.                             *)
LEMMA HeapPopLowestSound ==
  ASSUME NEW h, NEW array, HeapInv(h, array), NEW d \in 1..Len(array),
         \A j \in 1..Len(array) : /\ d < j => Priority[array[d]] < Priority[array[j]]
                                  /\ Priority[array[d]] <= Priority[array[j]]
  PROVE  HeapInv(AfterPopLowest(h), Without(array, d))
<1> DEFINE s == h.entries
           n == Len(s)
           gap == Worst(h)
           rest == Filled(s, gap)
           t == IF gap = n THEN rest ELSE SiftUp(SiftDown(rest, gap), gap)
<1>1. PICK a : Lists(s, a) /\ array = ItemsOf(a) BY DEF HeapInv
<1>2. Entries(s) /\ Ordered(s) /\ n \in Nat /\ s \in Seq(Entry) BY DEF HeapInv, Entries
<1>3. Len(a) = n /\ Len(array) = n
  <2>1. Len(a) = n BY <1>1, <1>2, ListLength
  <2> HIDE DEF n
  <2> QED BY <1>1, <1>2, <2>1 DEF ItemsOf
<1>14. /\ \A i \in 1..n : \E r \in 1..n : s[i] = a[r]
       /\ \A r \in 1..n : \E i \in 1..n : a[r] = s[i]
       /\ \A i, j \in 1..n : s[i] = s[j] => i = j
       /\ \A r \in 1..n : array[r] = a[r].item /\ a[r] \in Entry
  <2> HIDE DEF s
  <2>1. /\ \A i \in 1..Len(s) : \E r \in 1..Len(a) : s[i] = a[r]
        /\ \A r \in 1..Len(a) : \E i \in 1..Len(s) : a[r] = s[i]
        /\ \A i, j \in 1..Len(s) : s[i] = s[j] => i = j
        /\ \A r \in 1..Len(a) : ItemsOf(a)[r] = a[r].item /\ a[r] \in Entry
    BY <1>1, <1>2, ListedAt
  <2>2. Len(a) = n /\ Len(s) = n BY <1>3
  <2> HIDE DEF n
  <2> QED BY <1>1, <2>1, <2>2
<1> HIDE DEF s, n
<1>4. n >= 1 /\ d \in 1..n BY <1>2, <1>3
<1>5. PICK w \in 1..n : a[d] = s[w] BY <1>4, <1>14
<1>6. ASSUME NEW j \in 1..n, j # w PROVE IsBetter(s[j], s[w])
  <2>1. PICK r \in 1..n : s[j] = a[r] BY <1>4, <1>14
  <2>2. r # d
    <3>1. s[j] # s[w] BY <1>6, <1>14
    <3> QED BY <1>5, <2>1, <3>1
  <2>3. /\ array[r] = a[r].item /\ array[d] = a[d].item
        /\ a[r].item \in HeapItems /\ a[d].item \in HeapItems
        /\ a[r].seq \in Nat /\ a[d].seq \in Nat
    BY <1>4, <1>14 DEF Entry
  <2>4. Priority[a[r].item] \in Int /\ Priority[a[d].item] \in Int BY <2>3, HeapConstants
  <2>5. Priority[a[d].item] <= Priority[a[r].item] /\ (d < r => Priority[a[d].item] < Priority[a[r].item])
    BY <1>3, <2>3
  <2>6. r < d => a[r].seq < a[d].seq BY <1>1, <1>3, <1>4 DEF Lists
  <2>7. IsBetter(a[r], a[d])
    BY <1>4, <2>2, <2>3, <2>4, <2>5, <2>6 DEF IsBetter
  <2> QED BY <1>5, <2>1, <2>7
<1>7. gap = w
  <2>1. gap \in 1..n /\ \A j \in 1..n : j # gap => IsBetter(s[j], s[gap])
    <3>1. gap = CHOOSE i \in 1..n : \A j \in 1..n : j # i => IsBetter(s[j], s[i])
      BY DEF Worst, s, n
    <3> HIDE DEF gap
    <3> QED BY <1>6, <3>1
  <2> HIDE DEF gap
  <2>2. SUFFICES ASSUME gap # w PROVE FALSE OBVIOUS
  <2>3. IsBetter(s[w], s[gap]) /\ IsBetter(s[gap], s[w]) BY <1>6, <2>1, <2>2
  <2> QED BY <1>2, <2>1, <2>2, <2>3, BetterOrWorse DEF n
<1> HIDE DEF gap
<1>8. 2 * w > n
  <2>1. SUFFICES ASSUME 2 * w <= n PROVE FALSE BY <1>2
  <2>2. 2 * w \in 2..n /\ 2 * w \in 1..n /\ 2 * w # w /\ (2 * w) \div 2 = w BY <1>2, <2>1
  <2>3. IsBetter(s[w], s[2 * w])
    <3>1. IsBetter(s[(2 * w) \div 2], s[2 * w]) BY <1>2, <2>2 DEF Ordered, n
    <3> QED BY <2>2, <3>1
  <2>4. IsBetter(s[2 * w], s[w]) BY <1>6, <2>2
  <2> QED BY <1>2, <2>2, <2>3, <2>4, BetterOrWorse DEF n
<1>9. Entries(rest) /\ Len(rest) = n - 1 /\ EntriesOf(rest) = EntriesOf(s) \ {s[w]}
  BY <1>2, <1>7, FilledEntries DEF n
<1>10. ASSUME NEW j \in 2..(n - 1), j # w PROVE IsBetter(rest[j \div 2], rest[j])
  <2>1. j \in Nat /\ j >= 2 /\ j \in 2..n /\ j \in 1..(n - 1) BY <1>2, <1>10
  <2>2. j \div 2 \in Nat /\ j \div 2 >= 1 /\ j \div 2 < j /\ (j = 2 * (j \div 2) \/ j = 2 * (j \div 2) + 1)
    BY <2>1, Halves
  <2>3. j \div 2 \in 1..(n - 1) /\ j \div 2 # w BY <1>2, <1>8, <2>1, <2>2
  <2>4. rest[j \div 2] = s[j \div 2] /\ rest[j] = s[j] BY <1>7, <1>10, <2>1, <2>3 DEF Filled, n
  <2>5. IsBetter(s[j \div 2], s[j]) BY <1>2, <2>1 DEF Ordered, n
  <2> QED BY <2>4, <2>5
<1>11. Entries(t) /\ Ordered(t) /\ EntriesOf(t) = EntriesOf(s) \ {s[w]}
  <2>1. CASE gap = n
    <3>1. t = rest BY <2>1
    <3>2. \A j \in 2..(n - 1) : j # w BY <1>2, <1>7, <2>1
    <3>3. Ordered(rest)
      <4> HIDE DEF rest
      <4> QED BY <1>9, <1>10, <3>2 DEF Ordered
    <3> QED BY <1>9, <3>1, <3>3
  <2>2. CASE gap # n
    <3>1. t = SiftUp(SiftDown(rest, w), w) BY <1>7, <2>2
    <3> HIDE DEF rest, t
    <3>2. w \in 1..Len(rest) /\ 2 * w > Len(rest) BY <1>2, <1>7, <1>8, <1>9, <2>2
    <3>3. SiftDown(rest, w) = rest
      <4>1. rest \in Seq(Entry) BY <1>9 DEF Entries
      <4> QED BY <3>2, <4>1, LeavesStay
    <3>4. LET u == SiftUp(rest, w)
          IN  Entries(u) /\ Len(u) = Len(rest) /\ EntriesOf(u) = EntriesOf(rest) /\ Ordered(u)
      BY <1>9, <1>10, <3>2, SiftUpOrders
    <3> QED BY <1>9, <3>1, <3>3, <3>4
  <2> QED BY <2>1, <2>2
<1>12. AfterPopLowest(h) = [h EXCEPT !.entries = t] BY DEF AfterPopLowest, Filled, s, n, gap
<1> HIDE DEF t, rest
<1>13. HeapInv([h EXCEPT !.entries = t], Without(array, d))
  BY <1>1, <1>3, <1>4, <1>5, <1>11, HeapWithout DEF s
<1> QED BY <1>12, <1>13

-----------------------------------------------------------------------------
\* What every step keeps of the heap.
HeapSide == IF paired THEN HeapInv(heap, ToArray(ring)) ELSE heap = NewHeap

(* What every step does to the heap that is given the items of the ring.   *)
LEMMA HeapStep ==
  ASSUME RingInv(ring), paired, HeapInv(heap, ToArray(ring)), Next
  PROVE  paired' = paired /\ HeapInv(heap', ToArray(ring'))
<1> DEFINE s == ToArray(ring)
<1>1. /\ s \in Seq(Items) /\ Len(s) = ring.size /\ ring.size \in Nat
      /\ \A i \in 1..ring.size : s[i] = At(ring, i - 1)
  BY ArrayOfRing
<1>2. Items \subseteq HeapItems BY QueuesConstants
<1>3. Seq(Items) \subseteq Seq(HeapItems) BY <1>2
<1> HIDE DEF s
<1>4. ASSUME NEW batch \in Batches, PushMany(batch) PROVE paired' = paired /\ HeapInv(heap', ToArray(ring'))
  <2>1. batch \in Seq(Items) /\ Fits(ring.size + Len(batch))
    BY <1>4, RoomFits, QueuesConstants DEF PushMany
  <2>2. ToArray(ring') = s \o batch BY <1>4, <2>1, PushManySound DEF PushMany, s
  <2>3. heap' = AfterHeapPushMany(heap, batch) /\ paired' = paired BY <1>4 DEF PushMany
  <2>4. s \in Seq(HeapItems) /\ batch \in Seq(HeapItems) BY <1>1, <1>3, <2>1
  <2>5. HeapInv(AfterHeapPushMany(heap, batch), s \o batch)
    BY <2>4, HeapPushManySound DEF s
  <2> QED BY <2>2, <2>3, <2>5
<1>5. ASSUME NEW item \in Items, Push(item) PROVE paired' = paired /\ HeapInv(heap', ToArray(ring'))
  <2> DEFINE batch == << item >>
  <2>1. 1 \in 1..MaxItems
    BY <1>1, <1>5, QueuesConstants DEF Push, Room
  <2>2. batch = [i \in 1..1 |-> item]
    OBVIOUS
  <2>3. batch \in Seq(Items) /\ Len(batch) = 1
    BY <2>1, <2>2, CopiesAreABatch
  <2>4. ring' = AfterPushMany(ring, batch) /\ Room(1)
    BY <1>5 DEF Push, AfterPush
  <2>5. s \o batch = Append(s, item) BY <1>1
  <2> HIDE DEF batch
  <2>6. ToArray(ring') = s \o batch
    <3>1. Fits(ring.size + Len(batch)) BY <2>3, <2>4, RoomFits
    <3> QED BY <2>3, <2>4, <3>1, PushManySound DEF s
  <2>7. heap' = AfterHeapPush(heap, item) /\ paired' = paired BY <1>5 DEF Push
  <2>8. HeapInv(AfterHeapPush(heap, item), Append(s, item))
    BY <1>2, HeapPushSound DEF s
  <2> QED BY <2>5, <2>6, <2>7, <2>8
<1>6. CASE ShiftHighestPriority
  <2> DEFINE f == Foremost(ring, Priority)
  <2>1. /\ f \in 0..(ring.size - 1)
        /\ \A j \in 0..(f - 1) : Priority[At(ring, j)] < Priority[At(ring, f)]
        /\ \A j \in f..(ring.size - 1) : Priority[At(ring, j)] <= Priority[At(ring, f)]
    BY <1>6, ForemostExists DEF ShiftHighestPriority
  <2>2. ring' = AfterRemoveAt(ring, f) /\ heap' = AfterHeapShift(heap) /\ paired' = paired
    BY <1>6 DEF ShiftHighestPriority
  <2> HIDE DEF f
  <2>3. ToArray(ring') = Without(s, f + 1) BY <2>1, <2>2, RemoveAtSound DEF s
  <2>4. f + 1 \in 1..Len(s) /\ s[f + 1] = At(ring, f) BY <1>1, <2>1
  <2>5. ASSUME NEW j \in 1..Len(s)
        PROVE  /\ j < f + 1 => Priority[s[j]] < Priority[s[f + 1]]
               /\ Priority[s[j]] <= Priority[s[f + 1]]
    <3>1. s[j] = At(ring, j - 1) /\ j - 1 \in 0..(ring.size - 1) /\ (j < f + 1 <=> j - 1 <= f - 1)
      BY <1>1, <2>1
    <3>2. Priority[s[j]] \in Int /\ Priority[s[f + 1]] \in Int
      <4>1. s[j] \in HeapItems /\ s[f + 1] \in HeapItems BY <1>1, <1>2, <2>4
      <4> QED BY <4>1, HeapConstants
    <3>3. CASE j < f + 1
      <4>1. j - 1 \in 0..(f - 1) BY <1>1, <2>1, <3>1, <3>3
      <4> QED BY <2>1, <2>4, <3>1, <3>2, <4>1
    <3>4. CASE ~(j < f + 1)
      <4>1. j - 1 \in f..(ring.size - 1) BY <1>1, <2>1, <3>1, <3>4
      <4> QED BY <2>1, <2>4, <3>1, <3>2, <3>4, <4>1
    <3> QED BY <3>3, <3>4
  <2>6. HeapInv(AfterHeapShift(heap), Without(s, f + 1))
    <3> DEFINE g == f + 1
    <3>1. g \in 1..Len(s) /\ \A j \in 1..Len(s) : /\ j < g => Priority[s[j]] < Priority[s[g]]
                                                  /\ Priority[s[j]] <= Priority[s[g]]
      BY <2>4, <2>5
    <3> HIDE DEF g
    <3>2. HeapInv(heap, s) BY DEF s
    <3>3. HeapInv(AfterHeapShift(heap), Without(s, g)) BY <3>1, <3>2, HeapShiftSound
    <3> QED BY <3>3 DEF g
  <2> QED BY <2>2, <2>3, <2>6
<1>7. ASSUME NEW i \in 0..(ring.size - 1), DropLowest(i)
      PROVE  paired' = paired /\ HeapInv(heap', ToArray(ring'))
  <2>1. /\ ring' = AfterRemoveAt(ring, i) /\ heap' = AfterPopLowest(heap) /\ paired' = paired
        /\ \A j \in 0..(ring.size - 1) :
             Priority[At(ring, i)] <= Priority[At(ring, j)]
               /\ (j > i => Priority[At(ring, i)] < Priority[At(ring, j)])
    BY <1>7 DEF DropLowest
  <2>2. ToArray(ring') = Without(s, i + 1) BY <2>1, RemoveAtSound DEF s
  <2> DEFINE d == i + 1
  <2>3. d \in 1..Len(s) /\ s[d] = At(ring, i) BY <1>1
  <2>4. \A j \in 1..Len(s) : /\ d < j => Priority[s[d]] < Priority[s[j]]
                             /\ Priority[s[d]] <= Priority[s[j]]
    <3>1. ASSUME NEW j \in 1..Len(s)
          PROVE  (d < j => Priority[s[d]] < Priority[s[j]]) /\ Priority[s[d]] <= Priority[s[j]]
      <4>1. s[j] = At(ring, j - 1) /\ j - 1 \in 0..(ring.size - 1) /\ (d < j => j - 1 > i)
        BY <1>1
      <4> QED BY <2>1, <2>3, <4>1
    <3> QED BY <3>1
  <2> HIDE DEF d
  <2>5. HeapInv(AfterPopLowest(heap), Without(s, d))
    <3>1. HeapInv(heap, s) BY DEF s
    <3> QED BY <2>3, <2>4, <3>1, HeapPopLowestSound
  <2> QED BY <2>1, <2>2, <2>5 DEF d
<1>8. CASE Clear
  <2>1. ToArray(ring') = << >> /\ heap' = NewHeap /\ paired' = paired
    BY <1>8, ClearSound DEF Clear, AfterHeapClear
  <2> QED BY <2>1, NewHeapSound
<1>9. CASE Dispose
  <2>1. ToArray(ring') = << >> /\ heap' = NewHeap /\ paired' = paired
    BY <1>9, DisposeSound DEF Dispose, AfterHeapClear
  <2> QED BY <2>1, NewHeapSound
<1>10. ASSUME NEW minimum \in Minimums, Shrink(minimum)
       PROVE  paired' = paired /\ HeapInv(heap', ToArray(ring'))
  <2>1. ToArray(ring') = s BY <1>10, ShrinkSound, QueuesConstants DEF Shrink, s
  <2>2. heap' = heap /\ paired' = paired BY <1>10 DEF Shrink
  <2> QED BY <2>1, <2>2 DEF s
<1>11. /\ \A batch \in Batches : ~UnshiftMany(batch)
       /\ \A item \in Items : ~Unshift(item)
       /\ \A item \in Items, n \in 1..MaxItems : ~Fill(item, n)
       /\ ~Shift
       /\ \A i \in 0..(ring.size - 1) : ~RemoveAt(i)
  BY DEF UnshiftMany, Unshift, Fill, Shift, RemoveAt
<1> QED BY <1>4, <1>5, <1>6, <1>7, <1>8, <1>9, <1>10, <1>11 DEF Next

(* A heap that is given nothing stays empty.                               *)
LEMMA HeapUnused ==
  ASSUME ~paired, heap = NewHeap, Next
  PROVE  paired' = paired /\ heap' = NewHeap
<1>1. \A i \in 0..(ring.size - 1) : ~DropLowest(i) BY DEF DropLowest
<1> QED BY <1>1 DEF Next, PushMany, Push, UnshiftMany, Unshift, Fill, Shift, RemoveAt,
                    ShiftHighestPriority, Clear, Shrink, Dispose

(* HeapIsSound, for all constants: the heap order survives every push,     *)
(* shift and popLowest, and the heap holds what the ring holds, so that    *)
(* the two hand out and drop the same items.                               *)
THEOREM HeapAlwaysSound == Spec => []HeapIsSound
<1>1. Init => HeapSide
  BY NewRingSound, QueuesConstants, NewHeapSound DEF Init, HeapSide
<1>2. RingKeepsShape /\ HeapSide /\ [Next]_vars => HeapSide'
  <2> SUFFICES ASSUME RingKeepsShape, HeapSide, [Next]_vars PROVE HeapSide'
    OBVIOUS
  <2>1. CASE Next
    BY <2>1, HeapStep, HeapUnused DEF RingKeepsShape, HeapSide
  <2>2. CASE UNCHANGED vars
    BY <2>2 DEF vars, HeapSide
  <2> QED BY <2>1, <2>2
<1>3. HeapSide => HeapIsSound
  <2>1. ASSUME paired, HeapInv(heap, ToArray(ring)) PROVE HeapIsSound
    BY <2>1, ArrivalsAreListed DEF HeapIsSound, HeapIsOrdered, HeapAgreesWithRing, HeapInv, Ordered
  <2>2. ASSUME ~paired, heap = NewHeap PROVE HeapIsSound
    BY <2>2 DEF HeapIsSound, HeapIsOrdered, HeapAgreesWithRing, NewHeap
  <2> QED BY <2>1, <2>2 DEF HeapSide
<1> QED BY <1>1, <1>2, <1>3, ShapeKept, PTL DEF Spec
=============================================================================
