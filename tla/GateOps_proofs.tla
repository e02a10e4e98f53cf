--------------------------- MODULE GateOps_proofs ---------------------------
(***************************************************************************)
(* What every operation of a permit gate preserves, for any finite set of  *)
(* calls, any capacity and any queue bound.  The facts are about gate      *)
(* records, so they serve every specification that keeps one.              *)
(***************************************************************************)
EXTENDS GateOps, FiniteSetTheorems, SequenceTheorems, WellFoundedInduction, TLAPS

\* A call that waits or holds asked for a weight the gate can grant.
WeightInv(g) ==
  \A c \in Calls : g.status[c] \in {"waiting", "holding"} => g.weight[c] \in 1..Capacity

LedgerInv(g) ==
  /\ g.held = UnitCount(g, Holders(g))
  /\ g.available + g.held <= Capacity

GateInv(g) ==
  /\ g \in GateType
  /\ QueueInv(g)
  /\ WeightInv(g)
  /\ LedgerInv(g)

(* A non-empty set of numbers has a least element.                         *)
LEMMA LeastExists ==
  ASSUME NEW T, T \subseteq Nat, T # {}
  PROVE  \E c \in T : \A d \in T : c <= d
<1> DEFINE R == OpToRel(<, Nat)
<1>1. R = {ss \in Nat \X Nat : ss[1] < ss[2]} BY DEF OpToRel
<1>2. PICK c \in T : \A d \in T : ~(<< d, c >> \in R)
  <2> HIDE DEF R
  <2>1. IsWellFoundedOn(R, Nat) BY NatLessThanWellFounded DEF R
  <2> QED BY <2>1, WFMin
<1>3. ASSUME NEW d \in T, ~(c <= d) PROVE FALSE
  <2>1. c \in Nat /\ d \in Nat /\ d < c BY <1>3
  <2>2. << d, c >> \in R BY <1>1, <2>1
  <2> QED BY <1>2, <2>2
<1> HIDE DEF R
<1> QED BY <1>3

-----------------------------------------------------------------------------
(* Counting units.                                                         *)

(* The units of a set of calls form a finite set.                          *)
LEMMA UnitsFinite ==
  ASSUME NEW g, NEW S \in SUBSET Calls
  PROVE  IsFiniteSet(Units(g, S)) /\ UnitCount(g, S) \in Nat
<1>1. IsFiniteSet(S) BY FS_Subset, GateConstants
<1>2. IsFiniteSet(1..Capacity) BY FS_Interval, GateConstants
<1>3. IsFiniteSet(S \X (1..Capacity)) BY <1>1, <1>2, FS_Product
<1>4. Units(g, S) \in SUBSET (S \X (1..Capacity)) BY DEF Units
<1>5. IsFiniteSet(Units(g, S)) BY <1>3, <1>4, FS_Subset
<1> QED BY <1>5, FS_CardinalityType DEF UnitCount

(* No calls, no units.                                                     *)
LEMMA UnitsOfNone ==
  ASSUME NEW g
  PROVE  UnitCount(g, {}) = 0
<1>1. Units(g, {}) = {} BY DEF Units
<1> QED BY <1>1, FS_EmptySet DEF UnitCount

(* Units of disjoint sets of calls add up.                                 *)
LEMMA UnitsAdd ==
  ASSUME NEW g, NEW S \in SUBSET Calls, NEW T \in SUBSET Calls, S \cap T = {}
  PROVE  UnitCount(g, S \cup T) = UnitCount(g, S) + UnitCount(g, T)
<1>1. Units(g, S \cup T) = Units(g, S) \cup Units(g, T) BY DEF Units
<1>2. Units(g, S) \cap Units(g, T) = {} BY DEF Units
<1>3. Cardinality(Units(g, S) \cup Units(g, T)) =
        Cardinality(Units(g, S)) + Cardinality(Units(g, T)) - Cardinality({})
  BY <1>2, UnitsFinite, FS_Union
<1>4. UnitCount(g, S) \in Nat /\ UnitCount(g, T) \in Nat BY UnitsFinite
<1>5. Cardinality({}) = 0 BY FS_EmptySet
<1>6. UnitCount(g, S \cup T) = UnitCount(g, S) + UnitCount(g, T) - 0
  BY <1>1, <1>3, <1>5 DEF UnitCount
<1> QED BY <1>4, <1>6

(* A call alone holds as many units as it weighs.                          *)
LEMMA UnitsOfOne ==
  ASSUME NEW g, NEW c \in Calls, g.weight[c] \in 0..Capacity
  PROVE  UnitCount(g, {c}) = g.weight[c]
<1> DEFINE U == Units(g, {c})
           f == [k \in 1..g.weight[c] |-> <<c, k>>]
<1>0. Capacity \in Nat BY GateConstants
<1>1. U = {u \in {c} \X (1..Capacity) : u[2] <= g.weight[c]} BY DEF Units
<1>2. \A k \in 1..g.weight[c] : <<c, k>> \in U BY <1>0, <1>1
<1>3. \A u \in U : u[2] \in 1..g.weight[c] /\ u = <<c, u[2]>> BY <1>0, <1>1
<1>4. f \in Bijection(1..g.weight[c], U)
  <2> HIDE DEF U
  <2>1. f \in [1..g.weight[c] -> U] BY <1>2
  <2>2. \A j, k \in 1..g.weight[c] : f[j] = f[k] => j = k OBVIOUS
  <2>3. \A u \in U : \E k \in 1..g.weight[c] : f[k] = u BY <1>3
  <2> QED BY <2>1, <2>2, <2>3 DEF Bijection, Injection, Surjection, IsInjective
<1>5. IsFiniteSet(1..g.weight[c]) /\ Cardinality(1..g.weight[c]) = g.weight[c]
  <2> DEFINE w == g.weight[c]
  <2>1. w \in Int /\ 1 \in Int /\ w >= 0 BY <1>0
  <2> HIDE DEF w
  <2>2. IsFiniteSet(1..w) /\ Cardinality(1..w) = w BY <2>1, FS_Interval
  <2> QED BY <2>2 DEF w
<1>6. Cardinality(U) = g.weight[c]
  <2> HIDE DEF U, f
  <2> QED BY <1>4, <1>5, FS_Bijection DEF ExistsBijection
<1> QED BY <1>6 DEF UnitCount

(* Counting depends only on the weights of the calls counted.              *)
LEMMA UnitsOfSameWeights ==
  ASSUME NEW g, NEW h, NEW S \in SUBSET Calls,
         \A c \in S : g.weight[c] = h.weight[c]
  PROVE  UnitCount(g, S) = UnitCount(h, S)
<1>1. Units(g, S) = Units(h, S) BY DEF Units
<1> QED BY <1>1 DEF UnitCount

(* A set of calls of which the weights fit splits off any one of them.     *)
LEMMA UnitsWithout ==
  ASSUME NEW g, NEW S \in SUBSET Calls, NEW c \in S, g.weight[c] \in 0..Capacity
  PROVE  UnitCount(g, S) = UnitCount(g, S \ {c}) + g.weight[c]
<1>1. S = (S \ {c}) \cup {c} /\ (S \ {c}) \cap {c} = {} OBVIOUS
<1>2. S \ {c} \in SUBSET Calls /\ {c} \in SUBSET Calls /\ c \in Calls OBVIOUS
<1>3. UnitCount(g, (S \ {c}) \cup {c}) = UnitCount(g, S \ {c}) + UnitCount(g, {c})
  BY <1>1, <1>2, UnitsAdd
<1>4. UnitCount(g, {c}) = g.weight[c] BY <1>2, UnitsOfOne
<1> QED BY <1>1, <1>3, <1>4

-----------------------------------------------------------------------------
(* The operations.                                                         *)

(* The constructor: a gate with at most Capacity tokens is sound.          *)
LEMMA NewGateSound ==
  ASSUME NEW tokens \in 0..Capacity
  PROVE  GateInv(NewGate(tokens))
<1> DEFINE g == NewGate(tokens)
<1>0. Capacity \in Nat BY GateConstants
<1>1. g \in GateType BY <1>0 DEF NewGate, GateType, Status
<1>2. QueueInv(g) BY DEF NewGate, QueueInv, LiveWaiters
<1>3. WeightInv(g) BY DEF NewGate, WeightInv
<1>4. Holders(g) = {} BY DEF NewGate, Holders
<1>5. g.held = 0 /\ g.available = tokens BY DEF NewGate
<1> HIDE DEF g
<1>6. LedgerInv(g) BY <1>0, <1>4, <1>5, UnitsOfNone DEF LedgerInv
<1>7. GateInv(g) BY <1>1, <1>2, <1>3, <1>6 DEF GateInv
<1> QED BY <1>7 DEF g

(* A refusal leaves the ledger and the queue as they are.                  *)
LEMMA RefusedSound ==
  ASSUME NEW g, GateInv(g), NEW c \in Calls, g.status[c] = "new"
  PROVE  GateInv(Refused(g, c))
<1> DEFINE h == Refused(g, c)
<1>0. g \in GateType BY DEF GateInv
<1>1. h \in GateType BY <1>0 DEF Refused, GateType, Status
<1>2. h.status = [g.status EXCEPT ![c] = "refused"] /\ h.waiters = g.waiters
      /\ h.weight = g.weight /\ h.held = g.held /\ h.available = g.available
  BY <1>0 DEF Refused, GateType
<1> HIDE DEF h
<1>3. QueueInv(h)
  <2>1. g.status \in [Calls -> Status] /\ g.waiters \in Seq(Calls) BY <1>0 DEF GateType
  <2>2. QueueInv(g) BY DEF GateInv
  <2>3. LiveWaiters(h) = LiveWaiters(g) BY <1>2, <2>1 DEF LiveWaiters
  <2>4. \A i \in 1..Len(g.waiters) : h.status[g.waiters[i]] = g.status[g.waiters[i]]
    BY <1>2, <2>1, <2>2 DEF QueueInv
  <2> QED BY <1>2, <2>2, <2>3, <2>4 DEF QueueInv
<1>4. WeightInv(h) BY <1>0, <1>2 DEF GateInv, WeightInv, GateType
<1>5. Holders(h) = Holders(g) BY <1>0, <1>2 DEF Holders, GateType
<1>6. UnitCount(h, Holders(g)) = UnitCount(g, Holders(g))
  BY <1>2, UnitsOfSameWeights DEF Holders
<1>7. LedgerInv(h) BY <1>2, <1>5, <1>6 DEF GateInv, LedgerInv
<1>8. GateInv(h) BY <1>1, <1>3, <1>4, <1>7 DEF GateInv
<1> QED BY <1>8 DEF h

(* _grant(): the units leave _available and enter _held together.          *)
LEMMA GrantedSound ==
  ASSUME NEW g, GateInv(g), NEW c \in Calls, g.status[c] = "new",
         NEW w \in Nat \ {0}, g.available >= w
  PROVE  GateInv(Granted(g, c, w))
<1> DEFINE h == Granted(g, c, w)
<1>0. g \in GateType /\ Capacity \in Nat BY GateConstants DEF GateInv
<1>a. g.available \in Nat /\ g.held \in Nat BY <1>0 DEF GateType
<1>b. g.held = UnitCount(g, Holders(g)) /\ g.available + g.held <= Capacity
  BY DEF GateInv, LedgerInv
<1>1. h \in GateType
  <2>1. g.available - w \in Nat /\ g.held + w \in Nat BY <1>a
  <2>2. [g.status EXCEPT ![c] = "holding"] \in [Calls -> Status]
    BY <1>0 DEF GateType, Status
  <2>3. [g.weight EXCEPT ![c] = w] \in [Calls -> Nat] BY <1>0 DEF GateType
  <2> QED BY <1>0, <2>1, <2>2, <2>3 DEF Granted, GateType
<1>2. h.status = [g.status EXCEPT ![c] = "holding"] /\ h.waiters = g.waiters
      /\ h.weight = [g.weight EXCEPT ![c] = w]
      /\ h.held = g.held + w /\ h.available = g.available - w
  BY <1>0 DEF Granted, GateType
<1> HIDE DEF h
<1>3. QueueInv(h) BY <1>0, <1>2 DEF GateInv, QueueInv, LiveWaiters, GateType
<1>c. w \in 1..Capacity BY <1>0, <1>a, <1>b
<1>4. WeightInv(h) BY <1>0, <1>2, <1>c DEF GateInv, WeightInv, GateType
<1>5. Holders(h) \ {c} = Holders(g) /\ c \in Holders(h) /\ Holders(h) \in SUBSET Calls
  BY <1>0, <1>2 DEF Holders, GateType
<1>6. h.weight[c] = w BY <1>0, <1>2 DEF GateType
<1>7. UnitCount(h, Holders(h)) = UnitCount(h, Holders(g)) + w
  BY <1>0, <1>5, <1>6, <1>c, UnitsWithout
<1>8. UnitCount(h, Holders(g)) = UnitCount(g, Holders(g))
  <2>1. \A d \in Holders(g) : h.weight[d] = g.weight[d]
    BY <1>0, <1>2 DEF Holders, GateType
  <2> QED BY <1>5, <2>1, UnitsOfSameWeights
<1>9. LedgerInv(h) BY <1>a, <1>b, <1>2, <1>7, <1>8 DEF LedgerInv
<1>10. GateInv(h) BY <1>1, <1>3, <1>4, <1>9 DEF GateInv
<1> QED BY <1>10 DEF h

(* A call joins the end of the queue; the ledger is untouched.             *)
LEMMA QueuedSound ==
  ASSUME NEW g, GateInv(g), NEW c \in Calls, g.status[c] = "new",
         NEW w \in 1..Capacity, NEW listens \in BOOLEAN
  PROVE  GateInv(Queued(g, c, w, listens))
<1> DEFINE h == Queued(g, c, w, listens)
<1>0. g \in GateType /\ Capacity \in Nat BY GateConstants DEF GateInv
<1>a. g.waiters \in Seq(Calls) BY <1>0 DEF GateType
<1>1. h \in GateType
  <2>1. Append(g.waiters, c) \in Seq(Calls) BY <1>a
  <2>2. [g.status EXCEPT ![c] = "waiting"] \in [Calls -> Status]
    BY <1>0 DEF GateType, Status
  <2>3. [g.weight EXCEPT ![c] = w] \in [Calls -> Nat] BY <1>0 DEF GateType
  <2>4. g.onAbort \in [Calls -> BOOLEAN] BY <1>0 DEF GateType
  <2>5. [g.onAbort EXCEPT ![c] = listens] \in [Calls -> BOOLEAN] BY <2>4, Zenon
  <2> QED BY <1>0, <2>1, <2>2, <2>3, <2>5 DEF Queued, GateType
<1>2. h.status = [g.status EXCEPT ![c] = "waiting"] /\ h.waiters = Append(g.waiters, c)
      /\ h.weight = [g.weight EXCEPT ![c] = w]
      /\ h.held = g.held /\ h.available = g.available
  BY <1>0 DEF Queued, GateType
<1> HIDE DEF h
<1>b. /\ Len(h.waiters) = Len(g.waiters) + 1 /\ Len(g.waiters) \in Nat
      /\ \A i \in 1..Len(g.waiters) : h.waiters[i] = g.waiters[i] /\ g.waiters[i] \in Calls
      /\ h.waiters[Len(g.waiters) + 1] = c
  BY <1>a, <1>2
<1>c. \A i \in 1..Len(g.waiters) : g.waiters[i] # c
  BY <1>a DEF GateInv, QueueInv
<1>d. QueueInv(g) BY DEF GateInv
<1>e. g.status \in [Calls -> Status] BY <1>0 DEF GateType
<1>3. QueueInv(h)
  <2>1. \A i, j \in 1..Len(h.waiters) : h.waiters[i] = h.waiters[j] => i = j
    <3> DEFINE n == Len(g.waiters)
    <3>0. n \in Nat /\ Len(h.waiters) = n + 1 BY <1>b
    <3>1. \A i, j \in 1..n : g.waiters[i] = g.waiters[j] => i = j BY <1>d DEF QueueInv
    <3>2. \A i \in 1..n : h.waiters[i] = g.waiters[i] /\ h.waiters[i] # c BY <1>b, <1>c
    <3>3. h.waiters[n + 1] = c BY <1>b
    <3> HIDE DEF n
    <3> SUFFICES ASSUME NEW i \in 1..(n + 1), NEW j \in 1..(n + 1), h.waiters[i] = h.waiters[j]
                 PROVE  i = j
      BY <3>0
    <3>4. CASE i \in 1..n /\ j \in 1..n BY <3>1, <3>2, <3>4
    <3>5. CASE i \notin 1..n
      <4>1. i = n + 1 BY <3>0, <3>5
      <4>2. j \notin 1..n BY <3>2, <3>3, <4>1
      <4> QED BY <3>0, <4>1, <4>2
    <3>6. CASE j \notin 1..n
      <4>1. j = n + 1 BY <3>0, <3>6
      <4>2. i \notin 1..n BY <3>2, <3>3, <4>1
      <4> QED BY <3>0, <4>1, <4>2
    <3> QED BY <3>4, <3>5, <3>6
  <2>2. \A d \in LiveWaiters(h) : \E i \in 1..Len(h.waiters) : h.waiters[i] = d
    <3> SUFFICES ASSUME NEW d \in LiveWaiters(h)
                 PROVE  \E i \in 1..Len(h.waiters) : h.waiters[i] = d
      OBVIOUS
    <3>1. CASE d = c BY <3>1, <1>b
    <3>2. CASE d # c
      <4>1. d \in LiveWaiters(g) BY <3>2, <1>2, <1>e DEF LiveWaiters
      <4>2. PICK i \in 1..Len(g.waiters) : g.waiters[i] = d BY <4>1, <1>d DEF QueueInv
      <4> QED BY <4>2, <1>b
    <3> QED BY <3>1, <3>2
  <2>3. \A i \in 1..Len(h.waiters) : h.status[h.waiters[i]] \in {"waiting", "cancelled"}
    BY <1>2, <1>b, <1>c, <1>d, <1>e DEF QueueInv
  <2> QED BY <2>1, <2>2, <2>3 DEF QueueInv
<1>4. WeightInv(h) BY <1>0, <1>2 DEF GateInv, WeightInv, GateType
<1>5. Holders(h) = Holders(g) /\ c \notin Holders(g) BY <1>2, <1>e DEF Holders
<1>6. UnitCount(h, Holders(g)) = UnitCount(g, Holders(g))
  <2>1. \A d \in Holders(g) : h.weight[d] = g.weight[d]
    BY <1>0, <1>2, <1>5 DEF Holders, GateType
  <2> QED BY <2>1, UnitsOfSameWeights DEF Holders
<1>7. LedgerInv(h) BY <1>2, <1>5, <1>6 DEF GateInv, LedgerInv
<1>8. GateInv(h) BY <1>1, <1>3, <1>4, <1>7 DEF GateInv
<1> QED BY <1>8 DEF h

(* acquire() keeps the gate sound on each of its four outcomes.            *)
LEMMA AcquireSound ==
  ASSUME NEW g, GateInv(g), NEW c \in Calls, g.status[c] = "new",
         NEW w \in Nat \ {0}, NEW signal \in Signal
  PROVE  GateInv(AfterAcquire(g, c, w, signal))
<1>0. Capacity \in Nat /\ g.available \in Nat BY GateConstants DEF GateInv, GateType
<1>1. GateInv(Refused(g, c)) BY RefusedSound
<1>2. g.available >= w => GateInv(Granted(g, c, w)) BY GrantedSound
<1>4. ASSUME w <= Capacity PROVE GateInv(Queued(g, c, w, signal = "live"))
  <2> DEFINE listens == signal = "live"
  <2>1. w \in 1..Capacity BY <1>0, <1>4
  <2>2. listens \in BOOLEAN OBVIOUS
  <2> HIDE DEF listens
  <2>3. GateInv(Queued(g, c, w, listens)) BY <2>1, <2>2, QueuedSound
  <2> QED BY <2>3 DEF listens
<1> QED BY <1>0, <1>1, <1>2, <1>4 DEF AfterAcquire

(* tryAcquire() keeps the gate sound.                                      *)
LEMMA TryAcquireSound ==
  ASSUME NEW g, GateInv(g), NEW c \in Calls, g.status[c] = "new", NEW w \in Nat \ {0}
  PROVE  GateInv(AfterTryAcquire(g, c, w))
BY RefusedSound, GrantedSound DEF AfterTryAcquire

(* An abort keeps the gate sound, also for a wait that reset() rejected.   *)
LEMMA AbortSound ==
  ASSUME NEW g, GateInv(g), NEW c \in Calls, g.status[c] \in {"waiting", "reset"}
  PROVE  GateInv(AfterAbort(g, c))
<1> DEFINE h == AfterAbort(g, c)
<1>0. g \in GateType BY DEF GateInv
<1>1. h \in GateType
  <2>1. g.cancelledWaiters + 1 \in Nat BY <1>0 DEF GateType
  <2>2. [g.status EXCEPT ![c] = "cancelled"] \in [Calls -> Status]
    BY <1>0 DEF GateType, Status
  <2>3. g.onAbort \in [Calls -> BOOLEAN] BY <1>0 DEF GateType
  <2>4. [g.onAbort EXCEPT ![c] = FALSE] \in [Calls -> BOOLEAN] BY <2>3, Zenon
  <2> QED BY <1>0, <2>1, <2>2, <2>4 DEF AfterAbort, GateType
<1>2. h.status = [g.status EXCEPT ![c] = "cancelled"] /\ h.waiters = g.waiters
      /\ h.weight = g.weight /\ h.held = g.held /\ h.available = g.available
  BY <1>0 DEF AfterAbort, GateType
<1> HIDE DEF h
<1>3. QueueInv(h) BY <1>0, <1>2 DEF GateInv, QueueInv, LiveWaiters, GateType
<1>4. WeightInv(h) BY <1>0, <1>2 DEF GateInv, WeightInv, GateType
<1>5. Holders(h) = Holders(g) BY <1>0, <1>2 DEF Holders, GateType
<1>6. UnitCount(h, Holders(g)) = UnitCount(g, Holders(g))
  BY <1>2, UnitsOfSameWeights DEF Holders
<1>7. LedgerInv(h) BY <1>2, <1>5, <1>6 DEF GateInv, LedgerInv
<1>8. GateInv(h) BY <1>1, <1>3, <1>4, <1>7 DEF GateInv
<1> QED BY <1>8 DEF h

(* reset() empties the queue and cannot mint a unit a holder still has.    *)
LEMMA ResetSound ==
  ASSUME NEW g, GateInv(g), NEW wanted \in Nat
  PROVE  GateInv(AfterReset(g, wanted))
<1> DEFINE h == AfterReset(g, wanted)
<1>0. g \in GateType /\ Capacity \in Nat BY GateConstants DEF GateInv
<1>a. g.available \in Nat /\ g.held \in Nat /\ g.available + g.held <= Capacity
  BY <1>0 DEF GateInv, LedgerInv, GateType
<1>1. h \in GateType
  <2> DEFINE a == Greater(0, Lesser(Lesser(Capacity, wanted), Capacity - g.held))
             s == [c \in Calls |-> IF g.status[c] = "waiting" THEN "reset" ELSE g.status[c]]
  <2>1. a \in Nat BY <1>0, <1>a DEF Greater, Lesser
  <2>2. s \in [Calls -> Status] BY <1>0 DEF GateType, Status
  <2>3. h = [g EXCEPT !.waiters = << >>, !.cancelledWaiters = 0, !.available = a, !.status = s]
    BY DEF AfterReset
  <2> HIDE DEF a, s, h
  <2>4. << >> \in Seq(Calls) BY EmptySeq
  <2> QED BY <1>0, <2>1, <2>2, <2>3, <2>4 DEF GateType
<1>2. /\ h.status = [c \in Calls |-> IF g.status[c] = "waiting" THEN "reset" ELSE g.status[c]]
      /\ h.waiters = << >> /\ h.weight = g.weight /\ h.held = g.held
      /\ h.available + h.held <= Capacity
  BY <1>0, <1>a DEF AfterReset, GateType, Greater, Lesser
<1> HIDE DEF h
<1>3. QueueInv(h) BY <1>2 DEF QueueInv, LiveWaiters
<1>4. WeightInv(h) BY <1>2 DEF GateInv, WeightInv
<1>5. Holders(h) = Holders(g) BY <1>2 DEF Holders
<1>6. UnitCount(h, Holders(g)) = UnitCount(g, Holders(g))
  BY <1>2, UnitsOfSameWeights DEF Holders
<1>7. LedgerInv(h) BY <1>2, <1>5, <1>6 DEF GateInv, LedgerInv
<1>8. GateInv(h) BY <1>1, <1>3, <1>4, <1>7 DEF GateInv
<1> QED BY <1>8 DEF h

-----------------------------------------------------------------------------
(* release(): what the loop of _serveWaiters takes off the queue.          *)

(* The loop never hands out more than it was given.                        *)
LEMMA ServedFits ==
  ASSUME NEW g, GateInv(g), NEW n \in 0..Len(g.waiters), NEW permits \in Nat,
         ServesFirst(g, n, permits)
  PROVE  UnitsAmong(g, n) \in Nat /\ UnitsAmong(g, n) <= permits
<1>0. Len(g.waiters) \in Nat BY DEF GateInv, GateType
<1>1. LiveAmong(g, n) \in SUBSET Calls BY DEF LiveAmong, LiveWaiters
<1>2. UnitsAmong(g, n) \in Nat BY <1>1, UnitsFinite DEF UnitsAmong
<1>3. CASE n = 0
  <2>1. LiveAmong(g, n) = {} BY <1>3 DEF LiveAmong
  <2> QED BY <1>2, <2>1, UnitsOfNone DEF UnitsAmong
<1>4. CASE n # 0
  <2>1. n \in 1..n BY <1>0, <1>4
  <2> QED BY <1>2, <2>1 DEF ServesFirst
<1> QED BY <1>2, <1>3, <1>4

(* A release moves the holder's units to the waiters it serves, puts the   *)
(* rest back, and leaves the others in the queue.                          *)
LEMMA ReleaseSound ==
  ASSUME NEW g, GateInv(g), NEW c \in Calls, g.status[c] = "holding",
         NEW n \in 0..Len(g.waiters), ServesFirst(g, n, g.weight[c])
  PROVE  GateInv(AfterRelease(g, c, n))
<1> DEFINE h      == AfterRelease(g, c, n)
           served == LiveAmong(g, n)
           units  == UnitsAmong(g, n)
           freed  == g.weight[c] - units
<1>0. /\ g \in GateType /\ Capacity \in Nat /\ QueueInv(g) /\ WeightInv(g)
      /\ g.held = UnitCount(g, Holders(g)) /\ g.available + g.held <= Capacity
  BY GateConstants DEF GateInv, LedgerInv
<1>1. /\ g.available \in Nat /\ g.held \in Nat /\ g.cancelledWaiters \in Nat
      /\ g.waiters \in Seq(Calls) /\ Len(g.waiters) \in Nat
      /\ g.status \in [Calls -> Status] /\ g.weight \in [Calls -> Nat]
      /\ g.onAbort \in [Calls -> BOOLEAN]
  BY <1>0 DEF GateType
<1>2. g.weight[c] \in 1..Capacity BY <1>0 DEF WeightInv
<1>3. units \in Nat /\ units <= g.weight[c] BY <1>0, <1>1, <1>2, ServedFits
<1>4. freed \in Nat /\ units + freed = g.weight[c] BY <1>2, <1>3
<1>5. served \in SUBSET Calls /\ \A d \in served : g.status[d] = "waiting"
  BY DEF LiveAmong, LiveWaiters
<1> HIDE DEF served, units, freed
<1>6. /\ h.waiters = SubSeq(g.waiters, n + 1, Len(g.waiters))
      /\ h.status = [d \in Calls |-> IF d = c THEN "released"
                                     ELSE IF d \in served THEN "holding" ELSE g.status[d]]
      /\ h.weight = g.weight
      /\ h.available = IF freed > 0 THEN Lesser(Capacity, g.available + freed) ELSE g.available
      /\ h.held = Greater(0, g.held - freed)
  BY <1>1 DEF AfterRelease, AfterServe, served, units, freed
<1>7. h \in GateType
  <2> DEFINE corpses == Cardinality({i \in 1..n : g.status[g.waiters[i]] # "waiting"})
             k == Greater(0, g.cancelledWaiters - corpses)
             q == SubSeq(g.waiters, n + 1, Len(g.waiters))
             s == [d \in Calls |-> IF d \in served THEN "holding" ELSE g.status[d]]
             l == [d \in Calls |-> g.onAbort[d] /\ d \notin served]
             a == IF freed > 0 THEN Lesser(Capacity, g.available + freed) ELSE g.available
             b == Greater(0, g.held - freed)
             r == [available |-> g.available, held |-> g.held, cancelledWaiters |-> k,
                   waiters |-> q, status |-> s, weight |-> g.weight, onAbort |-> l]
  <2>1. h = [r EXCEPT !.available = a, !.held = b, !.status = [s EXCEPT ![c] = "released"]]
    BY DEF AfterRelease, AfterServe, served, freed, units
  <2>2. corpses \in Nat
    <3>1. IsFiniteSet(1..n) BY <1>1, FS_Interval
    <3>2. {i \in 1..n : g.status[g.waiters[i]] # "waiting"} \in SUBSET (1..n) OBVIOUS
    <3> QED BY <3>1, <3>2, FS_Subset, FS_CardinalityType
  <2>3. l \in [Calls -> BOOLEAN] BY Zenon
  <2>4. a \in Nat /\ b \in Nat BY <1>0, <1>1, <1>4 DEF Lesser, Greater
  <2>5. q \in Seq(Calls) BY <1>1, SubSeqProperties
  <2>6. s \in [Calls -> Status] /\ [s EXCEPT ![c] = "released"] \in [Calls -> Status]
    BY <1>1 DEF Status
  <2> HIDE DEF corpses, l, a, b, q, s
  <2>7. k \in Nat BY <1>1, <2>2 DEF Greater
  <2> HIDE DEF k, h
  <2> QED BY <1>1, <2>1, <2>3, <2>4, <2>5, <2>6, <2>7 DEF GateType
<1> HIDE DEF h
<1>8. QueueInv(h)
  <2> DEFINE m == Len(g.waiters) - n
  <2>1. /\ m \in Nat /\ Len(h.waiters) = m
        /\ \A i \in 1..m : h.waiters[i] = g.waiters[n + i] /\ n + i \in 1..Len(g.waiters)
    <3> DEFINE q == SubSeq(g.waiters, n + 1, Len(g.waiters))
    <3>1. n + 1 \in 1..Len(g.waiters) + 1 /\ Len(g.waiters) \in n..Len(g.waiters)
      BY <1>1
    <3>2. /\ Len(q) = IF n + 1 <= Len(g.waiters) THEN Len(g.waiters) - (n + 1) + 1 ELSE 0
          /\ \A i \in 1..(Len(g.waiters) - (n + 1) + 1) : q[i] = g.waiters[n + 1 + i - 1]
      BY <1>1, <3>1, SubSeqProperties
    <3> HIDE DEF q
    <3>3. Len(q) = m BY <1>1, <3>2
    <3> QED BY <1>1, <1>6, <3>2, <3>3 DEF q
  <2> HIDE DEF m
  <2>2. \A i, j \in 1..Len(h.waiters) : h.waiters[i] = h.waiters[j] => i = j
    BY <1>0, <1>1, <2>1 DEF QueueInv
  <2>3. \A i \in 1..m : h.waiters[i] \in Calls /\ h.waiters[i] \notin served /\ h.waiters[i] # c
    <3> SUFFICES ASSUME NEW i \in 1..m
                 PROVE  g.waiters[n + i] \in Calls /\ g.waiters[n + i] \notin served
                        /\ g.waiters[n + i] # c
      BY <2>1
    <3>1. n + i \in 1..Len(g.waiters) /\ n + i \notin 1..n BY <1>1, <2>1
    <3>2. g.waiters[n + i] \in Calls BY <1>1, <3>1
    <3>3. g.waiters[n + i] # c BY <1>0, <3>1 DEF QueueInv
    <3>4. ASSUME NEW j \in 1..n PROVE g.waiters[j] # g.waiters[n + i]
      <4>1. j \in 1..Len(g.waiters) /\ j # n + i BY <1>1, <3>1
      <4> QED BY <1>0, <3>1, <4>1 DEF QueueInv
    <3> QED BY <3>2, <3>3, <3>4 DEF served, LiveAmong
  <2>4. \A d \in LiveWaiters(h) : \E i \in 1..Len(h.waiters) : h.waiters[i] = d
    <3> SUFFICES ASSUME NEW d \in LiveWaiters(h)
                 PROVE  \E i \in 1..Len(h.waiters) : h.waiters[i] = d
      OBVIOUS
    <3>1. d \in LiveWaiters(g) /\ d \notin served BY <1>6 DEF LiveWaiters
    <3>2. PICK j \in 1..Len(g.waiters) : g.waiters[j] = d BY <1>0, <3>1 DEF QueueInv
    <3>3. j \notin 1..n BY <3>1, <3>2 DEF served, LiveAmong
    <3>4. j - n \in 1..m /\ n + (j - n) = j BY <1>1, <3>2, <3>3 DEF m
    <3> QED BY <2>1, <3>2, <3>4
  <2>5. \A i \in 1..Len(h.waiters) : h.status[h.waiters[i]] \in {"waiting", "cancelled"}
    <3> SUFFICES ASSUME NEW i \in 1..m
                 PROVE  h.status[h.waiters[i]] \in {"waiting", "cancelled"}
      BY <2>1
    <3>1. h.status[h.waiters[i]] = g.status[h.waiters[i]] BY <1>6, <2>3
    <3>2. h.waiters[i] = g.waiters[n + i] /\ n + i \in 1..Len(g.waiters) BY <2>1
    <3> QED BY <1>0, <3>1, <3>2 DEF QueueInv
  <2> QED BY <2>2, <2>4, <2>5 DEF QueueInv
<1>9. WeightInv(h) BY <1>0, <1>5, <1>6 DEF WeightInv
<1>10. LedgerInv(h)
  <2> DEFINE others == Holders(g) \ {c}
  <2>1. c \in Holders(g) /\ Holders(g) \in SUBSET Calls BY DEF Holders
  <2>2. UnitCount(g, Holders(g)) = UnitCount(g, others) + g.weight[c]
    BY <1>0, <1>2, <2>1, UnitsWithout
  <2>3. others \in SUBSET Calls /\ others \cap served = {} BY <1>5, <2>1 DEF Holders
  <2>4. Holders(h) = others \cup served BY <1>5, <1>6 DEF Holders
  <2> HIDE DEF others
  <2>5. UnitCount(g, others \cup served) = UnitCount(g, others) + units
    BY <1>5, <2>3, UnitsAdd DEF units, UnitsAmong, served
  <2>6. UnitCount(h, Holders(h)) = UnitCount(g, Holders(h))
    BY <1>6, UnitsOfSameWeights DEF Holders
  <2>7. UnitCount(g, others) \in Nat BY <2>3, UnitsFinite
  <2>8. UnitCount(h, Holders(h)) = g.held - freed /\ g.held - freed \in Nat
    <3> DEFINE x == UnitCount(g, others)
               y == UnitCount(h, Holders(h))
    <3>1. y = x + units BY <2>4, <2>5, <2>6
    <3>2. g.held = x + g.weight[c] /\ g.held \in Nat BY <1>0, <1>1, <2>2
    <3>3. x \in Nat BY <2>7
    <3> DEFINE k == g.weight[c]
    <3>4. k \in Nat /\ units \in Nat /\ freed \in Nat /\ units + freed = k
      BY <1>2, <1>3, <1>4, GateConstants
    <3> HIDE DEF x, y, k
    <3>5. y = g.held - freed BY <3>1, <3>2, <3>3, <3>4 DEF k
    <3>6. g.held - freed \in Nat BY <3>2, <3>3, <3>4 DEF k
    <3> QED BY <3>5, <3>6 DEF y
  <2>9. h.held = g.held - freed BY <1>6, <2>8 DEF Greater
  <2>10. CASE freed > 0
    <3>1. h.available = Lesser(Capacity, g.available + freed) BY <1>6, <2>10
    <3>2. h.available <= g.available + freed /\ h.available \in Int
      BY <1>0, <1>1, <1>4, <3>1 DEF Lesser
    <3>3. h.available + h.held <= Capacity
      BY <1>0, <1>1, <1>4, <2>8, <2>9, <3>2, SMTT(60)
    <3> QED BY <2>8, <2>9, <3>3 DEF LedgerInv
  <2>11. CASE ~(freed > 0)
    <3>1. freed = 0 BY <1>4, <2>11
    <3>2. h.available = g.available /\ h.held = g.held BY <1>1, <1>6, <2>9, <2>11, <3>1
    <3> QED BY <1>0, <2>8, <2>9, <3>2 DEF LedgerInv
  <2> QED BY <2>10, <2>11
<1>11. GateInv(h) BY <1>7, <1>8, <1>9, <1>10 DEF GateInv
<1> QED BY <1>11 DEF h

-----------------------------------------------------------------------------
(* The cancelled entries of the queue and their counter.                   *)

\* The calls whose cancelled entry still is in the queue.
Corpses(g) ==
  {c \in Calls : g.status[c] = "cancelled" /\ \E i \in 1..Len(g.waiters) : g.waiters[i] = c}

\* cancelledWaiters counts each of them; only that of an abort after reset() is too many.
CorpsesCounted(g) == Cardinality(Corpses(g)) <= g.cancelledWaiters
CorpsesExact(g) == g.cancelledWaiters = Cardinality(Corpses(g))

(* There are as many calls at some places of the queue as there are places. *)
LEMMA CountedOnce ==
  ASSUME NEW g, GateInv(g), NEW I \in SUBSET (1..Len(g.waiters))
  PROVE  LET D == {g.waiters[i] : i \in I}
         IN  IsFiniteSet(D) /\ IsFiniteSet(I) /\ Cardinality(D) = Cardinality(I)
             /\ Cardinality(I) \in Nat
<1> DEFINE D == {g.waiters[i] : i \in I}
           f == [i \in I |-> g.waiters[i]]
<1>0. Len(g.waiters) \in Nat BY DEF GateInv, GateType
<1>1. IsFiniteSet(I)
  <2>1. IsFiniteSet(1..Len(g.waiters)) BY <1>0, FS_Interval
  <2> QED BY <2>1, FS_Subset
<1>2. f \in Bijection(I, D)
  <2>1. \A i, j \in I : f[i] = f[j] => i = j BY DEF GateInv, QueueInv
  <2>2. \A d \in D : \E i \in I : f[i] = d OBVIOUS
  <2> QED BY <2>1, <2>2 DEF Bijection, Injection, Surjection, IsInjective
<1> HIDE DEF D, f
<1>3. IsFiniteSet(D) /\ Cardinality(D) = Cardinality(I)
  BY <1>1, <1>2, FS_Bijection DEF ExistsBijection
<1> QED BY <1>1, <1>3, FS_CardinalityType DEF D

(* Both kinds of entries are calls, which are finitely many.               *)
LEMMA EntriesFinite ==
  ASSUME NEW g
  PROVE  /\ IsFiniteSet(Corpses(g)) /\ Cardinality(Corpses(g)) \in Nat
         /\ IsFiniteSet(LiveWaiters(g)) /\ Cardinality(LiveWaiters(g)) \in Nat
<1>1. Corpses(g) \in SUBSET Calls /\ LiveWaiters(g) \in SUBSET Calls
  BY DEF Corpses, LiveWaiters
<1> QED BY <1>1, FS_Subset, FS_CardinalityType, GateConstants

(* The queue is the live waiters and the corpses.                          *)
LEMMA QueueSplits ==
  ASSUME NEW g, GateInv(g)
  PROVE  Len(g.waiters) = Cardinality(LiveWaiters(g)) + Cardinality(Corpses(g))
<1> DEFINE I == 1..Len(g.waiters)
           D == {g.waiters[i] : i \in I}
<1>0. /\ g.waiters \in Seq(Calls) /\ Len(g.waiters) \in Nat
      /\ g.status \in [Calls -> Status] /\ QueueInv(g)
  BY DEF GateInv, GateType
<1>1. D = LiveWaiters(g) \cup Corpses(g) /\ LiveWaiters(g) \cap Corpses(g) = {}
  <2>1. \A i \in I : g.waiters[i] \in Calls /\ g.status[g.waiters[i]] \in {"waiting", "cancelled"}
    BY <1>0 DEF QueueInv
  <2>2. D \subseteq LiveWaiters(g) \cup Corpses(g) BY <2>1 DEF LiveWaiters, Corpses
  <2>3. LiveWaiters(g) \subseteq D BY <1>0 DEF QueueInv
  <2>4. Corpses(g) \subseteq D BY DEF Corpses
  <2> QED BY <2>2, <2>3, <2>4 DEF LiveWaiters, Corpses
<1>2. Cardinality(D) = Cardinality(I) BY CountedOnce
<1>3. Cardinality(I) = Len(g.waiters)
  <2> DEFINE n == Len(g.waiters)
  <2>1. n \in Nat BY <1>0
  <2> HIDE DEF n
  <2>2. Cardinality(1..n) = n BY <2>1, FS_Interval
  <2> QED BY <2>2 DEF n
<1> HIDE DEF D, I
<1> DEFINE a == Cardinality(LiveWaiters(g))
           b == Cardinality(Corpses(g))
<1>4. Cardinality(D) = a + b - Cardinality({})
  BY <1>1, EntriesFinite, FS_Union
<1>5. a \in Nat /\ b \in Nat /\ Cardinality({}) = 0 BY EntriesFinite, FS_EmptySet
<1> HIDE DEF a, b
<1>6. Len(g.waiters) = a + b BY <1>2, <1>3, <1>4, <1>5
<1> QED BY <1>6 DEF a, b

(* pending never counts more waiters than there are, and exactly these     *)
(* when the counter of the corpses is exact.                               *)
LEMMA PendingCounts ==
  ASSUME NEW g, GateInv(g), CorpsesCounted(g)
  PROVE  /\ Pending(g) <= Cardinality(LiveWaiters(g))
         /\ CorpsesExact(g) => Pending(g) = Cardinality(LiveWaiters(g))
<1> DEFINE a == Cardinality(LiveWaiters(g))
           b == Cardinality(Corpses(g))
           n == Len(g.waiters)
<1>1. a \in Nat /\ b \in Nat /\ n = a + b BY EntriesFinite, QueueSplits
<1>2. g.cancelledWaiters \in Nat /\ b <= g.cancelledWaiters
  BY DEF GateInv, GateType, CorpsesCounted
<1>3. Pending(g) = Greater(0, n - g.cancelledWaiters)
      /\ (CorpsesExact(g) => g.cancelledWaiters = b)
  BY DEF Pending, CorpsesExact
<1> HIDE DEF a, b, n
<1>4. Pending(g) <= a /\ (CorpsesExact(g) => Pending(g) = a) BY <1>1, <1>2, <1>3 DEF Greater
<1> QED BY <1>4 DEF a

(* A call that never waited is no corpse, whatever becomes of it.          *)
LEMMA CorpsesOfAcquire ==
  ASSUME NEW g, GateInv(g), NEW c \in Calls, g.status[c] = "new", NEW w,
         NEW h, \/ h = Refused(g, c) \/ h = Granted(g, c, w)
                \/ \E listens : h = Queued(g, c, w, listens)
  PROVE  Corpses(h) = Corpses(g) /\ h.cancelledWaiters = g.cancelledWaiters
<1>0. /\ g \in GateType /\ g.waiters \in Seq(Calls) /\ g.status \in [Calls -> Status]
      /\ Len(g.waiters) \in Nat
  BY DEF GateInv, GateType
<1>1. \A i \in 1..Len(g.waiters) : g.waiters[i] # c BY DEF GateInv, QueueInv
<1>2. CASE h = Refused(g, c)
  <2>1. /\ h.waiters = g.waiters /\ h.status = [g.status EXCEPT ![c] = "refused"]
        /\ h.cancelledWaiters = g.cancelledWaiters
    BY <1>0, <1>2 DEF Refused, GateType
  <2> QED BY <1>0, <1>1, <2>1 DEF Corpses
<1>3. CASE h = Granted(g, c, w)
  <2>1. /\ h.waiters = g.waiters /\ h.status = [g.status EXCEPT ![c] = "holding"]
        /\ h.cancelledWaiters = g.cancelledWaiters
    BY <1>0, <1>3 DEF Granted, GateType
  <2> QED BY <1>0, <1>1, <2>1 DEF Corpses
<1>4. ASSUME NEW listens, h = Queued(g, c, w, listens)
      PROVE  Corpses(h) = Corpses(g) /\ h.cancelledWaiters = g.cancelledWaiters
  <2> DEFINE q == Append(g.waiters, c)
  <2>1. /\ h.waiters = q /\ h.status = [g.status EXCEPT ![c] = "waiting"]
        /\ h.cancelledWaiters = g.cancelledWaiters
    BY <1>0, <1>4 DEF Queued, GateType
  <2>2. /\ Len(q) = Len(g.waiters) + 1 /\ q[Len(g.waiters) + 1] = c
        /\ \A i \in 1..Len(g.waiters) : q[i] = g.waiters[i]
    BY <1>0, AppendProperties
  <2> HIDE DEF q
  <2>3. \A d \in Calls \ {c} :
          (\E i \in 1..Len(q) : q[i] = d) <=> (\E i \in 1..Len(g.waiters) : g.waiters[i] = d)
    BY <1>0, <2>2
  <2> QED BY <1>0, <1>1, <2>1, <2>3 DEF Corpses
<1> QED BY <1>2, <1>3, <1>4

(* An abort makes one corpse of a live waiter, and counts one in any case. *)
LEMMA CorpsesOfAbort ==
  ASSUME NEW g, GateInv(g), NEW c \in Calls, g.status[c] \in {"waiting", "reset"}
  PROVE  LET h == AfterAbort(g, c)
         IN  /\ h.cancelledWaiters = g.cancelledWaiters + 1
             /\ Cardinality(Corpses(h)) <= Cardinality(Corpses(g)) + 1
             /\ g.status[c] = "waiting" => Cardinality(Corpses(h)) = Cardinality(Corpses(g)) + 1
<1> DEFINE h == AfterAbort(g, c)
<1>0. /\ g \in GateType /\ g.status \in [Calls -> Status] /\ QueueInv(g)
  BY DEF GateInv, GateType
<1>1. /\ h.waiters = g.waiters /\ h.status = [g.status EXCEPT ![c] = "cancelled"]
      /\ h.cancelledWaiters = g.cancelledWaiters + 1
  BY <1>0 DEF AfterAbort, GateType
<1> HIDE DEF h
<1>2. c \notin Corpses(g) BY DEF Corpses
<1>3. CASE g.status[c] = "waiting"
  <2>1. \E i \in 1..Len(g.waiters) : g.waiters[i] = c BY <1>0, <1>3 DEF QueueInv, LiveWaiters
  <2>2. Corpses(h) = Corpses(g) \cup {c} BY <1>0, <1>1, <2>1 DEF Corpses
  <2>3. Cardinality(Corpses(h)) = Cardinality(Corpses(g)) + 1
    BY <1>2, <2>2, EntriesFinite, FS_AddElement
  <2> QED BY <1>1, <2>3, EntriesFinite DEF h
<1>4. CASE g.status[c] = "reset"
  <2>1. ~\E i \in 1..Len(g.waiters) : g.waiters[i] = c BY <1>0, <1>4 DEF QueueInv
  <2>2. Corpses(h) = Corpses(g) BY <1>0, <1>1, <1>2, <2>1 DEF Corpses
  <2> QED BY <1>1, <1>4, <2>2, EntriesFinite DEF h
<1> QED BY <1>3, <1>4

(* reset() leaves no entry and no count.                                   *)
LEMMA CorpsesOfReset ==
  ASSUME NEW g, GateInv(g), NEW wanted
  PROVE  CorpsesExact(AfterReset(g, wanted))
<1> DEFINE h == AfterReset(g, wanted)
<1>1. h.waiters = << >> /\ h.cancelledWaiters = 0
  BY DEF AfterReset, GateInv, GateType
<1>2. Corpses(h) = {} BY <1>1 DEF Corpses
<1> QED BY <1>1, <1>2, FS_EmptySet DEF CorpsesExact

(* release() takes the corpses it passes off the queue and off the count.  *)
LEMMA CorpsesOfRelease ==
  ASSUME NEW g, GateInv(g), CorpsesCounted(g), NEW c \in Calls, g.status[c] = "holding",
         NEW n \in 0..Len(g.waiters)
  PROVE  LET h == AfterRelease(g, c, n)
         IN  CorpsesCounted(h) /\ (CorpsesExact(g) => CorpsesExact(h))
<1> DEFINE h == AfterRelease(g, c, n)
           I == {i \in 1..n : g.status[g.waiters[i]] # "waiting"}
           D == {g.waiters[i] : i \in I}
           served == LiveAmong(g, n)
           q == SubSeq(g.waiters, n + 1, Len(g.waiters))
<1>0. /\ g \in GateType /\ g.waiters \in Seq(Calls) /\ g.status \in [Calls -> Status]
      /\ Len(g.waiters) \in Nat /\ g.cancelledWaiters \in Nat /\ QueueInv(g)
  BY DEF GateInv, GateType
<1>1. \A d \in served : g.status[d] = "waiting" BY DEF LiveAmong, LiveWaiters
<1> HIDE DEF served
<1>2. /\ h.waiters = q
      /\ h.status = [d \in Calls |-> IF d = c THEN "released"
                                     ELSE IF d \in served THEN "holding" ELSE g.status[d]]
      /\ h.cancelledWaiters = Greater(0, g.cancelledWaiters - Cardinality(I))
  BY <1>0 DEF AfterRelease, AfterServe, served
<1> HIDE DEF h
<1>3. /\ Len(q) = Len(g.waiters) - n
      /\ \A i \in 1..(Len(g.waiters) - n) : q[i] = g.waiters[n + i]
  <2> DEFINE k == Len(g.waiters)
  <2>1. n + 1 \in 1..(k + 1) /\ k \in ((n + 1) - 1)..k BY <1>0
  <2>2. /\ Len(q) = IF n + 1 <= k THEN k - (n + 1) + 1 ELSE 0
        /\ \A i \in 1..(k - (n + 1) + 1) : q[i] = g.waiters[n + 1 + i - 1]
    BY <1>0, <2>1, SubSeqProperties
  <2> HIDE DEF q
  <2> QED BY <1>0, <2>2
<1> HIDE DEF q
<1>4. I \in SUBSET (1..Len(g.waiters)) BY <1>0
<1>5. D \subseteq Corpses(g)
  <2> SUFFICES ASSUME NEW i \in I PROVE g.waiters[i] \in Corpses(g) OBVIOUS
  <2>1. i \in 1..Len(g.waiters) /\ g.status[g.waiters[i]] # "waiting" BY <1>4
  <2>2. g.waiters[i] \in Calls BY <1>0, <2>1
  <2>3. g.status[g.waiters[i]] = "cancelled" BY <1>0, <2>1 DEF QueueInv
  <2> QED BY <2>1, <2>2, <2>3 DEF Corpses
<1>6. Corpses(h) = Corpses(g) \ D
  <2>1. ASSUME NEW d \in Corpses(h) PROVE d \in Corpses(g) \ D
    <3>1. d \in Calls /\ h.status[d] = "cancelled" BY DEF Corpses
    <3>2. PICK i \in 1..Len(q) : q[i] = d BY <1>2, <2>1 DEF Corpses
    <3>3. i \in 1..(Len(g.waiters) - n) /\ n + i \in 1..Len(g.waiters) /\ g.waiters[n + i] = d
      BY <1>0, <1>3, <3>2
    <3>4. g.status[d] = "cancelled" BY <1>2, <3>1
    <3>5. \A j \in I : g.waiters[j] # d
      <4> TAKE j \in I
      <4>1. j \in 1..Len(g.waiters) /\ j # n + i BY <1>0, <1>4, <3>2, <3>3
      <4> QED BY <1>0, <3>3, <4>1 DEF QueueInv
    <3> QED BY <3>1, <3>3, <3>4, <3>5 DEF Corpses
  <2>2. ASSUME NEW d \in Corpses(g), d \notin D PROVE d \in Corpses(h)
    <3>1. d \in Calls /\ g.status[d] = "cancelled" BY DEF Corpses
    <3>2. PICK j \in 1..Len(g.waiters) : g.waiters[j] = d BY DEF Corpses
    <3>3. j \notin 1..n BY <2>2, <3>1, <3>2
    <3>4. j - n \in 1..Len(q) /\ q[j - n] = d BY <1>0, <1>3, <3>2, <3>3
    <3>5. h.status[d] = "cancelled" BY <1>1, <1>2, <3>1
    <3> QED BY <1>2, <3>1, <3>4, <3>5 DEF Corpses
  <2> QED BY <2>1, <2>2
<1>7. Cardinality(D) = Cardinality(I) /\ Cardinality(I) \in Nat BY <1>4, CountedOnce
<1> HIDE DEF D, I
<1> DEFINE a == Cardinality(Corpses(g))
           b == Cardinality(Corpses(h))
           k == Cardinality(I)
<1>8. b = a - k /\ a \in Nat /\ b \in Nat /\ k \in Nat
  <2>1. b = a - Cardinality(Corpses(g) \cap D)
    BY <1>6, EntriesFinite, FS_Difference
  <2>2. Corpses(g) \cap D = D BY <1>5
  <2> QED BY <1>7, <2>1, <2>2, EntriesFinite
<1>9. /\ a <= g.cancelledWaiters /\ (CorpsesExact(g) => g.cancelledWaiters = a)
      /\ h.cancelledWaiters = Greater(0, g.cancelledWaiters - k)
  BY <1>2 DEF CorpsesCounted, CorpsesExact
<1> HIDE DEF a, b, k
<1>10. b <= h.cancelledWaiters /\ (CorpsesExact(g) => h.cancelledWaiters = b)
  BY <1>0, <1>8, <1>9 DEF Greater
<1> QED BY <1>10 DEF b, CorpsesCounted, CorpsesExact, h

-----------------------------------------------------------------------------
(* Gates of which every call asks for one unit.                            *)

UnitWeights(g) == \A c \in Calls : g.weight[c] = 1

(* A release that hands its unit to nobody has met no live waiter.         *)
LEMMA UnitUnserved ==
  ASSUME NEW g, GateInv(g), UnitWeights(g), NEW n \in 0..Len(g.waiters),
         ServesFirst(g, n, 1), UnitsAmong(g, n) = 0
  PROVE  LiveWaiters(g) = {}
<1>0. /\ g.waiters \in Seq(Calls) /\ Len(g.waiters) \in Nat /\ QueueInv(g) /\ Capacity \in Nat \ {0}
  BY GateConstants DEF GateInv, GateType
<1>1. LiveAmong(g, n) = {}
  <2> DEFINE S == LiveAmong(g, n)
  <2>1. S \in SUBSET Calls BY DEF LiveAmong, LiveWaiters
  <2>2. UnitCount(g, S) = 0 BY DEF UnitsAmong
  <2> HIDE DEF S
  <2>3. ASSUME NEW d \in S PROVE FALSE
    <3>1. g.weight[d] = 1 /\ g.weight[d] \in 0..Capacity BY <1>0, <2>1 DEF UnitWeights
    <3>2. UnitCount(g, S) = UnitCount(g, S \ {d}) + 1 BY <2>1, <3>1, UnitsWithout
    <3>3. UnitCount(g, S \ {d}) \in Nat BY <2>1, UnitsFinite
    <3> QED BY <2>2, <3>2, <3>3
  <2> QED BY <2>3 DEF S
<1>2. n = Len(g.waiters)
  <2> SUFFICES ASSUME n < Len(g.waiters) PROVE FALSE BY <1>0
  <2> DEFINE T == LiveAmong(g, n + 1)
             d == g.waiters[n + 1]
  <2>1. UnitsAmong(g, n + 1) > 1 BY DEF ServesFirst
  <2>2. d \in Calls BY <1>0
  <2>3. T \subseteq {d} BY <1>0, <1>1 DEF LiveAmong
  <2>4. UnitCount(g, {d}) = 1
    <3>1. g.weight[d] = 1 /\ g.weight[d] \in 0..Capacity BY <1>0, <2>2 DEF UnitWeights
    <3> HIDE DEF d
    <3> QED BY <2>2, <3>1, UnitsOfOne
  <2>5. T = {} \/ T = {d} BY <2>3
  <2>6. UnitsAmong(g, n + 1) = UnitCount(g, T) BY DEF UnitsAmong
  <2>7. UnitCount(g, {}) = 0 BY UnitsOfNone
  <2> DEFINE u == UnitCount(g, T)
  <2>8. u > 1 BY <2>1, <2>6
  <2>9. u = 0 \/ u = 1 BY <2>4, <2>5, <2>7
  <2> HIDE DEF u
  <2> QED BY <2>8, <2>9
<1>3. LiveWaiters(g) \subseteq LiveAmong(g, n) BY <1>0, <1>2 DEF LiveAmong, QueueInv
<1> QED BY <1>1, <1>3

(* Calls that ask for one unit each count as many units as there are.      *)
LEMMA UnitsAreCalls ==
  ASSUME NEW g, UnitWeights(g), NEW S \in SUBSET Calls
  PROVE  UnitCount(g, S) = Cardinality(S) /\ IsFiniteSet(S) /\ Cardinality(S) \in Nat
<1>1. Units(g, S) = S \X {1} BY GateConstants DEF Units, UnitWeights
<1>2. IsFiniteSet(S) /\ Cardinality(S) \in Nat
  BY FS_Subset, FS_CardinalityType, GateConstants
<1>3. IsFiniteSet({1}) /\ Cardinality({1}) = 1 BY FS_Singleton
<1>4. Cardinality(S \X {1}) = Cardinality(S) * 1 BY <1>2, <1>3, FS_Product
<1> QED BY <1>1, <1>2, <1>4 DEF UnitCount
=============================================================================
