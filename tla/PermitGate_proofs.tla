-------------------------- MODULE PermitGate_proofs --------------------------
(***************************************************************************)
(* The safety of the permit gate, for every set of calls, every capacity,  *)
(* every queue bound, every set of weights and every value reset() may be  *)
(* asked for.                                                              *)
(***************************************************************************)
EXTENDS PermitGate, GateOps_proofs

\* The inductive invariant: the gate record is sound (GateOps_proofs).
IInv == GateInv(gate) /\ disposed \in BOOLEAN

(* Every action keeps the gate sound.                                      *)
LEMMA StepSound ==
  ASSUME IInv, [Next]_vars
  PROVE  IInv'
<1>0. GateInv(gate) BY DEF IInv
<1>1. ASSUME NEW c \in Calls, NEW w \in Weights, NEW signal \in Signal,
             Acquire(c, w, signal)
      PROVE  IInv'
  <2>1. w \in Nat \ {0} BY PermitGateConstants
  <2>2. GateInv(AfterAcquire(gate, c, w, signal))
    BY <1>0, <1>1, <2>1, AcquireSound DEF Acquire
  <2> QED BY <1>1, <2>2 DEF Acquire, IInv
<1>2. ASSUME NEW c \in Calls, NEW w \in Weights, TryAcquire(c, w)
      PROVE  IInv'
  <2>1. w \in Nat \ {0} BY PermitGateConstants
  <2>2. GateInv(AfterTryAcquire(gate, c, w))
    BY <1>0, <1>2, <2>1, TryAcquireSound DEF TryAcquire
  <2> QED BY <1>2, <2>2 DEF TryAcquire, IInv
<1>3. ASSUME NEW c \in Calls, Abort(c) PROVE IInv'
  <2>1. gate.status[c] \in {"waiting", "reset"} BY <1>3 DEF Abort
  <2>2. GateInv(AfterAbort(gate, c)) BY <1>0, <2>1, AbortSound
  <2> QED BY <1>3, <2>2 DEF Abort, IInv
<1>4. ASSUME NEW c \in Calls, Release(c) PROVE IInv'
  <2>1. PICK n \in 0..Len(gate.waiters) :
             ServesFirst(gate, n, gate.weight[c]) /\ gate' = AfterRelease(gate, c, n)
    BY <1>4 DEF Release
  <2>2. GateInv(AfterRelease(gate, c, n)) BY <1>0, <1>4, <2>1, ReleaseSound DEF Release
  <2> QED BY <1>4, <2>1, <2>2 DEF Release, IInv
<1>5. ASSUME NEW wanted \in ResetTo, Reset(wanted) PROVE IInv'
  <2>1. wanted \in Nat BY PermitGateConstants
  <2>2. GateInv(AfterReset(gate, wanted)) BY <1>0, <2>1, ResetSound
  <2> QED BY <1>5, <2>2 DEF Reset, IInv
<1>6. CASE Dispose
  <2>1. GateInv(AfterReset(gate, Capacity)) BY <1>0, ResetSound, GateConstants
  <2> QED BY <1>0, <1>6, <2>1 DEF Dispose, IInv
<1>7. CASE UNCHANGED vars BY <1>7 DEF vars, IInv
<1> QED BY <1>1, <1>2, <1>3, <1>4, <1>5, <1>6, <1>7 DEF Next

(* The gate is sound in every reachable state.                             *)
THEOREM GateIsSound == Spec => []IInv
<1>1. Init => IInv
  <2> SUFFICES ASSUME Init PROVE IInv OBVIOUS
  <2>1. GateInv(NewGate(InitialTokens)) BY NewGateSound, PermitGateConstants
  <2> QED BY <2>1 DEF Init, IInv
<1>2. IInv /\ [Next]_vars => IInv' BY StepSound
<1> QED BY <1>1, <1>2, PTL DEF Spec

(* Every counter and table keeps its type: no interleaving of grants,      *)
(* transfers, aborts and resets takes _available or _held below zero.      *)
THEOREM TypeCorrect == Spec => []TypeOK
<1>1. IInv => TypeOK BY DEF IInv, GateInv, TypeOK
<1> QED BY <1>1, GateIsSound, PTL

(* _held is the units the release callbacks not yet called stand for.      *)
THEOREM HeldExact == Spec => []HeldIsOutstanding
<1>1. IInv => HeldIsOutstanding BY DEF IInv, GateInv, LedgerInv, HeldIsOutstanding
<1> QED BY <1>1, GateIsSound, PTL

(* Capacity bounds what is held and available, across partial resets too.  *)
THEOREM CapacityBound == Spec => []CapacityIsCeiling
<1>1. IInv => CapacityIsCeiling BY DEF IInv, GateInv, LedgerInv, CapacityIsCeiling
<1> QED BY <1>1, GateIsSound, PTL

(* The queue holds every live waiter exactly once, and nothing else but    *)
(* cancelled entries.                                                      *)
THEOREM QueueSound == Spec => []QueueIsLive
<1>1. IInv => QueueIsLive BY DEF IInv, GateInv, QueueIsLive
<1> QED BY <1>1, GateIsSound, PTL

(* The four together: the books of the gate always agree.                  *)
THEOREM LedgerSound == Spec => []LedgerIsSound
<1>1. TypeOK /\ HeldIsOutstanding /\ CapacityIsCeiling /\ QueueIsLive => LedgerIsSound
  BY DEF LedgerIsSound
<1> QED BY <1>1, TypeCorrect, HeldExact, CapacityBound, QueueSound, PTL

-----------------------------------------------------------------------------
(* A gate that starts full and whose resets ask for at least the capacity: *)
(* what PowerSemaphore and PowerBulkhead use.                              *)
OnlyFullResets == InitialTokens = Capacity /\ \A wanted \in ResetTo : wanted >= Capacity

(* Without partial resets no unit is ever lost: what is not held is        *)
(* available, whatever mix of weights is released, aborted or refused.     *)
THEOREM NoUnitLost ==
  ASSUME OnlyFullResets
  PROVE  Spec => []UnitsConserved
<1>1. Init => UnitsConserved
  BY GateConstants DEF Init, NewGate, UnitsConserved, OnlyFullResets
<1>2. IInv /\ UnitsConserved /\ [Next]_vars => UnitsConserved'
  <2> SUFFICES ASSUME IInv, UnitsConserved, [Next]_vars
               PROVE  UnitsConserved'
    OBVIOUS
  <2>0. /\ gate.available \in Nat /\ gate.held \in Nat /\ Capacity \in Nat
        /\ gate.available + gate.held = Capacity /\ gate \in GateType
    BY GateConstants DEF IInv, GateInv, GateType, UnitsConserved
  <2>1. ASSUME NEW c, NEW w \in Nat, gate' = Granted(gate, c, w) PROVE UnitsConserved'
    BY <2>0, <2>1 DEF Granted, UnitsConserved, GateType
  <2>2. ASSUME NEW c, gate' = Refused(gate, c) PROVE UnitsConserved'
    BY <2>0, <2>2 DEF Refused, UnitsConserved, GateType
  <2>3. ASSUME NEW c \in Calls, NEW w \in Weights, NEW signal \in Signal,
               Acquire(c, w, signal)
        PROVE  UnitsConserved'
    <3>1. w \in Nat BY PermitGateConstants
    <3>2. CASE gate' = Queued(gate, c, w, signal = "live")
      BY <2>0, <3>2 DEF Queued, UnitsConserved, GateType
    <3> QED BY <2>1, <2>2, <2>3, <3>1, <3>2 DEF Acquire, AfterAcquire
  <2>4. ASSUME NEW c \in Calls, NEW w \in Weights, TryAcquire(c, w) PROVE UnitsConserved'
    <3>1. w \in Nat BY PermitGateConstants
    <3> QED BY <2>1, <2>2, <2>4, <3>1 DEF TryAcquire, AfterTryAcquire
  <2>5. ASSUME NEW c \in Calls, Abort(c) PROVE UnitsConserved'
    BY <2>0, <2>5 DEF Abort, AfterAbort, UnitsConserved, GateType
  <2>6. ASSUME NEW c \in Calls, Release(c) PROVE UnitsConserved'
    <3>1. PICK n \in 0..Len(gate.waiters) :
               ServesFirst(gate, n, gate.weight[c]) /\ gate' = AfterRelease(gate, c, n)
      BY <2>6 DEF Release
    <3> DEFINE units == UnitsAmong(gate, n)
               freed == gate.weight[c] - units
    <3>2. gate.weight[c] \in Nat /\ gate.weight[c] \in 0..Capacity
      BY <2>0, <2>6 DEF Release, IInv, GateInv, WeightInv
    <3>3. units \in Nat /\ units <= gate.weight[c] BY <3>1, <3>2, ServedFits DEF IInv
    <3>4. gate.weight[c] <= gate.held
      <4>1. c \in Holders(gate) /\ Holders(gate) \in SUBSET Calls
        BY <2>6 DEF Holders, Release
      <4>2. gate.held = UnitCount(gate, Holders(gate) \ {c}) + gate.weight[c]
        BY <3>2, <4>1, UnitsWithout DEF IInv, GateInv, LedgerInv
      <4>3. UnitCount(gate, Holders(gate) \ {c}) \in Nat BY <4>1, UnitsFinite
      <4> QED BY <2>0, <3>2, <4>2, <4>3
    <3>5. freed \in Nat /\ freed <= gate.held BY <2>0, <3>2, <3>3, <3>4
    <3>6. /\ gate'.available = IF freed > 0 THEN Lesser(Capacity, gate.available + freed)
                               ELSE gate.available
          /\ gate'.held = Greater(0, gate.held - freed)
      BY <3>1 DEF AfterRelease, AfterServe
    <3> HIDE DEF units, freed
    <3> QED BY <2>0, <3>5, <3>6 DEF UnitsConserved, Lesser, Greater
  <2>7. ASSUME NEW wanted \in Nat, wanted >= Capacity, gate' = AfterReset(gate, wanted)
        PROVE  UnitsConserved'
    BY <2>0, <2>7 DEF AfterReset, UnitsConserved, Lesser, Greater, GateType
  <2>8. ASSUME NEW wanted \in ResetTo, Reset(wanted) PROVE UnitsConserved'
    BY <2>7, <2>8, PermitGateConstants DEF Reset, OnlyFullResets
  <2>9. CASE Dispose BY <2>0, <2>7, <2>9 DEF Dispose, UnitsConserved
  <2>10. CASE UNCHANGED vars BY <2>10 DEF vars, UnitsConserved
  <2> QED BY <2>3, <2>4, <2>5, <2>6, <2>8, <2>9, <2>10 DEF Next
<1> QED BY <1>1, <1>2, GateIsSound, PTL DEF Spec

-----------------------------------------------------------------------------
(* What pending says.                                                      *)

\* The corpses in the queue are all counted, and only an abort after reset() counts one more.
CorpseInv == CorpsesCounted(gate) /\ (~AbortsAfterReset => CorpsesExact(gate))

(* Every action keeps count of the cancelled entries.                      *)
LEMMA CorpsesStep ==
  ASSUME IInv, CorpseInv, [Next]_vars
  PROVE  CorpseInv'
<1>0. GateInv(gate) BY DEF IInv
<1>1. ASSUME NEW c \in Calls, gate.status[c] = "new",
             \/ gate' = Refused(gate, c)
             \/ \E w : gate' = Granted(gate, c, w)
             \/ \E w, listens : gate' = Queued(gate, c, w, listens)
      PROVE  CorpseInv'
  <2>1. Corpses(gate') = Corpses(gate) /\ gate'.cancelledWaiters = gate.cancelledWaiters
    BY <1>0, <1>1, CorpsesOfAcquire
  <2> QED BY <2>1 DEF CorpseInv, CorpsesCounted, CorpsesExact
<1>2. ASSUME NEW c \in Calls, NEW w \in Weights, NEW signal \in Signal, Acquire(c, w, signal)
      PROVE  CorpseInv'
  BY <1>1, <1>2 DEF Acquire, AfterAcquire
<1>3. ASSUME NEW c \in Calls, NEW w \in Weights, TryAcquire(c, w) PROVE CorpseInv'
  BY <1>1, <1>3 DEF TryAcquire, AfterTryAcquire
<1>4. ASSUME NEW c \in Calls, Abort(c) PROVE CorpseInv'
  <2> DEFINE a == Cardinality(Corpses(gate))
             b == Cardinality(Corpses(gate'))
  <2>1. /\ gate.status[c] \in {"waiting", "reset"} /\ gate' = AfterAbort(gate, c)
        /\ ~AbortsAfterReset => gate.status[c] = "waiting"
    BY <1>4 DEF Abort
  <2>2. /\ gate'.cancelledWaiters = gate.cancelledWaiters + 1
        /\ b <= a + 1 /\ (gate.status[c] = "waiting" => b = a + 1)
    BY <1>0, <2>1, CorpsesOfAbort
  <2>3. gate.cancelledWaiters \in Nat /\ a \in Nat /\ b \in Nat
    BY <1>0, EntriesFinite DEF GateInv, GateType
  <2>4. a <= gate.cancelledWaiters /\ (~AbortsAfterReset => gate.cancelledWaiters = a)
    BY DEF CorpseInv, CorpsesCounted, CorpsesExact
  <2> HIDE DEF a, b
  <2>5. b <= gate'.cancelledWaiters /\ (~AbortsAfterReset => gate'.cancelledWaiters = b)
    BY <2>1, <2>2, <2>3, <2>4
  <2> QED BY <2>5 DEF b, CorpseInv, CorpsesCounted, CorpsesExact
<1>5. ASSUME NEW c \in Calls, Release(c) PROVE CorpseInv'
  <2>1. PICK n \in 0..Len(gate.waiters) : gate' = AfterRelease(gate, c, n) BY <1>5 DEF Release
  <2>2. gate.status[c] = "holding" BY <1>5 DEF Release
  <2> QED BY <1>0, <2>1, <2>2, CorpsesOfRelease DEF CorpseInv
<1>6. ASSUME NEW wanted \in Nat, gate' = AfterReset(gate, wanted) PROVE CorpseInv'
  <2>1. CorpsesExact(gate') BY <1>0, <1>6, CorpsesOfReset
  <2> QED BY <2>1, EntriesFinite DEF CorpseInv, CorpsesCounted, CorpsesExact
<1>7. ASSUME NEW wanted \in ResetTo, Reset(wanted) PROVE CorpseInv'
  BY <1>6, <1>7, PermitGateConstants DEF Reset
<1>8. CASE UNCHANGED vars BY <1>8 DEF vars, CorpseInv
<1>9. CASE Dispose
  <2>1. CASE gate' = gate BY <2>1 DEF CorpseInv
  <2> QED BY <1>6, <1>9, <2>1, GateConstants DEF Dispose
<1> QED BY <1>2, <1>3, <1>4, <1>5, <1>7, <1>8, <1>9 DEF Next

(* The count of the cancelled entries is invariant.                        *)
LEMMA CorpsesAlways == Spec => []CorpseInv
<1>1. Init => CorpseInv
  <2> SUFFICES ASSUME Init PROVE CorpseInv OBVIOUS
  <2>1. gate.waiters = << >> /\ gate.cancelledWaiters = 0 BY DEF Init, NewGate
  <2>2. Corpses(gate) = {} BY <2>1 DEF Corpses
  <2> QED BY <2>1, <2>2, FS_EmptySet DEF CorpseInv, CorpsesCounted, CorpsesExact
<1>2. IInv /\ CorpseInv /\ [Next]_vars => CorpseInv' BY CorpsesStep
<1> QED BY <1>1, <1>2, GateIsSound, PTL DEF Spec

(* pending, by which a caller is turned away from a full queue, counts the *)
(* live waiters exactly, however many entries were cancelled and whenever  *)
(* they are compacted, provided no listener fires after reset().           *)
THEOREM PendingExact ==
  ASSUME ~AbortsAfterReset
  PROVE  Spec => []PendingIsLiveWaiters
<1>1. IInv /\ CorpseInv => PendingIsLiveWaiters
  BY PendingCounts DEF IInv, CorpseInv, PendingIsLiveWaiters
<1> QED BY <1>1, GateIsSound, CorpsesAlways, PTL

(* Such a listener makes pending too small and never too large: the queue  *)
(* then admits more waiters than its capacity, and refuses none it should  *)
(* admit.                                                                  *)
THEOREM PendingNeverOverstates == Spec => [](Pending(gate) <= Cardinality(LiveWaiters(gate)))
<1>1. IInv /\ CorpseInv => Pending(gate) <= Cardinality(LiveWaiters(gate))
  BY PendingCounts DEF IInv, CorpseInv
<1> QED BY <1>1, GateIsSound, CorpsesAlways, PTL

-----------------------------------------------------------------------------
(* No permit is left idle.                                                 *)

\* Every call asks for one unit, and none is available while somebody waits for it.
IdleInv == UnitWeights(gate) /\ (LiveWaiters(gate) # {} => gate.available = 0)

(* With unit weights, no action leaves a unit beside a waiter.             *)
LEMMA IdleStep ==
  ASSUME Weights = {1}, IInv, IdleInv, [Next]_vars
  PROVE  IdleInv'
<1>0. /\ GateInv(gate) /\ gate \in GateType /\ gate.available \in Nat
      /\ gate.status \in [Calls -> Status] /\ gate.weight \in [Calls -> Nat]
  BY DEF IInv, GateInv, GateType
<1>1. ASSUME NEW c \in Calls, gate.status[c] = "new",
             \/ gate' = Refused(gate, c)
             \/ gate' = Granted(gate, c, 1) /\ gate.available >= 1
             \/ gate.available < 1 /\ \E listens : gate' = Queued(gate, c, 1, listens)
      PROVE  IdleInv'
  <2>1. CASE gate' = Refused(gate, c)
    BY <1>0, <1>1, <2>1 DEF Refused, GateType, IdleInv, UnitWeights, LiveWaiters
  <2>2. CASE gate' = Granted(gate, c, 1) /\ gate.available >= 1
    BY <1>0, <1>1, <2>2 DEF Granted, GateType, IdleInv, UnitWeights, LiveWaiters
  <2>3. ASSUME gate.available < 1, NEW listens, gate' = Queued(gate, c, 1, listens)
        PROVE  IdleInv'
    BY <1>0, <2>3 DEF Queued, GateType, IdleInv, UnitWeights, LiveWaiters
  <2> QED BY <1>1, <2>1, <2>2, <2>3
<1>2. ASSUME NEW c \in Calls, NEW w \in Weights, NEW signal \in Signal, Acquire(c, w, signal)
      PROVE  IdleInv'
  BY <1>0, <1>1, <1>2 DEF Acquire, AfterAcquire
<1>3. ASSUME NEW c \in Calls, NEW w \in Weights, TryAcquire(c, w) PROVE IdleInv'
  BY <1>0, <1>1, <1>3 DEF TryAcquire, AfterTryAcquire
<1>4. ASSUME NEW c \in Calls, Abort(c) PROVE IdleInv'
  BY <1>0, <1>4 DEF Abort, AfterAbort, GateType, IdleInv, UnitWeights, LiveWaiters
<1>5. ASSUME NEW c \in Calls, Release(c) PROVE IdleInv'
  <2>1. PICK n \in 0..Len(gate.waiters) :
             ServesFirst(gate, n, gate.weight[c]) /\ gate' = AfterRelease(gate, c, n)
    BY <1>5 DEF Release
  <2> DEFINE units == UnitsAmong(gate, n)
             served == LiveAmong(gate, n)
             freed == gate.weight[c] - units
  <2>2. gate.weight[c] = 1 BY DEF IdleInv, UnitWeights
  <2>3. units \in Nat /\ units <= 1 BY <1>0, <2>1, <2>2, ServedFits
  <2>4. /\ gate'.weight = gate.weight
        /\ gate'.status = [d \in Calls |-> IF d = c THEN "released"
                                           ELSE IF d \in served THEN "holding" ELSE gate.status[d]]
        /\ gate'.available = IF freed > 0 THEN Lesser(Capacity, gate.available + freed)
                             ELSE gate.available
    BY <1>0, <2>1 DEF AfterRelease, AfterServe
  <2>5. units = 0 => LiveWaiters(gate) = {}
    BY <1>0, <2>1, <2>2, UnitUnserved DEF IdleInv
  <2>6. LiveWaiters(gate') \subseteq LiveWaiters(gate) BY <2>4 DEF LiveWaiters
  <2>7. units = 1 => freed = 0 BY <2>2
  <2> HIDE DEF units, freed, served
  <2>8. UnitWeights(gate') BY <2>4 DEF IdleInv, UnitWeights
  <2>9. LiveWaiters(gate') # {} => gate'.available = gate.available
    BY <2>3, <2>4, <2>5, <2>6, <2>7
  <2> QED BY <2>6, <2>8, <2>9 DEF IdleInv
<1>6. ASSUME NEW wanted \in Nat, gate' = AfterReset(gate, wanted) PROVE IdleInv'
  BY <1>0, <1>6 DEF AfterReset, GateType, IdleInv, UnitWeights, LiveWaiters
<1>7. ASSUME NEW wanted \in ResetTo, Reset(wanted) PROVE IdleInv'
  BY <1>6, <1>7, PermitGateConstants DEF Reset
<1>8. CASE UNCHANGED vars BY <1>8 DEF vars, IdleInv
<1>9. CASE Dispose
  <2>1. CASE gate' = gate BY <2>1 DEF IdleInv
  <2> QED BY <1>6, <1>9, <2>1, GateConstants DEF Dispose
<1> QED BY <1>2, <1>3, <1>4, <1>5, <1>7, <1>8, <1>9 DEF Next

(* No lost wake-up: with unit weights a permit is never available while a  *)
(* caller that has not been cancelled is queued for it.  (A heavy waiter   *)
(* can be left waiting beside units that are too few or that came back in  *)
(* parts, which one of the runs shows.)                                    *)
THEOREM NoPermitIdles ==
  ASSUME Weights = {1}
  PROVE  Spec => []NoIdlePermit
<1>1. Init => IdleInv
  BY DEF Init, NewGate, IdleInv, UnitWeights, LiveWaiters
<1>2. IInv /\ IdleInv /\ [Next]_vars => IdleInv' BY IdleStep
<1>3. IInv /\ IdleInv => NoIdlePermit
  <2> SUFFICES ASSUME IInv, IdleInv, NEW i \in 1..Len(gate.waiters),
                      gate.status[gate.waiters[i]] = "waiting"
               PROVE  gate.available < gate.weight[gate.waiters[i]]
    BY DEF NoIdlePermit
  <2>1. gate.waiters[i] \in LiveWaiters(gate) BY DEF IInv, GateInv, GateType, LiveWaiters
  <2>2. gate.waiters[i] \in Calls BY <2>1 DEF LiveWaiters
  <2> QED BY <2>1, <2>2 DEF IdleInv, UnitWeights
<1> QED BY <1>1, <1>2, <1>3, GateIsSound, PTL DEF Spec

-----------------------------------------------------------------------------
(* The line of live waiters, read off a queue that also holds the entries  *)
(* of cancelled ones.                                                      *)

\* s lists the live waiters among the first n entries, in their order.
ListsTo(g, n, s) ==
  /\ s \in Seq(Calls)
  /\ \A i \in 1..Len(s) : s[i] \in LiveAmong(g, n)
  /\ \A c \in LiveAmong(g, n) : \E i \in 1..Len(s) : s[i] = c
  /\ InOrder(g, s)

\* s lists all of them.
Lists(g, s) ==
  /\ s \in Seq(Calls)
  /\ \A i \in 1..Len(s) : s[i] \in LiveWaiters(g)
  /\ \A c \in LiveWaiters(g) : \E i \in 1..Len(s) : s[i] = c
  /\ InOrder(g, s)

(* Nobody is ahead of himself, nor of one who is ahead of him.             *)
LEMMA AheadIsStrict ==
  ASSUME NEW g, GateInv(g), NEW c, NEW d, Ahead(g, c, d)
  PROVE  c # d /\ ~Ahead(g, d, c)
<1>1. Len(g.waiters) \in Nat /\ QueueInv(g) BY DEF GateInv, GateType
<1>2. PICK i, j \in 1..Len(g.waiters) : i < j /\ g.waiters[i] = c /\ g.waiters[j] = d
  BY DEF Ahead
<1>3. c # d BY <1>1, <1>2 DEF QueueInv
<1>4. ASSUME NEW k \in 1..Len(g.waiters), NEW l \in 1..Len(g.waiters),
             k < l, g.waiters[k] = d, g.waiters[l] = c
      PROVE  FALSE
  <2>1. k = j /\ l = i BY <1>1, <1>2, <1>4 DEF QueueInv
  <2> QED BY <1>2, <1>4, <2>1
<1> QED BY <1>3, <1>4 DEF Ahead

(* An entry more makes the list longer by one at most.                     *)
LEMMA ListGrows ==
  ASSUME NEW g, GateInv(g), NEW n \in 0..(Len(g.waiters) - 1), NEW s, ListsTo(g, n, s)
  PROVE  \E t : ListsTo(g, n + 1, t)
<1> DEFINE c == g.waiters[n + 1]
<1>0. Len(g.waiters) \in Nat /\ g.waiters \in Seq(Calls) /\ QueueInv(g) /\ s \in Seq(Calls)
      /\ Len(s) \in Nat
  BY DEF GateInv, GateType, ListsTo
<1>1. c \in Calls BY <1>0
<1>2. n + 1 \in 1..Len(g.waiters) /\ 1..(n + 1) = 1..n \cup {n + 1} BY <1>0
<1>3. CASE c \notin LiveWaiters(g)
  <2>1. LiveAmong(g, n + 1) = LiveAmong(g, n) BY <1>2, <1>3 DEF LiveAmong
  <2>2. ListsTo(g, n + 1, s) BY <2>1 DEF ListsTo
  <2> QED BY <2>2
<1>4. CASE c \in LiveWaiters(g)
  <2> DEFINE t == Append(s, c)
  <2>1. LiveAmong(g, n + 1) = LiveAmong(g, n) \cup {c} BY <1>2, <1>4 DEF LiveAmong
  <2>2. /\ t \in Seq(Calls) /\ Len(t) = Len(s) + 1 /\ t[Len(s) + 1] = c
        /\ \A i \in 1..Len(s) : t[i] = s[i]
    BY <1>0, <1>1, AppendProperties
  <2> HIDE DEF t
  <2>3. \A i \in 1..Len(t) : i \in 1..Len(s) \/ i = Len(s) + 1 BY <1>0, <2>2
  <2>4. \A i \in 1..Len(t) : t[i] \in LiveAmong(g, n + 1)
    BY <2>1, <2>2, <2>3 DEF ListsTo
  <2>5. \A d \in LiveAmong(g, n + 1) : \E i \in 1..Len(t) : t[i] = d
    <3> TAKE d \in LiveAmong(g, n + 1)
    <3>1. CASE d = c BY <1>0, <2>2, <3>1
    <3>2. CASE d # c
      <4>1. PICK i \in 1..Len(s) : s[i] = d BY <2>1, <3>2 DEF ListsTo
      <4>2. i \in 1..Len(t) /\ t[i] = d BY <1>0, <2>2, <4>1
      <4> QED BY <4>2
    <3> QED BY <3>1, <3>2
  <2>6. InOrder(g, t)
    <3> SUFFICES ASSUME NEW i \in 1..Len(t), NEW j \in 1..Len(t), i < j
                 PROVE  Ahead(g, t[i], t[j])
      BY DEF InOrder
    <3>1. i \in 1..Len(s) BY <1>0, <2>2, <2>3
    <3>2. CASE j \in 1..Len(s) BY <2>2, <3>1, <3>2 DEF ListsTo, InOrder
    <3>3. CASE j = Len(s) + 1
      <4>1. s[i] \in LiveAmong(g, n) BY <3>1 DEF ListsTo
      <4>2. PICK k \in 1..n : g.waiters[k] = s[i] BY <4>1 DEF LiveAmong
      <4>3. k \in 1..Len(g.waiters) /\ k < n + 1 BY <1>0, <1>2
      <4> QED BY <1>2, <2>2, <3>1, <3>3, <4>2, <4>3 DEF Ahead
    <3> QED BY <2>3, <3>2, <3>3
  <2>7. ListsTo(g, n + 1, t) BY <2>2, <2>4, <2>5, <2>6 DEF ListsTo
  <2> QED BY <2>7
<1> QED BY <1>3, <1>4

(* The live waiters can be listed: no prefix of the queue is the shortest  *)
(* that cannot.                                                            *)
LEMMA ListExists ==
  ASSUME NEW g, GateInv(g)
  PROVE  \E s : Lists(g, s)
<1> DEFINE T == {n \in 0..Len(g.waiters) : ~\E s : ListsTo(g, n, s)}
<1>0. Len(g.waiters) \in Nat /\ QueueInv(g) BY DEF GateInv, GateType
<1>1. T = {}
  <2> SUFFICES ASSUME T # {} PROVE FALSE OBVIOUS
  <2>0. T \subseteq Nat BY <1>0
  <2>1. PICK n \in T : \A m \in T : n <= m
    <3> HIDE DEF T
    <3> QED BY <2>0, LeastExists
  <2>2. CASE n = 0
    <3> DEFINE s == << >>
    <3>1. s \in Seq(Calls) /\ Len(s) = 0 BY EmptySeq
    <3>2. LiveAmong(g, 0) = {} BY DEF LiveAmong
    <3>3. ListsTo(g, 0, s) BY <3>1, <3>2 DEF ListsTo, InOrder
    <3> QED BY <2>2, <3>3
  <2>3. CASE n # 0
    <3>1. n - 1 \in 0..(Len(g.waiters) - 1) /\ n - 1 \in 0..Len(g.waiters) /\ ~(n <= n - 1)
          /\ (n - 1) + 1 = n
      BY <1>0, <2>3
    <3>2. PICK s : ListsTo(g, n - 1, s) BY <2>1, <3>1
    <3>3. \E t : ListsTo(g, n, t) BY <3>1, <3>2, ListGrows
    <3> QED BY <3>3
  <2> QED BY <2>2, <2>3
<1>2. PICK s : ListsTo(g, Len(g.waiters), s) BY <1>0, <1>1
<1>3. LiveAmong(g, Len(g.waiters)) = LiveWaiters(g) BY <1>0 DEF LiveAmong, QueueInv
<1>4. Lists(g, s) BY <1>2, <1>3 DEF ListsTo, Lists
<1> QED BY <1>4

(* A list names each waiter once.                                          *)
LEMMA ListIsBijection ==
  ASSUME NEW g, GateInv(g), NEW s, Lists(g, s)
  PROVE  /\ \A i, j \in 1..Len(s) : s[i] = s[j] => i = j
         /\ Len(s) = Cardinality(LiveWaiters(g))
         /\ s \in [1..Len(s) -> LiveWaiters(g)]
<1>0. s \in Seq(Calls) /\ Len(s) \in Nat BY DEF Lists
<1>1. \A i, j \in 1..Len(s) : s[i] = s[j] => i = j
  <2> SUFFICES ASSUME NEW i \in 1..Len(s), NEW j \in 1..Len(s), i # j PROVE s[i] # s[j] OBVIOUS
  <2>1. CASE i < j BY <2>1, AheadIsStrict DEF Lists, InOrder
  <2>2. CASE j < i BY <2>2, AheadIsStrict DEF Lists, InOrder
  <2> QED BY <1>0, <2>1, <2>2
<1>2. s \in [1..Len(s) -> LiveWaiters(g)] BY <1>0 DEF Lists
<1> DEFINE n == Len(s)
<1>3. n \in Nat BY <1>0
<1>4. s \in Bijection(1..n, LiveWaiters(g))
  BY <1>1, <1>2 DEF Lists, Bijection, Injection, Surjection, IsInjective
<1> HIDE DEF n
<1>5. IsFiniteSet(1..n) /\ Cardinality(1..n) = n BY <1>3, FS_Interval
<1>6. Cardinality(LiveWaiters(g)) = n BY <1>4, <1>5, FS_Bijection DEF ExistsBijection
<1> QED BY <1>1, <1>2, <1>6 DEF n

(* There is one list, and the line is it.                                  *)
LEMMA LineIsTheList ==
  ASSUME NEW g, GateInv(g), NEW s, Lists(g, s)
  PROVE  Line(g) = s
<1> DEFINE n == Cardinality(LiveWaiters(g))
           F == [1..n -> LiveWaiters(g)]
<1>0. n \in Nat BY EntriesFinite
<1>1. s \in F /\ InOrder(g, s) /\ Len(s) = n /\ (\A i, j \in 1..n : s[i] = s[j] => i = j)
  BY ListIsBijection DEF Lists
<1>2. ASSUME NEW t \in F, InOrder(g, t) PROVE t = s
  <2>0. Len(t) = n /\ DOMAIN t = 1..n /\ DOMAIN s = 1..n BY <1>0, <1>1
  <2>1. \A i, j \in 1..n : t[i] = t[j] => i = j
    <3> SUFFICES ASSUME NEW i \in 1..n, NEW j \in 1..n, i # j PROVE t[i] # t[j] OBVIOUS
    <3>1. CASE i < j BY <1>2, <2>0, <3>1, AheadIsStrict DEF InOrder
    <3>2. CASE j < i BY <1>2, <2>0, <3>2, AheadIsStrict DEF InOrder
    <3> QED BY <1>0, <3>1, <3>2
  <2>2. \A c \in LiveWaiters(g) : \E i \in 1..n : t[i] = c
    <3>1. t \in Injection(1..n, LiveWaiters(g)) BY <2>1 DEF Injection, IsInjective
    <3>2. Cardinality(1..n) = n
      <4> HIDE DEF n
      <4> QED BY <1>0, FS_Interval
    <3>3. t \in Surjection(1..n, LiveWaiters(g))
      BY <3>1, <3>2, EntriesFinite, FS_Injection
    <3> QED BY <3>3 DEF Surjection
  <2> DEFINE T == {k \in 1..n : t[k] # s[k]}
  <2>3. T = {}
    <3> SUFFICES ASSUME T # {} PROVE FALSE OBVIOUS
    <3>0. T \subseteq Nat BY <1>0
    <3>1. PICK k \in T : \A l \in T : k <= l
      <4> HIDE DEF T
      <4> QED BY <3>0, LeastExists
    <3>2. k \in 1..n /\ t[k] # s[k] OBVIOUS
    <3>3. PICK l \in 1..n : t[l] = s[k] BY <1>1, <2>2, <3>2
    <3>4. PICK m \in 1..n : s[m] = t[k] BY <1>1, <1>2, <3>2, ListIsBijection DEF Lists
    <3>5. k < l
      <4>1. l # k BY <3>2, <3>3
      <4>2. ~(l < k)
        <5> SUFFICES ASSUME l < k PROVE FALSE OBVIOUS
        <5>1. l \notin T BY <1>0, <3>1
        <5>2. s[l] = s[k] BY <3>3, <5>1
        <5> QED BY <1>1, <3>2, <4>1, <5>2
      <4> QED BY <1>0, <4>1, <4>2
    <3>6. k < m
      <4>1. m # k BY <3>2, <3>4
      <4>2. ~(m < k)
        <5> SUFFICES ASSUME m < k PROVE FALSE OBVIOUS
        <5>1. m \notin T BY <1>0, <3>1
        <5>2. t[m] = t[k] BY <3>4, <5>1
        <5> QED BY <2>1, <3>2, <4>1, <5>2
      <4> QED BY <1>0, <4>1, <4>2
    <3>7. Ahead(g, t[k], s[k]) BY <1>2, <2>0, <3>2, <3>3, <3>5 DEF InOrder
    <3>8. Ahead(g, s[k], t[k]) BY <1>1, <3>2, <3>4, <3>6 DEF InOrder
    <3> QED BY <3>7, <3>8, AheadIsStrict
  <2>4. \A k \in 1..n : t[k] = s[k] BY <2>3
  <2> QED BY <1>1, <2>0, <2>4
<1> HIDE DEF n, F
<1>3. Line(g) = CHOOSE t \in F : InOrder(g, t) BY DEF Line, F, n
<1> QED BY <1>1, <1>2, <1>3

(* The line is the list of the live waiters.                               *)
LEMMA LineLists ==
  ASSUME NEW g, GateInv(g)
  PROVE  Lists(g, Line(g))
BY ListExists, LineIsTheList

(* Only the live waiters and their order make the line.                    *)
LEMMA SameLine ==
  ASSUME NEW g, NEW h, h.waiters = g.waiters, LiveWaiters(h) = LiveWaiters(g)
  PROVE  Line(h) = Line(g)
BY DEF Line, InOrder, Ahead

(* A line of nobody is empty.                                              *)
LEMMA EmptyLine ==
  ASSUME NEW g, GateInv(g)
  PROVE  LiveWaiters(g) = {} <=> Line(g) = << >>
<1>1. ASSUME LiveWaiters(g) = {} PROVE Line(g) = << >>
  <2> DEFINE s == << >>
  <2>1. s \in Seq(Calls) /\ Len(s) = 0 BY EmptySeq
  <2>2. Lists(g, s) BY <1>1, <2>1 DEF Lists, InOrder
  <2> QED BY <2>2, LineIsTheList
<1>2. ASSUME Line(g) = << >> PROVE LiveWaiters(g) = {}
  <2>1. Len(Line(g)) = 0 BY <1>2
  <2> QED BY <2>1, LineLists DEF Lists
<1> QED BY <1>1, <1>2

(* A caller that queues stands last in line.                               *)
LEMMA LineAppends ==
  ASSUME NEW g, GateInv(g), NEW c \in Calls, g.status[c] = "new", NEW w, NEW listens,
         NEW h, h = Queued(g, c, w, listens), GateInv(h)
  PROVE  Line(h) = Append(Line(g), c)
<1> DEFINE s == Line(g)
           t == Append(s, c)
           q == Append(g.waiters, c)
<1>0. /\ g \in GateType /\ g.waiters \in Seq(Calls) /\ Len(g.waiters) \in Nat
      /\ g.status \in [Calls -> Status] /\ QueueInv(g)
  BY DEF GateInv, GateType
<1>1. h.waiters = q /\ h.status = [g.status EXCEPT ![c] = "waiting"]
  BY <1>0 DEF Queued, GateType
<1>2. LiveWaiters(h) = LiveWaiters(g) \cup {c} BY <1>0, <1>1 DEF LiveWaiters
<1>3. /\ Len(q) = Len(g.waiters) + 1 /\ q[Len(g.waiters) + 1] = c
      /\ \A i \in 1..Len(g.waiters) : q[i] = g.waiters[i]
  BY <1>0, AppendProperties
<1>4. Lists(g, s) BY LineLists
<1> HIDE DEF s
<1>5. s \in Seq(Calls) /\ Len(s) \in Nat BY <1>4 DEF Lists
<1>6. /\ t \in Seq(Calls) /\ Len(t) = Len(s) + 1 /\ t[Len(s) + 1] = c
      /\ \A i \in 1..Len(s) : t[i] = s[i]
  BY <1>5, AppendProperties
<1> HIDE DEF t, q
<1>7. \A i \in 1..Len(t) : i \in 1..Len(s) \/ i = Len(s) + 1 BY <1>5, <1>6
<1>8. \A i \in 1..Len(t) : t[i] \in LiveWaiters(h) BY <1>2, <1>4, <1>6, <1>7 DEF Lists
<1>9. \A d \in LiveWaiters(h) : \E i \in 1..Len(t) : t[i] = d
  <2> TAKE d \in LiveWaiters(h)
  <2>1. CASE d = c BY <1>5, <1>6, <2>1
  <2>2. CASE d # c
    <3>1. PICK i \in 1..Len(s) : s[i] = d BY <1>2, <1>4, <2>2 DEF Lists
    <3>2. i \in 1..Len(t) /\ t[i] = d BY <1>5, <1>6, <3>1
    <3> QED BY <3>2
  <2> QED BY <2>1, <2>2
<1>10. InOrder(h, t)
  <2> SUFFICES ASSUME NEW i \in 1..Len(t), NEW j \in 1..Len(t), i < j
               PROVE  Ahead(h, t[i], t[j])
    BY DEF InOrder
  <2>0. SUFFICES \E k, l \in 1..Len(q) : k < l /\ q[k] = t[i] /\ q[l] = t[j]
    BY <1>1 DEF Ahead
  <2>1. i \in 1..Len(s) BY <1>5, <1>6, <1>7
  <2>2. CASE j \in 1..Len(s)
    <3>1. Ahead(g, s[i], s[j]) BY <1>4, <2>1, <2>2 DEF Lists, InOrder
    <3>2. PICK k, l \in 1..Len(g.waiters) : k < l /\ g.waiters[k] = s[i] /\ g.waiters[l] = s[j]
      BY <3>1 DEF Ahead
    <3>3. k \in 1..Len(q) /\ l \in 1..Len(q) BY <1>0, <1>3
    <3> QED BY <1>3, <1>6, <2>1, <2>2, <3>2, <3>3
  <2>3. CASE j = Len(s) + 1
    <3>1. s[i] \in LiveWaiters(g) BY <1>4, <2>1 DEF Lists
    <3>2. PICK k \in 1..Len(g.waiters) : g.waiters[k] = s[i] BY <1>0, <3>1 DEF QueueInv
    <3>3. k \in 1..Len(q) /\ Len(q) \in 1..Len(q) /\ k < Len(q) BY <1>0, <1>3
    <3> QED BY <1>3, <1>6, <2>1, <2>3, <3>2, <3>3
  <2> QED BY <1>7, <2>2, <2>3
<1>11. Lists(h, t) BY <1>6, <1>8, <1>9, <1>10 DEF Lists
<1> QED BY <1>11, LineIsTheList DEF s, t

(* A caller that aborts its wait leaves the line, and nobody else moves.   *)
LEMMA LineLeaves ==
  ASSUME NEW g, GateInv(g), NEW c \in Calls, g.status[c] = "waiting",
         NEW h, h = AfterAbort(g, c)
  PROVE  \E p \in 1..Len(Line(g)) :
           /\ Line(g)[p] = c
           /\ Line(h) = SubSeq(Line(g), 1, p - 1) \o SubSeq(Line(g), p + 1, Len(Line(g)))
<1> DEFINE s == Line(g)
<1>0. /\ g \in GateType /\ g.status \in [Calls -> Status] /\ GateInv(h)
  BY AbortSound DEF GateInv, GateType
<1>1. h.waiters = g.waiters /\ h.status = [g.status EXCEPT ![c] = "cancelled"]
  BY <1>0 DEF AfterAbort, GateType
<1>2. LiveWaiters(h) = LiveWaiters(g) \ {c} /\ c \in LiveWaiters(g)
  BY <1>0, <1>1 DEF LiveWaiters
<1>3. Lists(g, s) /\ (\A i, j \in 1..Len(s) : s[i] = s[j] => i = j)
  BY LineLists, ListIsBijection
<1> HIDE DEF s
<1>4. s \in Seq(Calls) /\ Len(s) \in Nat BY <1>3 DEF Lists
<1>5. PICK p \in 1..Len(s) : s[p] = c BY <1>2, <1>3 DEF Lists
<1> DEFINE a == SubSeq(s, 1, p - 1)
           b == SubSeq(s, p + 1, Len(s))
           t == a \o b
<1>6. /\ a \in Seq(Calls) /\ Len(a) = p - 1 /\ \A i \in 1..(p - 1) : a[i] = s[i]
  <2>1. 1 \in 1..Len(s) + 1 /\ p - 1 \in (1 - 1)..Len(s) BY <1>4
  <2> QED BY <1>4, <2>1, SubSeqProperties
<1>7. /\ b \in Seq(Calls) /\ Len(b) = Len(s) - p
      /\ \A i \in 1..(Len(s) - p) : b[i] = s[p + i]
  <2>1. p + 1 \in 1..Len(s) + 1 /\ Len(s) \in ((p + 1) - 1)..Len(s) BY <1>4
  <2> QED BY <1>4, <2>1, SubSeqProperties
<1> HIDE DEF a, b
<1>8. /\ t \in Seq(Calls) /\ Len(t) = Len(s) - 1
      /\ \A i \in 1..Len(t) : t[i] = IF i < p THEN s[i] ELSE s[i + 1]
  <2>1. /\ t \in Seq(Calls) /\ Len(t) = Len(a) + Len(b)
        /\ \A i \in 1..(Len(a) + Len(b)) : t[i] = IF i <= Len(a) THEN a[i] ELSE b[i - Len(a)]
    BY <1>6, <1>7, ConcatProperties
  <2>2. Len(t) = Len(s) - 1 BY <1>4, <1>6, <1>7, <2>1
  <2>3. ASSUME NEW i \in 1..Len(t) PROVE t[i] = IF i < p THEN s[i] ELSE s[i + 1]
    <3>1. CASE i < p BY <1>4, <1>6, <2>1, <3>1
    <3>2. CASE ~(i < p)
      <4>1. i - (p - 1) \in 1..(Len(s) - p) /\ p + (i - (p - 1)) = i + 1
        BY <1>4, <2>2, <3>2
      <4>2. t[i] = b[i - (p - 1)] BY <1>4, <1>6, <2>1, <3>2
      <4> QED BY <1>7, <3>2, <4>1, <4>2
    <3> QED BY <3>1, <3>2
  <2> QED BY <2>1, <2>2, <2>3
<1> HIDE DEF t
<1> DEFINE from(i) == IF i < p THEN i ELSE i + 1
<1>9. \A i \in 1..Len(t) : from(i) \in 1..Len(s) /\ from(i) # p /\ t[i] = s[from(i)]
  BY <1>4, <1>8
<1>10. \A i, j \in 1..Len(t) : i < j => from(i) < from(j) BY <1>4, <1>8
<1>11. \A k \in 1..Len(s) : k # p => \E i \in 1..Len(t) : from(i) = k
  <2> TAKE k \in 1..Len(s)
  <2> DEFINE i == IF k < p THEN k ELSE k - 1
  <2>1. k # p => i \in 1..Len(t) /\ from(i) = k BY <1>4, <1>8
  <2> QED BY <2>1
<1> HIDE DEF from
<1>12. \A i \in 1..Len(t) : t[i] \in LiveWaiters(h)
  BY <1>2, <1>3, <1>5, <1>9 DEF Lists
<1>13. \A d \in LiveWaiters(h) : \E i \in 1..Len(t) : t[i] = d
  <2> TAKE d \in LiveWaiters(h)
  <2>1. PICK k \in 1..Len(s) : s[k] = d BY <1>2, <1>3 DEF Lists
  <2>2. k # p BY <1>2, <1>5, <2>1
  <2> QED BY <1>9, <1>11, <2>1, <2>2
<1>14. InOrder(h, t)
  <2> SUFFICES ASSUME NEW i \in 1..Len(t), NEW j \in 1..Len(t), i < j
               PROVE  Ahead(h, t[i], t[j])
    BY DEF InOrder
  <2>1. Ahead(g, s[from(i)], s[from(j)]) BY <1>3, <1>9, <1>10 DEF Lists, InOrder
  <2> QED BY <1>1, <1>9, <2>1 DEF Ahead
<1>15. Lists(h, t) BY <1>8, <1>12, <1>13, <1>14 DEF Lists
<1>16. Line(h) = t BY <1>0, <1>15, LineIsTheList
<1> QED BY <1>5, <1>16 DEF s, t, a, b

(* A releasing holder's unit goes to the head of the line, if there is one. *)
LEMMA LineServes ==
  ASSUME NEW g, GateInv(g), UnitWeights(g), NEW c \in Calls, g.status[c] = "holding",
         NEW n \in 0..Len(g.waiters), ServesFirst(g, n, 1),
         NEW h, h = AfterRelease(g, c, n)
  PROVE  \/ /\ Line(g) = << >> /\ Line(h) = << >>
            /\ Holders(h) = Holders(g) \ {c}
         \/ /\ Line(g) # << >> /\ Line(h) = Tail(Line(g))
            /\ Holders(h) = (Holders(g) \ {c}) \cup {Head(Line(g))}
<1> DEFINE s == Line(g)
           t == Tail(s)
           q == SubSeq(g.waiters, n + 1, Len(g.waiters))
           served == LiveAmong(g, n)
<1>0. /\ g \in GateType /\ g.status \in [Calls -> Status] /\ g.waiters \in Seq(Calls)
      /\ Len(g.waiters) \in Nat /\ QueueInv(g)
  BY DEF GateInv, GateType
<1>1. /\ h.waiters = q
      /\ h.status = [d \in Calls |-> IF d = c THEN "released"
                                     ELSE IF d \in served THEN "holding" ELSE g.status[d]]
  BY <1>0 DEF AfterRelease, AfterServe
<1>2. GateInv(h)
  <2>1. g.weight[c] = 1 BY DEF UnitWeights
  <2> QED BY <2>1, ReleaseSound
<1>3. served \in SUBSET Calls /\ \A d \in served : d \in LiveWaiters(g) /\ d # c
  BY DEF LiveAmong, LiveWaiters
<1>4. served = {} \/ \E d \in Calls : served = {d}
  <2> DEFINE k == Cardinality(served)
  <2>1. UnitsAmong(g, n) \in Nat /\ UnitsAmong(g, n) <= 1 BY ServedFits
  <2>2. UnitsAmong(g, n) = k /\ k \in Nat /\ IsFiniteSet(served)
    BY <1>3, UnitsAreCalls DEF UnitsAmong
  <2>3. k = 0 \/ k = 1
    <3> HIDE DEF k
    <3> QED BY <2>1, <2>2
  <2> QED BY <1>3, <2>2, <2>3, FS_EmptySet, FS_Singleton
<1>5. LiveWaiters(h) = LiveWaiters(g) \ served /\ Holders(h) = (Holders(g) \ {c}) \cup served
  BY <1>1, <1>3 DEF LiveWaiters, Holders
<1>6. CASE served = {}
  <2>1. UnitsAmong(g, n) = 0 BY <1>6, UnitsOfNone DEF UnitsAmong
  <2>2. LiveWaiters(g) = {} BY <2>1, UnitUnserved
  <2>3. LiveWaiters(h) = {} BY <1>5, <2>2
  <2> QED BY <1>2, <1>5, <1>6, <2>2, <2>3, EmptyLine
<1>7. ASSUME NEW d \in Calls, served = {d}
      PROVE  s # << >> /\ Line(h) = t /\ Head(s) = d
  <2>1. Lists(g, s) /\ (\A i, j \in 1..Len(s) : s[i] = s[j] => i = j)
    BY LineLists, ListIsBijection
  <2>2. d \in LiveWaiters(g) BY <1>3, <1>7
  <2>3. PICK m \in 1..n : g.waiters[m] = d BY <1>7 DEF LiveAmong
  <2> HIDE DEF s
  <2>4. s \in Seq(Calls) /\ Len(s) \in Nat BY <2>1 DEF Lists
  <2>5. PICK p \in 1..Len(s) : s[p] = d BY <2>1, <2>2 DEF Lists
  <2>6. p = 1
    <3> SUFFICES ASSUME 1 < p PROVE FALSE BY <2>4
    <3>1. 1 \in 1..Len(s) BY <2>4
    <3>2. Ahead(g, s[1], d) BY <2>1, <2>5, <3>1 DEF Lists, InOrder
    <3>3. PICK i, j \in 1..Len(g.waiters) : i < j /\ g.waiters[i] = s[1] /\ g.waiters[j] = d
      BY <3>2 DEF Ahead
    <3>4. j = m
      <4>1. m \in 1..Len(g.waiters) BY <1>0
      <4>2. g.waiters[j] = g.waiters[m] BY <2>3, <3>3
      <4>3. \A x, y \in 1..Len(g.waiters) : g.waiters[x] = g.waiters[y] => x = y
        BY <1>0 DEF QueueInv
      <4> QED BY <4>1, <4>2, <4>3
    <3>5. i \in 1..n BY <1>0, <3>3, <3>4
    <3>6. s[1] \in served BY <2>1, <3>1, <3>3, <3>5 DEF LiveAmong, Lists
    <3>7. s[1] = s[p] BY <1>7, <2>5, <3>6
    <3> QED BY <2>1, <3>1, <3>7
  <2>7. /\ s # << >> /\ Head(s) = s[1] /\ t \in Seq(Calls) /\ Len(t) = Len(s) - 1
        /\ \A i \in 1..Len(t) : t[i] = s[i + 1]
    <3>1. s # << >> BY <2>4, <2>5
    <3> QED BY <2>4, <3>1, HeadTailProperties
  <2> HIDE DEF t
  <2>8. \A i \in 1..Len(t) : i + 1 \in 1..Len(s) /\ t[i] = s[i + 1] /\ i + 1 # 1
    BY <2>4, <2>7
  <2>9. \A i \in 1..Len(t) : t[i] \in LiveWaiters(h)
    <3> TAKE i \in 1..Len(t)
    <3>1. s[i + 1] \in LiveWaiters(g) BY <2>1, <2>8 DEF Lists
    <3>2. 1 \in 1..Len(s) BY <2>4, <2>6
    <3>3. s[i + 1] # d BY <2>1, <2>5, <2>6, <2>8, <3>2
    <3> QED BY <1>5, <1>7, <2>8, <3>1, <3>3
  <2>10. \A e \in LiveWaiters(h) : \E i \in 1..Len(t) : t[i] = e
    <3> TAKE e \in LiveWaiters(h)
    <3>1. e \in LiveWaiters(g) /\ e # d BY <1>5, <1>7
    <3>2. PICK k \in 1..Len(s) : s[k] = e BY <2>1, <3>1 DEF Lists
    <3>3. k # 1 BY <2>5, <2>6, <3>1, <3>2
    <3>4. k - 1 \in 1..Len(t) /\ (k - 1) + 1 = k BY <2>4, <2>7, <3>3
    <3> QED BY <2>8, <3>2, <3>4
  <2>11. InOrder(h, t)
    <3> SUFFICES ASSUME NEW i \in 1..Len(t), NEW j \in 1..Len(t), i < j
                 PROVE  Ahead(h, t[i], t[j])
      BY DEF InOrder
    <3>1. i + 1 < j + 1 BY <2>4, <2>7
    <3>2. Ahead(g, t[i], t[j]) BY <2>1, <2>8, <3>1 DEF Lists, InOrder
    <3>3. PICK k, l \in 1..Len(g.waiters) :
               k < l /\ g.waiters[k] = t[i] /\ g.waiters[l] = t[j]
      BY <3>2 DEF Ahead
    <3>4. k \notin 1..n
      <4>1. t[i] \notin served BY <1>5, <2>9
      <4>2. t[i] \in LiveWaiters(g) BY <1>5, <2>9
      <4> QED BY <3>3, <4>1, <4>2 DEF LiveAmong
    <3>5. /\ Len(q) = Len(g.waiters) - n
          /\ \A x \in 1..(Len(g.waiters) - n) : q[x] = g.waiters[n + x]
      <4> DEFINE z == Len(g.waiters)
      <4>1. n + 1 \in 1..(z + 1) /\ z \in ((n + 1) - 1)..z BY <1>0
      <4>2. /\ Len(q) = IF n + 1 <= z THEN z - (n + 1) + 1 ELSE 0
            /\ \A x \in 1..(z - (n + 1) + 1) : q[x] = g.waiters[n + 1 + x - 1]
        BY <1>0, <4>1, SubSeqProperties
      <4> HIDE DEF q
      <4> QED BY <1>0, <4>2
    <3> HIDE DEF q
    <3>6. /\ k - n \in 1..Len(q) /\ l - n \in 1..Len(q) /\ k - n < l - n
          /\ n + (k - n) = k /\ n + (l - n) = l
      BY <1>0, <3>3, <3>4, <3>5
    <3>7. q[k - n] = t[i] /\ q[l - n] = t[j] BY <3>3, <3>5, <3>6
    <3> QED BY <1>1, <3>6, <3>7 DEF Ahead
  <2>12. Lists(h, t) BY <2>7, <2>9, <2>10, <2>11 DEF Lists
  <2> QED BY <1>2, <2>5, <2>6, <2>7, <2>12, LineIsTheList
<1> QED BY <1>4, <1>5, <1>6, <1>7

-----------------------------------------------------------------------------
(* The gate implements the ideal semaphore.                                *)

\* What PowerSemaphore makes of the gate: unit weights, full resets, and callers that do
\* not abort a wait that reset() has rejected.
UsedAsSemaphore == Weights = {1} /\ OnlyFullResets /\ ~AbortsAfterReset

RefInv == IInv /\ CorpseInv /\ IdleInv /\ UnitsConserved

(* The calls in the ideal line are the live waiters.                       *)
LEMMA InLineIsLive ==
  ASSUME IInv
  PROVE  Ideal!InLine = LiveWaiters(gate)
<1>1. Lists(gate, Line(gate)) BY LineLists DEF IInv
<1> QED BY <1>1 DEF Ideal!InLine, Lists

(* The instance counts as the module FiniteSets does.                      *)
LEMMA SameCardinality == \A S : Ideal!Cardinality(S) = Cardinality(S)
BY DEF Ideal!Cardinality, Cardinality

(* A call takes a permit that is available: it enters ahead of nobody.     *)
LEMMA GrantEnters ==
  ASSUME RefInv, NEW c \in Calls, gate.status[c] = "new", gate.available >= 1,
         gate' = Granted(gate, c, 1)
  PROVE  Ideal!Enter(c)
<1>0. /\ GateInv(gate) /\ gate.status \in [Calls -> Status] /\ gate.available \in Nat
      /\ gate.held \in Nat /\ Capacity \in Nat /\ gate.available + gate.held = Capacity
      /\ gate.held = UnitCount(gate, Holders(gate))
  BY GateConstants DEF RefInv, IInv, GateInv, GateType, UnitsConserved, LedgerInv
<1>1. gate'.waiters = gate.waiters /\ gate'.status = [gate.status EXCEPT ![c] = "holding"]
  BY <1>0 DEF Granted, GateInv, GateType
<1>2. LiveWaiters(gate) = {} BY <1>0 DEF RefInv, IdleInv
<1>3. Line(gate) = << >> BY <1>0, <1>2, EmptyLine
<1>4. LiveWaiters(gate') = LiveWaiters(gate) BY <1>0, <1>1 DEF LiveWaiters
<1>5. Line(gate)' = Line(gate) BY <1>1, <1>4, SameLine
<1>6. Holders(gate)' = Holders(gate) \cup {c} /\ c \notin Holders(gate)
  BY <1>0, <1>1 DEF Holders
<1>7. Cardinality(Holders(gate)) < Capacity
  <2> DEFINE k == Cardinality(Holders(gate))
  <2>1. Holders(gate) \in SUBSET Calls BY DEF Holders
  <2>2. gate.held = k /\ k \in Nat BY <1>0, <2>1, UnitsAreCalls DEF RefInv, IdleInv
  <2> HIDE DEF k
  <2>3. k < Capacity BY <1>0, <2>2
  <2> QED BY <2>3 DEF k
<1>8. Ideal!InLine = {} BY <1>2, InLineIsLive DEF RefInv
<1> QED BY <1>3, <1>5, <1>6, <1>7, <1>8, SameCardinality DEF Ideal!Enter

(* A call waits when no permit is left, and only if there is room in line. *)
LEMMA QueueingStands ==
  ASSUME RefInv, ~AbortsAfterReset, NEW c \in Calls, gate.status[c] = "new",
         gate.available < 1, ~IsFull(gate),
         NEW listens, gate' = Queued(gate, c, 1, listens), GateInv(gate')
  PROVE  Ideal!StandInLine(c)
<1>0. /\ GateInv(gate) /\ gate.status \in [Calls -> Status] /\ gate.available \in Nat
      /\ gate.held \in Nat /\ Capacity \in Nat /\ gate.available + gate.held = Capacity
      /\ gate.held = UnitCount(gate, Holders(gate)) /\ QueueCapacity \in Nat
  BY GateConstants DEF RefInv, IInv, GateInv, GateType, UnitsConserved, LedgerInv
<1>1. gate'.status = [gate.status EXCEPT ![c] = "waiting"]
  BY <1>0 DEF Queued, GateInv, GateType
<1>2. Line(gate)' = Append(Line(gate), c) BY <1>0, LineAppends
<1>3. Holders(gate)' = Holders(gate) /\ c \notin Holders(gate) /\ c \notin LiveWaiters(gate)
  BY <1>0, <1>1 DEF Holders, LiveWaiters
<1>4. Cardinality(Holders(gate)) = Capacity
  <2> DEFINE k == Cardinality(Holders(gate))
  <2>1. Holders(gate) \in SUBSET Calls BY DEF Holders
  <2>2. gate.held = k /\ k \in Nat BY <1>0, <2>1, UnitsAreCalls DEF RefInv, IdleInv
  <2> HIDE DEF k
  <2>3. k = Capacity BY <1>0, <2>2
  <2> QED BY <2>3 DEF k
<1>5. Len(Line(gate)) < QueueCapacity
  <2>1. Pending(gate) = Cardinality(LiveWaiters(gate))
    BY <1>0, PendingCounts DEF RefInv, CorpseInv
  <2>2. Len(Line(gate)) = Cardinality(LiveWaiters(gate)) BY <1>0, LineLists, ListIsBijection
  <2> DEFINE k == Cardinality(LiveWaiters(gate))
  <2>3. k \in Nat /\ ~(k >= QueueCapacity) BY <2>1, EntriesFinite DEF IsFull
  <2> HIDE DEF k
  <2>4. k < QueueCapacity BY <1>0, <2>3
  <2> QED BY <2>2, <2>4 DEF k
<1>6. c \notin Holders(gate) \cup Ideal!InLine BY <1>3, InLineIsLive DEF RefInv
<1> QED BY <1>2, <1>3, <1>4, <1>5, <1>6, SameCardinality DEF Ideal!StandInLine

(* Every step of the gate is a step of the ideal semaphore or no step.     *)
LEMMA StepRefines ==
  ASSUME UsedAsSemaphore, RefInv, IInv', [Next]_vars
  PROVE  [Ideal!Next]_Ideal!vars
<1>0. /\ GateInv(gate) /\ GateInv(gate') /\ gate.status \in [Calls -> Status]
      /\ gate \in GateType
  BY DEF RefInv, IInv, GateInv, GateType
<1> DEFINE Stays == Line(gate)' = Line(gate) /\ Holders(gate)' = Holders(gate)
<1>s. Stays => [Ideal!Next]_Ideal!vars BY DEF Ideal!vars
<1>1. ASSUME NEW c \in Calls, gate.status[c] = "new", gate' = Refused(gate, c)
      PROVE  Stays
  <2>1. gate'.waiters = gate.waiters /\ gate'.status = [gate.status EXCEPT ![c] = "refused"]
    BY <1>0, <1>1 DEF Refused, GateType
  <2>2. LiveWaiters(gate') = LiveWaiters(gate) /\ Holders(gate)' = Holders(gate)
    BY <1>0, <1>1, <2>1 DEF LiveWaiters, Holders
  <2> QED BY <2>1, <2>2, SameLine
<1>2. ASSUME NEW c \in Calls, NEW w \in Weights, NEW signal \in Signal, Acquire(c, w, signal)
      PROVE  [Ideal!Next]_Ideal!vars
  <2>1. w = 1 /\ gate.status[c] = "new" /\ gate' = AfterAcquire(gate, c, 1, signal)
    BY <1>2 DEF Acquire, UsedAsSemaphore
  <2>2. \/ gate' = Refused(gate, c)
        \/ gate.available >= 1 /\ gate' = Granted(gate, c, 1)
        \/ ~(gate.available >= 1) /\ ~IsFull(gate) /\ gate' = Queued(gate, c, 1, signal = "live")
    BY <2>1 DEF AfterAcquire
  <2>3. CASE gate' = Refused(gate, c) BY <1>1, <1>s, <2>1, <2>3
  <2>4. CASE gate.available >= 1 /\ gate' = Granted(gate, c, 1)
    <3>1. Ideal!Enter(c) BY <2>1, <2>4, GrantEnters
    <3> QED BY <3>1 DEF Ideal!Next
  <2>5. CASE ~(gate.available >= 1) /\ ~IsFull(gate)
             /\ gate' = Queued(gate, c, 1, signal = "live")
    <3>1. gate.available < 1 BY <1>0, <2>5 DEF GateType
    <3> DEFINE listens == signal = "live"
    <3>2. gate' = Queued(gate, c, 1, listens) BY <2>5
    <3> HIDE DEF listens
    <3>3. Ideal!StandInLine(c)
      BY <1>0, <2>1, <2>5, <3>1, <3>2, QueueingStands DEF UsedAsSemaphore
    <3> QED BY <3>3 DEF Ideal!Next
  <2> QED BY <2>2, <2>3, <2>4, <2>5
<1>3. ASSUME NEW c \in Calls, NEW w \in Weights, TryAcquire(c, w)
      PROVE  [Ideal!Next]_Ideal!vars
  <2>1. w = 1 /\ gate.status[c] = "new" /\ gate' = AfterTryAcquire(gate, c, 1)
    BY <1>3 DEF TryAcquire, UsedAsSemaphore
  <2>2. \/ gate' = Refused(gate, c)
        \/ gate.available >= 1 /\ gate' = Granted(gate, c, 1)
    BY <2>1 DEF AfterTryAcquire
  <2>3. CASE gate' = Refused(gate, c) BY <1>1, <1>s, <2>1, <2>3
  <2>4. CASE gate.available >= 1 /\ gate' = Granted(gate, c, 1)
    <3>1. Ideal!Enter(c) BY <2>1, <2>4, GrantEnters
    <3> QED BY <3>1 DEF Ideal!Next
  <2> QED BY <2>2, <2>3, <2>4
<1>4. ASSUME NEW c \in Calls, Abort(c) PROVE [Ideal!Next]_Ideal!vars
  <2>1. gate.status[c] = "waiting" /\ gate' = AfterAbort(gate, c)
    BY <1>4 DEF Abort, UsedAsSemaphore
  <2>2. \E p \in 1..Len(Line(gate)) :
          /\ Line(gate)[p] = c
          /\ Line(gate)' = SubSeq(Line(gate), 1, p - 1)
                             \o SubSeq(Line(gate), p + 1, Len(Line(gate)))
    BY <1>0, <2>1, LineLeaves
  <2>3. gate'.status = [gate.status EXCEPT ![c] = "cancelled"]
    BY <1>0, <2>1 DEF AfterAbort, GateType
  <2>4. Holders(gate)' = Holders(gate) BY <1>0, <2>1, <2>3 DEF Holders
  <2>5. Ideal!Leave(c) BY <2>2, <2>4 DEF Ideal!Leave
  <2> QED BY <2>5 DEF Ideal!Next
<1>5. ASSUME NEW c \in Calls, Release(c) PROVE [Ideal!Next]_Ideal!vars
  <2>1. PICK n \in 0..Len(gate.waiters) :
             ServesFirst(gate, n, gate.weight[c]) /\ gate' = AfterRelease(gate, c, n)
    BY <1>5 DEF Release
  <2>2. gate.status[c] = "holding" /\ UnitWeights(gate) /\ gate.weight[c] = 1
    BY <1>5 DEF Release, RefInv, IdleInv, UnitWeights
  <2>3. \/ /\ Line(gate) = << >> /\ Line(gate)' = << >>
           /\ Holders(gate)' = Holders(gate) \ {c}
        \/ /\ Line(gate) # << >> /\ Line(gate)' = Tail(Line(gate))
           /\ Holders(gate)' = (Holders(gate) \ {c}) \cup {Head(Line(gate))}
    BY <1>0, <2>1, <2>2, LineServes
  <2>4. c \in Holders(gate) BY <2>2 DEF Holders
  <2>5. Ideal!GiveBack(c) BY <2>3, <2>4 DEF Ideal!GiveBack
  <2> QED BY <2>5 DEF Ideal!Next
<1>6. ASSUME NEW wanted \in Nat, gate' = AfterReset(gate, wanted)
      PROVE  [Ideal!Next]_Ideal!vars
  <2>1. gate'.status = [d \in Calls |-> IF gate.status[d] = "waiting" THEN "reset"
                                         ELSE gate.status[d]]
    BY <1>0, <1>6 DEF AfterReset, GateType
  <2>2. LiveWaiters(gate') = {} /\ Holders(gate)' = Holders(gate)
    BY <2>1 DEF LiveWaiters, Holders
  <2>3. Line(gate)' = << >> BY <1>0, <2>2, EmptyLine
  <2>4. Ideal!Clear BY <2>2, <2>3 DEF Ideal!Clear
  <2> QED BY <2>4 DEF Ideal!Next
<1>7. ASSUME NEW wanted \in ResetTo, Reset(wanted) PROVE [Ideal!Next]_Ideal!vars
  BY <1>6, <1>7, PermitGateConstants DEF Reset
<1>8. CASE gate' = gate BY <1>8, <1>s
<1>9. CASE Dispose BY <1>6, <1>8, <1>9, GateConstants DEF Dispose
<1>10. CASE UNCHANGED vars BY <1>8, <1>10 DEF vars
<1> QED BY <1>2, <1>3, <1>4, <1>5, <1>7, <1>9, <1>10 DEF Next

(* The lazily compacted queue with its cancelled entries, the unit handed  *)
(* from a releasing holder to a waiter, the reset and the disposal behave  *)
(* as a first-come semaphore: nobody overtakes, nobody is skipped, and no  *)
(* more than Capacity hold or QueueCapacity wait.                          *)
THEOREM GateIsFifo ==
  ASSUME UsedAsSemaphore
  PROVE  Spec => ImplementsFifo
<1>1. Init => IdleInv
  BY DEF Init, NewGate, IdleInv, UnitWeights, LiveWaiters
<1>2. IInv /\ IdleInv /\ [Next]_vars => IdleInv' BY IdleStep DEF UsedAsSemaphore
<1>3. Spec => []UnitsConserved BY NoUnitLost DEF UsedAsSemaphore
<1>4. IInv /\ CorpseInv /\ IdleInv /\ UnitsConserved /\ IInv' /\ [Next]_vars
        => [Ideal!Next]_Ideal!vars
  BY StepRefines DEF RefInv
<1>5. Init => Ideal!Init
  <2> SUFFICES ASSUME Init PROVE Ideal!Init OBVIOUS
  <2>1. GateInv(gate) BY NewGateSound, PermitGateConstants DEF Init
  <2>2. LiveWaiters(gate) = {} /\ Holders(gate) = {}
    BY DEF Init, NewGate, LiveWaiters, Holders
  <2> QED BY <2>1, <2>2, EmptyLine DEF Ideal!Init
<1> QED BY <1>1, <1>2, <1>3, <1>4, <1>5, GateIsSound, CorpsesAlways, PTL
        DEF Spec, ImplementsFifo, Ideal!Spec
=============================================================================
