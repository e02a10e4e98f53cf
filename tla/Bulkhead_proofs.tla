-------------------------- MODULE Bulkhead_proofs --------------------------
(***************************************************************************)
(* The isolation of the bulkhead's partitions and the exactness of its     *)
(* counters, for every number of partitions, every capacity, every queue   *)
(* bound, every set of calls and weights and every value of reset().       *)
(***************************************************************************)
EXTENDS Bulkhead, GateOps_proofs

TypeInv ==
  /\ gates \in [Partition -> GateType]
  /\ nextPartition \in Partition
  /\ phase \in [Calls -> Phase]
  /\ home \in [Calls -> Partition]

\* What a call's phase and home say of its place in the gate of partition p.
Placed(c, p) ==
  LET s == gates[p].status[c]
  IN  /\ phase[c] = "new" => s = "new"
      /\ s = "waiting" => home[c] = p /\ phase[c] = "asked"
      /\ s = "holding" => home[c] = p /\ phase[c] \in {"asked", "running", "trying"}
      /\ home[c] = p /\ phase[c] \in {"running", "trying"} => s = "holding"

IInv ==
  /\ TypeInv
  /\ \A p \in Partition : GateInv(gates[p])
  /\ \A c \in Calls, p \in Partition : Placed(c, p)

-----------------------------------------------------------------------------
(* What each operation of a gate does to the status of the calls.          *)

(* acquire() settles the status of its own call only.                      *)
LEMMA AcquireStatus ==
  ASSUME NEW g \in GateType, NEW c \in Calls, NEW w, NEW signal
  PROVE  /\ AfterAcquire(g, c, w, signal).status[c] \in {"refused", "holding", "waiting"}
         /\ \A d \in Calls : d # c => AfterAcquire(g, c, w, signal).status[d] = g.status[d]
<1> DEFINE listens == signal = "live"
<1>1. Refused(g, c).status = [g.status EXCEPT ![c] = "refused"]
  BY DEF Refused, GateType
<1>2. Granted(g, c, w).status = [g.status EXCEPT ![c] = "holding"]
  BY DEF Granted, GateType
<1>3. Queued(g, c, w, listens).status = [g.status EXCEPT ![c] = "waiting"]
  BY DEF Queued, GateType
<1>4. g.status \in [Calls -> Status] BY DEF GateType
<1> QED BY <1>1, <1>2, <1>3, <1>4 DEF AfterAcquire

(* tryAcquire() hands out a permit exactly when one is available.          *)
LEMMA TryAcquireStatus ==
  ASSUME NEW g \in GateType, NEW c \in Calls, NEW w
  PROVE  /\ AfterTryAcquire(g, c, w).status[c] = IF g.available >= w THEN "holding" ELSE "refused"
         /\ \A d \in Calls : d # c => AfterTryAcquire(g, c, w).status[d] = g.status[d]
<1>1. Refused(g, c).status = [g.status EXCEPT ![c] = "refused"]
  BY DEF Refused, GateType
<1>2. Granted(g, c, w).status = [g.status EXCEPT ![c] = "holding"]
  BY DEF Granted, GateType
<1>4. g.status \in [Calls -> Status] BY DEF GateType
<1> QED BY <1>1, <1>2, <1>4 DEF AfterTryAcquire

(* An abort cancels its own call only.                                     *)
LEMMA AbortStatus ==
  ASSUME NEW g \in GateType, NEW c \in Calls
  PROVE  /\ AfterAbort(g, c).status[c] = "cancelled"
         /\ \A d \in Calls : d # c => AfterAbort(g, c).status[d] = g.status[d]
<1>1. AfterAbort(g, c).status = [g.status EXCEPT ![c] = "cancelled"]
  BY DEF AfterAbort, GateType
<1>2. g.status \in [Calls -> Status] BY DEF GateType
<1> QED BY <1>1, <1>2

(* reset() moves the waiting calls and leaves the others.                  *)
LEMMA ResetStatus ==
  ASSUME NEW g \in GateType, NEW wanted
  PROVE  \A d \in Calls : AfterReset(g, wanted).status[d] =
                            IF g.status[d] = "waiting" THEN "reset" ELSE g.status[d]
BY DEF AfterReset, GateType

(* release() ends its own call and turns waiters into holders.             *)
LEMMA ReleaseStatus ==
  ASSUME NEW g \in GateType, NEW c \in Calls, NEW n
  PROVE  /\ AfterRelease(g, c, n).status[c] = "released"
         /\ \A d \in Calls : d # c =>
              \/ AfterRelease(g, c, n).status[d] = g.status[d]
              \/ g.status[d] = "waiting" /\ AfterRelease(g, c, n).status[d] = "holding"
<1> DEFINE served == LiveAmong(g, n)
<1>1. \A d \in served : g.status[d] = "waiting" BY DEF LiveAmong, LiveWaiters
<1> HIDE DEF served
<1>2. AfterRelease(g, c, n).status =
        [d \in Calls |-> IF d = c THEN "released" ELSE IF d \in served THEN "holding" ELSE g.status[d]]
  BY DEF AfterRelease, AfterServe, served
<1> QED BY <1>1, <1>2

-----------------------------------------------------------------------------
(* The partition a call is sent to exists, and so does the next one.       *)
LEMMA ChosenExists ==
  ASSUME TypeInv, NEW key \in Keys, TakeTurn(key)
  PROVE  ChoosePartition(key) \in Partition /\ nextPartition' \in Partition
<1>1. Partitions \in Nat \ {0} /\ key \in Partition \cup {NoKey} BY BulkheadConstants
<1>2. nextPartition \in Partition BY DEF TypeInv
<1>3. (nextPartition + 1) % Partitions \in 0..(Partitions - 1)
  BY <1>1, <1>2 DEF Partition
<1> QED BY <1>1, <1>2, <1>3 DEF ChoosePartition, TakeTurn, Partition

(* One gate changes, one call may move: the facts that remain to be shown  *)
(* for the invariant to hold afterwards.                                   *)
LEMMA OneGate ==
  ASSUME IInv, NEW p \in Partition, NEW h, GateInv(h),
         gates' = [gates EXCEPT ![p] = h],
         nextPartition' \in Partition, phase' \in [Calls -> Phase], home' \in [Calls -> Partition],
         \A d \in Calls : Placed(d, p)',
         \A d \in Calls, q \in Partition : q # p => Placed(d, q)'
  PROVE  IInv'
<1>1. h \in GateType BY DEF GateInv
<1>2. TypeInv' BY <1>1 DEF IInv, TypeInv
<1>3. \A q \in Partition : gates'[q] = IF q = p THEN h ELSE gates[q] BY DEF IInv, TypeInv
<1>4. \A q \in Partition : GateInv(gates'[q]) BY <1>3 DEF IInv
<1> QED BY <1>2, <1>4 DEF IInv

\* From gate g to gate h only call c may have changed its status.
OthersStay(c, g, h) == \A d \in Calls : d # c => h.status[d] = g.status[d]

\* The statuses a gate may give to a call that is sent to it with phase ph.
Answers(ph, s) ==
  \/ ph = "refused" /\ s \in {"new", "refused"}
  \/ ph = "asked" /\ s \in {"refused", "holding", "waiting"}
  \/ ph = "trying" /\ s = "holding"

(* A call is sent to partition p and becomes what the gate made of it.     *)
LEMMA SentSound ==
  ASSUME IInv, NEW c \in Calls, phase[c] = "new", NEW p \in Partition, NEW h, GateInv(h),
         NEW ph \in Phase, Sent(c, p, ph), nextPartition' \in Partition,
         gates' = [gates EXCEPT ![p] = h],
         OthersStay(c, gates[p], h),
         Answers(ph, h.status[c])
  PROVE  IInv'
<1>0. TypeInv BY DEF IInv
<1>1. phase' \in [Calls -> Phase] /\ home' \in [Calls -> Partition]
  BY <1>0 DEF Sent, TypeInv
<1>2. \A d \in Calls : /\ phase'[d] = IF d = c THEN ph ELSE phase[d]
                       /\ home'[d] = IF d = c THEN p ELSE home[d]
  BY <1>0 DEF Sent, TypeInv
<1>3. \A q \in Partition : gates'[q] = IF q = p THEN h ELSE gates[q] BY <1>0 DEF TypeInv
<1>4. \A d \in Calls, q \in Partition : Placed(d, q) BY DEF IInv
<1>5. \A q \in Partition : gates[q].status[c] = "new" BY <1>4 DEF Placed
<1>6. ASSUME NEW d \in Calls PROVE Placed(d, p)'
  BY <1>2, <1>3, <1>4 DEF Placed, Answers, OthersStay
<1>7. ASSUME NEW d \in Calls, NEW q \in Partition, q # p PROVE Placed(d, q)'
  BY <1>2, <1>3, <1>4, <1>5, <1>7 DEF Placed
<1> QED BY <1>1, <1>6, <1>7, OneGate

(* A call moves on without touching a gate.                                *)
LEMMA MovedSound ==
  ASSUME IInv, NEW c \in Calls, NEW ph \in Phase,
         phase' = [phase EXCEPT ![c] = ph],
         UNCHANGED << gates, nextPartition, home >>,
         \/ phase[c] = "asked" /\ ph = "running" /\ StatusOf(c) = "holding"
         \/ ph = "closing" /\ StatusOf(c) \in {"refused", "cancelled", "reset"}
         \/ phase[c] = "closing" /\ ph = "settled"
  PROVE  IInv'
<1>0. TypeInv BY DEF IInv
<1>1. TypeInv' BY <1>0 DEF TypeInv
<1>2. \A d \in Calls : phase'[d] = IF d = c THEN ph ELSE phase[d] BY <1>0 DEF TypeInv
<1>3. \A d \in Calls, q \in Partition : Placed(d, q) BY DEF IInv
<1>4. ASSUME NEW d \in Calls, NEW q \in Partition PROVE Placed(d, q)'
  BY <1>2, <1>3 DEF Placed, StatusOf
<1> QED BY <1>1, <1>4 DEF IInv

(* The end of a task gives its permit back or hands it to waiters.         *)
LEMMA EndSound ==
  ASSUME IInv, NEW c \in Calls, phase[c] \in {"running", "trying"}, Releases(c),
         NEW ph \in {"closing", "settled"}, phase' = [phase EXCEPT ![c] = ph],
         UNCHANGED << nextPartition, home >>
  PROVE  IInv'
<1> DEFINE p == home[c]
           g == gates[p]
<1>0. TypeInv BY DEF IInv
<1>1. p \in Partition /\ GateInv(g) /\ g \in GateType BY <1>0 DEF IInv, TypeInv
<1>2. \A d \in Calls, q \in Partition : Placed(d, q) BY DEF IInv
<1>3. g.status[c] = "holding" BY <1>1, <1>2 DEF Placed
<1>4. PICK n \in 0..Len(g.waiters) :
         /\ ServesFirst(g, n, g.weight[c])
         /\ gates' = [gates EXCEPT ![p] = AfterRelease(g, c, n)]
  BY DEF Releases
<1> DEFINE h == AfterRelease(g, c, n)
<1>5. GateInv(h) BY <1>1, <1>3, <1>4, ReleaseSound
<1>6. /\ h.status[c] = "released"
      /\ \A d \in Calls : d # c => \/ h.status[d] = g.status[d]
                                   \/ g.status[d] = "waiting" /\ h.status[d] = "holding"
  BY <1>1, ReleaseStatus
<1>7. gates' = [gates EXCEPT ![p] = h] BY <1>4
<1> HIDE DEF h
<1>8. \A q \in Partition : gates'[q] = IF q = p THEN h ELSE gates[q] BY <1>0, <1>7 DEF TypeInv
<1>9. \A d \in Calls : phase'[d] = IF d = c THEN ph ELSE phase[d] BY <1>0 DEF TypeInv
<1>10. /\ phase' \in [Calls -> Phase] /\ home' \in [Calls -> Partition]
       /\ nextPartition' \in Partition
  BY <1>0 DEF TypeInv, Phase
<1>11. ASSUME NEW d \in Calls PROVE Placed(d, p)'
  BY <1>1, <1>2, <1>6, <1>8, <1>9 DEF Placed
<1>12. ASSUME NEW d \in Calls, NEW q \in Partition, q # p PROVE Placed(d, q)'
  BY <1>1, <1>2, <1>8, <1>9, <1>12 DEF Placed
<1> QED BY <1>1, <1>5, <1>7, <1>10, <1>11, <1>12, OneGate

-----------------------------------------------------------------------------
(* Every action keeps every gate sound and every call in its place.        *)
LEMMA StepSound ==
  ASSUME IInv, [Next]_vars
  PROVE  IInv'
<1>0. /\ TypeInv
      /\ \A q \in Partition : GateInv(gates[q]) /\ gates[q] \in GateType
      /\ \A d \in Calls, q \in Partition : Placed(d, q)
  BY DEF IInv, TypeInv
<1>a. \A d \in Calls, q \in Partition : phase[d] = "new" => gates[q].status[d] = "new"
  BY <1>0 DEF Placed
<1>b. \A q \in Partition : gates = [gates EXCEPT ![q] = gates[q]] BY <1>0 DEF TypeInv
<1>1. ASSUME NEW c \in Calls, NEW key \in Keys, NEW w \in Weights,
             RunTooHeavy(c, key, w) \/ RunShed(c, key, w)
      PROVE  IInv'
  <2> DEFINE p == ChoosePartition(key)
  <2>1. /\ phase[c] = "new" /\ TakeTurn(key) /\ Sent(c, p, "refused") /\ gates' = gates
    BY <1>1 DEF RunTooHeavy, RunShed, IsNext, buckets
  <2>2. p \in Partition /\ nextPartition' \in Partition BY <1>0, <2>1, ChosenExists
  <2> HIDE DEF p
  <2>3. gates' = [gates EXCEPT ![p] = gates[p]] BY <1>b, <2>1, <2>2
  <2>4. gates[p].status[c] = "new" BY <1>a, <2>1, <2>2
  <2>5. /\ "refused" \in Phase /\ Answers("refused", gates[p].status[c])
        /\ OthersStay(c, gates[p], gates[p])
    BY <2>4 DEF Phase, Answers, OthersStay
  <2> QED BY <1>0, <2>1, <2>2, <2>3, <2>5, SentSound
<1>2. ASSUME NEW c \in Calls, NEW key \in Keys, NEW w \in Weights, NEW signal \in Signal,
             Run(c, key, w, signal)
      PROVE  IInv'
  <2> DEFINE p == ChoosePartition(key)
             h == AfterAcquire(gates[p], c, w, signal)
  <2>1. /\ phase[c] = "new" /\ TakeTurn(key) /\ Sent(c, p, "asked")
        /\ gates' = [gates EXCEPT ![p] = h]
    BY <1>2 DEF Run, IsNext
  <2>2. p \in Partition /\ nextPartition' \in Partition BY <1>0, <2>1, ChosenExists
  <2> HIDE DEF p
  <2>3. w \in Nat \ {0} BY BulkheadConstants
  <2>4. gates[p].status[c] = "new" BY <1>a, <2>1, <2>2
  <2>5. GateInv(h) BY <1>0, <2>2, <2>3, <2>4, AcquireSound
  <2>6. /\ h.status[c] \in {"refused", "holding", "waiting"}
        /\ \A d \in Calls : d # c => h.status[d] = gates[p].status[d]
    BY <1>0, <2>2, AcquireStatus
  <2> HIDE DEF h
  <2>7. "asked" \in Phase /\ Answers("asked", h.status[c]) /\ OthersStay(c, gates[p], h)
    BY <2>6 DEF Phase, Answers, OthersStay
  <2> QED BY <2>1, <2>2, <2>5, <2>7, SentSound
<1>3. ASSUME NEW c \in Calls, NEW key \in Keys, NEW w \in Weights, TryRun(c, key, w)
      PROVE  IInv'
  <2> DEFINE p  == ChoosePartition(key)
             h  == AfterTryAcquire(gates[p], c, w)
             ph == IF gates[p].available >= w THEN "trying" ELSE "refused"
  <2>1. /\ phase[c] = "new" /\ TakeTurn(key) /\ Sent(c, p, ph)
        /\ gates' = [gates EXCEPT ![p] = h]
    BY <1>3 DEF TryRun, IsNext
  <2>2. p \in Partition /\ nextPartition' \in Partition BY <1>0, <2>1, ChosenExists
  <2> HIDE DEF p
  <2>3. w \in Nat \ {0} BY BulkheadConstants
  <2>4. gates[p].status[c] = "new" BY <1>a, <2>1, <2>2
  <2>5. GateInv(h) BY <1>0, <2>2, <2>3, <2>4, TryAcquireSound
  <2>6. h.status[c] = IF gates[p].available >= w THEN "holding" ELSE "refused"
    BY <1>0, <2>2, TryAcquireStatus
  <2>9. OthersStay(c, gates[p], h) BY <1>0, <2>2, TryAcquireStatus DEF OthersStay
  <2> HIDE DEF h
  <2>7. CASE gates[p].available >= w
    <3>1. Sent(c, p, "trying") /\ h.status[c] = "holding" BY <2>1, <2>6, <2>7
    <3>2. "trying" \in Phase BY DEF Phase
    <3>3. gates' = [gates EXCEPT ![p] = h] /\ phase[c] = "new" BY <2>1
    <3>4. Answers("trying", h.status[c]) BY <3>1 DEF Answers
    <3> QED BY <2>2, <2>5, <2>9, <3>1, <3>2, <3>3, <3>4, SentSound
  <2>8. CASE ~(gates[p].available >= w)
    <3>1. Sent(c, p, "refused") /\ h.status[c] = "refused" BY <2>1, <2>6, <2>8
    <3>2. "refused" \in Phase BY DEF Phase
    <3>3. gates' = [gates EXCEPT ![p] = h] /\ phase[c] = "new" BY <2>1
    <3>4. Answers("refused", h.status[c]) BY <3>1 DEF Answers
    <3> QED BY <2>2, <2>5, <2>9, <3>1, <3>2, <3>3, <3>4, SentSound
  <2> QED BY <2>7, <2>8
<1>4. ASSUME NEW c \in Calls, Start(c) \/ Refusal(c) \/ Settle(c) PROVE IInv'
  BY <1>4, MovedSound DEF Start, Refusal, Settle, buckets, Phase
<1>5. ASSUME NEW c \in Calls, End(c) \/ EndTry(c) PROVE IInv'
  BY <1>5, EndSound DEF End, EndTry
<1>6. ASSUME NEW c \in Calls, Abort(c) PROVE IInv'
  <2> DEFINE p == home[c]
             h == AfterAbort(gates[p], c)
  <2>1. p \in Partition BY <1>0 DEF TypeInv
  <2>2. /\ gates[p].status[c] \in {"waiting", "reset"}
        /\ gates' = [gates EXCEPT ![p] = h]
        /\ nextPartition' = nextPartition /\ phase' = phase /\ home' = home
    BY <1>6 DEF Abort, StatusOf, calls
  <2>3. GateInv(h) BY <1>0, <2>1, <2>2, AbortSound
  <2>4. h.status[c] = "cancelled" /\ \A d \in Calls : d # c => h.status[d] = gates[p].status[d]
    BY <1>0, <2>1, AbortStatus
  <2> HIDE DEF h
  <2>5. \A q \in Partition : gates'[q] = IF q = p THEN h ELSE gates[q]
    BY <1>0, <2>2 DEF TypeInv
  <2>6. ASSUME NEW d \in Calls PROVE Placed(d, p)'
    BY <1>0, <2>1, <2>2, <2>4, <2>5 DEF Placed
  <2>7. ASSUME NEW d \in Calls, NEW q \in Partition, q # p PROVE Placed(d, q)'
    BY <1>0, <2>2, <2>5, <2>7 DEF Placed
  <2>8. nextPartition' \in Partition /\ phase' \in [Calls -> Phase] /\ home' \in [Calls -> Partition]
    BY <1>0, <2>2 DEF TypeInv
  <2> QED BY <2>1, <2>2, <2>3, <2>6, <2>7, <2>8, OneGate
<1>7. ASSUME NEW wanted \in ResetTo, Reset(wanted) PROVE IInv'
  <2>1. wanted \in Nat BY BulkheadConstants
  <2>2. /\ gates' = [q \in Partition |-> AfterReset(gates[q], wanted)]
        /\ nextPartition' = nextPartition /\ phase' = phase /\ home' = home
    BY <1>7 DEF Reset, calls
  <2>3. \A q \in Partition : GateInv(gates'[q]) BY <1>0, <2>1, <2>2, ResetSound
  <2>4. gates' \in [Partition -> GateType]
    <3>1. \A q \in Partition : gates'[q] \in GateType BY <2>3 DEF GateInv
    <3> QED BY <2>2, <3>1
  <2>5. TypeInv' BY <1>0, <2>2, <2>4 DEF TypeInv
  <2>6. ASSUME NEW d \in Calls, NEW q \in Partition PROVE Placed(d, q)'
    <3>1. gates'[q].status[d] =
            IF gates[q].status[d] = "waiting" THEN "reset" ELSE gates[q].status[d]
      BY <1>0, <2>2, ResetStatus
    <3> QED BY <1>0, <2>2, <3>1 DEF Placed
  <2> QED BY <2>3, <2>5, <2>6 DEF IInv
<1>8. CASE Drain \/ UNCHANGED vars
  <2>1. UNCHANGED << gates, nextPartition, phase, home >>
    BY <1>8 DEF Drain, vars, buckets, calls
  <2> QED BY <1>0, <2>1 DEF IInv, TypeInv, Placed
<1> QED BY <1>1, <1>2, <1>3, <1>4, <1>5, <1>6, <1>7, <1>8 DEF Next

(* In every reachable state every gate is sound and every call is in its   *)
(* place.                                                                  *)
THEOREM BulkheadIsSound == Spec => []IInv
<1>1. Init => IInv
  <2> SUFFICES ASSUME Init PROVE IInv OBVIOUS
  <2>0. Capacity \in 0..Capacity BY GateConstants
  <2>1. GateInv(NewGate(Capacity)) BY <2>0, NewGateSound
  <2>2. NewGate(Capacity) \in GateType BY <2>1 DEF GateInv
  <2>3. 0 \in Partition BY BulkheadConstants DEF Partition
  <2>4. TypeInv BY <2>2, <2>3 DEF Init, TypeInv, Phase
  <2>5. \A c \in Calls, p \in Partition : gates[p].status[c] = "new" /\ phase[c] = "new"
    BY DEF Init, NewGate
  <2>6. \A c \in Calls, p \in Partition : Placed(c, p) BY <2>5 DEF Placed
  <2> QED BY <2>1, <2>4, <2>6 DEF Init, IInv
<1>2. IInv /\ [Next]_vars => IInv' BY StepSound
<1> QED BY <1>1, <1>2, PTL DEF Spec

(* Isolation: whatever the interleaving of runs, ends, aborts and resets,  *)
(* a task that runs holds its permit, no permit outlives its task, and the *)
(* tasks of a partition never weigh more than its maxConcurrency.          *)
THEOREM PartitionsAreIsolated == Spec => []PermitsAreOwned
<1>1. ASSUME IInv PROVE PermitsAreOwned
  <2> SUFFICES ASSUME NEW p \in Partition
               PROVE  /\ \A c \in Running(p) : gates[p].status[c] = "holding"
                      /\ \A c \in Holders(gates[p]) :
                           home[c] = p /\ phase[c] \in {"asked", "running", "trying"}
                      /\ UnitCount(gates[p], Running(p)) <= Capacity
    BY DEF PermitsAreOwned
  <2> DEFINE g == gates[p]
  <2>1. \A c \in Calls : Placed(c, p) BY <1>1 DEF IInv
  <2>2. \A c \in Running(p) : g.status[c] = "holding" BY <2>1 DEF Running, Placed
  <2>3. \A c \in Holders(g) : home[c] = p /\ phase[c] \in {"asked", "running", "trying"}
    BY <2>1 DEF Holders, Placed
  <2>4. UnitCount(g, Running(p)) <= Capacity
    <3>1. /\ GateInv(g) /\ g \in GateType /\ g.held = UnitCount(g, Holders(g))
          /\ g.available + g.held <= Capacity /\ g.available \in Nat /\ g.held \in Nat
          /\ Capacity \in Nat
      BY <1>1, GateConstants DEF IInv, GateInv, LedgerInv, GateType
    <3>2. Running(p) \in SUBSET Calls /\ Holders(g) \in SUBSET Calls /\ Running(p) \subseteq Holders(g)
      BY <2>2 DEF Running, Holders
    <3>3. Units(g, Running(p)) \subseteq Units(g, Holders(g)) BY <3>2 DEF Units
    <3>4. IsFiniteSet(Units(g, Holders(g))) BY <3>2, UnitsFinite
    <3>5. UnitCount(g, Running(p)) <= UnitCount(g, Holders(g))
      BY <3>3, <3>4, FS_Subset DEF UnitCount
    <3>6. UnitCount(g, Running(p)) \in Nat BY <3>2, UnitsFinite
    <3> QED BY <3>1, <3>5, <3>6
  <2> QED BY <2>2, <2>3, <2>4
<1> QED BY <1>1, BulkheadIsSound, PTL

-----------------------------------------------------------------------------
(***************************************************************************)
(* The counters of the bulkhead.                                           *)
(***************************************************************************)

\* The calls that _activeCount counts.
Counted == {c \in Calls : \/ phase[c] \in {"running", "trying"}
                          \/ phase[c] = "asked" /\ ~willQueue[c]}

CountTypes ==
  /\ phase \in [Calls -> Phase]
  /\ willQueue \in [Calls -> BOOLEAN]
  /\ outstanding \in Nat /\ active \in Nat /\ drainWaiters \in Nat

\* The inductive invariant: nobody waits for an idle bulkhead to become idle.
CountInv == CountTypes /\ CountsAreExact /\ (outstanding = 0 => drainWaiters = 0)

(* One call more, one call less.                                           *)
LEMMA OneMoreOrLess ==
  ASSUME NEW S \in SUBSET Calls, NEW c
  PROVE  /\ Cardinality(S) \in Nat
         /\ Cardinality(S) = 0 <=> S = {}
         /\ c \notin S => Cardinality(S \cup {c}) = Cardinality(S) + 1
         /\ c \in S => Cardinality(S) > 0 /\ Cardinality(S \ {c}) = Cardinality(S) - 1
<1>1. IsFiniteSet(S) BY FS_Subset, GateConstants
<1>2. Cardinality(S) \in Nat /\ (Cardinality(S) = 0 <=> S = {})
  BY <1>1, FS_CardinalityType, FS_EmptySet
<1>3. c \notin S => Cardinality(S \cup {c}) = Cardinality(S) + 1
  BY <1>1, FS_AddElement
<1>4. c \in S => Cardinality(S) > 0 /\ Cardinality(S \ {c}) = Cardinality(S) - 1
  <2>1. c \in S => Cardinality(S) # 0 BY <1>2
  <2>2. c \in S => Cardinality(S \ {c}) = Cardinality(S) - 1 BY <1>1, FS_RemoveElement
  <2> QED BY <1>2, <2>1, <2>2
<1> QED BY <1>2, <1>3, <1>4

\* What becomes of a set of calls and of its count when call c moves.
Enters(S, T, n, m, c) == c \notin S /\ T = S \cup {c} /\ m = n + 1
Leaves(S, T, n, m, c) == c \in S /\ T = S \ {c} /\ m = LessOne(n)
Same(S, T, n, m) == T = S /\ m = n

(* A count that was exact stays exact.                                     *)
LEMMA StaysExact ==
  ASSUME NEW S \in SUBSET Calls, NEW T, NEW n, NEW m, NEW c, n = Cardinality(S),
         Enters(S, T, n, m, c) \/ Leaves(S, T, n, m, c) \/ Same(S, T, n, m)
  PROVE  m \in Nat /\ m = Cardinality(T)
<1>1. n \in Nat BY OneMoreOrLess
<1>2. CASE Enters(S, T, n, m, c)
  BY <1>1, <1>2, OneMoreOrLess DEF Enters
<1>3. CASE Leaves(S, T, n, m, c)
  <2>1. n > 0 /\ Cardinality(T) = n - 1 /\ m = LessOne(n) BY <1>3, OneMoreOrLess DEF Leaves
  <2> QED BY <1>1, <2>1 DEF LessOne, Greater
<1>4. CASE Same(S, T, n, m)
  BY <1>1, <1>4 DEF Same
<1> QED BY <1>2, <1>3, <1>4

\* What a step of call c, or of nobody, may do to the counts.
Steps(c) ==
  /\ phase' \in [Calls -> Phase] /\ willQueue' \in [Calls -> BOOLEAN]
  /\ \/ Enters(Unsettled, Unsettled', outstanding, outstanding', c)
     \/ Leaves(Unsettled, Unsettled', outstanding, outstanding', c)
     \/ Same(Unsettled, Unsettled', outstanding, outstanding')
  /\ \/ Enters(Counted, Counted', active, active', c)
     \/ Leaves(Counted, Counted', active, active', c)
     \/ Same(Counted, Counted', active, active')

\* What it may do to the drain() callers.
Drains ==
  \/ drainWaiters' = drainWaiters
       /\ (outstanding' = outstanding \/ Unsettled' # {})
  \/ drainWaiters' = WaitersIfBusy(drainWaiters, outstanding')
  \/ drainWaiters' = drainWaiters + 1 /\ outstanding' = outstanding /\ outstanding # 0

(* The counts stay exact and the drain() callers are told the truth.       *)
LEMMA CountsKept ==
  ASSUME CountInv, NEW c, Steps(c), Drains
  PROVE  CountInv' /\ (drainWaiters' < drainWaiters => Unsettled' = {})
<1>1. /\ Unsettled \in SUBSET Calls /\ Unsettled' \in SUBSET Calls
      /\ Counted \in SUBSET Calls
  BY DEF Unsettled, Counted
<1>2. outstanding = Cardinality(Unsettled) /\ active = Cardinality(Counted)
  BY DEF CountInv, CountsAreExact, Counted
<1>3. outstanding' \in Nat /\ outstanding' = Cardinality(Unsettled')
  BY <1>1, <1>2, StaysExact DEF Steps
<1>4. active' \in Nat /\ active' = Cardinality(Counted')
  BY <1>1, <1>2, StaysExact DEF Steps
<1>5. outstanding' = 0 <=> Unsettled' = {}
  BY <1>1, <1>3, OneMoreOrLess
<1>6. /\ drainWaiters \in Nat /\ outstanding \in Nat
      /\ outstanding = 0 => drainWaiters = 0
  BY DEF CountInv, CountTypes
<1>7. /\ drainWaiters' \in Nat /\ (outstanding' = 0 => drainWaiters' = 0)
      /\ (drainWaiters' < drainWaiters => Unsettled' = {})
  BY <1>3, <1>5, <1>6 DEF Drains, WaitersIfBusy
<1>8. CountTypes' BY <1>3, <1>4, <1>7 DEF CountTypes, Steps
<1>9. CountsAreExact' BY <1>3, <1>4 DEF CountsAreExact, Counted
<1> QED BY <1>7, <1>8, <1>9 DEF CountInv

(* Every action moves at most one call in the counts, and in step with     *)
(* the counters.                                                           *)
LEMMA CountStep ==
  ASSUME CountInv, Next
  PROVE  \E c : Steps(c) /\ Drains
<1>0. /\ phase \in [Calls -> Phase] /\ willQueue \in [Calls -> BOOLEAN]
      /\ outstanding \in Nat /\ active \in Nat
  BY DEF CountInv, CountTypes
<1> USE DEF Unsettled, Counted
<1>1. ASSUME NEW c \in Calls, NEW ph \in Phase, phase' = [phase EXCEPT ![c] = ph],
             willQueue' = willQueue \/ willQueue' = [willQueue EXCEPT ![c] = FALSE]
                                    \/ willQueue' = [willQueue EXCEPT ![c] = TRUE]
      PROVE  /\ phase' \in [Calls -> Phase] /\ willQueue' \in [Calls -> BOOLEAN]
             /\ \A d \in Calls : /\ phase'[d] = IF d = c THEN ph ELSE phase[d]
                                 /\ d # c => willQueue'[d] = willQueue[d]
  BY <1>0, <1>1
<1>2. ASSUME NEW c \in Calls, phase[c] = "new", phase' = [phase EXCEPT ![c] = "refused"],
             UNCHANGED << willQueue, outstanding, active, drainWaiters >>
      PROVE  Steps(c) /\ Drains
  <2>1. Unsettled' = Unsettled /\ Counted' = Counted BY <1>0, <1>2
  <2> QED BY <1>0, <1>2, <2>1 DEF Steps, Drains, Same, Phase
<1>3. ASSUME NEW c \in Calls, NEW key \in Keys, NEW w \in Weights,
             RunTooHeavy(c, key, w) \/ RunShed(c, key, w)
      PROVE  Steps(c) /\ Drains
  BY <1>2, <1>3 DEF RunTooHeavy, RunShed, IsNext, Sent, counts
<1>4. ASSUME NEW c \in Calls, NEW key \in Keys, NEW w \in Weights, NEW signal \in Signal,
             Run(c, key, w, signal)
      PROVE  Steps(c) /\ Drains
  <2> DEFINE waits == gates[ChoosePartition(key)].available < w
  <2>1. waits \in BOOLEAN OBVIOUS
  <2>2. /\ phase[c] = "new" /\ phase' = [phase EXCEPT ![c] = "asked"]
        /\ willQueue' = [willQueue EXCEPT ![c] = waits]
        /\ outstanding' = outstanding + 1
        /\ active' = IF waits THEN active ELSE active + 1
        /\ drainWaiters' = drainWaiters
    BY <1>4 DEF Run, IsNext, Sent
  <2> HIDE DEF waits
  <2>3. /\ phase' \in [Calls -> Phase] /\ willQueue' \in [Calls -> BOOLEAN]
        /\ \A d \in Calls : /\ phase'[d] = IF d = c THEN "asked" ELSE phase[d]
                            /\ d # c => willQueue'[d] = willQueue[d]
        /\ willQueue'[c] = waits
    BY <1>0, <2>1, <2>2 DEF Phase
  <2>4. Enters(Unsettled, Unsettled', outstanding, outstanding', c)
    BY <2>2, <2>3 DEF Enters
  <2>5. CASE waits
    <3>1. Same(Counted, Counted', active, active')
      BY <2>2, <2>3, <2>5 DEF Same
    <3> QED BY <2>2, <2>3, <2>4, <3>1 DEF Steps, Drains, Enters
  <2>6. CASE ~waits
    <3>1. Enters(Counted, Counted', active, active', c)
      BY <2>2, <2>3, <2>6 DEF Enters
    <3> QED BY <2>2, <2>3, <2>4, <3>1 DEF Steps, Drains, Enters
  <2> QED BY <2>5, <2>6
<1>5. ASSUME NEW c \in Calls, NEW key \in Keys, NEW w \in Weights, TryRun(c, key, w)
      PROVE  Steps(c) /\ Drains
  <2> DEFINE got == gates[ChoosePartition(key)].available >= w
  <2>2. /\ phase[c] = "new"
        /\ phase' = [phase EXCEPT ![c] = IF got THEN "trying" ELSE "refused"]
        /\ willQueue' = willQueue
        /\ outstanding' = IF got THEN outstanding + 1 ELSE outstanding
        /\ active' = IF got THEN active + 1 ELSE active
        /\ drainWaiters' = drainWaiters
    BY <1>5 DEF TryRun, IsNext, Sent
  <2> HIDE DEF got
  <2>3. CASE got
    <3>1. /\ phase' \in [Calls -> Phase]
          /\ \A d \in Calls : phase'[d] = IF d = c THEN "trying" ELSE phase[d]
      BY <1>0, <2>2, <2>3 DEF Phase
    <3>2. Enters(Unsettled, Unsettled', outstanding, outstanding', c)
      BY <2>2, <2>3, <3>1 DEF Enters
    <3>3. Enters(Counted, Counted', active, active', c)
      BY <2>2, <2>3, <3>1 DEF Enters
    <3> QED BY <1>0, <2>2, <3>1, <3>2, <3>3 DEF Steps, Drains, Enters
  <2>4. CASE ~got
    BY <1>2, <2>2, <2>4
  <2> QED BY <2>3, <2>4
<1>6. ASSUME NEW c \in Calls, Start(c) PROVE Steps(c) /\ Drains
  <2>1. /\ phase[c] = "asked" /\ phase' = [phase EXCEPT ![c] = "running"]
        /\ willQueue' = [willQueue EXCEPT ![c] = FALSE]
        /\ outstanding' = outstanding /\ drainWaiters' = drainWaiters
        /\ active' = IF willQueue[c] THEN active + 1 ELSE active
    BY <1>6 DEF Start
  <2>2. /\ phase' \in [Calls -> Phase] /\ willQueue' \in [Calls -> BOOLEAN]
        /\ \A d \in Calls : /\ phase'[d] = IF d = c THEN "running" ELSE phase[d]
                            /\ d # c => willQueue'[d] = willQueue[d]
    BY <1>1, <2>1 DEF Phase
  <2>3. Same(Unsettled, Unsettled', outstanding, outstanding')
    BY <2>1, <2>2 DEF Same
  <2>4. CASE willQueue[c]
    <3>1. Enters(Counted, Counted', active, active', c)
      BY <2>1, <2>2, <2>4 DEF Enters
    <3> QED BY <2>1, <2>2, <2>3, <3>1 DEF Steps, Drains
  <2>5. CASE ~willQueue[c]
    <3>1. Same(Counted, Counted', active, active')
      BY <2>1, <2>2, <2>5 DEF Same
    <3> QED BY <2>1, <2>2, <2>3, <3>1 DEF Steps, Drains
  <2> QED BY <2>4, <2>5
<1>7. ASSUME NEW c \in Calls, Refusal(c) PROVE Steps(c) /\ Drains
  <2>1. /\ phase[c] = "asked" /\ phase' = [phase EXCEPT ![c] = "closing"]
        /\ willQueue' = [willQueue EXCEPT ![c] = FALSE]
        /\ outstanding' = outstanding
        /\ drainWaiters' = WaitersIfBusy(drainWaiters, outstanding')
        /\ active' = IF willQueue[c] THEN active ELSE LessOne(active)
    BY <1>7 DEF Refusal
  <2>2. /\ phase' \in [Calls -> Phase] /\ willQueue' \in [Calls -> BOOLEAN]
        /\ \A d \in Calls : /\ phase'[d] = IF d = c THEN "closing" ELSE phase[d]
                            /\ d # c => willQueue'[d] = willQueue[d]
    BY <1>1, <2>1 DEF Phase
  <2>3. Same(Unsettled, Unsettled', outstanding, outstanding')
    BY <2>1, <2>2 DEF Same
  <2>4. CASE ~willQueue[c]
    <3>1. Leaves(Counted, Counted', active, active', c)
      BY <2>1, <2>2, <2>4 DEF Leaves
    <3> QED BY <2>1, <2>2, <2>3, <3>1 DEF Steps, Drains
  <2>5. CASE willQueue[c]
    <3>1. Same(Counted, Counted', active, active')
      BY <2>1, <2>2, <2>5 DEF Same
    <3> QED BY <2>1, <2>2, <2>3, <3>1 DEF Steps, Drains
  <2> QED BY <2>4, <2>5
<1>8. ASSUME NEW c \in Calls, End(c) PROVE Steps(c) /\ Drains
  <2>1. /\ phase[c] = "running" /\ phase' = [phase EXCEPT ![c] = "closing"]
        /\ willQueue' = willQueue /\ outstanding' = outstanding
        /\ drainWaiters' = WaitersIfBusy(drainWaiters, outstanding')
        /\ active' = LessOne(active)
    BY <1>8 DEF End
  <2>2. /\ phase' \in [Calls -> Phase] /\ willQueue' \in [Calls -> BOOLEAN]
        /\ \A d \in Calls : /\ phase'[d] = IF d = c THEN "closing" ELSE phase[d]
                            /\ d # c => willQueue'[d] = willQueue[d]
    BY <1>1, <2>1 DEF Phase
  <2>3. Same(Unsettled, Unsettled', outstanding, outstanding')
    BY <2>1, <2>2 DEF Same
  <2>4. Leaves(Counted, Counted', active, active', c)
    BY <2>1, <2>2 DEF Leaves
  <2> QED BY <2>1, <2>2, <2>3, <2>4 DEF Steps, Drains
<1>9. ASSUME NEW c \in Calls, EndTry(c) PROVE Steps(c) /\ Drains
  <2>1. /\ phase[c] = "trying" /\ phase' = [phase EXCEPT ![c] = "settled"]
        /\ willQueue' = willQueue /\ outstanding' = LessOne(outstanding)
        /\ drainWaiters' = WaitersIfBusy(drainWaiters, outstanding')
        /\ active' = LessOne(active)
    BY <1>9 DEF EndTry
  <2>2. /\ phase' \in [Calls -> Phase] /\ willQueue' \in [Calls -> BOOLEAN]
        /\ \A d \in Calls : /\ phase'[d] = IF d = c THEN "settled" ELSE phase[d]
                            /\ d # c => willQueue'[d] = willQueue[d]
    BY <1>1, <2>1 DEF Phase
  <2>3. Leaves(Unsettled, Unsettled', outstanding, outstanding', c)
    BY <2>1, <2>2 DEF Leaves
  <2>4. Leaves(Counted, Counted', active, active', c)
    BY <2>1, <2>2 DEF Leaves
  <2> QED BY <2>1, <2>2, <2>3, <2>4 DEF Steps, Drains
<1>10. ASSUME NEW c \in Calls, Settle(c) PROVE Steps(c) /\ Drains
  <2>1. /\ phase[c] = "closing" /\ phase' = [phase EXCEPT ![c] = "settled"]
        /\ willQueue' = willQueue /\ outstanding' = LessOne(outstanding)
        /\ drainWaiters' = WaitersIfBusy(drainWaiters, outstanding')
        /\ active' = active
    BY <1>10 DEF Settle
  <2>2. /\ phase' \in [Calls -> Phase] /\ willQueue' \in [Calls -> BOOLEAN]
        /\ \A d \in Calls : /\ phase'[d] = IF d = c THEN "settled" ELSE phase[d]
                            /\ d # c => willQueue'[d] = willQueue[d]
    BY <1>1, <2>1 DEF Phase
  <2>3. Leaves(Unsettled, Unsettled', outstanding, outstanding', c)
    BY <2>1, <2>2 DEF Leaves
  <2>4. Same(Counted, Counted', active, active')
    BY <2>1, <2>2 DEF Same
  <2> QED BY <2>1, <2>2, <2>3, <2>4 DEF Steps, Drains
<1>11. ASSUME UNCHANGED << phase, willQueue, outstanding, active >>, Drains, NEW c
       PROVE  Steps(c) /\ Drains
  <2>1. Unsettled' = Unsettled /\ Counted' = Counted BY <1>11
  <2> QED BY <1>0, <1>11, <2>1 DEF Steps, Same
<1>12. ASSUME NEW c \in Calls, Abort(c) PROVE Steps(c) /\ Drains
  BY <1>11, <1>12 DEF Abort, counts, calls, Drains
<1>13. CASE Drain
  <2>1. UNCHANGED << phase, willQueue, outstanding, active >> /\ Drains
    BY <1>13 DEF Drain, counts, calls, Drains
  <2> QED BY <1>11, <2>1
<1>14. ASSUME NEW wanted \in ResetTo, Reset(wanted), NEW c PROVE Steps(c) /\ Drains
  BY <1>11, <1>14 DEF Reset, counts, calls, Drains
<1> QED BY <1>3, <1>4, <1>5, <1>6, <1>7, <1>8, <1>9, <1>10, <1>12, <1>13, <1>14 DEF Next

(* One step of the specification.                                          *)
LEMMA CountsStep ==
  ASSUME CountInv, [Next]_vars
  PROVE  CountInv' /\ (drainWaiters' < drainWaiters => Unsettled' = {})
<1>1. CASE Next
  BY <1>1, CountStep, CountsKept
<1>2. CASE UNCHANGED vars
  <2>1. CountInv'
    BY <1>2 DEF vars, CountInv, CountTypes, CountsAreExact, Unsettled
  <2>2. ~(drainWaiters' < drainWaiters)
    BY <1>2 DEF vars, CountInv, CountTypes
  <2> QED BY <2>1, <2>2
<1> QED BY <1>1, <1>2

(* The counters before any call is made.                                   *)
LEMMA CountsInit == Init => CountInv
<1> SUFFICES ASSUME Init PROVE CountInv OBVIOUS
<1>1. CountTypes BY DEF Init, CountTypes, Phase
<1>2. Unsettled = {} /\ Counted = {} BY DEF Init, Unsettled, Counted
<1>3. CountsAreExact
  BY <1>2, FS_EmptySet DEF Init, CountsAreExact, Counted
<1> QED BY <1>1, <1>3 DEF Init, CountInv

(* CountsAreExact: _outstanding and _activeCount are exact between any two *)
(* reactions, so the clamps at zero never hide a missing count.            *)
THEOREM CountersAreExact == Spec => []CountsAreExact
<1>1. CountInv /\ [Next]_vars => CountInv' BY CountsStep
<1>2. CountInv => CountsAreExact BY DEF CountInv
<1> QED BY <1>1, <1>2, CountsInit, PTL DEF Spec

(* DrainIsExact: drain() callers are released only when no admitted call   *)
(* is unsettled, and none is left waiting once that is so.                 *)
THEOREM DrainTellsTheTruth == Spec => DrainIsExact
<1>1. CountInv /\ [Next]_vars => CountInv' BY CountsStep
<1>2. CountInv /\ [Next]_vars => [drainWaiters' < drainWaiters => Unsettled' = {}]_vars
  BY CountsStep
<1>3. CountInv => (Unsettled = {} => drainWaiters = 0)
  BY FS_EmptySet DEF CountInv, CountsAreExact
<1> QED BY <1>1, <1>2, <1>3, CountsInit, PTL DEF Spec, DrainIsExact
=============================================================================
