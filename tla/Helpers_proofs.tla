--------------------------- MODULE Helpers_proofs ---------------------------
(***************************************************************************)
(* Invariants of the helpers that share no state (MCHelpers), for all      *)
(* constants.  Every step is one of the part that moves, so that the       *)
(* invariant of a part has to be kept by the operations of that part only. *)
(***************************************************************************)
EXTENDS MCHelpers, GateOps_proofs

(* A step is one of the part that moves.                                   *)
LEMMA PrimitiveMoves ==
  ASSUME Next
  PROVE  /\ part' = part
         /\ part = "gate" => BNext
         /\ part = "latch" => LatchNext
         /\ part = "lock" => LockNext
         /\ part = "cron" => CronNext
BY DEF Next, StoreNext, PrimitiveNext, ListenerNext

(* What TLC's next-state relation leaves alone when nothing moves.         *)
LEMMA NothingMoves ==
  ASSUME UNCHANGED << part, storeVars, primitiveVars, listenerVars >>
  PROVE  /\ part' = part
         /\ UNCHANGED bvars /\ UNCHANGED latchVars /\ UNCHANGED lockVars /\ UNCHANGED cronVars
BY DEF primitiveVars

-----------------------------------------------------------------------------
(***************************************************************************)
(* The latch.                                                              *)
(***************************************************************************)
LatchInv ==
  /\ count \in Nat /\ waiting \subseteq LatchWaiters
  /\ outcome = [w \in LatchWaiters |-> outcome[w]]
  /\ WaitersAreReachable

(* _settleAll() leaves nobody waiting and nothing armed.                   *)
LEMMA SettledLatch ==
  ASSUME LatchInv, NEW how, how # "waiting", SettleAll(how), count' \in Nat
  PROVE  LatchInv'
BY DEF LatchInv, WaitersAreReachable, SettleAll

(* Every operation of the latch keeps its waiters reachable.               *)
LEMMA LatchStep ==
  ASSUME LatchInv, LatchNext
  PROVE  LatchInv'
<1>1. ASSUME NEW w \in LatchWaiters, NEW t \in BOOLEAN, NEW s \in BOOLEAN, NEW a \in BOOLEAN, Wait(w, t, s, a)
      PROVE  LatchInv'
  <2>1. w \notin waiting BY <1>1 DEF LatchInv, WaitersAreReachable, Wait
  <2> DEFINE atOnce == CASE closed  -> "disposed"
                         [] ~closed /\ aborted -> "aborted"
                         [] ~closed /\ ~aborted /\ count = 0 -> "opened"
                         [] ~closed /\ ~aborted /\ count > 0 /\ s /\ a -> "cancelled"
                         [] OTHER   -> "waiting"
  <2>2. /\ outcome' = [outcome EXCEPT ![w] = atOnce]
        /\ waiting' = IF atOnce = "waiting" THEN waiting \cup {w} ELSE waiting
        /\ timer' = IF atOnce = "waiting" /\ t THEN timer \cup {w} ELSE timer
        /\ listener' = IF atOnce = "waiting" /\ s THEN listener \cup {w} ELSE listener
        /\ count' = count /\ aborted' = aborted /\ closed' = closed
    BY <1>1, Zenon DEF Wait
  <2>3. atOnce = "waiting" => ~closed /\ ~aborted /\ count > 0
    <3>1. CASE closed
      <4>1. atOnce = "disposed" BY <3>1
      <4> QED BY <4>1
    <3>2. CASE ~closed /\ aborted
      <4>1. atOnce = "aborted" BY <3>2
      <4> QED BY <4>1
    <3>3. CASE ~closed /\ ~aborted /\ count = 0
      <4>1. atOnce = "opened" BY <3>3
      <4> QED BY <4>1
    <3> QED BY <3>1, <3>2, <3>3 DEF LatchInv
  <2> HIDE DEF atOnce
  <2>4. CASE atOnce = "waiting"
    BY <2>2, <2>3, <2>4 DEF LatchInv, WaitersAreReachable
  <2>5. CASE atOnce # "waiting"
    BY <2>1, <2>2, <2>5 DEF LatchInv, WaitersAreReachable
  <2> QED BY <2>4, <2>5
<1>2. ASSUME NEW n \in Nat, CountDown(n) PROVE LatchInv'
  <2>1. count' \in Nat BY <1>2 DEF CountDown, LatchInv
  <2>2. CASE count' = 0 BY <1>2, <2>1, <2>2, SettledLatch DEF CountDown
  <2>3. CASE count' # 0
    BY <1>2, <2>1, <2>3 DEF CountDown, Untouched, LatchInv, WaitersAreReachable
  <2> QED BY <2>2, <2>3
<1>3. ASSUME NEW n \in 0..MaxCount, ResetLatch(n) PROVE LatchInv'
  <2>1. count' \in Nat BY <1>3, LatchConstants DEF ResetLatch
  <2>2. CASE n = 0 BY <1>3, <2>1, <2>2, SettledLatch DEF ResetLatch
  <2>3. CASE n # 0
    BY <1>3, <2>1, <2>3 DEF ResetLatch, Untouched, LatchInv, WaitersAreReachable
  <2> QED BY <2>2, <2>3
<1>4. CASE Abort
  BY <1>4, SettledLatch DEF Abort, LatchInv
<1>5. CASE DisposeLatch
  BY <1>5, SettledLatch DEF DisposeLatch
<1>6. ASSUME NEW w \in LatchWaiters, TimeoutFires(w) \/ SignalAborts(w) PROVE LatchInv'
  BY <1>6 DEF TimeoutFires, SignalAborts, Ended, LatchInv, WaitersAreReachable
<1>7. (\A n \in 1..MaxCount : n \in Nat) /\ 1 \in Nat BY LatchConstants
<1> QED BY <1>1, <1>2, <1>3, <1>4, <1>5, <1>6, <1>7 DEF LatchNext, DecrementUnlessZero

(* Nobody waits at first.                                                  *)
LEMMA LatchStart == LatchInit => LatchInv
BY LatchConstants DEF LatchInit, LatchInv, WaitersAreReachable

-----------------------------------------------------------------------------
(***************************************************************************)
(* The lock.                                                               *)
(***************************************************************************)
\* A request is in the line of those the platform has not granted.
InLine(q, r) == \E i \in 1..Len(q) : q[i] = r

LockInv ==
  /\ promise = [r \in LockRequests |-> promise[r]]
  /\ lockQueue \in Seq(LockRequests)
  /\ \A i, j \in 1..Len(lockQueue) : lockQueue[i] = lockQueue[j] => i = j
  /\ holder \in LockRequests \cup {0} /\ ~InLine(lockQueue, holder)
  /\ inside \subseteq LockRequests /\ robbed \subseteq LockRequests
  /\ LockIsSound

(* What LockIsSound says of a request, by where it is.                     *)
LEMMA LockNow ==
  ASSUME LockInv
  PROVE  /\ \A r \in LockRequests : promise[r] = "pending" <=> r = holder \/ InLine(lockQueue, r)
         /\ holder # 0 => holder \in inside
         /\ inside \ {holder} \subseteq robbed /\ \A r \in robbed : promise[r] = "aborted"
         /\ lockQueue # << >> => holder # 0
         /\ 0 \notin LockRequests
         /\ Len(lockQueue) \in Nat
         /\ \A i \in 1..Len(lockQueue) : lockQueue[i] # holder /\ lockQueue[i] \in LockRequests
<1>1. DOMAIN lockQueue = 1..Len(lockQueue) BY DEF LockInv
<1>2. 0 \notin LockRequests BY LatchConstants
<1>3. \A i \in 1..Len(lockQueue) : lockQueue[i] # holder /\ lockQueue[i] \in LockRequests
  BY DEF LockInv, InLine
<1>4. Len(lockQueue) \in Nat BY DEF LockInv
<1> QED BY <1>1, <1>2, <1>3, <1>4 DEF LockInv, LockIsSound, InLine

(* What has to hold after a step.                                          *)
LEMMA LockThen ==
  ASSUME promise' = [r \in LockRequests |-> promise'[r]], lockQueue' \in Seq(LockRequests),
         \A i, j \in 1..Len(lockQueue') : lockQueue'[i] = lockQueue'[j] => i = j,
         holder' \in LockRequests \cup {0}, ~InLine(lockQueue', holder'),
         inside' \subseteq LockRequests, robbed' \subseteq LockRequests,
         \A r \in LockRequests : promise'[r] = "pending" <=> r = holder' \/ InLine(lockQueue', r),
         holder' # 0 => holder' \in inside',
         inside' \ {holder'} \subseteq robbed', \A r \in robbed' : promise'[r] = "aborted",
         lockQueue' # << >> => holder' # 0
  PROVE  LockInv'
<1>1. DOMAIN lockQueue' = 1..Len(lockQueue') OBVIOUS
<1>2. LockIsSound' BY <1>1 DEF LockIsSound, InLine
<1> QED BY <1>2 DEF LockInv, InLine

(* run(): the lock is taken, stolen or waited for.                         *)
LEMMA RunLockedKeeps ==
  ASSUME LockInv, NEW r \in LockRequests, NEW steal \in BOOLEAN,
         NEW signal \in {"none", "live", "fired"}, RunLocked(r, steal, signal)
  PROVE  LockInv'
<1> DEFINE n == Len(lockQueue)
           enters == signal # "fired" /\ (steal \/ holder = 0)
<1>1. /\ n \in Nat /\ lockQueue \in Seq(LockRequests) /\ 0 \notin LockRequests
      /\ \A i, j \in 1..n : lockQueue[i] = lockQueue[j] => i = j
      /\ holder \in LockRequests \cup {0} /\ ~InLine(lockQueue, holder)
      /\ inside \subseteq LockRequests /\ robbed \subseteq LockRequests
  BY LockNow DEF LockInv
<1>2. /\ \A q \in LockRequests : promise[q] = "pending" <=> q = holder \/ InLine(lockQueue, q)
      /\ holder # 0 => holder \in inside
      /\ inside \ {holder} \subseteq robbed /\ \A q \in robbed : promise[q] = "aborted"
      /\ lockQueue # << >> => holder # 0
  BY LockNow
<1>3. promise[r] = "none" /\ r # holder /\ ~InLine(lockQueue, r) /\ r \notin robbed
  BY <1>2 DEF RunLocked
<1>4. CASE signal = "fired"
  <2>1. /\ promise' = [q \in LockRequests |-> IF q = r THEN "aborted" ELSE promise[q]]
        /\ robbed' = robbed /\ holder' = holder /\ inside' = inside /\ lockQueue' = lockQueue
    BY <1>4 DEF RunLocked
  <2>2. \A q \in LockRequests : promise'[q] = "pending" <=> q = holder \/ InLine(lockQueue, q)
    BY <1>2, <1>3, <2>1
  <2>3. \A q \in robbed : promise'[q] = "aborted" BY <1>1, <1>2, <2>1
  <2> QED BY <1>1, <1>2, <2>1, <2>2, <2>3, LockThen
<1>5. CASE enters
  <2>1. /\ promise' = [q \in LockRequests |->
                         IF q = r THEN "pending"
                         ELSE IF q = holder /\ promise[q] = "pending" THEN "aborted" ELSE promise[q]]
        /\ robbed' = (IF holder # 0 THEN robbed \cup {holder} ELSE robbed)
        /\ holder' = r /\ inside' = inside \cup {r} /\ lockQueue' = lockQueue
    BY <1>5 DEF RunLocked
  <2>2. \A q \in LockRequests : promise'[q] = "pending" <=> q = r \/ InLine(lockQueue, q)
    BY <1>1, <1>2, <1>3, <2>1
  <2>3. \A q \in robbed' : promise'[q] = "aborted"
    BY <1>1, <1>2, <1>3, <2>1
  <2>4. inside' \ {r} \subseteq robbed' /\ inside' \subseteq LockRequests /\ robbed' \subseteq LockRequests
    BY <1>1, <1>2, <2>1
  <2>5. promise' = [q \in LockRequests |-> promise'[q]] /\ r # 0 BY <1>1, <2>1
  <2> QED BY <1>1, <1>3, <2>1, <2>2, <2>3, <2>4, <2>5, LockThen
<1>6. CASE signal # "fired" /\ ~enters
  <2>1. /\ promise' = [q \in LockRequests |-> IF q = r THEN "pending" ELSE promise[q]]
        /\ robbed' = robbed /\ holder' = holder /\ inside' = inside
        /\ lockQueue' = Append(lockQueue, r) /\ holder # 0
    BY <1>6 DEF RunLocked
  <2>2. /\ lockQueue' \in Seq(LockRequests) /\ Len(lockQueue') = n + 1
        /\ lockQueue'[n + 1] = r /\ \A i \in 1..n : lockQueue'[i] = lockQueue[i]
    BY <1>1, <2>1
  <2>3. ASSUME NEW q PROVE InLine(lockQueue', q) <=> InLine(lockQueue, q) \/ q = r
    <3>1. \A i \in 1..(n + 1) : i \in 1..n \/ i = n + 1 BY <1>1
    <3>2. \A i \in 1..n : i \in 1..(n + 1) BY <1>1
    <3>3. n + 1 \in 1..(n + 1) BY <1>1
    <3> QED BY <2>2, <3>1, <3>2, <3>3 DEF InLine
  <2>4. \A q \in LockRequests : promise'[q] = "pending" <=> q = holder \/ InLine(lockQueue', q)
    BY <1>2, <1>3, <2>1, <2>3
  <2>5. \A q \in robbed : promise'[q] = "aborted"
    BY <1>1, <1>2, <1>3, <2>1
  <2>6. \A i, j \in 1..(n + 1) : lockQueue'[i] = lockQueue'[j] => i = j
    <3>1. \A i \in 1..(n + 1) : i \in 1..n \/ i = n + 1 BY <1>1
    <3>2. \A i \in 1..n : lockQueue[i] # r BY <1>3 DEF InLine
    <3> QED BY <1>1, <2>2, <3>1, <3>2
  <2>7. ~InLine(lockQueue', holder) BY <1>1, <1>3, <2>3
  <2>8. promise' = [q \in LockRequests |-> promise'[q]] BY <2>1
  <2> QED BY <1>1, <1>2, <2>1, <2>2, <2>4, <2>5, <2>6, <2>7, <2>8, LockThen, ZenonT(60)
<1> QED BY <1>4, <1>5, <1>6

(* The section of a request ends, and the lock goes on to the next.        *)
LEMMA SectionEndsKeeps ==
  ASSUME LockInv, NEW r \in LockRequests, NEW how \in {"returns", "throws", "rejects"},
         SectionEnds(r, how)
  PROVE  LockInv'
<1> DEFINE n == Len(lockQueue)
<1>1. /\ n \in Nat /\ lockQueue \in Seq(LockRequests) /\ 0 \notin LockRequests
      /\ \A i, j \in 1..n : lockQueue[i] = lockQueue[j] => i = j
      /\ holder \in LockRequests \cup {0} /\ ~InLine(lockQueue, holder)
      /\ inside \subseteq LockRequests /\ robbed \subseteq LockRequests
      /\ promise = [q \in LockRequests |-> promise[q]]
      /\ \A i \in 1..n : lockQueue[i] # holder /\ lockQueue[i] \in LockRequests
  BY LockNow DEF LockInv
<1>2. /\ \A q \in LockRequests : promise[q] = "pending" <=> q = holder \/ InLine(lockQueue, q)
      /\ holder # 0 => holder \in inside
      /\ inside \ {holder} \subseteq robbed /\ \A q \in robbed : promise[q] = "aborted"
      /\ lockQueue # << >> => holder # 0
  BY LockNow
<1>3. r \in inside /\ robbed' = robbed BY DEF SectionEnds
<1>4. Wrapped(how) # "throws" BY DEF Wrapped
<1>5. CASE holder # r
  <2>1. promise' = promise /\ holder' = holder /\ inside' = inside \ {r} /\ lockQueue' = lockQueue
    BY <1>5 DEF SectionEnds
  <2> QED BY <1>1, <1>2, <1>3, <1>5, <2>1, LockThen
<1>6. CASE holder = r /\ lockQueue = << >>
  <2>1. /\ promise' = [promise EXCEPT ![r] = IF how = "returns" THEN "fulfilled" ELSE "failed"]
        /\ holder' = 0 /\ inside' = (inside \ {r}) \cup ({0} \ {0}) /\ lockQueue' = lockQueue
    BY <1>4, <1>6 DEF SectionEnds
  <2>2. inside' = inside \ {r} BY <2>1
  <2>3. \A q : ~InLine(lockQueue', q) BY <1>6, <2>1 DEF InLine
  <2>4. \A q \in LockRequests : promise'[q] # "pending" BY <1>1, <1>2, <1>6, <2>1, <2>3
  <2>5. \A q \in robbed : promise'[q] = "aborted"
    BY <1>1, <1>2, <1>6, <2>1
  <2>6. promise' = [q \in LockRequests |-> promise'[q]] BY <1>1, <2>1
  <2>7. inside \ {r} \subseteq robbed BY <1>2, <1>6
  <2> QED BY <1>1, <1>3, <1>6, <2>1, <2>2, <2>3, <2>4, <2>5, <2>6, <2>7, LockThen
<1>7. CASE holder = r /\ lockQueue # << >>
  <2> DEFINE next == Head(lockQueue)
  <2>1. n >= 1 /\ next = lockQueue[1] /\ next \in LockRequests /\ next # 0 /\ next # r
    BY <1>1, <1>7
  <2>2. /\ promise' = [promise EXCEPT ![r] = IF how = "returns" THEN "fulfilled" ELSE "failed"]
        /\ holder' = next /\ inside' = (inside \ {r}) \cup ({next} \ {0})
        /\ lockQueue' = Tail(lockQueue)
    BY <1>4, <1>7, <2>1 DEF SectionEnds
  <2>3. /\ lockQueue' \in Seq(LockRequests) /\ Len(lockQueue') = n - 1
        /\ \A i \in 1..(n - 1) : lockQueue'[i] = lockQueue[i + 1]
    BY <1>1, <1>7, <2>2
  <2> HIDE DEF next
  <2>4. \A q : InLine(lockQueue, q) <=> InLine(lockQueue', q) \/ q = next
    <3>1. ASSUME NEW q, InLine(lockQueue, q) PROVE InLine(lockQueue', q) \/ q = next
      <4>1. PICK i \in 1..n : lockQueue[i] = q BY <3>1 DEF InLine
      <4>2. CASE i = 1 BY <2>1, <4>1, <4>2
      <4>3. CASE i # 1
        <5>1. i - 1 \in 1..(n - 1) /\ (i - 1) + 1 = i BY <1>1, <4>3
        <5> QED BY <2>3, <4>1, <5>1 DEF InLine
      <4> QED BY <4>2, <4>3
    <3>2. ASSUME NEW q, InLine(lockQueue', q) PROVE InLine(lockQueue, q)
      <4>1. PICK i \in 1..(n - 1) : lockQueue'[i] = q BY <2>3, <3>2 DEF InLine
      <4>2. i + 1 \in 1..n BY <1>1, <4>1
      <4> QED BY <2>3, <4>1, <4>2 DEF InLine
    <3>3. InLine(lockQueue, next)
      <4>1. 1 \in 1..n BY <1>1, <2>1
      <4> QED BY <2>1, <4>1 DEF InLine
    <3> QED BY <3>1, <3>2, <3>3
  <2>5. ~InLine(lockQueue', next)
    <3>1. SUFFICES ASSUME NEW i \in 1..(n - 1), lockQueue'[i] = next PROVE FALSE
      BY <2>3 DEF InLine
    <3>2. i + 1 \in 1..n /\ i + 1 # 1 /\ 1 \in 1..n BY <1>1, <2>1
    <3> QED BY <1>1, <2>1, <2>3, <3>1, <3>2
  <2>6. \A i, j \in 1..(n - 1) : lockQueue'[i] = lockQueue'[j] => i = j
    <3>1. ASSUME NEW i \in 1..(n - 1), NEW j \in 1..(n - 1), lockQueue'[i] = lockQueue'[j] PROVE i = j
      <4>1. i + 1 \in 1..n /\ j + 1 \in 1..n BY <1>1
      <4>2. i + 1 = j + 1 BY <1>1, <2>3, <3>1, <4>1
      <4> QED BY <1>1, <4>2
    <3> QED BY <3>1
  <2>7. \A q \in LockRequests : promise'[q] = "pending" <=> q = next \/ InLine(lockQueue', q)
    BY <1>1, <1>2, <1>7, <2>1, <2>2, <2>4
  <2>8. \A q \in robbed : promise'[q] = "aborted"
    BY <1>1, <1>2, <1>7, <2>2
  <2>9. promise' = [q \in LockRequests |-> promise'[q]] BY <1>1, <2>2
  <2>10. inside \ {r} \subseteq robbed BY <1>2, <1>7
  <2>11. next \in inside' /\ inside' \ {next} \subseteq robbed /\ inside' \subseteq LockRequests
    BY <1>1, <2>1, <2>2, <2>10
  <2> QED BY <1>1, <1>3, <2>1, <2>2, <2>3, <2>5, <2>6, <2>7, <2>8, <2>9, <2>11, LockThen
<1> QED BY <1>5, <1>6, <1>7

(* A request that waits is given up.                                       *)
LEMMA LockSignalKeeps ==
  ASSUME LockInv, NEW r \in LockRequests, LockSignalFires(r)
  PROVE  LockInv'
<1> DEFINE n == Len(lockQueue)
<1>1. /\ n \in Nat /\ lockQueue \in Seq(LockRequests) /\ 0 \notin LockRequests
      /\ \A i, j \in 1..n : lockQueue[i] = lockQueue[j] => i = j
      /\ holder \in LockRequests \cup {0} /\ ~InLine(lockQueue, holder)
      /\ inside \subseteq LockRequests /\ robbed \subseteq LockRequests
      /\ promise = [q \in LockRequests |-> promise[q]]
      /\ DOMAIN lockQueue = 1..n
  BY LockNow DEF LockInv
<1>2. /\ \A q \in LockRequests : promise[q] = "pending" <=> q = holder \/ InLine(lockQueue, q)
      /\ holder # 0 => holder \in inside
      /\ inside \ {holder} \subseteq robbed /\ \A q \in robbed : promise[q] = "aborted"
      /\ lockQueue # << >> => holder # 0
  BY LockNow
<1>3. PICK i \in 1..n :
        /\ lockQueue[i] = r
        /\ lockQueue' = [j \in 1..(n - 1) |-> lockQueue[IF j < i THEN j ELSE j + 1]]
  BY <1>1 DEF LockSignalFires
<1>4. /\ promise' = [promise EXCEPT ![r] = "aborted"]
      /\ holder' = holder /\ inside' = inside /\ robbed' = robbed
  BY DEF LockSignalFires
<1>5. \A j \in 1..(n - 1) : /\ (IF j < i THEN j ELSE j + 1) \in 1..n \ {i}
                           /\ lockQueue'[j] = lockQueue[IF j < i THEN j ELSE j + 1]
  BY <1>1, <1>3
<1>6. lockQueue' \in Seq(LockRequests) /\ Len(lockQueue') = n - 1 /\ n >= 1
  <2>1. \A k \in 1..n : lockQueue[k] \in LockRequests BY <1>1
  <2>2. n - 1 \in Nat /\ n >= 1 BY <1>1, <1>3
  <2> HIDE DEF n
  <2>3. lockQueue' \in [1..(n - 1) -> LockRequests] BY <1>3, <1>5, <2>1
  <2> QED BY <2>2, <2>3
<1> HIDE DEF n
<1>7. \A q : InLine(lockQueue', q) <=> InLine(lockQueue, q) /\ q # r
  <2>1. ASSUME NEW q, InLine(lockQueue', q) PROVE InLine(lockQueue, q) /\ q # r
    <3>1. PICK j \in 1..(n - 1) : lockQueue'[j] = q BY <1>6, <2>1 DEF InLine
    <3>2. PICK k \in 1..n \ {i} : lockQueue[k] = q BY <1>5, <3>1
    <3> QED BY <1>1, <1>3, <3>2 DEF InLine, n
  <2>2. ASSUME NEW q, InLine(lockQueue, q), q # r PROVE InLine(lockQueue', q)
    <3>1. PICK k \in 1..n : lockQueue[k] = q BY <2>2 DEF InLine, n
    <3>2. k # i BY <1>3, <2>2, <3>1
    <3>3. CASE k < i
      <4>1. k \in 1..(n - 1) BY <1>1, <1>3, <3>3
      <4> QED BY <1>5, <1>6, <3>1, <3>3, <4>1 DEF InLine
    <3>4. CASE k > i
      <4>1. k - 1 \in 1..(n - 1) /\ ~(k - 1 < i) /\ (k - 1) + 1 = k BY <1>1, <1>3, <3>4
      <4>2. lockQueue'[k - 1] = q BY <1>5, <3>1, <4>1
      <4> QED BY <1>6, <4>1, <4>2 DEF InLine
    <3> QED BY <1>1, <1>3, <3>1, <3>2, <3>3, <3>4
  <2> QED BY <2>1, <2>2
<1>8. \A j, k \in 1..(n - 1) : lockQueue'[j] = lockQueue'[k] => j = k
  <2>1. ASSUME NEW j \in 1..(n - 1), NEW k \in 1..(n - 1), lockQueue'[j] = lockQueue'[k] PROVE j = k
    <3>1. (IF j < i THEN j ELSE j + 1) = (IF k < i THEN k ELSE k + 1) BY <1>1, <1>5, <2>1
    <3> QED BY <1>1, <1>3, <3>1
  <2> QED BY <2>1
<1>9. InLine(lockQueue, r) /\ r # holder BY <1>1, <1>3 DEF InLine, n
<1>10. \A q \in LockRequests : promise'[q] = "pending" <=> q = holder \/ InLine(lockQueue', q)
  BY <1>1, <1>2, <1>4, <1>7, <1>9
<1>11. \A q \in robbed : promise'[q] = "aborted" BY <1>1, <1>2, <1>4
<1>12. promise' = [q \in LockRequests |-> promise'[q]] BY <1>1, <1>4
<1>13. ~InLine(lockQueue', holder) BY <1>1, <1>7
<1>14. holder # 0
  <2>1. lockQueue # << >> BY <1>1, <1>3, <1>6 DEF n
  <2> QED BY <1>2, <2>1
<1> QED BY <1>1, <1>2, <1>4, <1>6, <1>8, <1>10, <1>11, <1>12, <1>13, <1>14, LockThen

(* Every step of the lock.                                                 *)
LEMMA LockStep ==
  ASSUME LockInv, LockNext
  PROVE  LockInv'
BY RunLockedKeeps, SectionEndsKeeps, LockSignalKeeps DEF LockNext

(* The lock is free at first.                                              *)
LEMMA LockStart == LockInit => LockInv
<1> SUFFICES ASSUME LockInit PROVE LockInv OBVIOUS
<1>1. /\ promise = [r \in LockRequests |-> "none"] /\ lockQueue = << >> /\ holder = 0
      /\ inside = {} /\ robbed = {}
  BY DEF LockInit
<1>2. 0 \notin LockRequests BY LatchConstants
<1>3. LockIsSound BY <1>1, <1>2 DEF LockIsSound
<1> QED BY <1>1, <1>3 DEF LockInv, InLine

-----------------------------------------------------------------------------
(***************************************************************************)
(* The cron job.                                                           *)
(***************************************************************************)
CronInv ==
  /\ cronClock \in Int /\ nextAt \in Int /\ anchor \in Int /\ told \in Int /\ blocked \in Int
  /\ inFlight \in Int
  /\ PeriodsAreAccounted /\ RunsDoNotOverlap

(* A tick goes on by whole periods from the target, so that the schedule   *)
(* does not drift.                                                         *)
LEMMA Periods ==
  ASSUME NEW i \in Int, NEW a \in Int, NEW t \in Int, NEW m \in Int
  PROVE  a + (t + 1) * i + (m + 1) * i = a + (t + m + 1 + 1) * i
OBVIOUS

(* _run(), however many times over, starts no second run unexcused.        *)
LEMMA RunTaskKeeps ==
  ASSUME CronInv, NEW n \in Int, NEW isAsync \in BOOLEAN, RunTask(n, isAsync), overlap' = overlap
  PROVE  inFlight' \in Int /\ RunsDoNotOverlap'
<1>1. inFlight \in Int BY DEF CronInv
<1>2. CASE isAsync
  <2>1. inFlight' = inFlight + n BY <1>2 DEF RunTask
  <2>2. n > 1 => excused' BY <1>2, Zenon DEF RunTask
  <2>3. inFlight > 0 => excused' BY Zenon DEF RunTask
  <2>4. inFlight' > 1 => excused' BY <1>1, <2>1, <2>2, <2>3
  <2> QED BY <1>1, <2>1, <2>4 DEF RunsDoNotOverlap
<1>3. CASE ~isAsync
  <2>1. inFlight' = inFlight BY <1>3 DEF RunTask
  <2>2. inFlight > 0 => excused' BY Zenon DEF RunTask
  <2>3. inFlight' > 1 => excused' BY <1>1, <2>1, <2>2
  <2> QED BY <1>1, <2>1, <2>3 DEF RunsDoNotOverlap
<1> QED BY <1>2, <1>3

(* Every step of the cron job accounts for its periods.                    *)
LEMMA CronStep ==
  ASSUME CronInv, CronNext
  PROVE  CronInv'
<1>1. Interval \in Int /\ Interval > 0 /\ MaxCatchUp \in Int BY CronConstants
<1>2. cronClock >= nextAt => MissedPeriods \in Int
  BY <1>1 DEF MissedPeriods, CronInv
<1>3. ASSUME NEW s \in BOOLEAN, NEW isAsync \in BOOLEAN, Start(s, isAsync) PROVE CronInv'
  <2>1. inFlight' \in Int /\ RunsDoNotOverlap'
    <3>1. CASE s BY <1>3, <3>1, RunTaskKeeps DEF Start
    <3>2. CASE ~s BY <1>3, <3>2 DEF Start, CronInv, RunsDoNotOverlap
    <3> QED BY <3>1, <3>2
  <2>2. /\ nextAt' = cronClock + Interval /\ anchor' = cronClock /\ told' = 0 /\ blocked' = 0
        /\ timerOn' = TRUE /\ cronClock' = cronClock
    BY <1>3 DEF Start
  <2> QED BY <1>1, <2>1, <2>2 DEF CronInv, PeriodsAreAccounted
<1>4. CASE Stop
  BY <1>4 DEF Stop, CronInv, PeriodsAreAccounted, RunsDoNotOverlap
<1>5. ASSUME NEW isAsync \in BOOLEAN, RunNow(isAsync) PROVE CronInv'
  <2>1. inFlight' \in Int /\ RunsDoNotOverlap' BY <1>5, RunTaskKeeps DEF RunNow
  <2> QED BY <1>5, <2>1 DEF RunNow, CronInv, PeriodsAreAccounted
<1>6. CASE TickIsBlocked
  <2> DEFINE m == MissedPeriods
  <2>1. /\ running /\ timerOn /\ nextAt' = nextAt + (m + 1) * Interval /\ blocked' = blocked + m + 1
        /\ m \in Int
        /\ UNCHANGED << cronClock, overlap, running, timerOn, inFlight, anchor, told, excused >>
    BY <1>2, <1>6 DEF TickIsBlocked, Advance
  <2> HIDE DEF m
  <2>2. nextAt = anchor + (told + blocked + 1) * Interval
    BY <2>1 DEF CronInv, PeriodsAreAccounted
  <2>3. nextAt' = anchor + ((told + blocked) + m + 1 + 1) * Interval
    BY <1>1, <2>1, <2>2, Periods DEF CronInv
  <2>4. (told + blocked) + m + 1 + 1 = told' + blocked' + 1 BY <2>1 DEF CronInv
  <2>5. nextAt' = anchor' + (told' + blocked' + 1) * Interval BY <2>1, <2>3, <2>4
  <2> DEFINE v == told' + blocked' + 1
  <2>6. nextAt' \in Int /\ blocked' \in Int BY <1>1, <2>1 DEF CronInv
  <2> QED BY <2>1, <2>5, <2>6 DEF CronInv, PeriodsAreAccounted, RunsDoNotOverlap
<1>7. ASSUME NEW isAsync \in BOOLEAN, TickRuns(isAsync) PROVE CronInv'
  <2> DEFINE m == MissedPeriods
  <2>1. /\ running /\ timerOn /\ nextAt' = nextAt + (m + 1) * Interval
        /\ told' = told + Replayed + Reported + 1
        /\ m \in Int
        /\ RunTask(Replayed + 1, isAsync)
        /\ UNCHANGED << cronClock, overlap, running, timerOn, anchor, blocked >>
    BY <1>2, <1>7 DEF TickRuns, Advance
  <2>2. Replayed \in Int /\ Reported \in Int /\ Replayed + Reported = m
    BY <1>1, <2>1 DEF Replayed, Reported
  <2>3. inFlight' \in Int /\ RunsDoNotOverlap'
    <3>1. Replayed + 1 \in Int BY <2>2
    <3> QED BY <2>1, <3>1, RunTaskKeeps
  <2> HIDE DEF m
  <2>4. nextAt = anchor + (told + blocked + 1) * Interval
    BY <2>1 DEF CronInv, PeriodsAreAccounted
  <2>5. nextAt' = anchor + ((told + blocked) + m + 1 + 1) * Interval
    BY <1>1, <2>1, <2>4, Periods DEF CronInv
  <2>6. (told + blocked) + m + 1 + 1 = told' + blocked' + 1 /\ told' \in Int
    BY <2>1, <2>2 DEF CronInv
  <2>7. nextAt' = anchor' + (told' + blocked' + 1) * Interval BY <2>1, <2>5, <2>6
  <2>8. nextAt' \in Int BY <1>1, <2>1 DEF CronInv
  <2> QED BY <2>1, <2>3, <2>6, <2>7, <2>8 DEF CronInv, PeriodsAreAccounted
<1>8. CASE Finish
  BY <1>8 DEF Finish, CronInv, PeriodsAreAccounted, RunsDoNotOverlap
<1>9. CASE CronTick
  BY <1>9 DEF CronTick, CronInv, PeriodsAreAccounted, RunsDoNotOverlap
<1> QED BY <1>3, <1>4, <1>5, <1>6, <1>7, <1>8, <1>9 DEF CronNext

(* Nothing is scheduled at first.                                          *)
LEMMA CronStart == CronInit => CronInv
BY DEF CronInit, CronInv, PeriodsAreAccounted, RunsDoNotOverlap

-----------------------------------------------------------------------------
CoordinationInv ==
  /\ part = "latch" => LatchInv
  /\ part = "lock" => LockInv
  /\ part = "cron" => CronInv

(* CoordinationIsSound, for all constants: every waiter of the latch is    *)
(* one that a settlement reaches, the lock is held for a section that runs *)
(* whatever ends it, and every period of the cron job is accounted for.    *)
THEOREM CoordinationHolds == Spec => []CoordinationIsSound
<1>1. Init => CoordinationInv
  BY LatchStart, LockStart, CronStart DEF Init, PrimitiveInit, CoordinationInv
<1>2. CoordinationInv /\ [Next]_<< part, storeVars, primitiveVars, listenerVars >> => CoordinationInv'
  <2> SUFFICES ASSUME CoordinationInv, [Next]_<< part, storeVars, primitiveVars, listenerVars >>
               PROVE  CoordinationInv'
    OBVIOUS
  <2>1. CASE Next
    BY <2>1, PrimitiveMoves, LatchStep, LockStep, CronStep DEF CoordinationInv
  <2>2. CASE UNCHANGED << part, storeVars, primitiveVars, listenerVars >>
    <3>1. part' = part /\ UNCHANGED latchVars /\ UNCHANGED lockVars /\ UNCHANGED cronVars
      BY <2>2, NothingMoves
    <3>2. LatchInv => LatchInv' BY <3>1 DEF latchVars, LatchInv, WaitersAreReachable
    <3>3. LockInv => LockInv' BY <3>1, SMTT(60) DEF lockVars, LockInv, LockIsSound
    <3>4. CronInv => CronInv'
      BY <3>1 DEF cronVars, CronInv, PeriodsAreAccounted, RunsDoNotOverlap
    <3> QED BY <3>1, <3>2, <3>3, <3>4 DEF CoordinationInv
  <2> QED BY <2>1, <2>2
<1>3. CoordinationInv => CoordinationIsSound
  BY DEF CoordinationInv, CoordinationIsSound, LatchInv, LockInv, CronInv
<1> QED BY <1>1, <1>2, <1>3, PTL DEF Spec

-----------------------------------------------------------------------------
(***************************************************************************)
(* The backpressure gate.  Its refills put more permits out than the       *)
(* capacity, so that the ledger is bounded from below only; and nobody     *)
(* waits while a permit is available.                                      *)
(***************************************************************************)
PoolInv(g) ==
  /\ g \in GateType /\ QueueInv(g) /\ UnitWeights(g)
  /\ g.held = Cardinality(Holders(g))
  /\ g.available \in 0..Capacity /\ g.available + g.held >= Capacity
  /\ LiveWaiters(g) # {} => g.available = 0

BackpressureInv ==
  /\ PoolInv(gate)
  /\ armed \in BOOLEAN /\ heartbeat \in BOOLEAN /\ adaptive \in BOOLEAN
  /\ window \in Nat
  /\ heartbeat => adaptive
  /\ RefillIsComing

(* The fields of a gate have their types.                                  *)
LEMMA PoolFields ==
  ASSUME NEW g, PoolInv(g)
  PROVE  /\ g.available \in Nat /\ g.held \in Nat /\ g.cancelledWaiters \in Nat
         /\ g.waiters \in Seq(Calls) /\ Len(g.waiters) \in Nat
         /\ g.status \in [Calls -> Status] /\ g.weight \in [Calls -> Nat]
         /\ g.onAbort \in [Calls -> BOOLEAN]
         /\ Capacity \in Nat \ {0}
         /\ IsFiniteSet(Holders(g)) /\ Holders(g) \subseteq Calls
BY GateConstants, FS_Subset DEF PoolInv, GateType, Holders

(* Counted in units or in calls, the holders are as many as is held.       *)
LEMMA PoolLedger ==
  ASSUME NEW g, PoolInv(g)
  PROVE  g.held = UnitCount(g, Holders(g))
BY PoolFields, UnitsAreCalls DEF PoolInv

(* A refused call changes nothing for the others.                          *)
LEMMA PoolRefused ==
  ASSUME NEW g, PoolInv(g), NEW c \in Calls, g.status[c] = "new"
  PROVE  PoolInv(Refused(g, c)) /\ LiveWaiters(Refused(g, c)) = LiveWaiters(g)
         /\ Refused(g, c).waiters = g.waiters
<1> DEFINE h == Refused(g, c)
<1>0. /\ g \in GateType /\ g.status \in [Calls -> Status] /\ g.waiters \in Seq(Calls)
      /\ Len(g.waiters) \in Nat
  BY PoolFields DEF PoolInv
<1>1. h \in GateType BY <1>0 DEF Refused, GateType, Status
<1>2. /\ h.status = [g.status EXCEPT ![c] = "refused"] /\ h.waiters = g.waiters
      /\ h.weight = g.weight /\ h.held = g.held /\ h.available = g.available
  BY <1>0 DEF Refused, GateType
<1> HIDE DEF h
<1>3. LiveWaiters(h) = LiveWaiters(g) /\ Holders(h) = Holders(g)
  BY <1>0, <1>2 DEF LiveWaiters, Holders
<1>4. QueueInv(h) BY <1>0, <1>2, <1>3 DEF PoolInv, QueueInv
<1>5. PoolInv(h) BY <1>1, <1>2, <1>3, <1>4 DEF PoolInv, UnitWeights
<1> QED BY <1>2, <1>3, <1>5 DEF h

(* A permit that is taken at once.                                         *)
LEMMA PoolGranted ==
  ASSUME NEW g, PoolInv(g), NEW c \in Calls, g.status[c] = "new", g.available >= 1
  PROVE  PoolInv(Granted(g, c, 1)) /\ LiveWaiters(Granted(g, c, 1)) = LiveWaiters(g)
         /\ Granted(g, c, 1).waiters = g.waiters
<1> DEFINE h == Granted(g, c, 1)
<1>0. /\ g \in GateType /\ g.status \in [Calls -> Status] /\ g.weight \in [Calls -> Nat]
      /\ g.available \in Nat /\ g.held \in Nat /\ Capacity \in Nat
      /\ g.waiters \in Seq(Calls) /\ Len(g.waiters) \in Nat
  BY PoolFields DEF PoolInv
<1>1. h \in GateType
  <2>1. g.available - 1 \in Nat /\ g.held + 1 \in Nat BY <1>0
  <2>2. [g.status EXCEPT ![c] = "holding"] \in [Calls -> Status] BY <1>0 DEF Status
  <2>3. [g.weight EXCEPT ![c] = 1] \in [Calls -> Nat] BY <1>0
  <2> QED BY <1>0, <2>1, <2>2, <2>3 DEF Granted, GateType
<1>2. /\ h.status = [g.status EXCEPT ![c] = "holding"] /\ h.waiters = g.waiters
      /\ h.weight = [g.weight EXCEPT ![c] = 1]
      /\ h.held = g.held + 1 /\ h.available = g.available - 1
  BY <1>0 DEF Granted, GateType
<1> HIDE DEF h
<1>3. LiveWaiters(h) = LiveWaiters(g) BY <1>0, <1>2 DEF LiveWaiters
<1>4. QueueInv(h)
  <2>1. QueueInv(g) BY DEF PoolInv
  <2>2. \A i \in 1..Len(g.waiters) : g.waiters[i] \in Calls /\ g.waiters[i] # c
    BY <1>0, <2>1, SMTT(60) DEF QueueInv
  <2>3. \A i \in 1..Len(g.waiters) : h.status[g.waiters[i]] = g.status[g.waiters[i]]
    BY <1>0, <1>2, <2>2
  <2> QED BY <1>2, <1>3, <2>1, <2>3 DEF QueueInv
<1>5. UnitWeights(h) BY <1>0, <1>2 DEF PoolInv, UnitWeights
<1>6. Holders(h) = Holders(g) \cup {c} /\ c \notin Holders(g) BY <1>0, <1>2 DEF Holders
<1>7. Cardinality(Holders(h)) = Cardinality(Holders(g)) + 1
  BY <1>6, PoolFields, FS_AddElement
<1>8. h.held = Cardinality(Holders(h)) BY <1>2, <1>7 DEF PoolInv
<1>9. LiveWaiters(g) = {} BY <1>0 DEF PoolInv
<1>10. h.available \in 0..Capacity /\ h.available + h.held >= Capacity
  BY <1>0, <1>2 DEF PoolInv
<1>11. PoolInv(h) BY <1>1, <1>3, <1>4, <1>5, <1>8, <1>9, <1>10 DEF PoolInv
<1> QED BY <1>2, <1>3, <1>11 DEF h

(* A call joins the end of the queue, while nothing is available.          *)
LEMMA PoolQueued ==
  ASSUME NEW g, PoolInv(g), NEW c \in Calls, g.status[c] = "new", g.available = 0,
         NEW listens \in BOOLEAN
  PROVE  PoolInv(Queued(g, c, 1, listens)) /\ Queued(g, c, 1, listens).waiters # << >>
<1> DEFINE h == Queued(g, c, 1, listens)
<1>0. /\ g \in GateType /\ g.waiters \in Seq(Calls) /\ QueueInv(g)
      /\ g.status \in [Calls -> Status] /\ g.weight \in [Calls -> Nat]
      /\ g.onAbort \in [Calls -> BOOLEAN]
  BY PoolFields DEF PoolInv
<1>1. h \in GateType
  <2>1. Append(g.waiters, c) \in Seq(Calls) BY <1>0
  <2>2. [g.status EXCEPT ![c] = "waiting"] \in [Calls -> Status] BY <1>0 DEF Status
  <2>3. [g.weight EXCEPT ![c] = 1] \in [Calls -> Nat] BY <1>0
  <2>4. [g.onAbort EXCEPT ![c] = listens] \in [Calls -> BOOLEAN] BY <1>0, Zenon
  <2> QED BY <1>0, <2>1, <2>2, <2>3, <2>4 DEF Queued, GateType
<1>2. /\ h.status = [g.status EXCEPT ![c] = "waiting"] /\ h.waiters = Append(g.waiters, c)
      /\ h.weight = [g.weight EXCEPT ![c] = 1]
      /\ h.held = g.held /\ h.available = g.available
  BY <1>0 DEF Queued, GateType
<1> HIDE DEF h
<1> DEFINE n == Len(g.waiters)
<1>3. /\ Len(h.waiters) = n + 1 /\ n \in Nat
      /\ \A i \in 1..n : h.waiters[i] = g.waiters[i] /\ g.waiters[i] \in Calls
      /\ h.waiters[n + 1] = c
  BY <1>0, <1>2
<1>4. \A i \in 1..n : g.waiters[i] # c BY <1>0 DEF QueueInv
<1>5. QueueInv(h)
  <2>1. ASSUME NEW i \in 1..(n + 1), NEW j \in 1..(n + 1), h.waiters[i] = h.waiters[j]
        PROVE  i = j
    <3>1. \A k \in 1..n : h.waiters[k] # c BY <1>3, <1>4
    <3>2. CASE i \in 1..n /\ j \in 1..n BY <1>0, <1>3, <2>1, <3>2 DEF QueueInv
    <3>3. CASE i = n + 1
      <4>1. j \notin 1..n BY <1>3, <2>1, <3>1, <3>3
      <4> HIDE DEF n
      <4> QED BY <1>3, <3>3, <4>1
    <3>4. CASE j = n + 1
      <4>1. i \notin 1..n BY <1>3, <2>1, <3>1, <3>4
      <4> HIDE DEF n
      <4> QED BY <1>3, <3>4, <4>1
    <3> HIDE DEF n
    <3> QED BY <1>3, <3>2, <3>3, <3>4
  <2>2. ASSUME NEW d \in LiveWaiters(h)
        PROVE  \E i \in 1..(n + 1) : h.waiters[i] = d
    <3>1. CASE d = c BY <3>1, <1>3
    <3>2. CASE d # c
      <4>1. d \in LiveWaiters(g) BY <3>2, <1>0, <1>2 DEF LiveWaiters
      <4>2. PICK i \in 1..n : g.waiters[i] = d BY <4>1, <1>0 DEF QueueInv
      <4> QED BY <4>2, <1>3
    <3> QED BY <3>1, <3>2
  <2>3. \A i \in 1..(n + 1) : h.status[h.waiters[i]] \in {"waiting", "cancelled"}
    BY <1>0, <1>2, <1>3, <1>4 DEF QueueInv
  <2> HIDE DEF n
  <2> QED BY <1>3, <2>1, <2>2, <2>3 DEF QueueInv
<1>6. Holders(h) = Holders(g) BY <1>0, <1>2 DEF Holders
<1>7. UnitWeights(h) BY <1>0, <1>2 DEF PoolInv, UnitWeights
<1>8. PoolInv(h) BY <1>1, <1>2, <1>5, <1>6, <1>7 DEF PoolInv
<1>9. h.waiters # << >> BY <1>3
<1> QED BY <1>8, <1>9 DEF h

(* acquire() and tryAcquire() of one permit.                               *)
LEMMA PoolAcquired ==
  ASSUME NEW g, PoolInv(g), NEW c \in Calls, g.status[c] = "new", NEW signal \in Signal
  PROVE  LET h == AfterAcquire(g, c, 1, signal)
         IN  PoolInv(h) /\ (LiveWaiters(h) = LiveWaiters(g) \/ h.waiters # << >>)
<1>1. g.available \in Nat BY PoolFields
<1> DEFINE listens == signal = "live"
<1>2. listens \in BOOLEAN OBVIOUS
<1> HIDE DEF listens
<1>3. g.available = 0 => PoolInv(Queued(g, c, 1, listens)) /\ Queued(g, c, 1, listens).waiters # << >>
  BY <1>2, PoolQueued
<1> QED BY <1>1, <1>3, PoolRefused, PoolGranted DEF AfterAcquire, listens

(* An aborted waiter leaves a corpse.                                      *)
LEMMA PoolAborted ==
  ASSUME NEW g, PoolInv(g), NEW c \in Calls, g.status[c] = "waiting"
  PROVE  PoolInv(AfterAbort(g, c)) /\ LiveWaiters(AfterAbort(g, c)) \subseteq LiveWaiters(g)
<1> DEFINE h == AfterAbort(g, c)
<1>0. /\ g \in GateType /\ g.waiters \in Seq(Calls) /\ QueueInv(g) /\ Len(g.waiters) \in Nat
      /\ g.status \in [Calls -> Status] /\ g.cancelledWaiters \in Nat
      /\ g.onAbort \in [Calls -> BOOLEAN]
  BY PoolFields DEF PoolInv
<1>1. h \in GateType
  <2>1. g.cancelledWaiters + 1 \in Nat BY <1>0
  <2>2. [g.status EXCEPT ![c] = "cancelled"] \in [Calls -> Status] BY <1>0 DEF Status
  <2>3. [g.onAbort EXCEPT ![c] = FALSE] \in [Calls -> BOOLEAN] BY <1>0, Zenon
  <2> QED BY <1>0, <2>1, <2>2, <2>3 DEF AfterAbort, GateType
<1>2. /\ h.status = [g.status EXCEPT ![c] = "cancelled"] /\ h.waiters = g.waiters
      /\ h.weight = g.weight /\ h.held = g.held /\ h.available = g.available
  BY <1>0 DEF AfterAbort, GateType
<1> HIDE DEF h
<1>3. LiveWaiters(h) = LiveWaiters(g) \ {c} /\ Holders(h) = Holders(g)
  BY <1>0, <1>2 DEF LiveWaiters, Holders
<1>4. QueueInv(h) BY <1>0, <1>2, <1>3 DEF QueueInv
<1>5. PoolInv(h) BY <1>1, <1>2, <1>3, <1>4 DEF PoolInv, UnitWeights
<1> QED BY <1>3, <1>5 DEF h

(* reset() leaves nobody waiting, and makes up what is not held.           *)
LEMMA PoolReset ==
  ASSUME NEW g, PoolInv(g)
  PROVE  PoolInv(AfterReset(g, Capacity)) /\ LiveWaiters(AfterReset(g, Capacity)) = {}
<1> DEFINE h == AfterReset(g, Capacity)
           a == Greater(0, Lesser(Lesser(Capacity, Capacity), Capacity - g.held))
           s == [c \in Calls |-> IF g.status[c] = "waiting" THEN "reset" ELSE g.status[c]]
<1>0. /\ g \in GateType /\ g.held \in Nat /\ Capacity \in Nat
      /\ g.status \in [Calls -> Status]
  BY PoolFields DEF PoolInv
<1>1. a \in 0..Capacity /\ a + g.held >= Capacity BY <1>0 DEF Greater, Lesser
<1>2. s \in [Calls -> Status] BY <1>0 DEF Status
<1>3. h = [g EXCEPT !.waiters = << >>, !.cancelledWaiters = 0, !.available = a, !.status = s]
  BY DEF AfterReset
<1> HIDE DEF a, s, h
<1>a. a \in Nat BY <1>0, <1>1
<1>b. << >> \in Seq(Calls) /\ 0 \in Nat OBVIOUS
<1>4. h \in GateType BY <1>0, <1>a, <1>b, <1>2, <1>3 DEF GateType
<1>5. /\ h.status = s /\ h.waiters = << >> /\ h.weight = g.weight /\ h.held = g.held
      /\ h.available = a
  BY <1>0, <1>3 DEF GateType
<1>6. LiveWaiters(h) = {} /\ Holders(h) = Holders(g) BY <1>0, <1>5 DEF LiveWaiters, Holders, s
<1>7. QueueInv(h) BY <1>5, <1>6 DEF QueueInv
<1>8. PoolInv(h) BY <1>1, <1>4, <1>5, <1>6, <1>7 DEF PoolInv, UnitWeights
<1> QED BY <1>6, <1>8 DEF h

(* The elements of two disjoint sets add up.                               *)
LEMMA DisjointUnion ==
  ASSUME NEW S, NEW T, IsFiniteSet(S), IsFiniteSet(T), S \cap T = {}
  PROVE  Cardinality(S \cup T) = Cardinality(S) + Cardinality(T)
<1>1. Cardinality(S \cup T) = Cardinality(S) + Cardinality(T) - Cardinality(S \cap T)
  BY FS_Union
<1>2. Cardinality(S \cap T) = 0 BY FS_EmptySet
<1>3. Cardinality(S) \in Nat /\ Cardinality(T) \in Nat BY FS_CardinalityType
<1> QED BY <1>1, <1>2, <1>3

(* One more element is at most one more.                                   *)
LEMMA OneMore ==
  ASSUME NEW S, IsFiniteSet(S), NEW c
  PROVE  IsFiniteSet(S \cup {c}) /\ Cardinality(S \cup {c}) <= Cardinality(S) + 1
<1>0. Cardinality(S) \in Nat BY FS_CardinalityType
<1>1. CASE c \in S
  <2>1. S \cup {c} = S BY <1>1
  <2> QED BY <1>0, <2>1
<1>2. CASE c \notin S
  <2>1. IsFiniteSet(S \cup {c}) /\ Cardinality(S \cup {c}) = Cardinality(S) + 1
    BY <1>2, FS_AddElement
  <2> QED BY <1>0, <2>1
<1> QED BY <1>1, <1>2

(* What the loop of _serveWaiters leaves: those it served hold, the others *)
(* wait as before; it stops only when its permits or the waiters run out.  *)
LEMMA PoolServes ==
  ASSUME NEW g, PoolInv(g), NEW n \in 0..Len(g.waiters), NEW permits \in Nat,
         ServesFirst(g, n, permits)
  PROVE  LET served == LiveAmong(g, n)
             units == UnitsAmong(g, n)
         IN  /\ units = Cardinality(served) /\ units \in Nat /\ units <= permits
             /\ served \subseteq LiveWaiters(g) /\ IsFiniteSet(served)
             /\ units < permits => served = LiveWaiters(g)
<1> DEFINE served == LiveAmong(g, n)
           units == UnitsAmong(g, n)
<1>0. /\ g.waiters \in Seq(Calls) /\ Len(g.waiters) \in Nat /\ QueueInv(g)
  BY PoolFields DEF PoolInv
<1>1. \A k \in 0..Len(g.waiters) :
         LiveAmong(g, k) \subseteq LiveWaiters(g) /\ LiveAmong(g, k) \in SUBSET Calls
  BY DEF LiveAmong, LiveWaiters
<1>2. \A k \in 0..Len(g.waiters) :
        /\ UnitsAmong(g, k) = Cardinality(LiveAmong(g, k))
        /\ IsFiniteSet(LiveAmong(g, k)) /\ UnitsAmong(g, k) \in Nat
  BY <1>1, UnitsAreCalls DEF PoolInv, UnitsAmong
<1>3. units <= permits
  <2>1. CASE n = 0
    <3>1. served = {} BY <2>1 DEF LiveAmong
    <3>2. units = 0 BY <1>0, <1>2, <3>1, FS_EmptySet
    <3> QED BY <3>2
  <2>2. CASE n # 0
    <3>1. n \in 1..n BY <2>2
    <3> QED BY <3>1 DEF ServesFirst
  <2> QED BY <2>1, <2>2
<1>4. ASSUME units < permits PROVE served = LiveWaiters(g)
  <2>1. CASE n = Len(g.waiters)
    BY <1>0, <2>1 DEF LiveAmong, QueueInv
  <2>2. CASE n < Len(g.waiters)
    <3> DEFINE more == LiveAmong(g, n + 1)
               c == g.waiters[n + 1]
    <3>1. UnitsAmong(g, n) >= permits \/ UnitsAmong(g, n + 1) > permits
      BY <2>2 DEF ServesFirst
    <3>2. UnitsAmong(g, n + 1) > permits BY <1>2, <1>4, <3>1
    <3>3. n + 1 \in 0..Len(g.waiters) /\ n \in 0..Len(g.waiters) BY <1>0, <2>2
    <3>4. more \subseteq served \cup {c}
      <4>1. \A i \in 1..(n + 1) : i \in 1..n \/ i = n + 1 OBVIOUS
      <4> QED BY <4>1 DEF LiveAmong
    <3>5. Cardinality(more) = UnitsAmong(g, n + 1) /\ Cardinality(served) = UnitsAmong(g, n)
          /\ UnitsAmong(g, n + 1) \in Nat /\ UnitsAmong(g, n) \in Nat
          /\ IsFiniteSet(served)
      BY <1>2, <3>3
    <3>6. IsFiniteSet(served \cup {c}) /\ Cardinality(served \cup {c}) <= Cardinality(served) + 1
      BY <3>5, OneMore
    <3>7. Cardinality(more) <= Cardinality(served \cup {c})
          /\ Cardinality(served \cup {c}) \in Nat
      BY <3>4, <3>6, FS_Subset, FS_CardinalityType
    <3> QED BY <1>4, <3>2, <3>5, <3>6, <3>7
  <2> QED BY <1>0, <2>1, <2>2
<1> QED BY <1>1, <1>2, <1>3, <1>4

(* The queue after the loop, whatever else has become of a call c that is  *)
(* not in it.                                                              *)
LEMMA QueueAfter ==
  ASSUME NEW g, PoolInv(g), NEW n \in 0..Len(g.waiters), NEW h,
         h.waiters = SubSeq(g.waiters, n + 1, Len(g.waiters)),
         h.status \in [Calls -> Status],
         \A d \in Calls : IF d \in LiveAmong(g, n) THEN h.status[d] # "waiting"
                          ELSE \/ h.status[d] = g.status[d]
                               \/ g.status[d] = "holding" /\ h.status[d] # "waiting"
  PROVE  QueueInv(h) /\ LiveWaiters(h) = LiveWaiters(g) \ LiveAmong(g, n)
         /\ h.waiters \in Seq(Calls)
<1> DEFINE m == Len(g.waiters) - n
           served == LiveAmong(g, n)
<1>0. /\ g.waiters \in Seq(Calls) /\ Len(g.waiters) \in Nat /\ QueueInv(g)
      /\ g.status \in [Calls -> Status]
  BY PoolFields DEF PoolInv
<1>1. /\ m \in Nat /\ Len(h.waiters) = m /\ h.waiters \in Seq(Calls)
      /\ \A i \in 1..m : h.waiters[i] = g.waiters[n + i] /\ n + i \in 1..Len(g.waiters)
  <2> DEFINE q == SubSeq(g.waiters, n + 1, Len(g.waiters))
  <2>1. n + 1 \in 1..Len(g.waiters) + 1 /\ Len(g.waiters) \in n..Len(g.waiters)
    BY <1>0
  <2>2. /\ Len(q) = IF n + 1 <= Len(g.waiters) THEN Len(g.waiters) - (n + 1) + 1 ELSE 0
        /\ \A i \in 1..(Len(g.waiters) - (n + 1) + 1) : q[i] = g.waiters[n + 1 + i - 1]
        /\ q \in Seq(Calls)
    BY <1>0, <2>1, SubSeqProperties
  <2> HIDE DEF q
  <2>3. Len(q) = m BY <1>0, <2>2
  <2> QED BY <1>0, <2>2, <2>3 DEF q
<1> HIDE DEF m
<1>2. \A i, j \in 1..Len(h.waiters) : h.waiters[i] = h.waiters[j] => i = j
  BY <1>0, <1>1 DEF QueueInv
<1>3. ASSUME NEW i \in 1..m
      PROVE  /\ g.waiters[n + i] \in Calls /\ g.waiters[n + i] \notin served
             /\ g.status[g.waiters[n + i]] \in {"waiting", "cancelled"}
  <2>1. n + i \in 1..Len(g.waiters) /\ n + i \notin 1..n BY <1>0, <1>1
  <2>2. g.waiters[n + i] \in Calls BY <1>0, <2>1
  <2>3. ASSUME NEW j \in 1..n PROVE g.waiters[j] # g.waiters[n + i]
    <3>1. j \in 1..Len(g.waiters) /\ j # n + i BY <1>0, <2>1
    <3> QED BY <1>0, <2>1, <3>1 DEF QueueInv
  <2>4. g.status[g.waiters[n + i]] \in {"waiting", "cancelled"} BY <1>0, <2>1 DEF QueueInv
  <2> QED BY <2>2, <2>3, <2>4 DEF LiveAmong
<1>4. LiveWaiters(h) = LiveWaiters(g) \ served
  <2>1. \A d \in served : d \in Calls /\ g.status[d] = "waiting" BY DEF LiveAmong, LiveWaiters
  <2> HIDE DEF served
  <2>2. \A d \in Calls : h.status[d] = "waiting" <=> g.status[d] = "waiting" /\ d \notin served
    BY <2>1 DEF served
  <2> QED BY <2>2 DEF LiveWaiters
<1>5. ASSUME NEW d \in LiveWaiters(h) PROVE \E i \in 1..Len(h.waiters) : h.waiters[i] = d
  <2>1. d \in LiveWaiters(g) /\ d \notin served BY <1>4
  <2>2. PICK j \in 1..Len(g.waiters) : g.waiters[j] = d BY <1>0, <2>1 DEF QueueInv
  <2>3. j \notin 1..n BY <2>1, <2>2 DEF LiveAmong
  <2>4. j - n \in 1..m /\ n + (j - n) = j BY <1>0, <2>2, <2>3 DEF m
  <2> QED BY <1>1, <2>2, <2>4
<1>6. \A i \in 1..Len(h.waiters) : h.status[h.waiters[i]] \in {"waiting", "cancelled"}
  <2> SUFFICES ASSUME NEW i \in 1..m
               PROVE  h.status[g.waiters[n + i]] \in {"waiting", "cancelled"}
    BY <1>1
  <2>1. /\ g.waiters[n + i] \in Calls /\ g.waiters[n + i] \notin served
        /\ g.status[g.waiters[n + i]] \in {"waiting", "cancelled"}
    BY <1>3
  <2> HIDE DEF served
  <2> QED BY <2>1 DEF served
<1>7. QueueInv(h) BY <1>2, <1>5, <1>6 DEF QueueInv
<1> QED BY <1>1, <1>4, <1>7

(* The types after the loop.                                               *)
LEMMA TypeAfter ==
  ASSUME NEW g \in GateType, NEW n \in 0..Len(g.waiters), NEW fromAvailable \in BOOLEAN,
         fromAvailable => UnitsAmong(g, n) <= g.available,
         UnitsAmong(g, n) \in Nat
  PROVE  LET h == AfterServe(g, n, fromAvailable)
             served == LiveAmong(g, n)
         IN  /\ h \in GateType
             /\ h.waiters = SubSeq(g.waiters, n + 1, Len(g.waiters))
             /\ h.status = [c \in Calls |-> IF c \in served THEN "holding" ELSE g.status[c]]
             /\ h.weight = g.weight
             /\ h.available = IF fromAvailable THEN g.available - UnitsAmong(g, n) ELSE g.available
             /\ h.held = IF fromAvailable THEN g.held + UnitsAmong(g, n) ELSE g.held
<1> DEFINE corpses == Cardinality({i \in 1..n : g.status[g.waiters[i]] # "waiting"})
           k == Greater(0, g.cancelledWaiters - corpses)
           q == SubSeq(g.waiters, n + 1, Len(g.waiters))
           s == [d \in Calls |-> IF d \in LiveAmong(g, n) THEN "holding" ELSE g.status[d]]
           l == [d \in Calls |-> g.onAbort[d] /\ d \notin LiveAmong(g, n)]
           a == IF fromAvailable THEN g.available - UnitsAmong(g, n) ELSE g.available
           b == IF fromAvailable THEN g.held + UnitsAmong(g, n) ELSE g.held
           h == AfterServe(g, n, fromAvailable)
<1>0. /\ g.available \in Nat /\ g.held \in Nat /\ g.cancelledWaiters \in Nat
      /\ g.waiters \in Seq(Calls) /\ Len(g.waiters) \in Nat
      /\ g.status \in [Calls -> Status] /\ g.weight \in [Calls -> Nat]
      /\ g.onAbort \in [Calls -> BOOLEAN]
  BY DEF GateType
<1>1. corpses \in Nat
  <2>0. n \in Int /\ 1 \in Int BY <1>0
  <2>1. IsFiniteSet(1..n) BY <2>0, FS_Interval
  <2>2. {i \in 1..n : g.status[g.waiters[i]] # "waiting"} \in SUBSET (1..n) OBVIOUS
  <2> QED BY <2>1, <2>2, FS_Subset, FS_CardinalityType
<1>2. h = [available |-> a, held |-> b, cancelledWaiters |-> k, waiters |-> q, status |-> s,
           weight |-> g.weight, onAbort |-> l]
  BY DEF AfterServe
<1>3. a \in Nat /\ b \in Nat BY <1>0
<1>4. s \in [Calls -> Status] BY <1>0 DEF Status
<1>5. l \in [Calls -> BOOLEAN] BY Zenon
<1>6. q \in Seq(Calls) BY <1>0, SubSeqProperties
<1> HIDE DEF corpses
<1>7. k \in Nat BY <1>0, <1>1 DEF Greater
<1> HIDE DEF a, b, k, q, s, l, h
<1>8. h \in GateType BY <1>0, <1>2, <1>3, <1>4, <1>5, <1>6, <1>7 DEF GateType
<1>9. h.waiters = q /\ h.status = s /\ h.weight = g.weight /\ h.available = a /\ h.held = b
  BY <1>2
<1> QED BY <1>8, <1>9 DEF h, q, s, a, b

(* Serving from what a refill has put there.                               *)
LEMMA PoolMints ==
  ASSUME NEW g, PoolInv(g), NEW k \in Nat, g.available + k <= Capacity,
         NEW n \in 0..Len(g.waiters),
         ServesFirst([g EXCEPT !.available = @ + k], n, Lesser(k, g.available + k))
  PROVE  LET h == AfterServe([g EXCEPT !.available = @ + k], n, TRUE)
         IN  PoolInv(h) /\ LiveWaiters(h) \subseteq LiveWaiters(g)
<1> DEFINE m == [g EXCEPT !.available = @ + k]
           h == AfterServe(m, n, TRUE)
           served == LiveAmong(g, n)
           units == UnitsAmong(g, n)
<1>0. /\ g \in GateType /\ g.available \in Nat /\ g.held \in Nat /\ Capacity \in Nat
      /\ g.waiters \in Seq(Calls) /\ Len(g.waiters) \in Nat
      /\ g.status \in [Calls -> Status]
      /\ IsFiniteSet(Holders(g)) /\ Holders(g) \subseteq Calls
  BY PoolFields DEF PoolInv
<1>1. /\ m.waiters = g.waiters /\ m.status = g.status /\ m.weight = g.weight /\ m.held = g.held
      /\ m.available = g.available + k /\ m.onAbort = g.onAbort
      /\ m.cancelledWaiters = g.cancelledWaiters
  BY <1>0 DEF GateType
<1> HIDE DEF m
<1>2. Lesser(k, g.available + k) = k BY <1>0 DEF Lesser
<1>3. /\ LiveWaiters(m) = LiveWaiters(g)
      /\ \A i \in 0..Len(g.waiters) : LiveAmong(m, i) = LiveAmong(g, i)
                                      /\ UnitsAmong(m, i) = UnitsAmong(g, i)
  BY <1>1 DEF LiveWaiters, LiveAmong, UnitsAmong, UnitCount, Units
<1>4. ServesFirst(g, n, k)
  <2>1. ServesFirst(m, n, k) BY <1>2 DEF m
  <2>a. n \in Nat /\ n <= Len(g.waiters) BY <1>0
  <2>2. ASSUME NEW i \in 1..n PROVE i \in 0..Len(g.waiters) /\ i - 1 \in 0..Len(g.waiters)
    BY <1>0, <2>a
  <2>3. n < Len(g.waiters) => n + 1 \in 0..Len(g.waiters) BY <1>0
  <2> QED BY <1>1, <1>3, <2>1, <2>2, <2>3 DEF ServesFirst
<1>5. /\ units = Cardinality(served) /\ units \in Nat /\ units <= k
      /\ served \subseteq LiveWaiters(g) /\ IsFiniteSet(served)
      /\ units < k => served = LiveWaiters(g)
  BY <1>4, PoolServes
<1>6. /\ LiveAmong(m, n) = served /\ UnitsAmong(m, n) = units BY <1>3 DEF served, units
<1>7. m \in GateType
  <2> DEFINE a == g.available + k
  <2>1. a \in Nat BY <1>0
  <2>2. m = [g EXCEPT !.available = a] BY DEF m
  <2> HIDE DEF a
  <2> QED BY <1>0, <2>1, <2>2 DEF GateType
<1>8. UnitsAmong(m, n) <= m.available /\ UnitsAmong(m, n) \in Nat
      /\ n \in 0..Len(m.waiters)
  BY <1>0, <1>1, <1>5, <1>6
<1>9. /\ h \in GateType /\ h.weight = g.weight
      /\ h.waiters = SubSeq(g.waiters, n + 1, Len(g.waiters))
      /\ h.status = [c \in Calls |-> IF c \in served THEN "holding" ELSE g.status[c]]
      /\ h.available = (g.available + k) - units /\ h.held = g.held + units
  <2>1. TRUE \in BOOLEAN OBVIOUS
  <2>2. /\ h \in GateType
        /\ h.waiters = SubSeq(m.waiters, n + 1, Len(m.waiters))
        /\ h.status = [c \in Calls |-> IF c \in LiveAmong(m, n) THEN "holding" ELSE m.status[c]]
        /\ h.weight = m.weight
        /\ h.available = m.available - UnitsAmong(m, n)
        /\ h.held = m.held + UnitsAmong(m, n)
    <3> HIDE DEF served, units
    <3> QED BY <1>7, <1>8, <2>1, TypeAfter
  <2> HIDE DEF h, served, units
  <2>3. h.status = [c \in Calls |-> IF c \in served THEN "holding" ELSE g.status[c]]
    BY <1>1, <1>6, <2>2
  <2>4. h.waiters = SubSeq(g.waiters, n + 1, Len(g.waiters)) /\ h.weight = g.weight
    BY <1>1, <2>2
  <2>5. h.available = (g.available + k) - units /\ h.held = g.held + units
    BY <1>1, <1>6, <2>2
  <2> QED BY <2>2, <2>3, <2>4, <2>5
<1> HIDE DEF h, served, units
<1>10. QueueInv(h) /\ LiveWaiters(h) = LiveWaiters(g) \ served
  <2>1. h.status \in [Calls -> Status] BY <1>9 DEF GateType
  <2>2. \A d \in Calls : IF d \in served THEN h.status[d] # "waiting"
                          ELSE h.status[d] = g.status[d]
    BY <1>9
  <2> QED BY <1>9, <2>1, <2>2, QueueAfter, ZenonT(60) DEF served
<1>11. Holders(h) = Holders(g) \cup served /\ Holders(g) \cap served = {}
  BY <1>0, <1>5, <1>9 DEF Holders, LiveWaiters
<1>12. Cardinality(Holders(h)) = Cardinality(Holders(g)) + Cardinality(served)
  BY <1>0, <1>5, <1>11, DisjointUnion
<1>13. h.held = Cardinality(Holders(h)) BY <1>5, <1>9, <1>12 DEF PoolInv
<1>14. h.available \in 0..Capacity /\ h.available + h.held >= Capacity
  <2>1. g.available + g.held >= Capacity BY DEF PoolInv
  <2>2. units \in Nat /\ units <= k BY <1>5
  <2>3. h.available = (g.available + k) - units /\ h.held = g.held + units BY <1>9
  <2> DEFINE x == g.available
             y == g.held
  <2>4. x \in Nat /\ y \in Nat /\ Capacity \in Nat /\ x + k <= Capacity /\ x + y >= Capacity
    BY <1>0, <2>1
  <2>5. h.available = (x + k) - units /\ h.held = y + units BY <2>3
  <2> HIDE DEF x, y
  <2> QED BY <2>2, <2>4, <2>5
<1>15. ASSUME LiveWaiters(h) # {} PROVE h.available = 0
  <2>1. ~(units < k) BY <1>5, <1>10, <1>15
  <2>2. LiveWaiters(g) # {} BY <1>10, <1>15
  <2>3. g.available = 0 BY <2>2 DEF PoolInv
  <2> QED BY <1>5, <1>9, <2>1, <2>3
<1>16. UnitWeights(h) BY <1>9 DEF PoolInv, UnitWeights
<1>17. PoolInv(h) BY <1>9, <1>10, <1>13, <1>14, <1>15, <1>16 DEF PoolInv
<1> QED BY <1>10, <1>17 DEF h, m

(* A release hands its permit to the first who waits, or puts it back.     *)
LEMMA PoolReleased ==
  ASSUME NEW g, PoolInv(g), NEW c \in Calls, g.status[c] = "holding",
         NEW n \in 0..Len(g.waiters), ServesFirst(g, n, g.weight[c])
  PROVE  LET h == AfterRelease(g, c, n)
         IN  PoolInv(h) /\ LiveWaiters(h) \subseteq LiveWaiters(g)
<1> DEFINE f == AfterServe(g, n, FALSE)
           h == AfterRelease(g, c, n)
           served == LiveAmong(g, n)
           units == UnitsAmong(g, n)
           a == IF 1 - units > 0 THEN Lesser(Capacity, g.available + (1 - units)) ELSE g.available
           b == Greater(0, g.held - (1 - units))
           s == [f.status EXCEPT ![c] = "released"]
<1>0. /\ g \in GateType /\ g.available \in Nat /\ g.held \in Nat /\ Capacity \in Nat \ {0}
      /\ g.waiters \in Seq(Calls) /\ Len(g.waiters) \in Nat
      /\ g.status \in [Calls -> Status]
      /\ IsFiniteSet(Holders(g)) /\ Holders(g) \subseteq Calls
  BY PoolFields DEF PoolInv
<1>1. g.weight[c] = 1 BY DEF PoolInv, UnitWeights
<1>2. /\ units = Cardinality(served) /\ units \in Nat /\ units <= 1
      /\ served \subseteq LiveWaiters(g) /\ IsFiniteSet(served)
      /\ units < 1 => served = LiveWaiters(g)
  BY <1>1, PoolServes
<1>3. /\ f \in GateType
      /\ f.waiters = SubSeq(g.waiters, n + 1, Len(g.waiters))
      /\ f.status = [d \in Calls |-> IF d \in served THEN "holding" ELSE g.status[d]]
      /\ f.weight = g.weight
  <2>1. FALSE \in BOOLEAN OBVIOUS
  <2> HIDE DEF served
  <2>2. g \in GateType /\ n \in 0..Len(g.waiters) /\ UnitsAmong(g, n) \in Nat BY <1>0, <1>2
  <2> QED BY <2>1, <2>2, TypeAfter DEF served
<1>4. h = [f EXCEPT !.available = a, !.held = b, !.status = s]
  BY <1>1 DEF AfterRelease
<1>5. g.held = Cardinality(Holders(g)) /\ c \in Holders(g) BY DEF PoolInv, Holders
<1>6. Cardinality(Holders(g) \ {c}) = Cardinality(Holders(g)) - 1 /\ IsFiniteSet(Holders(g) \ {c})
  BY <1>0, <1>5, FS_RemoveElement
<1>7. g.held >= 1
  <2>1. Cardinality(Holders(g) \ {c}) \in Nat BY <1>6, FS_CardinalityType
  <2> QED BY <1>0, <1>5, <1>6, <2>1
<1> HIDE DEF h, f, served, units
<1>8. units = 0 \/ units = 1 BY <1>2
<1>9. a \in Nat /\ b \in Nat /\ b = g.held - 1 + units BY <1>0, <1>7, <1>8 DEF Lesser, Greater
<1>10. a = IF units = 0 THEN Lesser(Capacity, g.available + 1) ELSE g.available
  BY <1>8
<1> HIDE DEF a, b
<1>11. s \in [Calls -> Status] BY <1>0, <1>3 DEF Status
<1> HIDE DEF s
<1>12. /\ h \in GateType /\ h.waiters = f.waiters /\ h.weight = g.weight
       /\ h.status = s /\ h.available = a /\ h.held = b
  BY <1>3, <1>4, <1>9, <1>11 DEF GateType
<1>13. c \notin served BY <1>2 DEF LiveWaiters
<1>14. QueueInv(h) /\ LiveWaiters(h) = LiveWaiters(g) \ served
  <2>1. h.status \in [Calls -> Status] BY <1>11, <1>12
  <2>2. \A d \in Calls : h.status[d] = IF d = c THEN "released"
                                       ELSE IF d \in served THEN "holding" ELSE g.status[d]
    BY <1>3, <1>12 DEF s
  <2>3. \A d \in Calls : IF d \in served THEN h.status[d] # "waiting"
                          ELSE \/ h.status[d] = g.status[d]
                               \/ g.status[d] = "holding" /\ h.status[d] # "waiting"
    BY <1>13, <2>2
  <2>4. h.waiters = SubSeq(g.waiters, n + 1, Len(g.waiters)) BY <1>3, <1>12
  <2> QED BY <2>1, <2>3, <2>4, QueueAfter DEF served
<1>15. Holders(h) = (Holders(g) \ {c}) \cup served /\ (Holders(g) \ {c}) \cap served = {}
  BY <1>0, <1>2, <1>3, <1>12, <1>13 DEF Holders, LiveWaiters, s
<1>16. Cardinality(Holders(h)) = Cardinality(Holders(g) \ {c}) + Cardinality(served)
  BY <1>2, <1>6, <1>15, DisjointUnion
<1>17. h.held = Cardinality(Holders(h)) BY <1>0, <1>2, <1>5, <1>6, <1>9, <1>12, <1>16
<1>18. h.available \in 0..Capacity /\ h.available + h.held >= Capacity
  <2>1. g.available + g.held >= Capacity /\ g.available <= Capacity BY <1>0 DEF PoolInv
  <2> DEFINE x == g.available
             y == g.held
  <2>2. x \in Nat /\ y \in Nat /\ Capacity \in Nat /\ x <= Capacity /\ x + y >= Capacity /\ y >= 1
    BY <1>0, <1>7, <2>1
  <2>3. h.available = a /\ h.held = b /\ b = y - 1 + units /\ (units = 0 \/ units = 1)
        /\ a = IF units = 0 THEN Lesser(Capacity, x + 1) ELSE x
    BY <1>8, <1>9, <1>10, <1>12
  <2> HIDE DEF x, y
  <2> QED BY <2>2, <2>3 DEF Lesser
<1>19. ASSUME LiveWaiters(h) # {} PROVE h.available = 0
  <2>1. units = 1 BY <1>2, <1>8, <1>14, <1>19
  <2>2. LiveWaiters(g) # {} BY <1>14, <1>19
  <2>3. g.available = 0 BY <2>2 DEF PoolInv
  <2> QED BY <1>10, <1>12, <2>1, <2>3
<1>20. UnitWeights(h) BY <1>12 DEF PoolInv, UnitWeights
<1>21. PoolInv(h) BY <1>12, <1>14, <1>17, <1>18, <1>19, <1>20 DEF PoolInv
<1> QED BY <1>14, <1>21 DEF h

(* _scheduleRefill(): a refill that is wanted while somebody waits, or the *)
(* heartbeat beats, is armed; one that was armed stays.                    *)
LEMMA Schedules ==
  ASSUME NEW g, NEW isWanted \in BOOLEAN, NEW isArmed \in BOOLEAN,
         heartbeat \in BOOLEAN, adaptive \in BOOLEAN, heartbeat => adaptive,
         ScheduleRefill(g, isWanted, heartbeat, isArmed)
  PROVE  /\ armed' \in BOOLEAN /\ heartbeat' \in BOOLEAN
         /\ heartbeat' => adaptive
         /\ isArmed => armed'
         /\ isWanted /\ (HasWaiters(g) \/ heartbeat) => armed'
         /\ heartbeat' => heartbeat \/ armed'
BY DEF ScheduleRefill

(* Who waits is in the queue.                                              *)
LEMMA WaitersQueued ==
  ASSUME NEW g, PoolInv(g), ~HasWaiters(g)
  PROVE  LiveWaiters(g) = {}
BY DEF PoolInv, HasWaiters, QueueInv

(* What the controller makes of its window is a number again.              *)
LEMMA SteppedIsNat ==
  ASSUME BackpressureInv
  PROVE  Stepped \in Nat
<1>1. window \in Nat /\ adaptive \in BOOLEAN BY DEF BackpressureInv
<1>2. window \div 2 \in Nat BY <1>1
<1>3. Greater(WindowMin, window \div 2) \in Nat BY <1>2, BackpressureConstants DEF Greater
<1>4. Lesser(WindowMax, window + Increase) \in Nat BY <1>1, BackpressureConstants DEF Lesser
<1>5. CASE ~adaptive BY <1>1, <1>5 DEF Stepped
<1>6. CASE adaptive /\ gate.held >= Capacity BY <1>3, <1>6 DEF Stepped
<1>7. CASE adaptive /\ ~(gate.held >= Capacity) BY <1>4, <1>7 DEF Stepped
<1> QED BY <1>5, <1>6, <1>7

(* A refill puts no more there than there is room for.                     *)
LEMMA RefillFits ==
  ASSUME BackpressureInv, Missing > 0
  PROVE  RefillAmount \in Nat /\ gate.available + RefillAmount <= Capacity
<1>1. PoolInv(gate) BY DEF BackpressureInv
<1>2. gate.available \in Nat /\ Capacity \in Nat /\ Len(gate.waiters) \in Nat /\ gate.cancelledWaiters \in Nat
  BY <1>1, PoolFields
<1>3. Pending(gate) \in Nat BY <1>2 DEF Pending, Greater
<1>4. (Pending(gate) + 9) \div 10 \in Nat BY <1>3
<1>5. Stepped \in Nat BY SteppedIsNat
<1> DEFINE p == (Pending(gate) + 9) \div 10
           x == gate.available
<1> HIDE DEF p
<1>6. Missing = Capacity - x /\ RefillAmount = Lesser(Lesser(Capacity, Stepped + p), Missing)
  BY DEF Missing, RefillAmount, p
<1>7. p \in Nat /\ x \in Nat BY <1>2, <1>4 DEF p
<1> HIDE DEF x
<1>8. RefillAmount \in Nat /\ x + RefillAmount <= Capacity BY <1>2, <1>5, <1>6, <1>7 DEF Lesser
<1> QED BY <1>8 DEF x

(* Every operation of the backpressure gate, and every tick of its timer.  *)
LEMMA BackpressureStep ==
  ASSUME BackpressureInv, BNext
  PROVE  BackpressureInv'
<1>0. /\ PoolInv(gate) /\ window \in Nat
      /\ armed \in BOOLEAN /\ heartbeat \in BOOLEAN /\ adaptive \in BOOLEAN
      /\ heartbeat => adaptive
      /\ LiveWaiters(gate) # {} \/ heartbeat => armed
  BY DEF BackpressureInv, RefillIsComing
<1>1. ASSUME NEW c \in Calls, NEW signal \in Signal, Acquire(c, signal) PROVE BackpressureInv'
  <2> DEFINE full == Pending(gate) >= HighWaterMark
             g == IF full THEN Refused(gate, c) ELSE AfterAcquire(gate, c, 1, signal)
             w == Pending(gate) < HighWaterMark /\ HasWaiters(g)
  <2>1. /\ gate.status[c] = "new" /\ gate' = g /\ window' = window /\ adaptive' = adaptive
        /\ ScheduleRefill(g, w, heartbeat, armed)
    BY <1>1 DEF Acquire
  <2>2. Pending(gate) \in Nat
    <3>1. Len(gate.waiters) \in Nat /\ gate.cancelledWaiters \in Nat BY <1>0, PoolFields
    <3> QED BY <3>1 DEF Pending, Greater
  <2>3. ~full <=> Pending(gate) < HighWaterMark BY <2>2, BackpressureConstants
  <2>4. PoolInv(g) /\ (LiveWaiters(g) = LiveWaiters(gate) \/ (~full /\ g.waiters # << >>))
    <3>1. CASE full BY <1>0, <2>1, <3>1, PoolRefused
    <3>2. CASE ~full
      <4>1. g = AfterAcquire(gate, c, 1, signal) BY <3>2
      <4> HIDE DEF full, g
      <4> QED BY <1>0, <2>1, <3>2, <4>1, PoolAcquired
    <3> QED BY <3>1, <3>2
  <2>5. w \in BOOLEAN OBVIOUS
  <2>6. w <=> ~full /\ g.waiters # << >> BY <2>3 DEF HasWaiters
  <2> HIDE DEF w, g, full
  <2>7. /\ armed' \in BOOLEAN /\ heartbeat' \in BOOLEAN
        /\ heartbeat' => adaptive
        /\ armed => armed'
        /\ w /\ (HasWaiters(g) \/ heartbeat) => armed'
        /\ heartbeat' => heartbeat \/ armed'
    BY <1>0, <2>1, <2>5, Schedules
  <2>8. LiveWaiters(g) # {} \/ heartbeat' => armed'
    BY <1>0, <2>4, <2>6, <2>7 DEF HasWaiters
  <2> QED BY <1>0, <2>1, <2>4, <2>7, <2>8 DEF BackpressureInv, RefillIsComing
<1>2. ASSUME NEW c \in Calls, TryAcquire(c) PROVE BackpressureInv'
  <2>1. /\ gate.status[c] = "new" /\ gate' = AfterTryAcquire(gate, c, 1)
        /\ UNCHANGED << armed, heartbeat, window, adaptive >>
    BY <1>2 DEF TryAcquire
  <2>2. PoolInv(gate') /\ LiveWaiters(gate') = LiveWaiters(gate)
    BY <1>0, <2>1, PoolRefused, PoolGranted DEF AfterTryAcquire
  <2> QED BY <1>0, <2>1, <2>2 DEF BackpressureInv, RefillIsComing
<1>3. ASSUME NEW c \in Calls, ReleaseHeld(c) PROVE BackpressureInv'
  <2>1. PICK n \in 0..Len(gate.waiters) :
          /\ gate.status[c] = "holding" /\ ServesFirst(gate, n, gate.weight[c])
          /\ gate' = AfterRelease(gate, c, n)
          /\ ScheduleRefill(AfterRelease(gate, c, n),
               AfterRelease(gate, c, n).available < LowWaterMark \/ heartbeat, heartbeat, armed)
          /\ window' = window /\ adaptive' = adaptive
    BY <1>3 DEF ReleaseHeld
  <2> DEFINE g == AfterRelease(gate, c, n)
             w == g.available < LowWaterMark \/ heartbeat
  <2>2. PoolInv(g) /\ LiveWaiters(g) \subseteq LiveWaiters(gate)
    BY <1>0, <2>1, PoolReleased
  <2>3. w \in BOOLEAN BY <1>0
  <2>4. ScheduleRefill(g, w, heartbeat, armed) /\ gate' = g BY <2>1
  <2> HIDE DEF g, w
  <2>5. /\ armed' \in BOOLEAN /\ heartbeat' \in BOOLEAN
        /\ heartbeat' => adaptive
        /\ armed => armed'
        /\ heartbeat' => heartbeat \/ armed'
    BY <1>0, <2>3, <2>4, Schedules
  <2> QED BY <1>0, <2>1, <2>2, <2>4, <2>5 DEF BackpressureInv, RefillIsComing
<1>4. ASSUME NEW c \in Calls, AbortWaiter(c) PROVE BackpressureInv'
  <2>1. /\ gate.status[c] = "waiting" /\ gate' = AfterAbort(gate, c)
        /\ UNCHANGED << armed, heartbeat, window, adaptive >>
    BY <1>4 DEF AbortWaiter
  <2>2. PoolInv(gate') /\ LiveWaiters(gate') \subseteq LiveWaiters(gate)
    BY <1>0, <2>1, PoolAborted
  <2> QED BY <1>0, <2>1, <2>2 DEF BackpressureInv, RefillIsComing
<1>5. CASE RefillIdle
  <2>1. LiveWaiters(gate) = {} BY <1>0, <1>5, WaitersQueued DEF RefillIdle
  <2> QED BY <1>0, <1>5, <2>1 DEF RefillIdle, BackpressureInv, RefillIsComing
<1>6. CASE RefillUnwaited
  <2>1. LiveWaiters(gate) = {} BY <1>0, <1>6, WaitersQueued DEF RefillUnwaited
  <2>2. /\ ScheduleRefill(gate, TRUE, heartbeat, FALSE) /\ window' = Stepped
        /\ gate' = gate /\ adaptive' = adaptive
    BY <1>6 DEF RefillUnwaited
  <2>3. TRUE \in BOOLEAN /\ FALSE \in BOOLEAN OBVIOUS
  <2>4. /\ armed' \in BOOLEAN /\ heartbeat' \in BOOLEAN
        /\ heartbeat' => adaptive
        /\ heartbeat => armed'
        /\ heartbeat' => heartbeat \/ armed'
    BY <1>0, <2>2, <2>3, Schedules
  <2>5. window' \in Nat BY <2>2, SteppedIsNat
  <2> QED BY <1>0, <2>1, <2>2, <2>4, <2>5 DEF BackpressureInv, RefillIsComing
<1>7. CASE RefillFull
  <2>1. LiveWaiters(gate) = {}
    <3>1. gate.available \in Nat /\ Capacity \in Nat \ {0} BY <1>0, PoolFields
    <3>2. gate.available # 0 BY <1>7, <3>1 DEF RefillFull, Missing
    <3> QED BY <1>0, <3>2 DEF PoolInv
  <2>2. /\ ScheduleRefill(gate, adaptive, heartbeat, FALSE) /\ window' = Stepped
        /\ gate' = gate /\ adaptive' = adaptive /\ HasWaiters(gate)
    BY <1>7 DEF RefillFull
  <2>3. FALSE \in BOOLEAN OBVIOUS
  <2>4. /\ armed' \in BOOLEAN /\ heartbeat' \in BOOLEAN
        /\ heartbeat' => adaptive
        /\ adaptive => armed'
    BY <1>0, <2>2, <2>3, Schedules
  <2>5. window' \in Nat BY <2>2, SteppedIsNat
  <2> QED BY <1>0, <2>1, <2>2, <2>4, <2>5 DEF BackpressureInv, RefillIsComing
<1>8. CASE Mint
  <2> DEFINE k == RefillAmount
             m == [gate EXCEPT !.available = @ + k]
  <2>1. PICK n \in 0..Len(m.waiters) :
          /\ ServesFirst(m, n, Lesser(k, m.available))
          /\ gate' = AfterServe(m, n, TRUE)
          /\ ScheduleRefill(AfterServe(m, n, TRUE),
               AfterServe(m, n, TRUE).available < LowWaterMark \/ heartbeat, heartbeat, FALSE)
    BY <1>8 DEF Mint
  <2>2. HasWaiters(gate) /\ Missing > 0 /\ window' = Stepped /\ adaptive' = adaptive
    BY <1>8 DEF Mint
  <2>3. k \in Nat /\ gate.available + k <= Capacity BY <2>2, RefillFits
  <2> HIDE DEF k
  <2>4. m.waiters = gate.waiters /\ m.available = gate.available + k
    BY <1>0 DEF PoolInv, GateType
  <2>5. n \in 0..Len(gate.waiters) /\ ServesFirst(m, n, Lesser(k, gate.available + k))
    BY <2>1, <2>4
  <2> DEFINE h == AfterServe(m, n, TRUE)
             w == h.available < LowWaterMark \/ heartbeat
  <2>6. PoolInv(h) /\ LiveWaiters(h) \subseteq LiveWaiters(gate)
    BY <1>0, <2>3, <2>5, PoolMints
  <2>7. ScheduleRefill(h, w, heartbeat, FALSE) /\ gate' = h BY <2>1
  <2>8. w \in BOOLEAN /\ FALSE \in BOOLEAN BY <1>0
  <2>9. LiveWaiters(h) # {} => w /\ HasWaiters(h)
    <3>1. LiveWaiters(h) # {} => h.available = 0 /\ HasWaiters(h)
      BY <2>6, WaitersQueued DEF PoolInv
    <3>2. 0 < LowWaterMark BY BackpressureConstants
    <3> HIDE DEF h, m
    <3> QED BY <3>1, <3>2
  <2>10. heartbeat => w OBVIOUS
  <2> HIDE DEF h, w, m
  <2>11. /\ armed' \in BOOLEAN /\ heartbeat' \in BOOLEAN
         /\ heartbeat' => adaptive
         /\ w /\ (HasWaiters(h) \/ heartbeat) => armed'
         /\ heartbeat' => heartbeat \/ armed'
    BY <1>0, <2>7, <2>8, Schedules
  <2>12. LiveWaiters(h) # {} \/ heartbeat' => armed' BY <2>9, <2>10, <2>11, Zenon
  <2>13. window' \in Nat BY <2>2, SteppedIsNat
  <2>14. PoolInv(gate') /\ (LiveWaiters(gate') # {} \/ heartbeat' => armed') BY <2>6, <2>7, <2>12
  <2>15. adaptive' = adaptive /\ adaptive' \in BOOLEAN /\ (heartbeat' => adaptive') BY <1>0, <2>2, <2>11
  <2>16. armed' \in BOOLEAN /\ heartbeat' \in BOOLEAN BY <2>11
  <2> QED BY <2>13, <2>14, <2>15, <2>16 DEF BackpressureInv, RefillIsComing
<1>9. CASE ResetGate
  <2>1. PoolInv(gate') /\ LiveWaiters(gate') = {} BY <1>0, <1>9, PoolReset DEF ResetGate
  <2> QED BY <1>0, <1>9, <2>1, BackpressureConstants
          DEF ResetGate, BackpressureInv, RefillIsComing
<1> QED BY <1>1, <1>2, <1>3, <1>4, <1>5, <1>6, <1>7, <1>8, <1>9 DEF BNext, PerformRefill

(* The gate begins full, and quiet.                                        *)
LEMMA BackpressureStart == BInit => BackpressureInv
<1> SUFFICES ASSUME BInit PROVE BackpressureInv OBVIOUS
<1> DEFINE g == NewGate(Capacity)
<1>0. Capacity \in Nat \ {0} BY GateConstants
<1>1. g \in GateType BY <1>0 DEF NewGate, GateType, Status
<1>2. /\ g.held = 0 /\ g.available = Capacity /\ g.waiters = << >>
      /\ g.status = [c \in Calls |-> "new"] /\ g.weight = [c \in Calls |-> 1]
  BY DEF NewGate
<1> HIDE DEF g
<1>3. Holders(g) = {} /\ LiveWaiters(g) = {} BY <1>2 DEF Holders, LiveWaiters
<1>4. QueueInv(g) BY <1>2, <1>3 DEF QueueInv
<1>5. UnitWeights(g) BY <1>2 DEF UnitWeights
<1>6. g.held = Cardinality(Holders(g)) BY <1>2, <1>3, FS_EmptySet
<1>7. PoolInv(g) BY <1>0, <1>1, <1>2, <1>3, <1>4, <1>5, <1>6 DEF PoolInv
<1>8. gate = g BY DEF BInit, g
<1> QED BY <1>3, <1>7, <1>8, BackpressureConstants DEF BInit, BackpressureInv, RefillIsComing

(* GateKeepsFlowing for every capacity, water mark, refill and window, and *)
(* callers of one unit each: nobody waits at the gate without a refill to  *)
(* come, the controller's heartbeat is heard until the gate is quiet, and  *)
(* refills lose no permit.                                                 *)
THEOREM GateAlwaysFlows == Spec => []GateKeepsFlowing
<1> DEFINE I == part = "gate" => BackpressureInv
<1>1. Init => I BY BackpressureStart DEF Init, PrimitiveInit
<1>2. I /\ [Next]_<< part, storeVars, primitiveVars, listenerVars >> => I'
  <2>1. CASE Next BY <2>1, PrimitiveMoves, BackpressureStep
  <2>2. CASE UNCHANGED << part, storeVars, primitiveVars, listenerVars >>
    <3>1. UNCHANGED bvars /\ part' = part BY <2>2, NothingMoves
    <3> QED BY <3>1 DEF bvars, BackpressureInv, RefillIsComing
  <2> QED BY <2>1, <2>2
<1>3. I => GateKeepsFlowing
  BY PoolLedger DEF GateKeepsFlowing, PermitsAreKept, BackpressureInv, PoolInv
<1> QED BY <1>1, <1>2, <1>3, PTL DEF Spec

-----------------------------------------------------------------------------
(***************************************************************************)
(* The event bus.                                                          *)
(***************************************************************************)
Entry == [n : Nat, fn : Listeners, once : BOOLEAN]

\* An emission to a set has still to call an entry; or the set has it.
Owed(b, e) ==
  \/ \E i \in 1..Len(frames) : frames[i].bucket = b /\ e \in frames[i].todo
  \/ async.bucket = b /\ e \in async.flight
Listed(b, e) == (b \in 1..Len(home) /\ e \in members[b]) \/ Owed(b, e)

BusType ==
  /\ made \in Nat /\ home \in Seq(BusKeys)
  /\ buckets \in [BusKeys -> Nat]
  /\ \A k \in BusKeys : buckets[k] # 0 => buckets[k] \in 1..Len(home) /\ home[buckets[k]] = k
  /\ members \in [1..Len(home) -> SUBSET Entry]
  /\ onceMap \in [1..Len(home) -> [Listeners -> Nat]]
  /\ wanted \in [BusKeys -> SUBSET Listeners] /\ swapped \in BOOLEAN
  /\ \A b, f : << b, f >> \in mixed => b \in 1..Len(home)
  /\ fired \subseteq 1..made

EmissionType ==
  /\ frames \in Seq([bucket : Nat, todo : SUBSET Entry])
  /\ \A i \in 1..Len(frames) : frames[i].bucket \in 1..Len(home)
  /\ async = [bucket |-> async.bucket, pos |-> async.pos, flight |-> async.flight,
              limited |-> async.limited]
  /\ async.bucket # 0 => async.bucket \in 1..Len(home)
  /\ async.bucket = 0 => async.flight = {}
  /\ async.flight \subseteq Entry

\* No number is given twice.
Numbered ==
  \A b, e : Listed(b, e) =>
    /\ e \in Entry /\ e.n \in 1..made
    /\ \A c, d : Listed(c, d) /\ d.n = e.n => c = b /\ d = e

\* Where once() is alone with a function, the set has the function once at most, and
\* its _onceMap knows the wrapper.
Single(b, f, mem, once) ==
  /\ \A e, d \in mem[b] : e.fn = f /\ d.fn = f => e = d
  /\ \A e \in mem[b] : e.fn = f => once[b][f] = IF e.once THEN e.n ELSE 0
  /\ once[b][f] # 0 => \E e \in mem[b] : e.fn = f
SingleInv ==
  \A b \in 1..Len(home), f \in Listeners : << b, f >> \notin mixed => Single(b, f, members, onceMap)

\* What should be registered is what the sets of the keys have.
WantedFor(key, mem, want, mix) ==
  \A k \in BusKeys :
    /\ \A f \in want[k] : key[k] # 0 /\ \E e \in mem[key[k]] : e.fn = f
    /\ key[k] # 0 => \A e \in mem[key[k]] : e.fn \in want[k] \/ << key[k], e.fn >> \in mix
WantedInv == swapped \/ WantedFor(buckets, members, wanted, mixed)

WithinLimit(S) == IsFiniteSet(S) /\ (MaxListeners > 0 => Cardinality(S) <= MaxListeners)
LimitInv == \A b \in 1..Len(home) : WithinLimit(members[b])

BusInv ==
  /\ BusType /\ EmissionType /\ Numbered
  /\ SingleInv /\ WantedInv /\ FiredIsGone /\ LimitInv

(* The earliest entry is one of them.                                      *)
LEMMA EarliestIsOne ==
  ASSUME NEW S \in SUBSET Entry, S # {}
  PROVE  Earliest(S) \in S
<1> DEFINE N == {e.n : e \in S}
<1>1. N \in SUBSET Nat /\ N # {} BY DEF Entry
<1>2. PICK n \in N : \A m \in N : n <= m BY <1>1, LeastExists
<1>3. \E e \in S : \A d \in S : e.n <= d.n BY <1>2
<1> QED BY <1>3 DEF Earliest

(* Where nothing new is known, no number is given twice.                   *)
LEMMA FewerListed ==
  ASSUME Numbered, made' = made, \A b, e : Listed(b, e)' => Listed(b, e)
  PROVE  Numbered'
BY DEF Numbered

(* A set that is smaller is within its limit too.                          *)
LEMMA LimitOfFewer ==
  ASSUME NEW S, WithinLimit(S), NEW T \in SUBSET S
  PROVE  WithinLimit(T)
<1>1. IsFiniteSet(T) /\ Cardinality(T) <= Cardinality(S) BY FS_Subset DEF WithinLimit
<1>2. Cardinality(T) \in Nat /\ Cardinality(S) \in Nat BY <1>1, FS_CardinalityType DEF WithinLimit
<1>3. MaxListeners \in Nat BY BusConstants
<1> QED BY <1>1, <1>2, <1>3 DEF WithinLimit

(* delete() takes the only entry of a function that once() is alone with,  *)
(* leaves the other functions alone, and what should be registered still   *)
(* is what the sets have.                                                  *)
LEMMA DropKeeps ==
  ASSUME BusInv, NEW b \in 1..Len(home), NEW f \in Listeners, DropListener(b, f),
         home' = home, mixed \subseteq mixed'
  PROVE  /\ members' \in [1..Len(home) -> SUBSET Entry]
         /\ onceMap' \in [1..Len(home) -> [Listeners -> Nat]]
         /\ wanted' \in [BusKeys -> SUBSET Listeners]
         /\ members'[b] = members[b] \ Removed(b, f)
         /\ \A c \in 1..Len(home) : members'[c] \subseteq members[c]
         /\ << b, f >> \notin mixed => \A e \in members'[b] : e.fn # f
         /\ SingleInv' /\ LimitInv'
         /\ swapped \/ WantedFor(buckets, members', wanted', mixed')
<1>0. /\ members \in [1..Len(home) -> SUBSET Entry] /\ onceMap \in [1..Len(home) -> [Listeners -> Nat]]
      /\ wanted \in [BusKeys -> SUBSET Listeners] /\ home \in Seq(BusKeys) /\ Len(home) \in Nat
      /\ home[b] \in BusKeys /\ buckets \in [BusKeys -> Nat]
      /\ \A k \in BusKeys : buckets[k] # 0 => buckets[k] \in 1..Len(home) /\ home[buckets[k]] = k
  BY DEF BusInv, BusType
<1>1. /\ members' = [members EXCEPT ![b] = members[b] \ Removed(b, f)]
      /\ onceMap' = [onceMap EXCEPT ![b][f] = 0]
      /\ wanted' = IF buckets[home[b]] = b THEN [wanted EXCEPT ![home[b]] = @ \ {f}] ELSE wanted
  BY DEF DropListener
<1>2. /\ members' \in [1..Len(home) -> SUBSET Entry]
      /\ members'[b] = members[b] \ Removed(b, f)
      /\ \A c \in 1..Len(home) : c # b => members'[c] = members[c]
      /\ \A c \in 1..Len(home) : members'[c] \subseteq members[c]
  BY <1>0, <1>1
<1>3. /\ onceMap' \in [1..Len(home) -> [Listeners -> Nat]]
      /\ onceMap'[b][f] = 0
      /\ \A c \in 1..Len(home), g \in Listeners : c # b \/ g # f => onceMap'[c][g] = onceMap[c][g]
  BY <1>0, <1>1
<1>4. /\ wanted' \in [BusKeys -> SUBSET Listeners]
      /\ \A k \in BusKeys : wanted'[k] = IF buckets[home[b]] = b /\ k = home[b] THEN wanted[k] \ {f}
                                         ELSE wanted[k]
  BY <1>0, <1>1
<1>5. \A e \in Removed(b, f) : e \in members[b] /\ e.fn = f BY DEF Removed
<1>6. ASSUME << b, f >> \notin mixed, NEW e \in members[b], e.fn = f
      PROVE  e \in Removed(b, f)
  <2>1. Single(b, f, members, onceMap) BY <1>6 DEF BusInv, SingleInv
  <2>2. onceMap[b][f] = IF e.once THEN e.n ELSE 0 BY <1>6, <2>1 DEF Single
  <2>a. e \in Entry BY <1>0, <1>6
  <2>3. e.once \in BOOLEAN /\ e.n \in Nat BY <2>a DEF Entry
  <2>4. e.once => e.n # 0
    <3>1. Listed(b, e) BY <1>6 DEF Listed
    <3>2. e.n \in 1..made /\ made \in Nat BY <3>1 DEF BusInv, Numbered, BusType
    <3> QED BY <3>2
  <2> QED BY <1>6, <2>2, <2>3, <2>4 DEF Removed
<1>7. << b, f >> \notin mixed => \A e \in members'[b] : e.fn # f
  BY <1>2, <1>6
<1>8. SingleInv'
  <2> SUFFICES ASSUME NEW c \in 1..Len(home), NEW g \in Listeners, << c, g >> \notin mixed'
               PROVE  Single(c, g, members', onceMap')
    BY DEF SingleInv
  <2>1. Single(c, g, members, onceMap) /\ << c, g >> \notin mixed BY DEF BusInv, SingleInv
  <2>2. CASE c = b /\ g = f BY <1>3, <1>7, <2>1, <2>2 DEF Single
  <2>3. CASE c = b /\ g # f
    <3>1. \A e \in members[b] : e.fn = g => e \in members'[b] BY <1>2, <1>5, <2>3
    <3> QED BY <1>2, <1>3, <2>1, <2>3, <3>1 DEF Single
  <2>4. CASE c # b BY <1>2, <1>3, <2>1, <2>4 DEF Single
  <2> QED BY <2>2, <2>3, <2>4
<1>9. LimitInv'
  BY <1>2, LimitOfFewer DEF BusInv, LimitInv
<1>10. ASSUME ~swapped PROVE WantedFor(buckets, members', wanted', mixed')
  <2> SUFFICES ASSUME NEW k \in BusKeys
               PROVE  /\ \A g \in wanted'[k] : buckets[k] # 0 /\ \E e \in members'[buckets[k]] : e.fn = g
                      /\ buckets[k] # 0 => \A e \in members'[buckets[k]] :
                           e.fn \in wanted'[k] \/ << buckets[k], e.fn >> \in mixed'
    BY DEF WantedFor
  <2>1. /\ \A g \in wanted[k] : buckets[k] # 0 /\ \E e \in members[buckets[k]] : e.fn = g
        /\ buckets[k] # 0 => \A e \in members[buckets[k]] :
                           e.fn \in wanted[k] \/ << buckets[k], e.fn >> \in mixed
    BY <1>10 DEF BusInv, WantedInv, WantedFor
  <2>2. CASE buckets[k] = b
    <3>1. home[b] = k /\ b # 0 BY <1>0, <2>2
    <3>2. wanted'[k] = wanted[k] \ {f} BY <1>4, <2>2, <3>1
    <3>3. \A e \in members[b] : e.fn # f => e \in members'[b] BY <1>2, <1>5
    <3> QED BY <1>2, <1>7, <2>1, <2>2, <3>1, <3>2, <3>3
  <2>3. CASE buckets[k] # b
    <3>1. wanted'[k] = wanted[k] BY <1>0, <1>4, <2>3
    <3>2. buckets[k] # 0 => members'[buckets[k]] = members[buckets[k]] BY <1>0, <1>2, <2>3
    <3> QED BY <2>1, <3>1, <3>2
  <2> QED BY <2>2, <2>3
<1> QED BY <1>2, <1>3, <1>4, <1>7, <1>8, <1>9, <1>10

(* What on() and once() find: the set of the key, or a new one.            *)
LEMMA BucketFound ==
  ASSUME BusInv, NEW k \in BusKeys
  PROVE  LET b == Bucket(k)
             N == IF b > Len(home) THEN Len(home) + 1 ELSE Len(home)
         IN  /\ Len(home) \in Nat /\ N \in Nat /\ b \in 1..N /\ b # 0
             /\ buckets[k] = 0 => b = Len(home) + 1 /\ N = b
             /\ buckets[k] # 0 => b = buckets[k] /\ b \in 1..Len(home) /\ N = Len(home) /\ home[b] = k
             /\ \A i \in 1..N : i # b => i \in 1..Len(home)
             /\ \A i \in 1..Len(home) : i \in 1..N
             /\ MembersOf(b) = IF b \in 1..Len(home) THEN members[b] ELSE {}
             /\ OnceOf(b) = IF b \in 1..Len(home) THEN onceMap[b] ELSE [f \in Listeners |-> 0]
             /\ MembersOf(b) \in SUBSET Entry /\ OnceOf(b) \in [Listeners -> Nat]
<1> DEFINE b == Bucket(k)
           N == IF b > Len(home) THEN Len(home) + 1 ELSE Len(home)
<1>0. /\ home \in Seq(BusKeys) /\ Len(home) \in Nat /\ buckets \in [BusKeys -> Nat]
      /\ buckets[k] # 0 => buckets[k] \in 1..Len(home) /\ home[buckets[k]] = k
      /\ members \in [1..Len(home) -> SUBSET Entry]
      /\ onceMap \in [1..Len(home) -> [Listeners -> Nat]]
  BY DEF BusInv, BusType
<1>1. DOMAIN members = 1..Len(home) /\ DOMAIN onceMap = 1..Len(home) BY <1>0
<1>2. /\ Len(home) \in Nat /\ N \in Nat /\ b \in 1..N /\ b # 0
      /\ buckets[k] = 0 => b = Len(home) + 1 /\ N = b
      /\ buckets[k] # 0 => b = buckets[k] /\ b \in 1..Len(home) /\ N = Len(home) /\ home[b] = k
      /\ \A i \in 1..N : i # b => i \in 1..Len(home)
      /\ \A i \in 1..Len(home) : i \in 1..N
      /\ MembersOf(b) = IF b \in 1..Len(home) THEN members[b] ELSE {}
      /\ OnceOf(b) = IF b \in 1..Len(home) THEN onceMap[b] ELSE [f \in Listeners |-> 0]
      /\ MembersOf(b) \in SUBSET Entry /\ OnceOf(b) \in [Listeners -> Nat]
  <2>2. CASE buckets[k] = 0
    <3>1. b = Len(home) + 1 /\ N = b BY <1>0, <2>2 DEF Bucket
    <3>2. b \notin 1..Len(home) BY <1>0, <3>1
    <3>3. MembersOf(b) = {} /\ OnceOf(b) = [f \in Listeners |-> 0]
      BY <1>1, <3>2 DEF MembersOf, OnceOf
    <3> HIDE DEF b, N
    <3>4. [f \in Listeners |-> 0] \in [Listeners -> Nat] OBVIOUS
    <3>5. /\ N \in Nat /\ b \in 1..N /\ b # 0
          /\ \A i \in 1..N : i # b => i \in 1..Len(home)
          /\ \A i \in 1..Len(home) : i \in 1..N
      BY <1>0, <3>1
    <3> QED BY <1>0, <2>2, <3>1, <3>2, <3>3, <3>4, <3>5
  <2>3. CASE buckets[k] # 0
    <3>1. b = buckets[k] BY <2>3 DEF Bucket
    <3>2. b \in 1..Len(home) /\ home[b] = k BY <1>0, <2>3, <3>1
    <3>3. N = Len(home) BY <1>0, <3>2
    <3>4. MembersOf(b) = members[b] /\ OnceOf(b) = onceMap[b]
      BY <1>1, <3>2 DEF MembersOf, OnceOf
    <3>5. members[b] \in SUBSET Entry /\ onceMap[b] \in [Listeners -> Nat] BY <1>0, <3>2
    <3> HIDE DEF b, N
    <3> QED BY <1>0, <2>3, <3>1, <3>2, <3>3, <3>4, <3>5
  <2> QED BY <2>2, <2>3
<1> QED BY <1>2

(* on() and once().                                                        *)
LEMMA RegisterKeeps ==
  ASSUME BusInv, NEW k \in BusKeys, NEW f \in Listeners, NEW once \in BOOLEAN, Register(k, f, once)
  PROVE  BusInv'
<1> DEFINE b == Bucket(k)
           N == IF b > Len(home) THEN Len(home) + 1 ELSE Len(home)
           mb == MembersOf(b)
           ob == OnceOf(b)
           new == once \/ ~(\E e \in mb : e.fn = f /\ ~e.once)
           entry == [n |-> made', fn |-> f, once |-> once]
           add == IF new THEN {entry} ELSE {}
<1>0. /\ made \in Nat /\ home \in Seq(BusKeys) /\ buckets \in [BusKeys -> Nat]
      /\ \A j \in BusKeys : buckets[j] # 0 => buckets[j] \in 1..Len(home) /\ home[buckets[j]] = j
      /\ members \in [1..Len(home) -> SUBSET Entry]
      /\ onceMap \in [1..Len(home) -> [Listeners -> Nat]]
      /\ wanted \in [BusKeys -> SUBSET Listeners] /\ swapped \in BOOLEAN
      /\ \A c, g : << c, g >> \in mixed => c \in 1..Len(home)
      /\ fired \subseteq 1..made
  BY DEF BusInv, BusType
<1>1. /\ Len(home) \in Nat /\ N \in Nat /\ b \in 1..N /\ b # 0
      /\ buckets[k] = 0 => b = Len(home) + 1 /\ N = b
      /\ buckets[k] # 0 => b = buckets[k] /\ b \in 1..Len(home) /\ N = Len(home) /\ home[b] = k
      /\ \A i \in 1..N : i # b => i \in 1..Len(home)
      /\ \A i \in 1..Len(home) : i \in 1..N
      /\ mb = IF b \in 1..Len(home) THEN members[b] ELSE {}
      /\ ob = IF b \in 1..Len(home) THEN onceMap[b] ELSE [g \in Listeners |-> 0]
      /\ mb \in SUBSET Entry /\ ob \in [Listeners -> Nat]
  BY BucketFound
<1>2. /\ MaxListeners > 0 => Cardinality(mb) < MaxListeners
      /\ buckets' = [buckets EXCEPT ![k] = b]
      /\ home' = IF b > Len(home) THEN Append(home, k) ELSE home
      /\ made' = IF new THEN made + 1 ELSE made
      /\ members' = [i \in 1..Len(home') |-> IF i # b THEN members[i] ELSE mb \cup add]
      /\ onceMap' = [i \in 1..Len(home') |->
           IF i # b THEN onceMap[i] ELSE [ob EXCEPT ![f] = IF once THEN made' ELSE @]]
      /\ mixed' = IF \E e \in mb : e.fn = f /\ (once \/ e.once)
                  THEN mixed \cup {<< b, f >>} ELSE mixed
      /\ wanted' = [wanted EXCEPT ![k] = @ \cup {f}]
      /\ UNCHANGED << frames, async, fired, swapped >>
  BY DEF Register
<1> HIDE DEF b, mb, ob
<1>3. /\ home' \in Seq(BusKeys) /\ Len(home') = N
      /\ \A i \in 1..Len(home) : home'[i] = home[i]
      /\ home'[b] = k
  <2>1. CASE b > Len(home)
    <3>1. home' = Append(home, k) BY <1>2, <2>1
    <3>2. b = Len(home) + 1 BY <1>1, <2>1
    <3> QED BY <1>0, <1>1, <2>1, <3>1, <3>2
  <2>2. CASE ~(b > Len(home))
    <3>1. home' = home BY <1>2, <2>2
    <3>2. buckets[k] # 0 BY <1>1, <2>2
    <3> QED BY <1>0, <1>1, <2>2, <3>1, <3>2
  <2> QED BY <2>1, <2>2
<1>4. N \in Nat /\ made' \in Nat /\ (new => made' = made + 1) /\ (~new => made' = made)
  BY <1>0, <1>1, <1>2
<1> HIDE DEF N
<1>5. add \in SUBSET Entry /\ \A e \in add : e = entry /\ e.n = made + 1 /\ e.fn = f /\ e.once = once /\ new
  BY <1>4 DEF Entry
<1>6. /\ members' \in [1..N -> SUBSET Entry]
      /\ \A i \in 1..N : i # b => members'[i] = members[i]
      /\ members'[b] = mb \cup add
  <2>1. mb \cup add \in SUBSET Entry BY <1>1, <1>5
  <2> HIDE DEF add
  <2>2. \A i \in 1..N : i # b => members[i] \in SUBSET Entry BY <1>0, <1>1
  <2>3. members' = [i \in 1..N |-> IF i # b THEN members[i] ELSE mb \cup add] BY <1>2, <1>3
  <2> QED BY <1>1, <2>1, <2>2, <2>3
<1>7. /\ onceMap' \in [1..N -> [Listeners -> Nat]]
      /\ \A i \in 1..N : i # b => onceMap'[i] = onceMap[i]
      /\ \A g \in Listeners : onceMap'[b][g] = IF g = f /\ once THEN made' ELSE ob[g]
  <2> DEFINE o == [ob EXCEPT ![f] = IF once THEN made' ELSE @]
  <2>1. o \in [Listeners -> Nat] BY <1>1, <1>4
  <2>2. \A g \in Listeners : o[g] = IF g = f /\ once THEN made' ELSE ob[g] BY <1>1
  <2>3. \A i \in 1..N : i # b => onceMap[i] \in [Listeners -> Nat] BY <1>0, <1>1
  <2>4. onceMap' = [i \in 1..N |-> IF i # b THEN onceMap[i] ELSE o] BY <1>2, <1>3
  <2> HIDE DEF o
  <2> QED BY <1>1, <2>1, <2>2, <2>3, <2>4
<1>8. /\ \A c, g : << c, g >> \in mixed' => << c, g >> \in mixed \/ (c = b /\ g = f)
      /\ mixed \subseteq mixed'
      /\ << b, f >> \notin mixed' => << b, f >> \notin mixed /\ \A e \in mb : e.fn = f => ~once /\ ~e.once
  BY <1>2
<1>9. /\ buckets' \in [BusKeys -> Nat] /\ buckets'[k] = b
      /\ \A j \in BusKeys : j # k => buckets'[j] = buckets[j]
  BY <1>0, <1>1, <1>2
<1>10. /\ wanted' \in [BusKeys -> SUBSET Listeners] /\ wanted'[k] = wanted[k] \cup {f}
       /\ \A j \in BusKeys : j # k => wanted'[j] = wanted[j]
  BY <1>0, <1>2
<1>11. BusType'
  <2>1. \A j \in BusKeys : buckets'[j] # 0 => buckets'[j] \in 1..N /\ home'[buckets'[j]] = j
    <3> SUFFICES ASSUME NEW j \in BusKeys, buckets'[j] # 0
                 PROVE  buckets'[j] \in 1..N /\ home'[buckets'[j]] = j
      OBVIOUS
    <3>1. CASE j = k BY <1>1, <1>3, <1>9, <3>1
    <3>2. CASE j # k
      <4>1. buckets'[j] = buckets[j] BY <1>9, <3>2
      <4>2. buckets[j] \in 1..Len(home) /\ home[buckets[j]] = j BY <1>0, <4>1
      <4>3. buckets[j] \in 1..N /\ home'[buckets[j]] = home[buckets[j]] BY <1>1, <1>3, <4>2
      <4> QED BY <4>1, <4>2, <4>3
    <3> QED BY <3>1, <3>2
  <2>2. \A c, g : << c, g >> \in mixed' => c \in 1..N BY <1>0, <1>1, <1>8
  <2>3. fired' \subseteq 1..made' BY <1>0, <1>2, <1>4
  <2>4. swapped' \in BOOLEAN BY <1>0, <1>2
  <2> QED BY <1>3, <1>4, <1>6, <1>7, <1>9, <1>10, <2>1, <2>2, <2>3, <2>4 DEF BusType
<1>12. EmissionType'
  BY <1>1, <1>2, <1>3 DEF BusInv, EmissionType
<1>13. Numbered'
  <2>1. ASSUME NEW c, NEW e, Listed(c, e)' PROVE Listed(c, e) \/ (c = b /\ e \in add)
    <3>1. CASE c \in 1..Len(home') /\ e \in members'[c]
      <4>1. c \in 1..N BY <1>3, <3>1
      <4>2. CASE c # b
        <5>1. e \in members[c] /\ c \in 1..Len(home) BY <1>1, <1>6, <3>1, <4>1, <4>2
        <5> QED BY <5>1 DEF Listed
      <4>3. CASE c = b
        <5>1. e \in mb \/ e \in add BY <1>6, <3>1, <4>3
        <5>2. e \in mb => b \in 1..Len(home) /\ e \in members[b] BY <1>1
        <5> QED BY <4>3, <5>1, <5>2 DEF Listed
      <4> QED BY <4>2, <4>3
    <3>2. CASE ~(c \in 1..Len(home') /\ e \in members'[c])
      BY <1>2, <2>1, <3>2 DEF Listed, Owed
    <3> QED BY <3>1, <3>2
  <2>2. Numbered BY DEF BusInv
  <2>3. \A c, e : Listed(c, e) => e \in Entry /\ e.n \in 1..made BY <2>2 DEF Numbered
  <2>4. ASSUME NEW c, NEW e, Listed(c, e)' PROVE e \in Entry /\ e.n \in 1..made'
    <3>1. CASE Listed(c, e) BY <1>0, <1>4, <2>3, <3>1
    <3>2. CASE e \in add BY <1>0, <1>4, <1>5, <3>2
    <3> QED BY <2>1, <2>4, <3>1, <3>2
  <2>5. ASSUME NEW c, NEW e, Listed(c, e)', NEW d, NEW g, Listed(d, g)', g.n = e.n PROVE d = c /\ g = e
    <3>1. CASE Listed(c, e) /\ Listed(d, g) BY <2>2, <2>5, <3>1 DEF Numbered
    <3>2. CASE Listed(c, e) /\ g \in add BY <1>0, <1>5, <2>3, <2>5, <3>2
    <3>3. CASE e \in add /\ Listed(d, g) BY <1>0, <1>5, <2>3, <2>5, <3>3
    <3>4. CASE c = b /\ e \in add /\ d = b /\ g \in add BY <1>5, <3>4
    <3> QED BY <2>1, <2>5, <3>1, <3>2, <3>3, <3>4
  <2> QED BY <2>4, <2>5 DEF Numbered
<1>14. SingleInv'
  <2> SUFFICES ASSUME NEW c \in 1..N, NEW g \in Listeners, << c, g >> \notin mixed'
               PROVE  Single(c, g, members', onceMap')
    BY <1>3 DEF SingleInv
  <2>0. << c, g >> \notin mixed BY <1>8
  <2>1. CASE c # b
    <3>1. c \in 1..Len(home) BY <1>1, <2>1
    <3>2. Single(c, g, members, onceMap) BY <2>0, <3>1 DEF BusInv, SingleInv
    <3> QED BY <1>6, <1>7, <2>1, <3>2 DEF Single
  <2>2. ASSUME c = b
        PROVE  /\ \A e, d \in mb : e.fn = g /\ d.fn = g => e = d
               /\ \A e \in mb : e.fn = g => ob[g] = IF e.once THEN e.n ELSE 0
               /\ ob[g] # 0 => \E e \in mb : e.fn = g
    <3>1. CASE b \in 1..Len(home)
      <4>1. Single(b, g, members, onceMap) BY <2>0, <2>2, <3>1 DEF BusInv, SingleInv
      <4> QED BY <1>1, <3>1, <4>1 DEF Single
    <3>2. CASE b \notin 1..Len(home) BY <1>1, <3>2
    <3> QED BY <3>1, <3>2
  <2>3. CASE c = b /\ g # f
    <3>1. \A e \in members'[b] : e.fn = g => e \in mb BY <1>5, <1>6, <2>3
    <3>2. mb \subseteq members'[b] /\ onceMap'[b][g] = ob[g] BY <1>6, <1>7, <2>3
    <3> QED BY <2>2, <2>3, <3>1, <3>2 DEF Single
  <2>4. CASE c = b /\ g = f
    <3>1. \A e \in mb : e.fn = f => ~once /\ ~e.once BY <1>8, <2>4
    <3>2. CASE \E e \in mb : e.fn = f
      <4>1. ~once /\ \E e \in mb : e.fn = f /\ ~e.once BY <3>1, <3>2
      <4>2. ~new BY <4>1
      <4>3. add = {} BY <4>2
      <4> HIDE DEF add, new
      <4>4. members'[b] = mb /\ onceMap'[b][f] = ob[f] BY <1>6, <1>7, <4>1, <4>3
      <4> QED BY <2>2, <2>4, <4>4 DEF Single
    <3>3. CASE ~(\E e \in mb : e.fn = f)
      <4>1. new BY <3>3
      <4>2. add = {entry} BY <4>1
      <4>3. \A e \in members'[b] : e.fn = f => e = entry BY <1>6, <3>3, <4>2
      <4>4. entry \in members'[b] /\ entry.fn = f /\ entry.n = made' /\ entry.once = once
        BY <1>6, <4>2
      <4>5. ob[f] = 0 BY <2>2, <2>4, <3>3
      <4>6. onceMap'[b][f] = IF once THEN made' ELSE 0 BY <1>7, <4>5
      <4> HIDE DEF entry, add, new
      <4> QED BY <2>4, <4>3, <4>4, <4>6 DEF Single
    <3> QED BY <3>2, <3>3
  <2> QED BY <2>1, <2>3, <2>4
<1>15. WantedInv'
  <2> SUFFICES ASSUME ~swapped PROVE WantedFor(buckets', members', wanted', mixed')
    BY <1>2 DEF WantedInv
  <2>0. WantedFor(buckets, members, wanted, mixed) BY DEF BusInv, WantedInv
  <2> SUFFICES ASSUME NEW j \in BusKeys
               PROVE  /\ \A g \in wanted'[j] : buckets'[j] # 0 /\ \E e \in members'[buckets'[j]] : e.fn = g
                      /\ buckets'[j] # 0 => \A e \in members'[buckets'[j]] :
                           e.fn \in wanted'[j] \/ << buckets'[j], e.fn >> \in mixed'
    BY DEF WantedFor
  <2>1. /\ \A g \in wanted[j] : buckets[j] # 0 /\ \E e \in members[buckets[j]] : e.fn = g
        /\ buckets[j] # 0 => \A e \in members[buckets[j]] :
                           e.fn \in wanted[j] \/ << buckets[j], e.fn >> \in mixed
    BY <2>0 DEF WantedFor
  <2>2. CASE j # k
    <3>1. buckets'[j] = buckets[j] /\ wanted'[j] = wanted[j] BY <1>9, <1>10, <2>2
    <3>2. ASSUME buckets[j] # 0 PROVE members'[buckets[j]] = members[buckets[j]]
      <4>1. buckets[j] \in 1..Len(home) /\ home[buckets[j]] = j BY <1>0, <3>2
      <4>2. buckets[j] # b BY <1>1, <2>2, <4>1
      <4> QED BY <1>1, <1>6, <4>1, <4>2
    <3> QED BY <1>8, <2>1, <3>1, <3>2
  <2>3. CASE j = k
    <3>1. \A g \in wanted[k] : \E e \in mb : e.fn = g BY <1>1, <2>1, <2>3
    <3>2. \A e \in mb : e.fn \in wanted[k] \/ << b, e.fn >> \in mixed BY <1>1, <2>1, <2>3
    <3>3. \E e \in mb \cup add : e.fn = f
      <4>1. CASE new
        <5>1. entry \in add /\ entry.fn = f BY <4>1
        <5> QED BY <5>1
      <4>2. CASE ~new BY <4>2
      <4> QED BY <4>1, <4>2
    <3>4. \A e \in add : e.fn = f BY <1>5
    <3> HIDE DEF add
    <3> QED BY <1>1, <1>6, <1>8, <1>9, <1>10, <2>3, <3>1, <3>2, <3>3, <3>4
  <2> QED BY <2>2, <2>3
<1>16. FiredIsGone'
  <2>1. DOMAIN members' = 1..N BY <1>6
  <2>2. FiredIsGone /\ DOMAIN members = 1..Len(home) BY <1>0 DEF BusInv
  <2> SUFFICES ASSUME NEW c \in 1..N, NEW e \in members'[c], e.once, e.n \in fired
               PROVE  << c, e.fn >> \in mixed'
    BY <1>2, <2>1 DEF FiredIsGone
  <2>3. CASE c # b BY <1>1, <1>6, <1>8, <2>2, <2>3 DEF FiredIsGone
  <2>4. CASE c = b /\ e \in mb BY <1>1, <1>8, <2>2, <2>4 DEF FiredIsGone
  <2>5. CASE e \in add
    <3>1. e.n = made + 1 BY <1>5, <2>5
    <3> QED BY <1>0, <3>1
  <2> QED BY <1>6, <2>3, <2>4, <2>5
<1>17. LimitInv'
  <2> SUFFICES ASSUME NEW c \in 1..N PROVE WithinLimit(members'[c])
    BY <1>3 DEF LimitInv
  <2>1. CASE c # b BY <1>1, <1>6, <2>1 DEF BusInv, LimitInv
  <2>2. CASE c = b
    <3>0. MaxListeners > 0 => Cardinality(mb) < MaxListeners BY <1>2
    <3>1. IsFiniteSet(mb)
      <4>1. b \in 1..Len(home) => IsFiniteSet(members[b]) BY DEF BusInv, LimitInv, WithinLimit
      <4> QED BY <1>1, <4>1, FS_EmptySet
    <3>2. Cardinality(mb) \in Nat /\ MaxListeners \in Nat BY <3>1, BusConstants, FS_CardinalityType
    <3>3. CASE add = {}
      <4>1. members'[b] = mb BY <1>6, <3>3
      <4> QED BY <2>2, <3>0, <3>1, <3>2, <4>1 DEF WithinLimit
    <3>4. CASE add = {entry}
      <4>1. members'[b] = mb \cup {entry} BY <1>6, <3>4
      <4> HIDE DEF entry
      <4>2. IsFiniteSet(mb \cup {entry}) /\ Cardinality(mb \cup {entry}) <= Cardinality(mb) + 1
        BY <3>1, OneMore
      <4>3. Cardinality(mb \cup {entry}) \in Nat BY <4>2, FS_CardinalityType
      <4> QED BY <2>2, <3>0, <3>2, <4>1, <4>2, <4>3 DEF WithinLimit
    <3> QED BY <3>3, <3>4
  <2> QED BY <2>1, <2>2
<1> QED BY <1>11, <1>12, <1>13, <1>14, <1>15, <1>16, <1>17 DEF BusInv

(* A step that only takes an entry out of a set, and the set away with the *)
(* last one.                                                               *)
LEMMA DropHolds ==
  ASSUME BusInv, NEW b \in 1..Len(home), NEW f \in Listeners, DropListener(b, f),
         home' = home, made' = made, swapped' = swapped,
         fired' \subseteq 1..made,
         mixed' = mixed \/ mixed' = mixed \cup {<< b, f >>},
         EmissionType', \A c, e : Owed(c, e)' => Listed(c, e),
         \/ buckets' = buckets
         \/ /\ members'[b] = {} /\ buckets[home[b]] = b
            /\ buckets' = [buckets EXCEPT ![home[b]] = 0],
         FiredIsGone'
  PROVE  BusInv'
<1>0. /\ made \in Nat /\ home \in Seq(BusKeys) /\ buckets \in [BusKeys -> Nat]
      /\ \A j \in BusKeys : buckets[j] # 0 => buckets[j] \in 1..Len(home) /\ home[buckets[j]] = j
      /\ swapped \in BOOLEAN /\ home[b] \in BusKeys
      /\ \A c, g : << c, g >> \in mixed => c \in 1..Len(home)
  BY DEF BusInv, BusType
<1>1. mixed \subseteq mixed' OBVIOUS
<1>2. /\ members' \in [1..Len(home) -> SUBSET Entry]
      /\ onceMap' \in [1..Len(home) -> [Listeners -> Nat]]
      /\ wanted' \in [BusKeys -> SUBSET Listeners]
      /\ \A c \in 1..Len(home) : members'[c] \subseteq members[c]
      /\ SingleInv' /\ LimitInv'
      /\ swapped \/ WantedFor(buckets, members', wanted', mixed')
  BY <1>1, DropKeeps
<1>3. Numbered'
  <2>1. \A c, e : Listed(c, e)' => Listed(c, e) BY <1>2 DEF Listed
  <2> QED BY <2>1, FewerListed DEF BusInv
<1>4. /\ buckets' \in [BusKeys -> Nat]
      /\ \A j \in BusKeys : buckets'[j] # 0 => buckets'[j] = buckets[j]
  BY <1>0
<1>5. BusType'
  <2>1. \A j \in BusKeys : buckets'[j] # 0 => buckets'[j] \in 1..Len(home) /\ home[buckets'[j]] = j
    BY <1>0, <1>4
  <2>2. \A c, g : << c, g >> \in mixed' => c \in 1..Len(home) BY <1>0
  <2> QED BY <1>0, <1>2, <1>4, <2>1, <2>2 DEF BusType
<1>6. WantedInv'
  <2> SUFFICES ASSUME ~swapped PROVE WantedFor(buckets', members', wanted', mixed')
    BY DEF WantedInv
  <2>1. WantedFor(buckets, members', wanted', mixed') BY <1>2
  <2>2. CASE buckets' = buckets BY <2>1, <2>2
  <2>3. CASE /\ members'[b] = {} /\ buckets[home[b]] = b
             /\ buckets' = [buckets EXCEPT ![home[b]] = 0]
    <3>1. wanted'[home[b]] = {} BY <1>0, <2>1, <2>3 DEF WantedFor
    <3>2. buckets'[home[b]] = 0 /\ \A j \in BusKeys : j # home[b] => buckets'[j] = buckets[j]
      BY <1>0, <2>3
    <3> QED BY <2>1, <3>1, <3>2 DEF WantedFor
  <2> QED BY <2>2, <2>3
<1> QED BY <1>2, <1>3, <1>5, <1>6 DEF BusInv

(* A listener is called: a wrapper of once() is out of its set by then.    *)
LEMMA NotifyHolds ==
  ASSUME BusInv, NEW b \in 1..Len(home), NEW e, Listed(b, e), Notify(b, e),
         home' = home, made' = made, swapped' = swapped, buckets' = buckets,
         EmissionType', \A c, d : Owed(c, d)' => Listed(c, d)
  PROVE  BusInv'
<1>0. /\ fired \subseteq 1..made /\ members \in [1..Len(home) -> SUBSET Entry]
      /\ FiredIsGone /\ Numbered
  BY DEF BusInv, BusType
<1>1. e \in Entry /\ e.n \in 1..made BY <1>0 DEF Numbered
<1>2. e.fn \in Listeners /\ e.once \in BOOLEAN BY <1>1 DEF Entry
<1>3. CASE e.once
  <2>1. /\ DropListener(b, e.fn) /\ fired' = fired \cup {e.n}
        /\ mixed' = IF e.n \in fired THEN mixed \cup {<< b, e.fn >>} ELSE mixed
    BY <1>3 DEF Notify
  <2>2. mixed \subseteq mixed' BY <2>1
  <2>3. /\ members' \in [1..Len(home) -> SUBSET Entry]
        /\ \A c \in 1..Len(home) : members'[c] \subseteq members[c]
        /\ << b, e.fn >> \notin mixed => \A d \in members'[b] : d.fn # e.fn
    BY <1>2, <2>1, <2>2, DropKeeps
  <2>4. FiredIsGone'
    <3>1. DOMAIN members' = 1..Len(home) /\ DOMAIN members = 1..Len(home) BY <1>0, <2>3
    <3> SUFFICES ASSUME NEW c \in 1..Len(home), NEW d \in members'[c], d.once, d.n \in fired'
                 PROVE  << c, d.fn >> \in mixed'
      BY <3>1 DEF FiredIsGone
    <3>2. d \in members[c] BY <2>3
    <3>3. CASE d.n \in fired BY <1>0, <2>2, <3>1, <3>2, <3>3 DEF FiredIsGone
    <3>4. CASE d.n = e.n
      <4>1. Listed(c, d) BY <3>2 DEF Listed
      <4>2. c = b /\ d = e BY <1>0, <3>4, <4>1 DEF Numbered
      <4>3. << b, e.fn >> \in mixed BY <2>3, <4>2
      <4> QED BY <2>2, <4>2, <4>3
    <3> QED BY <2>1, <3>3, <3>4
  <2>5. fired' \subseteq 1..made BY <1>0, <1>1, <2>1
  <2>6. mixed' = mixed \/ mixed' = mixed \cup {<< b, e.fn >>} BY <2>1
  <2> QED BY <1>2, <2>1, <2>4, <2>5, <2>6, DropHolds
<1>4. CASE ~e.once
  <2>1. UNCHANGED << members, onceMap, wanted, fired, mixed >> BY <1>4 DEF Notify
  <2>2. \A c, d : Listed(c, d)' => Listed(c, d) BY <2>1 DEF Listed
  <2>3. Numbered' BY <1>0, <2>2, FewerListed
  <2> QED BY <2>1, <2>3 DEF BusInv, BusType, SingleInv, WantedInv, FiredIsGone, LimitInv
<1> QED BY <1>2, <1>3, <1>4

(* A step that changes emissions only, and which sets the keys have.       *)
LEMMA EmissionHolds ==
  ASSUME BusInv, UNCHANGED << home, members, onceMap, made, wanted, fired, mixed >>,
         EmissionType', \A c, d : Owed(c, d)' => Listed(c, d),
         \/ buckets' = buckets /\ swapped' = swapped
         \/ \E b \in 1..Len(home) :
              /\ buckets' = TakesAway(b)
              /\ swapped' = (swapped \/ (members[b] = {} /\ buckets[home[b]] \notin {0, b}))
  PROVE  BusInv'
<1>0. /\ home \in Seq(BusKeys) /\ buckets \in [BusKeys -> Nat] /\ swapped \in BOOLEAN
      /\ \A j \in BusKeys : buckets[j] # 0 => buckets[j] \in 1..Len(home) /\ home[buckets[j]] = j
      /\ \A b \in 1..Len(home) : home[b] \in BusKeys
  BY DEF BusInv, BusType
<1>1. \A c, d : Listed(c, d)' => Listed(c, d) BY DEF Listed
<1>2. Numbered' BY <1>1, FewerListed DEF BusInv
<1>3. /\ buckets' \in [BusKeys -> Nat] /\ swapped' \in BOOLEAN /\ (swapped => swapped')
      /\ \A j \in BusKeys : buckets'[j] # 0 => buckets'[j] = buckets[j]
  <2>1. CASE buckets' = buckets /\ swapped' = swapped BY <1>0, <2>1
  <2>2. ASSUME NEW b \in 1..Len(home), buckets' = TakesAway(b),
               swapped' = (swapped \/ (members[b] = {} /\ buckets[home[b]] \notin {0, b}))
        PROVE  /\ buckets' \in [BusKeys -> Nat] /\ swapped' \in BOOLEAN /\ (swapped => swapped')
               /\ \A j \in BusKeys : buckets'[j] # 0 => buckets'[j] = buckets[j]
    <3>1. swapped' \in BOOLEAN /\ (swapped => swapped') BY <2>2
    <3>2. buckets' = buckets \/ buckets' = [buckets EXCEPT ![home[b]] = 0] BY <2>2 DEF TakesAway
    <3> QED BY <1>0, <3>1, <3>2
  <2> QED BY <2>1, <2>2
<1>4. BusType'
  BY <1>0, <1>3 DEF BusInv, BusType
<1>5. WantedInv'
  <2> SUFFICES ASSUME ~swapped' PROVE WantedFor(buckets', members, wanted, mixed)
    BY DEF WantedInv
  <2>1. WantedFor(buckets, members, wanted, mixed) BY <1>3 DEF BusInv, WantedInv
  <2>2. CASE buckets' = buckets BY <2>1, <2>2
  <2>3. CASE buckets' # buckets
    <3>1. PICK b \in 1..Len(home) :
              /\ buckets' = TakesAway(b)
              /\ swapped' = (swapped \/ (members[b] = {} /\ buckets[home[b]] \notin {0, b}))
      BY <2>3
    <3>2. members[b] = {} /\ buckets' = [buckets EXCEPT ![home[b]] = 0] BY <2>3, <3>1 DEF TakesAway
    <3>3. buckets[home[b]] = 0 \/ buckets[home[b]] = b BY <3>1, <3>2
    <3>4. wanted[home[b]] = {} BY <1>0, <2>1, <3>2, <3>3 DEF WantedFor
    <3>5. buckets'[home[b]] = 0 /\ \A j \in BusKeys : j # home[b] => buckets'[j] = buckets[j]
      BY <1>0, <3>2
    <3> QED BY <2>1, <3>4, <3>5 DEF WantedFor
  <2> QED BY <2>2, <2>3
<1> QED BY <1>2, <1>4, <1>5 DEF BusInv, SingleInv, FiredIsGone, LimitInv

(* What the emissions are when one begins, goes on, or ends.               *)
LEMMA FrameOnTop ==
  ASSUME BusInv, home' = home, async' = async, NEW b \in 1..Len(home),
         frames' = << EmissionOf(b) >> \o frames
  PROVE  EmissionType' /\ \A c, d : Owed(c, d)' => Listed(c, d)
<1> DEFINE F == [bucket : Nat, todo : SUBSET Entry]
           x == EmissionOf(b)
<1>0. /\ frames \in Seq(F) /\ Len(frames) \in Nat /\ members[b] \in SUBSET Entry
      /\ \A i \in 1..Len(frames) : frames[i].bucket \in 1..Len(home)
  BY DEF BusInv, BusType, EmissionType
<1>1. x \in F /\ x.bucket = b /\ x.todo = members[b]
  <2>1. b \in Nat BY DEF BusInv, BusType
  <2> QED BY <1>0, <2>1 DEF EmissionOf
<1> HIDE DEF x, F
<1>2. << x >> \in Seq(F) /\ Len(<< x >>) = 1 /\ << x >>[1] = x BY <1>1
<1>3. /\ frames' \in Seq(F) /\ Len(frames') = Len(frames) + 1
      /\ \A i \in 1..Len(frames') : frames'[i] = IF i <= 1 THEN x ELSE frames[i - 1]
  <2>1. frames' = << x >> \o frames BY DEF x
  <2>2. /\ << x >> \o frames \in Seq(F)
        /\ Len(<< x >> \o frames) = Len(<< x >>) + Len(frames)
        /\ \A i \in 1..Len(<< x >>) + Len(frames) :
             (<< x >> \o frames)[i] = IF i <= Len(<< x >>) THEN << x >>[i] ELSE frames[i - Len(<< x >>)]
    BY <1>0, <1>2, ConcatProperties
  <2> QED BY <1>0, <1>2, <2>1, <2>2
<1>4. \A i \in 1..Len(frames') : frames'[i] = x \/ \E j \in 1..Len(frames) : frames'[i] = frames[j]
  <2> SUFFICES ASSUME NEW i \in 1..Len(frames'), ~(i <= 1)
               PROVE  \E j \in 1..Len(frames) : frames'[i] = frames[j]
    BY <1>3
  <2>1. i - 1 \in 1..Len(frames) /\ frames'[i] = frames[i - 1] BY <1>0, <1>3
  <2> QED BY <2>1
<1>5. EmissionType'
  BY <1>0, <1>1, <1>3, <1>4 DEF BusInv, EmissionType, F
<1>6. ASSUME NEW c, NEW d, Owed(c, d)' PROVE Listed(c, d)
  <2>1. CASE async.bucket = c /\ d \in async.flight BY <2>1 DEF Listed, Owed
  <2>2. CASE \E i \in 1..Len(frames') : frames'[i].bucket = c /\ d \in frames'[i].todo
    BY <1>1, <1>4, <2>2 DEF Listed, Owed
  <2> QED BY <1>6, <2>1, <2>2 DEF Owed
<1> QED BY <1>5, <1>6

(* The innermost emission is replaced by one to the same set, of which     *)
(* less has to be called, or to another set; or it is over.                *)
LEMMA FrameGoesOn ==
  ASSUME BusInv, home' = home, async' = async, frames # << >>, NEW x,
         x \in [bucket : Nat, todo : SUBSET Entry], x.bucket \in 1..Len(home),
         \A d \in x.todo : Listed(x.bucket, d),
         frames' = [frames EXCEPT ![1] = x] \/ frames' = Tail(frames)
  PROVE  EmissionType' /\ \A c, d : Owed(c, d)' => Listed(c, d)
<1> DEFINE F == [bucket : Nat, todo : SUBSET Entry]
<1>0. /\ frames \in Seq(F) /\ Len(frames) \in Nat /\ Len(frames) >= 1
      /\ \A i \in 1..Len(frames) : frames[i].bucket \in 1..Len(home)
  BY DEF BusInv, BusType, EmissionType
<1>1. x \in F OBVIOUS
<1> HIDE DEF F
<1>2. /\ frames' \in Seq(F) /\ Len(frames') \in Nat
      /\ \A i \in 1..Len(frames') : frames'[i] = x \/ \E j \in 1..Len(frames) : frames'[i] = frames[j]
  <2>1. CASE frames' = [frames EXCEPT ![1] = x] BY <1>0, <1>1, <2>1
  <2>2. CASE frames' = Tail(frames)
    <3>1. /\ Tail(frames) \in Seq(F) /\ Len(Tail(frames)) = Len(frames) - 1
          /\ \A i \in 1..Len(Tail(frames)) : Tail(frames)[i] = frames[i + 1]
      BY <1>0, HeadTailProperties
    <3>2. \A i \in 1..Len(Tail(frames)) : i + 1 \in 1..Len(frames) BY <1>0, <3>1
    <3> QED BY <1>0, <2>2, <3>1, <3>2
  <2> QED BY <2>1, <2>2
<1>3. EmissionType' BY <1>0, <1>2 DEF BusInv, EmissionType, F
<1>4. ASSUME NEW c, NEW d, Owed(c, d)' PROVE Listed(c, d)
  <2>1. CASE async.bucket = c /\ d \in async.flight BY <2>1 DEF Listed, Owed
  <2>2. CASE \E i \in 1..Len(frames') : frames'[i].bucket = c /\ d \in frames'[i].todo
    BY <1>2, <2>2 DEF Listed, Owed
  <2> QED BY <1>4, <2>1, <2>2 DEF Owed
<1> QED BY <1>3, <1>4

(* The same of emitAsync().                                                *)
LEMMA AsyncGoesOn ==
  ASSUME BusInv, home' = home, frames' = frames,
         async' = [bucket |-> async'.bucket, pos |-> async'.pos, flight |-> async'.flight,
                   limited |-> async'.limited],
         async'.bucket # 0 => async'.bucket \in 1..Len(home),
         async'.flight \subseteq Entry,
         \A d \in async'.flight : async'.bucket # 0 /\ Listed(async'.bucket, d)
  PROVE  EmissionType' /\ \A c, d : Owed(c, d)' => Listed(c, d)
<1>1. EmissionType' BY DEF BusInv, EmissionType
<1>2. ASSUME NEW c, NEW d, Owed(c, d)' PROVE Listed(c, d)
  BY <1>2 DEF Owed, Listed
<1> QED BY <1>1, <1>2

(* Every operation of the bus, and every call of a listener.               *)
LEMMA BusStep ==
  ASSUME BusInv, BusNext
  PROVE  BusInv'
<1>0. /\ made \in Nat /\ home \in Seq(BusKeys) /\ Len(home) \in Nat /\ buckets \in [BusKeys -> Nat]
      /\ \A j \in BusKeys : buckets[j] # 0 => buckets[j] \in 1..Len(home) /\ home[buckets[j]] = j
      /\ members \in [1..Len(home) -> SUBSET Entry] /\ DOMAIN members = 1..Len(home)
      /\ wanted \in [BusKeys -> SUBSET Listeners] /\ swapped \in BOOLEAN
      /\ fired \subseteq 1..made
  BY DEF BusInv, BusType
<1>a. /\ async = [bucket |-> async.bucket, pos |-> async.pos, flight |-> async.flight,
                  limited |-> async.limited]
      /\ async.bucket # 0 => async.bucket \in 1..Len(home)
      /\ async.bucket = 0 => async.flight = {}
      /\ async.flight \subseteq Entry
      /\ frames \in Seq([bucket : Nat, todo : SUBSET Entry])
      /\ \A i \in 1..Len(frames) : frames[i].bucket \in 1..Len(home)
  BY DEF BusInv, EmissionType
<1>b. ASSUME UNCHANGED << home, frames, async >>
      PROVE  EmissionType' /\ \A c, d : Owed(c, d)' => Listed(c, d)
  BY <1>b DEF BusInv, EmissionType, Owed, Listed
<1>c. ASSUME NEW b \in 1..Len(home), NEW f \in Listeners, DropListener(b, f),
             UNCHANGED << fired, mixed, home >>
      PROVE  FiredIsGone'
  <2>1. mixed \subseteq mixed' BY <1>c
  <2>2. /\ members' \in [1..Len(home) -> SUBSET Entry]
        /\ \A c \in 1..Len(home) : members'[c] \subseteq members[c]
    BY <1>c, <2>1, DropKeeps
  <2>3. FiredIsGone /\ DOMAIN members' = 1..Len(home) BY <2>2 DEF BusInv
  <2> QED BY <1>0, <1>c, <2>2, <2>3 DEF FiredIsGone
<1>1. ASSUME NEW k \in BusKeys, NEW f \in Listeners, NEW once \in BOOLEAN, Register(k, f, once)
      PROVE  BusInv'
  BY <1>1, RegisterKeeps
<1>2. ASSUME NEW k \in BusKeys, NEW f \in Listeners, OffListener(k, f) PROVE BusInv'
  <2> DEFINE b == buckets[k]
  <2>1. b \in 1..Len(home) /\ home[b] = k BY <1>0, <1>2 DEF OffListener
  <2>2. /\ DropListener(b, f)
        /\ buckets' = IF members'[b] = {} THEN [buckets EXCEPT ![k] = 0] ELSE buckets
        /\ UNCHANGED << home, made, frames, async, fired, mixed, swapped >>
    BY <1>2 DEF OffListener
  <2>3. FiredIsGone' BY <1>c, <2>1, <2>2
  <2>4. EmissionType' /\ \A c, d : Owed(c, d)' => Listed(c, d) BY <1>b, <2>2
  <2>5. \/ buckets' = buckets
        \/ /\ members'[b] = {} /\ buckets[home[b]] = b
           /\ buckets' = [buckets EXCEPT ![home[b]] = 0]
    BY <2>1, <2>2
  <2> HIDE DEF b
  <2> QED BY <1>0, <2>1, <2>2, <2>3, <2>4, <2>5, DropHolds
<1>3. ASSUME NEW b \in 1..MaxBuckets, NEW f \in Listeners, Unsubscribes(b, f) PROVE BusInv'
  <2>1. /\ b \in 1..Len(home) /\ DropListener(b, f)
        /\ UNCHANGED << buckets, home, made, frames, async, fired, mixed, swapped >>
    BY <1>0, <1>3 DEF Unsubscribes
  <2>2. FiredIsGone' BY <1>c, <2>1
  <2>3. EmissionType' /\ \A c, d : Owed(c, d)' => Listed(c, d) BY <1>b, <2>1
  <2> QED BY <1>0, <2>1, <2>2, <2>3, DropHolds
<1>4. CASE ClearBus
  <2>1. /\ buckets' = [k \in BusKeys |-> 0] /\ wanted' = [k \in BusKeys |-> {}]
        /\ UNCHANGED << home, members, onceMap, made, frames, async, fired, mixed, swapped >>
    BY <1>4 DEF ClearBus
  <2>2. EmissionType' /\ \A c, d : Owed(c, d)' => Listed(c, d) BY <1>b, <2>1
  <2>3. \A c, d : Listed(c, d)' => Listed(c, d) BY <2>1, <2>2 DEF Listed
  <2>4. Numbered' BY <2>1, <2>3, FewerListed DEF BusInv
  <2>5. WantedInv' BY <2>1 DEF WantedInv, WantedFor
  <2>6. BusType' BY <1>0, <2>1 DEF BusInv, BusType
  <2> QED BY <2>1, <2>2, <2>4, <2>5, <2>6 DEF BusInv, SingleInv, FiredIsGone, LimitInv
<1>5. CASE Emit
  <2>1. PICK k \in BusKeys : Filled(k) /\ frames' = << EmissionOf(buckets[k]) >> \o frames
    BY <1>5 DEF Emit, BusKeys
  <2>2. UNCHANGED << buckets, home, members, onceMap, made, async, wanted, fired, mixed, swapped >>
    BY <1>5 DEF Emit, busSets, busPast
  <2>3. buckets[k] \in 1..Len(home) BY <1>0, <2>1 DEF Filled
  <2>4. EmissionType' /\ \A c, d : Owed(c, d)' => Listed(c, d) BY <2>1, <2>2, <2>3, FrameOnTop
  <2> QED BY <2>2, <2>4, EmissionHolds
<1>6. CASE EmitCalls
  <2> DEFINE t == Head(frames)
             e == Earliest(t.todo)
             x == [t EXCEPT !.todo = @ \ {e}]
             F == [bucket : Nat, todo : SUBSET Entry]
  <2>1. /\ frames # << >> /\ t.todo # {} /\ Notify(t.bucket, e)
        /\ frames' = [frames EXCEPT ![1].todo = @ \ {e}]
        /\ UNCHANGED << buckets, home, made, async, swapped >>
    BY <1>6 DEF EmitCalls
  <2>2. t = frames[1] /\ 1 \in 1..Len(frames) /\ t \in F
    <3>1. frames \in Seq(F) BY <1>a
    <3>2. frames # << >> BY <2>1
    <3> HIDE DEF F
    <3> QED BY <3>1, <3>2
  <2>3. t.bucket \in 1..Len(home) /\ t.todo \in SUBSET Entry BY <1>a, <2>2
  <2>4. e \in t.todo BY <2>1, <2>3, EarliestIsOne
  <2>5. Listed(t.bucket, e) BY <2>2, <2>4 DEF Listed, Owed
  <2>6. x \in F /\ x.bucket = t.bucket /\ x.todo = t.todo \ {e} BY <2>2
  <2>7. \A d \in x.todo : Listed(x.bucket, d) BY <2>2, <2>6 DEF Listed, Owed
  <2>8. frames' = [frames EXCEPT ![1] = x] BY <1>a, <2>1, <2>2
  <2> HIDE DEF x, e, t
  <2>9. EmissionType' /\ \A c, d : Owed(c, d)' => Listed(c, d)
    BY <2>1, <2>3, <2>6, <2>7, <2>8, FrameGoesOn
  <2> QED BY <2>1, <2>3, <2>5, <2>9, NotifyHolds
<1>7. CASE EmitEnds
  <2> DEFINE b == Head(frames).bucket
             m == NextBucket(b, buckets')
  <2>1. /\ frames # << >> /\ buckets' = TakesAway(b)
        /\ swapped' = (swapped \/ (members[b] = {} /\ buckets[home[b]] \notin {0, b}))
        /\ frames' = IF m # 0 THEN [frames EXCEPT ![1] = EmissionOf(m)] ELSE Tail(frames)
        /\ UNCHANGED << home, members, onceMap, made, async, wanted, fired, mixed >>
    BY <1>7 DEF EmitEnds
  <2>2. b \in 1..Len(home) BY <1>a, <2>1
  <2>3. m # 0 => m \in 1..Len(home)
    <3>1. m # 0 => m = buckets'["pattern"] BY DEF NextBucket
    <3>2. buckets'["pattern"] = buckets["pattern"] \/ buckets'["pattern"] = 0
      BY <1>0, <2>1 DEF TakesAway, BusKeys
    <3> QED BY <1>0, <3>1, <3>2 DEF BusKeys
  <2> HIDE DEF b, m
  <2>4. EmissionType' /\ \A c, d : Owed(c, d)' => Listed(c, d)
    <3>1. CASE m # 0
      <4>1. EmissionOf(m) \in [bucket : Nat, todo : SUBSET Entry]
            /\ EmissionOf(m).bucket = m /\ EmissionOf(m).todo = members[m]
        BY <1>0, <2>3, <3>1 DEF EmissionOf
      <4>2. \A d \in EmissionOf(m).todo : Listed(m, d) BY <2>3, <3>1, <4>1 DEF Listed
      <4> QED BY <2>1, <2>3, <3>1, <4>1, <4>2, FrameGoesOn
    <3>2. CASE m = 0
      <4> DEFINE x == [bucket |-> b, todo |-> {}]
      <4>1. x \in [bucket : Nat, todo : SUBSET Entry] /\ x.bucket \in 1..Len(home) /\ x.todo = {}
        BY <1>0, <2>2
      <4> HIDE DEF x
      <4> QED BY <2>1, <3>2, <4>1, FrameGoesOn
    <3> QED BY <3>1, <3>2
  <2> QED BY <2>1, <2>2, <2>4, EmissionHolds
<1>8. ASSUME NEW limited \in BOOLEAN, EmitAsync(limited) PROVE BusInv'
  <2>1. PICK k \in BusKeys : /\ Filled(k)
                             /\ async' = [NoEmission EXCEPT !.bucket = buckets[k], !.limited = limited]
    <3>1. \E k \in BusKeys :
             /\ Filled(k) /\ (k = "pattern" => ~Filled("event"))
             /\ async' = [NoEmission EXCEPT !.bucket = buckets[k], !.limited = limited]
      BY <1>8, Zenon DEF EmitAsync
    <3> QED BY <3>1, Zenon
  <2>2. UNCHANGED << buckets, home, members, onceMap, made, frames, wanted, fired, mixed, swapped >>
    BY <1>8 DEF EmitAsync, busSets, busPast
  <2>3. async' = [bucket |-> buckets[k], pos |-> 0, flight |-> {}, limited |-> limited]
    BY <2>1 DEF NoEmission
  <2>4. EmissionType' /\ \A c, d : Owed(c, d)' => Listed(c, d)
    <3>1. async'.bucket = buckets[k] /\ async'.pos = 0 /\ async'.flight = {} /\ async'.limited = limited
      BY <2>3
    <3>2. async' = [bucket |-> async'.bucket, pos |-> async'.pos, flight |-> async'.flight,
                    limited |-> async'.limited]
      BY <2>3, <3>1
    <3>3. buckets[k] \in 1..Len(home) BY <1>0, <2>1 DEF Filled
    <3>4. home' = home /\ frames' = frames BY <2>2
    <3>5. async'.bucket # 0 => async'.bucket \in 1..Len(home) BY <3>1, <3>3
    <3>6. async'.flight \subseteq Entry /\ \A d \in async'.flight : async'.bucket # 0 /\ Listed(async'.bucket, d)
      BY <3>1
    <3> QED BY <3>2, <3>4, <3>5, <3>6, AsyncGoesOn
  <2> QED BY <2>2, <2>4, EmissionHolds
<1>9. CASE AsyncTakes
  <2> DEFINE taken == IF async.limited THEN {Earliest(Unvisited)} ELSE Unvisited
             p == CHOOSE q \in {e.n : e \in taken} : \A e \in taken : e.n <= q
  <2>1. /\ async.bucket # 0 /\ Unvisited # {}
        /\ async' = [async EXCEPT !.flight = taken, !.pos = p]
        /\ UNCHANGED << buckets, home, members, onceMap, made, frames, wanted, fired, mixed, swapped >>
    BY <1>9 DEF AsyncTakes, busSets, busPast
  <2>2. async.bucket \in 1..Len(home) BY <1>a, <2>1
  <2>3. Unvisited \subseteq members[async.bucket] /\ Unvisited \in SUBSET Entry
    BY <1>0, <2>2 DEF Unvisited
  <2>4. taken \subseteq members[async.bucket] BY <2>1, <2>3, EarliestIsOne
  <2> HIDE DEF taken, p
  <2>5. async' = [bucket |-> async.bucket, pos |-> p, flight |-> taken, limited |-> async.limited]
    BY <1>a, <2>1
  <2>6. EmissionType' /\ \A c, d : Owed(c, d)' => Listed(c, d)
    <3>1. \A d \in taken : Listed(async.bucket, d) BY <2>2, <2>4 DEF Listed
    <3>2. taken \subseteq Entry BY <1>0, <2>2, <2>4
    <3> QED BY <2>1, <2>2, <2>5, <3>1, <3>2, AsyncGoesOn
  <2> QED BY <2>1, <2>6, EmissionHolds
<1>10. CASE AsyncCalls
  <2> DEFINE e == Earliest(async.flight)
  <2>1. /\ async.flight # {} /\ async' = [async EXCEPT !.flight = @ \ {e}]
        /\ Notify(async.bucket, e)
        /\ UNCHANGED << buckets, home, made, frames, swapped >>
    BY <1>10 DEF AsyncCalls
  <2>2. async.bucket \in 1..Len(home) /\ async.bucket # 0 BY <1>a, <2>1
  <2>3. e \in async.flight BY <1>a, <2>1, EarliestIsOne
  <2> HIDE DEF e
  <2>4. async' = [bucket |-> async.bucket, pos |-> async.pos, flight |-> async.flight \ {e},
                  limited |-> async.limited]
    BY <1>a, <2>1
  <2>5. \A d \in async.flight : Listed(async.bucket, d) BY DEF Listed, Owed
  <2>6. EmissionType' /\ \A c, d : Owed(c, d)' => Listed(c, d)
    BY <1>a, <2>1, <2>2, <2>4, <2>5, AsyncGoesOn
  <2> QED BY <2>1, <2>2, <2>3, <2>5, <2>6, NotifyHolds
<1>11. CASE AsyncEnds
  <2> DEFINE b == async.bucket
             m == NextBucket(b, buckets')
  <2>1. /\ b # 0 /\ async.flight = {}
        /\ buckets' = IF home[b] = "event" THEN TakesAway(b) ELSE buckets
        /\ swapped' = (swapped \/ (home[b] = "event" /\ members[b] = {} /\ buckets["event"] \notin {0, b}))
        /\ async' = IF m = 0 THEN NoEmission ELSE [async EXCEPT !.bucket = m, !.pos = 0]
        /\ UNCHANGED << home, members, onceMap, made, frames, wanted, fired, mixed >>
    BY <1>11 DEF AsyncEnds
  <2>2. b \in 1..Len(home) BY <1>a, <2>1
  <2>3. m # 0 => m \in 1..Len(home)
    <3>1. m # 0 => m = buckets'["pattern"] BY DEF NextBucket
    <3>2. buckets'["pattern"] = buckets["pattern"] \/ buckets'["pattern"] = 0
      BY <1>0, <2>1 DEF TakesAway, BusKeys
    <3> QED BY <1>0, <3>1, <3>2 DEF BusKeys
  <2>4. \/ buckets' = buckets /\ swapped' = swapped
        \/ \E c \in 1..Len(home) :
              /\ buckets' = TakesAway(c)
              /\ swapped' = (swapped \/ (members[c] = {} /\ buckets[home[c]] \notin {0, c}))
    BY <1>0, <2>1, <2>2
  <2> HIDE DEF m
  <2>5. EmissionType' /\ \A c, d : Owed(c, d)' => Listed(c, d)
    <3>1. CASE m = 0
      <4>1. async' = [bucket |-> 0, pos |-> 0, flight |-> {}, limited |-> FALSE]
        BY <2>1, <3>1 DEF NoEmission
      <4>2. async'.bucket = 0 /\ async'.pos = 0 /\ async'.flight = {} /\ async'.limited = FALSE
        BY <4>1
      <4>3. async' = [bucket |-> async'.bucket, pos |-> async'.pos, flight |-> async'.flight,
                      limited |-> async'.limited]
        BY <4>1, <4>2
      <4>4. async'.flight \subseteq Entry /\ \A d \in async'.flight : async'.bucket # 0 /\ Listed(async'.bucket, d)
        BY <4>2
      <4>5. home' = home /\ frames' = frames BY <2>1
      <4>6. async'.bucket # 0 => async'.bucket \in 1..Len(home) BY <4>2
      <4> QED BY <4>3, <4>4, <4>5, <4>6, AsyncGoesOn
    <3>2. CASE m # 0
      <4>1. async' = [bucket |-> m, pos |-> 0, flight |-> {}, limited |-> async.limited]
        BY <1>a, <2>1, <3>2
      <4> QED BY <2>1, <2>3, <3>2, <4>1, AsyncGoesOn
    <3> QED BY <3>1, <3>2
  <2> QED BY <2>1, <2>4, <2>5, EmissionHolds
<1> QED BY <1>1, <1>2, <1>3, <1>4, <1>5, <1>6, <1>7, <1>8, <1>9, <1>10, <1>11 DEF BusNext

(* A bus without sets.                                                     *)
LEMMA BusStart == BusInit => BusInv
<1> SUFFICES ASSUME BusInit PROVE BusInv OBVIOUS
<1>1. /\ buckets = [k \in BusKeys |-> 0] /\ home = << >> /\ members = << >> /\ onceMap = << >>
      /\ made = 0 /\ frames = << >> /\ wanted = [k \in BusKeys |-> {}] /\ fired = {} /\ mixed = {}
      /\ swapped = FALSE
      /\ async = [bucket |-> 0, pos |-> 0, flight |-> {}, limited |-> FALSE]
  BY DEF BusInit, NoEmission
<1>2. 1..Len(home) = {} BY <1>1
<1>3. members \in [1..Len(home) -> SUBSET Entry] /\ onceMap \in [1..Len(home) -> [Listeners -> Nat]]
  BY <1>1
<1>4. BusType
  <2>1. made \in Nat /\ home \in Seq(BusKeys)
    <3>1. made = 0 /\ home = << >> BY <1>1, Zenon
    <3> QED BY <3>1
  <2>5. swapped \in BOOLEAN BY <1>1, Zenon
  <2>2. buckets \in [BusKeys -> Nat] /\ wanted \in [BusKeys -> SUBSET Listeners] BY <1>1
  <2>3. \A k \in BusKeys : buckets[k] = 0 BY <1>1
  <2>4. fired \subseteq 1..made /\ \A b, f : << b, f >> \in mixed => b \in 1..Len(home) BY <1>1
  <2> QED BY <1>3, <2>1, <2>2, <2>3, <2>4, <2>5 DEF BusType
<1>5. EmissionType BY <1>1 DEF EmissionType
<1>6. Numbered BY <1>1 DEF Numbered, Listed, Owed
<1>7. WantedInv BY <1>1 DEF WantedInv, WantedFor
<1>8. FiredIsGone BY <1>1 DEF FiredIsGone
<1> QED BY <1>2, <1>4, <1>5, <1>6, <1>7, <1>8 DEF BusInv, SingleInv, LimitInv

(* The invariant says what the bus promises.                               *)
LEMMA BusKeepsListeners == BusInv => BusIsSound
<1> SUFFICES ASSUME BusInv PROVE BusIsSound OBVIOUS
<1>0. /\ members \in [1..Len(home) -> SUBSET Entry] /\ DOMAIN members = 1..Len(home)
      /\ buckets \in [BusKeys -> Nat] /\ swapped \in BOOLEAN
      /\ \A j \in BusKeys : buckets[j] # 0 => buckets[j] \in 1..Len(home) /\ home[buckets[j]] = j
      /\ wanted \in [BusKeys -> SUBSET Listeners]
  BY DEF BusInv, BusType
<1>1. NoListenerIsLost
  <2> SUFFICES ASSUME ~swapped, NEW k \in BusKeys, NEW f \in Listeners, << buckets[k], f >> \notin mixed
               PROVE  f \in wanted[k] <=> buckets[k] # 0 /\ \E e \in MembersOf(buckets[k]) : e.fn = f
    BY DEF NoListenerIsLost
  <2>1. WantedFor(buckets, members, wanted, mixed) BY DEF BusInv, WantedInv
  <2>2. buckets[k] # 0 => MembersOf(buckets[k]) = members[buckets[k]] BY <1>0 DEF MembersOf
  <2> QED BY <2>1, <2>2 DEF WantedFor
<1>2. MaxListeners > 0 => \A b \in DOMAIN members : Cardinality(members[b]) <= MaxListeners
  BY <1>0 DEF BusInv, LimitInv, WithinLimit
<1> QED BY <1>1, <1>2 DEF BusInv, BusIsSound
-----------------------------------------------------------------------------
(* The observers.  While no notification was overtaken by another of its   *)
(* observer, each is of an observer of its own; who is due is subscribed,  *)
(* and knows the value, is about to be told it, or waits for a flush.      *)

AllValues == Values \cup {0}
Notice == [of : Observed, todo : Seq(Subscribers), next : AllValues,
           running : Subscribers \cup {NoOne}]

ObsType ==
  /\ immediate \in BOOLEAN /\ distinct \in BOOLEAN /\ attached \in BOOLEAN /\ cleanup \in BOOLEAN
  /\ nested \in BOOLEAN /\ tooLate \in BOOLEAN /\ resources \in Int
  /\ value \in [Observed -> AllValues] /\ knows \in [Subscribers -> AllValues]
  /\ unflushed \in [Observed -> Seq(AllValues)] /\ gone \subseteq Observed
  /\ subs \in [Observed -> Seq(Subscribers)] /\ due \subseteq Subscribers

\* A list of subscribers names each once, and only those of its observer.
ListSound(o, q) ==
  /\ \A i, j \in 1..Len(q) : q[i] = q[j] => i = j
  /\ \A i \in 1..Len(q) : Watched(q[i]) = o

SubsSound ==
  /\ \A o \in Observed : ListSound(o, subs[o])
  /\ \A s \in due : s \in ToSet(subs[Watched(s)])
  /\ \A o \in gone : subs[o] = << >> /\ unflushed[o] = << >>

\* A pending change is the value of today; nothing is pending when it is told at once.
PendingSound ==
  \A o \in Observed : unflushed[o] # << >> => ~immediate /\ unflushed[o] = << value[o] >>

\* The notifications under way.
NoticeSound(n) ==
  /\ \A i \in 1..Len(n.todo) : Watched(n.todo[i]) = n.of
  /\ n.running = "effect" => n.of = "source"
StackSound(ns) == ns \in Seq(Notice) /\ \A i \in 1..Len(ns) : NoticeSound(ns[i])

\* Somebody who is due will be told the value of today, if he does not know it.
Told(s, ns, val, uf, kn) ==
  \/ uf[Watched(s)] # << >> \/ kn[s] = val[Watched(s)]
  \/ \E i \in 1..Len(ns) : /\ ns[i].of = Watched(s) /\ s \in ToSet(ns[i].todo)
                           /\ ns[i].next = val[Watched(s)]

Current(ns, val, uf, kn, du, gn) ==
  /\ \A i, j \in 1..Len(ns) : ns[i].of = ns[j].of => i = j
  /\ \A i \in 1..Len(ns) : ns[i].of \in gn \/ uf[ns[i].of] # << >> \/ ns[i].next = val[ns[i].of]
  /\ \A s \in du : Told(s, ns, val, uf, kn)

NoticesCurrent == nested \/ Current(notices, value, unflushed, knows, due, gone)

\* The effect that runs has nothing open.
EffectRuns(ns) == \E i \in 1..Len(ns) : ns[i].running = "effect"
EffectSound ==
  nested \/ tooLate \/ gone # {} \/
    /\ resources = IF cleanup /\ "effect" \in ToSet(subs["source"]) THEN 1 ELSE 0
    /\ EffectRuns(notices) => ~cleanup /\ "effect" \in ToSet(subs["source"])

ObsInv ==
  /\ ObsType /\ SubsSound /\ PendingSound /\ StackSound(notices) /\ NoticesCurrent
  /\ ChainIsLazy /\ EffectSound

(* One element taken out of a sequence.                                    *)
LEMMA OneTakenOut ==
  ASSUME NEW S, NEW q \in Seq(S), NEW i \in 1..Len(q)
  PROVE  RemoveAt(q, i) = [j \in 1..(Len(q) - 1) |-> IF j < i THEN q[j] ELSE q[j + 1]]
<1> DEFINE a == SubSeq(q, 1, i - 1)
           b == SubSeq(q, i + 1, Len(q))
<1>1. Len(q) \in Nat /\ i \in Nat /\ i >= 1 /\ i <= Len(q) OBVIOUS
<1>2. a \in Seq(S) /\ Len(a) = i - 1 /\ \A j \in 1..(i - 1) : a[j] = q[j] BY <1>1
<1>3. b \in Seq(S) /\ Len(b) = Len(q) - i /\ \A j \in 1..(Len(q) - i) : b[j] = q[i + j] BY <1>1
<1> HIDE DEF a, b
<1>4. /\ a \o b \in Seq(S) /\ Len(a \o b) = Len(q) - 1
      /\ \A j \in 1..(Len(q) - 1) : (a \o b)[j] = IF j <= Len(a) THEN a[j] ELSE b[j - Len(a)]
  <2>1. Len(a) + Len(b) = Len(q) - 1 BY <1>1, <1>2, <1>3
  <2>2. /\ a \o b \in Seq(S) /\ Len(a \o b) = Len(a) + Len(b)
        /\ \A j \in 1..(Len(a) + Len(b)) : (a \o b)[j] = IF j <= Len(a) THEN a[j] ELSE b[j - Len(a)]
    <3>1. a \in Seq(S) /\ b \in Seq(S) BY <1>2, <1>3
    <3> QED BY <3>1, ConcatProperties, Zenon
  <2> QED BY <2>1, <2>2, Zenon
<1>5. \A j \in 1..(Len(q) - 1) : (a \o b)[j] = IF j < i THEN q[j] ELSE q[j + 1]
  <2> TAKE j \in 1..(Len(q) - 1)
  <2>1. CASE j < i BY <1>1, <1>2, <1>4, <2>1
  <2>2. CASE ~(j < i)
    <3>1. j - (i - 1) \in 1..(Len(q) - i) /\ i + (j - (i - 1)) = j + 1 BY <1>1, <2>2
    <3> QED BY <1>1, <1>2, <1>3, <1>4, <2>2, <3>1
  <2> QED BY <2>1, <2>2
<1> DEFINE c == a \o b
<1>6. c \in Seq(S) /\ Len(c) = Len(q) - 1 BY <1>4
<1>7. \A j \in 1..(Len(q) - 1) : c[j] = IF j < i THEN q[j] ELSE q[j + 1] BY <1>5
<1> HIDE DEF c
<1>8. c = [j \in 1..(Len(q) - 1) |-> IF j < i THEN q[j] ELSE q[j + 1]] BY <1>1, <1>6, <1>7
<1> QED BY <1>8 DEF RemoveAt, a, b, c

(* _subs.delete(): one subscriber less.                                    *)
LEMMA WithoutOne ==
  ASSUME NEW o, NEW S, NEW q \in Seq(S), ListSound(o, q), NEW x
  PROVE  /\ Without(q, x) \in Seq(S) /\ ListSound(o, Without(q, x))
         /\ ToSet(Without(q, x)) = ToSet(q) \ {x}
<1> DEFINE r == Without(q, x)
<1>1. CASE x \notin ToSet(q) BY <1>1 DEF Without
<1>2. CASE x \in ToSet(q)
  <2> DEFINE i == CHOOSE j \in DOMAIN q : q[j] = x
  <2>0. DOMAIN q = 1..Len(q) /\ Len(q) \in Nat OBVIOUS
  <2>1. \E j \in DOMAIN q : q[j] = x BY <1>2 DEF ToSet
  <2>2. i \in 1..Len(q) /\ q[i] = x BY <2>0, <2>1
  <2> HIDE DEF i
  <2>3. r = [j \in 1..(Len(q) - 1) |-> IF j < i THEN q[j] ELSE q[j + 1]]
    BY <1>2, <2>2, OneTakenOut DEF Without, i
  <2> HIDE DEF r
  <2> DEFINE at(j) == IF j < i THEN j ELSE j + 1
  <2>4. \A j \in 1..(Len(q) - 1) : at(j) \in 1..Len(q) /\ at(j) # i /\ r[j] = q[at(j)] BY <2>0, <2>2, <2>3
  <2>5. \A j, k \in 1..(Len(q) - 1) : at(j) = at(k) => j = k BY <2>0, <2>2
  <2>6. \A k \in 1..Len(q) : k # i => \E j \in 1..(Len(q) - 1) : at(j) = k
    <3> TAKE k \in 1..Len(q)
    <3> HAVE k # i
    <3>1. CASE k < i BY <2>0, <2>2, <3>1
    <3>2. CASE k > i
      <4>1. k - 1 \in 1..(Len(q) - 1) /\ at(k - 1) = k BY <2>0, <2>2, <3>2
      <4> QED BY <4>1
    <3> QED BY <2>0, <2>2, <3>1, <3>2
  <2> HIDE DEF at
  <2>7. r \in Seq(S) /\ Len(r) = Len(q) - 1 /\ DOMAIN r = 1..(Len(q) - 1)
    <3>1. \A j \in 1..(Len(q) - 1) : r[j] \in S BY <2>4
    <3>2. Len(q) - 1 \in Nat BY <2>0, <2>2
    <3>3. r \in [1..(Len(q) - 1) -> S] BY <2>3, <3>1
    <3> QED BY <3>2, <3>3
  <2>8. ListSound(o, r)
    <3>1. \A j, k \in 1..Len(r) : r[j] = r[k] => j = k BY <2>4, <2>5, <2>7 DEF ListSound
    <3>2. \A j \in 1..Len(r) : Watched(r[j]) = o BY <2>4, <2>7 DEF ListSound
    <3> QED BY <3>1, <3>2 DEF ListSound
  <2>9. ToSet(r) = ToSet(q) \ {x}
    <3>1. ASSUME NEW y \in ToSet(r) PROVE y \in ToSet(q) \ {x}
      <4>1. PICK j \in 1..(Len(q) - 1) : y = r[j] BY <2>7, <3>1 DEF ToSet
      <4> QED BY <2>0, <2>2, <2>4, <4>1 DEF ToSet, ListSound
    <3>2. ASSUME NEW y \in ToSet(q) \ {x} PROVE y \in ToSet(r)
      <4>1. PICK k \in 1..Len(q) : y = q[k] BY <2>0, <3>2 DEF ToSet
      <4>2. PICK j \in 1..(Len(q) - 1) : at(j) = k BY <2>2, <2>6, <3>2, <4>1
      <4> QED BY <2>4, <2>7, <4>1, <4>2 DEF ToSet
    <3> QED BY <3>1, <3>2
  <2> QED BY <2>7, <2>8, <2>9 DEF r
<1> QED BY <1>1, <1>2

(* _subs.add(): one more, unless it is there.                              *)
LEMMA WithOne ==
  ASSUME NEW o, NEW S, NEW q \in Seq(S), ListSound(o, q), NEW x \in S, Watched(x) = o
  PROVE  /\ With(q, x) \in Seq(S) /\ ListSound(o, With(q, x))
         /\ ToSet(With(q, x)) = ToSet(q) \cup {x} /\ With(q, x) # << >>
<1>1. CASE x \in ToSet(q)
  <2>1. q # << >> BY <1>1 DEF ToSet
  <2> QED BY <1>1, <2>1 DEF With
<1>2. CASE x \notin ToSet(q)
  <2> DEFINE r == Append(q, x)
  <2>0. DOMAIN q = 1..Len(q) /\ Len(q) \in Nat OBVIOUS
  <2>1. /\ r \in Seq(S) /\ Len(r) = Len(q) + 1 /\ DOMAIN r = 1..(Len(q) + 1)
        /\ r[Len(q) + 1] = x /\ \A i \in 1..Len(q) : r[i] = q[i]
    BY <2>0
  <2> HIDE DEF r
  <2>2. \A i \in 1..Len(q) : q[i] # x BY <1>2, <2>0 DEF ToSet
  <2>3. ListSound(o, r)
    <3>1. \A j, k \in 1..Len(r) : r[j] = r[k] => j = k BY <2>0, <2>1, <2>2 DEF ListSound
    <3>2. \A j \in 1..Len(r) : Watched(r[j]) = o BY <2>0, <2>1 DEF ListSound
    <3> QED BY <3>1, <3>2 DEF ListSound
  <2>4. ToSet(r) = ToSet(q) \cup {x}
    <3>1. ASSUME NEW y \in ToSet(r) PROVE y \in ToSet(q) \cup {x}
      <4>1. PICK j \in 1..(Len(q) + 1) : y = r[j] BY <2>1, <3>1 DEF ToSet
      <4> QED BY <2>0, <2>1, <4>1 DEF ToSet
    <3>2. ASSUME NEW y \in ToSet(q) PROVE y \in ToSet(r)
      <4>1. PICK k \in 1..Len(q) : y = q[k] BY <2>0, <3>2 DEF ToSet
      <4> QED BY <2>0, <2>1, <4>1 DEF ToSet
    <3>3. x \in ToSet(r) BY <2>0, <2>1 DEF ToSet
    <3> QED BY <3>1, <3>2, <3>3
  <2>5. r # << >> BY <2>0, <2>1
  <2> QED BY <1>2, <2>1, <2>3, <2>4, <2>5 DEF With, r
<1> QED BY <1>1, <1>2
(* A notification on top of the others.                                    *)
LEMMA NoticeOnTop ==
  ASSUME NEW ns \in Seq(Notice), NEW n \in Notice
  PROVE  /\ << n >> \o ns \in Seq(Notice) /\ Len(<< n >> \o ns) = Len(ns) + 1
         /\ (<< n >> \o ns)[1] = n
         /\ \A i \in 1..Len(ns) : (<< n >> \o ns)[i + 1] = ns[i]
         /\ \A i \in 1..(Len(ns) + 1) : i = 1 \/ (i - 1 \in 1..Len(ns) /\ (<< n >> \o ns)[i] = ns[i - 1])
<1> DEFINE a == << n >>
<1>1. a \in Seq(Notice) /\ Len(a) = 1 /\ a[1] = n OBVIOUS
<1>2. Len(ns) \in Nat OBVIOUS
<1> HIDE DEF a
<1>3. /\ a \o ns \in Seq(Notice) /\ Len(a \o ns) = Len(a) + Len(ns)
      /\ \A j \in 1..(Len(a) + Len(ns)) : (a \o ns)[j] = IF j <= Len(a) THEN a[j] ELSE ns[j - Len(a)]
  BY <1>1, ConcatProperties, Zenon
<1> DEFINE c == a \o ns
<1> HIDE DEF c
<1>4. /\ c \in Seq(Notice) /\ Len(c) = 1 + Len(ns)
      /\ \A j \in 1..(1 + Len(ns)) : c[j] = IF j <= 1 THEN a[j] ELSE ns[j - 1]
  BY <1>1, <1>3 DEF c
<1>5. c[1] = n BY <1>1, <1>2, <1>4
<1>6. \A i \in 1..Len(ns) : c[i + 1] = ns[i]
  <2> TAKE i \in 1..Len(ns)
  <2>1. i + 1 \in 1..(1 + Len(ns)) /\ ~(i + 1 <= 1) /\ (i + 1) - 1 = i BY <1>2
  <2> QED BY <1>4, <2>1
<1>7. \A i \in 1..(Len(ns) + 1) : i = 1 \/ (i - 1 \in 1..Len(ns) /\ c[i] = ns[i - 1])
  BY <1>2, <1>4
<1> QED BY <1>2, <1>4, <1>5, <1>6, <1>7 DEF c, a

(* The snapshot of an observer's subscribers, on top of the others.        *)
LEMMA PushKeepsSound ==
  ASSUME NEW o \in Observed, NEW v \in AllValues, NEW q \in Seq(Subscribers),
         NEW ns, StackSound(ns), ListSound(o, q)
  PROVE  LET n == [of |-> o, todo |-> q, next |-> v, running |-> NoOne]
             ms == << n >> \o ns
         IN  StackSound(ms) /\ (EffectRuns(ms) => EffectRuns(ns))
<1> DEFINE n == [of |-> o, todo |-> q, next |-> v, running |-> NoOne]
           ms == << n >> \o ns
<1>1. n \in Notice BY DEF Notice
<1>2. n.of = o /\ n.todo = q /\ n.next = v /\ n.running # "effect" BY DEF NoOne
<1> HIDE DEF n
<1>3. ns \in Seq(Notice) /\ Len(ns) \in Nat BY DEF StackSound
<1>4. /\ ms \in Seq(Notice) /\ Len(ms) = Len(ns) + 1 /\ ms[1] = n
      /\ \A i \in 1..Len(ns) : ms[i + 1] = ns[i]
      /\ \A i \in 1..(Len(ns) + 1) : i = 1 \/ (i - 1 \in 1..Len(ns) /\ ms[i] = ns[i - 1])
  BY <1>1, <1>3, NoticeOnTop
<1> HIDE DEF ms
<1>5. StackSound(ms)
  <2>1. NoticeSound(n) BY <1>2 DEF NoticeSound, ListSound
  <2> QED BY <1>4, <2>1 DEF StackSound
<1>6. EffectRuns(ms) => EffectRuns(ns)
  <2> SUFFICES ASSUME EffectRuns(ms) PROVE EffectRuns(ns) OBVIOUS
  <2>1. PICK i \in 1..Len(ms) : ms[i].running = "effect" BY DEF EffectRuns
  <2>2. i # 1 BY <1>2, <1>4, <2>1
  <2> QED BY <1>4, <2>1, <2>2 DEF EffectRuns
<1> QED BY <1>5, <1>6 DEF ms, n

(* An observer's new value is told: those who are due are in the snapshot. *)
LEMMA PushKeepsCurrent ==
  ASSUME NEW o \in Observed, NEW v \in AllValues, NEW q \in Seq(Subscribers),
         NEW ns, StackSound(ns), ListSound(o, q),
         NEW val, NEW uf, NEW kn, NEW du, NEW gn, NEW val2, NEW uf2, NEW du2,
         Current(ns, val, uf, kn, du, gn),
         \A i \in 1..Len(ns) : ns[i].of # o,
         val2[o] = v, \A p \in Observed : p # o => val2[p] = val[p] /\ uf2[p] = uf[p],
         \A s \in du2 : /\ Watched(s) = o => s \in ToSet(q)
                        /\ Watched(s) # o => Watched(s) \in Observed /\ s \in du
  PROVE  Current(<< [of |-> o, todo |-> q, next |-> v, running |-> NoOne] >> \o ns,
                 val2, uf2, kn, du2, gn)
<1> DEFINE n == [of |-> o, todo |-> q, next |-> v, running |-> NoOne]
           ms == << n >> \o ns
<1>1. n \in Notice BY DEF Notice
<1>2. n.of = o /\ n.todo = q /\ n.next = v /\ n.running # "effect" BY DEF NoOne
<1> HIDE DEF n
<1>3. ns \in Seq(Notice) /\ Len(ns) \in Nat BY DEF StackSound
<1>4. /\ ms \in Seq(Notice) /\ Len(ms) = Len(ns) + 1 /\ ms[1] = n
      /\ \A i \in 1..Len(ns) : ms[i + 1] = ns[i]
      /\ \A i \in 1..(Len(ns) + 1) : i = 1 \/ (i - 1 \in 1..Len(ns) /\ ms[i] = ns[i - 1])
  BY <1>1, <1>3, NoticeOnTop
<1> HIDE DEF ms
<1>6. \A i \in 1..Len(ns) : ns[i].of \in Observed
  <2> TAKE i \in 1..Len(ns)
  <2>1. ns[i] \in Notice BY <1>3
  <2> QED BY <2>1 DEF Notice
<1>7. ASSUME NEW i \in 1..Len(ms), NEW j \in 1..Len(ms), ms[i].of = ms[j].of PROVE i = j
  <2>1. CASE i = 1 /\ j = 1 BY <2>1
  <2>2. CASE i # 1 /\ j = 1 BY <1>2, <1>4, <1>7, <2>2
  <2>3. CASE i = 1 /\ j # 1 BY <1>2, <1>4, <1>7, <2>3
  <2>4. CASE i # 1 /\ j # 1
    <3>1. i - 1 \in 1..Len(ns) /\ j - 1 \in 1..Len(ns) /\ ms[i] = ns[i - 1] /\ ms[j] = ns[j - 1]
      BY <1>4, <2>4
    <3>2. i - 1 = j - 1 BY <1>7, <3>1 DEF Current
    <3> QED BY <1>3, <1>4, <3>2
  <2> QED BY <2>1, <2>2, <2>3, <2>4
<1>8. ASSUME NEW i \in 1..Len(ms)
      PROVE  ms[i].of \in gn \/ uf2[ms[i].of] # << >> \/ ms[i].next = val2[ms[i].of]
  <2>1. CASE i = 1 BY <1>2, <1>4, <2>1
  <2>2. CASE i # 1
    <3>1. i - 1 \in 1..Len(ns) /\ ms[i] = ns[i - 1] BY <1>4, <2>2
    <3>2. ns[i - 1].of \in Observed /\ ns[i - 1].of # o BY <1>6, <3>1
    <3>3. ns[i - 1].of \in gn \/ uf[ns[i - 1].of] # << >> \/ ns[i - 1].next = val[ns[i - 1].of]
      BY <3>1 DEF Current
    <3> QED BY <3>1, <3>2, <3>3
  <2> QED BY <2>1, <2>2
<1>9. ASSUME NEW s \in du2 PROVE Told(s, ms, val2, uf2, kn)
  <2>1. CASE Watched(s) = o
    <3>1. 1 \in 1..Len(ms) BY <1>3, <1>4
    <3>2. ms[1].of = Watched(s) /\ s \in ToSet(ms[1].todo) /\ ms[1].next = val2[Watched(s)]
      BY <1>2, <1>4, <1>9, <2>1
    <3> QED BY <3>1, <3>2 DEF Told
  <2>2. CASE Watched(s) # o
    <3>1. Watched(s) \in Observed /\ s \in du BY <1>9, <2>2
    <3>2. val2[Watched(s)] = val[Watched(s)] /\ uf2[Watched(s)] = uf[Watched(s)] BY <2>2, <3>1
    <3>3. Told(s, ns, val, uf, kn) BY <3>1 DEF Current
    <3>4. CASE \E i \in 1..Len(ns) : /\ ns[i].of = Watched(s) /\ s \in ToSet(ns[i].todo)
                                     /\ ns[i].next = val[Watched(s)]
      <4>1. PICK i \in 1..Len(ns) : /\ ns[i].of = Watched(s) /\ s \in ToSet(ns[i].todo)
                                    /\ ns[i].next = val[Watched(s)]
        BY <3>4
      <4>2. i + 1 \in 1..Len(ms) /\ ms[i + 1] = ns[i] BY <1>3, <1>4
      <4> QED BY <3>2, <4>1, <4>2 DEF Told
    <3> QED BY <3>2, <3>3, <3>4 DEF Told
  <2> QED BY <2>1, <2>2
<1>10. Current(ms, val2, uf2, kn, du2, gn) BY <1>7, <1>8, <1>9 DEF Current
<1> QED BY <1>10 DEF ms, n
(* Everybody watches one of the two observers.                             *)
LEMMA WatchedIsObserved == \A s : Watched(s) \in Observed
BY DEF Watched, Observed

(* set value(): told at once or pending, and nobody who is due is left out. *)
LEMMA AssignHolds ==
  ASSUME ObsInv, NEW o \in Observed, NEW v \in AllValues, NEW stack, StackSound(stack),
         Assign(o, v, stack), UNCHANGED << immediate, subs, gone >>,
         \A i \in 1..Len(stack) : UnderNotice(stack[i].of),
         nested \/ Current(stack, value, unflushed, knows', due, gone)
  PROVE  /\ value' \in [Observed -> AllValues] /\ unflushed' \in [Observed -> Seq(AllValues)]
         /\ due' \subseteq Subscribers /\ nested' \in BOOLEAN /\ (nested => nested')
         /\ SubsSound' /\ PendingSound' /\ StackSound(notices') /\ NoticesCurrent'
         /\ EffectRuns(notices') => EffectRuns(stack)
<1>0. /\ value \in [Observed -> AllValues] /\ unflushed \in [Observed -> Seq(AllValues)]
      /\ due \subseteq Subscribers /\ nested \in BOOLEAN /\ gone \subseteq Observed
      /\ subs \in [Observed -> Seq(Subscribers)] /\ immediate \in BOOLEAN /\ distinct \in BOOLEAN
  BY DEF ObsInv, ObsType
<1>1. CASE o \in gone \/ (distinct /\ o = "source" /\ v = value[o])
  <2>1. /\ value' = IF o \in gone THEN value ELSE [value EXCEPT ![o] = v]
        /\ notices' = stack /\ unflushed' = unflushed /\ due' = due /\ nested' = nested
    BY <1>1 DEF Assign
  <2>2. value' = value BY <1>0, <1>1, <2>1
  <2>3. SubsSound' /\ PendingSound' BY <2>1, <2>2 DEF ObsInv, SubsSound, PendingSound
  <2>4. NoticesCurrent' BY <2>1, <2>2 DEF NoticesCurrent
  <2> QED BY <1>0, <2>1, <2>2, <2>3, <2>4
<1>2. CASE ~(o \in gone \/ (distinct /\ o = "source" /\ v = value[o]))
  <2>1. /\ value' = [value EXCEPT ![o] = v] /\ due' = due \cup ToSet(subs[o])
        /\ IF immediate
           THEN /\ notices' = << Notification(o, v) >> \o stack
                /\ nested' = (nested \/ UnderNotice(o))
                /\ UNCHANGED unflushed
           ELSE /\ unflushed' = [unflushed EXCEPT ![o] = << v >>]
                /\ notices' = stack
                /\ UNCHANGED nested
    BY <1>2 DEF Assign
  <2>2. o \notin gone BY <1>2
  <2>3. /\ value' \in [Observed -> AllValues] /\ value'[o] = v
        /\ \A p \in Observed : p # o => value'[p] = value[p]
    BY <1>0, <2>1
  <2>4. subs[o] \in Seq(Subscribers) /\ ListSound(o, subs[o]) BY <1>0 DEF ObsInv, SubsSound
  <2>5. \A s \in ToSet(subs[o]) : s \in Subscribers /\ Watched(s) = o BY <2>4 DEF ListSound, ToSet
  <2>6. \A s \in due' : /\ s \in Subscribers /\ Watched(s) \in Observed
                        /\ s \in ToSet(subs[Watched(s)])
                        /\ Watched(s) # o => s \in due
    BY <1>0, <2>1, <2>5, WatchedIsObserved DEF ObsInv, SubsSound
  <2>7. CASE immediate
    <3>1. /\ notices' = << Notification(o, v) >> \o stack
          /\ nested' = (nested \/ UnderNotice(o)) /\ unflushed' = unflushed
      BY <2>1, <2>7
    <3>2. \A p \in Observed : unflushed[p] = << >> BY <2>7 DEF ObsInv, PendingSound
    <3>3. SubsSound'
      BY <2>6, <3>1 DEF ObsInv, SubsSound
    <3>4. PendingSound' BY <3>1, <3>2 DEF PendingSound
    <3>5. Notification(o, v) = [of |-> o, todo |-> subs[o], next |-> v, running |-> NoOne]
      BY DEF Notification
    <3>6. StackSound(notices') /\ (EffectRuns(notices') => EffectRuns(stack))
      BY <2>4, <3>1, <3>5, PushKeepsSound
    <3>7. ASSUME ~nested' PROVE Current(notices', value', unflushed', knows', due', gone)
      <4>1. ~nested /\ ~UnderNotice(o) BY <3>1, <3>7
      <4>2. \A i \in 1..Len(stack) : stack[i].of # o BY <4>1
      <4>3. Current(stack, value, unflushed, knows', due, gone) BY <4>1
      <4>4. \A p \in Observed : p # o => value'[p] = value[p] /\ unflushed'[p] = unflushed[p]
        BY <2>3, <3>1
      <4>5. \A s \in due' : /\ Watched(s) = o => s \in ToSet(subs[o])
                            /\ Watched(s) # o => Watched(s) \in Observed /\ s \in due
        BY <2>6
      <4> HIDE DEF Current
      <4> QED BY <2>3, <2>4, <3>1, <3>5, <4>2, <4>3, <4>4, <4>5, PushKeepsCurrent
    <3>8. NoticesCurrent' BY <3>7 DEF NoticesCurrent
    <3>9. nested' \in BOOLEAN /\ (nested => nested') BY <1>0, <3>1 DEF UnderNotice
    <3> QED BY <1>0, <2>3, <2>6, <3>1, <3>3, <3>4, <3>6, <3>8, <3>9
  <2>8. CASE ~immediate
    <3>1. unflushed' = [unflushed EXCEPT ![o] = << v >>] /\ notices' = stack /\ nested' = nested
      BY <2>1, <2>8
    <3>2. << v >> \in Seq(AllValues) /\ << v >> # << >> OBVIOUS
    <3>3. /\ unflushed' \in [Observed -> Seq(AllValues)] /\ unflushed'[o] = << v >>
          /\ \A p \in Observed : p # o => unflushed'[p] = unflushed[p]
      BY <1>0, <3>1, <3>2
    <3>4. SubsSound'
      <4>1. \A p \in gone : subs[p] = << >> /\ unflushed'[p] = << >>
        BY <1>0, <2>2, <3>3 DEF ObsInv, SubsSound
      <4> QED BY <2>6, <4>1 DEF ObsInv, SubsSound
    <3>5. PendingSound' BY <2>3, <2>8, <3>3 DEF ObsInv, PendingSound
    <3>6. ASSUME ~nested PROVE Current(stack, value', unflushed', knows', due', gone)
      <4>1. Current(stack, value, unflushed, knows', due, gone) BY <3>6
      <4>2. ASSUME NEW i \in 1..Len(stack)
            PROVE  stack[i].of \in gone \/ unflushed'[stack[i].of] # << >> \/ stack[i].next = value'[stack[i].of]
        <5>1. stack[i] \in Notice BY DEF StackSound
        <5>2. stack[i].of \in Observed BY <5>1 DEF Notice
        <5> QED BY <2>3, <3>2, <3>3, <4>1, <5>2 DEF Current
      <4>3. ASSUME NEW s \in due' PROVE Told(s, stack, value', unflushed', knows')
        <5>1. CASE Watched(s) = o BY <3>2, <3>3, <5>1 DEF Told
        <5>2. CASE Watched(s) # o
          <6>1. s \in due /\ Watched(s) \in Observed BY <2>6, <4>3, <5>2
          <6>2. Told(s, stack, value, unflushed, knows') BY <4>1, <6>1 DEF Current
          <6>3. value'[Watched(s)] = value[Watched(s)] /\ unflushed'[Watched(s)] = unflushed[Watched(s)]
            BY <2>3, <3>3, <5>2, <6>1
          <6> QED BY <6>2, <6>3 DEF Told
        <5> QED BY <5>1, <5>2
      <4> QED BY <4>1, <4>2, <4>3 DEF Current
    <3>7. NoticesCurrent' BY <3>1, <3>6 DEF NoticesCurrent
    <3> QED BY <1>0, <2>3, <2>6, <3>1, <3>3, <3>4, <3>5, <3>7
  <2> QED BY <1>0, <2>7, <2>8
<1> QED BY <1>1, <1>2
(* An observer is set a value.                                             *)
LEMMA SetValueHolds ==
  ASSUME ObsInv, NEW v \in Values, SetValue(v)
  PROVE  ObsInv'
<1>1. /\ Assign("source", v, notices)
      /\ UNCHANGED << immediate, distinct, gone, subs, attached, cleanup, knows, tooLate, resources >>
  BY DEF SetValue
<1>2. "source" \in Observed /\ v \in AllValues BY DEF Observed, AllValues
<1>3. StackSound(notices) /\ (nested \/ Current(notices, value, unflushed, knows', due, gone))
  BY <1>1 DEF ObsInv, NoticesCurrent
<1>4. \A i \in 1..Len(notices) : UnderNotice(notices[i].of)
  <2>1. DOMAIN notices = 1..Len(notices) BY <1>3 DEF StackSound
  <2> QED BY <2>1 DEF UnderNotice
<1>5. UNCHANGED << immediate, subs, gone >> BY <1>1
<1>6. /\ value' \in [Observed -> AllValues] /\ unflushed' \in [Observed -> Seq(AllValues)]
      /\ due' \subseteq Subscribers /\ nested' \in BOOLEAN /\ (nested => nested')
      /\ SubsSound' /\ PendingSound' /\ StackSound(notices') /\ NoticesCurrent'
      /\ EffectRuns(notices') => EffectRuns(notices)
  BY <1>1, <1>2, <1>3, <1>4, <1>5, AssignHolds
<1>7. ObsType' BY <1>1, <1>6 DEF ObsInv, ObsType
<1>8. ChainIsLazy' BY <1>1 DEF ObsInv, ChainIsLazy
<1>9. EffectSound' BY <1>1, <1>6 DEF ObsInv, EffectSound
<1> QED BY <1>6, <1>7, <1>8, <1>9 DEF ObsInv

(* The pending change is told.                                             *)
LEMMA FlushHolds ==
  ASSUME ObsInv, NEW o \in Observed, NEW explicit, FlushObserver(o, explicit)
  PROVE  ObsInv'
<1>1. /\ unflushed[o] # << >> /\ unflushed' = [unflushed EXCEPT ![o] = << >>]
      /\ notices' = << Notification(o, unflushed[o][1]) >> \o notices
      /\ nested' = (nested \/ UnderNotice(o))
      /\ UNCHANGED << immediate, distinct, value, gone, subs, attached, cleanup, knows, due, tooLate, resources, sets >>
  BY DEF FlushObserver
<1>0. /\ value \in [Observed -> AllValues] /\ unflushed \in [Observed -> Seq(AllValues)]
      /\ due \subseteq Subscribers /\ nested \in BOOLEAN /\ gone \subseteq Observed
      /\ subs \in [Observed -> Seq(Subscribers)]
  BY DEF ObsInv, ObsType
<1>2. unflushed[o] = << value[o] >> /\ unflushed[o][1] = value[o] BY <1>1 DEF ObsInv, PendingSound
<1>3. /\ unflushed' \in [Observed -> Seq(AllValues)] /\ unflushed'[o] = << >>
      /\ \A p \in Observed : p # o => unflushed'[p] = unflushed[p]
  <2>1. << >> \in Seq(AllValues) OBVIOUS
  <2> QED BY <1>0, <1>1, <2>1
<1>4. value[o] \in AllValues /\ subs[o] \in Seq(Subscribers) /\ ListSound(o, subs[o])
  BY <1>0 DEF ObsInv, SubsSound
<1>5. Notification(o, value[o]) = [of |-> o, todo |-> subs[o], next |-> value[o], running |-> NoOne]
  BY DEF Notification
<1>6. StackSound(notices) BY DEF ObsInv
<1>7. StackSound(notices') /\ (EffectRuns(notices') => EffectRuns(notices))
  BY <1>1, <1>2, <1>4, <1>5, <1>6, PushKeepsSound
<1>8. ASSUME ~nested' PROVE Current(notices', value, unflushed', knows, due, gone)
  <2>1. ~nested /\ ~UnderNotice(o) BY <1>1, <1>8
  <2>2. \A i \in 1..Len(notices) : notices[i].of # o
    <3>1. DOMAIN notices = 1..Len(notices) BY <1>6 DEF StackSound
    <3> QED BY <2>1, <3>1 DEF UnderNotice
  <2>3. Current(notices, value, unflushed, knows, due, gone) BY <2>1 DEF ObsInv, NoticesCurrent
  <2>4. \A p \in Observed : p # o => value[p] = value[p] /\ unflushed'[p] = unflushed[p] BY <1>3
  <2>5. \A s \in due : /\ Watched(s) = o => s \in ToSet(subs[o])
                       /\ Watched(s) # o => Watched(s) \in Observed /\ s \in due
    BY WatchedIsObserved DEF ObsInv, SubsSound
  <2>6. Current(<< [of |-> o, todo |-> subs[o], next |-> value[o], running |-> NoOne] >> \o notices,
                value, unflushed', knows, due, gone)
    BY <1>4, <1>6, <2>2, <2>3, <2>4, <2>5, PushKeepsCurrent
  <2> QED BY <1>1, <1>2, <1>5, <2>6
<1>9. NoticesCurrent' BY <1>1, <1>8 DEF NoticesCurrent
<1>10. SubsSound'
  <2>1. \A p \in gone : unflushed'[p] = << >> BY <1>0, <1>3 DEF ObsInv, SubsSound
  <2> QED BY <1>1, <2>1 DEF ObsInv, SubsSound
<1>11. PendingSound' BY <1>1, <1>3 DEF ObsInv, PendingSound
<1>12. nested' \in BOOLEAN /\ (nested => nested') BY <1>0, <1>1 DEF UnderNotice
<1>13. ObsType' BY <1>1, <1>3, <1>12 DEF ObsInv, ObsType
<1>14. ChainIsLazy' BY <1>1 DEF ObsInv, ChainIsLazy
<1>15. EffectSound' BY <1>1, <1>7, <1>12 DEF ObsInv, EffectSound
<1> QED BY <1>7, <1>9, <1>10, <1>11, <1>13, <1>14, <1>15 DEF ObsInv

(* A function on 1..n is a sequence.                                       *)
LEMMA FunctionIsSequence ==
  ASSUME NEW S, NEW n \in Nat, NEW f \in [1..n -> S]
  PROVE  f \in Seq(S) /\ Len(f) = n
OBVIOUS

(* The notification on top is replaced.                                    *)
LEMMA TopReplaced ==
  ASSUME NEW ns \in Seq(Notice), ns # << >>, NEW n \in Notice
  PROVE  LET ms == [ns EXCEPT ![1] = n]
         IN  /\ ms \in Seq(Notice) /\ Len(ms) = Len(ns) /\ ms[1] = n
             /\ \A i \in 1..Len(ns) : i # 1 => ms[i] = ns[i]
<1> DEFINE ms == [ns EXCEPT ![1] = n]
<1>1. Len(ns) \in Nat /\ 1 \in 1..Len(ns) /\ ns \in [1..Len(ns) -> Notice] OBVIOUS
<1>2. ms \in [1..Len(ns) -> Notice] /\ ms[1] = n /\ \A i \in 1..Len(ns) : i # 1 => ms[i] = ns[i]
  BY <1>1
<1> HIDE DEF ms
<1>3. ms \in Seq(Notice) /\ Len(ms) = Len(ns) BY <1>1, <1>2, FunctionIsSequence
<1> QED BY <1>2, <1>3 DEF ms

(* The notification on top goes on.                                        *)
LEMMA NoticeGoesOn ==
  ASSUME NEW ns, StackSound(ns), ns # << >>, NEW n \in Notice, NoticeSound(n),
         n.of = ns[1].of, n.next = ns[1].next
  PROVE  LET ms == [ns EXCEPT ![1] = n]
         IN  /\ StackSound(ms) /\ Len(ms) = Len(ns) /\ ms[1] = n
             /\ \A i \in 1..Len(ns) : /\ ms[i].of = ns[i].of /\ ms[i].next = ns[i].next
                                      /\ i # 1 => ms[i] = ns[i]
<1> DEFINE ms == [ns EXCEPT ![1] = n]
<1>0. ns \in Seq(Notice) /\ Len(ns) \in Nat /\ 1 \in 1..Len(ns) BY DEF StackSound
<1>1. /\ ms \in Seq(Notice) /\ Len(ms) = Len(ns) /\ ms[1] = n
      /\ \A i \in 1..Len(ns) : i # 1 => ms[i] = ns[i]
  BY <1>0, TopReplaced, Zenon
<1> HIDE DEF ms
<1>2. StackSound(ms) BY <1>1 DEF StackSound
<1> QED BY <1>1, <1>2 DEF ms

(* The next subscriber of the snapshot is told the value.                  *)
LEMMA TellHolds ==
  ASSUME ObsInv, Tell
  PROVE  ObsInv'
<1> DEFINE n    == notices[1]
           s    == Head(n.todo)
           r    == IF s = "chain" THEN NoOne ELSE s
           rest == [notices EXCEPT ![1].todo = Tail(@), ![1].running = IF s = "chain" THEN NoOne ELSE s]
<1>1. /\ notices # << >> /\ n.todo # << >>
      /\ knows' = IF s \in due THEN [knows EXCEPT ![s] = n.next] ELSE knows
      /\ IF s = "chain" THEN Assign("derived", n.next, rest)
                        ELSE notices' = rest /\ UNCHANGED << value, unflushed, due, nested >>
      /\ IF s = "effect"
         THEN /\ resources' = resources - IF cleanup THEN 1 ELSE 0
              /\ cleanup' = FALSE
              /\ tooLate' = (tooLate \/ "effect" \notin ToSet(subs["source"]))
         ELSE UNCHANGED << cleanup, resources, tooLate >>
      /\ UNCHANGED << immediate, distinct, gone, subs, attached >>
  BY DEF Tell
<1>0. /\ value \in [Observed -> AllValues] /\ unflushed \in [Observed -> Seq(AllValues)]
      /\ knows \in [Subscribers -> AllValues] /\ resources \in Int
      /\ due \subseteq Subscribers /\ nested \in BOOLEAN /\ gone \subseteq Observed
      /\ cleanup \in BOOLEAN /\ tooLate \in BOOLEAN
  BY DEF ObsInv, ObsType
<1>2. StackSound(notices) /\ notices \in Seq(Notice) /\ 1 \in 1..Len(notices) /\ Len(notices) \in Nat
  BY <1>1 DEF ObsInv, StackSound
<1>3. n \in Notice /\ NoticeSound(n) BY <1>2 DEF StackSound
<1>4. n.todo \in Seq(Subscribers) /\ n.next \in AllValues /\ n.of \in Observed BY <1>3 DEF Notice
<1>5. /\ s \in Subscribers /\ Tail(n.todo) \in Seq(Subscribers) /\ Watched(s) = n.of
      /\ \A i \in 1..Len(Tail(n.todo)) : Watched(Tail(n.todo)[i]) = n.of
      /\ \A t \in ToSet(n.todo) : t = s \/ t \in ToSet(Tail(n.todo))
  <2> DEFINE q == n.todo
  <2>1. q \in Seq(Subscribers) /\ q # << >> /\ Len(q) \in Nat BY <1>1, <1>4
  <2>2. \A i \in 1..Len(q) : Watched(q[i]) = n.of BY <1>3 DEF NoticeSound
  <2> HIDE DEF q
  <2>3. Head(q) = q[1] /\ 1 \in 1..Len(q) BY <2>1
  <2>4. /\ Tail(q) \in Seq(Subscribers) /\ Len(Tail(q)) = Len(q) - 1
        /\ \A i \in 1..Len(Tail(q)) : i + 1 \in 1..Len(q) /\ Tail(q)[i] = q[i + 1]
    BY <2>1
  <2>5. \A t \in ToSet(q) : t = Head(q) \/ t \in ToSet(Tail(q))
    <3> TAKE t \in ToSet(q)
    <3>1. PICK i \in 1..Len(q) : t = q[i] BY <2>1 DEF ToSet
    <3>2. CASE i = 1 BY <2>3, <3>1, <3>2
    <3>3. CASE i # 1
      <4>1. i - 1 \in 1..Len(Tail(q)) /\ Tail(q)[i - 1] = t
        <5>1. i - 1 \in 1..Len(Tail(q)) /\ (i - 1) + 1 = i BY <2>1, <2>4, <3>1, <3>3
        <5> QED BY <2>4, <3>1, <5>1
      <4>2. DOMAIN Tail(q) = 1..Len(Tail(q)) BY <2>4
      <4> QED BY <4>1, <4>2 DEF ToSet
    <3> QED BY <3>2, <3>3
  <2> QED BY <2>1, <2>2, <2>3, <2>4, <2>5 DEF q
<1> DEFINE m == [n EXCEPT !.todo = Tail(@), !.running = r]
<1>6. rest = [notices EXCEPT ![1] = m] BY <1>2, <1>3 DEF Notice
<1>7. r \in Subscribers \cup {NoOne} /\ (r = "effect" => n.of = "source") /\ (r = "effect" <=> s = "effect")
  BY <1>5 DEF NoOne, Watched
<1>8. /\ StackSound(rest) /\ Len(rest) = Len(notices)
      /\ \A i \in 1..Len(notices) : /\ rest[i].of = notices[i].of /\ rest[i].next = notices[i].next
                                    /\ i # 1 => rest[i] = notices[i]
      /\ rest[1].todo = Tail(n.todo) /\ rest[1].running = r
  <2> HIDE DEF r, s
  <2>1. m \in Notice /\ m.of = n.of /\ m.next = n.next /\ m.todo = Tail(n.todo) /\ m.running = r
    BY <1>3, <1>5, <1>7 DEF Notice
  <2> HIDE DEF rest, m
  <2>2. NoticeSound(m) BY <1>5, <1>7, <2>1 DEF NoticeSound
  <2>3. notices # << >> BY <1>1
  <2> DEFINE k == [notices EXCEPT ![1] = m]
  <2>4. /\ StackSound(k) /\ Len(k) = Len(notices) /\ k[1] = m
        /\ \A i \in 1..Len(notices) : /\ k[i].of = notices[i].of /\ k[i].next = notices[i].next
                                      /\ i # 1 => k[i] = notices[i]
    BY <1>2, <2>1, <2>2, <2>3, NoticeGoesOn, Zenon
  <2>5. rest = k BY <1>6
  <2> HIDE DEF k
  <2> QED BY <2>1, <2>4, <2>5
<1> HIDE DEF rest, r
<1>9. s \in due => n.of \notin gone
  <2>1. s \in due => subs[n.of] # << >> BY <1>5 DEF ObsInv, SubsSound, ToSet
  <2> QED BY <2>1 DEF ObsInv, SubsSound
<1>10. knows' \in [Subscribers -> AllValues] /\ (s \in due => knows'[s] = n.next)
       /\ \A t \in Subscribers : t # s => knows'[t] = knows[t]
  BY <1>0, <1>1, <1>4, <1>5
<1> HIDE DEF s
<1>11. ASSUME ~nested PROVE Current(rest, value, unflushed, knows', due, gone)
  <2>1. Current(notices, value, unflushed, knows, due, gone) BY <1>11 DEF ObsInv, NoticesCurrent
  <2>2. \A i, j \in 1..Len(rest) : rest[i].of = rest[j].of => i = j BY <1>8, <2>1 DEF Current
  <2>3. \A i \in 1..Len(rest) :
           \/ rest[i].of \in gone \/ unflushed[rest[i].of] # << >>
           \/ rest[i].next = value[rest[i].of]
    BY <1>8, <2>1 DEF Current
  <2>4. ASSUME NEW t \in due PROVE Told(t, rest, value, unflushed, knows')
    <3>1. CASE t = s
      <4>1. unflushed[n.of] # << >> \/ n.next = value[n.of] BY <1>2, <1>9, <2>1, <2>4, <3>1 DEF Current
      <4> QED BY <1>5, <1>10, <2>4, <3>1, <4>1 DEF Told
    <3>2. CASE t # s
      <4>1. Told(t, notices, value, unflushed, knows) BY <2>1, <2>4 DEF Current
      <4>2. t \in Subscribers /\ knows'[t] = knows[t] BY <1>0, <1>10, <2>4, <3>2
      <4>3. ASSUME NEW i \in 1..Len(notices), notices[i].of = Watched(t), t \in ToSet(notices[i].todo),
                   notices[i].next = value[Watched(t)]
            PROVE  Told(t, rest, value, unflushed, knows')
        <5>1. i \in 1..Len(rest) /\ rest[i].of = Watched(t) /\ rest[i].next = value[Watched(t)]
          BY <1>8, <4>3
        <5>2. t \in ToSet(rest[i].todo)
          <6>1. CASE i = 1 BY <1>5, <1>8, <3>2, <4>3, <6>1
          <6>2. CASE i # 1 BY <1>8, <4>3, <6>2
          <6> QED BY <6>1, <6>2
        <5> QED BY <5>1, <5>2 DEF Told
      <4> QED BY <4>1, <4>2, <4>3 DEF Told
    <3> QED BY <3>1, <3>2
  <2> QED BY <2>2, <2>3, <2>4 DEF Current
<1>12. /\ value' \in [Observed -> AllValues] /\ unflushed' \in [Observed -> Seq(AllValues)]
       /\ due' \subseteq Subscribers /\ nested' \in BOOLEAN /\ (nested => nested')
       /\ SubsSound' /\ PendingSound' /\ StackSound(notices') /\ NoticesCurrent'
       /\ EffectRuns(notices') => EffectRuns(rest)
  <2>1. CASE s = "chain"
    <3>1. Assign("derived", n.next, rest) BY <1>1, <2>1
    <3>2. "derived" \in Observed BY DEF Observed
    <3>3. \A i \in 1..Len(rest) : UnderNotice(rest[i].of)
      <4>1. DOMAIN notices = 1..Len(notices) BY <1>2
      <4> QED BY <1>8, <4>1 DEF UnderNotice
    <3>4. UNCHANGED << immediate, subs, gone >> BY <1>1
    <3> HIDE DEF n
    <3> QED BY <1>4, <1>8, <1>11, <3>1, <3>2, <3>3, <3>4, AssignHolds
  <2>2. CASE s # "chain"
    <3>1. notices' = rest /\ UNCHANGED << value, unflushed, due, nested, gone, subs, immediate >>
      BY <1>1, <2>2
    <3>2. SubsSound' /\ PendingSound' BY <3>1 DEF ObsInv, SubsSound, PendingSound
    <3>3. NoticesCurrent' BY <1>11, <3>1 DEF NoticesCurrent
    <3> QED BY <1>0, <1>8, <3>1, <3>2, <3>3
  <2> QED BY <2>1, <2>2
<1>13. EffectSound'
  <2> SUFFICES ASSUME ~nested', ~tooLate', gone = {}
               PROVE  /\ resources' = IF cleanup' /\ "effect" \in ToSet(subs["source"]) THEN 1 ELSE 0
                      /\ EffectRuns(notices') => ~cleanup' /\ "effect" \in ToSet(subs["source"])
    BY <1>1 DEF EffectSound
  <2>1. ~nested /\ ~tooLate BY <1>0, <1>1, <1>12
  <2>2. /\ resources = IF cleanup /\ "effect" \in ToSet(subs["source"]) THEN 1 ELSE 0
        /\ EffectRuns(notices) => ~cleanup /\ "effect" \in ToSet(subs["source"])
    BY <2>1 DEF ObsInv, EffectSound
  <2>3. CASE s = "effect"
    <3>1. /\ resources' = resources - IF cleanup THEN 1 ELSE 0
          /\ cleanup' = FALSE /\ "effect" \in ToSet(subs["source"])
      BY <1>1, <2>3
    <3>2. resources' = 0 BY <1>0, <2>2, <3>1
    <3> QED BY <3>1, <3>2
  <2>4. CASE s # "effect"
    <3>1. UNCHANGED << cleanup, resources, tooLate >> BY <1>1, <2>4
    <3>2. EffectRuns(rest) => EffectRuns(notices) BY <1>7, <1>8, <2>4 DEF EffectRuns
    <3> QED BY <1>12, <2>2, <3>1, <3>2
  <2> QED BY <2>3, <2>4
<1>14. resources' \in Int /\ cleanup' \in BOOLEAN /\ tooLate' \in BOOLEAN
  <2>1. CASE s = "effect"
    <3>1. /\ resources' = resources - IF cleanup THEN 1 ELSE 0
          /\ cleanup' = FALSE
          /\ tooLate' = (tooLate \/ "effect" \notin ToSet(subs["source"]))
      BY <1>1, <2>1
    <3>2. resources' \in Int BY <1>0, <3>1
    <3>3. cleanup' \in BOOLEAN /\ tooLate' \in BOOLEAN BY <1>0, <3>1, Zenon
    <3> QED BY <3>2, <3>3
  <2>2. CASE s # "effect" BY <1>0, <1>1, <2>2
  <2> QED BY <2>1, <2>2
<1>15. ObsType' BY <1>1, <1>10, <1>12, <1>14 DEF ObsInv, ObsType
<1>16. ChainIsLazy' BY <1>1 DEF ObsInv, ChainIsLazy
<1> QED BY <1>12, <1>13, <1>15, <1>16 DEF ObsInv

(* A subscriber returns; the effect's cleanup is set, with nothing open.   *)
LEMMA ReturnsHolds ==
  ASSUME ObsInv, NEW cleans \in BOOLEAN, Returns(cleans)
  PROVE  ObsInv'
<1>1. /\ notices # << >> /\ (cleans => notices[1].running = "effect")
      /\ notices' = [notices EXCEPT ![1].running = NoOne]
      /\ cleanup' = (cleanup \/ cleans)
      /\ resources' = resources + IF cleans THEN 1 ELSE 0
      /\ UNCHANGED << immediate, distinct, value, unflushed, gone, subs, attached, knows, due, nested, tooLate >>
  BY DEF Returns
<1>0. resources \in Int /\ cleanup \in BOOLEAN BY DEF ObsInv, ObsType
<1>2. StackSound(notices) /\ notices \in Seq(Notice) /\ 1 \in 1..Len(notices) /\ Len(notices) \in Nat
  BY <1>1 DEF ObsInv, StackSound
<1>3. notices[1] \in Notice /\ NoticeSound(notices[1]) BY <1>2 DEF StackSound
<1> DEFINE m == [notices[1] EXCEPT !.running = NoOne]
<1>5. notices' = [notices EXCEPT ![1] = m] BY <1>1, <1>2, <1>3 DEF Notice
<1>7. NoOne \in Subscribers \cup {NoOne} /\ NoOne # "effect" BY DEF NoOne
<1>6. /\ m \in Notice /\ m.of = notices[1].of /\ m.next = notices[1].next
      /\ m.todo = notices[1].todo /\ m.running = NoOne
  BY <1>3, <1>7 DEF Notice
<1> HIDE DEF m
<1>8. /\ StackSound(notices') /\ Len(notices') = Len(notices)
      /\ \A i \in 1..Len(notices) : /\ notices'[i].of = notices[i].of /\ notices'[i].next = notices[i].next
                                    /\ i # 1 => notices'[i] = notices[i]
      /\ notices'[1] = m
  <2>1. NoticeSound(m) BY <1>3, <1>6, <1>7 DEF NoticeSound
  <2>2. notices # << >> BY <1>1
  <2> DEFINE k == [notices EXCEPT ![1] = m]
  <2>4. /\ StackSound(k) /\ Len(k) = Len(notices) /\ k[1] = m
        /\ \A i \in 1..Len(notices) : /\ k[i].of = notices[i].of /\ k[i].next = notices[i].next
                                      /\ i # 1 => k[i] = notices[i]
    BY <1>2, <1>6, <2>1, <2>2, NoticeGoesOn, Zenon
  <2>5. notices' = k BY <1>5
  <2> HIDE DEF k
  <2> QED BY <2>4, <2>5
<1>9. \A i \in 1..Len(notices) : notices'[i].todo = notices[i].todo BY <1>6, <1>8
<1>10. NoticesCurrent'
  <2> SUFFICES ASSUME ~nested PROVE Current(notices', value, unflushed, knows, due, gone)
    BY <1>1 DEF NoticesCurrent
  <2>1. Current(notices, value, unflushed, knows, due, gone) BY DEF ObsInv, NoticesCurrent
  <2>2. \A t \in due : Told(t, notices', value, unflushed, knows) BY <1>8, <1>9, <2>1 DEF Current, Told
  <2> QED BY <1>8, <2>1, <2>2 DEF Current
<1>11. EffectSound'
  <2> SUFFICES ASSUME ~nested, ~tooLate, gone = {}
               PROVE  /\ resources' = IF cleanup' /\ "effect" \in ToSet(subs["source"]) THEN 1 ELSE 0
                      /\ EffectRuns(notices') => ~cleanup' /\ "effect" \in ToSet(subs["source"])
    BY <1>1 DEF EffectSound
  <2>1. /\ resources = IF cleanup /\ "effect" \in ToSet(subs["source"]) THEN 1 ELSE 0
        /\ EffectRuns(notices) => ~cleanup /\ "effect" \in ToSet(subs["source"])
    BY DEF ObsInv, EffectSound
  <2>2. EffectRuns(notices') => EffectRuns(notices) BY <1>6, <1>7, <1>8 DEF EffectRuns
  <2>3. CASE cleans
    <3>1. notices[1].running = "effect" BY <1>1, <2>3
    <3>2. EffectRuns(notices) BY <1>2, <3>1 DEF EffectRuns
    <3>3. ~EffectRuns(notices')
      <4> SUFFICES ASSUME EffectRuns(notices') PROVE FALSE OBVIOUS
      <4>1. PICK i \in 1..Len(notices) : notices'[i].running = "effect" BY <1>8 DEF EffectRuns
      <4>2. i # 1 /\ notices[i].running = "effect" BY <1>6, <1>7, <1>8, <4>1
      <4>3. notices[i].of = "source" /\ notices[1].of = "source"
        BY <1>2, <1>3, <3>1, <4>2 DEF StackSound, NoticeSound
      <4>4. Current(notices, value, unflushed, knows, due, gone) BY DEF ObsInv, NoticesCurrent
      <4> QED BY <1>2, <4>2, <4>3, <4>4 DEF Current
    <3>4. resources = 0 /\ "effect" \in ToSet(subs["source"]) BY <2>1, <3>2
    <3>5. resources' = 1 BY <1>1, <2>3, <3>4
    <3>6. cleanup' BY <1>1, <2>3, Zenon
    <3> QED BY <3>3, <3>4, <3>5, <3>6
  <2>4. CASE ~cleans
    <3>1. cleanup' = cleanup BY <1>0, <1>1, <2>4
    <3>2. resources' = resources BY <1>0, <1>1, <2>4
    <3> QED BY <2>1, <2>2, <3>1, <3>2
  <2> QED BY <2>3, <2>4
<1>12. resources' \in Int /\ cleanup' \in BOOLEAN BY <1>0, <1>1
<1>13. ObsType' BY <1>1, <1>12 DEF ObsInv, ObsType
<1>14. ChainIsLazy' BY <1>1 DEF ObsInv, ChainIsLazy
<1>15. SubsSound' /\ PendingSound' BY <1>1 DEF ObsInv, SubsSound, PendingSound
<1> QED BY <1>8, <1>10, <1>11, <1>13, <1>14, <1>15 DEF ObsInv
(* Nobody of the snapshot is left.                                         *)
LEMMA AllToldHolds ==
  ASSUME ObsInv, AllTold
  PROVE  ObsInv'
<1>1. /\ notices # << >> /\ notices[1].todo = << >> /\ notices' = Tail(notices)
      /\ UNCHANGED << immediate, distinct, value, unflushed, gone, subs, attached >>
      /\ UNCHANGED << cleanup, knows, due, nested, tooLate, resources, sets >>
  BY DEF AllTold, obsPast
<1>2. notices \in Seq(Notice) /\ Len(notices) \in Nat BY DEF ObsInv, StackSound
<1> DEFINE q == Tail(notices)
<1>3. /\ q \in Seq(Notice) /\ Len(q) = Len(notices) - 1
      /\ \A i \in 1..Len(q) : i + 1 \in 1..Len(notices) /\ q[i] = notices[i + 1]
  BY <1>1, <1>2
<1>4. notices' = q BY <1>1
<1> HIDE DEF q
<1>5. StackSound(notices') BY <1>3, <1>4 DEF ObsInv, StackSound
<1>6. ASSUME ~nested PROVE Current(q, value, unflushed, knows, due, gone)
  <2>1. Current(notices, value, unflushed, knows, due, gone) BY <1>6 DEF ObsInv, NoticesCurrent
  <2>2. ASSUME NEW i \in 1..Len(q), NEW j \in 1..Len(q), q[i].of = q[j].of PROVE i = j
    <3>1. i + 1 = j + 1 BY <1>3, <2>1, <2>2 DEF Current
    <3> QED BY <1>2, <1>3, <3>1
  <2>3. \A i \in 1..Len(q) : q[i].of \in gone \/ unflushed[q[i].of] # << >> \/ q[i].next = value[q[i].of]
    BY <1>3, <2>1 DEF Current
  <2>4. ASSUME NEW s \in due PROVE Told(s, q, value, unflushed, knows)
    <3>1. Told(s, notices, value, unflushed, knows) BY <2>1 DEF Current
    <3>2. ASSUME NEW i \in 1..Len(notices), notices[i].of = Watched(s), s \in ToSet(notices[i].todo),
                 notices[i].next = value[Watched(s)]
          PROVE  Told(s, q, value, unflushed, knows)
      <4>1. i # 1 BY <1>1, <3>2 DEF ToSet
      <4>2. i - 1 \in 1..Len(q) /\ (i - 1) + 1 = i BY <1>2, <1>3, <4>1
      <4>3. q[i - 1] = notices[i] BY <1>3, <4>2
      <4> QED BY <3>2, <4>2, <4>3 DEF Told
    <3> QED BY <3>1, <3>2 DEF Told
  <2> QED BY <2>2, <2>3, <2>4 DEF Current
<1>7. NoticesCurrent' BY <1>1, <1>4, <1>6 DEF NoticesCurrent
<1>8. EffectRuns(notices') => EffectRuns(notices) BY <1>3, <1>4 DEF EffectRuns
<1>9. EffectSound' BY <1>1, <1>8 DEF ObsInv, EffectSound
<1>10. ObsType' BY <1>1 DEF ObsInv, ObsType
<1>11. ChainIsLazy' BY <1>1 DEF ObsInv, ChainIsLazy
<1>12. SubsSound' /\ PendingSound' BY <1>1 DEF ObsInv, SubsSound, PendingSound
<1> QED BY <1>5, <1>7, <1>9, <1>10, <1>11, <1>12 DEF ObsInv

(* Who left is not due any more.                                           *)
LEMMA FewerDue ==
  ASSUME NEW ns, NEW val, NEW uf, NEW kn, NEW du, NEW gn, NEW uf2, NEW kn2, NEW du2, NEW gn2,
         Current(ns, val, uf, kn, du, gn), StackSound(ns), du2 \subseteq du, gn \subseteq gn2,
         \A s \in du2 : kn2[s] = kn[s] /\ Watched(s) \notin gn2,
         \A o \in Observed : o \notin gn2 => uf2[o] = uf[o]
  PROVE  Current(ns, val, uf2, kn2, du2, gn2)
<1>1. \A i \in 1..Len(ns) : ns[i].of \in Observed
  <2> TAKE i \in 1..Len(ns)
  <2>1. ns[i] \in Notice BY DEF StackSound
  <2> QED BY <2>1 DEF Notice
<1>2. \A i \in 1..Len(ns) : ns[i].of \in gn2 \/ uf2[ns[i].of] # << >> \/ ns[i].next = val[ns[i].of]
  BY <1>1 DEF Current
<1>3. ASSUME NEW s \in du2 PROVE Told(s, ns, val, uf2, kn2)
  <2>1. Told(s, ns, val, uf, kn) BY DEF Current
  <2>2. uf2[Watched(s)] = uf[Watched(s)] /\ kn2[s] = kn[s] BY WatchedIsObserved
  <2> QED BY <2>1, <2>2 DEF Told
<1> QED BY <1>2, <1>3 DEF Current

(* Nobody is subscribed to an empty list, and a list with nobody is empty. *)
LEMMA NobodyIsEmpty ==
  ASSUME NEW S, NEW q \in Seq(S)
  PROVE  q = << >> <=> ToSet(q) = {}
<1>1. DOMAIN q = 1..Len(q) /\ Len(q) \in Nat OBVIOUS
<1>2. q # << >> => q[1] \in ToSet(q) BY <1>1 DEF ToSet
<1>3. q = << >> => ToSet(q) = {} BY DEF ToSet
<1> QED BY <1>2, <1>3

(* subscribe() and effect().                                               *)
LEMMA SubscribeHolds ==
  ASSUME ObsInv, NEW s \in Subscribers, SubscribeTo(s)
  PROVE  ObsInv'
<1> DEFINE chains == s = "reader" /\ ~attached
<1>1. /\ s # "chain" /\ s \notin ToSet(subs[Watched(s)])
      /\ attached' = (attached \/ s = "reader")
      /\ subs' = [o \in Observed |->
            IF o \in gone THEN subs[o]
            ELSE IF o = Watched(s) THEN With(subs[o], s)
            ELSE IF o = "source" /\ chains THEN With(subs[o], "chain") ELSE subs[o]]
      /\ cleanup' = (cleanup /\ s # "effect")
      /\ UNCHANGED << immediate, distinct, value, unflushed, gone, notices, knows, due, nested, tooLate, resources, sets >>
  BY DEF SubscribeTo
<1>0. /\ subs \in [Observed -> Seq(Subscribers)] /\ gone \subseteq Observed /\ due \subseteq Subscribers
      /\ cleanup \in BOOLEAN /\ attached \in BOOLEAN /\ resources \in Int
      /\ \A o \in Observed : subs[o] \in Seq(Subscribers) /\ ListSound(o, subs[o])
  BY DEF ObsInv, ObsType, SubsSound
<1>2. "chain" \in Subscribers /\ Watched("chain") = "source" /\ Watched("effect") = "source"
      /\ Watched("reader") = "derived" /\ Watched(s) \in Observed
      /\ "source" \in Observed /\ "derived" \in Observed
  BY DEF Subscribers, Watched, Observed
<1>3. ASSUME NEW o \in Observed
      PROVE  /\ subs'[o] \in Seq(Subscribers) /\ ListSound(o, subs'[o]) /\ ToSet(subs[o]) \subseteq ToSet(subs'[o])
             /\ o \in gone => subs'[o] = subs[o]
             /\ o \notin gone /\ o = Watched(s) => ToSet(subs'[o]) = ToSet(subs[o]) \cup {s} /\ subs'[o] # << >>
             /\ o \notin gone /\ o # Watched(s) /\ o = "source" /\ chains
                  => ToSet(subs'[o]) = ToSet(subs[o]) \cup {"chain"} /\ subs'[o] # << >>
             /\ o # Watched(s) /\ ~(o = "source" /\ chains) => subs'[o] = subs[o]
  <2>1. subs[o] \in Seq(Subscribers) /\ ListSound(o, subs[o]) BY <1>0
  <2>2. CASE o \in gone
    <3>1. subs'[o] = subs[o] BY <1>1, <2>2
    <3> QED BY <2>1, <2>2, <3>1
  <2>3. CASE o \notin gone /\ o = Watched(s)
    <3>1. subs'[o] = With(subs[o], s) BY <1>1, <2>3
    <3>2. /\ With(subs[o], s) \in Seq(Subscribers) /\ ListSound(o, With(subs[o], s))
          /\ ToSet(With(subs[o], s)) = ToSet(subs[o]) \cup {s} /\ With(subs[o], s) # << >>
      BY <2>1, <2>3, WithOne
    <3> QED BY <2>3, <3>1, <3>2
  <2>4. CASE o \notin gone /\ o # Watched(s) /\ o = "source" /\ chains
    <3>1. subs'[o] = With(subs[o], "chain") BY <1>1, <2>4
    <3>2. /\ With(subs[o], "chain") \in Seq(Subscribers) /\ ListSound(o, With(subs[o], "chain"))
          /\ ToSet(With(subs[o], "chain")) = ToSet(subs[o]) \cup {"chain"} /\ With(subs[o], "chain") # << >>
      BY <1>2, <2>1, <2>4, WithOne
    <3> QED BY <2>4, <3>1, <3>2
  <2>5. CASE o \notin gone /\ o # Watched(s) /\ ~(o = "source" /\ chains)
    <3>1. subs'[o] = subs[o] BY <1>1, <2>5
    <3> QED BY <2>1, <2>5, <3>1
  <2> QED BY <2>2, <2>3, <2>4, <2>5
<1>4. subs' \in [Observed -> Seq(Subscribers)]
  <2>1. subs' = [o \in Observed |-> subs'[o]] BY <1>1
  <2> QED BY <1>3, <2>1
<1>5. SubsSound'
  <2>1. \A o \in Observed : ListSound(o, subs'[o]) BY <1>3
  <2>2. \A t \in due : t \in ToSet(subs'[Watched(t)]) BY <1>3, WatchedIsObserved DEF ObsInv, SubsSound
  <2>3. \A o \in gone : subs'[o] = << >> /\ unflushed[o] = << >> BY <1>0, <1>3 DEF ObsInv, SubsSound
  <2> QED BY <1>1, <2>1, <2>2, <2>3 DEF SubsSound
<1>6. ChainIsLazy'
  <2> SUFFICES ASSUME gone = {}
               PROVE  /\ attached' <=> "chain" \in ToSet(subs'["source"])
                      /\ attached' <=> subs'["derived"] # << >>
    BY <1>1 DEF ChainIsLazy
  <2>1. /\ attached <=> "chain" \in ToSet(subs["source"])
        /\ attached <=> subs["derived"] # << >>
    BY DEF ObsInv, ChainIsLazy
  <2>2. CASE s = "reader"
    <3>1. attached' BY <1>1, <2>2, Zenon
    <3>2. subs'["derived"] # << >> BY <1>2, <1>3, <2>2
    <3>3. "chain" \in ToSet(subs'["source"])
      <4>1. CASE attached BY <1>2, <1>3, <2>1, <4>1
      <4>2. CASE ~attached
        <5>1. chains /\ "source" # Watched(s) BY <1>2, <2>2, <4>2
        <5> HIDE DEF chains
        <5> QED BY <1>2, <1>3, <5>1
      <4> QED BY <4>1, <4>2
    <3> QED BY <3>1, <3>2, <3>3
  <2>3. CASE s # "reader"
    <3>1. attached' = attached BY <1>0, <1>1, <2>3, Zenon
    <3>2. Watched(s) = "source" /\ ~chains BY <2>3 DEF Watched
    <3> HIDE DEF chains
    <3>3. subs'["derived"] = subs["derived"] BY <1>2, <1>3, <3>2
    <3>4. ToSet(subs'["source"]) = ToSet(subs["source"]) \cup {s} BY <1>2, <1>3, <3>2
    <3> QED BY <1>1, <2>1, <3>1, <3>3, <3>4
  <2> QED BY <2>2, <2>3
<1>7. EffectSound'
  <2> SUFFICES ASSUME ~nested, ~tooLate, gone = {}
               PROVE  /\ resources = IF cleanup' /\ "effect" \in ToSet(subs'["source"]) THEN 1 ELSE 0
                      /\ EffectRuns(notices) => ~cleanup' /\ "effect" \in ToSet(subs'["source"])
    BY <1>1 DEF EffectSound
  <2>1. /\ resources = IF cleanup /\ "effect" \in ToSet(subs["source"]) THEN 1 ELSE 0
        /\ EffectRuns(notices) => ~cleanup /\ "effect" \in ToSet(subs["source"])
    BY DEF ObsInv, EffectSound
  <2>2. CASE s = "effect"
    <3>1. ~cleanup' BY <1>1, <2>2, Zenon
    <3>2. "effect" \notin ToSet(subs["source"]) BY <1>1, <1>2, <2>2
    <3> QED BY <2>1, <3>1, <3>2
  <2>3. CASE s # "effect"
    <3>1. cleanup' = cleanup BY <1>0, <1>1, <2>3, Zenon
    <3>2. "effect" \in ToSet(subs'["source"]) <=> "effect" \in ToSet(subs["source"])
      <4>1. CASE chains
        <5>1. "source" # Watched(s) BY <1>2, <4>1
        <5> HIDE DEF chains
        <5> QED BY <1>2, <1>3, <4>1, <5>1
      <4>2. CASE ~chains
        <5> HIDE DEF chains
        <5>1. CASE "source" = Watched(s) BY <1>2, <1>3, <2>3, <5>1
        <5>2. CASE "source" # Watched(s) BY <1>2, <1>3, <4>2, <5>2
        <5> QED BY <5>1, <5>2
      <4> QED BY <4>1, <4>2
    <3> QED BY <2>1, <3>1, <3>2
  <2> QED BY <2>2, <2>3
<1>8. attached' \in BOOLEAN /\ cleanup' \in BOOLEAN BY <1>0, <1>1, Zenon
<1>9. ObsType' BY <1>1, <1>4, <1>8 DEF ObsInv, ObsType
<1>10. PendingSound' /\ StackSound(notices') /\ NoticesCurrent'
  BY <1>1 DEF ObsInv, PendingSound, StackSound, NoticesCurrent
<1> QED BY <1>5, <1>6, <1>7, <1>9, <1>10 DEF ObsInv
(* Whoever is due watches an observer that is not disposed.                *)
LEMMA DueIsLive ==
  ASSUME ObsInv, NEW s \in due
  PROVE  Watched(s) \notin gone
<1>1. s \in ToSet(subs[Watched(s)]) BY DEF ObsInv, SubsSound
<1>2. subs[Watched(s)] # << >> BY <1>1 DEF ToSet
<1> QED BY <1>2 DEF ObsInv, SubsSound

(* The function that subscribe() or effect() returned.                     *)
LEMMA LeaveHolds ==
  ASSUME ObsInv, NEW s \in Subscribers, Leave(s)
  PROVE  ObsInv'
<1> DEFINE left == Without(subs[Watched(s)], s)
           detaches == s = "reader" /\ Detaches(left)
<1>1. /\ s \in ToSet(subs[Watched(s)]) /\ s # "chain"
      /\ subs' = [o \in Observed |->
           IF o = Watched(s) THEN left
           ELSE IF o = "source" /\ detaches THEN Without(subs[o], "chain") ELSE subs[o]]
      /\ attached' = (attached /\ ~detaches)
      /\ due' = due \ ({s} \cup IF detaches THEN {"chain"} ELSE {})
      /\ knows' = [t \in Subscribers |-> IF t \in due' THEN knows[t] ELSE 0]
      /\ IF s = "effect"
         THEN /\ resources' = resources - IF cleanup THEN 1 ELSE 0
              /\ tooLate' = (tooLate \/ \E i \in DOMAIN notices : notices[i].running = "effect")
         ELSE UNCHANGED << resources, tooLate >>
      /\ UNCHANGED << immediate, distinct, value, unflushed, gone, notices, cleanup, nested, sets >>
  BY DEF Leave
<1>0. /\ subs \in [Observed -> Seq(Subscribers)] /\ gone \subseteq Observed /\ due \subseteq Subscribers
      /\ cleanup \in BOOLEAN /\ attached \in BOOLEAN /\ resources \in Int /\ tooLate \in BOOLEAN
      /\ knows \in [Subscribers -> AllValues]
      /\ \A o \in Observed : subs[o] \in Seq(Subscribers) /\ ListSound(o, subs[o])
  BY DEF ObsInv, ObsType, SubsSound
<1>2. /\ Watched("chain") = "source" /\ Watched("effect") = "source" /\ Watched("reader") = "derived"
      /\ Watched(s) \in Observed /\ "source" \in Observed /\ "derived" \in Observed
      /\ \A t : Watched(t) = "derived" => t = "reader"
  BY DEF Watched, Observed
<1>3. left \in Seq(Subscribers) /\ ListSound(Watched(s), left) /\ ToSet(left) = ToSet(subs[Watched(s)]) \ {s}
  <2>1. subs[Watched(s)] \in Seq(Subscribers) /\ ListSound(Watched(s), subs[Watched(s)]) BY <1>0, <1>2
  <2> QED BY <2>1, WithoutOne
<1>4. s = "reader" => left = << >>
  <2> HAVE s = "reader"
  <2>1. subs["derived"] \in Seq(Subscribers) /\ ListSound("derived", subs["derived"]) BY <1>0, <1>2
  <2>2. \A t \in ToSet(subs["derived"]) : t = "reader" BY <1>2, <2>1 DEF ToSet, ListSound
  <2>3. ToSet(left) = {} BY <1>2, <1>3, <2>2
  <2> HIDE DEF left
  <2> QED BY <1>3, <2>3, NobodyIsEmpty
<1>5. detaches <=> s = "reader" BY <1>4 DEF Detaches
<1> HIDE DEF left, detaches
<1>6. ASSUME NEW o \in Observed
      PROVE  /\ subs'[o] \in Seq(Subscribers) /\ ListSound(o, subs'[o])
             /\ ToSet(subs'[o]) = IF o = Watched(s) THEN ToSet(subs[o]) \ {s}
                                  ELSE IF o = "source" /\ s = "reader" THEN ToSet(subs[o]) \ {"chain"}
                                  ELSE ToSet(subs[o])
  <2>1. subs[o] \in Seq(Subscribers) /\ ListSound(o, subs[o]) BY <1>0
  <2>2. CASE o = Watched(s)
    <3>1. subs'[o] = left BY <1>1, <2>2
    <3> QED BY <1>3, <2>2, <3>1
  <2>3. CASE o # Watched(s) /\ o = "source" /\ s = "reader"
    <3>1. subs'[o] = Without(subs[o], "chain") BY <1>1, <1>5, <2>3
    <3>2. /\ Without(subs[o], "chain") \in Seq(Subscribers) /\ ListSound(o, Without(subs[o], "chain"))
          /\ ToSet(Without(subs[o], "chain")) = ToSet(subs[o]) \ {"chain"}
      BY <2>1, WithoutOne
    <3> QED BY <2>3, <3>1, <3>2
  <2>4. CASE o # Watched(s) /\ ~(o = "source" /\ s = "reader")
    <3>1. subs'[o] = subs[o] BY <1>1, <1>5, <2>4
    <3> QED BY <2>1, <2>4, <3>1
  <2> QED BY <2>2, <2>3, <2>4
<1>7. subs' \in [Observed -> Seq(Subscribers)]
  <2>1. subs' = [o \in Observed |-> subs'[o]] BY <1>1
  <2> QED BY <1>6, <2>1
<1>8. due' \subseteq due /\ s \notin due' /\ (s = "reader" => "chain" \notin due') BY <1>1, <1>5
<1>9. SubsSound'
  <2>1. \A o \in Observed : ListSound(o, subs'[o]) BY <1>6
  <2>2. ASSUME NEW t \in due' PROVE t \in ToSet(subs'[Watched(t)])
    <3>1. t \in ToSet(subs[Watched(t)]) /\ t # s /\ (s = "reader" => t # "chain")
      BY <1>8 DEF ObsInv, SubsSound
    <3>2. Watched(t) \in Observed BY WatchedIsObserved
    <3> DEFINE p == Watched(t)
    <3>3. ToSet(subs'[p]) = IF p = Watched(s) THEN ToSet(subs[p]) \ {s}
                            ELSE IF p = "source" /\ s = "reader" THEN ToSet(subs[p]) \ {"chain"}
                            ELSE ToSet(subs[p])
      BY <1>6, <3>2
    <3> QED BY <3>1, <3>3
  <2>3. ASSUME NEW o \in gone PROVE subs'[o] = << >> /\ unflushed[o] = << >>
    <3>1. subs[o] = << >> /\ unflushed[o] = << >> /\ o \in Observed BY <1>0 DEF ObsInv, SubsSound
    <3>2. ToSet(subs[o]) = {} BY <3>1 DEF ToSet
    <3>3. ToSet(subs'[o]) = {} BY <1>6, <3>1, <3>2
    <3> QED BY <1>6, <3>1, <3>3, NobodyIsEmpty
  <2> QED BY <1>1, <2>1, <2>2, <2>3 DEF SubsSound
<1>10. ChainIsLazy'
  <2> SUFFICES ASSUME gone = {}
               PROVE  /\ attached' <=> "chain" \in ToSet(subs'["source"])
                      /\ attached' <=> subs'["derived"] # << >>
    BY <1>1 DEF ChainIsLazy
  <2>1. /\ attached <=> "chain" \in ToSet(subs["source"])
        /\ attached <=> subs["derived"] # << >>
    BY DEF ObsInv, ChainIsLazy
  <2>2. CASE s = "reader"
    <3>1. ~attached' BY <1>1, <1>5, <2>2, Zenon
    <3>2. subs'["derived"] = << >> BY <1>1, <1>2, <1>4, <2>2
    <3>3. "chain" \notin ToSet(subs'["source"]) BY <1>2, <1>6, <2>2
    <3> QED BY <3>1, <3>2, <3>3
  <2>3. CASE s # "reader"
    <3>1. attached' = attached BY <1>0, <1>1, <1>5, <2>3, Zenon
    <3>2. Watched(s) = "source" BY <2>3 DEF Watched
    <3>3. subs'["derived"] = subs["derived"] BY <1>1, <1>2, <3>2
    <3>4. ToSet(subs'["source"]) = ToSet(subs["source"]) \ {s} BY <1>2, <1>6, <3>2
    <3> QED BY <1>1, <2>1, <3>1, <3>3, <3>4
  <2> QED BY <2>2, <2>3
<1>11. tooLate => tooLate' BY <1>0, <1>1
<1>12. EffectSound'
  <2> SUFFICES ASSUME ~nested, ~tooLate', gone = {}
               PROVE  /\ resources' = IF cleanup /\ "effect" \in ToSet(subs'["source"]) THEN 1 ELSE 0
                      /\ EffectRuns(notices) => ~cleanup /\ "effect" \in ToSet(subs'["source"])
    BY <1>1 DEF EffectSound
  <2>1. /\ resources = IF cleanup /\ "effect" \in ToSet(subs["source"]) THEN 1 ELSE 0
        /\ EffectRuns(notices) => ~cleanup /\ "effect" \in ToSet(subs["source"])
    BY <1>11 DEF ObsInv, EffectSound
  <2>2. CASE s = "effect"
    <3>1. resources' = resources - IF cleanup THEN 1 ELSE 0 BY <1>1, <2>2
    <3>2. ~EffectRuns(notices)
      <4>1. DOMAIN notices = 1..Len(notices) BY DEF ObsInv, StackSound
      <4>2. tooLate' = (tooLate \/ \E i \in DOMAIN notices : notices[i].running = "effect") BY <1>1, <2>2
      <4> QED BY <4>1, <4>2 DEF EffectRuns
    <3>3. "effect" \in ToSet(subs["source"]) /\ "effect" \notin ToSet(subs'["source"])
      BY <1>1, <1>2, <1>6, <2>2
    <3>4. resources' = 0 BY <2>1, <3>1, <3>3
    <3> QED BY <3>2, <3>3, <3>4
  <2>3. CASE s # "effect"
    <3>1. resources' = resources BY <1>1, <2>3
    <3>2. "effect" \in ToSet(subs'["source"]) <=> "effect" \in ToSet(subs["source"]) BY <1>2, <1>6, <2>3
    <3> QED BY <2>1, <3>1, <3>2
  <2> QED BY <2>2, <2>3
<1>13. NoticesCurrent'
  <2> SUFFICES ASSUME ~nested PROVE Current(notices, value, unflushed, knows', due', gone)
    BY <1>1 DEF NoticesCurrent
  <2>1. Current(notices, value, unflushed, knows, due, gone) /\ StackSound(notices)
    BY DEF ObsInv, NoticesCurrent
  <2>2. \A t \in due' : knows'[t] = knows[t] /\ Watched(t) \notin gone
    BY <1>0, <1>1, <1>8, DueIsLive
  <2> QED BY <1>8, <2>1, <2>2, FewerDue
<1>14. resources' \in Int /\ tooLate' \in BOOLEAN /\ attached' \in BOOLEAN
  <2>1. attached' \in BOOLEAN BY <1>0, <1>1, Zenon
  <2>2. CASE s = "effect"
    <3>1. /\ resources' = resources - IF cleanup THEN 1 ELSE 0
          /\ tooLate' = (tooLate \/ \E i \in DOMAIN notices : notices[i].running = "effect")
      BY <1>1, <2>2
    <3>2. resources' \in Int BY <1>0, <3>1
    <3>3. tooLate' \in BOOLEAN BY <1>0, <3>1, Zenon
    <3> QED BY <2>1, <3>2, <3>3
  <2>3. CASE s # "effect" BY <1>0, <1>1, <2>1, <2>3
  <2> QED BY <2>2, <2>3
<1>15. knows' \in [Subscribers -> AllValues]
  <2>1. \A t \in Subscribers : (IF t \in due' THEN knows[t] ELSE 0) \in AllValues BY <1>0 DEF AllValues
  <2> QED BY <1>1, <2>1
<1>16. ObsType' BY <1>0, <1>1, <1>7, <1>8, <1>14, <1>15 DEF ObsInv, ObsType
<1>17. PendingSound' /\ StackSound(notices') BY <1>1 DEF ObsInv, PendingSound, StackSound
<1> QED BY <1>9, <1>10, <1>12, <1>13, <1>16, <1>17 DEF ObsInv

(* dispose().                                                              *)
LEMMA DisposeHolds ==
  ASSUME ObsInv, NEW o \in Observed, DisposeObserver(o)
  PROVE  ObsInv'
<1>1. /\ gone' = gone \cup {o} /\ unflushed' = [unflushed EXCEPT ![o] = << >>]
      /\ attached' = (attached /\ o # "derived")
      /\ subs' = [p \in Observed |-> IF p = o THEN << >>
                                     ELSE IF o = "derived" THEN Without(subs[p], "chain") ELSE subs[p]]
      /\ due' = due \ (ToSet(subs[o]) \cup IF o = "derived" THEN {"chain"} ELSE {})
      /\ knows' = [t \in Subscribers |-> IF t \in due' THEN knows[t] ELSE 0]
      /\ UNCHANGED << immediate, distinct, value, notices, cleanup, nested, tooLate, resources, sets >>
  BY DEF DisposeObserver
<1>0. /\ subs \in [Observed -> Seq(Subscribers)] /\ gone \subseteq Observed /\ due \subseteq Subscribers
      /\ attached \in BOOLEAN /\ knows \in [Subscribers -> AllValues]
      /\ unflushed \in [Observed -> Seq(AllValues)]
      /\ \A p \in Observed : subs[p] \in Seq(Subscribers) /\ ListSound(p, subs[p])
  BY DEF ObsInv, ObsType, SubsSound
<1>2. /\ unflushed' \in [Observed -> Seq(AllValues)] /\ unflushed'[o] = << >>
      /\ \A p \in Observed : p # o => unflushed'[p] = unflushed[p]
  <2>1. << >> \in Seq(AllValues) OBVIOUS
  <2> QED BY <1>0, <1>1, <2>1
<1>3. ASSUME NEW p \in Observed
      PROVE  /\ subs'[p] \in Seq(Subscribers) /\ ListSound(p, subs'[p])
             /\ ToSet(subs'[p]) = IF p = o THEN {}
                                  ELSE IF o = "derived" THEN ToSet(subs[p]) \ {"chain"} ELSE ToSet(subs[p])
  <2>1. subs[p] \in Seq(Subscribers) /\ ListSound(p, subs[p]) BY <1>0
  <2>2. CASE p = o
    <3>1. subs'[p] = << >> BY <1>1, <2>2
    <3>2. << >> \in Seq(Subscribers) /\ ToSet(<< >>) = {} BY DEF ToSet
    <3>3. ListSound(p, << >>) BY DEF ListSound
    <3> QED BY <2>2, <3>1, <3>2, <3>3
  <2>3. CASE p # o /\ o = "derived"
    <3>1. subs'[p] = Without(subs[p], "chain") BY <1>1, <2>3
    <3>2. /\ Without(subs[p], "chain") \in Seq(Subscribers) /\ ListSound(p, Without(subs[p], "chain"))
          /\ ToSet(Without(subs[p], "chain")) = ToSet(subs[p]) \ {"chain"}
      BY <2>1, WithoutOne
    <3> QED BY <2>3, <3>1, <3>2
  <2>4. CASE p # o /\ o # "derived"
    <3>1. subs'[p] = subs[p] BY <1>1, <2>4
    <3> QED BY <2>1, <2>4, <3>1
  <2> QED BY <2>2, <2>3, <2>4
<1>4. subs' \in [Observed -> Seq(Subscribers)]
  <2>1. subs' = [p \in Observed |-> subs'[p]] BY <1>1
  <2> QED BY <1>3, <2>1
<1>5. ASSUME NEW t \in due'
      PROVE  /\ t \in due /\ Watched(t) \notin gone' /\ t \in ToSet(subs'[Watched(t)])
             /\ knows'[t] = knows[t]
  <2>1. t \in due /\ t \notin ToSet(subs[o]) /\ (o = "derived" => t # "chain") BY <1>1, <1>5
  <2>2. t \in ToSet(subs[Watched(t)]) BY <2>1 DEF ObsInv, SubsSound
  <2>3. Watched(t) # o /\ Watched(t) \in Observed BY <2>1, <2>2, WatchedIsObserved
  <2>4. Watched(t) \notin gone' BY <1>1, <2>1, <2>3, DueIsLive
  <2>5. t \in ToSet(subs'[Watched(t)]) BY <1>3, <2>1, <2>2, <2>3
  <2>6. knows'[t] = knows[t] BY <1>0, <1>1, <1>5, <2>1
  <2> QED BY <2>1, <2>4, <2>5, <2>6
<1>6. SubsSound'
  <2>1. ASSUME NEW p \in gone' PROVE subs'[p] = << >> /\ unflushed'[p] = << >>
    <3>1. CASE p = o
      <4>1. ToSet(subs'[p]) = {} BY <1>3, <3>1
      <4> QED BY <1>2, <1>3, <3>1, <4>1, NobodyIsEmpty
    <3>2. CASE p # o
      <4>1. p \in gone /\ p \in Observed BY <1>0, <1>1, <2>1, <3>2
      <4>2. subs[p] = << >> /\ unflushed[p] = << >> BY <4>1 DEF ObsInv, SubsSound
      <4>3. ToSet(subs[p]) = {} BY <4>2 DEF ToSet
      <4>4. ToSet(subs'[p]) = {} BY <1>3, <4>1, <4>3
      <4> QED BY <1>2, <1>3, <3>2, <4>1, <4>2, <4>4, NobodyIsEmpty
    <3> QED BY <3>1, <3>2
  <2> QED BY <1>3, <1>5, <2>1 DEF SubsSound
<1>7. PendingSound' BY <1>1, <1>2 DEF ObsInv, PendingSound
<1>8. NoticesCurrent'
  <2> SUFFICES ASSUME ~nested PROVE Current(notices, value, unflushed', knows', due', gone')
    BY <1>1 DEF NoticesCurrent
  <2>1. Current(notices, value, unflushed, knows, due, gone) /\ StackSound(notices)
    BY DEF ObsInv, NoticesCurrent
  <2>2. due' \subseteq due /\ gone \subseteq gone' BY <1>1
  <2>3. \A p \in Observed : p \notin gone' => unflushed'[p] = unflushed[p] BY <1>1, <1>2
  <2>4. \A t \in due' : knows'[t] = knows[t] /\ Watched(t) \notin gone' BY <1>5
  <2> QED BY <2>1, <2>2, <2>3, <2>4, FewerDue
<1>9. ChainIsLazy' /\ EffectSound' BY <1>1 DEF ChainIsLazy, EffectSound
<1>10. attached' \in BOOLEAN BY <1>0, <1>1, Zenon
<1>11. knows' \in [Subscribers -> AllValues]
  <2>1. \A t \in Subscribers : (IF t \in due' THEN knows[t] ELSE 0) \in AllValues BY <1>0 DEF AllValues
  <2> QED BY <1>1, <2>1
<1>12. gone' \subseteq Observed /\ due' \subseteq Subscribers BY <1>0, <1>1
<1>13. ObsType' BY <1>1, <1>2, <1>4, <1>10, <1>11, <1>12 DEF ObsInv, ObsType
<1>14. StackSound(notices') BY <1>1 DEF ObsInv
<1> QED BY <1>6, <1>7, <1>8, <1>9, <1>13, <1>14 DEF ObsInv

(* Every operation of an observer, and every call of a subscriber.         *)
LEMMA ObsStep ==
  ASSUME ObsInv, ObsNext
  PROVE  ObsInv'
BY SetValueHolds, FlushHolds, TellHolds, ReturnsHolds, AllToldHolds, SubscribeHolds, LeaveHolds,
   DisposeHolds DEF ObsNext

(* Two observers without subscribers.                                      *)
LEMMA ObsStart == ObsInit => ObsInv
<1> SUFFICES ASSUME ObsInit PROVE ObsInv OBVIOUS
<1>1. /\ immediate \in BOOLEAN /\ distinct \in BOOLEAN /\ attached = FALSE /\ cleanup = FALSE
      /\ nested = FALSE /\ tooLate = FALSE
  BY DEF ObsInit
<1>2. /\ value = [o \in Observed |-> 0] /\ unflushed = [o \in Observed |-> << >>] /\ gone = {}
      /\ subs = [o \in Observed |-> << >>] /\ notices = << >>
      /\ knows = [s \in Subscribers |-> 0] /\ due = {} /\ resources = 0
  BY DEF ObsInit
<1>3. ObsType
  <2>1. /\ immediate \in BOOLEAN /\ distinct \in BOOLEAN /\ attached \in BOOLEAN /\ cleanup \in BOOLEAN
        /\ nested \in BOOLEAN /\ tooLate \in BOOLEAN
    BY <1>1, Zenon
  <2>2. << >> \in Seq(AllValues) /\ << >> \in Seq(Subscribers) /\ 0 \in AllValues BY DEF AllValues
  <2>3. /\ resources \in Int /\ value \in [Observed -> AllValues] /\ knows \in [Subscribers -> AllValues]
        /\ unflushed \in [Observed -> Seq(AllValues)] /\ gone \subseteq Observed
        /\ subs \in [Observed -> Seq(Subscribers)] /\ due \subseteq Subscribers
    BY <1>2, <2>2
  <2> QED BY <2>1, <2>3 DEF ObsType
<1>4. SubsSound BY <1>2 DEF SubsSound, ListSound
<1>5. PendingSound BY <1>2 DEF PendingSound
<1>6. StackSound(notices) BY <1>2 DEF StackSound
<1>7. NoticesCurrent BY <1>2 DEF NoticesCurrent, Current
<1>8. subs["source"] = << >> /\ subs["derived"] = << >> /\ ToSet(subs["source"]) = {}
  BY <1>2 DEF Observed, ToSet
<1>9. ChainIsLazy BY <1>1, <1>8 DEF ChainIsLazy
<1>10. EffectSound BY <1>1, <1>2, <1>8 DEF EffectSound, EffectRuns
<1> QED BY <1>3, <1>4, <1>5, <1>6, <1>7, <1>9, <1>10 DEF ObsInv

(* The invariant says what the observers promise.                          *)
LEMMA ObsKeepPromises == ObsInv => ObserversAreSound
<1> SUFFICES ASSUME ObsInv PROVE ObserversAreSound OBVIOUS
<1>1. ReadersAreCurrent
  <2> SUFFICES ASSUME notices = << >>, ~nested, NEW s \in due, unflushed[Watched(s)] = << >>
               PROVE  knows[s] = value[Watched(s)]
    BY DEF ReadersAreCurrent
  <2>1. Told(s, notices, value, unflushed, knows) BY DEF ObsInv, NoticesCurrent, Current
  <2> QED BY <2>1 DEF Told
<1>2. EffectsAreCleaned BY DEF ObsInv, EffectSound, EffectsAreCleaned
<1> QED BY <1>1, <1>2 DEF ObsInv, ObserversAreSound
(* An invariant of the bus is one of its variables, and so are its parts.  *)
LEMMA BusStands ==
  ASSUME BusInv, UNCHANGED busVars
  PROVE  BusInv'
<1>1. /\ UNCHANGED << buckets, home, members, onceMap, made >> /\ frames' = frames /\ async' = async
      /\ UNCHANGED << wanted, fired, mixed, swapped >>
  BY DEF busVars, busSets, busPast
<1>2. BusType' /\ EmissionType' BY <1>1 DEF BusInv, BusType, EmissionType
<1>3. Numbered'
  <2>1. \A c, d : Listed(c, d)' => Listed(c, d) BY <1>1 DEF Listed, Owed
  <2> QED BY <1>1, <2>1, FewerListed DEF BusInv
<1>4. SingleInv' BY <1>1 DEF BusInv, SingleInv
<1>5. WantedInv' BY <1>1 DEF BusInv, WantedInv
<1>6. FiredIsGone' BY <1>1 DEF BusInv, FiredIsGone
<1>7. LimitInv' BY <1>1 DEF BusInv, LimitInv
<1> QED BY <1>2, <1>3, <1>4, <1>5, <1>6, <1>7 DEF BusInv

(* The same of the observers.                                              *)
LEMMA ObsStand ==
  ASSUME ObsInv, UNCHANGED obsVars
  PROVE  ObsInv'
<1>1. /\ UNCHANGED << immediate, distinct, value, unflushed, gone, subs, attached, notices >>
      /\ UNCHANGED << cleanup, knows, due, nested, tooLate, resources >>
  BY DEF obsVars, obsState, obsPast
<1> QED BY <1>1 DEF ObsInv, ObsType, SubsSound, PendingSound, StackSound, NoticesCurrent,
                    ChainIsLazy, EffectSound

(* Whoever registers, leaves, emits and sets values while listeners run:   *)
(* what is registered is in the set the next emission reads (unless its    *)
(* bucket was swapped or its function registered in two ways), and a       *)
(* once() that fired in none; who was told knows the value of today unless *)
(* notifications were nested, and what an effect opened is closed unless   *)
(* it was nested, ended too late or an observer disposed.  For any         *)
(* listeners and values (powerEventBus.js, powerObserver.js).              *)
THEOREM ListenersAlwaysKept == Spec => []ListenersAreKept
<1> DEFINE I == (part = "bus" => BusInv) /\ (part = "observers" => ObsInv)
<1>1. Init => I BY BusStart, ObsStart DEF Init, ListenerInit
<1>2. I /\ [Next]_<< part, storeVars, primitiveVars, listenerVars >> => I'
  <2> SUFFICES ASSUME I, [Next]_<< part, storeVars, primitiveVars, listenerVars >> PROVE I'
    OBVIOUS
  <2>1. CASE Next
    <3>1. part' = part /\ (part = "bus" => BusNext) /\ (part = "observers" => ObsNext)
      BY <2>1 DEF Next, StoreNext, PrimitiveNext, ListenerNext
    <3> QED BY <3>1, BusStep, ObsStep
  <2>2. CASE UNCHANGED << part, storeVars, primitiveVars, listenerVars >>
    <3>1. part' = part /\ UNCHANGED busVars /\ UNCHANGED obsVars BY <2>2 DEF listenerVars
    <3> QED BY <3>1, BusStands, ObsStand
  <2> QED BY <2>1, <2>2
<1>3. I => ListenersAreKept BY BusKeepsListeners, ObsKeepPromises DEF ListenersAreKept
<1> QED BY <1>1, <1>2, <1>3, PTL DEF Spec
-----------------------------------------------------------------------------
(***************************************************************************)
(* The runs that concurrent calls share: the flights of the cache and the  *)
(* runs of the memoizer.  A flight that nobody told to stop, one that its  *)
(* owner awaits, and a refresh, are each the one registered for their key, *)
(* unless clear() dropped a registration of it; and a registered fetch has *)
(* an owner, who takes it out.                                             *)
(***************************************************************************)
FlightRecord == [key : Keys \cup {Nil}, kind : {"none", "fetch", "refresh"},
                 running : BOOLEAN, aborted : BOOLEAN]
CallRecord == [state : {"new", "owner", "joiner", "settled"}, flight : Flights \cup {Nil}]

FlightType ==
  /\ flights \in [Flights -> FlightRecord] /\ inflight \in [Keys -> Flights \cup {Nil}]
  /\ calls \in [CacheCalls -> CallRecord]
  /\ \A f \in Flights : flights[f].running => flights[f].key \in Keys /\ flights[f].kind # "none"

Matters(f) ==
  /\ flights[f].running /\ flights[f].key \notin cleared
  /\ ~flights[f].aborted \/ flights[f].kind = "refresh" \/ Owners(f) # {}

RegisteredRuns ==
  \A k \in Keys, f \in Flights : inflight[k] = f =>
    /\ flights[f].running /\ flights[f].key = k
    /\ flights[f].kind = "fetch" => Owners(f) # {}

CallsWait ==
  \A i \in CacheCalls :
    /\ calls[i].state \in {"owner", "joiner"} => calls[i].flight \in Flights /\ flights[calls[i].flight].running
    /\ calls[i].state = "owner" => flights[calls[i].flight].kind = "fetch"

FlightInv ==
  /\ FlightType /\ RegisteredRuns /\ CallsWait
  /\ \A f \in Flights : Matters(f) => inflight[flights[f].key] = f

(* The invariant says what the cache promises of its flights.              *)
LEMMA FlightsKeepPromises == FlightInv => FlightsAreSound
<1> SUFFICES ASSUME FlightInv PROVE FlightsAreSound OBVIOUS
<1>1. ASSUME NEW f \in Running, NEW g \in Running, flights[f].key = flights[g].key,
             ~flights[f].aborted, ~flights[g].aborted, flights[f].key \notin cleared
      PROVE  f = g
  BY <1>1 DEF FlightInv, Matters, Running
<1>2. \A k \in Registered : inflight[k] \in Running /\ flights[inflight[k]].key = k
  BY DEF FlightInv, FlightType, RegisteredRuns, Registered, Running
<1>3. \A i \in CacheCalls : calls[i].state \in {"owner", "joiner"} => calls[i].flight \in Running
  BY DEF FlightInv, CallsWait, Running
<1> QED BY <1>1, <1>2, <1>3 DEF FlightsAreSound

(* What is only signalled goes on, and is registered as before.            *)
LEMMA SignalsKeep ==
  ASSUME FlightInv, flights' \in [Flights -> FlightRecord],
         \A f \in Flights : /\ flights'[f].key = flights[f].key /\ flights'[f].kind = flights[f].kind
                            /\ flights'[f].running = flights[f].running
                            /\ flights[f].aborted => flights'[f].aborted,
         inflight' = inflight, cleared' = cleared, calls' \in [CacheCalls -> CallRecord],
         \A f \in Flights : Owners(f)' = Owners(f),
         \A i \in CacheCalls : \/ calls'[i] = calls[i] \/ calls'[i].state = "settled"
                               \/ /\ calls'[i].state = "joiner" /\ calls'[i].flight \in Flights
                                  /\ flights[calls'[i].flight].running
  PROVE  FlightInv'
<1>1. FlightType' BY DEF FlightInv, FlightType
<1>2. RegisteredRuns'
  <2> SUFFICES ASSUME NEW k \in Keys, NEW f \in Flights, inflight[k] = f
               PROVE  /\ flights'[f].running /\ flights'[f].key = k
                      /\ flights'[f].kind = "fetch" => Owners(f)' # {}
    BY DEF RegisteredRuns
  <2> QED BY DEF FlightInv, RegisteredRuns
<1>3. CallsWait'
  <2> SUFFICES ASSUME NEW i \in CacheCalls
               PROVE  /\ calls'[i].state \in {"owner", "joiner"} =>
                           calls'[i].flight \in Flights /\ flights'[calls'[i].flight].running
                      /\ calls'[i].state = "owner" => flights'[calls'[i].flight].kind = "fetch"
    BY DEF CallsWait
  <2>1. CASE calls'[i] = calls[i] BY <2>1 DEF FlightInv, CallsWait
  <2>2. CASE calls'[i].state = "settled" BY <2>2
  <2>3. CASE /\ calls'[i].state = "joiner" /\ calls'[i].flight \in Flights
             /\ flights[calls'[i].flight].running
    BY <2>3
  <2> QED BY <2>1, <2>2, <2>3
<1>4. \A f \in Flights : Matters(f)' => inflight'[flights'[f].key] = f
  <2> TAKE f \in Flights
  <2> HAVE Matters(f)'
  <2>1. Owners(f)' # {} => Owners(f) # {} OBVIOUS
  <2>2. Matters(f) BY <2>1 DEF Matters, FlightInv, FlightType, FlightRecord
  <2> QED BY <2>2 DEF FlightInv
<1> QED BY <1>1, <1>2, <1>3, <1>4 DEF FlightInv

(* _abortInflight() of some keys.                                          *)
LEMMA SignalledOnly ==
  ASSUME FlightType, NEW S
  PROVE  /\ Signalled(S) \in [Flights -> FlightRecord]
         /\ \A f \in Flights : /\ Signalled(S)[f].key = flights[f].key /\ Signalled(S)[f].kind = flights[f].kind
                               /\ Signalled(S)[f].running = flights[f].running
                               /\ flights[f].aborted => Signalled(S)[f].aborted
                               /\ (\E k \in S \cap Keys : inflight[k] = f) => Signalled(S)[f].aborted
<1>1. ASSUME NEW f \in Flights
      PROVE  LET e == [flights[f] EXCEPT !.aborted = @ \/ \E k \in S \cap Keys : inflight[k] = f]
             IN  /\ e \in FlightRecord /\ e.key = flights[f].key /\ e.kind = flights[f].kind
                 /\ e.running = flights[f].running /\ (flights[f].aborted => e.aborted)
                 /\ (\E k \in S \cap Keys : inflight[k] = f) => e.aborted
  <2>1. flights[f] \in FlightRecord BY DEF FlightType
  <2> DEFINE b == \E k \in S \cap Keys : inflight[k] = f
  <2>2. b \in BOOLEAN OBVIOUS
  <2> HIDE DEF b
  <2>3. LET e == [flights[f] EXCEPT !.aborted = @ \/ b]
        IN  /\ e \in FlightRecord /\ e.key = flights[f].key /\ e.kind = flights[f].kind
            /\ e.running = flights[f].running /\ (flights[f].aborted => e.aborted)
            /\ b => e.aborted
    BY <2>1, <2>2 DEF FlightRecord
  <2> QED BY <2>3 DEF b
<1> QED BY <1>1 DEF Signalled

(* An operation of the cache that drops keys signals their flights.        *)
LEMMA DoesKeep ==
  ASSUME FlightInv, NEW S, flights' = Signalled(S), UNCHANGED << inflight, calls, cleared >>
  PROVE  FlightInv'
<1>1. FlightType BY DEF FlightInv
<1>2. \A f \in Flights : Owners(f)' = Owners(f) BY DEF Owners
<1>3. calls' \in [CacheCalls -> CallRecord] BY DEF FlightInv, FlightType
<1>4. /\ flights' \in [Flights -> FlightRecord]
      /\ \A f \in Flights : /\ flights'[f].key = flights[f].key /\ flights'[f].kind = flights[f].kind
                            /\ flights'[f].running = flights[f].running
                            /\ flights[f].aborted => flights'[f].aborted
  BY <1>1, SignalledOnly
<1> HIDE DEF Signalled, Owners
<1> QED BY <1>2, <1>3, <1>4, SignalsKeep
(* A call that is new becomes a settled one, or a joiner of what runs.     *)
LEMMA CallerMoves ==
  ASSUME FlightInv, NEW i \in CacheCalls, IsNew(i), NEW c \in CallRecord, c.state \in {"settled", "joiner"},
         calls' = [calls EXCEPT ![i] = c]
  PROVE  /\ calls' \in [CacheCalls -> CallRecord] /\ calls'[i] = c
         /\ \A j \in CacheCalls : j # i => calls'[j] = calls[j]
         /\ \A f \in Flights : Owners(f)' = Owners(f)
<1>1. calls \in [CacheCalls -> CallRecord] /\ calls[i].state = "new" BY DEF FlightInv, FlightType, IsNew
<1>2. calls' \in [CacheCalls -> CallRecord] /\ calls'[i] = c /\ \A j \in CacheCalls : j # i => calls'[j] = calls[j]
  BY <1>1
<1>3. ASSUME NEW f \in Flights, NEW j \in CacheCalls
      PROVE  calls'[j] = [state |-> "owner", flight |-> f] <=> calls[j] = [state |-> "owner", flight |-> f]
  <2>1. CASE j = i
    <3>1. c # [state |-> "owner", flight |-> f] OBVIOUS
    <3>2. calls[i] # [state |-> "owner", flight |-> f] BY <1>1
    <3> QED BY <1>2, <2>1, <3>1, <3>2
  <2>2. CASE j # i BY <1>2, <2>2
  <2> QED BY <2>1, <2>2
<1>4. \A f \in Flights : Owners(f)' = Owners(f) BY <1>3 DEF Owners
<1> QED BY <1>2, <1>4

(* A call is answered from the cache.                                      *)
LEMMA HitKeeps ==
  ASSUME FlightInv, NEW i \in CacheCalls, NEW k, Hit(i, k)
  PROVE  FlightInv'
<1>1. /\ IsNew(i) /\ flights' = Signalled(MoveToTail(cache, k).aborted)
      /\ calls' = [calls EXCEPT ![i] = Settled] /\ inflight' = inflight /\ cleared' = cleared
  BY DEF Hit, Becomes
<1>2. Settled \in CallRecord /\ Settled.state = "settled" BY DEF Settled, CallRecord
<1> HIDE DEF Settled
<1>3. /\ calls' \in [CacheCalls -> CallRecord] /\ calls'[i] = Settled
      /\ \A j \in CacheCalls : j # i => calls'[j] = calls[j]
      /\ \A f \in Flights : Owners(f)' = Owners(f)
  BY <1>1, <1>2, CallerMoves
<1>4. FlightType BY DEF FlightInv
<1>5. /\ flights' \in [Flights -> FlightRecord]
      /\ \A f \in Flights : /\ flights'[f].key = flights[f].key /\ flights'[f].kind = flights[f].kind
                            /\ flights'[f].running = flights[f].running
                            /\ flights[f].aborted => flights'[f].aborted
  BY <1>1, <1>4, SignalledOnly
<1>6. \A j \in CacheCalls : calls'[j] = calls[j] \/ calls'[j].state = "settled" BY <1>2, <1>3
<1> QED BY <1>1, <1>3, <1>5, <1>6, SignalsKeep

(* A call joins the flight that is registered.                             *)
LEMMA JoinKeeps ==
  ASSUME FlightInv, NEW i \in CacheCalls, NEW k \in Keys, Join(i, k)
  PROVE  FlightInv'
<1> DEFINE c == [state |-> "joiner", flight |-> inflight[k]]
<1>1. /\ IsNew(i) /\ inflight[k] # Nil /\ calls' = [calls EXCEPT ![i] = c]
      /\ UNCHANGED << flights, inflight, cleared >>
  BY DEF Join
<1>2. inflight[k] \in Flights /\ flights[inflight[k]].running BY <1>1 DEF FlightInv, FlightType, RegisteredRuns
<1>3. c \in CallRecord /\ c.state = "joiner" /\ c.flight = inflight[k] BY <1>2 DEF CallRecord
<1> HIDE DEF c
<1>4. /\ calls' \in [CacheCalls -> CallRecord] /\ calls'[i] = c
      /\ \A j \in CacheCalls : j # i => calls'[j] = calls[j]
      /\ \A f \in Flights : Owners(f)' = Owners(f)
  BY <1>1, <1>3, CallerMoves
<1>5. /\ flights' \in [Flights -> FlightRecord]
      /\ \A f \in Flights : /\ flights'[f].key = flights[f].key /\ flights'[f].kind = flights[f].kind
                            /\ flights'[f].running = flights[f].running
                            /\ flights[f].aborted => flights'[f].aborted
  BY <1>1 DEF FlightInv, FlightType
<1>6. \A j \in CacheCalls : \/ calls'[j] = calls[j]
                            \/ /\ calls'[j].state = "joiner" /\ calls'[j].flight \in Flights
                               /\ flights[calls'[j].flight].running
  BY <1>2, <1>3, <1>4
<1> QED BY <1>1, <1>4, <1>5, <1>6, SignalsKeep

(* A flight that begins is the only one of its key that matters.           *)
LEMMA BeginKeeps ==
  ASSUME FlightInv, NEW k \in Keys, inflight[k] = Nil, NEW f \in Flights, flights[f].kind = "none",
         NEW kd \in {"fetch", "refresh"},
         flights' \in [Flights -> FlightRecord],
         flights'[f] = [key |-> k, kind |-> kd, running |-> TRUE, aborted |-> FALSE],
         \A g \in Flights : g # f => /\ flights'[g].key = flights[g].key /\ flights'[g].kind = flights[g].kind
                                     /\ flights'[g].running = flights[g].running
                                     /\ flights[g].aborted => flights'[g].aborted,
         inflight' = [inflight EXCEPT ![k] = f], cleared' = cleared,
         calls' \in [CacheCalls -> CallRecord],
         \A g \in Flights : g # f => Owners(g)' = Owners(g),
         kd = "fetch" => Owners(f)' # {},
         \A i \in CacheCalls : \/ calls'[i] = calls[i] \/ calls'[i].state = "settled"
                               \/ kd = "fetch" /\ calls'[i] = [state |-> "owner", flight |-> f]
  PROVE  FlightInv'
<1>0. /\ flights \in [Flights -> FlightRecord] /\ inflight \in [Keys -> Flights \cup {Nil}]
      /\ \A g \in Flights : flights[g].running => flights[g].key \in Keys /\ flights[g].kind # "none"
      /\ f # Nil
  BY FlightConstants DEF FlightInv, FlightType
<1>1. /\ flights'[f].key = k /\ flights'[f].kind = kd /\ flights'[f].running /\ ~flights[f].running
  BY <1>0
<1>2. /\ inflight' \in [Keys -> Flights \cup {Nil}] /\ inflight'[k] = f
      /\ \A j \in Keys : j # k => inflight'[j] = inflight[j]
  BY <1>0
<1> HIDE DEF Owners
<1>3. FlightType'
  <2>1. \A g \in Flights : flights'[g].running => flights'[g].key \in Keys /\ flights'[g].kind # "none"
    BY <1>0, <1>1
  <2> QED BY <1>2, <2>1 DEF FlightType
<1>4. RegisteredRuns'
  <2> SUFFICES ASSUME NEW j \in Keys, NEW g \in Flights, inflight'[j] = g
               PROVE  /\ flights'[g].running /\ flights'[g].key = j
                      /\ flights'[g].kind = "fetch" => Owners(g)' # {}
    BY DEF RegisteredRuns
  <2>1. CASE j = k BY <1>1, <1>2, <2>1
  <2>2. CASE j # k
    <3>1. inflight[j] = g BY <1>2, <2>2
    <3>2. /\ flights[g].running /\ flights[g].key = j
          /\ flights[g].kind = "fetch" => Owners(g) # {}
      BY <3>1 DEF FlightInv, RegisteredRuns
    <3>3. g # f BY <1>1, <3>2
    <3> QED BY <3>1, <3>2, <3>3
  <2> QED BY <2>1, <2>2
<1>5. CallsWait'
  <2> SUFFICES ASSUME NEW i \in CacheCalls
               PROVE  /\ calls'[i].state \in {"owner", "joiner"} =>
                           calls'[i].flight \in Flights /\ flights'[calls'[i].flight].running
                      /\ calls'[i].state = "owner" => flights'[calls'[i].flight].kind = "fetch"
    BY DEF CallsWait
  <2>1. CASE calls'[i] = calls[i]
    <3>1. /\ calls[i].state \in {"owner", "joiner"} => calls[i].flight \in Flights /\ flights[calls[i].flight].running
          /\ calls[i].state = "owner" => flights[calls[i].flight].kind = "fetch"
      BY DEF FlightInv, CallsWait
    <3>2. calls[i].state \in {"owner", "joiner"} => calls[i].flight # f BY <1>1, <3>1
    <3> QED BY <2>1, <3>1, <3>2
  <2>2. CASE calls'[i].state = "settled" BY <2>2
  <2>3. CASE kd = "fetch" /\ calls'[i] = [state |-> "owner", flight |-> f] BY <1>1, <2>3
  <2> QED BY <2>1, <2>2, <2>3
<1>6. ASSUME NEW g \in Flights, Matters(g)' PROVE inflight'[flights'[g].key] = g
  <2>1. CASE g = f BY <1>1, <1>2, <2>1
  <2>2. CASE g # f
    <3>1. Matters(g) BY <1>0, <1>6, <2>2 DEF Matters, FlightRecord
    <3>2. inflight[flights[g].key] = g /\ flights[g].key \in Keys BY <1>0, <3>1 DEF FlightInv, Matters
    <3>3. flights[g].key # k BY <3>2, FlightConstants
    <3> QED BY <1>2, <2>2, <3>2, <3>3
  <2> QED BY <2>1, <2>2
<1> QED BY <1>3, <1>4, <1>5, <1>6 DEF FlightInv

(* A call that finds nothing begins a flight, and owns it.                 *)
LEMMA FetchKeeps ==
  ASSUME FlightInv, NEW i \in CacheCalls, NEW k \in Keys, Fetch(i, k)
  PROVE  FlightInv'
<1>1. IsNew(i) /\ inflight[k] = Nil /\ cleared' = cleared BY DEF Fetch
<1>2. PICK f \in Unused :
         /\ flights' = [flights EXCEPT ![f] = Begin(f, k, "fetch")]
         /\ inflight' = [inflight EXCEPT ![k] = f]
         /\ calls' = [calls EXCEPT ![i] = [state |-> "owner", flight |-> f]]
  BY DEF Fetch
<1>3. f \in Flights /\ flights[f].kind = "none" BY DEF Unused
<1>0. flights \in [Flights -> FlightRecord] /\ calls \in [CacheCalls -> CallRecord] /\ calls[i].state = "new"
  BY <1>1 DEF FlightInv, FlightType, IsNew
<1> DEFINE b == [key |-> k, kind |-> "fetch", running |-> TRUE, aborted |-> FALSE]
           c == [state |-> "owner", flight |-> f]
<1>4. b \in FlightRecord /\ Begin(f, k, "fetch") = b /\ c \in CallRecord /\ c.state = "owner" /\ c.flight = f
  BY <1>3 DEF FlightRecord, Begin, CallRecord
<1>5. /\ flights' \in [Flights -> FlightRecord] /\ flights'[f] = b
      /\ \A g \in Flights : g # f => flights'[g] = flights[g]
  BY <1>0, <1>2, <1>3, <1>4
<1>6. calls' \in [CacheCalls -> CallRecord] /\ calls'[i] = c /\ \A j \in CacheCalls : j # i => calls'[j] = calls[j]
  BY <1>0, <1>2, <1>4
<1>7. \A g \in Flights : g # f => Owners(g)' = Owners(g)
  <2>1. ASSUME NEW g \in Flights, g # f, NEW j \in CacheCalls
        PROVE  calls'[j] = [state |-> "owner", flight |-> g] <=> calls[j] = [state |-> "owner", flight |-> g]
    <3>1. CASE j = i
      <4>1. c # [state |-> "owner", flight |-> g] /\ calls[i] # [state |-> "owner", flight |-> g]
        BY <1>0, <2>1
      <4> QED BY <1>6, <3>1, <4>1
    <3>2. CASE j # i BY <1>6, <3>2
    <3> QED BY <3>1, <3>2
  <2> TAKE g \in Flights
  <2> HAVE g # f
  <2>2. \A j \in CacheCalls :
           calls'[j] = [state |-> "owner", flight |-> g] <=> calls[j] = [state |-> "owner", flight |-> g]
    BY <2>1
  <2> QED BY <2>2 DEF Owners
<1>8. Owners(f)' # {} BY <1>6 DEF Owners
<1> HIDE DEF Owners
<1> QED BY <1>1, <1>2, <1>3, <1>5, <1>6, <1>7, <1>8, BeginKeeps
(* A stale answer, and perhaps a refresh in the background.                *)
LEMMA HitStaleKeeps ==
  ASSUME FlightInv, NEW i \in CacheCalls, NEW k \in Keys, HitStale(i, k)
  PROVE  FlightInv'
<1> DEFINE S == MoveToTail(cache, k).aborted
           skip == inflight[k] # Nil \/ Cardinality(Registered) >= MaxInflightRefreshes
<1>1. /\ IsNew(i) /\ calls' = [calls EXCEPT ![i] = Settled] /\ cleared' = cleared
      /\ IF skip THEN UNCHANGED << flights, inflight >>
         ELSE \E f \in Unused :
                /\ flights' = [Signalled(S) EXCEPT ![f] = Begin(f, k, "refresh")]
                /\ inflight' = [inflight EXCEPT ![k] = f]
  BY DEF HitStale
<1>2. Settled \in CallRecord /\ Settled.state = "settled" BY DEF Settled, CallRecord
<1> HIDE DEF Settled
<1>3. /\ calls' \in [CacheCalls -> CallRecord] /\ calls'[i] = Settled
      /\ \A j \in CacheCalls : j # i => calls'[j] = calls[j]
      /\ \A f \in Flights : Owners(f)' = Owners(f)
  BY <1>1, <1>2, CallerMoves
<1>4. FlightType BY DEF FlightInv
<1>5. \A j \in CacheCalls : calls'[j] = calls[j] \/ calls'[j].state = "settled" BY <1>2, <1>3
<1> HIDE DEF S
<1>6. CASE skip
  <2>1. flights' = flights /\ inflight' = inflight BY <1>1, <1>6
  <2>2. flights' \in [Flights -> FlightRecord] BY <1>4, <2>1 DEF FlightType
  <2> HIDE DEF Owners
  <2> QED BY <1>1, <1>3, <1>5, <2>1, <2>2, SignalsKeep
<1>7. CASE ~skip
  <2>1. PICK f \in Unused : /\ flights' = [Signalled(S) EXCEPT ![f] = Begin(f, k, "refresh")]
                            /\ inflight' = [inflight EXCEPT ![k] = f]
    BY <1>1, <1>7
  <2>2. f \in Flights /\ flights[f].kind = "none" /\ inflight[k] = Nil BY <1>7 DEF Unused
  <2> DEFINE b == [key |-> k, kind |-> "refresh", running |-> TRUE, aborted |-> FALSE]
             s == Signalled(S)
  <2>3. b \in FlightRecord /\ Begin(f, k, "refresh") = b BY DEF FlightRecord, Begin
  <2>4. /\ s \in [Flights -> FlightRecord]
        /\ \A g \in Flights : /\ s[g].key = flights[g].key /\ s[g].kind = flights[g].kind
                              /\ s[g].running = flights[g].running
                              /\ flights[g].aborted => s[g].aborted
    BY <1>4, SignalledOnly
  <2> HIDE DEF s
  <2>5. flights' = [s EXCEPT ![f] = b] BY <2>1, <2>3 DEF s
  <2>6. /\ flights' \in [Flights -> FlightRecord] /\ flights'[f] = b
        /\ \A g \in Flights : g # f => flights'[g] = s[g]
    BY <2>2, <2>3, <2>4, <2>5
  <2>7. \A g \in Flights : g # f => /\ flights'[g].key = flights[g].key /\ flights'[g].kind = flights[g].kind
                                    /\ flights'[g].running = flights[g].running
                                    /\ flights[g].aborted => flights'[g].aborted
    BY <2>4, <2>6
  <2> DEFINE kd == "refresh"
  <2>8. kd \in {"fetch", "refresh"} /\ kd # "fetch" OBVIOUS
  <2>9. flights'[f] = [key |-> k, kind |-> kd, running |-> TRUE, aborted |-> FALSE] BY <2>6
  <2> HIDE DEF Owners, b, kd, skip
  <2>a. /\ \A g \in Flights : g # f => Owners(g)' = Owners(g)
        /\ kd = "fetch" => Owners(f)' # {}
        /\ \A j \in CacheCalls : \/ calls'[j] = calls[j] \/ calls'[j].state = "settled"
                                 \/ kd = "fetch" /\ calls'[j] = [state |-> "owner", flight |-> f]
    BY <1>3, <1>5, <2>8
  <2>b. /\ flights' \in [Flights -> FlightRecord] /\ calls' \in [CacheCalls -> CallRecord]
        /\ inflight' = [inflight EXCEPT ![k] = f] /\ cleared' = cleared
    BY <1>1, <1>3, <2>1, <2>6
  <2> QED BY <2>2, <2>7, <2>8, <2>9, <2>a, <2>b, BeginKeeps, Zenon
<1> QED BY <1>6, <1>7

(* clear() and dispose() drop every registration.                          *)
LEMMA ClearKeeps ==
  ASSUME FlightInv, NEW S, flights' = Signalled(S), calls' = calls,
         cleared' = cleared \cup { k \in Keys : inflight[k] # Nil },
         inflight' = [k \in Keys |-> Nil]
  PROVE  FlightInv'
<1>1. FlightType BY DEF FlightInv
<1>2. /\ flights' \in [Flights -> FlightRecord]
      /\ \A f \in Flights : /\ flights'[f].key = flights[f].key /\ flights'[f].kind = flights[f].kind
                            /\ flights'[f].running = flights[f].running
                            /\ flights[f].aborted => flights'[f].aborted
  BY <1>1, SignalledOnly
<1> HIDE DEF Signalled
<1>3. FlightType' BY <1>1, <1>2 DEF FlightType
<1>4. RegisteredRuns' BY FlightConstants DEF RegisteredRuns
<1>5. CallsWait' BY <1>2 DEF FlightInv, CallsWait
<1>6. ASSUME NEW f \in Flights, Matters(f)' PROVE FALSE
  <2>1. Owners(f)' = Owners(f) BY DEF Owners
  <2>2. Matters(f) BY <1>1, <1>2, <1>6, <2>1 DEF Matters, FlightType, FlightRecord
  <2>3. inflight[flights[f].key] = f /\ flights[f].key \in Keys BY <1>1, <2>2 DEF FlightInv, FlightType, Matters
  <2>4. flights[f].key \in cleared' BY <2>3, FlightConstants
  <2> QED BY <1>2, <1>6, <2>4 DEF Matters
<1> QED BY <1>3, <1>4, <1>5, <1>6 DEF FlightInv

(* What an owner or a refresh takes out of the registration is its own     *)
(* flight, unless clear() came between.                                    *)
LEMMA EndKeeps ==
  ASSUME FlightInv, NEW f \in Flights, flights[f].running, NEW over \in BOOLEAN, NEW drops \in BOOLEAN,
         flights' \in [Flights -> FlightRecord],
         \A g \in Flights : /\ flights'[g].key = flights[g].key /\ flights'[g].kind = flights[g].kind
                            /\ flights'[g].running = (flights[g].running /\ ~(over /\ g = f))
                            /\ flights[g].aborted => flights'[g].aborted,
         drops => flights[f].kind = "refresh" \/ Owners(f) # {},
         inflight' = IF drops THEN [inflight EXCEPT ![flights[f].key] = Nil] ELSE inflight,
         cleared' = cleared, calls' \in [CacheCalls -> CallRecord],
         \A g \in Flights : g # f => Owners(g)' = Owners(g),
         over /\ ~drops => flights[f].kind = "fetch" /\ Owners(f) = {},
         over => \A i \in CacheCalls : calls'[i].flight # f,
         ~over => drops /\ Owners(f)' = {} /\ flights[f].kind = "fetch" /\
                  (inflight[flights[f].key] = f => flights'[f].aborted),
         \A i \in CacheCalls : calls'[i] = calls[i] \/ calls'[i].state = "settled"
  PROVE  FlightInv'
<1> DEFINE k == flights[f].key
<1>0. /\ flights \in [Flights -> FlightRecord] /\ inflight \in [Keys -> Flights \cup {Nil}]
      /\ \A g \in Flights : flights[g].running => flights[g].key \in Keys /\ flights[g].kind # "none"
      /\ k \in Keys
  BY DEF FlightInv, FlightType
<1> HIDE DEF k, Owners
<1>1. /\ inflight' \in [Keys -> Flights \cup {Nil}]
      /\ \A j \in Keys : inflight'[j] = IF drops /\ j = k THEN Nil ELSE inflight[j]
  BY <1>0 DEF k
<1>2. FlightType'
  <2>1. \A g \in Flights : flights'[g].running => flights'[g].key \in Keys /\ flights'[g].kind # "none"
    BY <1>0
  <2> QED BY <1>1, <2>1 DEF FlightType
<1>3. RegisteredRuns'
  <2> SUFFICES ASSUME NEW j \in Keys, NEW g \in Flights, inflight'[j] = g
               PROVE  /\ flights'[g].running /\ flights'[g].key = j
                      /\ flights'[g].kind = "fetch" => Owners(g)' # {}
    BY DEF RegisteredRuns
  <2>1. inflight[j] = g /\ ~(drops /\ j = k) BY <1>1, FlightConstants
  <2>2. /\ flights[g].running /\ flights[g].key = j
        /\ flights[g].kind = "fetch" => Owners(g) # {}
    BY <2>1 DEF FlightInv, RegisteredRuns
  <2>3. g # f
    <3> SUFFICES ASSUME g = f PROVE FALSE OBVIOUS
    <3>1. j = k BY <2>2 DEF k
    <3>2. ~drops /\ over BY <2>1, <3>1
    <3> QED BY <2>2, <3>2
  <2> QED BY <2>2, <2>3
<1>4. CallsWait'
  <2> SUFFICES ASSUME NEW i \in CacheCalls
               PROVE  /\ calls'[i].state \in {"owner", "joiner"} =>
                           calls'[i].flight \in Flights /\ flights'[calls'[i].flight].running
                      /\ calls'[i].state = "owner" => flights'[calls'[i].flight].kind = "fetch"
    BY DEF CallsWait
  <2>1. CASE calls'[i] = calls[i]
    <3>1. /\ calls[i].state \in {"owner", "joiner"} => calls[i].flight \in Flights /\ flights[calls[i].flight].running
          /\ calls[i].state = "owner" => flights[calls[i].flight].kind = "fetch"
      BY DEF FlightInv, CallsWait
    <3>2. over => calls[i].flight # f BY <2>1
    <3> QED BY <2>1, <3>1, <3>2
  <2>2. CASE calls'[i].state = "settled" BY <2>2
  <2> QED BY <2>1, <2>2
<1>5. ASSUME NEW g \in Flights, Matters(g)' PROVE inflight'[flights'[g].key] = g
  <2>0. flights'[g].running /\ flights[g].running /\ flights[g].key \in Keys /\ flights'[g].key = flights[g].key
    BY <1>0, <1>5 DEF Matters
  <2>1. CASE g = f
    <3>1. ~over BY <2>0, <2>1
    <3>2. Owners(f)' = {} /\ flights[f].kind = "fetch" /\ drops BY <3>1
    <3>3. ~flights'[f].aborted BY <1>5, <2>1, <3>2 DEF Matters
    <3>4. inflight[k] # f BY <3>1, <3>3 DEF k
    <3>5. ~flights[f].aborted BY <3>3
    <3>6. Matters(f) BY <1>5, <2>0, <2>1, <3>5 DEF Matters
    <3> QED BY <3>4, <3>6 DEF FlightInv, k
  <2>2. CASE g # f
    <3>1. Matters(g) BY <1>0, <1>5, <2>0, <2>2 DEF Matters, FlightRecord
    <3>2. inflight[flights[g].key] = g BY <3>1 DEF FlightInv
    <3>3. CASE drops /\ flights[g].key = k
      <4>1. Matters(f) BY <1>5, <2>0, <3>3 DEF Matters, k
      <4>2. inflight[k] = f BY <4>1 DEF FlightInv, k
      <4> QED BY <2>2, <3>2, <3>3, <4>2
    <3>4. CASE ~(drops /\ flights[g].key = k) BY <1>1, <2>0, <3>2, <3>4
    <3> QED BY <3>3, <3>4
  <2> QED BY <2>1, <2>2
<1> QED BY <1>2, <1>3, <1>4, <1>5 DEF FlightInv

(* Calls that are settled own nothing.                                     *)
LEMMA SettleKeeps ==
  ASSUME FlightInv, NEW S \in SUBSET CacheCalls, NEW f \in Flights,
         \A i \in S : calls[i].flight = f, calls' = Settle(S)
  PROVE  /\ calls' \in [CacheCalls -> CallRecord]
         /\ \A i \in CacheCalls : calls'[i] = IF i \in S THEN Settled ELSE calls[i]
         /\ \A i \in CacheCalls : calls'[i] = calls[i] \/ calls'[i].state = "settled"
         /\ \A g \in Flights : g # f => Owners(g)' = Owners(g)
<1>1. calls \in [CacheCalls -> CallRecord] BY DEF FlightInv, FlightType
<1>2. Settled \in CallRecord /\ Settled.state = "settled" BY DEF Settled, CallRecord
<1>3. \A g \in Flights : Settled # [state |-> "owner", flight |-> g] BY DEF Settled
<1> HIDE DEF Settled
<1>4. /\ calls' \in [CacheCalls -> CallRecord]
      /\ \A i \in CacheCalls : calls'[i] = IF i \in S THEN Settled ELSE calls[i]
  BY <1>1, <1>2 DEF Settle
<1>5. ASSUME NEW g \in Flights, g # f, NEW j \in CacheCalls
      PROVE  calls'[j] = [state |-> "owner", flight |-> g] <=> calls[j] = [state |-> "owner", flight |-> g]
  <2>1. CASE j \in S
    <3>1. calls[j] # [state |-> "owner", flight |-> g] BY <1>5, <2>1
    <3> QED BY <1>3, <1>4, <2>1, <3>1
  <2>2. CASE j \notin S BY <1>4, <2>2
  <2> QED BY <2>1, <2>2
<1>6. ASSUME NEW g \in Flights, g # f PROVE Owners(g)' = Owners(g)
  <2>1. \A j \in CacheCalls :
           calls'[j] = [state |-> "owner", flight |-> g] <=> calls[j] = [state |-> "owner", flight |-> g]
    BY <1>5, <1>6
  <2> QED BY <2>1 DEF Owners
<1> QED BY <1>2, <1>4, <1>6

(* The factory ends, and its value is stored.                              *)
LEMMA FactoryEndsKeeps ==
  ASSUME FlightInv, NEW f \in Flights, NEW ok, FactoryEnds(f, ok)
  PROVE  FlightInv'
<1> DEFINE k == flights[f].key
           c == IF ok /\ ~disposed THEN SetKey(cache, k, 1, "fresh", TRUE) ELSE cache
           owned == Owners(f) # {}
           S == c.aborted \cup IF owned THEN {k} ELSE {}
           s == Signalled(S)
           drops == owned \/ flights[f].kind = "refresh"
           W == Waiters(f)
           over == TRUE
<1>1. /\ flights[f].running /\ flights' = [s EXCEPT ![f].running = FALSE]
      /\ inflight' = IF drops THEN [inflight EXCEPT ![flights[f].key] = Nil] ELSE inflight
      /\ calls' = Settle(W) /\ cleared' = cleared
  BY DEF FactoryEnds, Running
<1>2. FlightType BY DEF FlightInv
<1> HIDE DEF S
<1>3. /\ s \in [Flights -> FlightRecord]
      /\ \A g \in Flights : /\ s[g].key = flights[g].key /\ s[g].kind = flights[g].kind
                            /\ s[g].running = flights[g].running
                            /\ flights[g].aborted => s[g].aborted
  BY <1>2, SignalledOnly
<1> HIDE DEF s
<1>4. /\ flights' \in [Flights -> FlightRecord]
      /\ \A g \in Flights : /\ flights'[g].key = flights[g].key /\ flights'[g].kind = flights[g].kind
                            /\ flights'[g].running = (flights[g].running /\ ~(over /\ g = f))
                            /\ flights[g].aborted => flights'[g].aborted
  <2>1. s[f] \in FlightRecord BY <1>3
  <2> DEFINE e == [s[f] EXCEPT !.running = FALSE]
  <2>2. e \in FlightRecord /\ e.key = s[f].key /\ e.kind = s[f].kind /\ e.aborted = s[f].aborted
    BY <2>1 DEF FlightRecord
  <2>3. ~e.running BY <2>1 DEF FlightRecord
  <2> HIDE DEF e
  <2>4. flights' = [s EXCEPT ![f] = e] BY <1>1 DEF e
  <2>5. flights' \in [Flights -> FlightRecord] /\ flights'[f] = e /\ \A g \in Flights : g # f => flights'[g] = s[g]
    BY <1>3, <2>2, <2>4
  <2>6. ASSUME NEW g \in Flights
        PROVE  /\ flights'[g].key = flights[g].key /\ flights'[g].kind = flights[g].kind
               /\ flights'[g].running = (flights[g].running /\ ~(over /\ g = f))
               /\ flights[g].aborted => flights'[g].aborted
    <3>1. flights'[g] \in FlightRecord /\ flights[g] \in FlightRecord BY <1>2, <2>5 DEF FlightType
    <3>2. CASE g = f
      <4>1. flights'[g] = e BY <2>5, <3>2
      <4>2. ~flights'[g].running /\ flights'[g].running \in BOOLEAN BY <2>3, <3>1, <4>1 DEF FlightRecord
      <4>3. flights'[g].running = (flights[g].running /\ ~(over /\ g = f)) BY <3>2, <4>2, Zenon
      <4> QED BY <1>3, <2>2, <3>2, <4>1, <4>3
    <3>3. CASE g # f
      <4>1. flights'[g] = s[g] BY <2>5, <3>3
      <4>2. flights[g].running \in BOOLEAN BY <3>1 DEF FlightRecord
      <4> QED BY <1>3, <3>3, <4>1, <4>2
    <3> QED BY <3>2, <3>3
  <2> QED BY <2>5, <2>6
<1>5. W \in SUBSET CacheCalls /\ \A i \in W : calls[i].flight = f BY DEF Waiters
<1>6. /\ calls' \in [CacheCalls -> CallRecord]
      /\ \A i \in CacheCalls : calls'[i] = IF i \in W THEN Settled ELSE calls[i]
      /\ \A i \in CacheCalls : calls'[i] = calls[i] \/ calls'[i].state = "settled"
      /\ \A g \in Flights : g # f => Owners(g)' = Owners(g)
  <2> HIDE DEF W
  <2> QED BY <1>1, <1>5, SettleKeeps
<1>7. \A i \in CacheCalls : calls'[i].flight # f BY <1>6, FlightConstants DEF Waiters, Settled
<1>8. /\ drops \in BOOLEAN /\ over \in BOOLEAN /\ over
      /\ drops => flights[f].kind = "refresh" \/ Owners(f) # {}
      /\ ~drops => flights[f].kind = "fetch" /\ Owners(f) = {}
  <2>1. flights[f].kind # "none" /\ flights[f].kind \in {"none", "fetch", "refresh"}
    BY <1>1, <1>2 DEF FlightType, FlightRecord
  <2> QED BY <2>1
<1> HIDE DEF drops, over, W, Owners
<1>9. /\ over /\ ~drops => flights[f].kind = "fetch" /\ Owners(f) = {}
      /\ over => \A i \in CacheCalls : calls'[i].flight # f
      /\ ~over => drops /\ Owners(f)' = {} /\ flights[f].kind = "fetch" /\
                  (inflight[flights[f].key] = f => flights'[f].aborted)
  BY <1>7, <1>8
<1> QED BY <1>1, <1>4, <1>6, <1>8, <1>9, EndKeeps, ZenonT(120)

(* The owner's timer.                                                      *)
LEMMA TimeOutKeeps ==
  ASSUME FlightInv, NEW f \in Flights, TimeOut(f)
  PROVE  FlightInv'
<1> DEFINE k == flights[f].key
           s == Signalled({k})
           W == Owners(f)
           over == FALSE
           drops == TRUE
<1>1. /\ flights[f].running /\ Owners(f) # {} /\ flights' = s
      /\ inflight' = IF drops THEN [inflight EXCEPT ![flights[f].key] = Nil] ELSE inflight
      /\ calls' = Settle(W) /\ cleared' = cleared
  BY DEF TimeOut, TimesOut, Running
<1>2. FlightType BY DEF FlightInv
<1>a. k \in Keys BY <1>1, <1>2 DEF FlightType
<1> HIDE DEF k
<1>3. /\ s \in [Flights -> FlightRecord]
      /\ \A g \in Flights : /\ s[g].key = flights[g].key /\ s[g].kind = flights[g].kind
                            /\ s[g].running = flights[g].running
                            /\ flights[g].aborted => s[g].aborted
                            /\ (\E j \in {k} \cap Keys : inflight[j] = g) => s[g].aborted
  BY <1>2, SignalledOnly
<1> HIDE DEF s
<1>4. /\ flights' \in [Flights -> FlightRecord]
      /\ \A g \in Flights : /\ flights'[g].key = flights[g].key /\ flights'[g].kind = flights[g].kind
                            /\ flights'[g].running = (flights[g].running /\ ~(over /\ g = f))
                            /\ flights[g].aborted => flights'[g].aborted
      /\ inflight[flights[f].key] = f => flights'[f].aborted
  <2>1. \A g \in Flights : flights[g].running \in BOOLEAN BY <1>2 DEF FlightType, FlightRecord
  <2>2. inflight[k] = f => flights'[f].aborted BY <1>1, <1>3, <1>a
  <2> QED BY <1>1, <1>3, <2>1, <2>2 DEF k
<1>5. W \in SUBSET CacheCalls /\ \A i \in W : calls[i].flight = f BY DEF Owners
<1>6. /\ calls' \in [CacheCalls -> CallRecord]
      /\ \A i \in CacheCalls : calls'[i] = IF i \in W THEN Settled ELSE calls[i]
      /\ \A i \in CacheCalls : calls'[i] = calls[i] \/ calls'[i].state = "settled"
      /\ \A g \in Flights : g # f => Owners(g)' = Owners(g)
  <2> HIDE DEF W
  <2> QED BY <1>1, <1>5, SettleKeeps
<1>7. Owners(f)' = {}
  <2>1. Settled # [state |-> "owner", flight |-> f] BY DEF Settled
  <2>2. ASSUME NEW i \in CacheCalls PROVE calls'[i] # [state |-> "owner", flight |-> f]
    <3>1. CASE i \in W BY <1>6, <2>1, <3>1
    <3>2. CASE i \notin W BY <1>6, <3>2 DEF Owners
    <3> QED BY <3>1, <3>2
  <2> QED BY <2>2 DEF Owners
<1>8. flights[f].kind = "fetch"
  <2>1. PICK i \in CacheCalls : calls[i] = [state |-> "owner", flight |-> f] BY <1>1 DEF Owners
  <2>2. calls[i].state = "owner" /\ calls[i].flight = f BY <2>1
  <2> QED BY <2>2 DEF FlightInv, CallsWait
<1>9. drops \in BOOLEAN /\ over \in BOOLEAN /\ ~over /\ drops OBVIOUS
<1> HIDE DEF drops, over, W, Owners
<1>b. /\ over /\ ~drops => flights[f].kind = "fetch" /\ Owners(f) = {}
      /\ over => \A i \in CacheCalls : calls'[i].flight # f
      /\ drops => flights[f].kind = "refresh" \/ Owners(f) # {}
      /\ ~over => drops /\ Owners(f)' = {} /\ flights[f].kind = "fetch" /\
                  (inflight[flights[f].key] = f => flights'[f].aborted)
  BY <1>1, <1>4, <1>7, <1>8, <1>9
<1> QED BY <1>1, <1>4, <1>6, <1>9, <1>b, EndKeeps, Zenon

(* Each operation of the cache.                                            *)
LEMMA FlightStep == ASSUME FlightInv, CacheNext PROVE FlightInv'
<1>1. ASSUME NEW c, Does(c) PROVE FlightInv'
  BY <1>1, DoesKeep DEF Does, Becomes
<1>2. ASSUME NEW k, Ages_(k) PROVE FlightInv'
  <2>1. UNCHANGED << flights, inflight, calls, cleared >> BY <1>2 DEF Ages_
  <2> QED BY <2>1 DEF FlightInv, FlightType, RegisteredRuns, CallsWait, Matters, Owners
<1>3. ASSUME ClearAll \/ Dispose PROVE FlightInv'
  BY <1>3, ClearKeeps DEF ClearAll, Dispose, Becomes
<1>4. ASSUME Async PROVE FlightInv'
  <2>1. ASSUME NEW k \in AsyncKeys, NEW i \in CacheCalls, Hit(i, k) \/ HitStale(i, k) \/ Join(i, k) \/ Fetch(i, k)
        PROVE  FlightInv'
    <3>1. k \in Keys BY FlightConstants
    <3> QED BY <2>1, <3>1, HitKeeps, HitStaleKeeps, JoinKeeps, FetchKeeps
  <2>2. ASSUME NEW k \in AsyncKeys, Set(k, 1, "fresh", TRUE) PROVE FlightInv'
    BY <1>1, <2>2 DEF Set
  <2>3. ASSUME NEW f \in Flights, TimeOut(f) \/ \E ok \in BOOLEAN : FactoryEnds(f, ok) PROVE FlightInv'
    BY <2>3, TimeOutKeeps, FactoryEndsKeeps
  <2> QED BY <1>4, <2>1, <2>2, <2>3 DEF Async
<1>5. ASSUME Entries PROVE FlightInv'
  <2>1. \/ \E k \in Keys :
             \/ \E w \in {1, 2}, age \in {"never", "fresh"}, wins \in BOOLEAN : Set(k, w, age, wins)
             \/ Get(k) \/ Peek(k)
             \/ \E age \in {"never", "fresh"} : TouchKey(k, age)
        \/ \E p \in Pair, wins \in BOOLEAN : SetPair(p[1], p[2], 1, wins)
        \/ \E S \in SUBSET Keys : InvalidateSome(S)
        \/ \E n \in {1, Cardinality(Keys)} : CleanupExpired(n)
        \/ \E m \in 1..MaxEntries : ResizeTo(m)
    BY <1>5 DEF Entries
  <2>2. \E c : Does(c)
    BY <2>1, Zenon DEF Set, Get, Peek, TouchKey, SetPair, InvalidateSome, CleanupExpired, ResizeTo
  <2> QED BY <1>1, <2>2
<1>6. ASSUME NEW k, Delete(k) PROVE FlightInv' BY <1>1, <1>6 DEF Delete
<1>7. ASSUME Evict PROVE FlightInv' BY <1>1, <1>7 DEF Evict
<1> QED BY <1>2, <1>3, <1>4, <1>5, <1>6, <1>7 DEF CacheNext

(* Before the first call.                                                  *)
LEMMA FlightStart == ASSUME NEW p, NEW b, InitWith(p, b) PROVE FlightInv
<1>1. /\ flights = [f \in Flights |-> IdleFlight] /\ inflight = [k \in Keys |-> Nil]
      /\ calls = [i \in CacheCalls |-> [state |-> "new", flight |-> Nil]] /\ cleared = {}
  BY DEF InitWith
<1>2. IdleFlight \in FlightRecord /\ ~IdleFlight.running BY DEF IdleFlight, FlightRecord
<1> HIDE DEF IdleFlight
<1>3. [state |-> "new", flight |-> Nil] \in CallRecord BY DEF CallRecord
<1>4. FlightType BY <1>1, <1>2, <1>3 DEF FlightType
<1>5. RegisteredRuns BY <1>1, FlightConstants DEF RegisteredRuns
<1>6. CallsWait BY <1>1 DEF CallsWait
<1> QED BY <1>1, <1>2, <1>4, <1>5, <1>6 DEF FlightInv, Matters

(* While other parts move.                                                 *)
LEMMA FlightsStand == ASSUME FlightInv, UNCHANGED vars PROVE FlightInv'
  BY DEF FlightInv, FlightType, RegisteredRuns, CallsWait, Matters, Owners, vars

(***************************************************************************)
(* The memoizer's runs.                                                    *)
(***************************************************************************)
RunRecord == [key : MKeys \cup {NoRun}, state : {"none", "running", "ok", "failed"}]
CallerRecord == [state : {"new", "waiting", "done"}, run : Runs \cup {NoRun}]

MemoType ==
  /\ runs \in [Runs -> RunRecord]
  /\ store \in [MKeys -> Runs \cup {NoRun}] /\ memoFlight \in [MKeys -> Runs \cup {NoRun}]
  /\ callers \in [Callers -> CallerRecord]
  /\ \A r \in Runs : runs[r].state = "running" => runs[r].key \in MKeys

MemoRegistered ==
  /\ \A r \in Runs : runs[r].state = "running" /\ runs[r].key \notin given => memoFlight[runs[r].key] = r
  /\ \A k \in MKeys, r \in Runs : memoFlight[k] = r => runs[r].key = k /\ runs[r].state = "running"

MemoStored == \A k \in MKeys, r \in Runs : store[k] = r => runs[r].key = k /\ runs[r].state = "ok"

MemoWaits ==
  \A i \in Callers : callers[i].state = "waiting" => callers[i].run \in Runs /\ runs[callers[i].run].state = "running"

MemoInv == MemoType /\ MemoRegistered /\ MemoStored /\ MemoWaits

(* The invariant says what the memoizer promises.                          *)
LEMMA MemoKeepsPromises == MemoInv => RunsAreShared
<1> SUFFICES ASSUME MemoInv PROVE RunsAreShared OBVIOUS
<1>1. ASSUME NEW q \in Runs, NEW r \in Runs, runs[q].state = "running", runs[r].state = "running",
             runs[q].key = runs[r].key, runs[q].key \notin given
      PROVE  q = r
  BY <1>1 DEF MemoInv, MemoRegistered
<1>2. \A r \in Runs : runs[r] = [key |-> runs[r].key, state |-> runs[r].state]
  BY DEF MemoInv, MemoType, RunRecord
<1>3. \A k \in MKeys : memoFlight[k] # NoRun => runs[memoFlight[k]] = [key |-> k, state |-> "running"]
  BY <1>2 DEF MemoInv, MemoType, MemoRegistered
<1>4. \A k \in MKeys : store[k] # NoRun => runs[store[k]] = [key |-> k, state |-> "ok"]
  BY <1>2 DEF MemoInv, MemoType, MemoStored
<1>5. \A i \in Callers : callers[i].state = "waiting" => runs[callers[i].run].state = "running"
  BY DEF MemoInv, MemoWaits
<1> QED BY <1>1, <1>3, <1>4, <1>5 DEF RunsAreShared

(* A call is answered, or joins what is registered.                        *)
LEMMA MemoAnswers ==
  ASSUME MemoInv, NEW i \in Callers, NEW k \in MKeys, MemoHit(i, k) \/ MemoJoin(i, k)
  PROVE  MemoInv'
<1>1. UNCHANGED << store, memoFlight, runs, given >> BY DEF MemoHit, MemoJoin
<1>2. PICK c \in CallerRecord :
         /\ callers' = [callers EXCEPT ![i] = c]
         /\ c.state = "waiting" => c.run \in Runs /\ runs[c.run].state = "running"
  <2>1. CASE MemoHit(i, k)
    <3> DEFINE c == [state |-> "done", run |-> store[k]]
    <3>1. callers' = [callers EXCEPT ![i] = c] BY <2>1 DEF MemoHit, MemoAnswered
    <3>2. c \in CallerRecord /\ c.state # "waiting" BY DEF MemoInv, MemoType, CallerRecord
    <3> QED BY <3>1, <3>2
  <2>2. CASE MemoJoin(i, k)
    <3> DEFINE c == [state |-> "waiting", run |-> memoFlight[k]]
    <3>1. callers' = [callers EXCEPT ![i] = c] /\ memoFlight[k] # NoRun BY <2>2 DEF MemoJoin, Waiting
    <3>2. memoFlight[k] \in Runs /\ runs[memoFlight[k]].state = "running"
      BY <3>1 DEF MemoInv, MemoType, MemoRegistered
    <3>3. c \in CallerRecord /\ c.run = memoFlight[k] BY <3>2 DEF CallerRecord
    <3> QED BY <3>1, <3>2, <3>3
  <2> QED BY <2>1, <2>2
<1>3. callers \in [Callers -> CallerRecord] BY DEF MemoInv, MemoType
<1>4. callers' \in [Callers -> CallerRecord] /\ callers'[i] = c /\ \A j \in Callers : j # i => callers'[j] = callers[j]
  BY <1>2, <1>3
<1>5. MemoType' BY <1>1, <1>4 DEF MemoInv, MemoType
<1>6. MemoRegistered' /\ MemoStored' BY <1>1 DEF MemoInv, MemoRegistered, MemoStored
<1>7. MemoWaits'
  <2> SUFFICES ASSUME NEW j \in Callers, callers'[j].state = "waiting"
               PROVE  callers'[j].run \in Runs /\ runs'[callers'[j].run].state = "running"
    BY DEF MemoWaits
  <2>1. CASE j = i BY <1>1, <1>2, <1>4, <2>1
  <2>2. CASE j # i BY <1>1, <1>4, <2>2 DEF MemoInv, MemoWaits
  <2> QED BY <2>1, <2>2
<1> QED BY <1>5, <1>6, <1>7 DEF MemoInv

(* A call runs the function.                                               *)
LEMMA MemoRuns ==
  ASSUME MemoInv, NEW i \in Callers, NEW k \in MKeys, MemoRun(i, k)
  PROVE  MemoInv'
<1>1. memoFlight[k] = NoRun /\ store' = store /\ given' = given BY DEF MemoRun
<1>2. PICK r \in Runs :
         /\ runs[r].state = "none"
         /\ runs' = [runs EXCEPT ![r] = [key |-> k, state |-> "running"]]
         /\ memoFlight' = [memoFlight EXCEPT ![k] = r]
         /\ callers' = [callers EXCEPT ![i] = [state |-> "waiting", run |-> r]]
  BY DEF MemoRun, MayBegin, Waiting
<1>0. /\ runs \in [Runs -> RunRecord] /\ memoFlight \in [MKeys -> Runs \cup {NoRun}]
      /\ callers \in [Callers -> CallerRecord]
  BY DEF MemoInv, MemoType
<1> DEFINE b == [key |-> k, state |-> "running"]
           c == [state |-> "waiting", run |-> r]
<1>3. b \in RunRecord /\ b.key = k /\ b.state = "running" BY DEF RunRecord
<1>4. c \in CallerRecord /\ c.state = "waiting" /\ c.run = r BY DEF CallerRecord
<1> HIDE DEF b, c
<1>5. runs' = [runs EXCEPT ![r] = b] /\ callers' = [callers EXCEPT ![i] = c] BY <1>2 DEF b, c
<1>6. runs' \in [Runs -> RunRecord] /\ runs'[r] = b /\ \A q \in Runs : q # r => runs'[q] = runs[q]
  BY <1>0, <1>3, <1>5
<1>7. callers' \in [Callers -> CallerRecord] /\ callers'[i] = c /\ \A j \in Callers : j # i => callers'[j] = callers[j]
  BY <1>0, <1>4, <1>5
<1>8. /\ memoFlight' \in [MKeys -> Runs \cup {NoRun}] /\ memoFlight'[k] = r
      /\ \A j \in MKeys : j # k => memoFlight'[j] = memoFlight[j]
  BY <1>0, <1>2
<1>9. MemoType'
  <2>1. \A q \in Runs : runs'[q].state = "running" => runs'[q].key \in MKeys
    BY <1>3, <1>6 DEF MemoInv, MemoType
  <2>2. store' \in [MKeys -> Runs \cup {NoRun}] BY <1>1 DEF MemoInv, MemoType
  <2> QED BY <1>6, <1>7, <1>8, <2>1, <2>2 DEF MemoType
<1>a. MemoRegistered'
  <2>1. ASSUME NEW q \in Runs, runs'[q].state = "running", runs'[q].key \notin given'
        PROVE  memoFlight'[runs'[q].key] = q
    <3>1. CASE q = r BY <1>3, <1>6, <1>8, <3>1
    <3>2. CASE q # r
      <4>1. memoFlight[runs[q].key] = q /\ runs[q].key \in MKeys
        BY <1>1, <1>6, <2>1, <3>2 DEF MemoInv, MemoRegistered, MemoType
      <4>2. runs[q].key # k BY <1>1, <4>1, MemoConstants
      <4> QED BY <1>6, <1>8, <3>2, <4>1, <4>2
    <3> QED BY <3>1, <3>2
  <2>2. ASSUME NEW j \in MKeys, NEW q \in Runs, memoFlight'[j] = q
        PROVE  runs'[q].key = j /\ runs'[q].state = "running"
    <3>1. CASE j = k BY <1>3, <1>6, <1>8, <2>2, <3>1
    <3>2. CASE j # k
      <4>1. runs[q].key = j /\ runs[q].state = "running"
        BY <1>8, <2>2, <3>2 DEF MemoInv, MemoRegistered
      <4> QED BY <1>2, <1>6, <4>1
    <3> QED BY <3>1, <3>2
  <2> QED BY <2>1, <2>2 DEF MemoRegistered
<1>b. MemoStored'
  <2>1. ASSUME NEW j \in MKeys, NEW q \in Runs, store[j] = q PROVE runs'[q].key = j /\ runs'[q].state = "ok"
    <3>1. runs[q].key = j /\ runs[q].state = "ok" BY <2>1 DEF MemoInv, MemoStored
    <3> QED BY <1>2, <1>6, <3>1
  <2> QED BY <1>1, <2>1 DEF MemoStored
<1>c. MemoWaits'
  <2> SUFFICES ASSUME NEW j \in Callers, callers'[j].state = "waiting"
               PROVE  callers'[j].run \in Runs /\ runs'[callers'[j].run].state = "running"
    BY DEF MemoWaits
  <2>1. CASE j = i BY <1>3, <1>4, <1>6, <1>7, <2>1
  <2>2. CASE j # i
    <3>1. callers[j].run \in Runs /\ runs[callers[j].run].state = "running" BY <1>7, <2>2 DEF MemoInv, MemoWaits
    <3> QED BY <1>2, <1>6, <1>7, <2>2, <3>1
  <2> QED BY <2>1, <2>2
<1> QED BY <1>9, <1>a, <1>b, <1>c DEF MemoInv

(* A run ends: whatever is registered for its key is taken out, which is   *)
(* this run unless the key was given up.                                   *)
LEMMA MemoEnds ==
  ASSUME MemoInv, NEW r \in Runs, NEW ok \in BOOLEAN, RunEnds(r, ok)
  PROVE  MemoInv'
<1> DEFINE k == runs[r].key
           x == IF ok THEN "ok" ELSE "failed"
<1>1. /\ runs[r].state = "running" /\ runs' = [runs EXCEPT ![r].state = x]
      /\ store' = IF ok THEN [store EXCEPT ![k] = r] ELSE store
      /\ memoFlight' = [memoFlight EXCEPT ![k] = NoRun]
      /\ callers' = [i \in Callers |-> IF callers[i] = [state |-> "waiting", run |-> r]
                                       THEN [state |-> "done", run |-> r] ELSE callers[i]]
      /\ given' = given
  BY DEF RunEnds, Released
<1>0. /\ runs \in [Runs -> RunRecord] /\ memoFlight \in [MKeys -> Runs \cup {NoRun}]
      /\ store \in [MKeys -> Runs \cup {NoRun}]
      /\ callers \in [Callers -> CallerRecord] /\ k \in MKeys
  BY <1>1 DEF MemoInv, MemoType
<1>2. x \in {"ok", "failed"} /\ (ok <=> x = "ok") OBVIOUS
<1> DEFINE b == [runs[r] EXCEPT !.state = x]
<1>3. b \in RunRecord /\ b.key = k /\ b.state = x
  <2> HIDE DEF x
  <2>1. runs[r] \in RunRecord BY <1>0
  <2> QED BY <1>2, <2>1 DEF RunRecord
<1> HIDE DEF k, x
<1>4. runs' \in [Runs -> RunRecord] /\ runs'[r] = b /\ \A q \in Runs : q # r => runs'[q] = runs[q]
  BY <1>0, <1>1, <1>3
<1> HIDE DEF b
<1>5. /\ memoFlight' \in [MKeys -> Runs \cup {NoRun}] /\ memoFlight'[k] = NoRun
      /\ \A j \in MKeys : j # k => memoFlight'[j] = memoFlight[j]
  BY <1>0, <1>1
<1>6. /\ store' \in [MKeys -> Runs \cup {NoRun}]
      /\ \A j \in MKeys : store'[j] = IF ok /\ j = k THEN r ELSE store[j]
  BY <1>0, <1>1
<1> DEFINE w == [state |-> "waiting", run |-> r]
           d == [state |-> "done", run |-> r]
<1>7. d \in CallerRecord /\ d.state = "done" /\ \A e \in CallerRecord : e.state = "waiting" /\ e.run = r => e = w
  BY DEF CallerRecord
<1>8. /\ callers' \in [Callers -> CallerRecord]
      /\ \A i \in Callers : callers'[i] = IF callers[i] = w THEN d ELSE callers[i]
  BY <1>0, <1>1, <1>7
<1> HIDE DEF w, d
<1>9. MemoType'
  <2>1. \A q \in Runs : runs'[q].state = "running" => runs'[q].key \in MKeys
    BY <1>0, <1>3, <1>4 DEF MemoInv, MemoType
  <2> QED BY <1>4, <1>5, <1>6, <1>8, <2>1 DEF MemoType
<1>a. MemoRegistered'
  <2>1. ASSUME NEW q \in Runs, runs'[q].state = "running", runs'[q].key \notin given'
        PROVE  memoFlight'[runs'[q].key] = q
    <3>1. q # r BY <1>2, <1>3, <1>4, <2>1
    <3>2. runs'[q] = runs[q] BY <1>4, <3>1
    <3>3. memoFlight[runs[q].key] = q /\ runs[q].key \in MKeys
      BY <1>1, <2>1, <3>2 DEF MemoInv, MemoRegistered, MemoType
    <3>4. runs[q].key # k
      <4> SUFFICES ASSUME runs[q].key = k PROVE FALSE OBVIOUS
      <4>1. memoFlight[k] = r BY <1>1, <2>1, <3>2 DEF MemoInv, MemoRegistered, k
      <4> QED BY <3>1, <3>3, <4>1
    <3> QED BY <1>5, <3>2, <3>3, <3>4
  <2>2. ASSUME NEW j \in MKeys, NEW q \in Runs, memoFlight'[j] = q
        PROVE  runs'[q].key = j /\ runs'[q].state = "running"
    <3>1. j # k /\ memoFlight[j] = q BY <1>5, <2>2, MemoConstants
    <3>2. runs[q].key = j /\ runs[q].state = "running" BY <3>1 DEF MemoInv, MemoRegistered
    <3>3. q # r BY <3>1, <3>2 DEF k
    <3> QED BY <1>4, <3>2, <3>3
  <2> QED BY <2>1, <2>2 DEF MemoRegistered
<1>b. MemoStored'
  <2> SUFFICES ASSUME NEW j \in MKeys, NEW q \in Runs, store'[j] = q PROVE runs'[q].key = j /\ runs'[q].state = "ok"
    BY DEF MemoStored
  <2>1. CASE ok /\ j = k BY <1>2, <1>3, <1>4, <1>6, <2>1
  <2>2. CASE ~(ok /\ j = k)
    <3>1. runs[q].key = j /\ runs[q].state = "ok" BY <1>6, <2>2 DEF MemoInv, MemoStored
    <3>2. q # r BY <1>1, <3>1
    <3> QED BY <1>4, <3>1, <3>2
  <2> QED BY <2>1, <2>2
<1>c. MemoWaits'
  <2> SUFFICES ASSUME NEW j \in Callers, callers'[j].state = "waiting"
               PROVE  callers'[j].run \in Runs /\ runs'[callers'[j].run].state = "running"
    BY DEF MemoWaits
  <2>1. callers[j] # w /\ callers'[j] = callers[j] BY <1>7, <1>8
  <2>2. callers[j].run \in Runs /\ runs[callers[j].run].state = "running" BY <2>1 DEF MemoInv, MemoWaits
  <2>3. callers[j].run # r BY <1>0, <1>7, <2>1
  <2> QED BY <1>4, <2>1, <2>2, <2>3
<1> QED BY <1>9, <1>a, <1>b, <1>c DEF MemoInv

(* What is dropped, by eviction, delete() or clear(), is given up.         *)
LEMMA MemoDrops ==
  ASSUME MemoInv, NEW S \in SUBSET MKeys, UNCHANGED << runs, callers >>,
         store' \in [MKeys -> Runs \cup {NoRun}], memoFlight' \in [MKeys -> Runs \cup {NoRun}],
         \A k \in MKeys : store'[k] = store[k] \/ store'[k] = NoRun,
         \A k \in MKeys : memoFlight'[k] = IF k \in S THEN NoRun ELSE memoFlight[k],
         given' = given \cup { k \in S : memoFlight[k] # NoRun }
  PROVE  MemoInv'
<1>1. MemoType' BY DEF MemoInv, MemoType
<1>2. MemoStored' BY MemoConstants DEF MemoInv, MemoStored
<1>3. MemoWaits' BY DEF MemoInv, MemoWaits
<1>4. ASSUME NEW r \in Runs, runs[r].state = "running", runs[r].key \notin given'
      PROVE  memoFlight'[runs[r].key] = r
  <2>1. memoFlight[runs[r].key] = r /\ runs[r].key \in MKeys BY <1>4 DEF MemoInv, MemoRegistered, MemoType
  <2>2. runs[r].key \notin S BY <1>4, <2>1, MemoConstants
  <2> QED BY <2>1, <2>2
<1>5. ASSUME NEW k \in MKeys, NEW r \in Runs, memoFlight'[k] = r
      PROVE  runs[r].key = k /\ runs[r].state = "running"
  BY <1>5, MemoConstants DEF MemoInv, MemoRegistered
<1>6. MemoRegistered' BY <1>4, <1>5 DEF MemoRegistered
<1> QED BY <1>1, <1>2, <1>3, <1>6 DEF MemoInv

(* Each operation of the memoizer.                                         *)
LEMMA MemoStep == ASSUME MemoInv, MNext PROVE MemoInv'
<1>0. store \in [MKeys -> Runs \cup {NoRun}] /\ memoFlight \in [MKeys -> Runs \cup {NoRun}]
  BY DEF MemoInv, MemoType
<1>1. ASSUME NEW k \in MKeys, NEW i \in Callers, MemoHit(i, k) \/ MemoJoin(i, k) \/ MemoRun(i, k) PROVE MemoInv'
  BY <1>1, MemoAnswers, MemoRuns
<1>2. ASSUME NEW k \in MKeys, Lose(k) PROVE MemoInv'
  <2> DEFINE S == {}
  <2>1. /\ UNCHANGED << memoFlight, runs, callers, given >> /\ store' = [store EXCEPT ![k] = NoRun]
    BY <1>2 DEF Lose
  <2>2. /\ S \in SUBSET MKeys /\ given' = given \cup { j \in S : memoFlight[j] # NoRun }
        /\ store' \in [MKeys -> Runs \cup {NoRun}] /\ memoFlight' \in [MKeys -> Runs \cup {NoRun}]
        /\ \A j \in MKeys : store'[j] = store[j] \/ store'[j] = NoRun
        /\ \A j \in MKeys : memoFlight'[j] = IF j \in S THEN NoRun ELSE memoFlight[j]
    BY <1>0, <2>1
  <2> HIDE DEF S
  <2> QED BY <2>1, <2>2, MemoDrops
<1>3. ASSUME NEW k \in MKeys, MemoDelete(k) PROVE MemoInv'
  <2> DEFINE S == {k}
  <2>1. /\ UNCHANGED << runs, callers >> /\ store' = [store EXCEPT ![k] = NoRun]
        /\ memoFlight' = [memoFlight EXCEPT ![k] = NoRun] /\ given' = given \cup { j \in S : memoFlight[j] # NoRun }
    BY <1>3 DEF MemoDelete, Give
  <2>2. /\ S \in SUBSET MKeys
        /\ store' \in [MKeys -> Runs \cup {NoRun}] /\ memoFlight' \in [MKeys -> Runs \cup {NoRun}]
        /\ \A j \in MKeys : store'[j] = store[j] \/ store'[j] = NoRun
        /\ \A j \in MKeys : memoFlight'[j] = IF j \in S THEN NoRun ELSE memoFlight[j]
    BY <1>0, <2>1
  <2> HIDE DEF S
  <2> QED BY <2>1, <2>2, MemoDrops
<1>4. ASSUME MemoClear PROVE MemoInv'
  <2> DEFINE S == MKeys
  <2>1. /\ UNCHANGED << runs, callers >> /\ store' = [k \in MKeys |-> NoRun]
        /\ memoFlight' = [k \in MKeys |-> NoRun] /\ given' = given \cup { j \in S : memoFlight[j] # NoRun }
    BY <1>4 DEF MemoClear, Give
  <2>2. /\ S \in SUBSET MKeys
        /\ store' \in [MKeys -> Runs \cup {NoRun}] /\ memoFlight' \in [MKeys -> Runs \cup {NoRun}]
        /\ \A j \in MKeys : store'[j] = store[j] \/ store'[j] = NoRun
        /\ \A j \in MKeys : memoFlight'[j] = IF j \in S THEN NoRun ELSE memoFlight[j]
    BY <2>1
  <2> HIDE DEF S
  <2> QED BY <2>1, <2>2, MemoDrops
<1> QED BY <1>1, <1>2, <1>3, <1>4, MemoEnds DEF MNext

(* Before the first call.                                                  *)
LEMMA MemoStart == MInit => MemoInv
<1> SUFFICES ASSUME MInit PROVE MemoInv OBVIOUS
<1>1. [key |-> NoRun, state |-> "none"] \in RunRecord /\ [state |-> "new", run |-> NoRun] \in CallerRecord
  BY DEF RunRecord, CallerRecord
<1>2. MemoType BY <1>1 DEF MInit, MemoType
<1>3. MemoRegistered /\ MemoStored BY MemoConstants DEF MInit, MemoRegistered, MemoStored
<1>4. MemoWaits BY DEF MInit, MemoWaits
<1> QED BY <1>2, <1>3, <1>4 DEF MemoInv

(* While other parts move.                                                 *)
LEMMA MemoStands == ASSUME MemoInv, UNCHANGED mvars PROVE MemoInv'
  BY DEF MemoInv, MemoType, MemoRegistered, MemoStored, MemoWaits, mvars

(* Concurrent calls of getOrSetAsync() and of a memoized function for one  *)
(* key share one run, unless it was told to stop or the key was given up   *)
(* while it ran; what is registered runs, and so does whatever is waited   *)
(* for: for every number of keys, calls and runs.                          *)
THEOREM RunsAlwaysShared == Spec => []SharedRuns
<1> DEFINE I == (part = "cache" => FlightInv) /\ (part = "memo" => MemoInv)
<1>1. Init => I BY FlightStart, MemoStart DEF Init, StoreInit
<1>2. I /\ [Next]_<< part, storeVars, primitiveVars, listenerVars >> => I'
  <2> SUFFICES ASSUME I, [Next]_<< part, storeVars, primitiveVars, listenerVars >> PROVE I'
    OBVIOUS
  <2>1. CASE Next
    <3>1. part' = part /\ (part = "cache" => CacheNext) /\ (part = "memo" => MNext)
      BY <2>1 DEF Next, StoreNext, PrimitiveNext, ListenerNext
    <3> QED BY <3>1, FlightStep, MemoStep
  <2>2. CASE UNCHANGED << part, storeVars, primitiveVars, listenerVars >>
    <3>1. part' = part /\ UNCHANGED vars /\ UNCHANGED mvars BY <2>2 DEF storeVars
    <3> QED BY <3>1, FlightsStand, MemoStands
  <2> QED BY <2>1, <2>2
<1>3. I => SharedRuns BY FlightsKeepPromises, MemoKeepsPromises DEF SharedRuns
<1> QED BY <1>1, <1>2, <1>3, PTL DEF Spec
=============================================================================
