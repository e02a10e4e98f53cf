--------------------------- MODULE PowerPool_proofs ---------------------------
(***************************************************************************)
(* The safety of PowerPool, for every set of calls, workers, sizes and     *)
(* scenarios.                                                              *)
(*                                                                         *)
(* An operator of PoolOps is followed by a predicate on the pool before it *)
(* and the pool after it that says what it changes (Settles, Joins, Hands, *)
(* Dismisses, ...); from the predicate follow Inv, which holds between any *)
(* two statements of the code, and Follows, which says what a step may do  *)
(* to the calls it has not in hand.  Goes and Announced add the drains and *)
(* the idle state, and hold of whole methods.  Main is the invariant of    *)
(* the specification and Stands what every step of it keeps.               *)
(*                                                                         *)
(* Recursive functions are reasoned about by their least counterexample.   *)
(***************************************************************************)
EXTENDS PowerPool, FiniteSetTheorems, SequenceTheorems, WellFoundedInduction, TLAPS

(***************************************************************************)
(* Sequences.                                                              *)
(***************************************************************************)

\* The elements of a sequence.
In(s) == {s[i] : i \in 1..Len(s)}

Distinct(s) == \A i, j \in 1..Len(s) : s[i] = s[j] => i = j

(* A set of naturals has a least element: what the proofs about recursive  *)
(* functions do instead of induction.                                      *)
LEMMA LeastExists ==
  ASSUME NEW T, T \subseteq Nat, T # {}
  PROVE  \E n \in T : \A m \in T : n <= m
<1> DEFINE R == OpToRel(<, Nat)
<1>1. R = {ss \in Nat \X Nat : ss[1] < ss[2]}
  BY DEF OpToRel
<1>2. PICK n \in T : \A m \in T : ~(<< m, n >> \in R)
  <2> HIDE DEF R
  <2>1. IsWellFoundedOn(R, Nat)
    BY NatLessThanWellFounded DEF R
  <2> QED BY <2>1, WFMin
<1>3. ASSUME NEW m \in T, ~(n <= m) PROVE FALSE
  <2>1. n \in Nat /\ m \in Nat /\ m < n
    BY <1>3
  <2>2. << m, n >> \in R
    BY <1>1, <2>1
  <2> QED BY <1>2, <2>2
<1> HIDE DEF R
<1> QED BY <1>3

\* The recursive function of Without, over the first n elements of s.
IsKept(s, X, n, kept) ==
  kept = [i \in 0..n |-> IF i = 0 THEN << >>
                         ELSE IF s[i] \in X THEN kept[i - 1] ELSE Append(kept[i - 1], s[i])]

(* The function exists.                                                    *)
LEMMA KeptExists ==
  ASSUME NEW s, NEW X, NEW n \in Nat
  PROVE  \E kept : IsKept(s, X, n, kept)
<1> DEFINE T == {m \in 0..n : ~\E kept : IsKept(s, X, m, kept)}
<1>1. SUFFICES ASSUME T # {} PROVE FALSE
  OBVIOUS
<1>2. PICK m \in T : \A k \in T : m <= k
  <2>1. T \subseteq Nat OBVIOUS
  <2> HIDE DEF T
  <2> QED BY <1>1, <2>1, LeastExists
<1>3. m # 0
  <2>1. IsKept(s, X, 0, [i \in 0..0 |-> << >>])
    BY DEF IsKept
  <2> QED BY <1>2, <2>1
<1>4. PICK before : IsKept(s, X, m - 1, before)
  BY <1>2, <1>3
<1> DEFINE kept == [i \in 0..m |-> IF i = m
                                   THEN IF s[m] \in X THEN before[m - 1]
                                        ELSE Append(before[m - 1], s[m])
                                   ELSE before[i]]
<1>5. IsKept(s, X, m, kept)
  <2>1. m \in Nat BY <1>2
  <2>2. ASSUME NEW i \in 0..m
        PROVE  kept[i] = IF i = 0 THEN << >>
                         ELSE IF s[i] \in X THEN kept[i - 1] ELSE Append(kept[i - 1], s[i])
    <3>1. CASE i = m
      BY <1>3, <2>1, <3>1
    <3>2. CASE i # m
      <4>1. i \in 0..(m - 1) /\ (i # 0 => i - 1 \in 0..(m - 1) /\ i - 1 # m)
        BY <2>1, <3>2
      <4>2. before[i] = IF i = 0 THEN << >>
                        ELSE IF s[i] \in X THEN before[i - 1] ELSE Append(before[i - 1], s[i])
        BY <1>4, <4>1 DEF IsKept
      <4> QED BY <2>1, <3>2, <4>1, <4>2
    <3> QED BY <3>1, <3>2
  <2> QED BY <2>2 DEF IsKept
<1> QED BY <1>2, <1>5

\* What Without keeps of the first n elements of s.
KeepsOf(S, s, X, n, t) ==
  /\ t \in Seq(S)
  /\ In(t) = {s[i] : i \in 1..n} \ X
  /\ Len(t) <= n
  /\ Distinct(s) => Distinct(t)

(* One more element.                                                       *)
LEMMA KeepsOneMore ==
  ASSUME NEW S, NEW s \in Seq(S), NEW X, NEW n \in 1..Len(s), NEW t, KeepsOf(S, s, X, n - 1, t)
  PROVE  KeepsOf(S, s, X, n, IF s[n] \in X THEN t ELSE Append(t, s[n]))
<1>1. {s[i] : i \in 1..n} = {s[i] : i \in 1..(n - 1)} \cup {s[n]}
  OBVIOUS
<1>2. CASE s[n] \in X
  BY <1>1, <1>2 DEF KeepsOf
<1>3. CASE s[n] \notin X
  <2> DEFINE u == Append(t, s[n])
  <2>1. /\ s[n] \in S /\ u \in Seq(S) /\ Len(u) = Len(t) + 1 /\ u[Len(t) + 1] = s[n]
        /\ \A i \in 1..Len(t) : u[i] = t[i]
        /\ Len(t) \in Nat
    BY DEF KeepsOf
  <2> HIDE DEF u
  <2>2. In(u) = In(t) \cup {s[n]}
    BY <2>1 DEF In
  <2>3. In(u) = {s[i] : i \in 1..n} \ X
    BY <1>1, <1>3, <2>2 DEF KeepsOf
  <2>4. ASSUME Distinct(s) PROVE Distinct(u)
    <3>1. s[n] \notin {s[i] : i \in 1..(n - 1)}
      BY <2>4 DEF Distinct
    <3>2. s[n] \notin In(t) /\ Distinct(t)
      BY <2>4, <3>1 DEF KeepsOf
    <3> QED BY <2>1, <3>2 DEF Distinct, In
  <2>5. KeepsOf(S, s, X, n, u)
    BY <2>1, <2>3, <2>4 DEF KeepsOf
  <2> QED BY <1>3, <2>5 DEF u
<1> QED BY <1>2, <1>3

(* Without keeps the elements that are not in X, each once if they were    *)
(* distinct.                                                               *)
LEMMA WithoutKeeps ==
  ASSUME NEW S, NEW s \in Seq(S), NEW X
  PROVE  KeepsOf(S, s, X, Len(s), Without(s, X))
<1> DEFINE kept == CHOOSE f : f = [i \in 0..Len(s) |->
                                     IF i = 0 THEN << >>
                                     ELSE IF s[i] \in X THEN f[i - 1] ELSE Append(f[i - 1], s[i])]
           n == Len(s)
<1>0. n \in Nat
  OBVIOUS
<1>1. PICK f : IsKept(s, X, n, f)
  BY <1>0, KeptExists
<1>2. Without(s, X) = kept[n]
  BY DEF Without
<1>3. IsKept(s, X, n, kept)
  BY <1>1 DEF IsKept
<1> HIDE DEF kept
<1> DEFINE T == {m \in 0..n : ~KeepsOf(S, s, X, m, kept[m])}
<1>5. T = {}
  <2> SUFFICES ASSUME T # {} PROVE FALSE
    OBVIOUS
  <2>1. PICK m \in T : \A k \in T : m <= k
    <3>1. T \subseteq Nat OBVIOUS
    <3> HIDE DEF T
    <3> QED BY <3>1, LeastExists
  <2>2. m # 0
    <3>1. kept[0] = << >>
      BY <1>3 DEF IsKept
    <3>2. KeepsOf(S, s, X, 0, << >>)
      BY DEF KeepsOf, In, Distinct
    <3> QED BY <2>1, <3>1, <3>2
  <2>3. m \in 1..n /\ m - 1 \in 0..n /\ ~(m <= m - 1)
    BY <2>1, <2>2
  <2>4. KeepsOf(S, s, X, m - 1, kept[m - 1])
    BY <2>1, <2>3
  <2>5. kept[m] = IF s[m] \in X THEN kept[m - 1] ELSE Append(kept[m - 1], s[m])
    BY <1>3, <2>2, <2>3 DEF IsKept
  <2>6. KeepsOf(S, s, X, m, kept[m])
    BY <2>3, <2>4, <2>5, KeepsOneMore
  <2> QED BY <2>1, <2>6
<1> QED BY <1>0, <1>2, <1>5

(***************************************************************************)
(* What always holds of a pool, between any two statements of the code.    *)
(***************************************************************************)

\* Its fields have their types, and no worker is twice in the array.
Sound(p) ==
  /\ p \in PoolType
  /\ Distinct(p.workers)
  /\ p.minSize <= MaxAlive /\ p.maxSize <= MaxAlive

\* A promise that has not settled is the one its correlation id leads to.
Booked(p) ==
  /\ \A c \in Calls : p.outcome[c] = "open" <=> p.pending[p.options.keyOf[c]] = c
  /\ \A k \in Keys : p.pending[k] # NoCall =>
       p.options.keyOf[p.pending[k]] = k /\ p.pending[k] \in p.options.requests

\* A call nobody has taken in hand.
Loose(p, c) == c \notin In(p.queue) /\ \A w \in Live(p) : c \notin p.running[w]

\* A call is in one place: not yet posted, queued once, or with workers.
Placed(p) ==
  /\ Distinct(p.queue)
  /\ \A c \in In(p.queue), w \in Live(p) : c \notin p.running[w]
  /\ \A c \in Calls : p.outcome[c] = "new" => Loose(p, c)

InFlight(p) == {wc \in Live(p) \X Calls : wc[2] \in p.running[wc[1]]}

\* The task counters.
Crewed(p) ==
  "chatter" \notin p.uses =>
    /\ \A w \in Live(p) : p.tasks[w] = Cardinality(p.running[w])
    /\ p.active = Cardinality(InFlight(p))

\* The bounds on the queue and on the tasks of a worker.
Within(p) ==
  /\ Len(p.queue) <= p.options.maxQueue
  /\ "broadcast" \notin p.uses /\ p.options.taskQueue =>
       \A w \in Live(p) : p.tasks[w] <= p.options.maxTasks

\* Nobody waits for an idle event that has been emitted.
Restful(p) == p.idle => Waiting(p) = {}

Inv(p) == Sound(p) /\ Booked(p) /\ Placed(p) /\ Crewed(p) /\ Within(p) /\ Restful(p)

(***************************************************************************)
(* What may become of a pool and its calls, step by step.                  *)
(***************************************************************************)

\* An abort of the call is listened to.
Hears(p, c) == p.options.taskQueue /\ c \in p.options.signalled \ p.options.zeroCopy

\* Nothing keeps a request that was accepted from a worker.
Sure(p) == OwnKeys(p.options) /\ p.options.mayThrow \cap p.options.requests = {}

\* The call is queued, or a worker has it and answers for it.
Carried(p, c) ==
  \/ c \in In(p.queue)
  \/ \E w \in Live(p) : c \in p.running[w] /\ p.carrier[p.options.keyOf[c]] = w

\* Somebody will settle the promise of the call.
Cared(p, c) ==
  p.outcome[c] = "open" =>
    /\ Hears(p, c) => c \in p.listens
    /\ Sure(p) => Carried(p, c)

Settled == {"resolved", "rejected", "refused", "misanswered"}

\* The step from p to q moves no call but those of C, opens none but those of O, and
\* leaves all but those of O cared for; what is settled stays settled.
Follows(p, q, C, O) ==
  /\ q.options = p.options /\ q.uses = p.uses
  /\ q.terminated = p.terminated /\ q.aborted = p.aborted /\ q.elapsed = p.elapsed
  /\ \A c \in Calls : p.outcome[c] \in Settled => q.outcome[c] = p.outcome[c]
  /\ \A c \in Calls \ C :
       /\ p.outcome[c] \in {"new", "sent"} => q.outcome[c] = p.outcome[c]
       /\ Loose(p, c) => Loose(q, c)
  /\ \A c \in Calls : q.outcome[c] = "open" => p.outcome[c] = "open" \/ c \in O
  /\ \A c \in Calls \ O : Cared(p, c) => Cared(q, c)

(* One step after the other.                                               *)
LEMMA FollowsOn ==
  ASSUME NEW p, NEW q, NEW r, NEW C, NEW D, NEW O, NEW P,
         Follows(p, q, C, O), Follows(q, r, D, P)
  PROVE  Follows(p, r, C \cup D, O \cup P)
<1>1. \A c \in Calls \ (C \cup D) :
        /\ p.outcome[c] \in {"new", "sent"} => r.outcome[c] = p.outcome[c]
        /\ Loose(p, c) => Loose(r, c)
  BY DEF Follows
<1>2. \A c \in Calls : r.outcome[c] = "open" => p.outcome[c] = "open" \/ c \in O \cup P
  BY DEF Follows
<1>3. \A c \in Calls \ (O \cup P) : Cared(p, c) => Cared(r, c)
  BY DEF Follows
<1>4. \A c \in Calls : p.outcome[c] \in Settled => r.outcome[c] = p.outcome[c]
  BY DEF Follows
<1> QED BY <1>1, <1>2, <1>3, <1>4 DEF Follows

(* It is no less true of larger sets of calls.                             *)
LEMMA FollowsLess ==
  ASSUME NEW p, NEW q, NEW C, NEW D, NEW O, NEW P,
         Follows(p, q, C, O), C \subseteq D, O \subseteq P
  PROVE  Follows(p, q, D, P)
BY DEF Follows

(* Two steps, each within the same sets.                                   *)
LEMMA FollowsBoth ==
  ASSUME NEW p, NEW q, NEW r, NEW C, NEW O, Follows(p, q, C, O), Follows(q, r, C, O)
  PROVE  Follows(p, r, C, O)
<1>1. C \cup C = C /\ O \cup O = O
  OBVIOUS
<1> QED BY <1>1, FollowsOn

(* The types of the fields the bounds speak of.                            *)
LEMMA Bounded ==
  ASSUME NEW p, Inv(p)
  PROVE  /\ p \in PoolType /\ p.queue \in Seq(Calls) /\ p.tasks \in [Ids -> Nat]
         /\ Len(p.queue) \in Nat /\ p.options.maxQueue \in Nat /\ p.options.maxTasks \in Nat \ {0}
         /\ Len(p.queue) <= p.options.maxQueue
<1>1. p \in PoolType /\ Within(p) BY DEF Inv, Sound
<1>2. p.queue \in Seq(Calls) /\ p.tasks \in [Ids -> Nat] /\ p.options \in OptionsType
  BY <1>1 DEF PoolType
<1>3. p.options.maxQueue \in Nat /\ p.options.maxTasks \in Nat \ {0} BY <1>2 DEF OptionsType
<1>4. Len(p.queue) \in Nat BY <1>2
<1> QED BY <1>1, <1>2, <1>3, <1>4 DEF Within

(***************************************************************************)
(* What steps leave alone.                                                 *)
(***************************************************************************)
SameGiven(p, q) ==
  /\ q.options = p.options /\ q.uses = p.uses
  /\ q.terminated = p.terminated /\ q.aborted = p.aborted /\ q.elapsed = p.elapsed

SameCrew(p, q) ==
  q.workers = p.workers /\ q.tasks = p.tasks /\ q.running = p.running /\ q.active = p.active

SameBooks(p, q) == q.outcome = p.outcome /\ q.pending = p.pending /\ q.carrier = p.carrier

SameQueue(p, q) == q.queue = p.queue

SameRest(p, q) == q.idle = p.idle /\ q.drains = p.drains

\* Everything the invariant and Follows speak of, but the idle state.
SameWork(p, q) ==
  /\ SameGiven(p, q) /\ SameCrew(p, q) /\ SameBooks(p, q) /\ SameQueue(p, q)
  /\ q.listens = p.listens

(* A step that touches no call and no worker.                              *)
LEMMA WorkUntouched ==
  ASSUME NEW p, NEW q, Inv(p), SameWork(p, q), q \in PoolType,
         q.minSize <= MaxAlive, q.maxSize <= MaxAlive, Restful(q)
  PROVE  Inv(q) /\ Follows(p, q, {}, {})
<1> USE DEF SameWork, SameGiven, SameCrew, SameBooks, SameQueue
<1>1. Sound(q) BY DEF Inv, Sound
<1>2. Booked(q) BY DEF Inv, Booked
<1>3. Live(q) = Live(p) BY DEF Live
<1>4. \A c : Loose(p, c) <=> Loose(q, c) BY <1>3 DEF Loose
<1>5. Placed(q) BY <1>3, <1>4 DEF Inv, Placed
<1>6. InFlight(q) = InFlight(p) BY <1>3 DEF InFlight
<1>7. Crewed(q) BY <1>3, <1>6 DEF Inv, Crewed
<1>8. Within(q) BY <1>3 DEF Inv, Within
<1>9. \A c : Hears(q, c) <=> Hears(p, c) BY DEF Hears
<1>10. Sure(q) <=> Sure(p) BY DEF Sure
<1>11. \A c : Carried(q, c) <=> Carried(p, c) BY <1>3 DEF Carried
<1>12. \A c : Cared(p, c) => Cared(q, c) BY <1>9, <1>10, <1>11 DEF Cared
<1>13. Follows(p, q, {}, {}) BY <1>4, <1>12 DEF Follows
<1> QED BY <1>1, <1>2, <1>5, <1>7, <1>8, <1>13 DEF Inv

(***************************************************************************)
(* Idle state.                                                             *)
(***************************************************************************)

\* The idle event has been emitted where it is due, and taken back where it is not.
Announced(p) == (p.idle => Quiet(p)) /\ (Prompt(p) /\ Quiet(p) => Waiting(p) = {})

(* _updateIdleState() touches no call, and leaves the idle state announced. *)
LEMMA IdleUpdated ==
  ASSUME NEW p, Inv(p)
  PROVE  LET q == UpdateIdleState(p)
         IN  Inv(q) /\ Follows(p, q, {}, {}) /\ Announced(q) /\ SameWork(p, q)
<1> DEFINE q == UpdateIdleState(p)
<1>1. p \in PoolType BY SMTT(60) DEF Inv, Sound
<1>2. q \in PoolType BY <1>1 DEF UpdateIdleState, PoolType
<1>3. SameWork(p, q)
  BY <1>1 DEF SameWork, SameGiven, SameCrew, SameBooks, SameQueue, UpdateIdleState, PoolType
<1>4. q.minSize = p.minSize /\ q.maxSize = p.maxSize
  BY <1>1 DEF UpdateIdleState, PoolType
<1>5. Quiet(q) <=> Quiet(p)
  BY <1>3 DEF SameWork, SameCrew, SameQueue, Quiet
<1>6. CASE Quiet(p) /\ ~p.idle
  <2>1. q.idle = TRUE /\ q.drains = [d \in Drains |-> IF p.drains[d] = "waiting" THEN "resolved"
                                                      ELSE p.drains[d]]
    BY <1>1, <1>6 DEF UpdateIdleState, PoolType
  <2>2. Waiting(q) = {} BY <2>1 DEF Waiting
  <2> QED BY <1>5, <1>6, <2>1, <2>2, <1>2, <1>3, <1>4, WorkUntouched DEF Restful, Announced, Inv, Sound
<1>7. CASE ~(Quiet(p) /\ ~p.idle)
  <2>1. q.idle = (p.idle /\ Quiet(p)) /\ q.drains = p.drains
    BY <1>1, <1>7 DEF UpdateIdleState, PoolType
  <2>2. Waiting(q) = Waiting(p) BY <2>1 DEF Waiting
  <2>3. Restful(q) BY <2>1, <2>2 DEF Restful, Inv
  <2>4. Announced(q) BY <1>5, <1>7, <2>1, <2>2 DEF Restful, Inv, Announced
  <2> QED BY <2>3, <2>4, <1>2, <1>3, <1>4, WorkUntouched DEF Inv, Sound
<1> QED BY <1>6, <1>7

(***************************************************************************)
(* Pending responses.                                                      *)
(***************************************************************************)

\* The calls whose pending responses are registered under the keys of K.
Answered(p, K) == {c \in Calls : \E k \in K : p.pending[k] = c}

\* How Settle changes the books.
Settles(p, q, K, how) ==
  /\ q \in PoolType
  /\ SameGiven(p, q) /\ SameCrew(p, q) /\ SameQueue(p, q) /\ SameRest(p, q)
  /\ q.minSize = p.minSize /\ q.maxSize = p.maxSize
  /\ q.ready = p.ready /\ q.overdue = p.overdue /\ q.worked = p.worked
  /\ q.listens = p.listens /\ q.carrier = p.carrier
  /\ q.elapsed = p.elapsed /\ q.limit = p.limit /\ q.boots = p.boots
  /\ q.paused = p.paused /\ q.closing = p.closing
  /\ \A c \in Calls : q.outcome[c] = IF c \in Answered(p, K) THEN how ELSE p.outcome[c]
  /\ \A k \in Keys : q.pending[k] = IF k \in K THEN NoCall ELSE p.pending[k]

(* Settling promises changes the books and nothing else.                   *)
LEMMA SettleSettles ==
  ASSUME NEW p \in PoolType, NEW K, NEW how \in Settled
  PROVE  Settles(p, Settle(p, K, how), K, how)
<1> DEFINE out == [c \in Calls |-> IF \E k \in K : p.pending[k] = c THEN how ELSE p.outcome[c]]
           pend == [k \in Keys |-> IF k \in K THEN NoCall ELSE p.pending[k]]
           q == [p EXCEPT !.outcome = out, !.pending = pend]
<1>1. Settle(p, K, how) = q BY DEF Settle
<1>2. out \in [Calls -> Outcome]
  BY DEF PoolType, Settled, Outcome
<1>3. pend \in [Keys -> Calls \cup {NoCall}]
  BY DEF PoolType
<1>4. /\ \A c \in Calls : out[c] = IF c \in Answered(p, K) THEN how ELSE p.outcome[c]
      /\ \A k \in Keys : pend[k] = IF k \in K THEN NoCall ELSE p.pending[k]
  BY DEF Answered
<1> HIDE DEF out, pend
<1>5. q \in PoolType BY <1>2, <1>3 DEF PoolType
<1>6. q.outcome = out /\ q.pending = pend BY DEF PoolType
<1>7. SameGiven(p, q) /\ SameCrew(p, q) /\ SameQueue(p, q) /\ SameRest(p, q)
  BY DEF SameGiven, SameCrew, SameQueue, SameRest, PoolType
<1>8. /\ q.minSize = p.minSize /\ q.maxSize = p.maxSize
      /\ q.ready = p.ready /\ q.overdue = p.overdue /\ q.worked = p.worked
      /\ q.listens = p.listens /\ q.carrier = p.carrier
      /\ q.elapsed = p.elapsed /\ q.limit = p.limit /\ q.boots = p.boots
      /\ q.paused = p.paused /\ q.closing = p.closing
  BY DEF PoolType
<1> HIDE DEF q
<1> QED BY <1>1, <1>4, <1>5, <1>6, <1>7, <1>8 DEF Settles

(* _cleanupPendingResponse() settles open promises and moves nothing.      *)
LEMMA SettledKeeps ==
  ASSUME NEW p, NEW q, Inv(p), NEW K \in SUBSET Keys, NEW how \in Settled, Settles(p, q, K, how)
  PROVE  /\ Inv(q) /\ Follows(p, q, {}, {})
         /\ \A c \in Calls : p.options.keyOf[c] \in K => q.outcome[c] # "open"
<1> USE DEF Settles
<1>0. how # "open" /\ how # "new" /\ how # "sent" BY DEF Settled
<1>1. p \in PoolType /\ p.options.keyOf \in [Calls -> Keys]
  BY DEF Inv, Sound, PoolType, OptionsType
<1>2. \A c \in Calls, k \in Keys : p.pending[k] = c => p.outcome[c] = "open" /\ p.options.keyOf[c] = k
  BY <1>1, PoolConstants DEF Inv, Booked
<1>3. \A c \in Answered(p, K) : p.outcome[c] = "open" /\ p.options.keyOf[c] \in K
  BY <1>2 DEF Answered
<1>4. \A c \in Calls : p.outcome[c] = "open" /\ p.options.keyOf[c] \in K => c \in Answered(p, K)
  BY DEF Inv, Booked, Answered
<1>5. q.options = p.options /\ Live(q) = Live(p) /\ q.queue = p.queue /\ q.running = p.running
  BY DEF SameGiven, SameCrew, SameQueue, Live
<1>6. \A c \in Calls : q.outcome[c] = "open" <=> p.outcome[c] = "open" /\ p.options.keyOf[c] \notin K
  BY <1>0, <1>3, <1>4
<1>7. \A c \in Calls : q.outcome[c] \in {"new", "sent"} <=> p.outcome[c] \in {"new", "sent"}
  BY <1>0, <1>3
<1>8. \A c \in Calls : p.outcome[c] # "open" => q.outcome[c] = p.outcome[c]
  BY <1>3
<1>9. Sound(q) BY DEF Inv, Sound, SameCrew
<1>10. Booked(q)
  <2>1. ASSUME NEW c \in Calls
        PROVE  q.outcome[c] = "open" <=> q.pending[q.options.keyOf[c]] = c
    <3>1. p.options.keyOf[c] \in Keys BY <1>1
    <3> QED BY <1>5, <1>6, <3>1, PoolConstants DEF Inv, Booked
  <2>2. ASSUME NEW k \in Keys, q.pending[k] # NoCall
        PROVE  q.options.keyOf[q.pending[k]] = k /\ q.pending[k] \in q.options.requests
    BY <1>5, <2>2 DEF Inv, Booked
  <2> QED BY <2>1, <2>2 DEF Booked
<1>11. \A c : Loose(p, c) <=> Loose(q, c) BY <1>5 DEF Loose
<1>12. Placed(q) BY <1>0, <1>3, <1>5, <1>11 DEF Inv, Placed
<1>13. Crewed(q)
  <2>1. InFlight(q) = InFlight(p) BY <1>5 DEF InFlight
  <2> QED BY <1>5, <2>1 DEF Inv, Crewed, SameCrew, SameGiven
<1>14. Within(q) BY <1>5 DEF Inv, Within, SameCrew, SameGiven
<1>15. Restful(q) BY DEF Inv, Restful, Waiting, SameRest
<1>16. \A c \in Calls : Cared(p, c) => Cared(q, c)
  BY <1>5, <1>6 DEF Cared, Hears, Sure, Carried
<1>17. Follows(p, q, {}, {})
  BY <1>6, <1>7, <1>8, <1>11, <1>16 DEF Follows, SameGiven, Settled
<1> QED BY <1>6, <1>9, <1>10, <1>12, <1>13, <1>14, <1>15, <1>17 DEF Inv

\* How setting the outcome of the calls of C changes the books.
Marks(p, q, C, how) ==
  /\ q \in PoolType
  /\ SameGiven(p, q) /\ SameCrew(p, q) /\ SameQueue(p, q) /\ SameRest(p, q)
  /\ q.minSize = p.minSize /\ q.maxSize = p.maxSize
  /\ q.listens = p.listens /\ q.carrier = p.carrier /\ q.pending = p.pending
  /\ \A c \in Calls : q.outcome[c] = IF c \in C THEN how ELSE p.outcome[c]

(* Setting the outcome of one call changes nothing else.                   *)
LEMMA SettingMarks ==
  ASSUME NEW p \in PoolType, NEW c, NEW how \in Outcome
  PROVE  Marks(p, [p EXCEPT !.outcome[c] = how], {c}, how)
<1> DEFINE out == [p.outcome EXCEPT ![c] = how]
           q == [p EXCEPT !.outcome = out]
<1>1. [p EXCEPT !.outcome[c] = how] = q BY DEF PoolType
<1>2. out \in [Calls -> Outcome] /\ \A d \in Calls : out[d] = IF d \in {c} THEN how ELSE p.outcome[d]
  BY DEF PoolType
<1> HIDE DEF out
<1> QED BY <1>1, <1>2 DEF Marks, SameGiven, SameCrew, SameQueue, SameRest, PoolType

(* Marking calls that have no promise.                                     *)
LEMMA MarkedKeeps ==
  ASSUME NEW p, NEW q, Inv(p), NEW C, NEW how \in {"sent", "refused"}, Marks(p, q, C, how),
         \A c \in C \cap Calls : p.outcome[c] \in {"new", "sent"}
  PROVE  Inv(q) /\ Follows(p, q, C, {})
<1> USE DEF Marks
<1>1. q.options = p.options /\ Live(q) = Live(p) /\ q.queue = p.queue /\ q.running = p.running
  BY DEF SameGiven, SameCrew, SameQueue, Live
<1>2. \A c \in Calls : q.outcome[c] = "open" <=> p.outcome[c] = "open"
  OBVIOUS
<1>3. \A c \in Calls : p.outcome[c] \in Settled => q.outcome[c] = p.outcome[c]
  BY DEF Settled
<1>4. Sound(q) BY DEF Inv, Sound, SameCrew
<1>5. Booked(q) BY <1>1, <1>2 DEF Inv, Booked
<1>6. \A c : Loose(p, c) <=> Loose(q, c) BY <1>1 DEF Loose
<1>7. Placed(q) BY <1>1, <1>6 DEF Inv, Placed
<1>8. Crewed(q)
  <2>1. InFlight(q) = InFlight(p) BY <1>1 DEF InFlight
  <2> QED BY <1>1, <2>1 DEF Inv, Crewed, SameCrew, SameGiven
<1>9. Within(q) BY <1>1 DEF Inv, Within, SameCrew, SameGiven
<1>10. Restful(q) BY DEF Inv, Restful, Waiting, SameRest
<1>11. \A c \in Calls : Cared(p, c) => Cared(q, c)
  BY <1>1, <1>2 DEF Cared, Hears, Sure, Carried
<1>12. Follows(p, q, C, {})
  BY <1>2, <1>3, <1>6, <1>11 DEF Follows, SameGiven
<1> QED BY <1>4, <1>5, <1>7, <1>8, <1>9, <1>10, <1>12 DEF Inv

\* How a new promise changes the books.
Opens(p, q, c) ==
  /\ q \in PoolType
  /\ SameGiven(p, q) /\ SameCrew(p, q) /\ SameQueue(p, q) /\ SameRest(p, q)
  /\ q.minSize = p.minSize /\ q.maxSize = p.maxSize
  /\ q.limit = p.limit /\ q.ready = p.ready /\ q.overdue = p.overdue
  /\ q.listens = p.listens
  /\ \A d \in Calls : q.outcome[d] = IF d = c THEN "open" ELSE p.outcome[d]
  /\ \A k \in Keys : /\ q.pending[k] = IF k = p.options.keyOf[c] THEN c ELSE p.pending[k]
                     /\ k # p.options.keyOf[c] => q.carrier[k] = p.carrier[k]

(* A new promise is registered under its key and changes nothing else.     *)
LEMMA OpeningOpens ==
  ASSUME NEW p \in PoolType, NEW c \in Calls
  PROVE  LET k == p.options.keyOf[c]
         IN  Opens(p, [p EXCEPT !.pending[k] = c, !.carrier[k] = NoWorker, !.outcome[c] = "open"], c)
<1> DEFINE k == p.options.keyOf[c]
           out == [p.outcome EXCEPT ![c] = "open"]
           pend == [p.pending EXCEPT ![k] = c]
           carr == [p.carrier EXCEPT ![k] = NoWorker]
           q == [p EXCEPT !.pending = pend, !.carrier = carr, !.outcome = out]
<1>1. [p EXCEPT !.pending[k] = c, !.carrier[k] = NoWorker, !.outcome[c] = "open"] = q
  BY DEF PoolType
<1>2. out \in [Calls -> Outcome] /\ \A d \in Calls : out[d] = IF d = c THEN "open" ELSE p.outcome[d]
  BY DEF PoolType, Outcome
<1>3. /\ pend \in [Keys -> Calls \cup {NoCall}] /\ carr \in [Keys -> Ids \cup {NoWorker}]
      /\ \A j \in Keys : /\ pend[j] = IF j = k THEN c ELSE p.pending[j]
                         /\ j # k => carr[j] = p.carrier[j]
  BY DEF PoolType
<1> HIDE DEF out, pend, carr
<1>4. q \in PoolType BY <1>2, <1>3 DEF PoolType
<1>5. /\ q.outcome = out /\ q.pending = pend /\ q.carrier = carr
      /\ SameGiven(p, q) /\ SameCrew(p, q) /\ SameQueue(p, q) /\ SameRest(p, q)
      /\ q.minSize = p.minSize /\ q.maxSize = p.maxSize
      /\ q.limit = p.limit /\ q.ready = p.ready /\ q.overdue = p.overdue
      /\ q.listens = p.listens
  BY DEF SameGiven, SameCrew, SameQueue, SameRest, PoolType
<1> HIDE DEF q
<1>6. Opens(p, q, c) BY <1>2, <1>3, <1>4, <1>5 DEF Opens
<1> QED BY <1>1, <1>6

(* A promise for a call under an id that leads nowhere.                    *)
LEMMA OpenedKeeps ==
  ASSUME NEW p, NEW q, Inv(p), NEW c \in p.options.requests, Opens(p, q, c),
         p.outcome[c] = "new", p.pending[p.options.keyOf[c]] = NoCall
  PROVE  Inv(q) /\ Follows(p, q, {c}, {c}) /\ q.outcome[c] = "open" /\ Loose(q, c)
<1> USE DEF Opens
<1>0. c \in Calls /\ p.options.keyOf \in [Calls -> Keys]
  BY DEF Inv, Sound, PoolType, OptionsType
<1>1. q.options = p.options /\ Live(q) = Live(p) /\ q.queue = p.queue /\ q.running = p.running
  BY DEF SameGiven, SameCrew, SameQueue, Live
<1>2. \A d \in Calls \ {c} : q.outcome[d] = p.outcome[d]
  OBVIOUS
<1>3. \A d \in Calls : p.outcome[d] \in Settled => q.outcome[d] = p.outcome[d]
  BY DEF Settled
<1>4. Sound(q) BY DEF Inv, Sound, SameCrew
<1>5. Booked(q)
  <2>1. ASSUME NEW d \in Calls
        PROVE  q.outcome[d] = "open" <=> q.pending[q.options.keyOf[d]] = d
    <3>1. p.options.keyOf[d] \in Keys BY <1>0
    <3> QED BY <1>0, <1>1, <3>1, PoolConstants DEF Inv, Booked
  <2>2. ASSUME NEW k \in Keys, q.pending[k] # NoCall
        PROVE  q.options.keyOf[q.pending[k]] = k /\ q.pending[k] \in q.options.requests
    BY <1>1, <2>2 DEF Inv, Booked
  <2> QED BY <2>1, <2>2 DEF Booked
<1>6. \A d : Loose(p, d) <=> Loose(q, d) BY <1>1 DEF Loose
<1>7. Placed(q) BY <1>1, <1>6 DEF Inv, Placed
<1>8. Crewed(q)
  <2>1. InFlight(q) = InFlight(p) BY <1>1 DEF InFlight
  <2> QED BY <1>1, <2>1 DEF Inv, Crewed, SameCrew, SameGiven
<1>9. Within(q) BY <1>1 DEF Inv, Within, SameCrew, SameGiven
<1>10. Restful(q) BY DEF Inv, Restful, Waiting, SameRest
<1>11. \A d \in Calls \ {c} : Cared(p, d) => Cared(q, d)
  <2> SUFFICES ASSUME NEW d \in Calls \ {c}, Cared(p, d), q.outcome[d] = "open"
               PROVE  (Hears(q, d) => d \in q.listens) /\ (Sure(q) => Carried(q, d))
    BY DEF Cared
  <2>1. p.outcome[d] = "open" BY <1>2
  <2>2. p.options.keyOf[d] \in Keys /\ p.options.keyOf[d] # p.options.keyOf[c]
    BY <1>0, <2>1, PoolConstants DEF Inv, Booked
  <2>3. q.carrier[p.options.keyOf[d]] = p.carrier[p.options.keyOf[d]]
    BY <2>2
  <2> QED BY <1>1, <2>1, <2>3 DEF Cared, Hears, Sure, Carried
<1>12. Follows(p, q, {c}, {c})
  BY <1>2, <1>3, <1>6, <1>11 DEF Follows, SameGiven
<1>13. Loose(q, c) BY <1>0, <1>6 DEF Inv, Placed
<1> QED BY <1>0, <1>4, <1>5, <1>7, <1>8, <1>9, <1>10, <1>12, <1>13 DEF Inv

(* The entry a key already has is settled, then the call gets its own.     *)
LEMMA RegisteredKeeps ==
  ASSUME NEW p, Inv(p), NEW c \in Calls, p.outcome[c] = "new"
  PROVE  LET q == Registered(p, c)
         IN  /\ Inv(q) /\ Follows(p, q, {c}, {c}) /\ Loose(q, c)
             /\ SameCrew(p, q) /\ SameQueue(p, q) /\ SameRest(p, q)
             /\ q.maxSize = p.maxSize /\ q.limit = p.limit
             /\ q.ready = p.ready /\ q.overdue = p.overdue
             /\ q.outcome[c] = IF c \in p.options.requests THEN "open" ELSE "new"
<1> DEFINE q == Registered(p, c)
           k == p.options.keyOf[c]
           s == Settle(p, {k}, "rejected")
<1>0. p \in PoolType /\ k \in Keys
  BY DEF Inv, Sound, PoolType, OptionsType
<1>1. CASE c \notin p.options.requests
  <2>1. q = p BY <1>1 DEF Registered
  <2>2. \A d \in Calls : p.outcome[d] \in Settled => p.outcome[d] # "new"
    BY DEF Settled
  <2>3. Follows(p, p, {c}, {c}) BY DEF Follows
  <2>4. Loose(p, c) BY DEF Inv, Placed
  <2> QED BY <1>1, <2>1, <2>3, <2>4 DEF SameCrew, SameQueue, SameRest
<1>2. CASE c \in p.options.requests
  <2>1. q = [s EXCEPT !.pending[k] = c, !.carrier[k] = NoWorker, !.outcome[c] = "open"]
    BY <1>2 DEF Registered, CreatePending
  <2>2. Settles(p, s, {k}, "rejected")
    BY <1>0, SettleSettles DEF Settled
  <2> HIDE DEF s, q
  <2>3. Inv(s) /\ Follows(p, s, {}, {})
    BY <1>0, <2>2, SettledKeeps DEF Settled
  <2>4. s \in PoolType /\ s.options = p.options
    BY <2>2 DEF Settles, SameGiven
  <2>5. Opens(s, q, c)
    BY <2>1, <2>4, OpeningOpens
  <2>6. s.outcome[c] = "new"
    BY <2>3 DEF Follows
  <2>7. s.pending[s.options.keyOf[c]] = NoCall
    BY <1>0, <2>2, <2>4 DEF Settles
  <2>8. Inv(q) /\ Follows(s, q, {c}, {c}) /\ q.outcome[c] = "open" /\ Loose(q, c)
    BY <1>2, <2>3, <2>4, <2>5, <2>6, <2>7, OpenedKeeps
  <2>9. Follows(p, q, {c}, {c})
    BY <2>3, <2>8, FollowsLess, FollowsBoth
  <2>10. /\ SameCrew(p, q) /\ SameQueue(p, q) /\ SameRest(p, q)
         /\ q.maxSize = p.maxSize /\ q.limit = p.limit
         /\ q.ready = p.ready /\ q.overdue = p.overdue
    BY <2>2, <2>5 DEF Settles, Opens, SameCrew, SameQueue, SameRest
  <2> QED BY <1>2, <2>8, <2>9, <2>10 DEF q
<1> QED BY <1>1, <1>2

(* A call that is turned down has no promise that waits.                   *)
LEMMA RefusedKeeps ==
  ASSUME NEW p, Inv(p), NEW c \in Calls,
         c \in p.options.requests \/ p.outcome[c] \in {"new", "sent"}
  PROVE  LET q == Refuse(p, c)
         IN  /\ Inv(q) /\ Follows(p, q, {c}, {}) /\ q.outcome[c] # "open"
             /\ SameCrew(p, q) /\ SameQueue(p, q) /\ SameRest(p, q)
<1> DEFINE q == Refuse(p, c)
           k == p.options.keyOf[c]
<1>0. p \in PoolType /\ k \in Keys
  BY DEF Inv, Sound, PoolType, OptionsType
<1>1. CASE c \notin p.options.requests
  <2>1. q = [p EXCEPT !.outcome[c] = "refused"] BY <1>1 DEF Refuse
  <2>2. Marks(p, q, {c}, "refused") BY <1>0, <2>1, SettingMarks DEF Outcome
  <2> HIDE DEF q
  <2>3. Inv(q) /\ Follows(p, q, {c}, {}) BY <1>1, <2>2, MarkedKeeps
  <2> QED BY <2>2, <2>3 DEF Marks, q
<1>2. CASE c \in p.options.requests
  <2>1. q = Settle(p, {k}, "rejected") BY <1>2 DEF Refuse
  <2>2. Settles(p, q, {k}, "rejected")
    BY <1>0, <2>1, SettleSettles DEF Settled
  <2> HIDE DEF q
  <2>3. Inv(q) /\ Follows(p, q, {}, {}) /\ q.outcome[c] # "open"
    BY <1>0, <2>2, SettledKeeps DEF Settled
  <2>4. Follows(p, q, {c}, {}) BY <2>3, FollowsLess
  <2> QED BY <2>2, <2>3, <2>4 DEF Settles, q
<1> QED BY <1>1, <1>2

(***************************************************************************)
(* Workers.                                                                *)
(***************************************************************************)

(* A set of ids that is not empty has a least one.                         *)
LEMMA LeastId ==
  ASSUME NEW S \in SUBSET Ids, S # {}
  PROVE  Min(S) \in S
<1>1. S \subseteq Nat BY PoolConstants DEF Ids
<1>2. \E n \in S : \A m \in S : n <= m BY <1>1, LeastExists
<1> QED BY <1>2 DEF Min

(* Live workers and the tasks they have are finitely many.                 *)
LEMMA CrewIsFinite ==
  ASSUME NEW p \in PoolType
  PROVE  /\ IsFiniteSet(Live(p)) /\ Live(p) \subseteq Ids
         /\ IsFiniteSet(InFlight(p)) /\ Cardinality(InFlight(p)) \in Nat
         /\ \A w \in Ids : IsFiniteSet(p.running[w]) /\ Cardinality(p.running[w]) \in Nat
<1>1. Live(p) \subseteq Ids BY DEF Live, PoolType
<1>2. IsFiniteSet(Ids) BY FS_Interval, PoolConstants DEF Ids
<1>3. IsFiniteSet(Live(p)) BY <1>1, <1>2, FS_Subset
<1>4. IsFiniteSet(Live(p) \X Calls) BY <1>3, FS_Product, PoolConstants
<1>5. InFlight(p) \subseteq Live(p) \X Calls BY DEF InFlight
<1>6. IsFiniteSet(InFlight(p)) /\ Cardinality(InFlight(p)) \in Nat
  BY <1>4, <1>5, FS_Subset, FS_CardinalityType
<1>7. ASSUME NEW w \in Ids
      PROVE  IsFiniteSet(p.running[w]) /\ Cardinality(p.running[w]) \in Nat
  <2>1. p.running[w] \subseteq Calls BY DEF PoolType
  <2> QED BY <2>1, PoolConstants, FS_Subset, FS_CardinalityType
<1> QED BY <1>1, <1>3, <1>6, <1>7

\* How a new worker w changes the pool.
Joins(p, q, w) ==
  /\ q \in PoolType
  /\ SameGiven(p, q) /\ SameBooks(p, q) /\ SameQueue(p, q) /\ SameRest(p, q)
  /\ q.minSize = p.minSize /\ q.maxSize = p.maxSize /\ q.limit = p.limit
  /\ q.listens = p.listens /\ q.active = p.active
  /\ q.workers = Append(p.workers, w)
  /\ \A v \in Ids : /\ q.tasks[v] = IF v = w THEN 0 ELSE p.tasks[v]
                    /\ q.running[v] = IF v = w THEN {} ELSE p.running[v]

(* _addWorkerInstance() adds a worker with an id to spare.                 *)
LEMMA NewWorkerJoins ==
  ASSUME NEW p \in PoolType, Ids \ Live(p) # {}
  PROVE  LET w == Min(Ids \ Live(p))
         IN  w \in Ids \ Live(p) /\ Joins(p, AddWorkerInstance(p), w)
<1> DEFINE w == Min(Ids \ Live(p))
           tasks == [p.tasks EXCEPT ![w] = 0]
           running == [p.running EXCEPT ![w] = {}]
           ready == [p.ready EXCEPT ![w] = ~p.options.readyGate]
           worked == [p.worked EXCEPT ![w] = FALSE]
           workers == Append(p.workers, w)
           q == [p EXCEPT !.workers = workers, !.tasks = tasks, !.running = running,
                          !.ready = ready, !.overdue = p.overdue \ {w}, !.worked = worked]
<1>1. w \in Ids \ Live(p) BY LeastId
<1>2. AddWorkerInstance(p) = q BY DEF AddWorkerInstance, PoolType
<1> HIDE DEF w
<1>3. /\ workers \in Seq(Ids) /\ tasks \in [Ids -> Nat] /\ running \in [Ids -> SUBSET Calls]
      /\ ready \in [Ids -> BOOLEAN] /\ worked \in [Ids -> BOOLEAN]
  BY <1>1 DEF PoolType
<1>4. \A v \in Ids : /\ tasks[v] = IF v = w THEN 0 ELSE p.tasks[v]
                     /\ running[v] = IF v = w THEN {} ELSE p.running[v]
  BY DEF PoolType
<1>5. workers = Append(p.workers, w) OBVIOUS
<1> HIDE DEF workers, tasks, running, ready, worked
<1>6. q \in PoolType BY <1>1, <1>3 DEF PoolType
<1>7. /\ q.workers = workers /\ q.tasks = tasks /\ q.running = running
      /\ SameGiven(p, q) /\ SameBooks(p, q) /\ SameQueue(p, q) /\ SameRest(p, q)
      /\ q.minSize = p.minSize /\ q.maxSize = p.maxSize /\ q.limit = p.limit
      /\ q.listens = p.listens /\ q.active = p.active
  BY DEF SameGiven, SameBooks, SameQueue, SameRest, PoolType
<1> HIDE DEF q
<1>8. Joins(p, q, w) BY <1>4, <1>5, <1>6, <1>7 DEF Joins
<1> QED BY <1>1, <1>2, <1>8 DEF w

(* A worker that joins has nothing to do and disturbs nobody.              *)
LEMMA JoinedKeeps ==
  ASSUME NEW p, NEW q, Inv(p), NEW w \in Ids \ Live(p), Joins(p, q, w)
  PROVE  /\ Inv(q) /\ Follows(p, q, {}, {})
         /\ Live(q) = Live(p) \cup {w} /\ Len(q.workers) = Len(p.workers) + 1
         /\ q.tasks[w] = 0
<1> USE DEF Joins
<1>1. /\ p.workers \in Seq(Ids) /\ Len(p.workers) \in Nat
      /\ Len(q.workers) = Len(p.workers) + 1 /\ q.workers[Len(p.workers) + 1] = w
      /\ \A i \in 1..Len(p.workers) : q.workers[i] = p.workers[i]
  BY SMTT(60) DEF Inv, Sound, PoolType
<1>2. Live(q) = Live(p) \cup {w} BY <1>1, SMTT(60) DEF Live
<1>3. Live(p) \subseteq Ids BY CrewIsFinite DEF Inv, Sound
<1>4. \A v \in Live(p) : v \in Ids /\ v # w /\ q.tasks[v] = p.tasks[v] /\ q.running[v] = p.running[v]
  BY <1>3
<1>5. q.running[w] = {} /\ q.tasks[w] = 0 OBVIOUS
<1>6. q.options = p.options /\ q.queue = p.queue /\ q.outcome = p.outcome
  BY DEF SameGiven, SameQueue, SameBooks
<1>7. Sound(q)
  <2>1. Distinct(q.workers) BY <1>1 DEF Inv, Sound, Distinct, Live
  <2> QED BY <2>1 DEF Inv, Sound
<1>8. Booked(q) BY <1>6 DEF Inv, Booked, SameBooks
<1>9. \A c : Loose(p, c) <=> Loose(q, c) BY <1>2, <1>4, <1>5, <1>6 DEF Loose
<1>10. Placed(q) BY <1>2, <1>4, <1>5, <1>6, <1>9 DEF Inv, Placed
<1>11. Crewed(q)
  <2>1. InFlight(q) = InFlight(p) BY <1>2, <1>4, <1>5 DEF InFlight
  <2>2. Cardinality({}) = 0 BY FS_EmptySet
  <2> QED BY <1>2, <1>4, <1>5, <2>1, <2>2 DEF Inv, Crewed, SameGiven
<1>12. Within(q)
  <2>1. 0 <= q.options.maxTasks BY DEF PoolType, OptionsType
  <2> QED BY <1>2, <1>4, <1>5, <1>6, <2>1 DEF Inv, Within, SameGiven
<1>13. Restful(q) BY DEF Inv, Restful, Waiting, SameRest
<1>14. \A c \in Calls : Cared(p, c) => Cared(q, c)
  BY <1>2, <1>4, <1>6 DEF Cared, Hears, Sure, Carried, SameBooks
<1>15. Follows(p, q, {}, {}) BY <1>6, <1>9, <1>14 DEF Follows, SameGiven
<1> QED BY <1>1, <1>2, <1>5, <1>7, <1>8, <1>10, <1>11, <1>12, <1>13, <1>15 DEF Inv

(* A pool with fewer workers than MaxAlive has an id to spare.             *)
LEMMA IdToSpare ==
  ASSUME NEW p \in PoolType, Len(p.workers) < MaxAlive
  PROVE  Ids \ Live(p) # {}
<1> DEFINE n == Len(p.workers)
           f == [i \in 1..n |-> p.workers[i]]
<1>1. n \in Nat BY DEF PoolType
<1>2. IsFiniteSet(1..n) /\ Cardinality(1..n) = n
  BY <1>1, FS_Interval
<1>3. f \in Surjection(1..n, Live(p))
  BY DEF Surjection, Live
<1>4. Cardinality(Live(p)) <= n
  BY <1>2, <1>3, FS_Surjection
<1>5. IsFiniteSet(Ids) /\ Cardinality(Ids) = MaxAlive
  BY FS_Interval, PoolConstants DEF Ids
<1>6. CASE Ids \ Live(p) = {}
  <2>1. Live(p) = Ids BY <1>6, CrewIsFinite
  <2> QED BY <1>1, <1>4, <1>5, <2>1, PoolConstants
<1> QED BY <1>6

\* The pool q is p with n more workers.
Grows(p, q, n) ==
  /\ Inv(q) /\ Follows(p, q, {}, {})
  /\ Len(q.workers) = Len(p.workers) + n
  /\ q.minSize = p.minSize /\ q.maxSize = p.maxSize
  /\ SameRest(p, q) /\ SameQueue(p, q) /\ SameBooks(p, q)
  /\ q.active = p.active /\ q.limit = p.limit

(* _addWorkerInstance(), where there is an id to spare.                    *)
LEMMA OneMoreGrows ==
  ASSUME NEW p, Inv(p), Len(p.workers) < MaxAlive
  PROVE  Grows(p, AddWorkerInstance(p), 1)
<1>1. p \in PoolType BY DEF Inv, Sound
<1>2. PICK w \in Ids \ Live(p) : Joins(p, AddWorkerInstance(p), w)
  BY <1>1, IdToSpare, NewWorkerJoins
<1> QED BY <1>2, JoinedKeeps DEF Grows, Joins

(* Growing by m and then by n.                                             *)
LEMMA GrowsOn ==
  ASSUME NEW p, Inv(p), NEW q, NEW r, NEW m \in Nat, NEW n \in Nat, Grows(p, q, m), Grows(q, r, n)
  PROVE  Grows(p, r, m + n)
<1>1. Follows(p, r, {}, {}) BY FollowsBoth DEF Grows
<1>2. Len(p.workers) \in Nat BY DEF Inv, Sound, PoolType
<1>3. Len(r.workers) = Len(p.workers) + (m + n)
  <2>1. Len(q.workers) = Len(p.workers) + m /\ Len(r.workers) = Len(q.workers) + n
    BY DEF Grows
  <2> DEFINE a == Len(p.workers)
             b == Len(q.workers)
             c == Len(r.workers)
  <2> HIDE DEF a, b, c
  <2>2. a \in Nat /\ b = a + m /\ c = b + n
    BY <1>2, <2>1 DEF a, b, c
  <2>3. c = a + (m + n) BY <2>2
  <2> QED BY <2>3 DEF a, b, c
<1> QED BY <1>1, <1>3 DEF Grows, SameRest, SameQueue, SameBooks

(* Growing by nothing.                                                     *)
LEMMA GrowsNot ==
  ASSUME NEW p, Inv(p)
  PROVE  Grows(p, p, 0)
<1>1. Follows(p, p, {}, {}) BY DEF Follows
<1>2. Len(p.workers) \in Nat BY DEF Inv, Sound, PoolType
<1> QED BY <1>1, <1>2 DEF Grows, SameRest, SameQueue, SameBooks

\* The recursive function of AddWorkers.
IsGrown(p, n, grown) ==
  grown = [i \in 0..n |-> IF i = 0 THEN p ELSE AddWorkerInstance(grown[i - 1])]

(* The function exists.                                                    *)
LEMMA GrownExists ==
  ASSUME NEW p, NEW n \in Nat
  PROVE  \E grown : IsGrown(p, n, grown)
<1> DEFINE T == {m \in 0..n : ~\E grown : IsGrown(p, m, grown)}
<1>1. SUFFICES ASSUME T # {} PROVE FALSE
  OBVIOUS
<1>2. PICK m \in T : \A k \in T : m <= k
  <2>1. T \subseteq Nat OBVIOUS
  <2> HIDE DEF T
  <2> QED BY <1>1, <2>1, LeastExists
<1>3. m # 0
  <2>1. IsGrown(p, 0, [i \in 0..0 |-> p])
    BY DEF IsGrown
  <2> QED BY <1>2, <2>1
<1>4. PICK before : IsGrown(p, m - 1, before)
  BY <1>2, <1>3
<1> DEFINE grown == [i \in 0..m |-> IF i = m THEN AddWorkerInstance(before[m - 1]) ELSE before[i]]
<1>5. IsGrown(p, m, grown)
  <2>1. m \in Nat BY <1>2
  <2>2. ASSUME NEW i \in 0..m
        PROVE  grown[i] = IF i = 0 THEN p ELSE AddWorkerInstance(grown[i - 1])
    <3>1. CASE i = m
      BY <1>3, <2>1, <3>1
    <3>2. CASE i # m
      <4>1. i \in 0..(m - 1) /\ (i # 0 => i - 1 \in 0..(m - 1) /\ i - 1 # m)
        BY <2>1, <3>2
      <4>2. before[i] = IF i = 0 THEN p ELSE AddWorkerInstance(before[i - 1])
        BY <1>4, <4>1 DEF IsGrown
      <4> QED BY <2>1, <3>2, <4>1, <4>2
    <3> QED BY <3>1, <3>2
  <2> QED BY <2>2 DEF IsGrown
<1> QED BY <1>2, <1>5

(* n workers more.                                                         *)
LEMMA AddWorkersGrows ==
  ASSUME NEW p, Inv(p), NEW n \in Nat, Len(p.workers) + n <= MaxAlive
  PROVE  Grows(p, AddWorkers(p, n), n)
<1> DEFINE grown == CHOOSE f : f = [i \in 0..n |-> IF i = 0 THEN p ELSE AddWorkerInstance(f[i - 1])]
<1>1. PICK f : IsGrown(p, n, f)
  BY GrownExists
<1>2. AddWorkers(p, n) = grown[n]
  BY DEF AddWorkers
<1>3. IsGrown(p, n, grown)
  BY <1>1 DEF IsGrown
<1> HIDE DEF grown
<1>4. Len(p.workers) \in Nat BY DEF Inv, Sound, PoolType
<1> DEFINE T == {m \in 0..n : ~Grows(p, grown[m], m)}
<1>5. T = {}
  <2> SUFFICES ASSUME T # {} PROVE FALSE
    OBVIOUS
  <2>1. PICK m \in T : \A k \in T : m <= k
    <3>1. T \subseteq Nat OBVIOUS
    <3> HIDE DEF T
    <3> QED BY <3>1, LeastExists
  <2>2. m # 0
    <3>1. grown[0] = p BY <1>3 DEF IsGrown
    <3> QED BY <2>1, <3>1, GrowsNot
  <2>3. m \in 1..n /\ m - 1 \in 0..n /\ ~(m <= m - 1)
    BY <2>1, <2>2
  <2>4. Grows(p, grown[m - 1], m - 1)
    BY <2>1, <2>3
  <2>5. grown[m] = AddWorkerInstance(grown[m - 1])
    BY <1>3, <2>2, <2>3 DEF IsGrown
  <2>6. Len(grown[m - 1].workers) = Len(p.workers) + (m - 1) /\ Inv(grown[m - 1])
    BY <2>4 DEF Grows
  <2>7. Len(p.workers) + (m - 1) < MaxAlive
    BY <1>4, <2>3, PoolConstants
  <2>8. Grows(grown[m - 1], grown[m], 1)
    BY <2>5, <2>6, <2>7, OneMoreGrows
  <2>9. Grows(p, grown[m], (m - 1) + 1)
    BY <2>3, <2>4, <2>8, GrowsOn
  <2>10. (m - 1) + 1 = m BY <2>3
  <2> QED BY <2>1, <2>9, <2>10
<1> QED BY <1>2, <1>5

(* A loop that adds workers and may stop early.                            *)
LEMMA AddedGrows ==
  ASSUME NEW p, Inv(p), NEW n \in Nat, Len(p.workers) + n <= MaxAlive,
         NEW q \in AddedResults(p, n)
  PROVE  \E m \in 0..n : Grows(p, q, m) /\ (~p.options.spawnMayFail => m = n)
<1>1. PICK m \in 0..n : q = AddWorkers(p, m) /\ (~p.options.spawnMayFail => m = n)
  BY DEF AddedResults
<1>2. Len(p.workers) \in Nat /\ Len(p.workers) + m <= MaxAlive
  BY PoolConstants DEF Inv, Sound, PoolType
<1> QED BY <1>1, <1>2, AddWorkersGrows

(* Tasks of finitely many workers are finitely many.                       *)
LEMMA TasksOfIsNat ==
  ASSUME NEW p \in PoolType, NEW W \in SUBSET Live(p)
  PROVE  /\ TasksOf(p, W) \in Nat
         /\ IsFiniteSet(UNION {{w} \X (1..p.tasks[w]) : w \in W})
<1> DEFINE f == [w \in W |-> {w} \X (1..p.tasks[w])]
           R == {{w} \X (1..p.tasks[w]) : w \in W}
<1>1. W \subseteq Ids /\ IsFiniteSet(W) BY CrewIsFinite, FS_Subset
<1>2. f \in Surjection(W, R) BY DEF Surjection
<1>3. IsFiniteSet(R) BY <1>1, <1>2, FS_Surjection
<1>4. ASSUME NEW r \in R PROVE IsFiniteSet(r)
  <2>1. PICK w \in W : r = {w} \X (1..p.tasks[w]) OBVIOUS
  <2>2. p.tasks[w] \in Nat BY <1>1 DEF PoolType
  <2>3. IsFiniteSet(1..p.tasks[w]) /\ IsFiniteSet({w})
    <3>1. PICK n \in Nat : n = p.tasks[w] BY <2>2
    <3>2. IsFiniteSet(1..n) BY FS_Interval
    <3>3. IsFiniteSet({w}) BY FS_Singleton
    <3> QED BY <3>1, <3>2, <3>3
  <2> QED BY <2>1, <2>3, FS_Product
<1> HIDE DEF R
<1>5. IsFiniteSet(UNION R) BY <1>3, <1>4, FS_UNION
<1> QED BY <1>5, FS_CardinalityType DEF TasksOf, R

(* Where the counters of workers are exact, so is their sum.               *)
LEMMA TasksOfIsExact ==
  ASSUME NEW p \in PoolType, NEW W \in SUBSET Live(p),
         \A w \in W : p.tasks[w] = Cardinality(p.running[w])
  PROVE  TasksOf(p, W) = Cardinality({wc \in InFlight(p) : wc[1] \in W})
<1> DEFINE S == UNION {{w} \X (1..p.tasks[w]) : w \in W}
           T == {wc \in InFlight(p) : wc[1] \in W}
           b == [w \in W |-> CHOOSE f : f \in Bijection(1..p.tasks[w], p.running[w])]
           g == [t \in S |-> << t[1], b[t[1]][t[2]] >>]
<1>1. W \subseteq Ids BY CrewIsFinite
<1>2. ASSUME NEW w \in W PROVE b[w] \in Bijection(1..p.tasks[w], p.running[w])
  <2>1. p.tasks[w] \in Nat BY <1>1 DEF PoolType
  <2>2. IsFiniteSet(1..p.tasks[w]) /\ Cardinality(1..p.tasks[w]) = p.tasks[w]
    <3>1. PICK n \in Nat : n = p.tasks[w] BY <2>1
    <3>2. IsFiniteSet(1..n) /\ Cardinality(1..n) = n BY FS_Interval
    <3> QED BY <3>1, <3>2
  <2>3. IsFiniteSet(p.running[w]) BY <1>1, CrewIsFinite
  <2>4. ExistsBijection(1..p.tasks[w], p.running[w]) BY <2>2, <2>3, FS_SameCardinalityBij
  <2> QED BY <2>4 DEF ExistsBijection
<1>3. \A x : x \in T <=> \E w \in W : \E c \in p.running[w] : x = << w, c >>
  <2>1. \A w \in W : p.running[w] \subseteq Calls BY <1>1 DEF PoolType
  <2> QED BY <2>1 DEF InFlight
<1>4. \A x : x \in S <=> \E w \in W : \E i \in 1..p.tasks[w] : x = << w, i >>
  OBVIOUS
<1> HIDE DEF b, S, T
<1>5. \A w \in W : /\ \A i \in 1..p.tasks[w] : b[w][i] \in p.running[w]
                   /\ \A i, j \in 1..p.tasks[w] : b[w][i] = b[w][j] => i = j
                   /\ \A c \in p.running[w] : \E i \in 1..p.tasks[w] : b[w][i] = c
  BY <1>2 DEF Bijection, Injection, Surjection, IsInjective
<1>6. g \in [S -> T] BY <1>3, <1>4, <1>5
<1>7. \A t, u \in S : g[t] = g[u] => t = u BY <1>4, <1>5
<1>8. \A x \in T : \E t \in S : g[t] = x
  <2> SUFFICES ASSUME NEW x \in T PROVE \E t \in S : g[t] = x
    OBVIOUS
  <2>4. PICK w \in W : \E c \in p.running[w] : x = << w, c >> BY <1>3
  <2>5. PICK c \in p.running[w] : x = << w, c >> BY <2>4
  <2>1. PICK i \in 1..p.tasks[w] : b[w][i] = c BY <1>5
  <2>2. << w, i >> \in S BY <1>4
  <2>3. g[<< w, i >>] = << w, c >> BY <2>1, <2>2
  <2> QED BY <2>5, <2>2, <2>3
<1> HIDE DEF g
<1>9. g \in Bijection(S, T) BY <1>6, <1>7, <1>8 DEF Bijection, Injection, Surjection, IsInjective
<1>10. IsFiniteSet(S) BY TasksOfIsNat DEF S
<1>11. Cardinality(T) = Cardinality(S) BY <1>9, <1>10, FS_Bijection DEF ExistsBijection
<1> QED BY <1>11 DEF TasksOf, S, T

\* How the pool changes when the workers of W, who carry no response that waits, are
\* gone and those of ws are left.
Parts(p, q, W, ws) ==
  /\ q \in PoolType
  /\ SameGiven(p, q) /\ SameBooks(p, q) /\ SameQueue(p, q) /\ SameRest(p, q)
  /\ q.minSize = p.minSize /\ q.maxSize = p.maxSize /\ q.limit = p.limit
  /\ q.listens = p.listens
  /\ q.workers = ws
  /\ q.active = AtLeast0(p.active - TasksOf(p, W))
  /\ \A v \in Ids : /\ q.tasks[v] = IF v \in W THEN 0 ELSE p.tasks[v]
                    /\ q.running[v] = IF v \in W THEN {} ELSE p.running[v]

(* What is counted and promised stays right when workers are gone.         *)
LEMMA PartedKeeps ==
  ASSUME NEW p, NEW q, Inv(p), NEW W \in SUBSET Live(p), NEW ws, Parts(p, q, W, ws),
         In(ws) = Live(p) \ W, Distinct(ws),
         \A k \in Keys : p.pending[k] # NoCall => p.carrier[k] \notin W
  PROVE  Inv(q) /\ Follows(p, q, {}, {}) /\ Live(q) = Live(p) \ W
<1> USE DEF Parts
<1>0. p \in PoolType BY DEF Inv, Sound
<1>1. Live(q) = Live(p) \ W BY DEF Live, In
<1>2. Live(p) \subseteq Ids BY <1>0, CrewIsFinite
<1>3. \A v \in Live(q) : v \in Live(p) /\ q.tasks[v] = p.tasks[v] /\ q.running[v] = p.running[v]
  BY <1>1, <1>2
<1>4. q.options = p.options /\ q.queue = p.queue /\ q.outcome = p.outcome
  BY DEF SameGiven, SameQueue, SameBooks
<1>5. Sound(q) BY DEF Inv, Sound
<1>6. Booked(q) BY <1>4 DEF Inv, Booked, SameBooks
<1>7. \A c : Loose(p, c) => Loose(q, c) BY <1>3, <1>4 DEF Loose
<1>8. Placed(q) BY <1>3, <1>4, <1>7 DEF Inv, Placed
<1>9. Crewed(q)
  <2> SUFFICES ASSUME "chatter" \notin p.uses
               PROVE  /\ \A w \in Live(q) : q.tasks[w] = Cardinality(q.running[w])
                      /\ q.active = Cardinality(InFlight(q))
    BY DEF Crewed, SameGiven
  <2>1. /\ \A w \in Live(p) : p.tasks[w] = Cardinality(p.running[w])
        /\ p.active = Cardinality(InFlight(p))
    BY DEF Inv, Crewed
  <2> DEFINE T == {wc \in InFlight(p) : wc[1] \in W}
  <2>2. TasksOf(p, W) = Cardinality(T) BY <1>0, <2>1, TasksOfIsExact
  <2>3. InFlight(q) = InFlight(p) \ T BY <1>1, <1>3 DEF InFlight
  <2>4. IsFiniteSet(InFlight(p)) /\ T \subseteq InFlight(p) BY <1>0, CrewIsFinite
  <2> HIDE DEF T
  <2>5. Cardinality(InFlight(q)) = Cardinality(InFlight(p)) - Cardinality(T)
    <3>1. InFlight(p) \cap T = T BY <2>4
    <3> QED BY <2>3, <2>4, <3>1, FS_Difference
  <2>6. Cardinality(InFlight(q)) \in Nat BY CrewIsFinite
  <2> QED BY <1>3, <2>1, <2>2, <2>5, <2>6 DEF AtLeast0
<1>10. Within(q) BY <1>3, <1>4 DEF Inv, Within, SameGiven
<1>11. Restful(q) BY DEF Inv, Restful, Waiting, SameRest
<1>12. ASSUME NEW c \in Calls, Cared(p, c), q.outcome[c] = "open"
       PROVE  (Hears(q, c) => c \in q.listens) /\ (Sure(q) => Carried(q, c))
  <2> DEFINE k == p.options.keyOf[c]
  <2>1. k \in Keys BY <1>0 DEF PoolType, OptionsType
  <2>2. p.outcome[c] = "open" BY <1>4, <1>12
  <2>3. p.pending[k] = c BY <2>2 DEF Inv, Booked
  <2>4. p.carrier[k] \notin W BY <2>1, <2>3, PoolConstants
  <2>5. q.carrier[k] = p.carrier[k] BY DEF SameBooks
  <2>6. Carried(p, c) => Carried(q, c) BY <1>1, <1>3, <1>4, <2>4, <2>5 DEF Carried
  <2> QED BY <1>4, <1>12, <2>2, <2>6 DEF Cared, Hears, Sure
<1>13. \A c \in Calls : Cared(p, c) => Cared(q, c) BY <1>12 DEF Cared
<1>14. Follows(p, q, {}, {}) BY <1>4, <1>7, <1>13 DEF Follows, SameGiven
<1> QED BY <1>1, <1>5, <1>6, <1>8, <1>9, <1>10, <1>11, <1>14 DEF Inv

(* No worker is twice in the array, so it is no longer than there are ids. *)
LEMMA CrewFits ==
  ASSUME NEW p, Sound(p)
  PROVE  Len(p.workers) \in Nat /\ Len(p.workers) <= MaxAlive
<1> DEFINE n == Len(p.workers)
           f == [i \in 1..n |-> p.workers[i]]
<1>1. n \in Nat /\ p.workers \in Seq(Ids) BY DEF Sound, PoolType
<1>2. IsFiniteSet(1..n) /\ Cardinality(1..n) = n
  <2>1. PICK m \in Nat : m = n BY <1>1
  <2>2. IsFiniteSet(1..m) /\ Cardinality(1..m) = m BY FS_Interval
  <2> QED BY <2>1, <2>2
<1>3. IsFiniteSet(Ids) /\ Cardinality(Ids) = MaxAlive BY FS_Interval, PoolConstants DEF Ids
<1>4. f \in Injection(1..n, Ids)
  BY <1>1 DEF Injection, IsInjective, Sound, Distinct
<1> HIDE DEF f
<1>5. Cardinality(1..n) <= Cardinality(Ids) BY <1>3, <1>4, FS_Injection
<1> QED BY <1>1, <1>2, <1>3, <1>5

\* How the pool changes when the workers of W are terminated, and those of ws are left.
Dismisses(p, q, W, ws) ==
  /\ Inv(q) /\ Follows(p, q, {}, {})
  /\ SameQueue(p, q) /\ SameRest(p, q)
  /\ q.minSize = p.minSize /\ q.maxSize = p.maxSize /\ q.limit = p.limit
  /\ q.workers = ws
  /\ q.active = AtLeast0(p.active - TasksOf(p, W))

(* _terminateWorker(): the responses the workers carry are settled, and    *)
(* then they are gone.                                                     *)
LEMMA DismissedKeeps ==
  ASSUME NEW p, Inv(p), NEW W \in SUBSET Live(p), NEW ws \in Seq(Ids),
         In(ws) = Live(p) \ W, Distinct(ws)
  PROVE  Dismisses(p, [TerminateWorkers(p, W) EXCEPT !.workers = ws], W, ws)
<1> DEFINE doomed == {k \in Keys : p.pending[k] # NoCall /\ p.carrier[k] \in W}
           s == Settle(p, doomed, "rejected")
           active == AtLeast0(p.active - TasksOf(p, W))
           tasks == [w \in Ids |-> IF w \in W THEN 0 ELSE p.tasks[w]]
           running == [w \in Ids |-> IF w \in W THEN {} ELSE p.running[w]]
           q == [s EXCEPT !.active = active, !.tasks = tasks, !.running = running, !.workers = ws]
<1>0. p \in PoolType BY DEF Inv, Sound
<1>1. [TerminateWorkers(p, W) EXCEPT !.workers = ws] = q
  BY DEF TerminateWorkers, Settle
<1>2. Settles(p, s, doomed, "rejected") BY <1>0, SettleSettles DEF Settled
<1>3. doomed \in SUBSET Keys OBVIOUS
<1>4. \A k \in Keys : s.pending[k] # NoCall => s.carrier[k] \notin W
  BY <1>2 DEF Settles
<1> HIDE DEF s, doomed
<1>5. Inv(s) /\ Follows(p, s, {}, {}) BY <1>2, <1>3, SettledKeeps DEF Settled
<1>6. s \in PoolType /\ s.tasks = p.tasks /\ s.running = p.running /\ s.active = p.active /\ s.workers = p.workers
  BY <1>2 DEF Settles, SameCrew
<1>7. TasksOf(s, W) = TasksOf(p, W) /\ Live(s) = Live(p) BY <1>6 DEF TasksOf, Live
<1>8. TasksOf(p, W) \in Nat BY <1>0, TasksOfIsNat
<1>9. active \in Nat BY <1>0, <1>8 DEF AtLeast0, PoolType
<1>10. tasks \in [Ids -> Nat] /\ running \in [Ids -> SUBSET Calls] BY <1>0 DEF PoolType
<1>11. \A v \in Ids : /\ tasks[v] = IF v \in W THEN 0 ELSE s.tasks[v]
                      /\ running[v] = IF v \in W THEN {} ELSE s.running[v]
  BY <1>6
<1>12. active = AtLeast0(s.active - TasksOf(s, W)) BY <1>6, <1>7
<1>16. active = AtLeast0(p.active - TasksOf(p, W)) OBVIOUS
<1> HIDE DEF active, tasks, running
<1>13. q \in PoolType BY <1>6, <1>9, <1>10 DEF PoolType
<1>14. /\ q.active = active /\ q.tasks = tasks /\ q.running = running /\ q.workers = ws
       /\ SameGiven(s, q) /\ SameBooks(s, q) /\ SameQueue(s, q) /\ SameRest(s, q)
       /\ q.minSize = s.minSize /\ q.maxSize = s.maxSize /\ q.limit = s.limit
       /\ q.listens = s.listens
  BY <1>6 DEF SameGiven, SameBooks, SameQueue, SameRest, PoolType
<1> HIDE DEF q
<1>15. Parts(s, q, W, ws) BY <1>11, <1>12, <1>13, <1>14 DEF Parts
<1>17. Inv(q) /\ Follows(s, q, {}, {}) BY <1>4, <1>5, <1>7, <1>15, PartedKeeps
<1>18. Follows(p, q, {}, {}) BY <1>5, <1>17, FollowsBoth
<1>19. /\ SameQueue(p, q) /\ SameRest(p, q)
       /\ q.minSize = p.minSize /\ q.maxSize = p.maxSize /\ q.limit = p.limit
  BY <1>2, <1>14 DEF Settles, SameQueue, SameRest
<1> QED BY <1>1, <1>14, <1>16, <1>17, <1>18, <1>19 DEF Dismisses

(* _terminateWorker() for workers that are then taken off the array.       *)
LEMMA TakenOffKeeps ==
  ASSUME NEW p, Inv(p), NEW W \in SUBSET Live(p)
  PROVE  \E ws : /\ Dismisses(p, TakeOff(TerminateWorkers(p, W), W), W, ws)
                 /\ In(ws) = Live(p) \ W /\ Len(ws) <= Len(p.workers)
<1> DEFINE ws == Without(p.workers, W)
<1>1. p \in PoolType /\ p.workers \in Seq(Ids) BY DEF Inv, Sound, PoolType
<1>2. KeepsOf(Ids, p.workers, W, Len(p.workers), ws) BY <1>1, WithoutKeeps
<1>3. TerminateWorkers(p, W).workers = p.workers
  BY <1>1 DEF TerminateWorkers, Settle, PoolType
<1>4. TakeOff(TerminateWorkers(p, W), W) = [TerminateWorkers(p, W) EXCEPT !.workers = ws]
  BY <1>3 DEF TakeOff
<1> HIDE DEF ws
<1>5. ws \in Seq(Ids) /\ In(ws) = Live(p) \ W /\ Distinct(ws) /\ Len(ws) <= Len(p.workers)
  BY <1>2 DEF KeepsOf, Live, Inv, Sound
<1> QED BY <1>4, <1>5, DismissedKeeps

\* How the pool q differs from p, whose promises are all settled, when it has been emptied.
Empties(p, q) ==
  /\ q \in PoolType
  /\ q.options = p.options /\ q.uses = p.uses /\ q.aborted = p.aborted /\ q.elapsed = p.elapsed
  /\ q.outcome = p.outcome /\ q.pending = p.pending /\ SameRest(p, q)
  /\ q.minSize = p.minSize /\ q.maxSize = p.maxSize
  /\ q.workers = << >> /\ q.queue = << >> /\ q.active = 0

(* Nothing is left to be wrong in an empty pool.                           *)
LEMMA EmptiedKeeps ==
  ASSUME NEW p, NEW q, Inv(p), Empties(p, q), \A c \in Calls : p.outcome[c] # "open"
  PROVE  /\ Inv(q) /\ \A c \in Calls : Loose(q, c) /\ Cared(q, c)
         /\ q.terminated = p.terminated => Follows(p, q, {}, {})
<1> USE DEF Empties
<1>1. Live(q) = {} /\ In(q.queue) = {} BY DEF Live, In
<1>2. InFlight(q) = {} BY <1>1 DEF InFlight
<1>3. Sound(q) BY DEF Inv, Sound, Distinct
<1>4. Booked(q) BY DEF Inv, Booked
<1>5. \A c : Loose(q, c) BY <1>1 DEF Loose
<1>6. Placed(q) BY <1>1, <1>5 DEF Placed, Distinct
<1>7. Crewed(q)
  <2>1. Cardinality({}) = 0 BY FS_EmptySet
  <2> QED BY <1>1, <1>2, <2>1 DEF Crewed
<1>8. Within(q)
  <2>1. q.options.maxQueue \in Nat BY DEF PoolType, OptionsType
  <2> QED BY <1>1, <2>1 DEF Within
<1>9. Restful(q) BY DEF Inv, Restful, Waiting, SameRest
<1>10. \A c \in Calls : Cared(q, c) BY DEF Cared
<1>11. q.terminated = p.terminated => Follows(p, q, {}, {}) BY <1>5, <1>10 DEF Follows
<1> QED BY <1>3, <1>4, <1>5, <1>6, <1>7, <1>8, <1>9, <1>10, <1>11 DEF Inv

\* Every promise settled, every worker terminated, the queue emptied.
Bared(p, t) ==
  [ TerminateWorkers(Settle(p, Keys, "rejected"), Live(p)) EXCEPT
      !.terminated = t, !.workers = << >>, !.queue = << >>, !.active = 0 ]

(* Every promise settled and every worker terminated, the pool is empty.   *)
LEMMA BaredEmpties ==
  ASSUME NEW p, Inv(p), NEW t, t \in BOOLEAN
  PROVE  LET b == Bared(p, t)
         IN  /\ Inv(b) /\ \A c \in Calls : b.outcome[c] # "open" /\ Loose(b, c) /\ Cared(b, c)
             /\ \A c \in Calls : p.outcome[c] \in Settled \cup {"new", "sent"} => b.outcome[c] = p.outcome[c]
             /\ b.options = p.options /\ b.uses = p.uses /\ b.aborted = p.aborted /\ b.elapsed = p.elapsed
             /\ b.minSize = p.minSize /\ b.maxSize = p.maxSize /\ SameRest(p, b)
             /\ b.terminated = t /\ b.workers = << >> /\ Quiet(b)
             /\ t = p.terminated => Follows(p, b, {}, {})
<1> DEFINE s == Settle(p, Keys, "rejected")
           d == [TerminateWorkers(s, Live(p)) EXCEPT !.workers = << >>]
           b == Bared(p, t)
           e == [ d EXCEPT !.terminated = t, !.queue = << >>, !.active = 0 ]
<1>0. p \in PoolType BY DEF Inv, Sound
<1>1. Settles(p, s, Keys, "rejected") BY <1>0, SettleSettles DEF Settled
<1>2. b = e BY DEF Bared, TerminateWorkers, Settle
<1> HIDE DEF s, b
<1>3. /\ Inv(s) /\ Follows(p, s, {}, {})
      /\ \A c \in Calls : p.options.keyOf[c] \in Keys => s.outcome[c] # "open"
  BY <1>1, SettledKeeps DEF Settled
<1>4. \A c \in Calls : s.outcome[c] # "open"
  BY <1>0, <1>3 DEF PoolType, OptionsType
<1>5. Live(s) = Live(p) BY <1>1 DEF Settles, SameCrew, Live
<1>6. In(<< >>) = {} /\ Distinct(<< >>) /\ << >> \in Seq(Ids) BY DEF In, Distinct
<1>7. Dismisses(s, d, Live(s), << >>) BY <1>3, <1>5, <1>6, DismissedKeeps
<1> HIDE DEF d
<1>8. Inv(d) /\ Follows(s, d, {}, {}) /\ d \in PoolType BY <1>7 DEF Dismisses, Inv, Sound
<1>9. \A c \in Calls : d.outcome[c] # "open" BY <1>4, <1>8 DEF Follows
<1>10. Empties(d, e) /\ e.terminated = t
  <2> DEFINE none == << >>
             zero == 0
  <2>2. e = [d EXCEPT !.terminated = t, !.queue = none, !.active = zero]
    OBVIOUS
  <2>3. none \in Seq(Calls) /\ zero \in Nat OBVIOUS
  <2> HIDE DEF none, zero
  <2>1. e \in PoolType BY <1>8, <2>2, <2>3 DEF PoolType
  <2> QED BY <1>7, <1>8, <2>1 DEF Empties, SameRest, Dismisses, PoolType
<1> HIDE DEF e
<1>11. /\ Inv(e) /\ \A c \in Calls : Loose(e, c) /\ Cared(e, c)
       /\ e.terminated = d.terminated => Follows(d, e, {}, {})
  BY <1>8, <1>9, <1>10, EmptiedKeeps
<1>12. Follows(p, d, {}, {}) BY <1>3, <1>8, FollowsBoth
<1>13. t = p.terminated => Follows(p, e, {}, {})
  <2>1. d.terminated = p.terminated BY <1>12 DEF Follows
  <2> QED BY <1>10, <1>11, <1>12, <2>1, FollowsBoth
<1>14. /\ \A c \in Calls : p.outcome[c] \in Settled \cup {"new", "sent"} => e.outcome[c] = p.outcome[c]
       /\ e.options = p.options /\ e.uses = p.uses /\ e.aborted = p.aborted /\ e.elapsed = p.elapsed
  BY <1>10, <1>12 DEF Follows, Empties
<1>15. e.minSize = p.minSize /\ e.maxSize = p.maxSize /\ SameRest(p, e)
  BY <1>1, <1>7, <1>10 DEF Settles, Dismisses, Empties, SameRest
<1>16. e.workers = << >> /\ Quiet(e) /\ \A c \in Calls : e.outcome[c] # "open"
  BY <1>9, <1>10 DEF Empties, Quiet
<1> QED BY <1>2, <1>10, <1>11, <1>13, <1>14, <1>15, <1>16 DEF b

(***************************************************************************)
(* Steps that also look after the drains and the calls they take in hand.  *)
(***************************************************************************)

\* A drain() that the step resolves finds nothing of what was posted before it.
Honest(p, q, C) ==
  "chatter" \notin p.uses =>
    \A d \in Drains : p.drains[d] # "resolved" /\ q.drains[d] = "resolved" =>
      \A c \in Calls \ C : Loose(q, c)

\* The promise of a call that has just been posted: somebody will settle it, and the pool
\* and the caller are still there to want it.
Wanted(p, c) == Cared(p, c) /\ (p.outcome[c] = "open" => ~p.terminated /\ c \notin p.aborted)

\* The step from p to q, which posts the calls of C and no others.
Goes(p, q, C) ==
  Inv(q) /\ Follows(p, q, C, C) /\ Honest(p, q, C) /\ \A c \in C \cap Calls : Wanted(q, c)

(* A step that changes no drain.                                           *)
LEMMA RestIsHonest ==
  ASSUME NEW p, NEW q, NEW C, SameRest(p, q)
  PROVE  Honest(p, q, C)
BY DEF Honest, SameRest

(* One step after the other.                                               *)
LEMMA HonestOn ==
  ASSUME NEW p, NEW q, NEW r, NEW C, NEW D, NEW O, NEW P,
         Follows(p, q, C, O), Follows(q, r, D, P), Honest(p, q, C), Honest(q, r, D)
  PROVE  Honest(p, r, C \cup D)
BY DEF Honest, Follows

(* One step after the other, with the drains and the calls looked after.   *)
LEMMA GoesOn ==
  ASSUME NEW p, NEW q, NEW r, NEW C, NEW D, Goes(p, q, C), Goes(q, r, D)
  PROVE  Goes(p, r, C \cup D)
<1>1. Follows(p, r, C \cup D, C \cup D) BY FollowsOn DEF Goes
<1>2. Honest(p, r, C \cup D) BY HonestOn DEF Goes
<1>3. ASSUME NEW c \in (C \cup D) \cap Calls PROVE Wanted(r, c)
  <2>1. CASE c \in D BY <2>1 DEF Goes
  <2>2. CASE c \notin D
    <3>1. Wanted(q, c) /\ Follows(q, r, D, D) BY <2>2 DEF Goes
    <3> QED BY <2>2, <3>1 DEF Wanted, Follows
  <2> QED BY <2>1, <2>2
<1> QED BY <1>1, <1>2, <1>3 DEF Goes

(* It is no less true of more calls, if they are wanted.                   *)
LEMMA GoesLess ==
  ASSUME NEW p, NEW q, NEW C, NEW D, Goes(p, q, C), C \subseteq D,
         \A c \in (D \ C) \cap Calls : Wanted(q, c)
  PROVE  Goes(p, q, D)
<1>1. Follows(p, q, D, D) BY FollowsLess DEF Goes
<1>2. Honest(p, q, D) BY DEF Honest, Goes
<1>3. \A c \in D \cap Calls : Wanted(q, c) BY DEF Goes
<1> QED BY <1>1, <1>2, <1>3 DEF Goes

(* _updateIdleState() resolves a drain only when nothing is left to do.    *)
LEMMA IdleGoes ==
  ASSUME NEW p, Inv(p)
  PROVE  LET q == UpdateIdleState(p)
         IN  Goes(p, q, {}) /\ Announced(q) /\ SameWork(p, q) /\ q.minSize = p.minSize /\ q.maxSize = p.maxSize
<1> DEFINE q == UpdateIdleState(p)
<1>0. p \in PoolType BY DEF Inv, Sound
<1>1. Inv(q) /\ Follows(p, q, {}, {}) /\ Announced(q) /\ SameWork(p, q) BY IdleUpdated
<1>2. Honest(p, q, {})
  <2>1. CASE ~Quiet(p)
    <3>1. q.drains = p.drains BY <1>0, <2>1 DEF UpdateIdleState, PoolType
    <3> QED BY <3>1 DEF Honest
  <2>2. CASE Quiet(p)
    <3> SUFFICES ASSUME "chatter" \notin p.uses, NEW c \in Calls PROVE Loose(q, c)
      BY DEF Honest
    <3>1. Cardinality(InFlight(p)) = 0 /\ In(p.queue) = {}
      BY <2>2 DEF Quiet, Inv, Crewed, In
    <3>2. InFlight(p) = {} BY <1>0, <3>1, CrewIsFinite, FS_EmptySet
    <3>5. ASSUME NEW w \in Live(p), c \in p.running[w] PROVE FALSE
      <4>1. << w, c >> \in InFlight(p) BY <3>5 DEF InFlight
      <4> QED BY <3>2, <4>1
    <3>3. Loose(p, c) BY <3>1, <3>5 DEF Loose
    <3>4. Live(q) = Live(p) /\ q.queue = p.queue /\ q.running = p.running
      BY <1>1 DEF SameWork, SameCrew, SameQueue, Live
    <3> QED BY <3>3, <3>4 DEF Loose
  <2> QED BY <2>1, <2>2
<1>3. q.minSize = p.minSize /\ q.maxSize = p.maxSize BY <1>0 DEF UpdateIdleState, PoolType
<1> HIDE DEF q
<1>4. Goes(p, q, {}) BY <1>1, <1>2 DEF Goes
<1> QED BY <1>1, <1>3, <1>4 DEF q

(* Then _updateIdleState().                                                *)
LEMMA GoesThenIdle ==
  ASSUME NEW p, NEW q, NEW C, Goes(p, q, C)
  PROVE  Goes(p, UpdateIdleState(q), C) /\ Announced(UpdateIdleState(q))
<1>1. Goes(q, UpdateIdleState(q), {}) /\ Announced(UpdateIdleState(q))
  BY IdleGoes DEF Goes
<1>2. C \cup {} = C OBVIOUS
<1>3. Goes(p, UpdateIdleState(q), C \cup {}) BY <1>1, GoesOn
<1> QED BY <1>1, <1>2, <1>3

(* A step that touches no call and no drain.                               *)
LEMMA FollowsGoes ==
  ASSUME NEW p, NEW q, Inv(q), Follows(p, q, {}, {}), SameRest(p, q)
  PROVE  Goes(p, q, {})
BY RestIsHonest DEF Goes

(***************************************************************************)
(* The queue.                                                              *)
(***************************************************************************)

\* How the pool changes when the calls of X leave the queue.
Shortens(p, q, X) ==
  /\ q \in PoolType
  /\ SameGiven(p, q) /\ SameCrew(p, q) /\ SameBooks(p, q) /\ SameRest(p, q)
  /\ q.minSize = p.minSize /\ q.maxSize = p.maxSize /\ q.listens = p.listens
  /\ In(q.queue) = In(p.queue) \ X /\ Distinct(q.queue) /\ Len(q.queue) <= Len(p.queue)

(* Calls that leave the queue, of which those of E are still waited for.   *)
LEMMA ShortenedKeeps ==
  ASSUME NEW p, NEW q, Inv(p), NEW X, NEW E, Shortens(p, q, X),
         \A c \in (X \cap Calls) \ E : p.outcome[c] # "open"
  PROVE  Inv(q) /\ Follows(p, q, {}, E) /\ \A c \in X \cap In(p.queue) : Loose(q, c)
<1> USE DEF Shortens
<1>1. q.options = p.options /\ Live(q) = Live(p) /\ q.running = p.running /\ q.outcome = p.outcome
  BY DEF SameGiven, SameCrew, SameBooks, Live
<1>2. Sound(q) BY DEF Inv, Sound, SameCrew
<1>3. Booked(q) BY <1>1 DEF Inv, Booked, SameBooks
<1>4. \A c : Loose(p, c) => Loose(q, c) BY <1>1 DEF Loose
<1>5. Placed(q) BY <1>1, <1>4 DEF Inv, Placed
<1>6. Crewed(q)
  <2>1. InFlight(q) = InFlight(p) BY <1>1 DEF InFlight
  <2> QED BY <1>1, <2>1 DEF Inv, Crewed, SameCrew, SameGiven
<1>7. Within(q)
  <2>1. /\ Len(p.queue) \in Nat /\ Len(q.queue) \in Nat /\ p.options.maxQueue \in Nat
        /\ Len(p.queue) <= p.options.maxQueue /\ Len(q.queue) <= Len(p.queue)
    <3>1. Len(q.queue) \in Nat BY DEF PoolType
    <3> QED BY <3>1, Bounded
  <2>2. Len(q.queue) <= p.options.maxQueue
    <3> DEFINE a == Len(p.queue)
               b == Len(q.queue)
               m == p.options.maxQueue
    <3> HIDE DEF a, b, m
    <3>1. a \in Nat /\ b \in Nat /\ m \in Nat /\ a <= m /\ b <= a BY <2>1 DEF a, b, m
    <3>2. b <= m BY <3>1
    <3> QED BY <3>2 DEF b, m
  <2> QED BY <1>1, <2>2 DEF Inv, Within, SameCrew, SameGiven
<1>8. Restful(q) BY DEF Inv, Restful, Waiting, SameRest
<1>9. \A c \in Calls \ E : Cared(p, c) => Cared(q, c)
  BY <1>1 DEF Cared, Hears, Sure, Carried, SameBooks
<1>10. Follows(p, q, {}, E) BY <1>1, <1>4, <1>9 DEF Follows, SameGiven
<1>11. \A c \in X \cap In(p.queue) : Loose(q, c) BY <1>1 DEF Loose, Inv, Placed
<1> QED BY <1>2, <1>3, <1>5, <1>6, <1>7, <1>8, <1>10, <1>11 DEF Inv

\* The pool q is p without the calls of X in its queue; nobody waits for them any more,
\* but for those of E.
Discards(p, q, X, E) ==
  /\ Inv(q) /\ Follows(p, q, {}, E)
  /\ \A c \in X \cap In(p.queue) : Loose(q, c)
  /\ \A c \in Calls : q.outcome[c] = "open" => p.outcome[c] = "open"
  /\ SameCrew(p, q) /\ SameRest(p, q) /\ q.listens = p.listens
  /\ q.minSize = p.minSize /\ q.maxSize = p.maxSize /\ q.limit = p.limit
  /\ q.ready = p.ready /\ q.elapsed = p.elapsed
  /\ In(q.queue) = In(p.queue) \ X

(* Items come off the queue, and the requests among them are settled.      *)
LEMMA DiscardedKeeps ==
  ASSUME NEW p, Inv(p), NEW K \in SUBSET Keys, NEW X, NEW E, NEW ws \in Seq(Calls),
         In(ws) = In(p.queue) \ X, Distinct(ws), Len(ws) <= Len(p.queue),
         \A c \in (X \cap p.options.requests) \ E : p.options.keyOf[c] \in K
  PROVE  LET q == [Settle(p, K, "rejected") EXCEPT !.queue = ws]
         IN  Discards(p, q, X, E) /\ q.queue = ws
<1> DEFINE s == Settle(p, K, "rejected")
           q == [s EXCEPT !.queue = ws]
<1>0. p \in PoolType /\ p.options.requests \subseteq Calls BY DEF Inv, Sound, PoolType, OptionsType
<1>1. Settles(p, s, K, "rejected") BY <1>0, SettleSettles DEF Settled
<1> HIDE DEF s
<1>2. /\ Inv(s) /\ Follows(p, s, {}, {})
      /\ \A c \in Calls : p.options.keyOf[c] \in K => s.outcome[c] # "open"
  BY <1>1, SettledKeeps DEF Settled
<1>3. s \in PoolType /\ s.queue = p.queue /\ s.options = p.options
  BY <1>1 DEF Settles, SameQueue, SameGiven
<1>4. \A c \in (X \cap Calls) \ E : s.outcome[c] # "open"
  <2> SUFFICES ASSUME NEW c \in (X \cap Calls) \ E, s.outcome[c] = "open" PROVE FALSE
    OBVIOUS
  <2>1. s.pending[s.options.keyOf[c]] = c /\ s.options.keyOf[c] \in Keys
    BY <1>2, <1>3 DEF Inv, Booked, PoolType, OptionsType
  <2>2. c \in s.options.requests BY <1>2, <2>1, PoolConstants DEF Inv, Booked
  <2> QED BY <1>2, <1>3, <2>2
<1>5. q \in PoolType BY <1>3 DEF PoolType
<1>6. q.queue = ws BY <1>3 DEF PoolType
<1>7. Shortens(s, q, X)
  BY <1>3, <1>5, <1>6 DEF Shortens, SameGiven, SameCrew, SameBooks, SameRest, PoolType
<1>8. q.limit = s.limit /\ q.ready = s.ready /\ q.elapsed = s.elapsed
  BY <1>3 DEF PoolType
<1> HIDE DEF q
<1>9. Inv(q) /\ Follows(s, q, {}, E) /\ \A c \in X \cap In(p.queue) : Loose(q, c)
  BY <1>2, <1>3, <1>4, <1>7, ShortenedKeeps
<1>10. Follows(p, q, {}, E) BY <1>2, <1>9, FollowsLess, FollowsBoth
<1>11. \A c \in Calls : q.outcome[c] = "open" => p.outcome[c] = "open"
  BY <1>2, <1>7 DEF Follows, Shortens, SameBooks
<1>12. /\ SameCrew(p, q) /\ SameRest(p, q) /\ q.listens = p.listens
       /\ q.minSize = p.minSize /\ q.maxSize = p.maxSize /\ q.limit = p.limit
       /\ q.ready = p.ready /\ q.elapsed = p.elapsed
  BY <1>1, <1>7, <1>8 DEF Settles, Shortens, SameCrew, SameRest
<1>13. In(q.queue) = In(p.queue) \ X BY <1>6
<1>14. Discards(p, q, X, E) BY <1>9, <1>10, <1>11, <1>12, <1>13 DEF Discards
<1> QED BY <1>6, <1>14 DEF q, s

(* What is left of a sequence behind its first n elements.                 *)
LEMMA RestOf ==
  ASSUME NEW S, NEW s \in Seq(S), NEW n \in 0..Len(s)
  PROVE  LET t == SubSeq(s, n + 1, Len(s))
         IN  /\ t \in Seq(S) /\ Len(t) = Len(s) - n /\ Len(t) <= Len(s)
             /\ Distinct(s) => Distinct(t) /\ In(t) = In(s) \ {s[i] : i \in 1..n}
<1> DEFINE t == SubSeq(s, n + 1, Len(s))
           m == Len(s)
           X == {s[i] : i \in 1..n}
<1>0. m \in Nat /\ n \in Nat /\ n <= m OBVIOUS
<1>1. t \in Seq(S) /\ Len(t) = m - n /\ \A i \in 1..(m - n) : t[i] = s[n + i]
  <2>1. n + 1 \in 1..(m + 1) BY <1>0
  <2> QED BY <1>0, <2>1, SubSeqProperties
<1> HIDE DEF t
<1>2. m - n \in Nat /\ m - n <= m BY <1>0
<1>3. ASSUME Distinct(s) PROVE Distinct(t)
  BY <1>0, <1>1, <1>3 DEF Distinct
<1>4. ASSUME Distinct(s) PROVE In(t) = In(s) \ X
  <2>1. ASSUME NEW x \in In(t) PROVE x \in In(s) \ X
    <3>1. PICK i \in 1..(m - n) : x = s[n + i] BY <1>1 DEF In
    <3>2. n + i \in 1..m /\ \A j \in 1..n : j \in 1..m /\ j # n + i BY <1>0
    <3> QED BY <1>4, <3>1, <3>2 DEF In, Distinct
  <2>2. ASSUME NEW x \in In(s) \ X PROVE x \in In(t)
    <3>1. PICK i \in 1..m : x = s[i] BY DEF In
    <3>2. i \notin 1..n BY <2>2, <3>1
    <3>3. i - n \in 1..(m - n) /\ n + (i - n) = i BY <1>0, <3>2
    <3> QED BY <1>1, <3>1, <3>3 DEF In
  <2> QED BY <2>1, <2>2
<1> QED BY <1>1, <1>2, <1>3, <1>4 DEF t

(* The first n items of the queue come off it.                             *)
LEMMA FrontDiscarded ==
  ASSUME NEW p, Inv(p), NEW n \in 0..Len(p.queue)
  PROVE  LET ws == SubSeq(p.queue, n + 1, Len(p.queue))
             q  == [Settle(p, QueuedKeys(p, n), "rejected") EXCEPT !.queue = ws]
         IN  Discards(p, q, {p.queue[i] : i \in 1..n}, {}) /\ q.queue = ws
<1> DEFINE ws == SubSeq(p.queue, n + 1, Len(p.queue))
           X == {p.queue[i] : i \in 1..n}
           K == QueuedKeys(p, n)
           q == [Settle(p, K, "rejected") EXCEPT !.queue = ws]
<1>0. /\ p.queue \in Seq(Calls) /\ Distinct(p.queue) /\ p.options.keyOf \in [Calls -> Keys]
      /\ \A i \in 1..n : p.queue[i] \in Calls
  BY DEF Inv, Sound, PoolType, Placed, OptionsType
<1>1. ws \in Seq(Calls) /\ Len(ws) <= Len(p.queue) /\ Distinct(ws) /\ In(ws) = In(p.queue) \ X
  <2>1. PICK s \in Seq(Calls) : s = p.queue BY <1>0
  <2>2. n \in 0..Len(s) /\ Distinct(s) BY <1>0, <2>1
  <2> DEFINE t == SubSeq(s, n + 1, Len(s))
  <2>3. t \in Seq(Calls) /\ Len(t) <= Len(s) /\ Distinct(t) /\ In(t) = In(s) \ {s[i] : i \in 1..n}
    BY <2>2, RestOf
  <2> HIDE DEF t
  <2>4. t = ws BY <2>1 DEF t
  <2> QED BY <2>1, <2>3, <2>4
<1>2. K \in SUBSET Keys BY <1>0 DEF QueuedKeys
<1>3. \A c \in (X \cap p.options.requests) \ {} : p.options.keyOf[c] \in K
  BY DEF QueuedKeys
<1> HIDE DEF ws, X, K
<1>4. Discards(p, q, X, {}) /\ q.queue = ws
  BY <1>1, <1>2, <1>3, DiscardedKeeps
<1> QED BY <1>4 DEF ws, X, K

(***************************************************************************)
(* Dispatch.                                                               *)
(***************************************************************************)

\* How the pool changes when worker w is given call c.
Hands(p, q, c, w, listen) ==
  /\ q \in PoolType
  /\ SameGiven(p, q) /\ SameQueue(p, q) /\ SameRest(p, q)
  /\ q.minSize = p.minSize /\ q.maxSize = p.maxSize /\ q.limit = p.limit
  /\ q.ready = p.ready /\ q.elapsed = p.elapsed
  /\ q.workers = p.workers /\ q.pending = p.pending /\ q.active = p.active + 1
  /\ \A v \in Ids : /\ q.tasks[v] = IF v = w THEN p.tasks[v] + 1 ELSE p.tasks[v]
                    /\ q.running[v] = IF v = w THEN p.running[v] \cup {c} ELSE p.running[v]
  /\ \A k \in Keys : q.carrier[k] = IF k = p.options.keyOf[c] /\ p.pending[k] # NoCall /\ c \in p.options.requests
                                    THEN w ELSE p.carrier[k]
  /\ \A d \in Calls : q.outcome[d] = IF d = c /\ p.outcome[c] = "new" THEN "sent" ELSE p.outcome[d]
  /\ p.listens \subseteq q.listens /\ (listen /\ c \in p.options.requests => c \in q.listens)

(* _dispatchToWorker() gives the call to the worker and counts it.         *)
LEMMA DispatchHands ==
  ASSUME NEW p \in PoolType, NEW c \in Calls, NEW w \in Ids, NEW listen
  PROVE  Hands(p, Dispatch(p, c, w, listen), c, w, listen)
<1> DEFINE k == p.options.keyOf[c]
           running == [p.running EXCEPT ![w] = p.running[w] \cup {c}]
           tasks == [p.tasks EXCEPT ![w] = p.tasks[w] + 1]
           active == p.active + 1
           carrier == [p.carrier EXCEPT ![k] = IF p.pending[k] # NoCall /\ c \in p.options.requests
                                               THEN w ELSE p.carrier[k]]
           listens == IF listen THEN p.listens \cup ({c} \cap p.options.requests) ELSE p.listens
           outcome == [p.outcome EXCEPT ![c] = IF p.outcome[c] = "new" THEN "sent" ELSE p.outcome[c]]
           q == [p EXCEPT !.running = running, !.tasks = tasks, !.active = active,
                          !.carrier = carrier, !.listens = listens, !.outcome = outcome]
<1>1. Dispatch(p, c, w, listen) = q BY DEF Dispatch, PoolType
<1>2. k \in Keys /\ p.options.requests \subseteq Calls BY DEF PoolType, OptionsType
<1>3. /\ running \in [Ids -> SUBSET Calls] /\ tasks \in [Ids -> Nat] /\ active \in Nat
      /\ \A v \in Ids : /\ tasks[v] = IF v = w THEN p.tasks[v] + 1 ELSE p.tasks[v]
                        /\ running[v] = IF v = w THEN p.running[v] \cup {c} ELSE p.running[v]
  <2>1. /\ p.running \in [Ids -> SUBSET Calls] /\ p.tasks \in [Ids -> Nat] /\ p.active \in Nat
        /\ p.running[w] \in SUBSET Calls /\ p.tasks[w] \in Nat
    BY DEF PoolType
  <2> DEFINE more == p.running[w] \cup {c}
             count == p.tasks[w] + 1
  <2>2. more \in SUBSET Calls /\ count \in Nat /\ active \in Nat BY <2>1
  <2>3. running = [p.running EXCEPT ![w] = more] /\ tasks = [p.tasks EXCEPT ![w] = count] OBVIOUS
  <2>4. more = p.running[w] \cup {c} /\ count = p.tasks[w] + 1 OBVIOUS
  <2> HIDE DEF more, count, running, tasks, active
  <2>5. running \in [Ids -> SUBSET Calls] /\ tasks \in [Ids -> Nat] BY <2>1, <2>2, <2>3
  <2>6. \A v \in Ids : tasks[v] = IF v = w THEN p.tasks[v] + 1 ELSE p.tasks[v]
    BY <2>1, <2>3, <2>4
  <2>7. \A v \in Ids : running[v] = IF v = w THEN p.running[v] \cup {c} ELSE p.running[v]
    BY <2>1, <2>3, <2>4
  <2> QED BY <2>2, <2>5, <2>6, <2>7
<1>4. /\ carrier \in [Keys -> Ids \cup {NoWorker}]
      /\ \A j \in Keys : carrier[j] = IF j = k /\ p.pending[j] # NoCall /\ c \in p.options.requests
                                      THEN w ELSE p.carrier[j]
  BY <1>2 DEF PoolType
<1>5. /\ listens \in SUBSET Calls
      /\ p.listens \subseteq listens /\ (listen /\ c \in p.options.requests => c \in listens)
  BY <1>2 DEF PoolType
<1>6. /\ outcome \in [Calls -> Outcome]
      /\ \A d \in Calls : outcome[d] = IF d = c /\ p.outcome[c] = "new" THEN "sent" ELSE p.outcome[d]
  BY DEF PoolType, Outcome
<1>7. active = p.active + 1 OBVIOUS
<1> HIDE DEF running, tasks, active, carrier, listens, outcome
<1>8. q \in PoolType BY <1>3, <1>4, <1>5, <1>6 DEF PoolType
<1>9. /\ q.running = running /\ q.tasks = tasks /\ q.active = active /\ q.carrier = carrier
      /\ q.listens = listens /\ q.outcome = outcome
      /\ SameGiven(p, q) /\ SameQueue(p, q) /\ SameRest(p, q)
      /\ q.minSize = p.minSize /\ q.maxSize = p.maxSize /\ q.limit = p.limit
      /\ q.ready = p.ready /\ q.elapsed = p.elapsed
      /\ q.workers = p.workers /\ q.pending = p.pending
  BY DEF SameGiven, SameQueue, SameRest, PoolType
<1> HIDE DEF q
<1>10. Hands(p, q, c, w, listen) BY <1>3, <1>4, <1>5, <1>6, <1>7, <1>8, <1>9 DEF Hands
<1> QED BY <1>1, <1>10

\* A worker may be given one more task.
HasRoom(p, w) ==
  p.tasks[w] < p.options.maxTasks \/ "broadcast" \in p.uses \/ ~p.options.taskQueue

(* A call that nobody had is carried by the worker it is given to.         *)
LEMMA HandedKeeps ==
  ASSUME NEW p, NEW q, Inv(p), NEW c \in Calls, NEW w \in Live(p), NEW listen,
         Loose(p, c), HasRoom(p, w), Hands(p, q, c, w, listen)
  PROVE  /\ Inv(q) /\ Follows(p, q, {c}, {c})
         /\ q.outcome[c] = "open" => p.outcome[c] = "open"
         /\ (listen \/ ~Hears(p, c) \/ c \in p.listens) => Cared(q, c)
<1> USE DEF Hands
<1>0. p \in PoolType /\ Live(p) \subseteq Ids /\ p.options.keyOf \in [Calls -> Keys]
  BY CrewIsFinite DEF Inv, Sound, PoolType, OptionsType
<1>1. q.options = p.options /\ Live(q) = Live(p) /\ q.queue = p.queue
  BY DEF SameGiven, SameQueue, Live
<1>2. \A v \in Live(p) : /\ q.tasks[v] = IF v = w THEN p.tasks[v] + 1 ELSE p.tasks[v]
                         /\ q.running[v] = IF v = w THEN p.running[v] \cup {c} ELSE p.running[v]
  BY <1>0
<1>3. \A d \in Calls : q.outcome[d] = "open" <=> p.outcome[d] = "open"
  OBVIOUS
<1>4. \A d \in Calls : p.outcome[d] \in Settled => q.outcome[d] = p.outcome[d]
  BY DEF Settled
<1>5. Sound(q) BY DEF Inv, Sound
<1>6. Booked(q) BY <1>1, <1>3 DEF Inv, Booked
<1>7. \A d \in Calls \ {c} : Loose(p, d) => Loose(q, d) BY <1>1, <1>2 DEF Loose
<1>8. Placed(q)
  <2>1. \A d \in In(q.queue), v \in Live(q) : d \notin q.running[v]
    <3> SUFFICES ASSUME NEW d \in In(p.queue), NEW v \in Live(p) PROVE d \notin q.running[v]
      BY <1>1
    <3>1. d \notin p.running[v] /\ d # c BY DEF Inv, Placed, Loose
    <3> QED BY <1>2, <3>1, ZenonT(60)
  <2>2. \A d \in Calls : q.outcome[d] = "new" => d # c /\ Loose(q, d)
    BY <1>7 DEF Inv, Placed
  <2> QED BY <1>1, <2>1, <2>2 DEF Inv, Placed
<1>9. Crewed(q)
  <2> SUFFICES ASSUME "chatter" \notin p.uses
               PROVE  /\ \A v \in Live(q) : q.tasks[v] = Cardinality(q.running[v])
                      /\ q.active = Cardinality(InFlight(q))
    BY DEF Crewed, SameGiven
  <2>1. /\ \A v \in Live(p) : p.tasks[v] = Cardinality(p.running[v])
        /\ p.active = Cardinality(InFlight(p))
    BY DEF Inv, Crewed
  <2>2. c \notin p.running[w] /\ IsFiniteSet(p.running[w]) BY <1>0, CrewIsFinite DEF Loose
  <2>3. Cardinality(p.running[w] \cup {c}) = Cardinality(p.running[w]) + 1
    BY <2>2, FS_AddElement
  <2>4. InFlight(q) = InFlight(p) \cup {<< w, c >>}
    <3>1. ASSUME NEW v \in Live(p), NEW d \in Calls
          PROVE  d \in q.running[v] <=> d \in p.running[v] \/ << v, d >> = << w, c >>
      <4>1. v \in Ids BY <1>0, CrewIsFinite
      <4>2. q.running[v] = IF v = w THEN p.running[v] \cup {c} ELSE p.running[v] BY <1>2, <4>1
      <4> QED BY <4>2
    <3>2. \A v \in Live(p), d \in Calls :
            << v, d >> \in InFlight(q) <=> << v, d >> \in InFlight(p) \cup {<< w, c >>}
      BY <1>1, <3>1 DEF InFlight
    <3>3. << w, c >> \in Live(p) \X Calls /\ InFlight(p) \subseteq Live(p) \X Calls
          /\ InFlight(q) \subseteq Live(p) \X Calls
      BY <1>1 DEF InFlight
    <3>4. ASSUME NEW vd \in Live(p) \X Calls
          PROVE  vd \in InFlight(q) <=> vd \in InFlight(p) \cup {<< w, c >>}
      <4>1. PICK v \in Live(p), d \in Calls : vd = << v, d >> OBVIOUS
      <4> QED BY <3>2, <4>1
    <3> QED BY <3>3, <3>4
  <2>5. << w, c >> \notin InFlight(p) BY <2>2 DEF InFlight
  <2>6. Cardinality(InFlight(p) \cup {<< w, c >>}) = Cardinality(InFlight(p)) + 1
    BY <1>0, <2>5, CrewIsFinite, FS_AddElement
  <2> QED BY <1>1, <1>2, <2>1, <2>3, <2>4, <2>6
<1>10. Within(q)
  <2>1. "broadcast" \notin p.uses /\ p.options.taskQueue =>
          \A v \in Live(q) : q.tasks[v] <= q.options.maxTasks
    <3> SUFFICES ASSUME "broadcast" \notin p.uses, p.options.taskQueue, NEW v \in Live(p)
                 PROVE  q.tasks[v] <= p.options.maxTasks
      BY <1>1
    <3>1. p.tasks[v] \in Nat /\ p.options.maxTasks \in Nat /\ p.tasks[v] <= p.options.maxTasks
      BY <1>0 DEF Inv, Within, PoolType, OptionsType
    <3>2. v = w => p.tasks[v] < p.options.maxTasks BY DEF HasRoom
    <3>3. q.tasks[v] = IF v = w THEN p.tasks[v] + 1 ELSE p.tasks[v] BY <1>2
    <3> DEFINE a == p.tasks[v]
               b == q.tasks[v]
               m == p.options.maxTasks
    <3>4. a \in Nat /\ m \in Nat /\ a <= m /\ (v = w => a < m) /\ b = IF v = w THEN a + 1 ELSE a
      BY <3>1, <3>2, <3>3
    <3> HIDE DEF a, b, m
    <3>5. b <= m BY <3>4
    <3> QED BY <3>5 DEF b, m
  <2> QED BY <1>1, <2>1 DEF Inv, Within, SameGiven
<1>11. Restful(q) BY DEF Inv, Restful, Waiting, SameRest
<1>12. \A d \in Calls \ {c} : Cared(p, d) => Cared(q, d)
  <2> SUFFICES ASSUME NEW d \in Calls \ {c}, Cared(p, d), q.outcome[d] = "open"
               PROVE  (Hears(q, d) => d \in q.listens) /\ (Sure(q) => Carried(q, d))
    BY DEF Cared
  <2>1. p.outcome[d] = "open" BY <1>3
  <2>2. Hears(q, d) => d \in q.listens BY <1>1, <2>1 DEF Cared, Hears
  <2>3. ASSUME Sure(q) PROVE Carried(q, d)
    <3>1. p.options.keyOf[d] \in Keys /\ p.options.keyOf[d] # p.options.keyOf[c]
      BY <1>0, <1>1, <2>3 DEF Sure, OwnKeys
    <3>2. q.carrier[p.options.keyOf[d]] = p.carrier[p.options.keyOf[d]] BY <3>1
    <3>3. Carried(p, d) BY <1>1, <2>1, <2>3 DEF Cared, Sure
    <3> QED BY <1>1, <1>2, <3>2, <3>3 DEF Carried
  <2> QED BY <2>2, <2>3
<1>13. ASSUME listen \/ ~Hears(p, c) \/ c \in p.listens, q.outcome[c] = "open"
       PROVE  (Hears(q, c) => c \in q.listens) /\ (Sure(q) => Carried(q, c))
  <2>1. p.outcome[c] = "open" BY <1>3, <1>13
  <2>2. p.pending[p.options.keyOf[c]] = c /\ p.options.keyOf[c] \in Keys
    BY <1>0, <2>1 DEF Inv, Booked
  <2>3. c \in p.options.requests /\ c # NoCall BY <2>2, PoolConstants DEF Inv, Booked
  <2>4. q.carrier[p.options.keyOf[c]] = w BY <2>2, <2>3
  <2>5. Carried(q, c) BY <1>1, <1>2, <2>4 DEF Carried
  <2> QED BY <1>1, <1>13, <2>3, <2>5 DEF Hears
<1>14. Follows(p, q, {c}, {c}) BY <1>3, <1>4, <1>7, <1>12 DEF Follows, SameGiven
<1> QED BY <1>3, <1>5, <1>6, <1>8, <1>9, <1>10, <1>11, <1>13, <1>14 DEF Inv, Cared

(* One element more, at position i.                                        *)
LEMMA InsertedAt ==
  ASSUME NEW S, NEW s \in Seq(S), NEW i \in 1..(Len(s) + 1), NEW e \in S
  PROVE  LET t == InsertAt(s, i, e)
         IN  /\ t \in Seq(S) /\ Len(t) = Len(s) + 1 /\ In(t) = In(s) \cup {e}
             /\ Distinct(s) /\ e \notin In(s) => Distinct(t)
<1> DEFINE n == Len(s)
           a == SubSeq(s, 1, i - 1)
           b == SubSeq(s, i, n)
           t == InsertAt(s, i, e)
<1>0. n \in Nat /\ i \in Nat /\ i >= 1 /\ i <= n + 1 OBVIOUS
<1>1. a \in Seq(S) /\ Len(a) = i - 1 /\ \A j \in 1..(i - 1) : a[j] = s[j]
  <2>1. \A j \in 1..(i - 1) : s[j] \in S /\ 1 + j - 1 = j BY <1>0
  <2>2. (i - 1) - 1 + 1 = i - 1 /\ (1 <= i - 1 \/ i - 1 = 0) /\ i - 1 \in Int BY <1>0
  <2> QED BY <2>1, <2>2, SubSeqProperties
<1>2. b \in Seq(S) /\ Len(b) = n + 1 - i /\ \A j \in 1..(n + 1 - i) : b[j] = s[i + j - 1]
  <2>1. \A j \in i..n : s[j] \in S BY <1>0
  <2>2. n - i + 1 = n + 1 - i /\ (i <= n \/ n + 1 - i = 0) BY <1>0
  <2> QED BY <1>0, <2>1, <2>2, SubSeqProperties
<1>3. t = (a \o << e >>) \o b BY DEF InsertAt
<1> HIDE DEF a, b, t
<1> DEFINE u == a \o << e >>
<1>4. u \in Seq(S) /\ Len(u) = i /\ u[i] = e /\ \A j \in 1..(i - 1) : u[j] = s[j]
  <2>1. u = Append(a, e) BY <1>1
  <2> HIDE DEF u
  <2> QED BY <1>0, <1>1, <2>1
<1>5. t = u \o b BY <1>3
<1> HIDE DEF u
<1>6. t \in Seq(S) /\ Len(t) = n + 1
  <2>1. b \in Seq(S) /\ Len(b) = n + 1 - i BY <1>2
  <2>2. t \in Seq(S) /\ Len(t) = Len(u) + Len(b) BY <1>4, <1>5, <2>1, ConcatProperties
  <2> QED BY <1>0, <1>4, <2>1, <2>2
<1>7. \A j \in 1..(n + 1) : t[j] = IF j <= i THEN u[j] ELSE b[j - i]
  BY <1>0, <1>2, <1>4, <1>5
<1>8. \A j \in 1..(n + 1) : t[j] = IF j < i THEN s[j] ELSE IF j = i THEN e ELSE s[j - 1]
  <2> SUFFICES ASSUME NEW j \in 1..(n + 1)
               PROVE  t[j] = IF j < i THEN s[j] ELSE IF j = i THEN e ELSE s[j - 1]
    OBVIOUS
  <2>1. CASE j <= i BY <1>0, <1>4, <1>7, <2>1
  <2>2. CASE ~(j <= i)
    <3>1. j - i \in 1..(n + 1 - i) /\ i + (j - i) - 1 = j - 1 BY <1>0, <2>2
    <3> QED BY <1>0, <1>2, <1>7, <2>2, <3>1
  <2> QED BY <2>1, <2>2
<1>9. In(t) = In(s) \cup {e}
  <2>1. ASSUME NEW j \in 1..(n + 1) PROVE t[j] \in In(s) \cup {e}
    <3>1. CASE j < i BY <1>0, <1>8, <3>1 DEF In
    <3>2. CASE j = i BY <1>0, <1>8, <3>2
    <3>3. CASE j > i
      <4>1. j - 1 \in 1..n BY <1>0, <3>3
      <4> QED BY <1>0, <1>8, <3>3, <4>1 DEF In
    <3> QED BY <1>0, <3>1, <3>2, <3>3
  <2>2. ASSUME NEW j \in 1..n PROVE s[j] \in In(t)
    <3>1. CASE j < i
      <4>1. j \in 1..(n + 1) /\ t[j] = s[j] BY <1>0, <1>8, <3>1
      <4> QED BY <1>6, <4>1 DEF In
    <3>2. CASE ~(j < i)
      <4>1. j + 1 \in 1..(n + 1) /\ ~(j + 1 < i) /\ j + 1 # i /\ (j + 1) - 1 = j BY <1>0, <3>2
      <4>2. t[j + 1] = s[j] BY <1>8, <4>1
      <4> QED BY <1>6, <4>1, <4>2 DEF In
    <3> QED BY <3>1, <3>2
  <2>3. e \in In(t)
    <3>1. i \in 1..(n + 1) /\ t[i] = e BY <1>0, <1>8
    <3> QED BY <1>6, <3>1 DEF In
  <2> QED BY <1>6, <2>1, <2>2, <2>3 DEF In
<1>10. ASSUME Distinct(s), e \notin In(s) PROVE Distinct(t)
  <2> SUFFICES ASSUME NEW j \in 1..(n + 1), NEW k \in 1..(n + 1), j < k PROVE t[j] # t[k]
    BY <1>0, <1>6 DEF Distinct
  <2>1. \A m \in 1..n : s[m] # e BY <1>10 DEF In
  <2>2. CASE k < i
    <3>1. j \in 1..n /\ k \in 1..n /\ t[j] = s[j] /\ t[k] = s[k] BY <1>0, <1>8, <2>2
    <3> QED BY <1>10, <3>1 DEF Distinct
  <2>3. CASE k = i
    <3>1. j \in 1..n /\ t[j] = s[j] /\ t[k] = e BY <1>0, <1>8, <2>3
    <3> QED BY <2>1, <3>1
  <2>4. CASE k > i /\ j < i
    <3>1. j \in 1..n /\ k - 1 \in 1..n /\ k - 1 # j /\ t[j] = s[j] /\ t[k] = s[k - 1] BY <1>0, <1>8, <2>4
    <3> QED BY <1>10, <3>1 DEF Distinct
  <2>5. CASE k > i /\ j = i
    <3>1. k - 1 \in 1..n /\ t[j] = e /\ t[k] = s[k - 1] BY <1>0, <1>8, <2>5
    <3> QED BY <2>1, <3>1
  <2>6. CASE j > i
    <3>1. j - 1 \in 1..n /\ k - 1 \in 1..n /\ k - 1 # j - 1 /\ t[j] = s[j - 1] /\ t[k] = s[k - 1]
      BY <1>0, <1>8, <2>6
    <3> QED BY <1>10, <3>1 DEF Distinct
  <2> QED BY <1>0, <2>2, <2>3, <2>4, <2>5, <2>6
<1> QED BY <1>6, <1>9, <1>10 DEF t

(* push() places a call once and moves no other.                           *)
LEMMA EnqueuePlaces ==
  ASSUME NEW p, p.queue \in Seq(Calls), NEW c \in Calls
  PROVE  LET t == Enqueue(p, c)
         IN  /\ t \in Seq(Calls) /\ Len(t) = Len(p.queue) + 1 /\ In(t) = In(p.queue) \cup {c}
             /\ Distinct(p.queue) /\ c \notin In(p.queue) => Distinct(t)
<1> DEFINE ahead == {i \in 1..Len(p.queue) :
                       p.options.aging \/ p.options.prio[p.queue[i]] >= p.options.prio[c]}
           i == 1 + Cardinality(ahead)
<1>1. PICK s \in Seq(Calls) : s = p.queue OBVIOUS
<1>2. PICK n \in Nat : n = Len(s) OBVIOUS
<1>3. IsFiniteSet(1..n) /\ Cardinality(1..n) = n BY FS_Interval
<1>4. ahead \subseteq 1..n BY <1>1, <1>2
<1>5. Enqueue(p, c) = InsertAt(s, i, c) BY <1>1 DEF Enqueue
<1> HIDE DEF ahead
<1>6. Cardinality(ahead) \in Nat /\ Cardinality(ahead) <= n
  BY <1>3, <1>4, FS_Subset, FS_CardinalityType
<1>7. i \in 1..(Len(s) + 1) BY <1>2, <1>6
<1> HIDE DEF i
<1>8. LET t == InsertAt(s, i, c)
      IN  /\ t \in Seq(Calls) /\ Len(t) = Len(s) + 1 /\ In(t) = In(s) \cup {c}
          /\ Distinct(s) /\ c \notin In(s) => Distinct(t)
  BY <1>7, InsertedAt
<1> QED BY <1>1, <1>5, <1>8

\* How the pool changes when call c joins the queue.
Waits(p, q, c) ==
  /\ q \in PoolType
  /\ SameGiven(p, q) /\ SameCrew(p, q) /\ SameRest(p, q)
  /\ q.pending = p.pending /\ q.carrier = p.carrier
  /\ q.minSize = p.minSize /\ q.maxSize = p.maxSize
  /\ q.queue = Enqueue(p, c)
  /\ \A d \in Calls : q.outcome[d] = IF d = c /\ p.outcome[c] = "new" THEN "sent" ELSE p.outcome[d]
  /\ p.listens \subseteq q.listens /\ (c \in p.options.requests => c \in q.listens)

(* A call that nobody had waits in the queue, where there is room.         *)
LEMMA WaitingKeeps ==
  ASSUME NEW p, NEW q, Inv(p), NEW c \in Calls, Loose(p, c), Len(p.queue) < p.options.maxQueue,
         Waits(p, q, c)
  PROVE  /\ Inv(q) /\ Follows(p, q, {c}, {c}) /\ Cared(q, c) /\ In(q.queue) = In(p.queue) \cup {c}
         /\ q.outcome[c] = "open" => p.outcome[c] = "open"
<1> USE DEF Waits
<1>0. p \in PoolType /\ p.queue \in Seq(Calls) /\ p.options.keyOf \in [Calls -> Keys]
  BY DEF Inv, Sound, PoolType, OptionsType
<1>1. q.options = p.options /\ Live(q) = Live(p) /\ q.running = p.running
  BY DEF SameGiven, SameCrew, Live
<1>2. /\ Len(q.queue) = Len(p.queue) + 1 /\ In(q.queue) = In(p.queue) \cup {c}
      /\ Distinct(q.queue)
  BY <1>0, EnqueuePlaces DEF Inv, Placed, Loose
<1>3. \A d \in Calls : q.outcome[d] = "open" <=> p.outcome[d] = "open"
  OBVIOUS
<1>4. \A d \in Calls : p.outcome[d] \in Settled => q.outcome[d] = p.outcome[d]
  BY DEF Settled
<1>5. Sound(q) BY DEF Inv, Sound, SameCrew
<1>6. Booked(q) BY <1>1, <1>3 DEF Inv, Booked
<1>7. \A d \in Calls \ {c} : Loose(p, d) => Loose(q, d) BY <1>1, <1>2 DEF Loose
<1>8. Placed(q)
  <2>1. \A d \in In(q.queue), v \in Live(q) : d \notin q.running[v]
    BY <1>1, <1>2 DEF Inv, Placed, Loose
  <2>2. \A d \in Calls : q.outcome[d] = "new" => d # c /\ Loose(q, d)
    BY <1>7 DEF Inv, Placed
  <2> QED BY <1>2, <2>1, <2>2 DEF Placed
<1>9. Crewed(q)
  <2>1. InFlight(q) = InFlight(p) BY <1>1 DEF InFlight
  <2> QED BY <1>1, <2>1 DEF Inv, Crewed, SameCrew, SameGiven
<1>10. Within(q)
  <2>1. Len(q.queue) <= q.options.maxQueue
    <3>1. Len(p.queue) \in Nat /\ p.options.maxQueue \in Nat
      BY Bounded
    <3> DEFINE a == Len(p.queue)
               b == Len(q.queue)
               m == p.options.maxQueue
    <3>2. a \in Nat /\ m \in Nat /\ a < m /\ b = a + 1 BY <1>2, <3>1
    <3> HIDE DEF a, b, m
    <3>3. b <= m BY <3>2
    <3> QED BY <1>1, <3>3 DEF b, m
  <2> QED BY <1>1, <2>1 DEF Inv, Within, SameCrew, SameGiven
<1>11. Restful(q) BY DEF Inv, Restful, Waiting, SameRest
<1>12. \A d \in Calls \ {c} : Cared(p, d) => Cared(q, d)
  BY <1>1, <1>2, <1>3 DEF Cared, Hears, Sure, Carried
<1>13. Cared(q, c)
  <2> SUFFICES ASSUME q.outcome[c] = "open"
               PROVE  (Hears(q, c) => c \in q.listens) /\ (Sure(q) => Carried(q, c))
    BY DEF Cared
  <2>1. p.pending[p.options.keyOf[c]] = c /\ p.options.keyOf[c] \in Keys
    BY <1>0, <1>3 DEF Inv, Booked
  <2>2. c \in p.options.requests BY <2>1, PoolConstants DEF Inv, Booked
  <2> QED BY <1>2, <2>2 DEF Carried
<1>14. Follows(p, q, {c}, {c}) BY <1>3, <1>4, <1>7, <1>12 DEF Follows, SameGiven
<1> QED BY <1>2, <1>3, <1>5, <1>6, <1>8, <1>9, <1>10, <1>11, <1>13, <1>14 DEF Inv

(* A step that posts c, as the callers see it: if its promise is open it   *)
(* was so before, when the pool and the caller were still there.           *)
LEMMA PostGoes ==
  ASSUME NEW p, NEW q, Inv(q), NEW c \in Calls, Follows(p, q, {c}, {c}), SameRest(p, q), Cared(q, c),
         q.outcome[c] = "open" => ~p.terminated /\ c \notin p.aborted
  PROVE  Goes(p, q, {c})
<1>1. Honest(p, q, {c}) BY RestIsHonest
<1>2. Wanted(q, c) BY DEF Wanted, Follows
<1> QED BY <1>1, <1>2 DEF Goes

\* A call that is about to be routed, by a pool and for a caller that are still there if its
\* promise is open.
Routable(p, c) ==
  /\ Inv(p) /\ Loose(p, c)
  /\ c \in p.options.requests \/ p.outcome[c] \in {"new", "sent"}
  /\ p.outcome[c] = "open" => ~p.terminated /\ c \notin p.aborted

(* The call is turned down.                                                *)
LEMMA RefusedGoes ==
  ASSUME NEW p, Inv(p), NEW c \in Calls, c \in p.options.requests \/ p.outcome[c] \in {"new", "sent"}
  PROVE  Goes(p, Refuse(p, c), {c}) /\ (Announced(p) => Announced(Refuse(p, c)))
<1> DEFINE q == Refuse(p, c)
<1>1. /\ Inv(q) /\ Follows(p, q, {c}, {}) /\ q.outcome[c] # "open"
      /\ SameCrew(p, q) /\ SameQueue(p, q) /\ SameRest(p, q)
  BY RefusedKeeps
<1> HIDE DEF q
<1>2. Follows(p, q, {c}, {c}) BY <1>1, FollowsLess
<1>3. Cared(q, c) BY <1>1 DEF Cared
<1>4. Goes(p, q, {c}) BY <1>1, <1>2, <1>3, PostGoes
<1>5. Announced(p) => Announced(q)
  BY <1>1 DEF Announced, Prompt, Dead, Follows, Quiet, Waiting, SameCrew, SameQueue, SameRest
<1> QED BY <1>4, <1>5 DEF q

(* _postToWorkerObj() gives the call to a worker with room, or refuses it. *)
LEMMA PostedToGoes ==
  ASSUME NEW p, NEW c \in Calls, Routable(p, c), NEW w \in Live(p), HasRoom(p, w), NEW listen \in BOOLEAN,
         listen \/ ~p.options.taskQueue,
         NEW r \in PostToResults(p, c, w, listen)
  PROVE  Goes(p, r, {c}) /\ (Announced(p) => Announced(r))
<1> DEFINE l == listen /\ c \notin p.options.zeroCopy
           q == Dispatch(p, c, w, l)
<1>1. r = UpdateIdleState(q) \/ r = Refuse(p, c)
  BY DEF PostToResults
<1>2. CASE r = Refuse(p, c)
  BY <1>2, RefusedGoes DEF Routable
<1>3. CASE r = UpdateIdleState(q)
  <2>1. p \in PoolType /\ w \in Ids BY CrewIsFinite DEF Routable, Inv, Sound
  <2>2. Hands(p, q, c, w, l) BY <2>1, DispatchHands
  <2>3. l \/ ~Hears(p, c) BY DEF Hears
  <2> HIDE DEF q, l
  <2>4. Inv(q) /\ Follows(p, q, {c}, {c}) /\ Cared(q, c) /\ (q.outcome[c] = "open" => p.outcome[c] = "open")
    BY <2>2, <2>3, HandedKeeps DEF Routable
  <2>5. SameRest(p, q) BY <2>2 DEF Hands
  <2>6. Goes(p, q, {c}) BY <2>4, <2>5, PostGoes DEF Routable
  <2> QED BY <1>3, <2>6, GoesThenIdle
<1> QED BY <1>1, <1>2, <1>3

(* Without its first element.                                              *)
LEMMA TailIsRest ==
  ASSUME NEW S, NEW s \in Seq(S), s # << >>
  PROVE  Tail(s) = SubSeq(s, 1 + 1, Len(s)) /\ 1 \in 0..Len(s) /\ Len(Tail(s)) = Len(s) - 1
<1>1. Len(s) \in Nat /\ Len(s) # 0 OBVIOUS
<1> DEFINE t == SubSeq(s, 1 + 1, Len(s))
<1>2. t \in Seq(S) /\ Len(t) = Len(s) - 1 /\ \A i \in 1..(Len(s) - 1) : t[i] = s[i + 1]
  <2>1. \A j \in (1 + 1)..Len(s) : s[j] \in S BY <1>1
  <2>4. PICK n \in Nat : n = Len(s) /\ n # 0 BY <1>1
  <2>5. n - (1 + 1) + 1 = n - 1 /\ (1 + 1 <= n \/ n - 1 = 0) BY <2>4
  <2>2. Len(s) - (1 + 1) + 1 = Len(s) - 1 /\ (1 + 1 <= Len(s) \/ Len(s) - 1 = 0) BY <2>4, <2>5
  <2>3. \A i \in 1..(Len(s) - 1) : (1 + 1) + i - 1 = i + 1 BY <1>1
  <2> QED BY <1>1, <2>1, <2>2, <2>3, SubSeqProperties
<1>3. Tail(s) \in Seq(S) /\ Len(Tail(s)) = Len(s) - 1 /\ \A i \in 1..(Len(s) - 1) : Tail(s)[i] = s[i + 1]
  BY <1>1
<1> HIDE DEF t
<1>4. Tail(s) = t BY <1>1, <1>2, <1>3, SeqEqual
<1> QED BY <1>1, <1>3, <1>4 DEF t

(* The oldest item is evicted.                                             *)
LEMMA OldestDiscarded ==
  ASSUME NEW p, Inv(p), p.queue # << >>
  PROVE  LET q == [Settle(p, QueuedKeys(p, 1), "rejected") EXCEPT !.queue = Tail(p.queue)]
         IN  /\ Discards(p, q, {p.queue[1]}, {}) /\ q.queue = Tail(p.queue)
             /\ Len(q.queue) < p.options.maxQueue /\ Len(q.queue) = Len(p.queue) - 1
<1> DEFINE t == SubSeq(p.queue, 1 + 1, Len(p.queue))
           q == [Settle(p, QueuedKeys(p, 1), "rejected") EXCEPT !.queue = Tail(p.queue)]
           r == [Settle(p, QueuedKeys(p, 1), "rejected") EXCEPT !.queue = t]
<1>0. p.queue \in Seq(Calls) /\ p.options.maxQueue \in Nat /\ Len(p.queue) <= p.options.maxQueue
  BY DEF Inv, Sound, PoolType, OptionsType, Within
<1>1. Tail(p.queue) = t /\ 1 \in 0..Len(p.queue) /\ Len(Tail(p.queue)) = Len(p.queue) - 1
  <2>1. PICK s \in Seq(Calls) : s = p.queue BY <1>0
  <2>2. s # << >> BY <2>1
  <2>3. Tail(s) = SubSeq(s, 1 + 1, Len(s)) /\ 1 \in 0..Len(s) /\ Len(Tail(s)) = Len(s) - 1
    BY <2>2, TailIsRest
  <2> QED BY <2>1, <2>3
<1>2. Discards(p, r, {p.queue[i] : i \in 1..1}, {}) /\ r.queue = t BY <1>1, FrontDiscarded
<1>3. {p.queue[i] : i \in 1..1} = {p.queue[1]} OBVIOUS
<1>4. q = r BY <1>1
<1>5. Len(Tail(p.queue)) < p.options.maxQueue
  <2>1. PICK a \in Nat : a = Len(p.queue) BY <1>0
  <2>2. PICK m \in Nat : m = p.options.maxQueue BY <1>0
  <2>3. a - 1 < m BY <1>0, <2>1, <2>2
  <2> QED BY <1>1, <2>1, <2>2, <2>3
<1> HIDE DEF q, r, t
<1>6. Discards(p, q, {p.queue[1]}, {}) /\ q.queue = Tail(p.queue) BY <1>1, <1>2, <1>3, <1>4
<1> QED BY <1>1, <1>5, <1>6 DEF q

(* _enqueueOrReject()                                                      *)
LEMMA EnqueueOrRejectGoes ==
  ASSUME NEW p, NEW c \in Calls, Routable(p, c)
  PROVE  Goes(p, EnqueueOrReject(p, c), {c}) /\ (Announced(p) => Announced(EnqueueOrReject(p, c)))
<1> DEFINE evicts == p.options.policy = "drop-oldest" /\ p.queue # << >>
           turned == \/ p.options.policy = "reject"
                     \/ p.options.policy = "drop-newest" /\ p.queue # << >>
                     \/ ~evicts /\ QueueFull(p)
           room   == IF evicts
                     THEN [Settle(p, QueuedKeys(p, 1), "rejected") EXCEPT !.queue = Tail(p.queue)]
                     ELSE p
           queue  == Enqueue(room, c)
           listens == room.listens \cup ({c} \cap p.options.requests)
           outcome == [room.outcome EXCEPT ![c] = IF room.outcome[c] = "new" THEN "sent" ELSE room.outcome[c]]
           q == [room EXCEPT !.queue = queue, !.listens = listens, !.outcome = outcome]
<1>1. CASE turned
  BY <1>1, RefusedGoes DEF EnqueueOrReject, Routable
<1>2. CASE ~turned
  <2>1. /\ Goes(p, room, {}) /\ Len(room.queue) < room.options.maxQueue
        /\ room.outcome[c] = "open" => p.outcome[c] = "open"
    <3>1. CASE evicts
      <4> DEFINE e == [Settle(p, QueuedKeys(p, 1), "rejected") EXCEPT !.queue = Tail(p.queue)]
      <4>1. /\ Discards(p, e, {p.queue[1]}, {}) /\ Len(e.queue) < p.options.maxQueue
        BY <3>1, OldestDiscarded DEF Routable
      <4>2. room = e BY <3>1
      <4> HIDE DEF e, room
      <4>3. Goes(p, e, {}) /\ e.options = p.options BY <4>1, FollowsGoes DEF Discards, Follows
      <4> QED BY <4>1, <4>2, <4>3 DEF Discards
    <3>2. CASE ~evicts
      <4>1. room = p BY <3>2
      <4>2. ~(Len(p.queue) >= p.options.maxQueue) BY <1>2, <3>2 DEF QueueFull
      <4>3. Len(p.queue) \in Nat /\ p.options.maxQueue \in Nat
        BY DEF Routable, Inv, Sound, PoolType, OptionsType
      <4>4. Len(p.queue) < p.options.maxQueue
        <5>1. PICK a \in Nat : a = Len(p.queue) BY <4>3
        <5>2. PICK m \in Nat : m = p.options.maxQueue BY <4>3
        <5> QED BY <4>2, <5>1, <5>2
      <4>5. Follows(p, p, {}, {}) /\ SameRest(p, p) BY DEF Follows, SameRest
      <4>6. Goes(p, p, {}) BY <4>5, FollowsGoes DEF Routable
      <4> QED BY <4>1, <4>4, <4>6
    <3> QED BY <3>1, <3>2
  <2>2. EnqueueOrReject(p, c) =
          UpdateIdleState([ room EXCEPT
                 !.queue      = Enqueue(room, c),
                 !.listens    = room.listens \cup ({c} \cap p.options.requests),
                 !.outcome[c] = IF room.outcome[c] = "new" THEN "sent" ELSE room.outcome[c] ])
    BY <1>2 DEF EnqueueOrReject
  <2> HIDE DEF turned, evicts, room
  <2>3. room \in PoolType /\ Inv(room) /\ room.options = p.options /\ Loose(room, c)
    BY <2>1 DEF Goes, Inv, Sound, Follows, Routable
  <2>4. EnqueueOrReject(p, c) = UpdateIdleState(q)
    BY <2>2, <2>3 DEF PoolType
  <2>5. queue \in Seq(Calls)
    BY <2>3, EnqueuePlaces DEF PoolType
  <2>6. listens \in SUBSET Calls BY <2>3 DEF PoolType
  <2>7. /\ outcome \in [Calls -> Outcome]
        /\ \A d \in Calls : outcome[d] = IF d = c /\ room.outcome[c] = "new" THEN "sent" ELSE room.outcome[d]
    BY <2>3 DEF PoolType, Outcome
  <2>8. /\ queue = Enqueue(room, c) /\ room.listens \subseteq listens
        /\ c \in room.options.requests => c \in listens
    BY <2>3
  <2> HIDE DEF queue, listens, outcome
  <2>9. q \in PoolType BY <2>3, <2>5, <2>6, <2>7 DEF PoolType
  <2>10. Waits(room, q, c)
    BY <2>3, <2>7, <2>8, <2>9 DEF Waits, SameGiven, SameCrew, SameRest, PoolType
  <2> HIDE DEF q
  <2>11. /\ Inv(q) /\ Follows(room, q, {c}, {c}) /\ Cared(q, c)
         /\ q.outcome[c] = "open" => room.outcome[c] = "open"
    BY <2>1, <2>3, <2>10, WaitingKeeps
  <2>12. q.outcome[c] = "open" => ~room.terminated /\ c \notin room.aborted
    BY <2>1, <2>11 DEF Routable, Goes, Follows
  <2>13. SameRest(room, q) BY <2>10 DEF Waits
  <2>14. Goes(room, q, {c}) BY <2>11, <2>12, <2>13, PostGoes
  <2>15. {} \cup {c} = {c} OBVIOUS
  <2>16. Goes(p, q, {c}) BY <2>1, <2>14, <2>15, GoesOn
  <2> QED BY <2>4, <2>16, GoesThenIdle
<1> QED BY <1>1, <1>2

(* Nothing happens.                                                        *)
LEMMA StaysGoes ==
  ASSUME NEW p, Inv(p)
  PROVE  Goes(p, p, {})
<1>1. Follows(p, p, {}, {}) /\ SameRest(p, p) BY DEF Follows, SameRest
<1> QED BY <1>1, FollowsGoes

(* A step without a post, and then a post.                                 *)
LEMMA GoesThenPost ==
  ASSUME NEW p, NEW q, NEW r, NEW C, Goes(p, q, {}), Goes(q, r, C)
  PROVE  Goes(p, r, C)
<1>1. {} \cup C = C OBVIOUS
<1> QED BY <1>1, GoesOn

(* One more worker, with nothing to do.                                    *)
LEMMA GrownGoes ==
  ASSUME NEW p, Inv(p), Len(p.workers) < MaxAlive
  PROVE  LET w == Min(Ids \ Live(p))
             q == AddWorkerInstance(p)
         IN  /\ Goes(p, q, {}) /\ (Announced(p) => Announced(q))
             /\ w \in Live(q) /\ HasRoom(q, w)
             /\ \A c \in Calls : q.outcome[c] = p.outcome[c]
             /\ q.active = p.active /\ SameRest(p, q) /\ SameQueue(p, q)
             /\ q.minSize = p.minSize /\ q.maxSize = p.maxSize
<1> DEFINE w == Min(Ids \ Live(p))
           q == AddWorkerInstance(p)
<1>0. p \in PoolType BY DEF Inv, Sound
<1>1. w \in Ids \ Live(p) /\ Joins(p, q, w) BY <1>0, IdToSpare, NewWorkerJoins
<1> HIDE DEF w, q
<1>2. Inv(q) /\ Follows(p, q, {}, {}) /\ Live(q) = Live(p) \cup {w} /\ q.tasks[w] = 0
  BY <1>1, JoinedKeeps
<1>3. /\ SameRest(p, q) /\ SameQueue(p, q) /\ q.active = p.active /\ q.outcome = p.outcome
      /\ q.minSize = p.minSize /\ q.maxSize = p.maxSize
  BY <1>1 DEF Joins, SameBooks
<1>4. Goes(p, q, {}) BY <1>2, <1>3, FollowsGoes
<1>5. Announced(p) => Announced(q)
  BY <1>2, <1>3 DEF Announced, Prompt, Dead, Follows, Quiet, Waiting, SameQueue, SameRest
<1>6. HasRoom(q, w)
  <2>1. q.options.maxTasks \in Nat \ {0} BY <1>2 DEF Inv, Sound, PoolType, OptionsType
  <2> QED BY <1>2, <2>1 DEF HasRoom
<1> QED BY <1>2, <1>3, <1>4, <1>5, <1>6 DEF w, q

(* Where _postMessageInner() may send the call.                            *)
LEMMA RoutedGoes ==
  ASSUME NEW p, NEW c \in Calls, Routable(p, c), NEW r \in RouteResults(p, c)
  PROVE  Goes(p, r, {c}) /\ (Announced(p) => Announced(r))
<1> DEFINE least == {w \in LeastLoaded(p) : p.tasks[w] < p.options.maxTasks}
           ready == ReadyWorkers(p)
           grown == AddWorkerInstance(p)
           w0 == Min(Ids \ Live(p))
           Refused == r = Refuse(p, c)
           Held == r = EnqueueOrReject(p, c)
           OnLeast == r \in UNION {PostToResults(p, c, w, TRUE) : w \in least}
           OnGrown == r \in PostToResults(grown, c, w0, TRUE) /\ Len(p.workers) < p.maxSize
           OnReady == r \in UNION {PostToResults(p, c, ready[i], FALSE) : i \in 1..Len(ready)} /\ ~p.options.taskQueue
<1>1. Refused \/ Held \/ OnLeast \/ OnGrown \/ OnReady
  BY DEF RouteResults, HeldBack
<1>2. CASE Refused BY <1>2, RefusedGoes DEF Routable
<1>3. CASE Held BY <1>3, EnqueueOrRejectGoes
<1>4. CASE OnLeast
  <2>1. PICK w \in least : r \in PostToResults(p, c, w, TRUE) BY <1>4
  <2>2. w \in Live(p) /\ HasRoom(p, w) BY DEF LeastLoaded, HasRoom
  <2> QED BY <2>1, <2>2, PostedToGoes
<1>5. CASE OnGrown
  <2>1. Len(p.workers) < MaxAlive
    <3>1. Len(p.workers) \in Nat /\ p.maxSize \in Nat /\ p.maxSize <= MaxAlive /\ Len(p.workers) < p.maxSize
      BY <1>5 DEF Routable, Inv, Sound, PoolType
    <3>2. PICK n \in Nat : n = Len(p.workers) BY <3>1
    <3>3. PICK m \in Nat : m = p.maxSize BY <3>1
    <3>4. n < MaxAlive BY <3>1, <3>2, <3>3, PoolConstants
    <3> QED BY <3>2, <3>4
  <2>2. /\ Goes(p, grown, {}) /\ (Announced(p) => Announced(grown))
        /\ w0 \in Live(grown) /\ HasRoom(grown, w0)
        /\ \A d \in Calls : grown.outcome[d] = p.outcome[d]
    BY <2>1, GrownGoes DEF Routable
  <2>3. r \in PostToResults(grown, c, w0, TRUE) BY <1>5
  <2> HIDE DEF grown, w0
  <2>4. Routable(grown, c) BY <2>2 DEF Routable, Goes, Follows
  <2>5. Goes(grown, r, {c}) /\ (Announced(grown) => Announced(r)) BY <2>2, <2>3, <2>4, PostedToGoes
  <2> QED BY <2>2, <2>5, GoesThenPost
<1>6. CASE OnReady
  <2>1. PICK i \in 1..Len(ready) : r \in PostToResults(p, c, ready[i], FALSE) BY <1>6
  <2>2. p.workers \in Seq(Ids) BY DEF Routable, Inv, Sound, PoolType
  <2>3. In(ready) \subseteq Live(p)
    <3> DEFINE X == {w \in Ids : ~p.ready[w]}
    <3>1. ready = Without(p.workers, X) BY DEF ReadyWorkers
    <3> HIDE DEF X
    <3>2. KeepsOf(Ids, p.workers, X, Len(p.workers), Without(p.workers, X)) BY <2>2, WithoutKeeps
    <3> HIDE DEF ready
    <3> QED BY <3>1, <3>2 DEF KeepsOf, Live
  <2>4. ready[i] \in Live(p) BY <2>3 DEF In
  <2>5. HasRoom(p, ready[i]) BY <1>6 DEF HasRoom
  <2> QED BY <1>6, <2>1, <2>4, <2>5, PostedToGoes
<1> QED BY <1>1, <1>2, <1>3, <1>4, <1>5, <1>6

(* A call that is registered, and then routed or refused.                  *)
LEMMA RegisteredThen ==
  ASSUME NEW p, Inv(p), NEW c \in Calls, p.outcome[c] = "new",
         NEW r, Goes(Registered(p, c), r, {c}), Announced(Registered(p, c)) => Announced(r)
  PROVE  Goes(p, r, {c}) /\ (Announced(p) => Announced(r))
<1> DEFINE q == Registered(p, c)
<1>1. /\ Inv(q) /\ Follows(p, q, {c}, {c})
      /\ SameCrew(p, q) /\ SameQueue(p, q) /\ SameRest(p, q)
  BY RegisteredKeeps
<1>2. Goes(q, r, {c}) /\ (Announced(q) => Announced(r)) OBVIOUS
<1> HIDE DEF q
<1>3. {c} \cup {c} = {c} OBVIOUS
<1>4. Follows(p, r, {c}, {c}) BY <1>1, <1>2, <1>3, FollowsOn DEF Goes
<1>5. Honest(p, q, {c}) BY <1>1, RestIsHonest
<1>6. Honest(p, r, {c}) BY <1>1, <1>2, <1>3, <1>5, HonestOn DEF Goes
<1>7. Goes(p, r, {c}) BY <1>2, <1>4, <1>6 DEF Goes
<1>8. Announced(p) => Announced(q)
  BY <1>1 DEF Announced, Prompt, Dead, Follows, Quiet, Waiting, SameCrew, SameQueue, SameRest
<1> QED BY <1>2, <1>7, <1>8

(* What is registered can be routed, if the pool and the caller are there. *)
LEMMA RegisteredIsRoutable ==
  ASSUME NEW p, Inv(p), NEW c \in Calls, p.outcome[c] = "new", ~p.terminated, c \notin p.aborted
  PROVE  LET q == Registered(p, c)
         IN  /\ Routable(q, c) /\ Live(q) = Live(p) /\ q.tasks = p.tasks
             /\ q.options = p.options /\ q.uses = p.uses
<1> DEFINE q == Registered(p, c)
<1>1. /\ Inv(q) /\ Follows(p, q, {c}, {c}) /\ Loose(q, c) /\ SameCrew(p, q)
      /\ q.outcome[c] = IF c \in p.options.requests THEN "open" ELSE "new"
  BY RegisteredKeeps
<1> HIDE DEF q
<1>2. Routable(q, c) BY <1>1 DEF Routable, Follows
<1> QED BY <1>1, <1>2 DEF q, Live, SameCrew, Follows

(* What becomes of a call that is turned away at the door.                 *)
LEMMA AcceptedGoes ==
  ASSUME NEW p, Inv(p), NEW c \in Calls, p.outcome[c] = "new", NEW routed,
         ~p.terminated /\ c \notin p.aborted =>
           \A r \in routed : Goes(p, r, {c}) /\ (Announced(p) => Announced(r)),
         NEW r \in AcceptedResults(p, c, routed)
  PROVE  Goes(p, r, {c}) /\ (Announced(p) => Announced(r))
<1> USE DEF AcceptedResults
<1>1. CASE p.terminated \/ c \in p.aborted
  <2>1. r = [p EXCEPT !.outcome[c] = "refused"] BY <1>1
  <2>2. p \in PoolType BY DEF Inv, Sound
  <2>3. Marks(p, r, {c}, "refused") BY <2>1, <2>2, SettingMarks DEF Outcome
  <2>4. Inv(r) /\ Follows(p, r, {c}, {}) BY <2>3, MarkedKeeps
  <2>5. Follows(p, r, {c}, {c}) BY <2>4, FollowsLess
  <2>6. r.outcome[c] # "open" /\ SameRest(p, r) /\ SameCrew(p, r) /\ SameQueue(p, r)
    BY <2>3 DEF Marks
  <2>7. Cared(r, c) BY <2>6 DEF Cared
  <2>8. Goes(p, r, {c}) BY <2>4, <2>5, <2>6, <2>7, PostGoes
  <2>9. Announced(p) => Announced(r)
    BY <2>4, <2>6 DEF Announced, Prompt, Dead, Follows, Quiet, Waiting, SameCrew, SameQueue, SameRest
  <2> QED BY <2>8, <2>9
<1>2. CASE ~(p.terminated \/ c \in p.aborted) /\ c \in p.elapsed
  <2>1. r = Refuse(Registered(p, c), c) BY <1>2
  <2>2. Routable(Registered(p, c), c) BY <1>2, RegisteredIsRoutable
  <2>3. Goes(Registered(p, c), r, {c}) /\ (Announced(Registered(p, c)) => Announced(r))
    BY <2>1, <2>2, RefusedGoes DEF Routable
  <2> QED BY <2>3, RegisteredThen
<1>3. CASE ~(p.terminated \/ c \in p.aborted) /\ c \notin p.elapsed
  BY <1>3
<1> QED BY <1>1, <1>2, <1>3

(* A step that touches no call, no worker and no drain.                    *)
LEMMA UntouchedGoes ==
  ASSUME NEW p, NEW q, Inv(p), SameWork(p, q), SameRest(p, q), q \in PoolType,
         q.minSize = p.minSize, q.maxSize = p.maxSize
  PROVE  Goes(p, q, {}) /\ (Announced(p) => Announced(q))
<1>1. Restful(q) BY DEF Inv, Restful, Waiting, SameRest
<1>2. Inv(q) /\ Follows(p, q, {}, {}) BY <1>1, WorkUntouched DEF Inv, Sound
<1>3. Announced(p) => Announced(q)
  BY DEF Announced, Prompt, Dead, SameGiven, Quiet, Waiting, SameWork, SameCrew, SameQueue, SameRest
<1> QED BY <1>2, <1>3, FollowsGoes

(* _readyWorkers() touches no call.                                        *)
LEMMA LookedAtGoes ==
  ASSUME NEW p, Inv(p)
  PROVE  LET q == LookedAt(p)
         IN  /\ Goes(p, q, {}) /\ (Announced(p) => Announced(q)) /\ SameWork(p, q) /\ SameRest(p, q)
             /\ q.minSize = p.minSize /\ q.maxSize = p.maxSize /\ q.elapsed = p.elapsed /\ q.limit = p.limit
<1> DEFINE ready == [w \in Ids |-> p.ready[w] \/ w \in p.overdue]
           q == [p EXCEPT !.ready = ready, !.overdue = {}]
<1>0. p \in PoolType BY DEF Inv, Sound
<1>1. LookedAt(p) = q BY DEF LookedAt
<1>2. ready \in [Ids -> BOOLEAN] OBVIOUS
<1> HIDE DEF ready
<1>3. q \in PoolType BY <1>0, <1>2 DEF PoolType
<1>4. /\ SameWork(p, q) /\ SameRest(p, q) /\ q.minSize = p.minSize /\ q.maxSize = p.maxSize
      /\ q.elapsed = p.elapsed /\ q.limit = p.limit
  BY <1>0 DEF SameWork, SameGiven, SameCrew, SameBooks, SameQueue, SameRest, PoolType
<1> HIDE DEF q
<1> QED BY <1>1, <1>3, <1>4, UntouchedGoes

(* postMessage()                                                           *)
LEMMA PostMessageGoes ==
  ASSUME NEW p, Inv(p), NEW c \in Calls, p.outcome[c] = "new", NEW r \in PostMessageResults(p, c)
  PROVE  Goes(p, r, {c}) /\ (Announced(p) => Announced(r))
<1> DEFINE q == LookedAt(p)
           routed == RouteResults(Registered(q, c), c)
<1>1. Goes(p, q, {}) /\ (Announced(p) => Announced(q)) /\ SameWork(p, q) BY LookedAtGoes
<1>2. r \in AcceptedResults(q, c, routed) BY DEF PostMessageResults
<1> HIDE DEF q
<1>3. Inv(q) /\ q.outcome[c] = "new" BY <1>1 DEF Goes, SameWork, SameBooks
<1>4. ASSUME ~q.terminated /\ c \notin q.aborted, NEW t \in routed
      PROVE  Goes(q, t, {c}) /\ (Announced(q) => Announced(t))
  <2>1. Routable(Registered(q, c), c) BY <1>3, <1>4, RegisteredIsRoutable
  <2>2. Goes(Registered(q, c), t, {c}) /\ (Announced(Registered(q, c)) => Announced(t))
    BY <2>1, <1>4, RoutedGoes
  <2> QED BY <1>3, <2>2, RegisteredThen
<1> HIDE DEF routed
<1>5. Goes(q, r, {c}) /\ (Announced(q) => Announced(r)) BY <1>2, <1>3, <1>4, AcceptedGoes
<1> QED BY <1>1, <1>5, GoesThenPost

(* postMessage() with options.workerId                                     *)
LEMMA PostToWorkerGoes ==
  ASSUME NEW p, Inv(p), NEW c \in Calls, p.outcome[c] = "new", NEW w \in Ids,
         NEW r \in PostToWorkerResults(p, c, w)
  PROVE  Goes(p, r, {c}) /\ (Announced(p) => Announced(r))
<1> DEFINE q == Registered(p, c)
           routed == IF ~UnderLimit(p) THEN {HeldBack(q, c)}
                     ELSE IF w \in Live(p) /\ p.tasks[w] < p.options.maxTasks
                     THEN PostToResults(q, c, w, TRUE)
                     ELSE {Refuse(q, c)}
<1>1. r \in AcceptedResults(p, c, routed) BY DEF PostToWorkerResults
<1>2. ASSUME ~p.terminated /\ c \notin p.aborted, NEW t \in routed
      PROVE  Goes(p, t, {c}) /\ (Announced(p) => Announced(t))
  <2>1. /\ Routable(q, c) /\ Live(q) = Live(p) /\ q.tasks = p.tasks
        /\ q.options = p.options /\ q.uses = p.uses
    BY <1>2, RegisteredIsRoutable
  <2>2. SUFFICES Goes(q, t, {c}) /\ (Announced(q) => Announced(t))
    BY RegisteredThen
  <2> HIDE DEF q
  <2>3. \/ t = EnqueueOrReject(q, c) \/ t = Refuse(q, c)
        \/ w \in Live(q) /\ HasRoom(q, w) /\ t \in PostToResults(q, c, w, TRUE)
    BY <1>2, <2>1 DEF HeldBack, HasRoom
  <2> QED BY <2>1, <2>3, EnqueueOrRejectGoes, RefusedGoes, PostedToGoes DEF Routable
<1> HIDE DEF routed
<1> QED BY <1>1, <1>2, AcceptedGoes

(***************************************************************************)
(* Batches.                                                                *)
(***************************************************************************)

\* The first n elements of a sequence.
First(s, n) == {s[i] : i \in 1..n}

\* The items of a batch: calls that have not been posted, all of them requests or none.
IsBatch(p, items) ==
  /\ items \in Seq(Calls) /\ Len(items) # 0 /\ Distinct(items)
  /\ \A i \in 1..Len(items) : p.outcome[items[i]] = "new"
  /\ \/ \A i \in 1..Len(items) : items[i] \in p.options.requests
     \/ \A i \in 1..Len(items) : items[i] \notin p.options.requests

(* One more of the items is none of those before it.                       *)
LEMMA FirstGrows ==
  ASSUME NEW s, NEW n \in 1..Len(s), Len(s) \in Nat
  PROVE  /\ First(s, n) = First(s, n - 1) \cup {s[n]}
         /\ Distinct(s) => \A j \in n..Len(s) : s[j] \notin First(s, n - 1)
<1>1. First(s, n) = First(s, n - 1) \cup {s[n]}
  BY DEF First
<1>2. ASSUME Distinct(s), NEW j \in n..Len(s) PROVE s[j] \notin First(s, n - 1)
  <2>1. \A i \in 1..(n - 1) : i \in 1..Len(s) /\ j \in 1..Len(s) /\ i # j OBVIOUS
  <2> QED BY <1>2, <2>1 DEF First, Distinct
<1> QED BY <1>1, <1>2

\* The recursive function of AwaitedBatchResults.
IsPosted(p, items, target, n, posted) ==
  posted = [i \in 0..n |->
              IF i = 0 THEN {p}
              ELSE UNION {IF target = NoWorker THEN PostMessageResults(q, items[i])
                          ELSE PostToWorkerResults(q, items[i], target) : q \in posted[i - 1]}]

(* The function exists.                                                    *)
LEMMA PostedExists ==
  ASSUME NEW p, NEW items, NEW target, NEW n \in Nat
  PROVE  \E posted : IsPosted(p, items, target, n, posted)
<1> DEFINE T == {m \in 0..n : ~\E posted : IsPosted(p, items, target, m, posted)}
<1>1. SUFFICES ASSUME T # {} PROVE FALSE
  OBVIOUS
<1>2. PICK m \in T : \A k \in T : m <= k
  <2>1. T \subseteq Nat OBVIOUS
  <2> HIDE DEF T
  <2> QED BY <1>1, <2>1, LeastExists
<1>3. m # 0
  <2>1. IsPosted(p, items, target, 0, [i \in 0..0 |-> {p}])
    BY DEF IsPosted
  <2> QED BY <1>2, <2>1
<1>4. PICK before : IsPosted(p, items, target, m - 1, before)
  BY <1>2, <1>3
<1> DEFINE new == UNION {IF target = NoWorker THEN PostMessageResults(q, items[m])
                         ELSE PostToWorkerResults(q, items[m], target) : q \in before[m - 1]}
           posted == [i \in 0..m |-> IF i = m THEN new ELSE before[i]]
<1>5. IsPosted(p, items, target, m, posted)
  <2>1. m \in Nat BY <1>2
  <2>2. ASSUME NEW i \in 0..m
        PROVE  posted[i] = IF i = 0 THEN {p}
                           ELSE UNION {IF target = NoWorker THEN PostMessageResults(q, items[i])
                                       ELSE PostToWorkerResults(q, items[i], target) : q \in posted[i - 1]}
    <3>1. CASE i = m
      <4>1. posted[i] = new /\ posted[i - 1] = before[m - 1] BY <1>3, <2>1, <3>1
      <4> HIDE DEF posted
      <4> QED BY <1>3, <3>1, <4>1
    <3>2. CASE i # m
      <4>1. i \in 0..(m - 1) /\ (i # 0 => i - 1 \in 0..(m - 1) /\ i - 1 # m)
        BY <2>1, <3>2
      <4>2. before[i] = IF i = 0 THEN {p}
                        ELSE UNION {IF target = NoWorker THEN PostMessageResults(q, items[i])
                                    ELSE PostToWorkerResults(q, items[i], target) : q \in before[i - 1]}
        BY <1>4, <4>1 DEF IsPosted
      <4>3. posted[i] = before[i] /\ (i # 0 => posted[i - 1] = before[i - 1]) BY <2>1, <3>2, <4>1
      <4> HIDE DEF posted
      <4> QED BY <4>2, <4>3
    <3> QED BY <3>1, <3>2
  <2> HIDE DEF new
  <2>3. posted = [i \in 0..m |->
                    IF i = 0 THEN {p}
                    ELSE UNION {IF target = NoWorker THEN PostMessageResults(q, items[i])
                                ELSE PostToWorkerResults(q, items[i], target) : q \in posted[i - 1]}]
    BY <2>2
  <2> HIDE DEF posted
  <2> QED BY <2>3 DEF IsPosted
<1> QED BY <1>2, <1>5

(* Items are turned down.                                                  *)
LEMMA TurnedDownKeeps ==
  ASSUME NEW p, Inv(p), NEW items \in Seq(Calls),
         \A i \in 1..Len(items) : p.outcome[items[i]] \in {"new", "sent"}
  PROVE  LET q == TurnedDown(p, items)
         IN  /\ Inv(q) /\ Follows(p, q, In(items), {}) /\ Marks(p, q, In(items), "refused")
             /\ SameCrew(p, q) /\ SameQueue(p, q) /\ SameRest(p, q)
<1> DEFINE out == [c \in Calls |-> IF Contains(items, c) THEN "refused" ELSE p.outcome[c]]
           q == [p EXCEPT !.outcome = out]
<1>0. p \in PoolType BY DEF Inv, Sound
<1>1. TurnedDown(p, items) = q BY DEF TurnedDown
<1>2. /\ out \in [Calls -> Outcome]
      /\ \A c \in Calls : out[c] = IF c \in In(items) THEN "refused" ELSE p.outcome[c]
  BY <1>0 DEF PoolType, Outcome, Contains, In
<1> HIDE DEF out
<1>3. Marks(p, q, In(items), "refused")
  BY <1>0, <1>2 DEF Marks, SameGiven, SameCrew, SameQueue, SameRest, PoolType
<1> HIDE DEF q
<1>4. Inv(q) /\ Follows(p, q, In(items), {}) BY <1>3, MarkedKeeps DEF In
<1> QED BY <1>1, <1>3, <1>4 DEF Marks

(* Posts turned down are looked after: none of them awaits a response.     *)
LEMMA TurnedDownGoes ==
  ASSUME NEW p, Inv(p), NEW items \in Seq(Calls), \A i \in 1..Len(items) : p.outcome[items[i]] = "new"
  PROVE  LET q == TurnedDown(p, items)
         IN  Goes(p, q, In(items)) /\ (Announced(p) => Announced(q))
<1> DEFINE q == TurnedDown(p, items)
           C == In(items)
<1>1. /\ Inv(q) /\ Follows(p, q, C, {}) /\ Marks(p, q, C, "refused")
      /\ SameCrew(p, q) /\ SameQueue(p, q) /\ SameRest(p, q)
  BY TurnedDownKeeps
<1> HIDE DEF q, C
<1>2. Follows(p, q, C, C) BY <1>1, FollowsLess
<1>3. \A c \in C \cap Calls : Wanted(q, c) BY <1>1 DEF Marks, Wanted, Cared
<1>4. Honest(p, q, C) BY <1>1, RestIsHonest
<1>5. Announced(p) => Announced(q)
  BY <1>1 DEF Announced, Prompt, Dead, Follows, Quiet, Waiting, SameCrew, SameQueue, SameRest
<1> QED BY <1>1, <1>2, <1>3, <1>4, <1>5 DEF Goes, q, C

(* postMessageBatch() whose items await responses                          *)
LEMMA AwaitedGoes ==
  ASSUME NEW p, Inv(p), NEW items, IsBatch(p, items), NEW target \in Ids \cup {NoWorker},
         NEW r \in AwaitedBatchResults(p, items, target)
  PROVE  Goes(p, r, In(items)) /\ (Announced(p) => Announced(r))
<1> DEFINE n == Len(items)
           posted == CHOOSE f : f =
             [i \in 0..n |->
              IF i = 0 THEN {p}
              ELSE UNION {IF target = NoWorker THEN PostMessageResults(q, items[i])
                          ELSE PostToWorkerResults(q, items[i], target) : q \in f[i - 1]}]
<1>0. n \in Nat /\ items \in Seq(Calls) /\ Distinct(items) /\ \A i \in 1..n : p.outcome[items[i]] = "new"
  BY DEF IsBatch
<1>1. r = TurnedDown(p, items) \/ r \in posted[n]
  BY DEF AwaitedBatchResults
<1>2. CASE r = TurnedDown(p, items)
  BY <1>0, <1>2, TurnedDownGoes
<1>3. PICK f : IsPosted(p, items, target, n, f)
  BY <1>0, PostedExists
<1>4. IsPosted(p, items, target, n, posted)
  BY <1>3 DEF IsPosted
<1> HIDE DEF posted
<1> DEFINE Good(m) == \A q \in posted[m] : Goes(p, q, First(items, m)) /\ (Announced(p) => Announced(q))
           T == {m \in 0..n : ~Good(m)}
<1>5. T = {}
  <2> SUFFICES ASSUME T # {} PROVE FALSE
    OBVIOUS
  <2>1. PICK m \in T : \A k \in T : m <= k
    <3>1. T \subseteq Nat BY <1>0
    <3> HIDE DEF T
    <3> QED BY <3>1, LeastExists
  <2>2. m # 0
    <3>1. posted[0] = {p} BY <1>0, <1>4 DEF IsPosted
    <3>2. First(items, 0) = {} BY DEF First
    <3>3. Good(0) BY <3>1, <3>2, StaysGoes
    <3> QED BY <2>1, <3>3
  <2>3. m \in 1..n /\ m - 1 \in 0..n /\ ~(m <= m - 1)
    BY <1>0, <2>1, <2>2
  <2>4. Good(m - 1)
    BY <2>1, <2>3
  <2>5. posted[m] = UNION {IF target = NoWorker THEN PostMessageResults(q, items[m])
                           ELSE PostToWorkerResults(q, items[m], target) : q \in posted[m - 1]}
    BY <1>4, <2>2, <2>3 DEF IsPosted
  <2>6. ASSUME NEW t \in posted[m]
        PROVE  Goes(p, t, First(items, m)) /\ (Announced(p) => Announced(t))
    <3>1. PICK q \in posted[m - 1] :
            t \in IF target = NoWorker THEN PostMessageResults(q, items[m])
                  ELSE PostToWorkerResults(q, items[m], target)
      BY <2>5
    <3>2. Goes(p, q, First(items, m - 1)) /\ (Announced(p) => Announced(q)) BY <2>4
    <3>3. /\ First(items, m) = First(items, m - 1) \cup {items[m]}
          /\ items[m] \notin First(items, m - 1)
      <4>1. m \in m..n BY <2>3
      <4> QED BY <1>0, <2>3, <4>1, FirstGrows
    <3>4. items[m] \in Calls /\ p.outcome[items[m]] = "new" BY <1>0, <2>3
    <3>5. q.outcome[items[m]] = "new" /\ Inv(q) BY <3>2, <3>3, <3>4 DEF Goes, Follows
    <3>6. Goes(q, t, {items[m]}) /\ (Announced(q) => Announced(t))
      BY <3>1, <3>4, <3>5, PostMessageGoes, PostToWorkerGoes
    <3> QED BY <3>2, <3>3, <3>6, GoesOn
  <2>7. Good(m) BY <2>6
  <2> HIDE DEF Good
  <2> QED BY <2>1, <2>7
<1>6. Good(n)
  <2> HIDE DEF Good
  <2> QED BY <1>0, <1>5
<1>7. First(items, n) = In(items) BY DEF First, In
<1> QED BY <1>1, <1>2, <1>6, <1>7

(* A promise is open only for a call that awaits a response.               *)
LEMMA OnlyRequestsOpen ==
  ASSUME NEW p, Inv(p), NEW c \in Calls, c \notin p.options.requests
  PROVE  p.outcome[c] # "open" /\ Cared(p, c)
<1>1. p.options.keyOf[c] \in Keys BY DEF Inv, Sound, PoolType, OptionsType
<1>2. p.outcome[c] # "open" BY <1>1, PoolConstants DEF Inv, Booked
<1> QED BY <1>2 DEF Cared

(* A call whose promise is not open needs no care.                         *)
LEMMA FollowsClosed ==
  ASSUME NEW p, NEW q, NEW c, NEW C, Follows(p, q, C, {c}), Inv(q), c \notin q.options.requests
  PROVE  Follows(p, q, C, {})
<1>1. c \in Calls => Cared(q, c) /\ q.outcome[c] # "open" BY OnlyRequestsOpen
<1> QED BY <1>1 DEF Follows

\* The pool p and what postMessageBatch() has done of its first n items: s.p is the pool,
\* s.chosen a worker that has room, s.queued what waits for the end.
Batching(p, items, n, s) ==
  /\ s \in [p : PoolType, queued : Seq(Calls), chosen : Ids \cup {NoWorker}]
  /\ Inv(s.p) /\ Follows(p, s.p, First(items, n), {}) /\ SameRest(p, s.p)
  /\ p.active <= s.p.active
  /\ s.chosen = NoWorker \/ s.chosen \in Live(s.p)
  /\ In(s.queued) \subseteq First(items, n) /\ Distinct(s.queued)
  /\ \A c \in In(s.queued) : s.p.outcome[c] = "sent" /\ Loose(s.p, c)
  /\ s.queued = << >> => s.p.queue = p.queue
  /\ p.queue = << >> => s.p.queue = << >>

\* What one item does to the pool, before it is counted among the first n.
Steps(p, q, c) ==
  /\ Inv(q) /\ Follows(p, q, {c}, {}) /\ SameRest(p, q) /\ p.active <= q.active
  /\ Live(p) \subseteq Live(q)
  /\ p.queue = << >> => q.queue = << >>

(* One item more.                                                          *)
LEMMA BatchingOn ==
  ASSUME NEW p, p.active \in Nat, NEW items \in Seq(Calls), Distinct(items), NEW n \in 1..Len(items),
         NEW s, NEW t, Batching(p, items, n - 1, s), Steps(s.p, t.p, items[n]),
         t \in [p : PoolType, queued : Seq(Calls), chosen : Ids \cup {NoWorker}],
         t.chosen = NoWorker \/ t.chosen \in Live(t.p),
         \/ t.queued = s.queued /\ (s.queued = << >> => t.p.queue = s.p.queue)
         \/ /\ t.queued = Append(s.queued, items[n])
            /\ t.p.outcome[items[n]] = "sent" /\ Loose(t.p, items[n])
  PROVE  Batching(p, items, n, t)
<1> DEFINE c == items[n]
           before == First(items, n - 1)
<1>1. First(items, n) = before \cup {c} /\ c \notin before
  <2>1. n \in n..Len(items) /\ Len(items) \in Nat OBVIOUS
  <2> QED BY <2>1, FirstGrows
<1> HIDE DEF c, before
<1>2. Follows(p, t.p, First(items, n), {})
  <2>1. Follows(p, s.p, before, {}) /\ Follows(s.p, t.p, {c}, {}) BY DEF Batching, Steps, c, before
  <2>2. {} \cup {} = {} OBVIOUS
  <2> QED BY <1>1, <2>1, <2>2, FollowsOn
<1>3. SameRest(p, t.p) /\ (p.queue = << >> => t.p.queue = << >>)
  BY DEF Batching, Steps, SameRest
<1>4. p.active <= t.p.active
  <2>1. s.p.active \in Nat /\ t.p.active \in Nat BY DEF Batching, Steps, Inv, Sound, PoolType
  <2>2. p.active <= s.p.active /\ s.p.active <= t.p.active BY DEF Batching, Steps
  <2>3. PICK a \in Nat : a = p.active OBVIOUS
  <2>4. PICK b \in Nat : b = s.p.active BY <2>1
  <2>5. PICK e \in Nat : e = t.p.active BY <2>1
  <2>6. a <= e BY <2>2, <2>3, <2>4, <2>5
  <2> QED BY <2>3, <2>5, <2>6
<1>5. \A d \in In(s.queued) : d # c /\ t.p.outcome[d] = "sent" /\ Loose(t.p, d)
  <2> SUFFICES ASSUME NEW d \in In(s.queued)
               PROVE  d # c /\ t.p.outcome[d] = "sent" /\ Loose(t.p, d)
    OBVIOUS
  <2>1. d \in before /\ s.p.outcome[d] = "sent" /\ Loose(s.p, d) BY DEF Batching, before
  <2>2. d \in Calls BY DEF Batching, In
  <2>3. d # c BY <1>1, <2>1
  <2>4. Follows(s.p, t.p, {c}, {}) BY DEF Steps, c
  <2> QED BY <2>1, <2>2, <2>3, <2>4 DEF Follows
<1>6. CASE t.queued = s.queued /\ (s.queued = << >> => t.p.queue = s.p.queue)
  BY <1>1, <1>2, <1>3, <1>4, <1>5, <1>6 DEF Batching, Steps, before
<1>7. CASE t.queued = Append(s.queued, c) /\ t.p.outcome[c] = "sent" /\ Loose(t.p, c)
  <2>1. s.queued \in Seq(Calls) BY DEF Batching
  <2>2. In(t.queued) = In(s.queued) \cup {c} /\ t.queued # << >>
    BY <1>7, <2>1 DEF In
  <2>3. Distinct(t.queued)
    <3>1. \A i \in 1..Len(s.queued) : s.queued[i] # c BY <1>5 DEF In
    <3> QED BY <1>7, <2>1, <3>1 DEF Batching, Distinct
  <2>4. \A d \in In(t.queued) : t.p.outcome[d] = "sent" /\ Loose(t.p, d)
    BY <1>5, <1>7, <2>2
  <2>5. In(t.queued) \subseteq First(items, n) BY <1>1, <2>2 DEF Batching, before
  <2> QED BY <1>2, <1>3, <1>4, <2>2, <2>3, <2>4, <2>5 DEF Batching, Steps
<1> QED BY <1>6, <1>7 DEF c

(* An item that is sent.                                                   *)
LEMMA SentSteps ==
  ASSUME NEW p, Inv(p), NEW c \in Calls, Loose(p, c), c \notin p.options.requests,
         NEW w \in Live(p), HasRoom(p, w)
  PROVE  LET q == Dispatch(p, c, w, FALSE)
         IN  Steps(p, q, c) /\ q.queue = p.queue /\ Live(q) = Live(p) /\ q \in PoolType
<1> DEFINE q == Dispatch(p, c, w, FALSE)
<1>1. p \in PoolType /\ w \in Ids BY CrewIsFinite DEF Inv, Sound
<1>2. Hands(p, q, c, w, FALSE) BY <1>1, DispatchHands
<1> HIDE DEF q
<1>3. Inv(q) /\ Follows(p, q, {c}, {c}) BY <1>2, HandedKeeps
<1>4. c \notin q.options.requests BY <1>3 DEF Follows
<1>5. Follows(p, q, {c}, {}) BY <1>3, <1>4, FollowsClosed
<1>6. SameRest(p, q) /\ q.queue = p.queue /\ Live(q) = Live(p)
  BY <1>2 DEF Hands, SameQueue, Live
<1>7. p.active <= q.active
  <2>1. q.active = p.active + 1 /\ p.active \in Nat BY <1>1, <1>2 DEF Hands, PoolType
  <2>2. PICK a \in Nat : a = p.active BY <2>1
  <2> QED BY <2>1, <2>2
<1>8. Steps(p, q, c) BY <1>3, <1>5, <1>6, <1>7 DEF Steps
<1> QED BY <1>2, <1>6, <1>8 DEF q, Hands

(* An item that is marked, as held for the queue or as refused.            *)
LEMMA MarkedSteps ==
  ASSUME NEW p, Inv(p), NEW c \in Calls, p.outcome[c] = "new", NEW how \in {"sent", "refused"}
  PROVE  LET q == [p EXCEPT !.outcome[c] = how]
         IN  /\ Steps(p, q, c) /\ q.queue = p.queue /\ Live(q) = Live(p) /\ q \in PoolType
             /\ q.outcome[c] = how /\ Loose(q, c)
<1> DEFINE q == [p EXCEPT !.outcome[c] = how]
<1>1. p \in PoolType BY DEF Inv, Sound
<1>2. Marks(p, q, {c}, how) BY <1>1, SettingMarks DEF Outcome
<1> HIDE DEF q
<1>3. Inv(q) /\ Follows(p, q, {c}, {}) BY <1>2, MarkedKeeps
<1>4. SameRest(p, q) /\ q.queue = p.queue /\ q.active = p.active /\ Live(q) = Live(p) /\ q.running = p.running
  BY <1>2 DEF Marks, SameQueue, SameCrew, Live
<1>5. p.active <= p.active BY <1>1 DEF PoolType
<1>6. Steps(p, q, c) BY <1>3, <1>4, <1>5 DEF Steps
<1>7. Loose(q, c) BY <1>4 DEF Loose, Inv, Placed
<1> QED BY <1>2, <1>4, <1>6, <1>7 DEF q, Marks

(* What happens to the pool before the item is dealt with.                 *)
LEMMA StepsAfter ==
  ASSUME NEW p, NEW q, NEW r, NEW c, Follows(p, q, {}, {}), SameRest(p, q), p.active = q.active,
         Live(p) \subseteq Live(q), p.queue = << >> => q.queue = << >>, Steps(q, r, c)
  PROVE  Steps(p, r, c)
<1>1. {} \cup {c} = {c} /\ {} \cup {} = {} OBVIOUS
<1>2. Follows(p, r, {c}, {}) BY <1>1, FollowsOn DEF Steps
<1> QED BY <1>2 DEF Steps, SameRest

(* One item of postMessageBatch() that awaits nothing.                     *)
LEMMA BatchItemKeeps ==
  ASSUME NEW p, p \in PoolType, NEW items, IsBatch(p, items), NEW n \in 1..Len(items),
         items[n] \notin p.options.requests,
         NEW s, Batching(p, items, n - 1, s), NEW targeted \in BOOLEAN,
         NEW t \in BatchItemResults(s, items[n], targeted)
  PROVE  Batching(p, items, n, t)
<1> DEFINE c == items[n]
           P == s.p
           least == {w \in IF s.chosen # NoWorker THEN {s.chosen}
                           ELSE IF targeted THEN {} ELSE LeastLoadedOfAll(P) :
                        P.tasks[w] < P.options.maxTasks}
           grown == AddWorkerInstance(P)
           w0 == Min(Ids \ Live(P))
           evicted == IF P.options.policy = "drop-oldest" /\ P.queue # << >>
                      THEN [Settle(P, QueuedKeys(P, 1), "rejected") EXCEPT !.queue = Tail(P.queue)]
                      ELSE P
           sent(q, w) == [ s EXCEPT !.p = Dispatch(q, c, w, FALSE),
                                    !.chosen = IF q.tasks[w] + 1 < q.options.maxTasks THEN w
                                               ELSE NoWorker ]
           held(q) == [s EXCEPT !.p = [q EXCEPT !.outcome[c] = "sent"], !.queued = Append(s.queued, c)]
           no(q)   == [s EXCEPT !.p = [q EXCEPT !.outcome[c] = "refused"]]
           try(q, w) == {sent(q, w)} \cup IF c \in P.options.mayThrow THEN {no(q)} ELSE {}
           Record == [p : PoolType, queued : Seq(Calls), chosen : Ids \cup {NoWorker}]
<1>0. /\ items \in Seq(Calls) /\ Distinct(items) /\ c \in Calls /\ p.outcome[c] = "new"
      /\ p.active \in Nat
  BY SMTT(60) DEF IsBatch, PoolType
<1>1. s \in Record /\ Inv(P) /\ Follows(p, P, First(items, n - 1), {}) BY DEF Batching
<1>2. \/ t = held(P)
      \/ t = held(evicted)
      \/ t = no(P)
      \/ t = no(grown) /\ Len(P.workers) < P.maxSize
      \/ \E w \in least : t = sent(P, w)
      \/ t = sent(grown, w0) /\ Len(P.workers) < P.maxSize
      \/ \E w \in Live(P) : /\ ~P.options.taskQueue
                            /\ \/ t = [sent(P, w) EXCEPT !.chosen = s.chosen]
                               \/ t = [no(P) EXCEPT !.chosen = s.chosen]
  <2>1. t \in
          IF ~UnderLimit(P) THEN {IF P.options.taskQueue THEN held(P) ELSE no(P)}
          ELSE IF least # {} THEN UNION {try(P, w) : w \in least}
          ELSE IF targeted THEN {no(P)}
          ELSE IF Len(P.workers) < P.maxSize
          THEN try(grown, w0) \cup IF P.options.spawnMayFail THEN {no(P)} ELSE {}
          ELSE IF P.options.taskQueue
          THEN {IF P.options.policy = "reject" \/ (P.options.policy = "drop-newest" /\ P.queue # << >>)
                THEN no(P) ELSE held(evicted)}
          ELSE IF P.workers = << >> THEN {no(P)}
          ELSE UNION {{[r EXCEPT !.chosen = s.chosen] : r \in try(P, w)} : w \in Live(P)}
    BY DEF BatchItemResults
  <2> HIDE DEF sent, held, no, least, grown, w0, evicted, P
  <2>2. \A q, w : try(q, w) \subseteq {sent(q, w), no(q)} OBVIOUS
  <2> HIDE DEF try
  <2> QED BY <2>1, <2>2
<1>3. c \notin First(items, n - 1)
  <2>1. n \in n..Len(items) /\ Len(items) \in Nat BY <1>0
  <2> QED BY <1>0, <2>1, FirstGrows
<1>4. P.outcome[c] = "new" /\ Loose(P, c) /\ c \notin P.options.requests
  BY <1>0, <1>1, <1>3 DEF Follows, Inv, Placed
<1>5. \A q, ch, qu : q \in PoolType /\ ch \in Ids \cup {NoWorker} /\ qu \in Seq(Calls) =>
        [s EXCEPT !.p = q, !.chosen = ch, !.queued = qu] \in Record
  BY <1>1
<1> HIDE DEF c, P, sent, held, no, least, grown, w0, evicted
<1>12. s.queued \in Seq(Calls) /\ s.chosen \in Ids \cup {NoWorker} /\ c \in Calls
  BY <1>0, <1>1 DEF c
\* The states from which the item is dealt with.
<1> DEFINE Before(q) == /\ Inv(q) /\ Follows(P, q, {}, {}) /\ SameRest(P, q) /\ P.active = q.active
                        /\ Live(P) \subseteq Live(q) /\ (P.queue = << >> => q.queue = << >>)
                        /\ q.outcome[c] = "new" /\ Loose(q, c) /\ c \notin q.options.requests
<1>6. Before(P)
  BY <1>1, <1>4 DEF Follows, SameRest
<1>7. ASSUME Len(P.workers) < P.maxSize
      PROVE  Before(grown) /\ grown.queue = P.queue /\ w0 \in Live(grown) /\ HasRoom(grown, w0)
  <2>1. Len(P.workers) < MaxAlive
    <3>1. Len(P.workers) \in Nat /\ P.maxSize \in Nat /\ P.maxSize <= MaxAlive
      BY <1>1 DEF Inv, Sound, PoolType
    <3>2. PICK a \in Nat : a = Len(P.workers) BY <3>1
    <3>3. PICK m \in Nat : m = P.maxSize BY <3>1
    <3>4. a < MaxAlive BY <1>7, <3>1, <3>2, <3>3, PoolConstants
    <3> QED BY <3>2, <3>4
  <2>2. P \in PoolType BY <1>1 DEF Inv, Sound
  <2>3. w0 \in Ids \ Live(P) /\ Joins(P, grown, w0) BY <2>1, <2>2, IdToSpare, NewWorkerJoins DEF w0, grown
  <2>4. /\ Inv(grown) /\ Follows(P, grown, {}, {})
        /\ Live(grown) = Live(P) \cup {w0} /\ grown.tasks[w0] = 0
    BY <1>1, <2>3, JoinedKeeps
  <2>5. grown.options.maxTasks \in Nat \ {0} BY <2>4 DEF Inv, Sound, PoolType, OptionsType
  <2>6. HasRoom(grown, w0) BY <2>4, <2>5 DEF HasRoom
  <2>7. Before(grown)
    BY <1>0, <1>4, <2>3, <2>4 DEF Joins, SameQueue, SameBooks, Follows, c
  <2> QED BY <2>3, <2>4, <2>6, <2>7 DEF Joins, SameQueue
<1>8. Before(evicted)
  <2>1. CASE P.options.policy = "drop-oldest" /\ P.queue # << >>
    <3> DEFINE e == [Settle(P, QueuedKeys(P, 1), "rejected") EXCEPT !.queue = Tail(P.queue)]
    <3>1. Discards(P, e, {P.queue[1]}, {}) BY <1>1, <2>1, OldestDiscarded
    <3>2. evicted = e BY <2>1 DEF evicted
    <3> HIDE DEF e
    <3>3. Live(e) = Live(P) /\ e.active = P.active BY <3>1 DEF Discards, SameCrew, Live
    <3>4. Inv(e) /\ Follows(P, e, {}, {}) /\ SameRest(P, e) BY <3>1 DEF Discards
    <3>5. e.outcome[c] = "new" /\ Loose(e, c) /\ c \notin e.options.requests
      BY <1>0, <1>4, <3>4 DEF Follows, c
    <3> QED BY <2>1, <3>2, <3>3, <3>4, <3>5
  <2>2. CASE ~(P.options.policy = "drop-oldest" /\ P.queue # << >>)
    <3>1. evicted = P BY <2>2 DEF evicted
    <3> QED BY <1>6, <3>1
  <2> QED BY <2>1, <2>2
<1>9. ASSUME NEW q, Before(q), NEW w \in Live(q), HasRoom(q, w),
             s.queued = << >> => q.queue = P.queue,
             NEW u, u \in Record, u.p = Dispatch(q, c, w, FALSE), u.queued = s.queued,
             u.chosen \in {w, NoWorker, s.chosen}
      PROVE  Batching(p, items, n, u)
  <2> DEFINE v == Dispatch(q, c, w, FALSE)
  <2>4. Steps(q, v, c) /\ v.queue = q.queue /\ Live(v) = Live(q)
    BY <1>9, <1>12, SentSteps
  <2> HIDE DEF v, Before
  <2>1. Steps(q, u.p, c) /\ u.p.queue = q.queue /\ Live(u.p) = Live(q)
    BY <1>9, <2>4 DEF v
  <2> USE DEF Before
  <2>2. Steps(P, u.p, c) BY <1>9, <2>1, StepsAfter
  <2>3. u.chosen = NoWorker \/ u.chosen \in Live(u.p)
    BY <1>9, <2>1 DEF Batching, P
  <2> QED BY <1>0, <1>9, <2>1, <2>2, <2>3, BatchingOn DEF c, P
<1>10. ASSUME NEW q, Before(q), s.queued = << >> => q.queue = P.queue,
             NEW u, u \in Record, u.p = [q EXCEPT !.outcome[c] = "refused"], u.queued = s.queued,
             u.chosen = s.chosen
      PROVE  Batching(p, items, n, u)
  <2> DEFINE v == [q EXCEPT !.outcome[c] = "refused"]
  <2>4. Steps(q, v, c) /\ v.queue = q.queue /\ Live(v) = Live(q)
    BY <1>10, <1>12, MarkedSteps
  <2> HIDE DEF v, Before
  <2>1. Steps(q, u.p, c) /\ u.p.queue = q.queue /\ Live(u.p) = Live(q)
    BY <1>10, <2>4 DEF v
  <2> USE DEF Before
  <2>2. Steps(P, u.p, c) BY <1>10, <2>1, StepsAfter
  <2>3. u.chosen = NoWorker \/ u.chosen \in Live(u.p)
    BY <1>10, <2>1 DEF Batching, P
  <2> QED BY <1>0, <1>10, <2>1, <2>2, <2>3, BatchingOn DEF c, P
<1>11. ASSUME NEW q, Before(q),
             NEW u, u \in Record, u.p = [q EXCEPT !.outcome[c] = "sent"], u.queued = Append(s.queued, c),
             u.chosen = s.chosen
      PROVE  Batching(p, items, n, u)
  <2> DEFINE v == [q EXCEPT !.outcome[c] = "sent"]
  <2>4. Steps(q, v, c) /\ Live(v) = Live(q) /\ v.outcome[c] = "sent" /\ Loose(v, c)
    BY <1>11, <1>12, MarkedSteps
  <2> HIDE DEF v, Before
  <2>1. Steps(q, u.p, c) /\ Live(u.p) = Live(q) /\ u.p.outcome[c] = "sent" /\ Loose(u.p, c)
    BY <1>11, <2>4 DEF v
  <2> USE DEF Before
  <2>2. Steps(P, u.p, c) BY <1>11, <2>1, StepsAfter
  <2>3. u.chosen = NoWorker \/ u.chosen \in Live(u.p)
    BY <1>11, <2>1 DEF Batching, P
  <2> QED BY <1>0, <1>11, <2>1, <2>2, <2>3, BatchingOn DEF c, P
<1>13. \A q : Before(q) =>
         /\ q \in PoolType /\ [q EXCEPT !.outcome[c] = "sent"] \in PoolType
         /\ [q EXCEPT !.outcome[c] = "refused"] \in PoolType
         /\ \A w \in Live(q) : w \in Ids /\ Dispatch(q, c, w, FALSE) \in PoolType
  <2> SUFFICES ASSUME NEW q, Before(q)
               PROVE  /\ q \in PoolType /\ [q EXCEPT !.outcome[c] = "sent"] \in PoolType
                      /\ [q EXCEPT !.outcome[c] = "refused"] \in PoolType
                      /\ \A w \in Live(q) : w \in Ids /\ Dispatch(q, c, w, FALSE) \in PoolType
    OBVIOUS
  <2>1. q \in PoolType /\ Live(q) \subseteq Ids BY CrewIsFinite DEF Inv, Sound
  <2>2. \A w \in Live(q) : Dispatch(q, c, w, FALSE) \in PoolType
    BY <1>12, <2>1, DispatchHands DEF Hands
  <2>3. [q EXCEPT !.outcome[c] = "sent"] \in PoolType /\ [q EXCEPT !.outcome[c] = "refused"] \in PoolType
    BY <1>12, MarkedSteps
  <2> QED BY <2>1, <2>2, <2>3
<1>14. CASE t = held(P)
  <2>1. Append(s.queued, c) \in Seq(Calls) BY <1>12
  <2>2. /\ t \in Record /\ t.p = [P EXCEPT !.outcome[c] = "sent"] /\ t.queued = Append(s.queued, c)
        /\ t.chosen = s.chosen
    <3> DEFINE new == [P EXCEPT !.outcome[c] = "sent"]
               longer == Append(s.queued, c)
    <3>1. new \in PoolType /\ longer \in Seq(Calls) BY <1>6, <1>13, <2>1
    <3> HIDE DEF new, longer, Before
    <3> QED BY <1>1, <1>14, <3>1 DEF new, longer, held
  <2> QED BY <1>6, <1>11, <2>2
<1>15. CASE t = held(evicted)
  <2>1. Append(s.queued, c) \in Seq(Calls) BY <1>12
  <2>2. /\ t \in Record /\ t.p = [evicted EXCEPT !.outcome[c] = "sent"] /\ t.queued = Append(s.queued, c)
        /\ t.chosen = s.chosen
    <3> DEFINE new == [evicted EXCEPT !.outcome[c] = "sent"]
               longer == Append(s.queued, c)
    <3>1. new \in PoolType /\ longer \in Seq(Calls) BY <1>8, <1>13, <2>1
    <3> HIDE DEF new, longer, Before
    <3> QED BY <1>1, <1>15, <3>1 DEF new, longer, held
  <2> QED BY <1>8, <1>11, <2>2
<1>16. ASSUME NEW q, Before(q), s.queued = << >> => q.queue = P.queue, t = no(q) PROVE Batching(p, items, n, t)
  <2>1. t \in Record /\ t.p = [q EXCEPT !.outcome[c] = "refused"] /\ t.queued = s.queued /\ t.chosen = s.chosen
    <3> DEFINE new == [q EXCEPT !.outcome[c] = "refused"]
    <3>1. new \in PoolType BY <1>16, <1>13
    <3> HIDE DEF new, Before
    <3> QED BY <1>1, <1>16, <3>1 DEF new, no
  <2> QED BY <1>10, <1>16, <2>1
<1>17. ASSUME NEW q, Before(q), s.queued = << >> => q.queue = P.queue, NEW w \in Live(q), HasRoom(q, w),
              t = sent(q, w)
       PROVE  Batching(p, items, n, t)
  <2>1. /\ t \in Record /\ t.p = Dispatch(q, c, w, FALSE) /\ t.queued = s.queued
        /\ t.chosen \in {w, NoWorker, s.chosen}
    <3> DEFINE new == Dispatch(q, c, w, FALSE)
               next == IF q.tasks[w] + 1 < q.options.maxTasks THEN w ELSE NoWorker
    <3>1. new \in PoolType /\ next \in Ids \cup {NoWorker} /\ next \in {w, NoWorker} BY <1>17, <1>13
    <3>2. t = [s EXCEPT !.p = new, !.chosen = next] BY <1>17 DEF sent
    <3> HIDE DEF new, next, Before
    <3>3. t \in Record /\ t.p = new /\ t.queued = s.queued /\ t.chosen = next BY <1>1, <3>1, <3>2
    <3> QED BY <3>1, <3>3 DEF new
  <2> QED BY <1>9, <1>17, <2>1
<1>18. CASE t = no(P) BY <1>6, <1>16, <1>18
<1>19. CASE t = no(grown) /\ Len(P.workers) < P.maxSize BY <1>7, <1>16, <1>19
<1>20. CASE \E w \in least : t = sent(P, w)
  <2>1. PICK w \in least : t = sent(P, w) BY <1>20
  <2>2. w \in Live(P) /\ HasRoom(P, w)
    BY DEF least, LeastLoadedOfAll, HasRoom, Batching, P
  <2> QED BY <1>6, <1>17, <2>1, <2>2
<1>21. CASE t = sent(grown, w0) /\ Len(P.workers) < P.maxSize
  <2> QED BY <1>7, <1>17, <1>21
<1>22. CASE \E w \in Live(P) : /\ ~P.options.taskQueue
                               /\ \/ t = [sent(P, w) EXCEPT !.chosen = s.chosen]
                                  \/ t = [no(P) EXCEPT !.chosen = s.chosen]
  <2>1. PICK w \in Live(P) : /\ ~P.options.taskQueue
                             /\ \/ t = [sent(P, w) EXCEPT !.chosen = s.chosen]
                                \/ t = [no(P) EXCEPT !.chosen = s.chosen]
    BY <1>22
  <2>2. HasRoom(P, w) BY <2>1 DEF HasRoom
  <2>3. CASE t = [sent(P, w) EXCEPT !.chosen = s.chosen]
    <3> DEFINE new == Dispatch(P, c, w, FALSE)
    <3>1. new \in PoolType BY <1>6, <1>13
    <3>2. t = [s EXCEPT !.p = new, !.chosen = s.chosen] BY <1>1, <2>3 DEF sent
    <3>3. t \in Record /\ t.p = new /\ t.queued = s.queued /\ t.chosen = s.chosen
      <4> HIDE DEF new, Before
      <4> QED BY <1>1, <3>1, <3>2
    <3> QED BY <1>6, <1>9, <2>2, <3>3
  <2>4. CASE t = [no(P) EXCEPT !.chosen = s.chosen]
    <3> DEFINE new == [P EXCEPT !.outcome[c] = "refused"]
    <3>1. new \in PoolType BY <1>6, <1>13
    <3>2. t = [s EXCEPT !.p = new, !.chosen = s.chosen] BY <1>1, <2>4 DEF no
    <3>3. t \in Record /\ t.p = new /\ t.queued = s.queued /\ t.chosen = s.chosen
      <4> HIDE DEF new, Before
      <4> QED BY <1>1, <3>1, <3>2
    <3> QED BY <1>6, <1>10, <3>3
  <2> QED BY <2>1, <2>3, <2>4
<1> QED BY <1>2, <1>14, <1>15, <1>18, <1>19, <1>20, <1>21, <1>22

\* The recursive function of EnqueuedAll.
IsQueued(p, items, n, queue) ==
  queue = [i \in 0..n |-> IF i = 0 THEN p.queue ELSE Enqueue([p EXCEPT !.queue = queue[i - 1]], items[i])]

(* The function exists.                                                    *)
LEMMA QueuedExists ==
  ASSUME NEW p, NEW items, NEW n \in Nat
  PROVE  \E queue : IsQueued(p, items, n, queue)
<1> DEFINE T == {m \in 0..n : ~\E queue : IsQueued(p, items, m, queue)}
<1>1. SUFFICES ASSUME T # {} PROVE FALSE
  OBVIOUS
<1>2. PICK m \in T : \A k \in T : m <= k
  <2>1. T \subseteq Nat OBVIOUS
  <2> HIDE DEF T
  <2> QED BY <1>1, <2>1, LeastExists
<1>3. m # 0
  <2>1. IsQueued(p, items, 0, [i \in 0..0 |-> p.queue])
    BY DEF IsQueued
  <2> QED BY <1>2, <2>1
<1>4. PICK before : IsQueued(p, items, m - 1, before)
  BY <1>2, <1>3
<1> DEFINE new == Enqueue([p EXCEPT !.queue = before[m - 1]], items[m])
           queue == [i \in 0..m |-> IF i = m THEN new ELSE before[i]]
<1>5. IsQueued(p, items, m, queue)
  <2>1. m \in Nat BY <1>2
  <2>2. ASSUME NEW i \in 0..m
        PROVE  queue[i] = IF i = 0 THEN p.queue
                          ELSE Enqueue([p EXCEPT !.queue = queue[i - 1]], items[i])
    <3>1. CASE i = m
      <4>1. queue[i] = new /\ queue[i - 1] = before[m - 1] BY <1>3, <2>1, <3>1
      <4> HIDE DEF queue
      <4> QED BY <1>3, <3>1, <4>1
    <3>2. CASE i # m
      <4>1. i \in 0..(m - 1) /\ (i # 0 => i - 1 \in 0..(m - 1) /\ i - 1 # m)
        BY <2>1, <3>2
      <4>2. before[i] = IF i = 0 THEN p.queue
                        ELSE Enqueue([p EXCEPT !.queue = before[i - 1]], items[i])
        BY <1>4, <4>1 DEF IsQueued
      <4>3. queue[i] = before[i] /\ (i # 0 => queue[i - 1] = before[i - 1]) BY <2>1, <3>2, <4>1
      <4> HIDE DEF queue
      <4> QED BY <4>2, <4>3
    <3> QED BY <3>1, <3>2
  <2> HIDE DEF new
  <2>3. queue = [i \in 0..m |-> IF i = 0 THEN p.queue
                                ELSE Enqueue([p EXCEPT !.queue = queue[i - 1]], items[i])]
    BY <2>2
  <2> HIDE DEF queue
  <2> QED BY <2>3 DEF IsQueued
<1> QED BY <1>2, <1>5

(* What was accepted for the queue joins it, where it fits.                *)
LEMMA QueuedKeeps ==
  ASSUME NEW p, Inv(p), NEW items \in Seq(Calls), Distinct(items),
         Len(p.queue) + Len(items) <= p.options.maxQueue,
         \A i \in 1..Len(items) : /\ p.outcome[items[i]] = "sent" /\ Loose(p, items[i])
                                  /\ items[i] \notin p.options.requests
  PROVE  LET q == [p EXCEPT !.queue = EnqueuedAll(p, items)]
         IN  /\ Inv(q) /\ Follows(p, q, In(items), {}) /\ SameCrew(p, q) /\ SameRest(p, q)
             /\ items = << >> => q.queue = p.queue
<1> DEFINE n == Len(items)
           queue == CHOOSE f : f =
             [i \in 0..n |-> IF i = 0 THEN p.queue ELSE Enqueue([p EXCEPT !.queue = f[i - 1]], items[i])]
           With(m) == [p EXCEPT !.queue = queue[m]]
<1>0. n \in Nat /\ p \in PoolType /\ Len(p.queue) \in Nat /\ p.options.maxQueue \in Nat
  BY SMTT(60) DEF Inv, Sound, PoolType, OptionsType
<1>1. EnqueuedAll(p, items) = queue[n] BY DEF EnqueuedAll
<1>2. IsQueued(p, items, n, queue)
  <2>1. PICK f : IsQueued(p, items, n, f) BY <1>0, QueuedExists
  <2> QED BY <2>1 DEF IsQueued
<1> HIDE DEF queue
<1> DEFINE Good(m) == /\ queue[m] \in Seq(Calls) /\ Len(queue[m]) = Len(p.queue) + m
                      /\ Inv(With(m)) /\ Follows(p, With(m), First(items, m), {})
                      /\ SameCrew(p, With(m)) /\ SameRest(p, With(m))
           T == {m \in 0..n : ~Good(m)}
<1>3. queue[0] = p.queue /\ With(0) = p
  BY <1>0, <1>2 DEF IsQueued, PoolType
<1>4. T = {}
  <2> SUFFICES ASSUME T # {} PROVE FALSE
    OBVIOUS
  <2>1. PICK m \in T : \A k \in T : m <= k
    <3>1. T \subseteq Nat BY <1>0
    <3> HIDE DEF T
    <3> QED BY <3>1, LeastExists
  <2>2. m # 0
    <3>1. First(items, 0) = {} BY DEF First
    <3>2. Follows(p, p, {}, {}) /\ SameCrew(p, p) /\ SameRest(p, p)
      BY DEF Follows, SameCrew, SameRest
    <3>3. queue[0] \in Seq(Calls) /\ Len(queue[0]) = Len(p.queue) + 0
      BY <1>0, <1>3 DEF PoolType
    <3> HIDE DEF With
    <3>4. Good(0) BY <1>3, <3>1, <3>2, <3>3
    <3> QED BY <2>1, <3>4
  <2>3. m \in 1..n /\ m - 1 \in 0..n /\ ~(m <= m - 1)
    BY <1>0, <2>1, <2>2
  <2>4. Good(m - 1)
    BY <2>1, <2>3
  <2> DEFINE q == With(m - 1)
             r == With(m)
             c == items[m]
  <2>5. queue[m] = Enqueue(q, c)
    BY <1>2, <2>2, <2>3 DEF IsQueued
  <2>6. q \in PoolType /\ q.queue = queue[m - 1] /\ q.options = p.options /\ q.outcome = p.outcome
    BY <1>0, <2>4 DEF PoolType
  <2>7. c \in Calls /\ p.outcome[c] = "sent" /\ Loose(p, c) /\ c \notin p.options.requests
    BY <2>3
  <2>8. First(items, m) = First(items, m - 1) \cup {c} /\ c \notin First(items, m - 1)
    <3>1. m \in m..n BY <2>3
    <3> QED BY <1>0, <2>3, <3>1, FirstGrows
  <2> HIDE DEF c
  <2>9. Loose(q, c) BY <2>4, <2>7, <2>8 DEF Follows
  <2>10. queue[m] \in Seq(Calls) /\ Len(queue[m]) = Len(queue[m - 1]) + 1
    <3> HIDE DEF With
    <3> QED BY <2>4, <2>5, <2>6, <2>7, EnqueuePlaces, SMTT(60)
  <2>11. Len(q.queue) < q.options.maxQueue /\ Len(queue[m]) = Len(p.queue) + m
    <3>1. PICK a \in Nat : a = Len(p.queue) BY <1>0
    <3>2. PICK b \in Nat : b = p.options.maxQueue BY <1>0
    <3>3. a + n <= b /\ m \in Nat /\ m - 1 < n BY <1>0, <2>3, <3>1, <3>2
    <3>4. Len(queue[m - 1]) = a + (m - 1) BY <2>4, <3>1
    <3>5. a + (m - 1) < b /\ (a + (m - 1)) + 1 = a + m BY <1>0, <2>3, <3>3
    <3> HIDE DEF With
    <3> QED BY <2>6, <2>10, <3>1, <3>2, <3>4, <3>5
  <2>12. Waits(q, r, c)
    <3> DEFINE new == queue[m]
               old == queue[m - 1]
    <3>1. new \in Seq(Calls) /\ old \in Seq(Calls) BY <2>4, <2>10
    <3>2. new = Enqueue(q, c) BY <2>5
    <3> DEFINE u == [p EXCEPT !.queue = old]
               v == [p EXCEPT !.queue = new]
    <3>3. q = u /\ r = v OBVIOUS
    <3> HIDE DEF new, old, With, q, r
    <3>6. v \in PoolType /\ v.queue = new BY <1>0, <3>1 DEF PoolType
    <3>7. /\ SameGiven(u, v) /\ SameCrew(u, v) /\ SameRest(u, v)
          /\ v.pending = u.pending /\ v.carrier = u.carrier
          /\ v.minSize = u.minSize /\ v.maxSize = u.maxSize
          /\ v.outcome = u.outcome /\ v.listens = u.listens
      BY <1>0 DEF SameGiven, SameCrew, SameRest, PoolType
    <3> HIDE DEF u, v
    <3>4. r \in PoolType /\ r.queue = new BY <3>3, <3>6
    <3>5. /\ SameGiven(q, r) /\ SameCrew(q, r) /\ SameRest(q, r)
          /\ r.pending = q.pending /\ r.carrier = q.carrier
          /\ r.minSize = q.minSize /\ r.maxSize = q.maxSize
          /\ r.outcome = q.outcome /\ r.listens = q.listens
      BY <3>3, <3>7
    <3> QED BY <2>6, <2>7, <3>2, <3>4, <3>5 DEF Waits
  <2>13. Inv(q) /\ Follows(p, q, First(items, m - 1), {}) /\ SameCrew(p, q) /\ SameRest(p, q)
    BY <2>4
  <2>14. SameCrew(p, r) /\ SameRest(p, r)
    <3> HIDE DEF With
    <3> QED BY <2>12, <2>13 DEF Waits, SameCrew, SameRest
  <2> HIDE DEF q, r
  <2>15. Inv(r) /\ Follows(q, r, {c}, {c})
    BY <2>7, <2>9, <2>11, <2>12, <2>13, WaitingKeeps
  <2>16. Follows(q, r, {c}, {})
    <3>1. c \notin r.options.requests BY <2>6, <2>7, <2>15 DEF Follows
    <3> QED BY <2>15, <3>1, FollowsClosed
  <2>17. Follows(p, r, First(items, m), {})
    <3>1. {} \cup {} = {} OBVIOUS
    <3> QED BY <2>8, <2>13, <2>16, <3>1, FollowsOn
  <2>18. Good(m)
    <3>1. Inv(r) /\ Follows(p, r, First(items, m), {}) /\ SameCrew(p, r) /\ SameRest(p, r)
      BY <2>14, <2>15, <2>17
    <3> QED BY <2>10, <2>11, <3>1 DEF r
  <2> HIDE DEF Good
  <2> QED BY <2>1, <2>18
<1>5. Good(n)
  <2> HIDE DEF Good
  <2> QED BY <1>0, <1>4
<1>6. First(items, n) = In(items) BY DEF First, In
<1>7. items = << >> => n = 0 OBVIOUS
<1>8. items = << >> => With(n).queue = p.queue BY <1>3, <1>7
<1> QED BY <1>1, <1>5, <1>6, <1>8

(* What one half of a sequence has, the other has not.                     *)
LEMMA FirstOf ==
  ASSUME NEW S, NEW s \in Seq(S), NEW n \in 0..Len(s)
  PROVE  LET t == SubSeq(s, 1, n)
         IN  /\ t \in Seq(S) /\ Len(t) = n /\ \A i \in 1..n : t[i] = s[i]
             /\ In(t) \subseteq In(s) /\ (Distinct(s) => Distinct(t))
<1> DEFINE t == SubSeq(s, 1, n)
<1>0. n \in Nat /\ Len(s) \in Nat /\ n <= Len(s) OBVIOUS
<1>1. t \in Seq(S) /\ Len(t) = n /\ \A i \in 1..n : t[i] = s[i]
  <2>1. \A i \in 1..n : s[i] \in S BY <1>0
  <2>2. n - 1 + 1 = n /\ (1 <= n \/ n = 0) /\ \A i \in 1..n : 1 + i - 1 = i BY <1>0
  <2> QED BY <2>1, <2>2, SubSeqProperties
<1> HIDE DEF t
<1>2. 1..n \subseteq 1..Len(s) BY <1>0
<1>3. In(t) \subseteq In(s) /\ (Distinct(s) => Distinct(t)) BY <1>1, <1>2 DEF In, Distinct
<1> QED BY <1>1, <1>3 DEF t

(* _reserveQueueSlots() makes room for as many items as it says.           *)
LEMMA RoomMade ==
  ASSUME NEW p, Inv(p), NEW n \in Nat
  PROVE  LET q == MadeRoom(p, n)
             m == Reserves(q, n)
         IN  /\ Inv(q) /\ Follows(p, q, {}, {}) /\ SameCrew(p, q) /\ SameRest(p, q)
             /\ m \in 0..n /\ Len(q.queue) + m <= q.options.maxQueue
             /\ n = 0 => q.queue = p.queue
             /\ p.queue = << >> => q.queue = << >>
             /\ n # 0 /\ m = 0 /\ q.queue = << >> => q.options.maxQueue = 0
<1> DEFINE gone == IF p.options.policy = "drop-oldest"
                   THEN Smaller(AtLeast0(Len(p.queue) + n - p.options.maxQueue), Len(p.queue))
                   ELSE 0
           X == {p.queue[i] : i \in 1..gone}
           q == [ Settle(p, QueuedKeys(p, gone), "rejected") EXCEPT
                    !.queue = SubSeq(p.queue, gone + 1, Len(p.queue)) ]
           m == Reserves(q, n)
<1>0. /\ p.queue \in Seq(Calls) /\ Len(p.queue) \in Nat /\ p.options.maxQueue \in Nat
      /\ Len(p.queue) <= p.options.maxQueue
  BY DEF Inv, Sound, PoolType, OptionsType, Within
<1>1. MadeRoom(p, n) = q BY DEF MadeRoom
<1>2. gone \in 0..Len(p.queue) /\ (n = 0 => gone = 0)
  <2>1. PICK a \in Nat : a = Len(p.queue) BY <1>0
  <2>2. PICK b \in Nat : b = p.options.maxQueue BY <1>0
  <2>3. a <= b BY <1>0, <2>1, <2>2
  <2>4. gone = IF p.options.policy = "drop-oldest" THEN Smaller(AtLeast0(a + n - b), a) ELSE 0
    BY <2>1, <2>2
  <2> HIDE DEF gone
  <2>5. gone \in 0..a /\ (n = 0 => gone = 0) BY <2>3, <2>4 DEF Smaller, AtLeast0
  <2> QED BY <2>1, <2>5
<1> HIDE DEF gone
<1> HIDE DEF q
<1>3. Discards(p, q, X, {}) /\ q.queue = SubSeq(p.queue, gone + 1, Len(p.queue))
  BY <1>2, FrontDiscarded DEF q
<1>4. Inv(q) /\ Follows(p, q, {}, {}) /\ SameCrew(p, q) /\ SameRest(p, q)
  BY <1>3 DEF Discards
<1>5. /\ Len(q.queue) \in Nat /\ q.options.maxQueue \in Nat /\ Len(q.queue) <= q.options.maxQueue
  BY <1>4, Bounded
<1>6. /\ m \in 0..n /\ Len(q.queue) + m <= q.options.maxQueue
      /\ n # 0 /\ m = 0 /\ Len(q.queue) = 0 => q.options.maxQueue = 0
  <2>1. PICK a \in Nat : a = Len(q.queue) BY <1>5
  <2>2. PICK b \in Nat : b = q.options.maxQueue BY <1>5
  <2>3. a <= b BY <1>5, <2>1, <2>2
  <2>4. m = Smaller(n, AtLeast0(b - a)) BY <2>1, <2>2 DEF Reserves
  <2>5. m \in 0..n /\ a + m <= b /\ (n # 0 /\ m = 0 /\ a = 0 => b = 0)
    BY <2>3, <2>4 DEF Smaller, AtLeast0
  <2> QED BY <2>1, <2>2, <2>5
<1>7. n = 0 => q.queue = p.queue
  <2>1. PICK s \in Seq(Calls) : s = p.queue BY <1>0
  <2>2. SubSeq(s, 0 + 1, Len(s)) = s
    <3> DEFINE t == SubSeq(s, 0 + 1, Len(s))
    <3>1. t \in Seq(Calls) /\ Len(t) = Len(s) /\ \A i \in 1..Len(s) : t[i] = s[i]
      <4>1. 0 + 1 = 1 /\ Len(s) \in 0..Len(s) OBVIOUS
      <4> QED BY <4>1, FirstOf
    <3> HIDE DEF t
    <3>2. t = s BY <3>1, SeqEqual
    <3> QED BY <3>2 DEF t
  <2> QED BY <1>2, <1>3, <2>1, <2>2
<1>8. ASSUME p.queue = << >> PROVE q.queue = << >>
  <2>1. q.queue \in Seq(Calls) BY <1>4 DEF Inv, Sound, PoolType
  <2>5. In(p.queue) = {} BY <1>8 DEF In
  <2>2. In(q.queue) = {} BY <1>3, <2>5 DEF Discards
  <2>3. PICK s \in Seq(Calls) : s = q.queue BY <2>1
  <2>4. s = << >>
    <3>1. s # << >> => s[1] \in In(s) BY DEF In
    <3> QED BY <2>2, <2>3, <3>1
  <2> QED BY <2>3, <2>4
<1>9. q.queue = << >> => Len(q.queue) = 0 OBVIOUS
<1> HIDE DEF m
<1> QED BY <1>1, <1>4, <1>6, <1>7, <1>8, <1>9 DEF m

(* The end of postMessageBatch().                                          *)
LEMMA BatchEndsGoes ==
  ASSUME NEW p, Inv(p), NEW items, IsBatch(p, items), \A i \in 1..Len(items) : items[i] \notin p.options.requests,
         NEW s, Batching(p, items, Len(items), s)
  PROVE  Goes(p, BatchEnds(p, s), In(items)) /\ (Announced(p) => Announced(BatchEnds(p, s)))
<1> DEFINE n == Len(s.queued)
           room == MadeRoom(s.p, n)
           m == Reserves(room, n)
           admitted == SubSeq(s.queued, 1, m)
           rest == SubSeq(s.queued, Len(admitted) + 1, n)
           left == TurnedDown(room, rest)
           after == [left EXCEPT !.queue = EnqueuedAll(left, admitted)]
<1>0. BatchEnds(p, s) = IF after.active # p.active \/ admitted # << >> THEN UpdateIdleState(after) ELSE after
  BY DEF BatchEnds
<1>1. /\ s.queued \in Seq(Calls) /\ n \in Nat /\ Distinct(s.queued)
      /\ Inv(s.p) /\ Follows(p, s.p, First(items, Len(items)), {}) /\ SameRest(p, s.p)
      /\ \A c \in In(s.queued) : s.p.outcome[c] = "sent" /\ Loose(s.p, c)
      /\ In(s.queued) \subseteq First(items, Len(items))
  BY DEF Batching
<1>2. First(items, Len(items)) = In(items) BY DEF First, In
<1>3. \A c \in In(items) : c \in Calls /\ c \notin p.options.requests
  BY DEF In, IsBatch
<1>4. /\ Inv(room) /\ Follows(s.p, room, {}, {}) /\ SameCrew(s.p, room) /\ SameRest(s.p, room)
      /\ m \in 0..n /\ Len(room.queue) + m <= room.options.maxQueue
      /\ n = 0 => room.queue = s.p.queue
      /\ s.p.queue = << >> => room.queue = << >>
      /\ n # 0 /\ m = 0 /\ room.queue = << >> => room.options.maxQueue = 0
  BY <1>1, RoomMade
<1> HIDE DEF room, m
<1>5. /\ admitted \in Seq(Calls) /\ Len(admitted) = m /\ In(admitted) \subseteq In(s.queued)
      /\ Distinct(admitted) /\ \A i \in 1..m : admitted[i] = s.queued[i]
  BY <1>1, <1>4, FirstOf
<1>6. rest \in Seq(Calls) /\ In(rest) = In(s.queued) \ {s.queued[i] : i \in 1..m}
  <2>1. PICK t \in Seq(Calls) : t = s.queued BY <1>1
  <2>2. m \in 0..Len(t) /\ Distinct(t) BY <1>1, <1>4, <2>1
  <2> DEFINE u == SubSeq(t, m + 1, Len(t))
  <2>3. u \in Seq(Calls) /\ In(u) = In(t) \ {t[i] : i \in 1..m} BY <2>2, RestOf
  <2>4. rest = u BY <1>5, <2>1
  <2> HIDE DEF rest, u
  <2> QED BY <2>1, <2>3, <2>4
<1>7. In(admitted) = {s.queued[i] : i \in 1..m} BY <1>5 DEF In
<1> HIDE DEF n, admitted, rest
<1>8. \A c \in In(s.queued) : c \in Calls /\ room.outcome[c] = "sent" /\ Loose(room, c) /\ c \notin room.options.requests
  BY <1>1, <1>2, <1>3, <1>4 DEF Follows
<1>9. /\ Inv(left) /\ Follows(room, left, In(rest), {})
      /\ SameCrew(room, left) /\ SameQueue(room, left) /\ SameRest(room, left)
  <2>1. \A i \in 1..Len(rest) : room.outcome[rest[i]] \in {"new", "sent"} BY <1>6, <1>8 DEF In
  <2> QED BY <1>4, <1>6, <2>1, TurnedDownKeeps
<1> HIDE DEF left
<1>10. left.options = room.options /\ left.queue = room.queue BY <1>9 DEF Follows, SameQueue
<1>11. \A i \in 1..Len(admitted) : /\ left.outcome[admitted[i]] = "sent" /\ Loose(left, admitted[i])
                                   /\ admitted[i] \notin left.options.requests
  <2> SUFFICES ASSUME NEW c \in In(admitted)
               PROVE  left.outcome[c] = "sent" /\ Loose(left, c) /\ c \notin left.options.requests
    BY DEF In
  <2>1. c \in In(s.queued) /\ c \notin In(rest) BY <1>5, <1>6, <1>7
  <2> QED BY <1>8, <1>9, <2>1 DEF Follows
<1>12. /\ Inv(after) /\ Follows(left, after, In(admitted), {}) /\ SameCrew(left, after) /\ SameRest(left, after)
       /\ admitted = << >> => after.queue = left.queue
  BY <1>4, <1>5, <1>9, <1>10, <1>11, QueuedKeeps
<1> HIDE DEF after
<1>13. Follows(p, after, In(items), {})
  <2>1. Follows(p, room, In(items), {})
    <3>1. In(items) \cup {} = In(items) /\ {} \cup {} = {} OBVIOUS
    <3>2. Follows(p, s.p, In(items), {}) /\ Follows(s.p, room, {}, {}) BY <1>1, <1>2, <1>4
    <3> QED BY <3>1, <3>2, FollowsOn
  <2>2. Follows(room, left, In(items), {}) /\ Follows(left, after, In(items), {})
    <3>1. In(rest) \subseteq In(items) /\ In(admitted) \subseteq In(items) BY <1>1, <1>2, <1>5, <1>6
    <3> QED BY <1>9, <1>12, <3>1, FollowsLess
  <2>3. Follows(p, left, In(items), {}) BY <2>1, <2>2, FollowsBoth
  <2> QED BY <2>2, <2>3, FollowsBoth
<1>14. SameRest(p, after) BY <1>1, <1>4, <1>9, <1>12 DEF SameRest
<1>15. Goes(p, after, In(items))
  <2>1. Follows(p, after, In(items), In(items)) BY <1>13, FollowsLess
  <2>2. Honest(p, after, In(items)) BY <1>14, RestIsHonest
  <2>3. \A c \in In(items) \cap Calls : Wanted(after, c)
    <3>1. after.options = p.options BY <1>13 DEF Follows
    <3> QED BY <1>3, <1>12, <3>1, OnlyRequestsOpen DEF Wanted
  <2> QED BY <1>12, <2>1, <2>2, <2>3 DEF Goes
<1>16. CASE after.active # p.active \/ admitted # << >>
  BY <1>0, <1>15, <1>16, GoesThenIdle
<1>17. CASE ~(after.active # p.active \/ admitted # << >>)
  <2>1. after.queue = room.queue BY <1>10, <1>12, <1>17
  <2>2. m = 0 BY <1>5, <1>17
  <2>3. p.queue = << >> => after.queue = << >>
    BY <1>4, <2>1 DEF Batching
  <2>4. after.queue = << >> => p.queue = << >>
    <3> SUFFICES ASSUME room.queue = << >> PROVE p.queue = << >>
      BY <2>1
    <3>1. CASE n = 0
      <4>1. s.queued = << >> BY <1>1, <3>1 DEF n
      <4> QED BY <1>4, <3>1, <4>1 DEF Batching
    <3>2. CASE n # 0
      <4>1. p.options.maxQueue = 0 BY <1>1, <1>4, <2>2, <3>2 DEF Follows
      <4>2. p.queue \in Seq(Calls) /\ Len(p.queue) <= 0
        BY <4>1 DEF Inv, Sound, PoolType, Within
      <4>3. PICK a \in Seq(Calls) : a = p.queue BY <4>2
      <4>4. Len(a) <= 0 BY <4>2, <4>3
      <4>5. Len(a) = 0 BY <4>4
      <4> QED BY <4>3, <4>5
    <3> QED BY <3>1, <3>2
  <2>5. Quiet(after) <=> Quiet(p) BY <1>17, <2>3, <2>4 DEF Quiet
  <2>6. Announced(p) => Announced(after) BY <1>13, <1>14, <2>5 DEF Announced, Prompt, Dead, Follows, SameRest, Waiting
  <2> QED BY <1>0, <1>15, <1>17, <2>6
<1> QED BY <1>16, <1>17

\* The recursive function of BatchResults.
IsDone(start, items, targeted, n, done) ==
  done = [i \in 0..n |->
            IF i = 0 THEN {start}
            ELSE UNION {BatchItemResults(s, items[i], targeted) : s \in done[i - 1]}]

(* The function exists.                                                    *)
LEMMA DoneExists ==
  ASSUME NEW start, NEW items, NEW targeted, NEW n \in Nat
  PROVE  \E done : IsDone(start, items, targeted, n, done)
<1> DEFINE T == {m \in 0..n : ~\E done : IsDone(start, items, targeted, m, done)}
<1>1. SUFFICES ASSUME T # {} PROVE FALSE
  OBVIOUS
<1>2. PICK m \in T : \A k \in T : m <= k
  <2>1. T \subseteq Nat OBVIOUS
  <2> HIDE DEF T
  <2> QED BY <1>1, <2>1, LeastExists
<1>3. m # 0
  <2>1. IsDone(start, items, targeted, 0, [i \in 0..0 |-> {start}])
    BY DEF IsDone
  <2> QED BY <1>2, <2>1
<1>4. PICK before : IsDone(start, items, targeted, m - 1, before)
  BY <1>2, <1>3
<1> DEFINE new == UNION {BatchItemResults(s, items[m], targeted) : s \in before[m - 1]}
           done == [i \in 0..m |-> IF i = m THEN new ELSE before[i]]
<1>5. IsDone(start, items, targeted, m, done)
  <2>1. m \in Nat BY <1>2
  <2>2. ASSUME NEW i \in 0..m
        PROVE  done[i] = IF i = 0 THEN {start}
                         ELSE UNION {BatchItemResults(s, items[i], targeted) : s \in done[i - 1]}
    <3>1. CASE i = m
      <4>1. done[i] = new /\ done[i - 1] = before[m - 1] BY <1>3, <2>1, <3>1
      <4> HIDE DEF done
      <4> QED BY <1>3, <3>1, <4>1
    <3>2. CASE i # m
      <4>1. i \in 0..(m - 1) /\ (i # 0 => i - 1 \in 0..(m - 1) /\ i - 1 # m)
        BY <2>1, <3>2
      <4>2. before[i] = IF i = 0 THEN {start}
                        ELSE UNION {BatchItemResults(s, items[i], targeted) : s \in before[i - 1]}
        BY <1>4, <4>1 DEF IsDone
      <4>3. done[i] = before[i] /\ (i # 0 => done[i - 1] = before[i - 1]) BY <2>1, <3>2, <4>1
      <4> HIDE DEF done
      <4> QED BY <4>2, <4>3
    <3> QED BY <3>1, <3>2
  <2> HIDE DEF new
  <2>3. done = [i \in 0..m |-> IF i = 0 THEN {start}
                               ELSE UNION {BatchItemResults(s, items[i], targeted) : s \in done[i - 1]}]
    BY <2>2
  <2> HIDE DEF done
  <2> QED BY <2>3 DEF IsDone
<1> QED BY <1>2, <1>5

(* postMessageBatch()                                                      *)
LEMMA BatchGoes ==
  ASSUME NEW p, Inv(p), NEW items, IsBatch(p, items), NEW target \in Ids \cup {NoWorker},
         NEW r \in BatchResults(p, items, target)
  PROVE  Goes(p, r, In(items)) /\ (Announced(p) => Announced(r))
<1> DEFINE n == Len(items)
           targeted == target # NoWorker
           chosen == IF target \in Live(p) /\ p.tasks[target] < p.options.maxTasks THEN target ELSE NoWorker
           start == [p |-> p, queued |-> << >>, chosen |-> chosen]
           done == CHOOSE f : f =
             [i \in 0..n |-> IF i = 0 THEN {start}
                             ELSE UNION {BatchItemResults(s, items[i], targeted) : s \in f[i - 1]}]
<1>0. /\ n \in Nat /\ n # 0 /\ items \in Seq(Calls) /\ Distinct(items)
      /\ \A i \in 1..n : p.outcome[items[i]] = "new" /\ items[i] \in Calls
      /\ p \in PoolType /\ p.active \in Nat
  BY DEF IsBatch, Inv, Sound, PoolType
<1>1. \/ r = TurnedDown(p, items)
      \/ r \in AwaitedBatchResults(p, items, target)
      \/ items[1] \notin p.options.requests /\ r \in {BatchEnds(p, s) : s \in done[n]}
  BY DEF BatchResults
<1>2. CASE r = TurnedDown(p, items)
  BY <1>0, <1>2, TurnedDownGoes
<1>3. CASE r \in AwaitedBatchResults(p, items, target)
  BY <1>3, AwaitedGoes
<1>4. CASE items[1] \notin p.options.requests /\ r \in {BatchEnds(p, s) : s \in done[n]}
  <2>1. IsDone(start, items, targeted, n, done)
    <3>1. PICK f : IsDone(start, items, targeted, n, f) BY <1>0, DoneExists
    <3> QED BY <3>1 DEF IsDone
  <2> HIDE DEF done
  <2>2. \A i \in 1..n : items[i] \notin p.options.requests
    <3>1. 1 \in 1..n BY <1>0
    <3> QED BY <1>4, <3>1 DEF IsBatch
  <2> DEFINE Good(m) == \A s \in done[m] : Batching(p, items, m, s)
             T == {m \in 0..n : ~Good(m)}
  <2>3. T = {}
    <3> SUFFICES ASSUME T # {} PROVE FALSE
      OBVIOUS
    <3>1. PICK m \in T : \A k \in T : m <= k
      <4>1. T \subseteq Nat BY <1>0
      <4> HIDE DEF T
      <4> QED BY <4>1, LeastExists
    <3>2. m # 0
      <4>1. done[0] = {start} BY <1>0, <2>1 DEF IsDone
      <4>2. First(items, 0) = {} BY DEF First
      <4>3. Follows(p, p, {}, {}) /\ SameRest(p, p) BY DEF Follows, SameRest
      <4>4. chosen \in Ids \cup {NoWorker} /\ (chosen = NoWorker \/ chosen \in Live(p)) OBVIOUS
      <4> HIDE DEF chosen
      <4>5. /\ start \in [p : PoolType, queued : Seq(Calls), chosen : Ids \cup {NoWorker}]
            /\ start.p = p /\ start.queued = << >> /\ start.chosen = chosen
        <5> DEFINE none == << >>
        <5>1. none \in Seq(Calls) OBVIOUS
        <5>2. start = [p |-> p, queued |-> none, chosen |-> chosen] OBVIOUS
        <5> HIDE DEF none
        <5>3. start \in [p : PoolType, queued : Seq(Calls), chosen : Ids \cup {NoWorker}]
          BY <1>0, <4>4, <5>1, <5>2
        <5> QED BY <5>3
      <4>6. In(<< >>) = {} /\ Distinct(<< >>) BY DEF In, Distinct
      <4>7. p.active <= p.active BY <1>0
      <4> HIDE DEF start
      <4>8. Batching(p, items, 0, start) BY <4>2, <4>3, <4>4, <4>5, <4>6, <4>7 DEF Batching
      <4>9. Good(0) BY <4>1, <4>8
      <4> QED BY <3>1, <4>9
    <3>3. m \in 1..n /\ m - 1 \in 0..n /\ ~(m <= m - 1)
      BY <1>0, <3>1, <3>2
    <3>4. Good(m - 1)
      BY <3>1, <3>3
    <3>5. done[m] = UNION {BatchItemResults(s, items[m], targeted) : s \in done[m - 1]}
      BY <2>1, <3>2, <3>3 DEF IsDone
    <3>6. ASSUME NEW t \in done[m] PROVE Batching(p, items, m, t)
      <4>1. PICK s \in done[m - 1] : t \in BatchItemResults(s, items[m], targeted)
        BY <3>5
      <4>2. Batching(p, items, m - 1, s) BY <3>4
      <4>3. targeted \in BOOLEAN OBVIOUS
      <4> HIDE DEF targeted, T, Good
      <4> QED BY <1>0, <2>2, <3>3, <4>1, <4>2, <4>3, BatchItemKeeps
    <3>7. Good(m) BY <3>6
    <3> HIDE DEF Good
    <3> QED BY <3>1, <3>7
  <2>4. Good(n)
    <3> HIDE DEF Good
    <3> QED BY <1>0, <2>3
  <2>5. PICK s \in done[n] : r = BatchEnds(p, s) BY <1>4
  <2>6. Batching(p, items, n, s) BY <2>4
  <2> QED BY <2>2, <2>5, <2>6, BatchEndsGoes
<1> QED BY <1>1, <1>2, <1>3, <1>4

(***************************************************************************)
(* The two loops that take work off the queue.                             *)
(***************************************************************************)

(* A step that takes nothing in hand and leaves c, whom it moves, as well  *)
(* off as it was.                                                          *)
LEMMA FollowsMoved ==
  ASSUME NEW p, NEW q, NEW c \in Calls, Follows(p, q, {c}, {c}),
         p.outcome[c] \in {"new", "sent"} => q.outcome[c] = p.outcome[c],
         ~Loose(p, c), q.outcome[c] = "open" => p.outcome[c] = "open",
         Cared(p, c) => Cared(q, c)
  PROVE  Follows(p, q, {}, {})
BY DEF Follows

(* The dequeue at the end of worker.onmessage.                             *)
LEMMA TakeNextGoes ==
  ASSUME NEW p, Inv(p), NEW w \in Live(p), p.tasks[w] < p.options.maxTasks, NEW r \in TakeNextResults(p, w)
  PROVE  Goes(p, r, {})
<1> DEFINE without(D, n) ==
             [ Settle(p, {p.options.keyOf[p.queue[i]] : i \in {j \in D : p.queue[j] \in p.options.requests}},
                      "rejected") EXCEPT
                 !.queue = Without(p.queue, {p.queue[i] : i \in (D \cup {n}) \ {0}}) ]
<1>0. /\ p \in PoolType /\ p.queue \in Seq(Calls) /\ Len(p.queue) \in Nat /\ Distinct(p.queue)
      /\ p.options.keyOf \in [Calls -> Keys]
  BY SMTT(60) DEF Inv, Sound, PoolType, Placed, OptionsType
<1>1. PICK D, n : /\ D \subseteq 1..Len(p.queue) /\ n \in 0..Len(p.queue)
                  /\ \/ n = 0 /\ r = without(D, n)
                     \/ n # 0 /\ r = Dispatch(without(D, n), p.queue[n], w, TRUE)
                     \/ n # 0 /\ p.queue[n] \in p.options.mayThrow /\ r = without(D, n)
  <2>1. PICK t \in Takes(p) :
          r \in IF t[2] = 0 THEN {without(t[1], t[2])}
                ELSE {Dispatch(without(t[1], t[2]), p.queue[t[2]], w, TRUE)}
                       \cup (IF p.queue[t[2]] \in p.options.mayThrow THEN {without(t[1], t[2])} ELSE {})
    BY DEF TakeNextResults
  <2>2. t[1] \subseteq 1..Len(p.queue) /\ t[2] \in 0..Len(p.queue)
    BY <1>0 DEF Takes
  <2> HIDE DEF without
  <2> QED BY <2>1, <2>2
<1> DEFINE X == {p.queue[i] : i \in (D \cup {n}) \ {0}}
           K == {p.options.keyOf[p.queue[i]] : i \in {j \in D : p.queue[j] \in p.options.requests}}
           E == IF n = 0 THEN {} ELSE {p.queue[n]}
           ws == Without(p.queue, X)
           q == [Settle(p, K, "rejected") EXCEPT !.queue = ws]
<1>2. Discards(p, q, X, E)
  <2>1. K \in SUBSET Keys BY <1>0, <1>1
  <2>2. KeepsOf(Calls, p.queue, X, Len(p.queue), ws) BY <1>0, WithoutKeeps
  <2>3. {p.queue[i] : i \in 1..Len(p.queue)} = In(p.queue) BY DEF In
  <2>4. \A c \in (X \cap p.options.requests) \ E : p.options.keyOf[c] \in K
    OBVIOUS
  <2> HIDE DEF X, K, E, ws
  <2>5. ws \in Seq(Calls) /\ In(ws) = In(p.queue) \ X /\ Distinct(ws) /\ Len(ws) <= Len(p.queue)
    BY <1>0, <2>2, <2>3 DEF KeepsOf
  <2> QED BY <2>1, <2>4, <2>5, DiscardedKeeps
<1>3. q = without(D, n) OBVIOUS
<1> HIDE DEF q, without
<1>4. Inv(q) /\ Follows(p, q, {}, E) /\ SameRest(p, q) BY <1>2 DEF Discards
<1>5. CASE n = 0 /\ r = without(D, n)
  BY <1>3, <1>4, <1>5, FollowsGoes
<1> DEFINE c == p.queue[n]
<1>6. ASSUME n # 0
      PROVE  /\ c \in Calls /\ c \in In(p.queue) /\ E = {c} /\ Loose(q, c) /\ ~Loose(p, c)
             /\ p.outcome[c] # "new"
  <2>1. n \in 1..Len(p.queue) BY <1>0, <1>1, <1>6
  <2>2. c \in Calls /\ c \in In(p.queue) /\ c \in X /\ E = {c} BY <1>0, <2>1 DEF In
  <2> HIDE DEF X, E, c
  <2>3. Loose(q, c) BY <1>2, <2>2 DEF Discards
  <2>4. ~Loose(p, c) BY <2>2 DEF Loose
  <2>5. p.outcome[c] # "new" BY <2>2, <2>4 DEF Inv, Placed
  <2> QED BY <2>2, <2>3, <2>4, <2>5
<1>7. q.options = p.options /\ q.uses = p.uses BY <1>4 DEF Follows
<1>8. \A d \in Calls : q.outcome[d] = "open" => p.outcome[d] = "open" BY <1>2 DEF Discards
<1> HIDE DEF X, E, c
<1>9. CASE n # 0 /\ c \in p.options.mayThrow /\ r = q
  <2>1. Cared(p, c) => Cared(q, c)
    <3>1. ~Sure(q) \/ q.outcome[c] # "open" BY <1>4, <1>6, <1>7, <1>9, OnlyRequestsOpen DEF Sure
    <3>2. q.listens = p.listens BY <1>2 DEF Discards
    <3> QED BY <1>6, <1>7, <1>8, <1>9, <3>1, <3>2 DEF Cared, Hears
  <2>2. Follows(p, q, {c}, {c}) BY <1>4, <1>6, <1>9, FollowsLess
  <2>3. p.outcome[c] \in {"new", "sent"} => q.outcome[c] = p.outcome[c]
    BY <1>4, <1>6, <1>9 DEF Follows
  <2>4. Follows(p, q, {}, {}) BY <1>6, <1>8, <1>9, <2>1, <2>2, <2>3, FollowsMoved
  <2> QED BY <1>4, <1>9, <2>4, FollowsGoes
<1>10. CASE n # 0 /\ r = Dispatch(q, c, w, TRUE)
  <2>1. q \in PoolType /\ w \in Live(q) /\ w \in Ids
    BY <1>2, CrewIsFinite DEF Discards, Inv, Sound, SameCrew, Live
  <2>2. Hands(q, r, c, w, TRUE) BY <1>6, <1>10, <2>1, DispatchHands
  <2>3. HasRoom(q, w) BY <1>2, <1>7 DEF HasRoom, Discards, SameCrew
  <2>4. /\ Inv(r) /\ Follows(q, r, {c}, {c}) /\ Cared(r, c)
        /\ r.outcome[c] = "open" => q.outcome[c] = "open"
    BY <1>4, <1>6, <1>10, <2>1, <2>2, <2>3, HandedKeeps
  <2>5. Follows(p, r, {c}, {c})
    <3>1. {} \cup {c} = {c} /\ {c} \cup {c} = {c} OBVIOUS
    <3>2. Follows(p, q, {}, {c}) BY <1>4, <1>6, <1>10
    <3> QED BY <2>4, <3>1, <3>2, FollowsOn
  <2>6. p.outcome[c] \in {"new", "sent"} => r.outcome[c] = p.outcome[c]
    BY <1>4, <1>6, <1>10, <2>2 DEF Follows, Hands
  <2>7. Follows(p, r, {}, {}) BY <1>6, <1>8, <1>10, <2>4, <2>5, <2>6, FollowsMoved
  <2>8. SameRest(p, r) BY <1>4, <2>2 DEF Hands, SameRest
  <2> QED BY <2>4, <2>7, <2>8, FollowsGoes
<1> QED BY <1>1, <1>3, <1>5, <1>9, <1>10 DEF c

(* What follows every message of a worker.                                 *)
LEMMA AfterMessageGoes ==
  ASSUME NEW p, Inv(p), NEW w \in Live(p), NEW r \in AfterMessageResults(p, w)
  PROVE  Goes(p, r, {}) /\ Announced(r)
<1>1. PICK q : /\ r = UpdateIdleState(q)
               /\ q = p \/ (p.tasks[w] < p.options.maxTasks /\ q \in TakeNextResults(p, w))
  BY DEF AfterMessageResults
<1>2. Goes(p, q, {}) BY <1>1, StaysGoes, TakeNextGoes
<1> QED BY <1>1, <1>2, GoesThenIdle

\* How the pool changes when worker w is relieved of a task, and of the calls of R.
Relieves(p, q, w, R) ==
  /\ q \in PoolType
  /\ SameGiven(p, q) /\ SameBooks(p, q) /\ SameQueue(p, q) /\ SameRest(p, q)
  /\ q.minSize = p.minSize /\ q.maxSize = p.maxSize /\ q.listens = p.listens
  /\ q.workers = p.workers /\ q.active = AtLeast0(p.active - 1)
  /\ \A v \in Ids : /\ q.tasks[v] = IF v = w THEN AtLeast0(p.tasks[v] - 1) ELSE p.tasks[v]
                    /\ q.running[v] = IF v = w THEN p.running[v] \ R ELSE p.running[v]

(* A worker that is relieved of a call has one call less, and the pool has *)
(* one task less.                                                          *)
LEMMA RelievedKeeps ==
  ASSUME NEW p, NEW q, Inv(p), NEW w \in Live(p), NEW R, Relieves(p, q, w, R),
         "chatter" \in p.uses \/ \E c \in p.running[w] : R = {c}
  PROVE  Inv(q) /\ Follows(p, q, {}, R)
<1> USE DEF Relieves
<1>0. p \in PoolType /\ Live(p) \subseteq Ids
  BY CrewIsFinite DEF Inv, Sound
<1>1. q.options = p.options /\ Live(q) = Live(p) /\ q.queue = p.queue /\ q.outcome = p.outcome
  BY DEF SameGiven, SameQueue, SameBooks, Live
<1>2. \A v \in Live(p) : /\ q.tasks[v] = IF v = w THEN AtLeast0(p.tasks[v] - 1) ELSE p.tasks[v]
                         /\ q.running[v] = IF v = w THEN p.running[v] \ R ELSE p.running[v]
  BY <1>0
<1>3. Sound(q) BY DEF Inv, Sound
<1>4. Booked(q) BY <1>1 DEF Inv, Booked, SameBooks
<1>5. \A c : Loose(p, c) => Loose(q, c) BY <1>1, <1>2 DEF Loose
<1>6. Placed(q)
  <2>1. \A c \in In(q.queue), v \in Live(q) : c \notin q.running[v] BY <1>1, <1>2 DEF Inv, Placed
  <2> QED BY <1>1, <1>5, <2>1 DEF Inv, Placed
<1>7. Crewed(q)
  <2> SUFFICES ASSUME "chatter" \notin p.uses
               PROVE  /\ \A v \in Live(p) : q.tasks[v] = Cardinality(q.running[v])
                      /\ q.active = Cardinality(InFlight(q))
    BY <1>1 DEF Crewed, SameGiven
  <2>1. PICK c \in p.running[w] : R = {c} OBVIOUS
  <2>2. /\ \A v \in Live(p) : p.tasks[v] = Cardinality(p.running[v])
        /\ p.active = Cardinality(InFlight(p))
    BY DEF Inv, Crewed
  <2>3. w \in Ids /\ c \in Calls BY <1>0 DEF PoolType
  <2>4. /\ IsFiniteSet(p.running[w]) /\ Cardinality(p.running[w]) \in Nat
        /\ IsFiniteSet(InFlight(p)) /\ Cardinality(InFlight(p)) \in Nat
    BY <1>0, CrewIsFinite
  <2>5. InFlight(q) = InFlight(p) \ {<< w, c >>}
    <3>1. ASSUME NEW v \in Live(p), NEW d \in Calls
          PROVE  d \in q.running[v] <=> d \in p.running[v] /\ << v, d >> # << w, c >>
      BY <1>2, <2>1
    <3> QED BY <1>1, <3>1 DEF InFlight
  <2>6. << w, c >> \in InFlight(p) BY <2>3 DEF InFlight
  <2>7. /\ Cardinality(p.running[w] \ {c}) = Cardinality(p.running[w]) - 1
        /\ Cardinality(InFlight(p) \ {<< w, c >>}) = Cardinality(InFlight(p)) - 1
    BY <2>4, <2>6, FS_RemoveElement
  <2>8. \A m \in Nat, k \in Nat : k = m - 1 => AtLeast0(m - 1) = k BY DEF AtLeast0
  <2>9. Cardinality(p.running[w] \ {c}) \in Nat /\ Cardinality(InFlight(p) \ {<< w, c >>}) \in Nat
    <3>1. IsFiniteSet(p.running[w] \ {c}) /\ IsFiniteSet(InFlight(p) \ {<< w, c >>})
      BY <2>4, FS_RemoveElement
    <3> QED BY <3>1, FS_CardinalityType
  <2>10. q.active = Cardinality(InFlight(q)) BY <2>2, <2>4, <2>5, <2>7, <2>8, <2>9
  <2>11. q.tasks[w] = Cardinality(q.running[w])
    <3>1. q.running[w] = p.running[w] \ {c} /\ q.tasks[w] = AtLeast0(p.tasks[w] - 1) BY <1>2, <2>1
    <3> QED BY <2>2, <2>4, <2>7, <2>8, <2>9, <3>1
  <2> QED BY <1>2, <2>2, <2>10, <2>11
<1>8. Within(q)
  <2>1. ASSUME "broadcast" \notin p.uses, p.options.taskQueue, NEW v \in Live(p)
        PROVE  q.tasks[v] <= p.options.maxTasks
    <3>1. p.tasks[v] \in Nat /\ p.options.maxTasks \in Nat /\ p.tasks[v] <= p.options.maxTasks
      BY <1>0, <2>1 DEF Inv, Within, PoolType, OptionsType
    <3>2. q.tasks[v] = IF v = w THEN AtLeast0(p.tasks[v] - 1) ELSE p.tasks[v] BY <1>2
    <3>3. PICK a \in Nat : a = p.tasks[v] BY <3>1
    <3>4. PICK m \in Nat : m = p.options.maxTasks BY <3>1
    <3>5. a <= m /\ q.tasks[v] = IF v = w THEN AtLeast0(a - 1) ELSE a BY <3>1, <3>2, <3>3, <3>4
    <3>6. q.tasks[v] <= m BY <3>5 DEF AtLeast0
    <3> QED BY <3>4, <3>6
  <2> QED BY <1>1, <2>1 DEF Inv, Within, SameGiven
<1>9. Restful(q) BY DEF Inv, Restful, Waiting, SameRest
<1>10. \A c \in Calls \ R : Cared(p, c) => Cared(q, c)
  BY <1>1, <1>2 DEF Cared, Hears, Sure, Carried, SameBooks
<1>11. Follows(p, q, {}, R) BY <1>1, <1>5, <1>10 DEF Follows, SameGiven
<1> QED BY <1>3, <1>4, <1>6, <1>7, <1>8, <1>9, <1>11 DEF Inv

(* The message is counted as the end of a task.                            *)
LEMMA UncountedRelieves ==
  ASSUME NEW p \in PoolType, NEW w \in Ids, NEW R
  PROVE  /\ Relieves(p, [Uncounted(p, w) EXCEPT !.running[w] = p.running[w] \ R], w, R)
         /\ R = {} => Relieves(p, Uncounted(p, w), w, R)
<1> DEFINE tasks == [p.tasks EXCEPT ![w] = AtLeast0(p.tasks[w] - 1)]
           running == [p.running EXCEPT ![w] = p.running[w] \ R]
           worked == [p.worked EXCEPT ![w] = p.worked[w] \/ p.tasks[w] > 0]
           active == AtLeast0(p.active - 1)
           u == [p EXCEPT !.tasks = tasks, !.active = active, !.worked = worked]
           q == [p EXCEPT !.tasks = tasks, !.active = active, !.worked = worked, !.running = running]
<1>1. Uncounted(p, w) = u BY DEF Uncounted, PoolType
<1>2. [Uncounted(p, w) EXCEPT !.running[w] = p.running[w] \ R] = q BY DEF Uncounted, PoolType
<1>3. /\ tasks \in [Ids -> Nat]
      /\ \A v \in Ids : tasks[v] = IF v = w THEN AtLeast0(p.tasks[v] - 1) ELSE p.tasks[v]
  <2>1. p.tasks \in [Ids -> Nat] /\ p.tasks[w] \in Nat BY DEF PoolType
  <2>2. PICK n \in Nat : n = p.tasks[w] BY <2>1
  <2> DEFINE new == AtLeast0(p.tasks[w] - 1)
  <2>3. new \in Nat BY <2>2 DEF AtLeast0
  <2>4. tasks = [p.tasks EXCEPT ![w] = new] OBVIOUS
  <2>5. \A v \in Ids : v = w => new = AtLeast0(p.tasks[v] - 1) OBVIOUS
  <2> HIDE DEF new, tasks
  <2> QED BY <2>1, <2>3, <2>4, <2>5
<1>4. /\ running \in [Ids -> SUBSET Calls]
      /\ \A v \in Ids : running[v] = IF v = w THEN p.running[v] \ R ELSE p.running[v]
  BY DEF PoolType
<1>5. worked \in [Ids -> BOOLEAN]
  <2>1. p.worked \in [Ids -> BOOLEAN] /\ p.worked[w] \in BOOLEAN BY DEF PoolType
  <2> QED BY <2>1
<1>6. active \in Nat /\ active = AtLeast0(p.active - 1)
  <2>1. PICK n \in Nat : n = p.active BY DEF PoolType
  <2> QED BY <2>1 DEF AtLeast0
<1>7. R = {} => running = p.running BY DEF PoolType
<1> HIDE DEF tasks, running, worked, active
<1>8. q \in PoolType /\ u \in PoolType BY <1>3, <1>4, <1>5, <1>6 DEF PoolType
<1>9. q.tasks = tasks /\ q.active = active /\ q.running = running BY DEF PoolType
<1>10. u.tasks = tasks /\ u.active = active /\ u.running = p.running BY DEF PoolType
<1>11. /\ SameGiven(p, q) /\ SameBooks(p, q) /\ SameQueue(p, q) /\ SameRest(p, q)
       /\ q.minSize = p.minSize /\ q.maxSize = p.maxSize /\ q.listens = p.listens
       /\ q.workers = p.workers
  BY DEF SameGiven, SameBooks, SameQueue, SameRest, PoolType
<1>12. /\ SameGiven(p, u) /\ SameBooks(p, u) /\ SameQueue(p, u) /\ SameRest(p, u)
       /\ u.minSize = p.minSize /\ u.maxSize = p.maxSize /\ u.listens = p.listens
       /\ u.workers = p.workers
  BY DEF SameGiven, SameBooks, SameQueue, SameRest, PoolType
<1> HIDE DEF q, u
<1>13. Relieves(p, q, w, R) BY <1>3, <1>4, <1>6, <1>8, <1>9, <1>11 DEF Relieves
<1>14. R = {} => Relieves(p, u, w, R) BY <1>3, <1>4, <1>6, <1>7, <1>8, <1>10, <1>12 DEF Relieves
<1> QED BY <1>1, <1>2, <1>13, <1>14

(* worker.onmessage for a message that answers nothing.                    *)
LEMMA ChatterGoes ==
  ASSUME NEW p, Inv(p), "chatter" \in p.uses, NEW w \in Live(p), NEW r \in ChatterResults(p, w)
  PROVE  Goes(p, r, {}) /\ Announced(r)
<1> DEFINE q == Uncounted(p, w)
<1>1. p \in PoolType /\ w \in Ids BY CrewIsFinite DEF Inv, Sound
<1>2. Relieves(p, q, w, {}) BY <1>1, UncountedRelieves
<1>3. r \in AfterMessageResults(q, w) BY DEF ChatterResults
<1> HIDE DEF q
<1>4. Inv(q) /\ Follows(p, q, {}, {}) BY <1>2, RelievedKeeps
<1>5. SameRest(p, q) /\ w \in Live(q) BY <1>2 DEF Relieves, Live
<1>6. Goes(p, q, {}) BY <1>4, <1>5, FollowsGoes
<1>7. Goes(q, r, {}) /\ Announced(r) BY <1>3, <1>4, <1>5, AfterMessageGoes
<1> QED BY <1>6, <1>7, GoesThenPost

(* worker.onmessage for the answer to a call.                              *)
LEMMA ReplyGoes ==
  ASSUME NEW p, Inv(p), NEW w \in Live(p), NEW c \in p.running[w], NEW r \in ReplyResults(p, w, c)
  PROVE  Goes(p, r, {}) /\ Announced(r)
<1> DEFINE done == [Uncounted(p, w) EXCEPT !.running[w] = p.running[w] \ {c}]
           how == IF p.pending[p.options.keyOf[c]] = c THEN "resolved" ELSE "misanswered"
           answered == IF c \notin p.options.requests THEN done
                       ELSE Settle(done, {p.options.keyOf[c]}, how)
<1>1. p \in PoolType /\ w \in Ids /\ c \in Calls /\ p.options.keyOf \in [Calls -> Keys]
  BY CrewIsFinite DEF Inv, Sound, PoolType, OptionsType
<1>2. Relieves(p, done, w, {c}) BY <1>1, UncountedRelieves
<1>3. r \in AfterMessageResults(answered, w) BY DEF ReplyResults
<1> HIDE DEF done
<1>4. Inv(done) /\ Follows(p, done, {}, {c}) BY <1>2, RelievedKeeps
<1>5. SameRest(p, done) /\ w \in Live(done) /\ done.options = p.options
  BY <1>2 DEF Relieves, Live, SameGiven
<1>6. /\ Inv(answered) /\ Follows(done, answered, {}, {}) /\ SameRest(done, answered)
      /\ w \in Live(answered) /\ answered.outcome[c] # "open"
  <2>1. CASE c \notin p.options.requests
    <3>1. answered = done BY <2>1
    <3> QED BY <1>1, <1>4, <1>5, <2>1, <3>1, StaysGoes, OnlyRequestsOpen DEF Goes, SameRest
  <2>2. CASE c \in p.options.requests
    <3>1. answered = Settle(done, {p.options.keyOf[c]}, how) /\ how \in Settled BY <2>2 DEF Settled
    <3>2. done \in PoolType BY <1>4 DEF Inv, Sound
    <3>3. {p.options.keyOf[c]} \in SUBSET Keys BY <1>1
    <3> HIDE DEF answered, how
    <3>4. Settles(done, answered, {p.options.keyOf[c]}, how) BY <3>1, <3>2, SettleSettles
    <3>5. Inv(answered) /\ Follows(done, answered, {}, {}) /\ answered.outcome[c] # "open"
      BY <1>1, <1>4, <1>5, <3>1, <3>3, <3>4, SettledKeeps
    <3> QED BY <1>5, <3>4, <3>5 DEF Settles, SameCrew, Live
  <2> QED BY <2>1, <2>2
<1> HIDE DEF answered
<1>7. Follows(p, answered, {}, {c})
  <2>1. {} \cup {} = {} /\ {c} \cup {} = {c} OBVIOUS
  <2> QED BY <1>4, <1>6, <2>1, FollowsOn
<1>8. Follows(p, answered, {}, {}) BY <1>6, <1>7 DEF Follows, Cared
<1>9. SameRest(p, answered) BY <1>5, <1>6 DEF SameRest
<1>10. Goes(p, answered, {}) BY <1>6, <1>8, <1>9, FollowsGoes
<1>11. Goes(answered, r, {}) /\ Announced(r) BY <1>3, <1>6, AfterMessageGoes
<1> QED BY <1>10, <1>11, GoesThenPost

(* A queued call goes to a worker.                                         *)
LEMMA MovedKeeps ==
  ASSUME NEW p, NEW q, NEW r, NEW c \in Calls, NEW w \in Live(q), Inv(q), Follows(p, q, {}, {c}), SameRest(p, q),
         Loose(q, c), ~Loose(p, c), p.outcome[c] # "new", q.outcome[c] = "open" => p.outcome[c] = "open",
         HasRoom(q, w), Hands(q, r, c, w, TRUE)
  PROVE  Inv(r) /\ Follows(p, r, {}, {}) /\ SameRest(p, r)
<1>1. /\ Inv(r) /\ Follows(q, r, {c}, {c}) /\ Cared(r, c)
      /\ r.outcome[c] = "open" => q.outcome[c] = "open"
  BY HandedKeeps
<1>2. Follows(p, r, {c}, {c})
  <2>1. {} \cup {c} = {c} /\ {c} \cup {c} = {c} OBVIOUS
  <2> QED BY <1>1, <2>1, FollowsOn
<1>3. p.outcome[c] \in {"new", "sent"} => r.outcome[c] = p.outcome[c]
  BY DEF Follows, Hands
<1>4. Follows(p, r, {}, {}) BY <1>1, <1>2, <1>3, FollowsMoved
<1>5. SameRest(p, r) BY DEF Hands, SameRest
<1> QED BY <1>1, <1>4, <1>5

(* A queued call is lost, as the post to its worker threw.                 *)
LEMMA LostKeeps ==
  ASSUME NEW p, NEW q, NEW c \in Calls, Inv(q), Follows(p, q, {}, {c}),
         ~Loose(p, c), p.outcome[c] # "new", q.outcome[c] = p.outcome[c],
         c \in p.options.mayThrow, q.listens = p.listens
  PROVE  Follows(p, q, {}, {})
<1>1. q.options = p.options BY DEF Follows
<1>2. ~Sure(q) \/ q.outcome[c] # "open" BY <1>1, OnlyRequestsOpen DEF Sure
<1>3. Cared(p, c) => Cared(q, c) BY <1>1, <1>2 DEF Cared, Hears
<1>4. Follows(p, q, {c}, {c}) BY FollowsLess
<1> QED BY <1>3, <1>4, FollowsMoved

(* The first item comes off the queue, to go elsewhere.                    *)
LEMMA FirstTaken ==
  ASSUME NEW p, Inv(p), p.queue # << >>
  PROVE  LET q == [p EXCEPT !.queue = Tail(p.queue)]
             c == p.queue[1]
         IN  /\ c \in Calls /\ Inv(q) /\ Follows(p, q, {}, {c}) /\ Loose(q, c)
             /\ ~Loose(p, c) /\ p.outcome[c] # "new"
             /\ q.outcome = p.outcome /\ q.listens = p.listens
             /\ SameCrew(p, q) /\ SameRest(p, q) /\ q.queue = Tail(p.queue)
<1> DEFINE ws == Tail(p.queue)
           q == [p EXCEPT !.queue = ws]
           c == p.queue[1]
<1>0. p \in PoolType /\ p.queue \in Seq(Calls) /\ Distinct(p.queue)
  BY DEF Inv, Sound, PoolType, Placed
<1>1. PICK s \in Seq(Calls) : s = p.queue BY <1>0
<1>2. /\ ws \in Seq(Calls) /\ Len(ws) <= Len(p.queue) /\ Distinct(ws)
      /\ In(ws) = In(p.queue) \ {c} /\ c \in Calls /\ c \in In(p.queue)
  <2>1. s # << >> /\ Distinct(s) BY <1>0, <1>1
  <2>2. Tail(s) = SubSeq(s, 1 + 1, Len(s)) /\ 1 \in 0..Len(s) BY <2>1, TailIsRest
  <2> DEFINE t == SubSeq(s, 1 + 1, Len(s))
  <2>3. /\ t \in Seq(Calls) /\ Len(t) <= Len(s) /\ Distinct(t)
        /\ In(t) = In(s) \ {s[i] : i \in 1..1}
    BY <2>1, <2>2, RestOf
  <2> HIDE DEF t
  <2>4. ws = t BY <1>1, <2>2 DEF t
  <2>5. {s[i] : i \in 1..1} = {s[1]} OBVIOUS
  <2>6. s[1] \in Calls /\ s[1] \in In(s) BY <2>1 DEF In
  <2> QED BY <1>1, <2>3, <2>4, <2>5, <2>6
<1> HIDE DEF ws, c
<1>3. q \in PoolType /\ q.queue = ws BY <1>0, <1>2 DEF PoolType
<1>4. Shortens(p, q, {c}) /\ q.outcome = p.outcome
  BY <1>0, <1>2, <1>3 DEF Shortens, SameGiven, SameCrew, SameBooks, SameRest, PoolType
<1> HIDE DEF q
<1>5. Inv(q) /\ Follows(p, q, {}, {c}) /\ Loose(q, c) BY <1>2, <1>4, ShortenedKeeps
<1>6. ~Loose(p, c) BY <1>2 DEF Loose
<1>7. p.outcome[c] # "new" BY <1>2, <1>6 DEF Inv, Placed
<1> QED BY <1>2, <1>3, <1>4, <1>5, <1>6, <1>7 DEF q, c, ws, Shortens

\* The workers that have room in this pass.
Open(s) == Without(ReadyWorkers(s.p), {w \in Ids : s.free[w] <= 0})

\* The pool p and what _dispatchQueuedTasks() has done of its first n items: either all of
\* them are off the queue, or there was nobody to take them.
Offering(p, n, s) ==
  /\ s \in [p : PoolType, free : [Ids -> Int], sent : BOOLEAN]
  /\ Inv(s.p) /\ Follows(p, s.p, {}, {}) /\ SameRest(p, s.p)
  /\ \A w \in Live(s.p) : s.free[w] <= s.p.options.maxTasks - s.p.tasks[w]
  /\ \/ Open(s) = << >> \/ ~UnderLimit(s.p)
     \/ /\ Len(s.p.queue) = Len(p.queue) - n
        /\ \A i \in 1..(Len(p.queue) - n) : s.p.queue[i] = p.queue[n + i]
  /\ ~s.sent /\ Dead(p) = {} /\ p.options.mayThrow = {} =>
       s.p.queue = p.queue /\ s.p.active = p.active

(* A worker with room is a worker.                                         *)
LEMMA OpenIsLive ==
  ASSUME NEW s, s.p \in PoolType, Open(s) # << >>
  PROVE  Head(Open(s)) \in Live(s.p) /\ Head(Open(s)) \in Ids /\ ~(s.free[Head(Open(s))] <= 0)
<1> DEFINE X == {w \in Ids : ~s.p.ready[w]}
           Y == {w \in Ids : s.free[w] <= 0}
           ready == ReadyWorkers(s.p)
           open == Without(ready, Y)
<1>1. s.p.workers \in Seq(Ids) BY DEF PoolType
<1>2. KeepsOf(Ids, s.p.workers, X, Len(s.p.workers), ready)
  BY <1>1, WithoutKeeps DEF ReadyWorkers
<1>3. Open(s) = open BY DEF Open
<1> HIDE DEF ready, X
<1>4. ready \in Seq(Ids) /\ In(ready) \subseteq Live(s.p) BY <1>2 DEF KeepsOf, Live
<1>5. KeepsOf(Ids, ready, Y, Len(ready), open) BY <1>4, WithoutKeeps
<1> HIDE DEF open
<1>6. open \in Seq(Ids) /\ In(open) = In(ready) \ Y BY <1>5 DEF KeepsOf, In
<1>7. Head(open) \in In(open) /\ Head(open) \in Ids BY <1>3, <1>6 DEF In
<1> QED BY <1>3, <1>4, <1>6, <1>7

(* One item more.                                                          *)
LEMMA OfferKeeps ==
  ASSUME NEW p, p.queue \in Seq(Calls), NEW n \in 1..Len(p.queue), NEW s, Offering(p, n - 1, s),
         NEW throws, throws \subseteq p.options.mayThrow
  PROVE  Offering(p, n, Offer(s, p.queue[n], throws))
<1> DEFINE c == p.queue[n]
           P == s.p
           open == Open(s)
           w == Head(open)
           rest == [P EXCEPT !.queue = Tail(P.queue)]
           dropped == [Settle(P, QueuedKeys(P, 1), "rejected") EXCEPT !.queue = Tail(P.queue)]
           t == Offer(s, c, throws)
           Record == [p : PoolType, free : [Ids -> Int], sent : BOOLEAN]
<1>1. t = IF open = << >> \/ ~UnderLimit(P) THEN s
          ELSE IF c \in Dead(P) THEN [s EXCEPT !.p = dropped]
          ELSE IF c \in throws THEN [s EXCEPT !.p = rest, !.free[w] = 0]
          ELSE [p |-> Dispatch(rest, c, w, TRUE), free |-> [s.free EXCEPT ![w] = s.free[w] - 1], sent |-> TRUE]
  BY DEF Offer, Open
<1>2. /\ s \in Record /\ s.free \in [Ids -> Int]
      /\ Inv(P) /\ P \in PoolType /\ Follows(p, P, {}, {}) /\ SameRest(p, P)
      /\ P.options = p.options /\ Dead(P) = Dead(p) /\ Live(P) \subseteq Ids
      /\ \A v \in Live(P) : s.free[v] <= P.options.maxTasks - P.tasks[v]
      /\ ~s.sent /\ Dead(p) = {} /\ p.options.mayThrow = {} =>
           P.queue = p.queue /\ P.active = p.active
  BY CrewIsFinite DEF Offering, Follows, Dead, Inv, Sound
<1> HIDE DEF t
<1>5. s.free \in [Ids -> Int] /\ P.tasks \in [Ids -> Nat] /\ P.options.maxTasks \in Nat
  BY <1>2 DEF PoolType, OptionsType
<1>3. CASE open = << >> \/ ~UnderLimit(P)
  <2>1. t = s BY <1>1, <1>3
  <2>2. Offering(p, n, s) BY <1>3 DEF Offering
  <2> QED BY <2>1, <2>2 DEF t
<1>4. CASE ~(open = << >> \/ ~UnderLimit(P))
  <2>1. /\ Len(P.queue) = Len(p.queue) - (n - 1)
        /\ \A i \in 1..(Len(p.queue) - (n - 1)) : P.queue[i] = p.queue[(n - 1) + i]
    BY <1>4 DEF Offering
  <2>2. P.queue \in Seq(Calls) BY <1>2 DEF PoolType
  <2>3. PICK u \in Seq(Calls) : u = P.queue BY <2>2
  <2>4. PICK m \in Nat : m = Len(p.queue) OBVIOUS
  <2>5. Len(u) = m - (n - 1) /\ n \in 1..m /\ \A i \in 1..(m - (n - 1)) : u[i] = p.queue[(n - 1) + i]
    BY <2>1, <2>3, <2>4
  <2>6. /\ u # << >> /\ u[1] = c /\ Len(Tail(u)) = m - n
        /\ \A i \in 1..(m - n) : Tail(u)[i] = p.queue[n + i]
    <3>1. Len(u) # 0 /\ 1 \in 1..(m - (n - 1)) /\ (n - 1) + 1 = n BY <2>5
    <3>2. u # << >> /\ u[1] = c BY <2>5, <3>1
    <3>3. Len(Tail(u)) = Len(u) - 1 /\ \A i \in 1..(Len(u) - 1) : Tail(u)[i] = u[i + 1]
      BY <3>2
    <3>4. Len(u) - 1 = m - n BY <2>5
    <3>5. \A i \in 1..(m - n) : i + 1 \in 1..(m - (n - 1)) /\ (n - 1) + (i + 1) = n + i BY <2>5
    <3> QED BY <2>5, <3>2, <3>3, <3>4, <3>5
  <2>7. /\ P.queue # << >> /\ P.queue[1] = c /\ Len(Tail(P.queue)) = Len(p.queue) - n
        /\ \A i \in 1..(Len(p.queue) - n) : Tail(P.queue)[i] = p.queue[n + i]
    BY <2>3, <2>4, <2>6
  <2>8. w \in Live(P) /\ w \in Ids /\ ~(s.free[w] <= 0) BY <1>2, <1>4, OpenIsLive
  <2>9. /\ c \in Calls /\ Inv(rest) /\ Follows(P, rest, {}, {c}) /\ Loose(rest, c)
        /\ ~Loose(P, c) /\ P.outcome[c] # "new"
        /\ rest.outcome = P.outcome /\ rest.listens = P.listens
        /\ SameCrew(P, rest) /\ SameRest(P, rest) /\ rest.queue = Tail(P.queue)
    <3> DEFINE e == P.queue[1]
    <3>1. /\ e \in Calls /\ Inv(rest) /\ Follows(P, rest, {}, {e}) /\ Loose(rest, e)
          /\ ~Loose(P, e) /\ P.outcome[e] # "new"
          /\ rest.outcome = P.outcome /\ rest.listens = P.listens
          /\ SameCrew(P, rest) /\ SameRest(P, rest) /\ rest.queue = Tail(P.queue)
      BY <1>2, <2>7, FirstTaken
    <3>2. e = c BY <2>7
    <3> HIDE DEF rest, e, c, P
    <3> QED BY <3>1, <3>2
  <2> HIDE DEF c, P, open, w, rest, dropped
  <2>10. CASE c \in Dead(P)
    <3>1. Discards(P, dropped, {c}, {}) /\ dropped.queue = Tail(P.queue)
      BY <1>2, <2>7, OldestDiscarded DEF dropped
    <3>2. Inv(dropped) /\ Follows(P, dropped, {}, {}) /\ SameRest(P, dropped) /\ SameCrew(P, dropped)
      BY <3>1 DEF Discards
    <3>3. dropped \in PoolType BY <3>2 DEF Inv, Sound
    <3>4. t \in Record /\ t.p = dropped /\ t.free = s.free /\ t.sent = s.sent
      BY <1>1, <1>2, <1>4, <2>10, <3>3
    <3>5. Follows(p, dropped, {}, {}) /\ SameRest(p, dropped) BY <1>2, <3>2, FollowsBoth DEF SameRest
    <3>6. \A v \in Live(dropped) : s.free[v] <= dropped.options.maxTasks - dropped.tasks[v]
      BY <1>2, <3>2 DEF SameCrew, Live, Follows
    <3>7. Dead(p) # {} BY <1>2, <2>10
    <3>8. Offering(p, n, t) BY <2>7, <3>1, <3>2, <3>4, <3>5, <3>6, <3>7 DEF Offering
    <3> QED BY <3>8 DEF t, c
  <2>11. CASE c \notin Dead(P) /\ c \in throws
    <3>1. rest \in PoolType BY <2>9 DEF Inv, Sound
    <3> DEFINE free == [s.free EXCEPT ![w] = 0]
    <3>2. free \in [Ids -> Int] /\ \A v \in Ids : free[v] = IF v = w THEN 0 ELSE s.free[v]
      <4> DEFINE zero == 0
      <4>1. zero \in Int OBVIOUS
      <4>2. free = [s.free EXCEPT ![w] = zero] OBVIOUS
      <4>3. PICK old \in [Ids -> Int] : old = s.free BY <1>5
      <4> HIDE DEF zero, free
      <4>4. free \in [Ids -> Int] /\ \A v \in Ids : free[v] = IF v = w THEN zero ELSE old[v]
        BY <4>1, <4>2, <4>3
      <4> QED BY <4>3, <4>4 DEF zero
    <3>3. t = [s EXCEPT !.p = rest, !.free = free] BY <1>1, <1>2, <1>4, <2>11
    <3> HIDE DEF free
    <3>4. t \in Record /\ t.p = rest /\ t.free = free /\ t.sent = s.sent
      BY <1>2, <3>1, <3>2, <3>3
    <3>5. Follows(P, rest, {}, {})
      <4>1. c \in P.options.mayThrow /\ rest.outcome[c] = P.outcome[c] BY <1>2, <2>9, <2>11
      <4> QED BY <2>9, <4>1, LostKeeps
    <3>6. Follows(p, rest, {}, {}) /\ SameRest(p, rest) BY <1>2, <2>9, <3>5, FollowsBoth DEF SameRest
    <3>7. ASSUME NEW v \in Live(rest) PROVE free[v] <= rest.options.maxTasks - rest.tasks[v]
      <4>1. v \in Live(P) /\ v \in Ids /\ rest.tasks[v] = P.tasks[v] /\ rest.options = P.options
        BY <1>2, <2>9 DEF SameCrew, Live, Follows
      <4>2. s.free[v] <= P.options.maxTasks - P.tasks[v] BY <1>2, <4>1
      <4>3. P.options.maxTasks \in Nat /\ P.tasks[v] \in Nat /\ s.free[v] \in Int
        BY <1>5, <4>1
      <4>4. PICK a \in Nat : a = P.options.maxTasks BY <4>3
      <4>5. PICK b \in Nat : b = P.tasks[v] BY <4>3
      <4>6. PICK f \in Int : f = s.free[v] BY <4>3
      <4>7. f <= a - b /\ (v = w => ~(f <= 0)) BY <2>8, <4>2, <4>4, <4>5, <4>6
      <4>8. free[v] = IF v = w THEN 0 ELSE f BY <3>2, <4>1, <4>6
      <4>9. free[v] <= a - b BY <4>7, <4>8
      <4> QED BY <4>1, <4>4, <4>5, <4>9
    <3>8. p.options.mayThrow # {} BY <2>11
    <3>9. Offering(p, n, t) BY <2>7, <2>9, <3>4, <3>6, <3>7, <3>8 DEF Offering
    <3> QED BY <3>9 DEF t, c
  <2>12. CASE c \notin Dead(P) /\ c \notin throws
    <3> DEFINE d == Dispatch(rest, c, w, TRUE)
               free == [s.free EXCEPT ![w] = s.free[w] - 1]
    <3>1. rest \in PoolType /\ w \in Live(rest) BY <2>8, <2>9 DEF Inv, Sound, SameCrew, Live
    <3>2. Hands(rest, d, c, w, TRUE) BY <2>8, <2>9, <3>1, DispatchHands
    <3>3. free \in [Ids -> Int] /\ \A v \in Ids : free[v] = IF v = w THEN s.free[v] - 1 ELSE s.free[v]
      <4>1. s.free[w] \in Int BY <1>2, <2>8
      <4> DEFINE new == s.free[w] - 1
      <4>2. new \in Int BY <4>1
      <4>3. free = [s.free EXCEPT ![w] = new] /\ \A v \in Ids : v = w => new = s.free[v] - 1 OBVIOUS
      <4> HIDE DEF new, free
      <4> QED BY <1>2, <4>2, <4>3
    <3>4. t = [p |-> d, free |-> free, sent |-> TRUE] BY <1>1, <1>4, <2>12
    <3> HIDE DEF d, free
    <3>5. \A v \in Live(P) : /\ v \in Ids /\ P.tasks[v] \in Nat /\ s.free[v] \in Int
                             /\ s.free[v] <= P.options.maxTasks - P.tasks[v]
      BY <1>2 DEF PoolType
    <3>6. PICK a \in Nat : a = P.options.maxTasks BY <1>2 DEF PoolType, OptionsType
    <3>7. rest.options = P.options /\ rest.tasks = P.tasks /\ Live(rest) = Live(P)
      BY <2>9 DEF Follows, SameCrew, Live
    <3>8. HasRoom(rest, w)
      <4>1. PICK b \in Nat : b = P.tasks[w] BY <2>8, <3>5
      <4>2. PICK f \in Int : f = s.free[w] BY <2>8, <3>5
      <4>3. f <= a - b /\ ~(f <= 0) BY <2>8, <3>5, <3>6, <4>1, <4>2
      <4>4. b < a BY <4>3
      <4> QED BY <3>6, <3>7, <4>1, <4>4 DEF HasRoom
    <3>9. Inv(d) /\ Follows(P, d, {}, {}) /\ SameRest(P, d)
      <4>1. rest.outcome[c] = "open" => P.outcome[c] = "open" BY <2>9
      <4> QED BY <2>9, <3>1, <3>2, <3>8, <4>1, MovedKeeps
    <3>10. Follows(p, d, {}, {}) /\ SameRest(p, d) BY <1>2, <3>9, FollowsBoth DEF SameRest
    <3>11. d \in PoolType BY <3>2 DEF Hands
    <3>12. t \in Record /\ t.p = d /\ t.free = free /\ t.sent = TRUE BY <3>3, <3>4, <3>11
    <3>13. ASSUME NEW v \in Live(d) PROVE free[v] <= d.options.maxTasks - d.tasks[v]
      <4>1. v \in Live(P) /\ v \in Ids /\ d.options = P.options
        BY <3>2, <3>5, <3>7, ZenonT(60) DEF Hands, Live, SameGiven
      <4>2. d.tasks[v] = IF v = w THEN P.tasks[v] + 1 ELSE P.tasks[v] BY <3>2, <3>7, <4>1 DEF Hands
      <4>3. free[v] = IF v = w THEN s.free[v] - 1 ELSE s.free[v] BY <3>3, <4>1
      <4>4. PICK b \in Nat : b = P.tasks[v] BY <3>5, <4>1
      <4>5. PICK f \in Int : f = s.free[v] BY <3>5, <4>1
      <4>6. f <= a - b BY <3>5, <3>6, <4>1, <4>4, <4>5
      <4>7. d.tasks[v] = (IF v = w THEN b + 1 ELSE b) /\ free[v] = IF v = w THEN f - 1 ELSE f
        BY <4>2, <4>3, <4>4, <4>5
      <4>8. free[v] <= a - d.tasks[v] BY <4>6, <4>7
      <4> QED BY <3>6, <4>1, <4>8
    <3>14. d.queue = Tail(P.queue) BY <2>9, <3>2 DEF Hands, SameQueue
    <3>15. Offering(p, n, t) BY <2>7, <3>9, <3>10, <3>12, <3>13, <3>14 DEF Offering
    <3> QED BY <3>15 DEF t, c
  <2> QED BY <2>10, <2>11, <2>12
<1> QED BY <1>3, <1>4

\* The recursive function of AfterOffers.
IsOffered(p, throws, n, offered) ==
  offered = [i \in 0..n |->
        IF i = 0
        THEN [ p |-> LookedAt(p), free |-> [w \in Ids |-> p.options.maxTasks - p.tasks[w]],
               sent |-> FALSE ]
        ELSE Offer(offered[i - 1], p.queue[i], throws)]

(* The function exists.                                                    *)
LEMMA OfferedExists ==
  ASSUME NEW p, NEW throws, NEW n \in Nat
  PROVE  \E offered : IsOffered(p, throws, n, offered)
<1> DEFINE T == {m \in 0..n : ~\E offered : IsOffered(p, throws, m, offered)}
           start == [ p |-> LookedAt(p), free |-> [w \in Ids |-> p.options.maxTasks - p.tasks[w]],
                      sent |-> FALSE ]
<1>1. SUFFICES ASSUME T # {} PROVE FALSE
  OBVIOUS
<1>2. PICK m \in T : \A k \in T : m <= k
  <2>1. T \subseteq Nat OBVIOUS
  <2> HIDE DEF T
  <2> QED BY <1>1, <2>1, LeastExists
<1>3. m # 0
  <2>1. IsOffered(p, throws, 0, [i \in 0..0 |-> start])
    BY DEF IsOffered
  <2> QED BY <1>2, <2>1
<1>4. PICK before : IsOffered(p, throws, m - 1, before)
  BY <1>2, <1>3
<1> DEFINE new == Offer(before[m - 1], p.queue[m], throws)
           offered == [i \in 0..m |-> IF i = m THEN new ELSE before[i]]
<1>5. IsOffered(p, throws, m, offered)
  <2>1. m \in Nat BY <1>2
  <2>2. ASSUME NEW i \in 0..m
        PROVE  offered[i] = IF i = 0 THEN start ELSE Offer(offered[i - 1], p.queue[i], throws)
    <3> HIDE DEF start
    <3>1. CASE i = m
      <4>1. offered[i] = new /\ offered[i - 1] = before[m - 1] BY <1>3, <2>1, <3>1
      <4> HIDE DEF offered
      <4> QED BY <1>3, <3>1, <4>1
    <3>2. CASE i # m
      <4>1. i \in 0..(m - 1) /\ (i # 0 => i - 1 \in 0..(m - 1) /\ i - 1 # m)
        BY <2>1, <3>2
      <4>2. before[i] = IF i = 0 THEN start ELSE Offer(before[i - 1], p.queue[i], throws)
        BY <1>4, <4>1 DEF IsOffered, start
      <4>3. offered[i] = before[i] /\ (i # 0 => offered[i - 1] = before[i - 1]) BY <2>1, <3>2, <4>1
      <4> HIDE DEF offered
      <4> QED BY <4>2, <4>3
    <3> QED BY <3>1, <3>2
  <2> HIDE DEF new, start
  <2>3. offered = [i \in 0..m |-> IF i = 0 THEN start ELSE Offer(offered[i - 1], p.queue[i], throws)]
    BY <2>2
  <2> HIDE DEF offered
  <2> QED BY <2>3 DEF IsOffered, start
<1> QED BY <1>2, <1>5

(* The pass over the queue.                                                *)
LEMMA AfterOffersKeeps ==
  ASSUME NEW p, Inv(p), NEW throws, throws \subseteq p.options.mayThrow
  PROVE  Offering(p, Len(p.queue), AfterOffers(p, throws))
<1> DEFINE n == Len(p.queue)
           free == [w \in Ids |-> p.options.maxTasks - p.tasks[w]]
           start == [ p |-> LookedAt(p), free |-> free, sent |-> FALSE ]
           offered == CHOOSE f : f =
             [i \in 0..n |->
               IF i = 0
               THEN [ p |-> LookedAt(p), free |-> [w \in Ids |-> p.options.maxTasks - p.tasks[w]],
                      sent |-> FALSE ]
               ELSE Offer(f[i - 1], p.queue[i], throws)]
<1>0. /\ p \in PoolType /\ p.queue \in Seq(Calls) /\ n \in Nat
      /\ p.options.maxTasks \in Nat /\ p.tasks \in [Ids -> Nat]
  BY Bounded
<1>1. AfterOffers(p, throws) = offered[n] BY DEF AfterOffers
<1>2. IsOffered(p, throws, n, offered)
  <2>1. PICK f : IsOffered(p, throws, n, f) BY <1>0, OfferedExists
  <2> QED BY <2>1 DEF IsOffered
<1> HIDE DEF offered
<1>3. offered[0] = start BY <1>0, <1>2 DEF IsOffered
<1>4. Offering(p, 0, start)
  <2> DEFINE q == LookedAt(p)
  <2>1. Goes(p, q, {}) /\ SameWork(p, q) /\ SameRest(p, q) BY LookedAtGoes
  <2> HIDE DEF q
  <2>2. free \in [Ids -> Int] /\ \A w \in Ids : free[w] <= p.options.maxTasks - p.tasks[w]
    <3>1. PICK a \in Nat : a = p.options.maxTasks BY <1>0
    <3>2. PICK f \in [Ids -> Nat] : f = p.tasks BY <1>0
    <3>3. \A w \in Ids : a - f[w] \in Int /\ a - f[w] <= a - f[w]
      <4> TAKE w \in Ids
      <4>1. PICK b \in Nat : b = f[w] OBVIOUS
      <4> QED BY <4>1
    <3> QED BY <3>1, <3>2, <3>3
  <2> HIDE DEF free
  <2>3. q \in PoolType /\ Live(q) \subseteq Ids BY <2>1, CrewIsFinite DEF Goes, Inv, Sound
  <2>4. start = [p |-> q, free |-> free, sent |-> FALSE] BY DEF q
  <2> HIDE DEF start
  <2>5. /\ start \in [p : PoolType, free : [Ids -> Int], sent : BOOLEAN]
        /\ start.p = q /\ start.free = free
    BY <2>2, <2>3, <2>4
  <2>6. q.options = p.options /\ q.tasks = p.tasks /\ q.queue = p.queue /\ q.active = p.active
    BY <2>1 DEF SameWork, SameGiven, SameCrew, SameQueue
  <2>7. \A w \in Live(q) : free[w] <= q.options.maxTasks - q.tasks[w]
    BY <2>2, <2>3, <2>6
  <2>8. /\ Len(q.queue) = Len(p.queue) - 0
        /\ \A i \in 1..(Len(p.queue) - 0) : q.queue[i] = p.queue[0 + i]
    <3>1. PICK s \in Seq(Calls) : s = p.queue BY <1>0
    <3>2. Len(s) = Len(s) - 0 /\ \A i \in 1..(Len(s) - 0) : 0 + i = i OBVIOUS
    <3> QED BY <2>6, <3>1, <3>2
  <2>9. Inv(q) /\ Follows(p, q, {}, {}) BY <2>1 DEF Goes
  <2> QED BY <2>1, <2>5, <2>6, <2>7, <2>8, <2>9 DEF Offering
<1> HIDE DEF start
<1> DEFINE T == {m \in 0..n : ~Offering(p, m, offered[m])}
<1>5. T = {}
  <2> SUFFICES ASSUME T # {} PROVE FALSE
    OBVIOUS
  <2>1. PICK m \in T : \A k \in T : m <= k
    <3>1. T \subseteq Nat BY <1>0
    <3> HIDE DEF T
    <3> QED BY <3>1, LeastExists
  <2>2. m # 0 BY <1>3, <1>4, <2>1
  <2>3. m \in 1..n /\ m - 1 \in 0..n /\ ~(m <= m - 1)
    BY <1>0, <2>1, <2>2
  <2>4. Offering(p, m - 1, offered[m - 1])
    BY <2>1, <2>3
  <2>5. offered[m] = Offer(offered[m - 1], p.queue[m], throws)
    BY <1>2, <2>2, <2>3 DEF IsOffered
  <2>6. Offering(p, m, offered[m]) BY <1>0, <2>3, <2>4, <2>5, OfferKeeps
  <2> QED BY <2>1, <2>6
<1> QED BY <1>0, <1>1, <1>5

(* _dispatchQueuedTasks()                                                  *)
LEMMA DispatchQueuedGoes ==
  ASSUME NEW p, Inv(p), NEW r \in DispatchQueuedTasksResults(p)
  PROVE  /\ Goes(p, r, {})
         /\ {"pause", "ready"} \cap p.uses # {} => (Announced(p) => Announced(r))
<1>1. CASE r = p
  BY <1>1, StaysGoes
<1>2. CASE r # p
  <2>1. /\ p.queue # << >>
        /\ \E throws \in SUBSET p.options.mayThrow :
             r = IF AfterOffers(p, throws).sent THEN UpdateIdleState(AfterOffers(p, throws).p)
                 ELSE AfterOffers(p, throws).p
    BY <1>2 DEF DispatchQueuedTasksResults
  <2>2. PICK throws \in SUBSET p.options.mayThrow :
             r = IF AfterOffers(p, throws).sent THEN UpdateIdleState(AfterOffers(p, throws).p)
                 ELSE AfterOffers(p, throws).p
    BY <2>1
  <2> DEFINE s == AfterOffers(p, throws)
  <2>3. Offering(p, Len(p.queue), s) BY AfterOffersKeeps
  <2> HIDE DEF s
  <2>4. Inv(s.p) /\ Follows(p, s.p, {}, {}) /\ SameRest(p, s.p) BY <2>3 DEF Offering
  <2>5. Goes(p, s.p, {}) BY <2>4, FollowsGoes
  <2>6. CASE s.sent
    BY <2>2, <2>5, <2>6, GoesThenIdle DEF s
  <2>7. CASE ~s.sent
    <3>1. r = s.p BY <2>2, <2>7 DEF s
    <3>2. ASSUME {"pause", "ready"} \cap p.uses # {}, Announced(p) PROVE Announced(s.p)
      <4>1. ~Quiet(p) BY <2>1 DEF Quiet
      <4>2. ~s.p.idle BY <2>4, <3>2, <4>1 DEF Announced, SameRest
      <4>3. ASSUME Prompt(s.p) PROVE s.p.queue = p.queue
        <5>1. Dead(p) = {} /\ p.options.mayThrow = {}
          BY <2>4, <3>2, <4>3 DEF Prompt, Dead, Follows
        <5> QED BY <2>3, <2>7, <5>1 DEF Offering
      <4> QED BY <2>1, <4>2, <4>3 DEF Announced, Quiet
    <3> QED BY <2>5, <3>1, <3>2
  <2> QED BY <2>6, <2>7
<1> QED BY <1>1, <1>2

(***************************************************************************)
(* Lifecycle.                                                              *)
(***************************************************************************)

(* Workers are terminated.                                                 *)
LEMMA DismissedGoes ==
  ASSUME NEW p, NEW q, NEW W, NEW ws, Dismisses(p, q, W, ws)
  PROVE  Goes(p, q, {})
BY FollowsGoes DEF Dismisses

(* Workers are added, as far as they can be created.                       *)
LEMMA AddedGoes ==
  ASSUME NEW p, Inv(p), NEW n \in Nat, Len(p.workers) + n <= MaxAlive, NEW q \in AddedResults(p, n)
  PROVE  Goes(p, q, {}) /\ (Announced(p) => Announced(q))
<1>1. PICK m \in 0..n : Grows(p, q, m) BY AddedGrows
<1>2. Goes(p, q, {}) BY <1>1, FollowsGoes DEF Grows
<1>3. Announced(p) => Announced(q)
  BY <1>1 DEF Grows, Announced, Prompt, Dead, Follows, Quiet, Waiting, SameQueue, SameRest
<1> QED BY <1>2, <1>3

(* A pool has ids to spare for the workers it is short of.                 *)
LEMMA Shortfall ==
  ASSUME NEW p, Sound(p), NEW b \in Nat, b <= MaxAlive
  PROVE  LET n == AtLeast0(b - Len(p.workers))
         IN  n \in Nat /\ Len(p.workers) + n <= MaxAlive
<1>1. PICK a \in Nat : a = Len(p.workers) /\ a <= MaxAlive BY CrewFits
<1>2. a + AtLeast0(b - a) <= MaxAlive /\ AtLeast0(b - a) \in Nat
  <2>1. CASE b - a < 0
    <3>1. AtLeast0(b - a) = 0 BY <2>1 DEF AtLeast0
    <3> QED BY <1>1, <3>1
  <2>2. CASE ~(b - a < 0)
    <3>1. AtLeast0(b - a) = b - a BY <2>2 DEF AtLeast0
    <3> QED BY <1>1, <2>2, <3>1, PoolConstants
  <2> QED BY <2>1, <2>2
<1> QED BY <1>1, <1>2

(* _handleWorkerExit()                                                     *)
LEMMA WorkerExitGoes ==
  ASSUME NEW p, Inv(p), NEW w \in Live(p), NEW r \in WorkerExitResults(p, w)
  PROVE  Goes(p, r, {}) /\ Announced(r)
<1> DEFINE gone == TakeOff(TerminateWorkers(p, {w}), {w})
           boots == IF p.worked[w] THEN 0 ELSE Smaller(p.boots + 1, MaxBootFailures)
           q == [gone EXCEPT !.boots = boots]
           short == AtLeast0(Smaller(p.minSize, p.maxSize) - Len(q.workers))
<1>1. PICK t \in IF boots >= MaxBootFailures \/ p.terminated THEN {q} ELSE AddedResults(q, short) :
        r = UpdateIdleState(t)
  BY DEF WorkerExitResults
<1>2. Goes(p, gone, {})
  <2>1. {w} \in SUBSET Live(p) OBVIOUS
  <2>2. PICK ws : Dismisses(p, gone, {w}, ws) BY <2>1, TakenOffKeeps
  <2> QED BY <2>2, DismissedGoes
<1>3. boots \in Nat
  <2>1. p \in PoolType BY DEF Inv, Sound
  <2> QED BY <2>1, PoolConstants DEF PoolType, Smaller
<1> HIDE DEF gone, boots
<1>4. Goes(p, q, {}) /\ Inv(q)
  <2>1. Inv(gone) BY <1>2 DEF Goes
  <2>2. gone \in PoolType BY <2>1 DEF Inv, Sound
  <2>3. q \in PoolType BY <1>3, <2>2 DEF PoolType
  <2>4. SameWork(gone, q) /\ SameRest(gone, q) /\ q.minSize = gone.minSize /\ q.maxSize = gone.maxSize
    BY <2>2 DEF PoolType, SameWork, SameGiven, SameCrew, SameBooks, SameQueue, SameRest
  <2>5. Goes(gone, q, {}) BY <2>1, <2>3, <2>4, UntouchedGoes
  <2> HIDE DEF q
  <2>6. Goes(p, q, {}) BY <1>2, <2>5, GoesThenPost
  <2> QED BY <2>6 DEF Goes
<1> HIDE DEF q
<1>5. Goes(p, t, {})
  <2>1. CASE t = q BY <1>4, <2>1
  <2>2. CASE t # q
    <3>1. t \in AddedResults(q, short) BY <1>1, <2>2
    <3>2. short \in Nat /\ Len(q.workers) + short <= MaxAlive
      <4> DEFINE b == Smaller(p.minSize, p.maxSize)
      <4>1. b \in Nat /\ b <= MaxAlive BY DEF Inv, Sound, PoolType, Smaller
      <4> HIDE DEF b
      <4>2. Sound(q) BY <1>4 DEF Inv
      <4> QED BY <4>1, <4>2, Shortfall DEF b
    <3> HIDE DEF short
    <3>3. Goes(q, t, {}) BY <1>4, <3>1, <3>2, AddedGoes
    <3> QED BY <1>4, <3>3, GoesThenPost
  <2> QED BY <2>1, <2>2
<1> QED BY <1>1, <1>5, GoesThenIdle

(* removeWorker()                                                          *)
LEMMA RemoveWorkerGoes ==
  ASSUME NEW p, Inv(p), p.workers # << >>
  PROVE  Goes(p, RemoveWorker(p), {}) /\ Announced(RemoveWorker(p))
<1> DEFINE w == p.workers[Len(p.workers)]
           q == TakeOff(TerminateWorkers(p, {w}), {w})
<1>1. w \in Live(p)
  <2>1. PICK s \in Seq(Ids) : s = p.workers BY DEF Inv, Sound, PoolType
  <2>2. Len(s) \in 1..Len(s) BY <2>1
  <2> QED BY <2>1, <2>2 DEF Live
<1> HIDE DEF w
<1>2. PICK ws : Dismisses(p, q, {w}, ws)
  <2>1. {w} \in SUBSET Live(p) BY <1>1
  <2> QED BY <2>1, TakenOffKeeps
<1>3. RemoveWorker(p) = UpdateIdleState(q) BY DEF RemoveWorker, w
<1> HIDE DEF q
<1>4. Goes(p, q, {}) BY <1>2, DismissedGoes
<1> QED BY <1>3, <1>4, GoesThenIdle

(* resize()                                                                *)
LEMMA ResizeGoes ==
  ASSUME NEW p, Inv(p), NEW min \in 0..MaxAlive, NEW max \in 0..MaxAlive, NEW r \in ResizeResults(p, min, max)
  PROVE  Goes(p, r, {}) /\ Announced(r)
<1> DEFINE big == Larger(min, max)
           sized == [p EXCEPT !.minSize = min, !.maxSize = big]
           excess(q) == {q.workers[i] : i \in (sized.maxSize + 1)..Len(q.workers)}
           cut(q) == TakeOff(TerminateWorkers(q, excess(q)), excess(q))
           more == AtLeast0(min - Len(p.workers))
<1>0. min \in Nat /\ max \in Nat /\ big \in Nat /\ big <= MaxAlive
  BY PoolConstants DEF Larger
<1>1. PICK q \in AddedResults(sized, more) : r = UpdateIdleState(cut(q))
  BY DEF ResizeResults
<1> HIDE DEF big
<1>2. /\ Goes(p, sized, {}) /\ Inv(sized) /\ sized.workers = p.workers /\ sized.maxSize = big
  <2>1. p \in PoolType BY DEF Inv, Sound
  <2>2. sized \in PoolType BY <1>0, <2>1 DEF PoolType
  <2>3. /\ SameWork(p, sized) /\ SameRest(p, sized) /\ sized.minSize = min /\ sized.maxSize = big
        /\ sized.workers = p.workers
    BY <2>1 DEF PoolType, SameWork, SameGiven, SameCrew, SameBooks, SameQueue, SameRest
  <2> HIDE DEF sized
  <2>4. Restful(sized) BY <2>3 DEF Restful, Inv, SameRest, Waiting
  <2>5. Inv(sized) /\ Follows(p, sized, {}, {}) BY <1>0, <2>2, <2>3, <2>4, WorkUntouched
  <2> QED BY <2>3, <2>5, FollowsGoes
<1> HIDE DEF sized
<1>3. more \in Nat /\ Len(sized.workers) + more <= MaxAlive
  <2>1. Sound(p) BY DEF Inv
  <2> QED BY <1>0, <1>2, <2>1, Shortfall
<1> HIDE DEF more
<1>4. Goes(sized, q, {}) /\ Inv(q) BY <1>1, <1>2, <1>3, AddedGoes DEF Goes
<1>5. Goes(p, q, {}) BY <1>2, <1>4, GoesThenPost
<1>6. excess(q) \subseteq Live(q)
  <2>1. \A i \in (sized.maxSize + 1)..Len(q.workers) : i \in 1..Len(q.workers)
    BY <1>0, <1>2
  <2> QED BY <2>1 DEF Live
<1>7. Goes(q, cut(q), {})
  <2> DEFINE X == excess(q)
  <2>1. X \in SUBSET Live(q) BY <1>6
  <2> HIDE DEF X
  <2>2. PICK ws : Dismisses(q, TakeOff(TerminateWorkers(q, X), X), X, ws) BY <1>4, <2>1, TakenOffKeeps
  <2> QED BY <2>2, DismissedGoes DEF X
<1> HIDE DEF cut
<1>8. Goes(p, cut(q), {}) BY <1>5, <1>7, GoesThenPost
<1> QED BY <1>1, <1>8, GoesThenIdle

(* Swapping an element with the last one and dropping that leaves the      *)
(* others.                                                                 *)
LEMMA SwappedOut ==
  ASSUME NEW S, NEW s \in Seq(S), NEW i \in 1..Len(s)
  PROVE  LET t == SubSeq([s EXCEPT ![i] = s[Len(s)]], 1, Len(s) - 1)
         IN  /\ t \in Seq(S) /\ Len(t) = Len(s) - 1
             /\ In(t) \subseteq In(s) /\ In(s) \ In(t) \subseteq {s[i]}
             /\ Distinct(s) => Distinct(t)
<1> DEFINE n == Len(s)
           u == [s EXCEPT ![i] = s[n]]
           t == SubSeq(u, 1, n - 1)
<1>1. n \in Nat /\ n >= 1 /\ i \in 1..n /\ n \in 1..n /\ n - 1 \in Nat
  OBVIOUS
<1>2. u \in Seq(S) /\ Len(u) = n /\ \A j \in 1..n : u[j] = IF j = i THEN s[n] ELSE s[j]
  <2>1. s[n] \in S BY <1>1
  <2> QED BY <1>1, <2>1
<1>3. t \in Seq(S) /\ Len(t) = n - 1 /\ \A j \in 1..(n - 1) : t[j] = IF j = i THEN s[n] ELSE s[j]
  <2> HIDE DEF u
  <2>1. n - 1 \in 0..Len(u) BY <1>1, <1>2
  <2>2. t \in Seq(S) /\ Len(t) = n - 1 /\ \A j \in 1..(n - 1) : t[j] = u[j]
    BY <1>2, <2>1, FirstOf
  <2> QED BY <1>1, <1>2, <2>2
<1> HIDE DEF t, n
<1>4. In(t) \subseteq In(s)
  <2>1. \A j \in 1..(n - 1) : \E k \in 1..n : t[j] = s[k] BY <1>1, <1>3
  <2> QED BY <1>3, <2>1 DEF In, n
<1>5. In(s) \ In(t) \subseteq {s[i]}
  <2> SUFFICES ASSUME NEW k \in 1..n, s[k] # s[i] PROVE \E j \in 1..(n - 1) : t[j] = s[k]
    BY <1>3 DEF In, n
  <2>1. CASE k # n
    <3>1. k \in 1..(n - 1) /\ k # i BY <1>1, <2>1
    <3> QED BY <1>3, <3>1
  <2>2. CASE k = n
    <3>1. i # n BY <2>2
    <3>2. i \in 1..(n - 1) BY <1>1, <3>1
    <3> QED BY <1>3, <2>2, <3>2
  <2> QED BY <2>1, <2>2
<1>6. ASSUME Distinct(s) PROVE Distinct(t)
  <2>1. \A j, k \in 1..n : s[j] = s[k] => j = k BY <1>6 DEF Distinct, n
  <2>2. \A j, k \in 1..(n - 1) : t[j] = t[k] => j = k
    <3> SUFFICES ASSUME NEW j \in 1..(n - 1), NEW k \in 1..(n - 1), t[j] = t[k] PROVE j = k
      OBVIOUS
    <3>1. j \in 1..n /\ k \in 1..n /\ j # n /\ k # n BY <1>1
    <3> QED BY <1>1, <1>3, <2>1, <3>1
  <2> QED BY <1>3, <2>2 DEF Distinct
<1> QED BY <1>3, <1>4, <1>5, <1>6 DEF t, u, n

\* One position of the loop of ShrunkTo.
SwapOut(s, i, W, floor) ==
  IF Len(s) > floor /\ s[i] \in W THEN SubSeq([s EXCEPT ![i] = s[Len(s)]], 1, Len(s) - 1) ELSE s

\* The recursive function of ShrunkTo.
IsShrunk(p, W, floor, m, after) ==
  after = [k \in 0..m |-> IF k = 0 THEN p.workers
                          ELSE SwapOut(after[k - 1], Len(p.workers) + 1 - k, W, floor)]

(* The function exists.                                                    *)
LEMMA ShrunkExists ==
  ASSUME NEW p, NEW W, NEW floor, NEW m \in Nat
  PROVE  \E after : IsShrunk(p, W, floor, m, after)
<1> DEFINE T == {k \in 0..m : ~\E after : IsShrunk(p, W, floor, k, after)}
<1>1. SUFFICES ASSUME T # {} PROVE FALSE
  OBVIOUS
<1>2. PICK n \in T : \A k \in T : n <= k
  <2>1. T \subseteq Nat OBVIOUS
  <2> HIDE DEF T
  <2> QED BY <1>1, <2>1, LeastExists
<1>3. n # 0
  <2>1. IsShrunk(p, W, floor, 0, [k \in 0..0 |-> p.workers])
    BY DEF IsShrunk
  <2> QED BY <1>2, <2>1
<1>4. PICK before : IsShrunk(p, W, floor, n - 1, before)
  BY <1>2, <1>3
<1> DEFINE new == SwapOut(before[n - 1], Len(p.workers) + 1 - n, W, floor)
           after == [k \in 0..n |-> IF k = n THEN new ELSE before[k]]
<1>5. IsShrunk(p, W, floor, n, after)
  <2>1. n \in Nat BY <1>2
  <2>2. ASSUME NEW k \in 0..n
        PROVE  after[k] = IF k = 0 THEN p.workers
                          ELSE SwapOut(after[k - 1], Len(p.workers) + 1 - k, W, floor)
    <3>1. CASE k = n
      <4>1. after[k - 1] = before[n - 1] BY <1>3, <2>1, <3>1
      <4> QED BY <1>3, <2>1, <3>1, <4>1
    <3>2. CASE k # n
      <4>1. k \in 0..(n - 1) /\ (k # 0 => k - 1 \in 0..(n - 1) /\ k - 1 # n)
        BY <2>1, <3>2
      <4>2. before[k] = IF k = 0 THEN p.workers
                        ELSE SwapOut(before[k - 1], Len(p.workers) + 1 - k, W, floor)
        BY <1>4, <4>1 DEF IsShrunk
      <4> HIDE DEF new
      <4> QED BY <2>1, <3>2, <4>1, <4>2
    <3> QED BY <3>1, <3>2
  <2> HIDE DEF new
  <2>3. after = [k \in 0..n |-> after[k]] OBVIOUS
  <2> HIDE DEF after
  <2> QED BY <2>2, <2>3 DEF IsShrunk
<1> HIDE DEF after, new
<1> QED BY <1>2, <1>5

\* What is left of the array p.workers after k positions from its end.
Shrinking(p, W, k, s) ==
  /\ s \in Seq(Ids) /\ Distinct(s)
  /\ In(s) \subseteq Live(p) /\ Live(p) \ In(s) \subseteq W
  /\ Len(s) >= Len(p.workers) - k

(* One position more.                                                      *)
LEMMA SwapOutKeeps ==
  ASSUME NEW p, p.workers \in Seq(Ids), NEW W, NEW floor, NEW k \in 1..Len(p.workers),
         NEW s, Shrinking(p, W, k - 1, s)
  PROVE  Shrinking(p, W, k, SwapOut(s, Len(p.workers) + 1 - k, W, floor))
<1> DEFINE i == Len(p.workers) + 1 - k
           t == SwapOut(s, i, W, floor)
<1>1. i \in 1..Len(s) /\ Len(s) >= Len(p.workers) - k
  BY DEF Shrinking
<1> HIDE DEF i
<1>2. CASE ~(Len(s) > floor /\ s[i] \in W)
  <2>1. t = s BY <1>2 DEF SwapOut
  <2> HIDE DEF t
  <2>2. Shrinking(p, W, k, t) BY <1>1, <2>1 DEF Shrinking
  <2> QED BY <2>2 DEF t, i
<1>3. CASE Len(s) > floor /\ s[i] \in W
  <2> DEFINE u == SubSeq([s EXCEPT ![i] = s[Len(s)]], 1, Len(s) - 1)
  <2>0. s \in Seq(Ids) BY DEF Shrinking
  <2>1. /\ u \in Seq(Ids) /\ Len(u) = Len(s) - 1
        /\ In(u) \subseteq In(s) /\ In(s) \ In(u) \subseteq {s[i]}
        /\ Distinct(s) => Distinct(u)
    BY <1>1, <2>0, SwappedOut
  <2>2. t = u BY <1>3 DEF SwapOut
  <2> HIDE DEF u
  <2> HIDE DEF t
  <2>3. Len(s) - 1 >= Len(p.workers) - k
    BY DEF Shrinking
  <2>4. Shrinking(p, W, k, t) BY <1>3, <2>0, <2>1, <2>2, <2>3 DEF Shrinking
  <2> QED BY <2>4 DEF t, i
<1> QED BY <1>2, <1>3

(* Idle workers come off the array: some of W, and nobody else.            *)
LEMMA ShrunkKeeps ==
  ASSUME NEW p, Inv(p), NEW W, NEW floor
  PROVE  \E cut, ws :
           cut \in SUBSET Live(p) /\ cut \subseteq W /\ Dismisses(p, ShrunkTo(p, W, floor), cut, ws)
<1> DEFINE n == Len(p.workers)
           after == CHOOSE f : f = [k \in 0..n |-> IF k = 0 THEN p.workers
                                                   ELSE SwapOut(f[k - 1], n + 1 - k, W, floor)]
           left == after[n]
           cut == Live(p) \ {left[i] : i \in 1..Len(left)}
<1>0. n \in Nat /\ p.workers \in Seq(Ids) /\ Distinct(p.workers) BY DEF Inv, Sound, PoolType
<1>1. ShrunkTo(p, W, floor) = [TerminateWorkers(p, cut) EXCEPT !.workers = left]
  BY DEF ShrunkTo, SwapOut
<1>2. PICK f : IsShrunk(p, W, floor, n, f)
  BY <1>0, ShrunkExists
<1>3. IsShrunk(p, W, floor, n, after)
  BY <1>2 DEF IsShrunk
<1> HIDE DEF after
<1> DEFINE T == {m \in 0..n : ~Shrinking(p, W, m, after[m])}
<1>4. T = {}
  <2> SUFFICES ASSUME T # {} PROVE FALSE
    OBVIOUS
  <2>1. PICK m \in T : \A k \in T : m <= k
    <3>1. T \subseteq Nat OBVIOUS
    <3> HIDE DEF T
    <3> QED BY <3>1, LeastExists
  <2>2. m # 0
    <3>1. after[0] = p.workers
      BY <1>0, <1>3 DEF IsShrunk
    <3>2. Shrinking(p, W, 0, p.workers)
      BY <1>0 DEF Shrinking, In, Live
    <3> QED BY <2>1, <3>1, <3>2
  <2>3. m \in 1..n /\ m - 1 \in 0..n /\ ~(m <= m - 1)
    BY <1>0, <2>1, <2>2
  <2>4. Shrinking(p, W, m - 1, after[m - 1])
    BY <2>1, <2>3
  <2>5. after[m] = SwapOut(after[m - 1], n + 1 - m, W, floor)
    BY <1>3, <2>2, <2>3 DEF IsShrunk
  <2>6. Shrinking(p, W, m, after[m])
    BY <1>0, <2>3, <2>4, <2>5, SwapOutKeeps
  <2> QED BY <2>1, <2>6
<1>5. Shrinking(p, W, n, left) BY <1>0, <1>4
<1> HIDE DEF left
<1>6. cut = Live(p) \ In(left) BY DEF In
<1> HIDE DEF cut
<1>7. cut \in SUBSET Live(p) /\ cut \subseteq W /\ left \in Seq(Ids) /\ Distinct(left) /\ In(left) = Live(p) \ cut
  BY <1>5, <1>6 DEF Shrinking
<1>8. Dismisses(p, ShrunkTo(p, W, floor), cut, left)
  BY <1>1, <1>7, DismissedKeeps
<1> QED BY <1>7, <1>8

(* _reapIdleWorkers()                                                      *)
LEMMA ReapGoes ==
  ASSUME NEW p, Inv(p), NEW old
  PROVE  Goes(p, ReapIdleWorkers(p, old), {}) /\ Announced(ReapIdleWorkers(p, old))
<1> DEFINE q == ShrunkTo(p, old, p.minSize)
<1>1. PICK cut, ws : cut \in SUBSET Live(p) /\ Dismisses(p, q, cut, ws) BY ShrunkKeeps
<1>2. ReapIdleWorkers(p, old) = UpdateIdleState(q) BY DEF ReapIdleWorkers
<1> HIDE DEF q
<1>3. Goes(p, q, {}) BY <1>1, DismissedGoes
<1> QED BY <1>2, <1>3, GoesThenIdle

(* _updateAdaptiveLimit()                                                  *)
LEMMA LimitedGoes ==
  ASSUME NEW p, Inv(p), NEW q \in LimitedResults(p)
  PROVE  /\ Goes(p, q, {}) /\ (Announced(p) => Announced(q))
         /\ q.workers = p.workers /\ q.maxSize = p.maxSize
<1>0. p \in PoolType BY DEF Inv, Sound
<1>1. CASE q = p BY <1>1, StaysGoes
<1>2. CASE q # p
  <2>1. PICK n \in p.options.limits : q = [p EXCEPT !.limit = n] BY <1>2 DEF LimitedResults
  <2>2. n \in Nat BY <1>0 DEF PoolType, OptionsType
  <2>3. q \in PoolType BY <1>0, <2>1, <2>2 DEF PoolType
  <2>4. SameWork(p, q) /\ SameRest(p, q) /\ q.minSize = p.minSize /\ q.maxSize = p.maxSize /\ q.workers = p.workers
    BY <1>0, <2>1 DEF PoolType, SameWork, SameGiven, SameCrew, SameBooks, SameQueue, SameRest
  <2> QED BY <2>3, <2>4, UntouchedGoes
<1> QED BY <1>1, <1>2

(* The part of _autoScaleTick() that removes idle workers.                 *)
LEMMA ScaledDownGoes ==
  ASSUME NEW p, Inv(p), NEW q \in ScaledDown(p)
  PROVE  Goes(p, q, {}) /\ (Announced(p) => Announced(q))
<1> DEFINE W == {w \in Live(p) : p.tasks[w] = 0}
<1>1. PICK n : q = ShrunkTo(p, W, n)
  BY DEF ScaledDown
<1> HIDE DEF W
<1>2. PICK cut, ws : cut \in SUBSET Live(p) /\ cut \subseteq W /\ Dismisses(p, q, cut, ws)
  BY <1>1, ShrunkKeeps
<1>3. Goes(p, q, {}) BY <1>2, DismissedGoes
<1>4. TasksOf(p, cut) = 0
  <2>1. \A w \in cut : 1..p.tasks[w] = {} BY <1>2 DEF W
  <2>2. UNION {{w} \X (1..p.tasks[w]) : w \in cut} = {}
    <3> SUFFICES ASSUME NEW w \in cut PROVE {w} \X (1..p.tasks[w]) = {}
      OBVIOUS
    <3>1. 1..p.tasks[w] = {} BY <2>1
    <3> QED BY <3>1
  <2>3. TasksOf(p, cut) = Cardinality({}) BY <2>2 DEF TasksOf
  <2> QED BY <2>3, FS_EmptySet
<1>5. q.active = p.active
  <2>1. q.active = AtLeast0(p.active - 0) BY <1>2, <1>4 DEF Dismisses
  <2>2. PICK a \in Nat : a = p.active BY DEF Inv, Sound, PoolType
  <2> QED BY <2>1, <2>2 DEF AtLeast0
<1>6. Announced(p) => Announced(q)
  BY <1>2, <1>5 DEF Dismisses, Announced, Prompt, Dead, Follows, Quiet, Waiting, SameQueue, SameRest
<1> QED BY <1>3, <1>6

(* _autoScaleTick()                                                        *)
LEMMA AutoscaleGoes ==
  ASSUME NEW p, Inv(p), NEW r \in AutoscaleResults(p)
  PROVE  Goes(p, r, {}) /\ (Announced(p) => Announced(r))
<1>1. CASE r = p BY <1>1, StaysGoes
<1>2. CASE r # p
  <2>1. PICK q \in LimitedResults(p) : r \in {q} \cup ScaledUp(q) \cup ScaledDown(q)
    BY <1>2 DEF AutoscaleResults
  <2>2. Goes(p, q, {}) /\ (Announced(p) => Announced(q)) BY LimitedGoes
  <2>3. Inv(q) BY <2>2 DEF Goes
  <2>4. Goes(q, r, {}) /\ (Announced(q) => Announced(r))
    <3>1. CASE r = q BY <2>3, <3>1, StaysGoes
    <3>2. CASE r \in ScaledDown(q) BY <2>3, <3>2, ScaledDownGoes
    <3>3. CASE r \in ScaledUp(q)
      <4>1. PICK n \in 1..(q.maxSize - Len(q.workers)) : r \in AddedResults(q, n)
        BY <3>3 DEF ScaledUp
      <4>2. n \in Nat /\ Len(q.workers) + n <= MaxAlive
        <5>1. PICK a \in Nat : a = Len(q.workers) /\ a <= MaxAlive BY <2>3, CrewFits DEF Inv
        <5>2. PICK b \in Nat : b = q.maxSize /\ b <= MaxAlive BY <2>3 DEF Inv, Sound, PoolType
        <5>3. n \in 1..(b - a) BY <5>1, <5>2
        <5> QED BY <5>1, <5>2, <5>3, PoolConstants
      <4> QED BY <2>3, <4>1, <4>2, AddedGoes
    <3> QED BY <2>1, <3>1, <3>2, <3>3
  <2> QED BY <2>2, <2>4, GoesThenPost
<1> QED BY <1>1, <1>2

(* _resetPoolForStopThePress(), the part that empties the pool.            *)
LEMMA BaredGoes ==
  ASSUME NEW p, Inv(p)
  PROVE  LET b == [ TerminateWorkers(Settle(p, Keys, "rejected"), Live(p)) EXCEPT
                      !.workers = << >>, !.queue = << >>, !.active = 0 ]
         IN  /\ Goes(p, b, {}) /\ b.workers = << >>
             /\ b.minSize = p.minSize /\ b.maxSize = p.maxSize
<1> DEFINE s == Settle(p, Keys, "rejected")
           t == TerminateWorkers(s, Live(p))
           b == [t EXCEPT !.workers = << >>, !.queue = << >>, !.active = 0]
           e == [t EXCEPT !.terminated = p.terminated, !.workers = << >>, !.queue = << >>, !.active = 0]
<1>0. p \in PoolType BY DEF Inv, Sound
<1>4. p.terminated \in BOOLEAN BY <1>0 DEF PoolType
<1>5. /\ Inv(e) /\ Follows(p, e, {}, {}) /\ SameRest(p, e) /\ e.workers = << >>
      /\ e.minSize = p.minSize /\ e.maxSize = p.maxSize
  <2> DEFINE t0 == p.terminated
             f == Bared(p, t0)
  <2>1. t0 \in BOOLEAN BY <1>4
  <2>2. t0 = p.terminated OBVIOUS
  <2>3. e = f BY DEF Bared
  <2> HIDE DEF t0
  <2>4. /\ Inv(f) /\ SameRest(p, f) /\ f.workers = << >>
        /\ f.minSize = p.minSize /\ f.maxSize = p.maxSize
        /\ t0 = p.terminated => Follows(p, f, {}, {})
    BY <2>1, BaredEmpties
  <2> HIDE DEF e, f
  <2> QED BY <2>2, <2>3, <2>4
<1>1. t.terminated = p.terminated
  BY <1>0 DEF PoolType, TerminateWorkers, Settle
<1>2. t = [x \in DOMAIN t |-> t[x]]
  BY <1>0, ZenonT(60) DEF PoolType, TerminateWorkers, Settle
<1> HIDE DEF t
<1>3. b = e BY <1>1, <1>2
<1> HIDE DEF b, e
<1>6. Goes(p, e, {}) BY <1>5, FollowsGoes
<1> QED BY <1>3, <1>5, <1>6 DEF b, t, s

(* _resetPoolForStopThePress()                                             *)
LEMMA ResetGoes ==
  ASSUME NEW p, Inv(p), NEW recreate, NEW r \in ResetPoolResults(p, recreate)
  PROVE  Goes(p, r, {}) /\ Announced(r)
<1> DEFINE bare == [ TerminateWorkers(Settle(p, Keys, "rejected"), Live(p)) EXCEPT
                       !.workers = << >>, !.queue = << >>, !.active = 0 ]
           size == Larger(p.minSize, Smaller(Len(p.workers), p.maxSize))
<1>1. PICK q \in IF recreate THEN AddedResults(bare, size) ELSE {bare} : r = UpdateIdleState(q)
  BY DEF ResetPoolResults
<1>2. Goes(p, bare, {}) /\ bare.workers = << >> BY BaredGoes
<1>3. size \in Nat /\ size <= MaxAlive
  <2>1. PICK a \in Nat : a = Len(p.workers) /\ a <= MaxAlive BY CrewFits DEF Inv
  <2>2. p.minSize \in Nat /\ p.maxSize \in Nat /\ p.minSize <= MaxAlive /\ p.maxSize <= MaxAlive
    BY DEF Inv, Sound, PoolType
  <2> QED BY <2>1, <2>2 DEF Larger, Smaller
<1> HIDE DEF bare, size
<1>4. Inv(bare) BY <1>2 DEF Goes
<1>5. Goes(bare, q, {})
  <2>1. CASE q = bare BY <1>4, <2>1, StaysGoes
  <2>2. CASE q # bare
    <3>1. q \in AddedResults(bare, size) BY <1>1, <2>2
    <3>2. Len(bare.workers) + size <= MaxAlive
      <4>1. Len(bare.workers) = 0 BY <1>2
      <4> QED BY <1>3, <4>1
    <3> QED BY <1>3, <1>4, <3>1, <3>2, AddedGoes
  <2> QED BY <2>1, <2>2
<1>6. Goes(p, q, {}) BY <1>2, <1>5, GoesThenPost
<1> QED BY <1>1, <1>6, GoesThenIdle

(* stopThePress()                                                          *)
LEMMA StopThePressGoes ==
  ASSUME NEW p, Inv(p), NEW c \in Calls, p.outcome[c] = "new", NEW recreate \in BOOLEAN,
         recreate \/ c \notin p.options.requests, NEW r \in StopThePressResults(p, c, recreate)
  PROVE  Goes(p, r, {c}) /\ Announced(r)
<1>1. PICK q \in ResetPoolResults(p, recreate) :
        r \in IF recreate THEN PostMessageResults(q, c) ELSE {EnqueueOrReject(q, c)}
  BY DEF StopThePressResults
<1>2. Goes(p, q, {}) /\ Announced(q) BY ResetGoes
<1>3. Inv(q) /\ q.outcome[c] = "new" /\ q.options = p.options BY <1>2 DEF Goes, Follows
<1>4. Goes(q, r, {c}) /\ Announced(r)
  <2>1. CASE recreate
    <3>1. r \in PostMessageResults(q, c) BY <1>1, <2>1
    <3> QED BY <1>2, <1>3, <3>1, PostMessageGoes
  <2>2. CASE ~recreate
    <3>1. r = EnqueueOrReject(q, c) BY <1>1, <2>2
    <3>2. Loose(q, c) BY <1>3 DEF Inv, Placed
    <3>3. Routable(q, c) BY <1>3, <3>2 DEF Routable
    <3> QED BY <1>2, <3>1, <3>3, EnqueueOrRejectGoes
  <2> QED BY <2>1, <2>2
<1> QED BY <1>2, <1>4, GoesThenPost

(* stopThePressBatch()                                                     *)
LEMMA StopThePressBatchGoes ==
  ASSUME NEW p, Inv(p), NEW items, IsBatch(p, items), NEW recreate \in BOOLEAN,
         NEW r \in StopThePressBatchResults(p, items, recreate)
  PROVE  Goes(p, r, In(items)) /\ Announced(r)
<1>1. PICK q \in ResetPoolResults(p, recreate) : r \in BatchResults(q, items, NoWorker)
  BY DEF StopThePressBatchResults
<1>2. Goes(p, q, {}) /\ Announced(q) BY ResetGoes
<1>3. Inv(q) /\ q.options = p.options /\ \A c \in Calls : p.outcome[c] = "new" => q.outcome[c] = "new"
  BY <1>2 DEF Goes, Follows
<1>4. IsBatch(q, items)
  <2>1. \A i \in 1..Len(items) : items[i] \in Calls BY DEF IsBatch
  <2> QED BY <1>3, <2>1 DEF IsBatch
<1>5. Goes(q, r, In(items)) /\ (Announced(q) => Announced(r)) BY <1>1, <1>3, <1>4, BatchGoes
<1> QED BY <1>2, <1>5, GoesThenPost

(***************************************************************************)
(* Broadcast.                                                              *)
(***************************************************************************)

(* A broadcast is as many tasks as there are workers.                      *)
LEMMA OneForEach ==
  ASSUME NEW p, Sound(p), NEW c
  PROVE  /\ IsFiniteSet(Live(p) \X {c})
         /\ Cardinality(Live(p) \X {c}) = Len(p.workers) /\ Len(p.workers) \in Nat
<1>1. PICK s \in Seq(Ids) : s = p.workers BY DEF Sound, PoolType
<1> DEFINE n == Len(s)
           f == [i \in 1..n |-> << s[i], c >>]
<1>2. n \in Nat BY <1>1
<1>3. IsFiniteSet(1..n) /\ Cardinality(1..n) = n
  <2>1. PICK m \in Nat : m = n BY <1>2
  <2>2. IsFiniteSet(1..m) /\ Cardinality(1..m) = m BY FS_Interval
  <2> QED BY <2>1, <2>2
<1>4. Live(p) = {s[i] : i \in 1..n} BY <1>1 DEF Live
<1>5. \A i, j \in 1..n : s[i] = s[j] => i = j BY <1>1 DEF Sound, Distinct
<1> HIDE DEF n
<1>6. f \in Bijection(1..n, Live(p) \X {c})
  <2>1. f \in [1..n -> Live(p) \X {c}] BY <1>4
  <2>2. \A i, j \in 1..n : f[i] = f[j] => i = j BY <1>5
  <2>3. \A t \in Live(p) \X {c} : \E i \in 1..n : f[i] = t
    <3> SUFFICES ASSUME NEW t \in Live(p) \X {c} PROVE \E i \in 1..n : f[i] = t
      OBVIOUS
    <3>1. PICK i \in 1..n : t = << s[i], c >> BY <1>4
    <3> QED BY <3>1
  <2> HIDE DEF f
  <2> QED BY <2>1, <2>2, <2>3 DEF Bijection, Injection, Surjection, IsInjective
<1> HIDE DEF f
<1>7. ExistsBijection(1..n, Live(p) \X {c}) BY <1>6 DEF ExistsBijection
<1> QED BY <1>1, <1>2, <1>3, <1>7, FS_Bijection DEF n

\* How the pool changes when every worker is given call c.
Floods(p, q, c) ==
  /\ q \in PoolType
  /\ SameGiven(p, q) /\ SameQueue(p, q) /\ SameRest(p, q)
  /\ q.minSize = p.minSize /\ q.maxSize = p.maxSize
  /\ q.workers = p.workers /\ q.pending = p.pending /\ q.carrier = p.carrier /\ q.listens = p.listens
  /\ q.active = p.active + Len(p.workers)
  /\ \A w \in Live(p) : q.tasks[w] = p.tasks[w] + 1 /\ q.running[w] = p.running[w] \cup {c}
  /\ \A d \in Calls : q.outcome[d] = IF d = c THEN "sent" ELSE p.outcome[d]

(* The message that broadcast() gives to every worker awaits nothing.      *)
LEMMA BroadcastFloods ==
  ASSUME NEW p, Inv(p), NEW c \in Calls
  PROVE  \E q : Floods(p, q, c) /\ Broadcast(p, c) = UpdateIdleState(q)
<1> DEFINE running == [w \in Ids |-> IF w \in Live(p) THEN p.running[w] \cup {c} ELSE p.running[w]]
           tasks == [w \in Ids |-> IF w \in Live(p) THEN p.tasks[w] + 1 ELSE p.tasks[w]]
           active == p.active + Len(p.workers)
           outcome == [p.outcome EXCEPT ![c] = "sent"]
           q == [p EXCEPT !.running = running, !.tasks = tasks, !.active = active, !.outcome = outcome]
<1>0. p \in PoolType /\ Live(p) \subseteq Ids BY CrewIsFinite DEF Inv, Sound
<1>1. Broadcast(p, c) = UpdateIdleState(q) BY <1>0 DEF Broadcast, PoolType
<1>2. /\ running \in [Ids -> SUBSET Calls]
      /\ \A w \in Live(p) : running[w] = p.running[w] \cup {c}
  BY <1>0 DEF PoolType
<1>3. /\ tasks \in [Ids -> Nat]
      /\ \A w \in Live(p) : tasks[w] = p.tasks[w] + 1
  <2>1. p.tasks \in [Ids -> Nat] BY <1>0 DEF PoolType
  <2> QED BY <1>0, <2>1
<1>4. active \in Nat
  <2>1. p.active \in Nat BY <1>0 DEF PoolType
  <2>2. Len(p.workers) \in Nat BY CrewFits DEF Inv
  <2> QED BY <2>1, <2>2
<1>5. outcome \in [Calls -> Outcome] /\ \A d \in Calls : outcome[d] = IF d = c THEN "sent" ELSE p.outcome[d]
  BY <1>0 DEF PoolType, Outcome
<1>6. active = p.active + Len(p.workers) OBVIOUS
<1> HIDE DEF running, tasks, active, outcome
<1>7. q \in PoolType BY <1>0, <1>2, <1>3, <1>4, <1>5 DEF PoolType
<1>8. /\ q.running = running /\ q.tasks = tasks /\ q.active = active /\ q.outcome = outcome
      /\ SameGiven(p, q) /\ SameQueue(p, q) /\ SameRest(p, q)
      /\ q.minSize = p.minSize /\ q.maxSize = p.maxSize
      /\ q.workers = p.workers /\ q.pending = p.pending /\ q.carrier = p.carrier /\ q.listens = p.listens
  BY <1>0 DEF SameGiven, SameQueue, SameRest, PoolType
<1> HIDE DEF q
<1>9. Floods(p, q, c) BY <1>2, <1>3, <1>5, <1>6, <1>7, <1>8 DEF Floods
<1> QED BY <1>1, <1>9

(* Every worker has the call, and it is counted for each of them.          *)
LEMMA FloodedKeeps ==
  ASSUME NEW p, NEW q, Inv(p), NEW c \in Calls, c \notin p.options.requests, p.outcome[c] = "new",
         "broadcast" \in p.uses, Floods(p, q, c)
  PROVE  Inv(q) /\ Follows(p, q, {c}, {})
<1> USE DEF Floods
<1>0. p \in PoolType /\ Live(p) \subseteq Ids BY CrewIsFinite DEF Inv, Sound
<1>1. q.options = p.options /\ Live(q) = Live(p) /\ q.queue = p.queue
  BY DEF SameGiven, SameQueue, Live
<1>2. Loose(p, c) BY DEF Inv, Placed
<1>3. \A d \in Calls : q.outcome[d] = "open" <=> p.outcome[d] = "open"
  OBVIOUS
<1>4. Sound(q) BY DEF Inv, Sound
<1>5. Booked(q) BY <1>1, <1>3 DEF Inv, Booked
<1>6. \A d \in Calls \ {c} : Loose(p, d) => Loose(q, d) BY <1>1 DEF Loose
<1>7. Placed(q)
  <2>1. \A d \in In(q.queue), v \in Live(q) : d \notin q.running[v]
    <3> SUFFICES ASSUME NEW d \in In(p.queue), NEW v \in Live(p) PROVE d \notin q.running[v]
      BY <1>1
    <3>1. d \notin p.running[v] /\ d # c BY <1>2 DEF Inv, Placed, Loose
    <3> QED BY <3>1
  <2>2. \A d \in Calls : q.outcome[d] = "new" => d # c /\ Loose(q, d)
    BY <1>6 DEF Inv, Placed
  <2> QED BY <1>1, <2>1, <2>2 DEF Inv, Placed
<1>8. Crewed(q)
  <2> SUFFICES ASSUME "chatter" \notin p.uses
               PROVE  /\ \A v \in Live(q) : q.tasks[v] = Cardinality(q.running[v])
                      /\ q.active = Cardinality(InFlight(q))
    BY DEF Crewed, SameGiven
  <2>1. /\ \A v \in Live(p) : p.tasks[v] = Cardinality(p.running[v])
        /\ p.active = Cardinality(InFlight(p))
    BY DEF Inv, Crewed
  <2>2. \A v \in Live(p) : Cardinality(p.running[v] \cup {c}) = Cardinality(p.running[v]) + 1
    BY <1>0, <1>2, CrewIsFinite, FS_AddElement DEF Loose
  <2> DEFINE new == Live(p) \X {c}
  <2>3. InFlight(q) = InFlight(p) \cup new
    <3>1. ASSUME NEW v \in Live(p), NEW d \in Calls
          PROVE  d \in q.running[v] <=> d \in p.running[v] \/ d = c
      OBVIOUS
    <3> QED BY <1>1, <3>1 DEF InFlight
  <2>4. InFlight(p) \cap new = {} BY <1>2 DEF InFlight, Loose
  <2>5. IsFiniteSet(new) /\ Cardinality(new) = Len(p.workers) /\ Len(p.workers) \in Nat
    BY OneForEach DEF Inv
  <2> HIDE DEF new
  <2>6. Cardinality(InFlight(p) \cup new) = Cardinality(InFlight(p)) + Cardinality(new)
    <3>1. Cardinality(InFlight(p) \cup new) = Cardinality(InFlight(p)) + Cardinality(new) - Cardinality({})
      BY <1>0, <2>4, <2>5, CrewIsFinite, FS_Union
    <3>2. Cardinality({}) = 0 BY FS_EmptySet
    <3>3. Cardinality(InFlight(p)) \in Nat BY <1>0, CrewIsFinite
    <3> QED BY <2>5, <3>1, <3>2, <3>3
  <2> QED BY <1>1, <2>1, <2>2, <2>3, <2>5, <2>6
<1>9. Within(q) BY <1>1 DEF Inv, Within, SameGiven
<1>10. Restful(q) BY DEF Inv, Restful, SameRest, Waiting
<1>11. \A d \in Calls : Cared(p, d) => Cared(q, d)
  <2> SUFFICES ASSUME NEW d \in Calls, Cared(p, d), q.outcome[d] = "open" PROVE Cared(q, d)
    BY DEF Cared
  <2>1. p.outcome[d] = "open" BY <1>3
  <2>2. Hears(q, d) => Hears(p, d) BY <1>1 DEF Hears
  <2>3. Sure(q) => Sure(p) BY <1>1 DEF Sure
  <2>4. Carried(p, d) => Carried(q, d) BY <1>1 DEF Carried
  <2> QED BY <2>1, <2>2, <2>3, <2>4 DEF Cared
<1>12. Follows(p, q, {c}, {}) BY <1>3, <1>6, <1>11 DEF Follows, SameGiven, Settled
<1> QED BY <1>4, <1>5, <1>7, <1>8, <1>9, <1>10, <1>12 DEF Inv

(* broadcast()                                                             *)
LEMMA BroadcastGoes ==
  ASSUME NEW p, Inv(p), NEW c \in Calls, c \notin p.options.requests, p.outcome[c] = "new",
         "broadcast" \in p.uses
  PROVE  Goes(p, Broadcast(p, c), {c}) /\ Announced(Broadcast(p, c))
<1>1. PICK q : Floods(p, q, c) /\ Broadcast(p, c) = UpdateIdleState(q) BY BroadcastFloods
<1>2. Inv(q) /\ Follows(p, q, {c}, {}) BY <1>1, FloodedKeeps
<1>3. SameRest(p, q) /\ q.outcome[c] = "sent" BY <1>1 DEF Floods
<1>4. Follows(p, q, {c}, {c}) BY <1>2, FollowsLess
<1>5. Goes(p, q, {c}) BY <1>2, <1>3, <1>4, PostGoes DEF Cared
<1> QED BY <1>1, <1>5, GoesThenIdle

(***************************************************************************)
(* The invariant, and what every step keeps.                               *)
(***************************************************************************)

\* Nobody is left, and nothing to do.
Gone(p) == p.workers = << >> /\ Quiet(p)

\* The pool has been shut down, and no operation takes place that does not look.
Final(p) == p.terminated /\ Revivals \cap p.uses = {}

\* Somebody will settle every promise, nobody waits for a pool that has been shut down, and
\* no caller that has aborted waits, where aborts are heard.
Minded(p) ==
  \A c \in Calls :
    /\ Cared(p, c)
    /\ p.outcome[c] = "open" => ~p.terminated
    /\ c \in p.aborted /\ Hears(p, c) => p.outcome[c] # "open"

\* What the pool is set up with and used for is one of the scenarios.
Given(p) ==
  /\ \E s \in Scenarios : p.options = s.options /\ p.uses = s.uses
  /\ p.aborted \subseteq p.options.signalled
  /\ "abort" \in p.uses \/ p.aborted = {}

Main(p) == Inv(p) /\ Announced(p) /\ Minded(p) /\ (Final(p) => Gone(p)) /\ Given(p)

\* What has settled stays as it is.
Keeps(p, q) == \A c \in Calls : p.outcome[c] \in Settled => q.outcome[c] = p.outcome[c]

\* A drain that the step resolves finds nothing of what was posted before.
Done(p, q) ==
  /\ "chatter" \notin p.uses
  /\ p.terminated /\ "close" \in p.uses => Revivals \cap p.uses = {}
  => \A d \in Drains, c \in Calls :
       p.drains[d] # "resolved" /\ q.drains[d] = "resolved" /\ p.outcome[c] # "new" => Loose(q, c)

\* The step from p to q keeps all of it.
Stands(p, q) == Main(q) /\ Keeps(p, q) /\ Done(p, q)

\* The step from p to q posts calls that were new, and no others.
Moves(p, q) ==
  \E C \in SUBSET Calls :
    /\ \A c \in C : p.outcome[c] = "new"
    /\ Goes(p, q, C)
    /\ Announced(p) => Announced(q)
    /\ Final(p) /\ Gone(p) => Gone(q)

(* Such a step keeps the invariant.                                        *)
LEMMA MovesStands ==
  ASSUME NEW p, NEW q, Main(p), Moves(p, q)
  PROVE  Stands(p, q)
<1>1. PICK C \in SUBSET Calls : /\ \A c \in C : p.outcome[c] = "new"
                                /\ Goes(p, q, C) /\ (Announced(p) => Announced(q))
                                /\ Final(p) /\ Gone(p) => Gone(q)
  BY DEF Moves
<1>2. /\ Inv(q) /\ Follows(p, q, C, C) /\ Honest(p, q, C) /\ \A c \in C : Wanted(q, c)
  BY <1>1 DEF Goes
<1>3. /\ q.options = p.options /\ q.uses = p.uses /\ q.terminated = p.terminated /\ q.aborted = p.aborted
      /\ \A c \in Calls : q.outcome[c] = "open" => p.outcome[c] = "open" \/ c \in C
      /\ \A c \in Calls \ C : Cared(p, c) => Cared(q, c)
      /\ Keeps(p, q)
  BY <1>2 DEF Follows, Keeps
<1>4. Minded(q)
  <2> SUFFICES ASSUME NEW c \in Calls
               PROVE  /\ Cared(q, c)
                      /\ q.outcome[c] = "open" => ~q.terminated
                      /\ c \in q.aborted /\ Hears(q, c) => q.outcome[c] # "open"
    BY DEF Minded
  <2>1. CASE c \in C BY <1>2, <2>1 DEF Wanted
  <2>2. CASE c \notin C
    <3>1. /\ Cared(p, c) /\ (p.outcome[c] = "open" => ~p.terminated)
          /\ c \in p.aborted /\ Hears(p, c) => p.outcome[c] # "open"
      BY DEF Main, Minded
    <3>2. Hears(q, c) <=> Hears(p, c) BY <1>3 DEF Hears
    <3> QED BY <1>3, <2>2, <3>1, <3>2
  <2> QED BY <2>1, <2>2
<1>5. Final(q) => Gone(q) BY <1>1, <1>3 DEF Main, Final
<1>6. Given(q) BY <1>3 DEF Main, Given
<1>7. Main(q) BY <1>1, <1>2, <1>4, <1>5, <1>6 DEF Main
<1>8. Done(p, q)
  <2> SUFFICES ASSUME "chatter" \notin p.uses, NEW d \in Drains, NEW c \in Calls,
                      p.drains[d] # "resolved", q.drains[d] = "resolved", p.outcome[c] # "new"
               PROVE  Loose(q, c)
    BY DEF Done
  <2>1. c \notin C BY <1>1
  <2> QED BY <1>2, <2>1 DEF Honest
<1> QED BY <1>3, <1>7, <1>8 DEF Stands

(* A step that posts nothing.                                              *)
LEMMA GoesMoves ==
  ASSUME NEW p, NEW q, Goes(p, q, {}), Announced(p) => Announced(q),
         ~Final(p) \/ p.workers # << >> \/ Gone(q)
  PROVE  Moves(p, q)
BY DEF Moves, Gone

(* A step that posts one call.                                             *)
LEMMA PostMoves ==
  ASSUME NEW p, NEW q, NEW c \in Calls, p.outcome[c] = "new", Goes(p, q, {c}), Announced(p) => Announced(q),
         ~Final(p) \/ p.workers # << >> \/ (Gone(p) => Gone(q))
  PROVE  Moves(p, q)
<1>1. {c} \in SUBSET Calls OBVIOUS
<1> QED BY <1>1 DEF Moves, Gone

(* What touches neither workers nor queue leaves nothing where nothing was. *)
LEMMA GoneStays ==
  ASSUME NEW p, NEW q, SameCrew(p, q), SameQueue(p, q), Gone(p)
  PROVE  Gone(q)
BY DEF SameCrew, SameQueue, Gone, Quiet

(* A pool without workers has no live worker.                              *)
LEMMA NoneLive ==
  ASSUME NEW p, NEW w \in Live(p)
  PROVE  p.workers # << >>
BY DEF Live

(***************************************************************************)
(* One lemma for each action: callers.                                     *)
(***************************************************************************)

(* A call that is refused moves neither workers nor queue.                 *)
LEMMA RefusalIsQuiet ==
  ASSUME NEW p, p \in PoolType, NEW c \in Calls
  PROVE  LET q == [p EXCEPT !.outcome[c] = "refused"] IN SameCrew(p, q) /\ SameQueue(p, q)
BY SettingMarks DEF Marks, Outcome

(* postMessage()                                                           *)
LEMMA PostMessageStands ==
  ASSUME NEW p, NEW q, Main(p), NEW c \in Calls, p.outcome[c] = "new", q \in PostMessageResults(p, c)
  PROVE  Stands(p, q)
<1>1. Inv(p) BY DEF Main
<1>2. Goes(p, q, {c}) /\ (Announced(p) => Announced(q)) BY <1>1, PostMessageGoes
<1>3. ASSUME Final(p), Gone(p) PROVE Gone(q)
  <2> DEFINE l == LookedAt(p)
  <2>1. l \in PoolType /\ SameWork(p, l) BY <1>1, LookedAtGoes DEF Goes, Inv, Sound
  <2> HIDE DEF l
  <2>2. l.terminated BY <1>3, <2>1 DEF Final, SameWork, SameGiven
  <2>3. q = [l EXCEPT !.outcome[c] = "refused"] BY <2>2 DEF PostMessageResults, AcceptedResults, l
  <2>4. Gone(l) BY <1>3, <2>1, GoneStays DEF SameWork
  <2> QED BY <2>1, <2>3, <2>4, GoneStays, RefusalIsQuiet
<1> QED BY <1>2, <1>3, PostMoves, MovesStands

(* postMessage() with options.workerId                                     *)
LEMMA PostMessageToStands ==
  ASSUME NEW p, NEW q, Main(p), NEW c \in Calls, p.outcome[c] = "new", NEW w \in Ids,
         q \in PostToWorkerResults(p, c, w)
  PROVE  Stands(p, q)
<1>1. Inv(p) BY DEF Main
<1>2. Goes(p, q, {c}) /\ (Announced(p) => Announced(q)) BY <1>1, PostToWorkerGoes
<1>3. ASSUME Final(p), Gone(p) PROVE Gone(q)
  <2>1. q = [p EXCEPT !.outcome[c] = "refused"] BY <1>3 DEF PostToWorkerResults, AcceptedResults, Final
  <2>2. p \in PoolType BY <1>1 DEF Inv, Sound
  <2> QED BY <1>3, <2>1, <2>2, GoneStays, RefusalIsQuiet
<1> QED BY <1>2, <1>3, PostMoves, MovesStands

(* The items of a batch are posted for the first time, and once.           *)
LEMMA BatchesAreBatches ==
  ASSUME Main(pool), NEW items \in Batches
  PROVE  IsBatch(pool, items) /\ In(items) \subseteq Calls /\ \A c \in In(items) : pool.outcome[c] = "new"
<1> DEFINE S == {c \in Calls : pool.outcome[c] = "new"}
<1>1. PICK n \in {2, 3} : items \in [1..n -> S]
  BY DEF Batches
<1>2. IsInjective(items)
  BY DEF Batches
<1>3. \/ \A i \in 1..Len(items) : items[i] \in pool.options.requests
      \/ \A i \in 1..Len(items) : items[i] \notin pool.options.requests
  BY DEF Batches
<1> HIDE DEF S
<1>4. n \in Nat /\ n # 0 BY <1>1
<1>5. items \in Seq(S) /\ Len(items) = n BY <1>1, <1>4
<1>6. DOMAIN items = 1..n BY <1>1
<1>7. Distinct(items) BY <1>2, <1>5, <1>6 DEF Distinct, IsInjective
<1>8. \A i \in 1..n : items[i] \in Calls /\ pool.outcome[items[i]] = "new" BY <1>1 DEF S
<1>9. items \in Seq(Calls) BY <1>5 DEF S
<1> QED BY <1>3, <1>4, <1>5, <1>7, <1>8, <1>9 DEF IsBatch, In

(* postMessageBatch()                                                      *)
LEMMA BatchStands ==
  ASSUME NEW p, NEW q, Main(p), NEW items, IsBatch(p, items), In(items) \subseteq Calls,
         \A c \in In(items) : p.outcome[c] = "new", NEW target \in Ids \cup {NoWorker},
         q \in BatchResults(p, items, target)
  PROVE  Stands(p, q)
<1>1. Inv(p) BY DEF Main
<1>2. Goes(p, q, In(items)) /\ (Announced(p) => Announced(q)) BY <1>1, BatchGoes
<1>3. ASSUME Final(p), Gone(p) PROVE Gone(q)
  <2>1. q = TurnedDown(p, items) BY <1>3 DEF BatchResults, Final
  <2>2. items \in Seq(Calls) /\ \A i \in 1..Len(items) : p.outcome[items[i]] \in {"new", "sent"}
    BY DEF IsBatch
  <2>3. SameCrew(p, q) /\ SameQueue(p, q) BY <1>1, <2>1, <2>2, TurnedDownKeeps
  <2> QED BY <1>3, <2>3, GoneStays
<1>4. Moves(p, q) BY <1>2, <1>3 DEF Moves
<1> QED BY <1>4, MovesStands

(* broadcast()                                                             *)
LEMMA BroadcastStands ==
  ASSUME NEW p, NEW q, Main(p), NEW c \in Calls, c \notin p.options.requests, p.outcome[c] = "new",
         "broadcast" \in p.uses, q = Broadcast(p, c)
  PROVE  Stands(p, q)
<1>1. Inv(p) BY DEF Main
<1>2. Goes(p, q, {c}) /\ Announced(q) BY <1>1, BroadcastGoes
<1>3. ASSUME Gone(p) PROVE Gone(q)
  <2>1. PICK f : Floods(p, f, c) /\ q = UpdateIdleState(f) BY <1>1, BroadcastFloods
  <2>2. Inv(f) BY <1>1, <2>1, FloodedKeeps
  <2>3. f.workers = << >> /\ f.queue = << >> BY <1>3, <2>1 DEF Floods, Gone, Quiet, SameQueue
  <2>4. f.active = 0
    <3>1. p.active = 0 /\ Len(p.workers) = 0 BY <1>3 DEF Gone, Quiet
    <3> QED BY <2>1, <3>1 DEF Floods
  <2>5. Gone(f) BY <2>3, <2>4 DEF Gone, Quiet
  <2>6. SameWork(f, q) BY <2>1, <2>2, IdleUpdated
  <2> QED BY <2>5, <2>6, GoneStays DEF SameWork
<1> QED BY <1>2, <1>3, PostMoves, MovesStands

(* What changes nothing but the signals and the deadlines that have gone.  *)
LEMMA RememberedKeeps ==
  ASSUME NEW p, NEW q, Inv(p), q \in PoolType,
         SameCrew(p, q), SameBooks(p, q), SameQueue(p, q), SameRest(p, q),
         q.options = p.options, q.uses = p.uses, q.terminated = p.terminated, q.listens = p.listens,
         q.minSize = p.minSize, q.maxSize = p.maxSize,
         p.aborted \subseteq q.aborted, p.elapsed \subseteq q.elapsed
  PROVE  /\ Inv(q) /\ \A c \in Calls : Cared(p, c) => Cared(q, c)
         /\ Announced(p) => Announced(q)
<1> USE DEF SameCrew, SameBooks, SameQueue
<1>1. Sound(q) BY DEF Inv, Sound
<1>2. Booked(q) BY DEF Inv, Booked
<1>3. Live(q) = Live(p) BY DEF Live
<1>4. \A c : Loose(p, c) <=> Loose(q, c) BY <1>3 DEF Loose
<1>5. Placed(q) BY <1>3, <1>4 DEF Inv, Placed
<1>6. InFlight(q) = InFlight(p) BY <1>3 DEF InFlight
<1>7. Crewed(q) BY <1>3, <1>6 DEF Inv, Crewed
<1>8. Within(q) BY <1>3 DEF Inv, Within
<1>9. Restful(q) BY DEF Inv, Restful, SameRest, Waiting
<1>10. \A c : Hears(q, c) <=> Hears(p, c) BY DEF Hears
<1>11. Sure(q) <=> Sure(p) BY DEF Sure
<1>12. \A c : Carried(q, c) <=> Carried(p, c) BY <1>3 DEF Carried
<1>13. \A c : Cared(p, c) => Cared(q, c) BY <1>10, <1>11, <1>12 DEF Cared
<1>14. Prompt(q) => Prompt(p) BY DEF Prompt, Dead
<1>15. Announced(p) => Announced(q) BY <1>14 DEF Announced, Quiet, Waiting, SameRest
<1> QED BY <1>1, <1>2, <1>5, <1>7, <1>8, <1>9, <1>13, <1>15 DEF Inv

(* _cleanupPendingResponse() for the entries of K.                         *)
LEMMA SettleStands ==
  ASSUME NEW p, Main(p), NEW K \in SUBSET Keys
  PROVE  /\ Stands(p, Settle(p, K, "rejected"))
         /\ Settles(p, Settle(p, K, "rejected"), K, "rejected")
         /\ \A c \in Calls : p.options.keyOf[c] \in K => Settle(p, K, "rejected").outcome[c] # "open"
<1> DEFINE q == Settle(p, K, "rejected")
<1>1. Inv(p) /\ p \in PoolType BY DEF Main, Inv, Sound
<1>2. Settles(p, q, K, "rejected") BY <1>1, SettleSettles DEF Settled
<1>3. /\ Inv(q) /\ Follows(p, q, {}, {})
      /\ \A c \in Calls : p.options.keyOf[c] \in K => q.outcome[c] # "open"
  BY <1>1, <1>2, SettledKeeps DEF Settled
<1> HIDE DEF q
<1>4. SameCrew(p, q) /\ SameQueue(p, q) /\ SameRest(p, q) BY <1>2 DEF Settles
<1>5. Goes(p, q, {}) BY <1>3, <1>4, FollowsGoes
<1>6. Announced(p) => Announced(q)
  BY <1>3, <1>4 DEF Announced, Prompt, Dead, Follows, Quiet, Waiting, SameCrew, SameQueue, SameRest
<1>7. Gone(p) => Gone(q) BY <1>4, GoneStays
<1>8. Moves(p, q) BY <1>5, <1>6, <1>7 DEF Moves
<1> QED BY <1>2, <1>3, <1>8, MovesStands DEF q

(* The caller's signal fires.                                              *)
LEMMA AbortStands ==
  ASSUME NEW p, NEW q, Main(p), NEW c \in p.options.signalled, "abort" \in p.uses,
         LET keys == IF c \in p.listens THEN {p.options.keyOf[c]} ELSE {}
         IN  q = [Settle(p, keys, "rejected") EXCEPT !.aborted = p.aborted \cup {c}]
  PROVE  Stands(p, q)
<1> DEFINE keys == IF c \in p.listens THEN {p.options.keyOf[c]} ELSE {}
           s == Settle(p, keys, "rejected")
           gone == p.aborted \cup {c}
<1>1. Inv(p) /\ p \in PoolType BY DEF Main, Inv, Sound
<1>2. c \in Calls /\ p.aborted \subseteq Calls BY <1>1 DEF PoolType, OptionsType
<1>3. keys \in SUBSET Keys BY <1>1, <1>2 DEF PoolType, OptionsType
<1>4. q = [s EXCEPT !.aborted = gone] OBVIOUS
<1>5. /\ Stands(p, s) /\ Settles(p, s, keys, "rejected")
      /\ \A d \in Calls : p.options.keyOf[d] \in keys => s.outcome[d] # "open"
  BY <1>3, SettleStands
<1>6. c \in p.listens => s.outcome[c] # "open" BY <1>2, <1>5
<1>7. gone \in SUBSET Calls /\ p.aborted \subseteq gone /\ gone \subseteq p.options.signalled /\ c \in gone
      /\ gone = p.aborted \cup {c}
  BY <1>2 DEF Main, Given
<1> HIDE DEF keys, s, gone
<1>8. Main(s) /\ Inv(s) /\ s \in PoolType BY <1>5 DEF Stands, Main, Inv, Sound
<1>9. /\ s.options = p.options /\ s.uses = p.uses /\ s.terminated = p.terminated /\ s.aborted = p.aborted
      /\ s.listens = p.listens /\ SameRest(p, s)
  BY <1>5, SMTT(60) DEF Settles, SameGiven
<1>10. /\ q \in PoolType /\ q.aborted = gone
       /\ SameCrew(s, q) /\ SameBooks(s, q) /\ SameQueue(s, q) /\ SameRest(s, q)
       /\ q.options = s.options /\ q.uses = s.uses /\ q.terminated = s.terminated /\ q.listens = s.listens
       /\ q.minSize = s.minSize /\ q.maxSize = s.maxSize /\ q.elapsed = s.elapsed
  <2>0. gone \in SUBSET Calls BY <1>7
  <2>1. q \in PoolType BY <1>4, <1>8, <2>0, ZenonT(60) DEF PoolType
  <2> QED BY <1>4, <1>8, <2>1, ZenonT(60) DEF PoolType, SameCrew, SameBooks, SameQueue, SameRest
<1>11. Inv(q) /\ (\A d \in Calls : Cared(s, d) => Cared(q, d)) /\ (Announced(s) => Announced(q))
  <2>1. s.aborted \subseteq q.aborted /\ s.elapsed \subseteq q.elapsed BY <1>7, <1>9, <1>10
  <2> QED BY <1>8, <1>10, <2>1, RememberedKeeps, ZenonT(60)
<1>12. \A d \in Calls : q.outcome[d] = s.outcome[d] BY <1>10 DEF SameBooks
<1>13. Minded(q)
  <2> SUFFICES ASSUME NEW d \in Calls
               PROVE  /\ Cared(q, d)
                      /\ q.outcome[d] = "open" => ~q.terminated
                      /\ d \in q.aborted /\ Hears(q, d) => q.outcome[d] # "open"
    BY DEF Minded
  <2>1. /\ Cared(s, d) /\ (s.outcome[d] = "open" => ~s.terminated)
        /\ d \in s.aborted /\ Hears(s, d) => s.outcome[d] # "open"
    BY <1>8 DEF Main, Minded
  <2>2. Hears(q, d) <=> Hears(s, d) BY <1>10 DEF Hears
  <2>3. ASSUME d = c, Hears(s, d) PROVE s.outcome[d] # "open"
    BY <1>6, <1>9, <2>1, <2>3 DEF Cared
  <2> QED BY <1>7, <1>9, <1>10, <1>11, <1>12, <2>1, <2>2, <2>3
<1>14. Final(q) => Gone(q)
  BY <1>8, <1>10 DEF Main, Final, Gone, Quiet, SameCrew, SameQueue
<1>15. Given(q) BY <1>7, <1>8, <1>9, <1>10 DEF Main, Given
<1>16. Keeps(p, q) BY <1>5, <1>12 DEF Stands, Keeps
<1>17. Done(p, q) BY <1>9, <1>10 DEF Done, SameRest
<1> QED BY <1>8, <1>11, <1>13, <1>14, <1>15, <1>16, <1>17 DEF Stands, Main

(* deadlineAt passes.                                                      *)
LEMMA ElapseStands ==
  ASSUME NEW p, NEW q, Main(p), NEW c \in p.options.deadlined,
         q = [p EXCEPT !.elapsed = p.elapsed \cup {c}]
  PROVE  Stands(p, q)
<1> DEFINE gone == p.elapsed \cup {c}
<1>1. Inv(p) /\ p \in PoolType BY DEF Main, Inv, Sound
<1>2. gone \in SUBSET Calls /\ p.elapsed \subseteq gone BY <1>1 DEF PoolType, OptionsType
<1>3. q = [p EXCEPT !.elapsed = gone] OBVIOUS
<1> HIDE DEF gone
<1>4. q \in PoolType BY <1>1, <1>2, <1>3 DEF PoolType
<1>5. /\ q.elapsed = gone
      /\ SameCrew(p, q) /\ SameBooks(p, q) /\ SameQueue(p, q) /\ SameRest(p, q)
      /\ q.options = p.options /\ q.uses = p.uses /\ q.terminated = p.terminated /\ q.listens = p.listens
      /\ q.minSize = p.minSize /\ q.maxSize = p.maxSize /\ q.aborted = p.aborted
  BY <1>1, <1>3 DEF PoolType, SameCrew, SameBooks, SameQueue, SameRest
<1>6. Inv(q) /\ (\A d \in Calls : Cared(p, d) => Cared(q, d)) /\ (Announced(p) => Announced(q))
  BY <1>1, <1>2, <1>4, <1>5, RememberedKeeps
<1>7. \A d \in Calls : q.outcome[d] = p.outcome[d] /\ (Hears(q, d) <=> Hears(p, d))
  BY <1>5 DEF SameBooks, Hears
<1>8. Minded(q) BY <1>5, <1>6, <1>7 DEF Main, Minded
<1>9. Final(q) => Gone(q) BY <1>5 DEF Main, Final, Gone, Quiet, SameCrew, SameQueue
<1>10. Given(q) BY <1>5 DEF Main, Given
<1>11. Keeps(p, q) BY <1>7 DEF Keeps
<1>12. Done(p, q) BY <1>5 DEF Done, SameRest
<1> QED BY <1>6, <1>8, <1>9, <1>10, <1>11, <1>12 DEF Stands, Main

(***************************************************************************)
(* Workers.                                                                *)
(***************************************************************************)

(* A step that touches no call, no worker and no drain.                    *)
LEMMA UntouchedStands ==
  ASSUME NEW p, NEW q, Main(p), SameWork(p, q), SameRest(p, q), q \in PoolType,
         q.minSize = p.minSize, q.maxSize = p.maxSize
  PROVE  Stands(p, q)
<1>1. Inv(p) BY DEF Main
<1>2. Goes(p, q, {}) /\ (Announced(p) => Announced(q)) BY <1>1, UntouchedGoes
<1>3. Gone(p) => Gone(q) BY GoneStays DEF SameWork
<1>4. Moves(p, q) BY <1>2, <1>3 DEF Moves
<1> QED BY <1>4, MovesStands

(* worker.onmessage for the answer to a call.                              *)
LEMMA ReplyStands ==
  ASSUME NEW p, NEW q, Main(p), NEW w \in Live(p), NEW c \in p.running[w], q \in ReplyResults(p, w, c)
  PROVE  Stands(p, q)
<1>1. Inv(p) BY DEF Main
<1>2. Goes(p, q, {}) /\ Announced(q) BY <1>1, ReplyGoes
<1> QED BY <1>2, NoneLive, GoesMoves, MovesStands

(* worker.onmessage for a message that answers nothing.                    *)
LEMMA ChatterStands ==
  ASSUME NEW p, NEW q, Main(p), "chatter" \in p.uses, NEW w \in Live(p), q \in ChatterResults(p, w)
  PROVE  Stands(p, q)
<1>1. Inv(p) BY DEF Main
<1>2. Goes(p, q, {}) /\ Announced(q) BY <1>1, ChatterGoes
<1> QED BY <1>2, NoneLive, GoesMoves, MovesStands

(* _dispatchQueuedTasks(), after a flag has changed.                       *)
LEMMA DispatchQueuedStands ==
  ASSUME NEW p, NEW f, NEW q, Main(p), {"pause", "ready"} \cap p.uses # {},
         SameWork(p, f), SameRest(p, f), f \in PoolType, f.minSize = p.minSize, f.maxSize = p.maxSize,
         q \in DispatchQueuedTasksResults(f)
  PROVE  Stands(p, q)
<1>1. Inv(p) BY DEF Main
<1>2. Goes(p, f, {}) /\ (Announced(p) => Announced(f)) BY <1>1, UntouchedGoes
<1>3. Inv(f) /\ f.uses = p.uses BY <1>2 DEF Goes, Follows
<1>4. Goes(f, q, {}) /\ (Announced(f) => Announced(q)) BY <1>3, DispatchQueuedGoes
<1>5. Goes(p, q, {}) BY <1>2, <1>4, GoesThenPost
<1>6. ASSUME Gone(p) PROVE Gone(q)
  <2>1. Gone(f) BY <1>6, GoneStays DEF SameWork
  <2>2. q = f BY <2>1 DEF DispatchQueuedTasksResults, Gone, Quiet
  <2> QED BY <2>1, <2>2
<1>7. Moves(p, q) BY <1>2, <1>4, <1>5, <1>6 DEF Moves
<1> QED BY <1>7, MovesStands

(* The ready signal.                                                       *)
LEMMA WorkerReadyStands ==
  ASSUME NEW p, NEW q, Main(p), "ready" \in p.uses, NEW w \in Live(p),
         q \in DispatchQueuedTasksResults(Announcing(p, w))
  PROVE  Stands(p, q)
<1> DEFINE ready == [p.ready EXCEPT ![w] = TRUE]
           overdue == p.overdue \ {w}
           f == [p EXCEPT !.ready = ready, !.overdue = overdue]
<1>1. p \in PoolType BY DEF Main, Inv, Sound
<1>2. ready \in [Ids -> BOOLEAN] /\ overdue \in SUBSET Ids BY <1>1 DEF PoolType
<1>3. f = Announcing(p, w) BY <1>1 DEF PoolType, Announcing
<1> HIDE DEF ready, overdue
<1>4. f \in PoolType BY <1>1, <1>2 DEF PoolType
<1>5. SameWork(p, f) /\ SameRest(p, f) /\ f.minSize = p.minSize /\ f.maxSize = p.maxSize
  BY <1>1 DEF PoolType, SameWork, SameGiven, SameCrew, SameBooks, SameQueue, SameRest
<1> HIDE DEF f
<1>6. q \in DispatchQueuedTasksResults(f) BY <1>3
<1>7. {"pause", "ready"} \cap p.uses # {} OBVIOUS
<1> QED BY <1>4, <1>5, <1>6, <1>7, DispatchQueuedStands

(* readyTimeout passes.                                                    *)
LEMMA ReadyTimeoutStands ==
  ASSUME NEW p, NEW q, Main(p), NEW w \in Live(p), q = [p EXCEPT !.overdue = p.overdue \cup {w}]
  PROVE  Stands(p, q)
<1> DEFINE overdue == p.overdue \cup {w}
<1>1. p \in PoolType /\ w \in Ids BY CrewIsFinite DEF Main, Inv, Sound
<1>2. overdue \in SUBSET Ids BY <1>1 DEF PoolType
<1>3. q = [p EXCEPT !.overdue = overdue] OBVIOUS
<1> HIDE DEF overdue
<1>4. q \in PoolType BY <1>1, <1>2, <1>3 DEF PoolType
<1>5. SameWork(p, q) /\ SameRest(p, q) /\ q.minSize = p.minSize /\ q.maxSize = p.maxSize
  BY <1>1, <1>3 DEF PoolType, SameWork, SameGiven, SameCrew, SameBooks, SameQueue, SameRest
<1> QED BY <1>4, <1>5, UntouchedStands

(* _handleWorkerExit()                                                     *)
LEMMA WorkerExitStands ==
  ASSUME NEW p, NEW q, Main(p), NEW w \in Live(p), q \in WorkerExitResults(p, w)
  PROVE  Stands(p, q)
<1>1. Inv(p) BY DEF Main
<1>2. Goes(p, q, {}) /\ Announced(q) BY <1>1, WorkerExitGoes
<1> QED BY <1>2, NoneLive, GoesMoves, MovesStands

(***************************************************************************)
(* Operators.                                                              *)
(***************************************************************************)

(* The pause flag changes.                                                 *)
LEMMA PausedIsUntouched ==
  ASSUME NEW p \in PoolType, NEW b \in BOOLEAN
  PROVE  LET f == [p EXCEPT !.paused = b]
         IN  SameWork(p, f) /\ SameRest(p, f) /\ f \in PoolType /\ f.minSize = p.minSize /\ f.maxSize = p.maxSize
<1> DEFINE f == [p EXCEPT !.paused = b]
<1>1. f \in PoolType BY DEF PoolType
<1>2. SameWork(p, f) /\ SameRest(p, f) /\ f.minSize = p.minSize /\ f.maxSize = p.maxSize
  BY DEF PoolType, SameWork, SameGiven, SameCrew, SameBooks, SameQueue, SameRest
<1> QED BY <1>1, <1>2

(* pauseQueue()                                                            *)
LEMMA PauseStands ==
  ASSUME NEW p, NEW q, Main(p), q = [p EXCEPT !.paused = TRUE]
  PROVE  Stands(p, q)
<1>1. p \in PoolType BY DEF Main, Inv, Sound
<1> QED BY <1>1, PausedIsUntouched, UntouchedStands

(* resumeQueue()                                                           *)
LEMMA ResumeStands ==
  ASSUME NEW p, NEW q, Main(p), "pause" \in p.uses, q \in DispatchQueuedTasksResults([p EXCEPT !.paused = FALSE])
  PROVE  Stands(p, q)
<1> DEFINE f == [p EXCEPT !.paused = FALSE]
<1>1. p \in PoolType BY DEF Main, Inv, Sound
<1>2. SameWork(p, f) /\ SameRest(p, f) /\ f \in PoolType /\ f.minSize = p.minSize /\ f.maxSize = p.maxSize
  BY <1>1, PausedIsUntouched
<1> HIDE DEF f
<1>3. q \in DispatchQueuedTasksResults(f) BY DEF f
<1>4. {"pause", "ready"} \cap p.uses # {} OBVIOUS
<1> QED BY <1>2, <1>3, <1>4, DispatchQueuedStands

(* addWorker()                                                             *)
LEMMA AddWorkerStands ==
  ASSUME NEW p, NEW q, Main(p), Len(p.workers) + 1 <= MaxAlive,
         q \in IF p.terminated THEN {p} ELSE {UpdateIdleState(r) : r \in AddedResults(p, 1)}
  PROVE  Stands(p, q)
<1>1. Inv(p) BY DEF Main
<1>2. CASE p.terminated
  <2>1. q = p BY <1>2
  <2>2. Goes(p, q, {}) BY <1>1, <2>1, StaysGoes
  <2>3. Moves(p, q) BY <2>1, <2>2 DEF Moves
  <2> QED BY <2>3, MovesStands
<1>3. CASE ~p.terminated
  <2>1. PICK r \in AddedResults(p, 1) : q = UpdateIdleState(r) BY <1>3
  <2>2. Goes(p, r, {}) BY <1>1, AddedGoes
  <2>3. Goes(p, q, {}) /\ Announced(q) BY <2>1, <2>2, GoesThenIdle
  <2> QED BY <1>3, <2>3, GoesMoves, MovesStands DEF Final
<1> QED BY <1>2, <1>3

(* removeWorker()                                                          *)
LEMMA RemoveWorkerStands ==
  ASSUME NEW p, Main(p), p.workers # << >>
  PROVE  Stands(p, RemoveWorker(p))
<1>1. Inv(p) BY DEF Main
<1>2. Goes(p, RemoveWorker(p), {}) /\ Announced(RemoveWorker(p)) BY <1>1, RemoveWorkerGoes
<1> QED BY <1>2, GoesMoves, MovesStands

(* resize()                                                                *)
LEMMA ResizeStands ==
  ASSUME NEW p, NEW q, Main(p), "resize" \in p.uses, NEW min \in 0..MaxAlive, NEW max \in 0..MaxAlive,
         q \in ResizeResults(p, min, max)
  PROVE  Stands(p, q)
<1>1. Inv(p) BY DEF Main
<1>2. Goes(p, q, {}) /\ Announced(q) BY <1>1, ResizeGoes
<1>3. ~Final(p) BY DEF Final, Revivals
<1> QED BY <1>2, <1>3, GoesMoves, MovesStands

(* _reapIdleWorkers()                                                      *)
LEMMA ReapStands ==
  ASSUME NEW p, Main(p), ~p.terminated, NEW old
  PROVE  Stands(p, ReapIdleWorkers(p, old))
<1>1. Inv(p) BY DEF Main
<1>2. Goes(p, ReapIdleWorkers(p, old), {}) /\ Announced(ReapIdleWorkers(p, old)) BY <1>1, ReapGoes
<1> QED BY <1>2, GoesMoves, MovesStands DEF Final

(* _autoScaleTick()                                                        *)
LEMMA AutoscaleStands ==
  ASSUME NEW p, NEW q, Main(p), ~p.terminated, q \in AutoscaleResults(p)
  PROVE  Stands(p, q)
<1>1. Inv(p) BY DEF Main
<1>2. Goes(p, q, {}) /\ (Announced(p) => Announced(q)) BY <1>1, AutoscaleGoes
<1> QED BY <1>2, GoesMoves, MovesStands DEF Final

(* stopThePress()                                                          *)
LEMMA StopThePressStands ==
  ASSUME NEW p, NEW q, Main(p), "stopThePress" \in p.uses, NEW c \in Calls, p.outcome[c] = "new",
         NEW recreate \in BOOLEAN, recreate \/ c \notin p.options.requests,
         q \in StopThePressResults(p, c, recreate)
  PROVE  Stands(p, q)
<1>1. Inv(p) BY DEF Main
<1>2. Goes(p, q, {c}) /\ Announced(q) BY <1>1, StopThePressGoes
<1>3. ~Final(p) BY DEF Final, Revivals
<1> QED BY <1>2, <1>3, PostMoves, MovesStands

(* stopThePressBatch()                                                     *)
LEMMA StopThePressBatchStands ==
  ASSUME NEW p, NEW q, Main(p), "stopThePressBatch" \in p.uses,
         NEW items, IsBatch(p, items), In(items) \subseteq Calls,
         \A c \in In(items) : p.outcome[c] = "new", NEW recreate \in BOOLEAN,
         q \in StopThePressBatchResults(p, items, recreate)
  PROVE  Stands(p, q)
<1>1. Inv(p) BY DEF Main
<1>2. Goes(p, q, In(items)) /\ Announced(q) BY <1>1, StopThePressBatchGoes
<1>3. ~Final(p) BY DEF Final, Revivals
<1>4. Moves(p, q) BY <1>2, <1>3 DEF Moves
<1> QED BY <1>4, MovesStands

(***************************************************************************)
(* Shutting down and draining.                                             *)
(***************************************************************************)

(* shutdown()                                                              *)
LEMMA ShutdownStands ==
  ASSUME NEW p, Main(p)
  PROVE  Stands(p, Shutdown(p))
<1>0. Inv(p) BY DEF Main
<1>1. CASE p.terminated
  <2>1. Shutdown(p) = p BY <1>1 DEF Shutdown
  <2>2. Goes(p, p, {}) BY <1>0, StaysGoes
  <2>3. Moves(p, p) BY <2>2 DEF Moves
  <2> QED BY <2>1, <2>3, MovesStands
<1>2. CASE ~p.terminated
  <2> DEFINE t == TRUE
             b == [ TerminateWorkers(Settle(p, Keys, "rejected"), Live(p)) EXCEPT
                      !.terminated = t, !.workers = << >>, !.queue = << >>, !.active = 0 ]
             r == UpdateIdleState(b)
  <2>1. Shutdown(p) = r BY <1>2 DEF Shutdown
  <2>2. t \in BOOLEAN OBVIOUS
  <2>3. /\ Inv(b) /\ \A c \in Calls : b.outcome[c] # "open" /\ Loose(b, c) /\ Cared(b, c)
        /\ \A c \in Calls : p.outcome[c] \in Settled \cup {"new", "sent"} => b.outcome[c] = p.outcome[c]
        /\ b.options = p.options /\ b.uses = p.uses /\ b.aborted = p.aborted
        /\ b.workers = << >> /\ Quiet(b)
    <3> DEFINE f == Bared(p, t)
    <3>1. b = f BY DEF Bared
    <3> HIDE DEF t
    <3>2. /\ Inv(f) /\ \A c \in Calls : f.outcome[c] # "open" /\ Loose(f, c) /\ Cared(f, c)
          /\ \A c \in Calls : p.outcome[c] \in Settled \cup {"new", "sent"} => f.outcome[c] = p.outcome[c]
          /\ f.options = p.options /\ f.uses = p.uses /\ f.aborted = p.aborted
          /\ f.workers = << >> /\ Quiet(f)
      BY <1>0, <2>2, BaredEmpties
    <3> HIDE DEF f, b
    <3> QED BY <3>1, <3>2
  <2> HIDE DEF b
  <2>4. Inv(r) /\ Announced(r) /\ SameWork(b, r) BY <2>3, IdleUpdated
  <2> HIDE DEF r
  <2>5. /\ r.outcome = b.outcome /\ r.options = b.options /\ r.uses = b.uses /\ r.aborted = b.aborted
        /\ Live(r) = Live(b) /\ r.queue = b.queue /\ r.running = b.running
    BY <2>4 DEF SameWork, SameBooks, SameGiven, SameCrew, SameQueue, Live
  <2>6. Gone(r)
    <3>1. Gone(b) BY <2>3 DEF Gone
    <3> QED BY <2>4, <3>1, GoneStays DEF SameWork
  <2>7. Minded(r) BY <2>3, <2>5 DEF Minded, Cared
  <2>8. Given(r) BY <2>3, <2>5 DEF Main, Given
  <2>9. Keeps(p, r) BY <2>3, <2>5 DEF Keeps
  <2>10. Done(p, r)
    <3>1. \A c \in Calls : Loose(r, c) BY <2>3, <2>5 DEF Loose
    <3> QED BY <3>1 DEF Done
  <2> QED BY <2>1, <2>4, <2>6, <2>7, <2>8, <2>9, <2>10 DEF Stands, Main
<1> QED BY <1>1, <1>2

(* Where nothing is queued or counted, no call is in anybody's hands.      *)
LEMMA QuietIsLoose ==
  ASSUME NEW p, Inv(p), "chatter" \notin p.uses, Quiet(p), NEW c \in Calls
  PROVE  Loose(p, c)
<1>1. Cardinality(InFlight(p)) = 0 /\ In(p.queue) = {} BY DEF Quiet, Inv, Crewed, In
<1>2. InFlight(p) = {}
  <2>1. p \in PoolType BY DEF Inv, Sound
  <2> QED BY <1>1, <2>1, CrewIsFinite, FS_EmptySet
<1>3. ASSUME NEW w \in Live(p), c \in p.running[w] PROVE FALSE
  <2>1. << w, c >> \in InFlight(p) BY <1>3 DEF InFlight
  <2> QED BY <1>2, <2>1
<1> QED BY <1>1, <1>3 DEF Loose

\* How the pool changes when drain d becomes v.
Turns(p, q, d, v) ==
  /\ q \in PoolType
  /\ SameWork(p, q) /\ q.idle = p.idle /\ q.minSize = p.minSize /\ q.maxSize = p.maxSize
  /\ \A e \in Drains : q.drains[e] = IF e = d THEN v ELSE p.drains[e]

(* Setting a drain changes nothing else.                                   *)
LEMMA SettingTurns ==
  ASSUME NEW p \in PoolType, NEW d \in Drains, NEW v \in {"waiting", "resolved", "rejected"},
         NEW closing \in SUBSET Drains
  PROVE  /\ Turns(p, [p EXCEPT !.drains[d] = v], d, v)
         /\ Turns(p, [[p EXCEPT !.drains[d] = v] EXCEPT !.closing = closing], d, v)
<1> DEFINE drains == [p.drains EXCEPT ![d] = v]
           q == [p EXCEPT !.drains = drains]
           r == [p EXCEPT !.drains = drains, !.closing = closing]
<1>1. /\ drains \in [Drains -> {"new", "waiting", "resolved", "rejected"}]
      /\ \A e \in Drains : drains[e] = IF e = d THEN v ELSE p.drains[e]
  BY DEF PoolType
<1>2. q = [p EXCEPT !.drains[d] = v] /\ r = [[p EXCEPT !.drains[d] = v] EXCEPT !.closing = closing]
  BY DEF PoolType
<1> HIDE DEF drains
<1>3. q \in PoolType /\ r \in PoolType BY <1>1 DEF PoolType
<1>4. Turns(p, q, d, v)
  BY <1>1, <1>3 DEF Turns, PoolType, SameWork, SameGiven, SameCrew, SameBooks, SameQueue
<1>5. Turns(p, r, d, v)
  BY <1>1, <1>3 DEF Turns, PoolType, SameWork, SameGiven, SameCrew, SameBooks, SameQueue
<1> HIDE DEF q, r
<1> QED BY <1>2, <1>4, <1>5

(* A drain may wait where there is something to wait for, and may resolve  *)
(* where there is nothing, or where the pool has been shut down for good.  *)
LEMMA TurnedStands ==
  ASSUME NEW p, NEW q, Main(p), NEW d \in Drains, NEW v, Turns(p, q, d, v),
         v = "waiting" => ~Quiet(p),
         v = "resolved" => Quiet(p) \/ (p.terminated /\ "close" \in p.uses)
  PROVE  Stands(p, q)
<1>0. Inv(p) BY DEF Main
<1>1. SameWork(p, q) /\ q.idle = p.idle BY DEF Turns
<1>2. Quiet(p) => Waiting(q) \subseteq Waiting(p) BY DEF Turns, Waiting
<1>3. Quiet(q) <=> Quiet(p) BY <1>1 DEF Quiet, SameWork, SameCrew, SameQueue
<1>4. (q.idle => Quiet(p)) /\ (Prompt(p) /\ Quiet(p) => Waiting(p) = {}) /\ (p.idle => Waiting(p) = {})
  BY <1>0, <1>1 DEF Main, Announced, Inv, Restful
<1>5. Prompt(q) <=> Prompt(p) BY <1>1 DEF Prompt, Dead, SameWork, SameGiven
<1>6. Restful(q) /\ Announced(q) BY <1>1, <1>2, <1>3, <1>4, <1>5 DEF Restful, Announced
<1>7. Inv(q) /\ Follows(p, q, {}, {})
  <2>1. q \in PoolType /\ q.minSize <= MaxAlive /\ q.maxSize <= MaxAlive BY <1>0 DEF Turns, Inv, Sound
  <2> QED BY <1>0, <1>1, <1>6, <2>1, WorkUntouched
<1>8. /\ q.options = p.options /\ q.uses = p.uses /\ q.terminated = p.terminated /\ q.aborted = p.aborted
      /\ q.outcome = p.outcome /\ Live(q) = Live(p) /\ q.running = p.running /\ q.queue = p.queue
  BY <1>1 DEF SameWork, SameGiven, SameBooks, SameCrew, SameQueue, Live
<1>9. Minded(q)
  <2>1. \A c \in Calls : Hears(q, c) <=> Hears(p, c) BY <1>8 DEF Hears
  <2>2. \A c \in Calls : Cared(p, c) => Cared(q, c) BY <1>7 DEF Follows
  <2> QED BY <1>8, <2>1, <2>2 DEF Main, Minded
<1>10. Final(q) => Gone(q)
  <2>1. Final(q) => Final(p) BY <1>8 DEF Final
  <2> QED BY <1>1, <2>1, GoneStays DEF Main, SameWork
<1>11. Given(q) BY <1>8 DEF Main, Given
<1>12. Keeps(p, q) BY <1>8 DEF Keeps
<1>13. Done(p, q)
  <2> SUFFICES ASSUME "chatter" \notin p.uses, p.terminated /\ "close" \in p.uses => Revivals \cap p.uses = {},
                      NEW e \in Drains, NEW c \in Calls, p.drains[e] # "resolved", q.drains[e] = "resolved"
               PROVE  Loose(q, c)
    BY DEF Done
  <2>1. v = "resolved" BY DEF Turns
  <2>2. Quiet(p) BY <2>1 DEF Main, Final, Gone
  <2>3. Loose(p, c) BY <1>0, <2>2, QuietIsLoose
  <2> QED BY <1>8, <2>3 DEF Loose
<1> QED BY <1>6, <1>7, <1>9, <1>10, <1>11, <1>12, <1>13 DEF Stands, Main

(* drain(), as a step of its own and as a part of close().                 *)
LEMMA StartDrainStands ==
  ASSUME NEW p, Main(p), NEW d \in Drains, NEW closing \in SUBSET Drains
  PROVE  /\ Stands(p, StartDrain(p, d))
         /\ Stands(p, [StartDrain(p, d) EXCEPT !.closing = closing])
<1>0. p \in PoolType BY DEF Main, Inv, Sound
<1>1. PICK v \in {"waiting", "resolved", "rejected"} :
        /\ StartDrain(p, d) = [p EXCEPT !.drains[d] = v]
        /\ v = "waiting" => ~Quiet(p)
        /\ v = "resolved" => Quiet(p)
  <2>1. CASE Quiet(p) BY <2>1 DEF StartDrain
  <2>2. CASE ~Quiet(p) /\ Cardinality(Waiting(p)) >= p.options.maxDrains BY <2>2 DEF StartDrain
  <2>3. CASE ~Quiet(p) /\ ~(Cardinality(Waiting(p)) >= p.options.maxDrains) BY <2>3 DEF StartDrain
  <2> QED BY <2>1, <2>2, <2>3
<1>2. /\ Turns(p, StartDrain(p, d), d, v)
      /\ Turns(p, [StartDrain(p, d) EXCEPT !.closing = closing], d, v)
  BY <1>0, <1>1, SettingTurns
<1> QED BY <1>1, <1>2, TurnedStands

(* The signal or the timeout of a waiting drain().                         *)
LEMMA GivesUpStands ==
  ASSUME NEW p, Main(p), NEW d \in Drains
  PROVE  Stands(p, [p EXCEPT !.drains[d] = "rejected"])
<1> DEFINE v == "rejected"
           none == {}
<1>1. p \in PoolType /\ v \in {"waiting", "resolved", "rejected"} /\ none \in SUBSET Drains BY DEF Main, Inv, Sound
<1>2. v # "waiting" /\ v # "resolved" OBVIOUS
<1> HIDE DEF v, none
<1>3. Turns(p, [p EXCEPT !.drains[d] = v], d, v) BY <1>1, SettingTurns
<1>4. Stands(p, [p EXCEPT !.drains[d] = v]) BY <1>2, <1>3, TurnedStands
<1> QED BY <1>4 DEF v

(* close() of a pool that has been shut down.                              *)
LEMMA CloseAgainStands ==
  ASSUME NEW p, Main(p), p.terminated, "close" \in p.uses, NEW d \in Drains
  PROVE  Stands(p, [p EXCEPT !.drains[d] = "resolved"])
<1> DEFINE v == "resolved"
           none == {}
<1>1. p \in PoolType /\ v \in {"waiting", "resolved", "rejected"} /\ none \in SUBSET Drains BY DEF Main, Inv, Sound
<1>2. v # "waiting" OBVIOUS
<1> HIDE DEF v, none
<1>3. Turns(p, [p EXCEPT !.drains[d] = v], d, v) BY <1>1, SettingTurns
<1>4. Stands(p, [p EXCEPT !.drains[d] = v]) BY <1>2, <1>3, TurnedStands
<1> QED BY <1>4 DEF v

(* close() goes on to shutdown().                                          *)
LEMMA CloseGoesOnStands ==
  ASSUME NEW p, Main(p), NEW closing \in SUBSET Drains
  PROVE  Stands(p, [Shutdown(p) EXCEPT !.closing = closing])
<1> DEFINE s == Shutdown(p)
           q == [s EXCEPT !.closing = closing]
<1>1. Stands(p, s) BY ShutdownStands
<1> HIDE DEF s
<1>2. Main(s) /\ s \in PoolType BY <1>1 DEF Stands, Main, Inv, Sound
<1>3. q \in PoolType BY <1>2 DEF PoolType
<1>4. SameWork(s, q) /\ SameRest(s, q) /\ q.minSize = s.minSize /\ q.maxSize = s.maxSize
  BY <1>2 DEF PoolType, SameWork, SameGiven, SameCrew, SameBooks, SameQueue, SameRest
<1> HIDE DEF q
<1>5. Stands(s, q) BY <1>2, <1>3, <1>4, UntouchedStands
<1>6. q.outcome = s.outcome /\ q.drains = s.drains /\ \A c \in Calls : Loose(s, c) <=> Loose(q, c)
  BY <1>4 DEF SameWork, SameBooks, SameRest, Loose, SameCrew, SameQueue, Live
<1>7. Keeps(p, q) BY <1>1, <1>6 DEF Stands, Keeps
<1>8. Done(p, q) BY <1>1, <1>6 DEF Stands, Done
<1>9. Stands(p, q) BY <1>5, <1>7, <1>8 DEF Stands
<1> QED BY <1>9 DEF q, s

(***************************************************************************)
(* The behaviours of the pool.                                             *)
(***************************************************************************)

(* The constructor, before it has added a worker.                          *)
LEMMA UnstaffedIsSound ==
  ASSUME NEW s \in Scenarios
  PROVE  LET p == Unstaffed(s)
         IN  /\ p \in PoolType /\ p.minSize <= MaxAlive /\ p.maxSize <= MaxAlive
             /\ p.workers = << >> /\ p.queue = << >> /\ p.active = 0
             /\ p.options = s.options /\ p.uses = s.uses /\ p.minSize = s.minSize
             /\ \A c \in Calls : p.outcome[c] = "new"
             /\ \A k \in Keys : p.pending[k] = NoCall
             /\ p.aborted = {} /\ ~p.terminated /\ p.idle
             /\ \A d \in Drains : p.drains[d] = "new"
<1> DEFINE limit == IF s.options.limits = {} THEN 0 ELSE Min(s.options.limits)
           none == << >>
           tasks == [w \in Ids |-> 0]
           running == [w \in Ids |-> {}]
           unready == [w \in Ids |-> FALSE]
           pending == [k \in Keys |-> NoCall]
           carrier == [k \in Keys |-> NoWorker]
           outcome == [c \in Calls |-> "new"]
           drains == [d \in Drains |-> "new"]
           p == Unstaffed(s)
<1>1. /\ s.options \in OptionsType /\ s.uses \in SUBSET Operations
      /\ s.minSize \in 0..MaxAlive /\ s.maxSize \in 0..MaxAlive
  BY PowerPoolConstants DEF ScenarioType
<1>2. s.minSize \in Nat /\ s.maxSize \in Nat /\ s.minSize <= MaxAlive /\ s.maxSize <= MaxAlive
  BY <1>1, PoolConstants
<1>3. limit \in Nat
  <2>1. CASE s.options.limits = {} BY <2>1
  <2>2. CASE s.options.limits # {}
    <3>1. s.options.limits \subseteq Nat BY <1>1 DEF OptionsType
    <3>2. \E n \in s.options.limits : \A m \in s.options.limits : n <= m BY <2>2, <3>1, LeastExists
    <3>3. Min(s.options.limits) \in s.options.limits BY <3>2 DEF Min
    <3> QED BY <2>2, <3>1, <3>3
  <2> QED BY <2>1, <2>2
<1>4. none \in Seq(Ids) /\ none \in Seq(Calls) OBVIOUS
<1>5. /\ tasks \in [Ids -> Nat] /\ running \in [Ids -> SUBSET Calls] /\ unready \in [Ids -> BOOLEAN]
      /\ pending \in [Keys -> Calls \cup {NoCall}] /\ \A k \in Keys : pending[k] = NoCall
      /\ carrier \in [Keys -> Ids \cup {NoWorker}]
  OBVIOUS
<1>6. /\ outcome \in [Calls -> Outcome] /\ \A c \in Calls : outcome[c] = "new"
      /\ drains \in [Drains -> {"new", "waiting", "resolved", "rejected"}]
      /\ \A d \in Drains : drains[d] = "new"
  BY DEF Outcome
<1>7. p = [ workers |-> none, tasks |-> tasks, running |-> running, ready |-> unready,
            overdue |-> {}, worked |-> unready, active |-> 0, queue |-> none, pending |-> pending,
            carrier |-> carrier, outcome |-> outcome, aborted |-> {}, elapsed |-> {},
            listens |-> {}, paused |-> FALSE, terminated |-> FALSE, idle |-> TRUE,
            drains |-> drains, closing |-> {}, minSize |-> s.minSize, maxSize |-> s.maxSize,
            boots |-> 0, limit |-> limit, options |-> s.options, uses |-> s.uses ]
  BY DEF Unstaffed
<1>8. none = << >> OBVIOUS
<1> HIDE DEF limit, none, tasks, running, unready, pending, carrier, outcome, drains, p
<1>9. p \in PoolType BY <1>1, <1>2, <1>3, <1>4, <1>5, <1>6, <1>7 DEF PoolType
<1> QED BY <1>2, <1>5, <1>6, <1>7, <1>8, <1>9 DEF p

(* The invariant holds of a new pool.                                      *)
LEMMA NewPoolIsSound ==
  ASSUME NEW s \in Scenarios
  PROVE  Main(NewPool(s))
<1> DEFINE p == Unstaffed(s)
           q == NewPool(s)
           n == s.minSize
<1>1. /\ p \in PoolType /\ p.minSize <= MaxAlive /\ p.maxSize <= MaxAlive
      /\ p.workers = << >> /\ p.queue = << >> /\ p.active = 0
      /\ p.options = s.options /\ p.uses = s.uses /\ p.minSize = n
      /\ \A c \in Calls : p.outcome[c] = "new"
      /\ \A k \in Keys : p.pending[k] = NoCall
      /\ p.aborted = {} /\ ~p.terminated /\ p.idle
      /\ \A d \in Drains : p.drains[d] = "new"
  BY UnstaffedIsSound
<1>2. q = AddWorkers(p, n) BY DEF NewPool
<1> HIDE DEF p, q, n
<1>3. Live(p) = {} /\ In(p.queue) = {} BY <1>1 DEF Live, In
<1>4. Inv(p)
  <2>1. Sound(p) BY <1>1 DEF Sound, Distinct
  <2>2. Booked(p)
    <3>1. \A c \in Calls : p.options.keyOf[c] \in Keys BY <1>1 DEF PoolType, OptionsType
    <3> QED BY <1>1, <3>1, PoolConstants DEF Booked
  <2>3. Placed(p) BY <1>1, <1>3 DEF Placed, Loose, Distinct
  <2>4. Crewed(p)
    <3>1. InFlight(p) = {} BY <1>3 DEF InFlight
    <3> QED BY <1>1, <1>3, <3>1, FS_EmptySet DEF Crewed
  <2>5. Within(p)
    <3>1. p.options.maxQueue \in Nat BY <1>1 DEF PoolType, OptionsType
    <3> QED BY <1>1, <1>3, <3>1 DEF Within
  <2>6. Restful(p) BY <1>1 DEF Restful, Waiting
  <2> QED BY <2>1, <2>2, <2>3, <2>4, <2>5, <2>6 DEF Inv
<1>5. n \in Nat /\ Len(p.workers) + n <= MaxAlive BY <1>1, PoolConstants DEF PoolType
<1>6. Grows(p, q, n) BY <1>2, <1>4, <1>5, AddWorkersGrows
<1>7. /\ Inv(q) /\ q.options = s.options /\ q.uses = s.uses /\ q.aborted = {} /\ ~q.terminated
      /\ \A c \in Calls : q.outcome[c] = "new"
      /\ q.idle /\ Quiet(q) /\ \A d \in Drains : q.drains[d] = "new"
  BY <1>1, <1>6 DEF Grows, Follows, SameRest, SameQueue, SameBooks, Quiet
<1>8. Announced(q) BY <1>7 DEF Announced, Waiting
<1>9. Minded(q) BY <1>7 DEF Minded, Cared
<1>10. Given(q) BY <1>7 DEF Given
<1> QED BY <1>7, <1>8, <1>9, <1>10 DEF Main, Final, q

(* What callers do.                                                        *)
LEMMA CallersStand ==
  ASSUME Main(pool),
         \/ \E c \in Calls : PostMessage(c)
         \/ \E c \in Calls, w \in Ids : PostMessageTo(c, w)
         \/ \E items \in Batches : PostMessageBatch(items)
         \/ \E items \in Batches, w \in Ids : PostMessageBatchTo(items, w)
         \/ \E c \in Calls : BroadcastMessage(c)
         \/ \E c \in Calls : Abort(c)
         \/ \E c \in Calls : Elapse(c)
         \/ \E k \in Keys : ResponseTimeout(k)
  PROVE  Stands(pool, pool')
<1>1. CASE \E c \in Calls : PostMessage(c)
  BY <1>1, PostMessageStands DEF PostMessage
<1>2. CASE \E c \in Calls, w \in Ids : PostMessageTo(c, w)
  BY <1>2, PostMessageToStands DEF PostMessageTo
<1>3. CASE \E items \in Batches : PostMessageBatch(items)
  <2>1. PICK items \in Batches : pool' \in BatchResults(pool, items, NoWorker)
    BY <1>3 DEF PostMessageBatch
  <2>2. IsBatch(pool, items) /\ In(items) \subseteq Calls /\ \A c \in In(items) : pool.outcome[c] = "new"
    BY BatchesAreBatches
  <2> QED BY <2>1, <2>2, BatchStands
<1>4. CASE \E items \in Batches, w \in Ids : PostMessageBatchTo(items, w)
  <2>1. PICK items \in Batches, w \in Ids : pool' \in BatchResults(pool, items, w)
    BY <1>4 DEF PostMessageBatchTo
  <2>2. IsBatch(pool, items) /\ In(items) \subseteq Calls /\ \A c \in In(items) : pool.outcome[c] = "new"
    BY BatchesAreBatches
  <2> QED BY <2>1, <2>2, BatchStands
<1>5. CASE \E c \in Calls : BroadcastMessage(c)
  BY <1>5, BroadcastStands DEF BroadcastMessage, Uses
<1>6. CASE \E c \in Calls : Abort(c)
  <2>1. PICK c \in pool.options.signalled :
          /\ "abort" \in pool.uses
          /\ LET keys == IF c \in pool.listens THEN {pool.options.keyOf[c]} ELSE {}
             IN  pool' = [Settle(pool, keys, "rejected") EXCEPT !.aborted = pool.aborted \cup {c}]
    BY <1>6 DEF Abort, Uses
  <2> QED BY <2>1, AbortStands
<1>7. CASE \E c \in Calls : Elapse(c)
  <2>1. PICK c \in pool.options.deadlined : pool' = [pool EXCEPT !.elapsed = pool.elapsed \cup {c}]
    BY <1>7 DEF Elapse
  <2> QED BY <2>1, ElapseStands
<1>8. CASE \E k \in Keys : ResponseTimeout(k)
  <2>1. PICK k \in Keys : pool' = Settle(pool, {k}, "rejected")
    BY <1>8 DEF ResponseTimeout
  <2>2. {k} \in SUBSET Keys OBVIOUS
  <2> QED BY <2>1, <2>2, SettleStands
<1> QED BY <1>1, <1>2, <1>3, <1>4, <1>5, <1>6, <1>7, <1>8

(* What workers do.                                                        *)
LEMMA WorkersStand ==
  ASSUME Main(pool),
         \/ \E w \in Ids, c \in Calls : Reply(w, c)
         \/ \E w \in Ids : WorkerSays(w)
         \/ \E w \in Ids : WorkerReady(w)
         \/ \E w \in Ids : ReadyTimeout(w)
         \/ \E w \in Ids : WorkerExit(w)
  PROVE  Stands(pool, pool')
<1>1. CASE \E w \in Ids, c \in Calls : Reply(w, c)
  BY <1>1, ReplyStands DEF Reply
<1>2. CASE \E w \in Ids : WorkerSays(w)
  BY <1>2, ChatterStands DEF WorkerSays, Uses
<1>3. CASE \E w \in Ids : WorkerReady(w)
  BY <1>3, WorkerReadyStands DEF WorkerReady, Uses
<1>4. CASE \E w \in Ids : ReadyTimeout(w)
  BY <1>4, ReadyTimeoutStands DEF ReadyTimeout
<1>5. CASE \E w \in Ids : WorkerExit(w)
  BY <1>5, WorkerExitStands DEF WorkerExit
<1> QED BY <1>1, <1>2, <1>3, <1>4, <1>5

(* What operators do.                                                      *)
LEMMA OperatorsStand ==
  ASSUME Main(pool),
         \/ PauseQueue \/ ResumeQueue \/ AddWorker \/ RemoveLastWorker
         \/ \E min, max \in Sizes : Resize(min, max)
         \/ ReapTick
         \/ \E c \in Calls, recreate \in BOOLEAN : StopThePress(c, recreate)
         \/ \E items \in Batches, recreate \in BOOLEAN : StopThePressBatch(items, recreate)
         \/ AutoscaleTick
  PROVE  Stands(pool, pool')
<1>1. CASE PauseQueue
  BY <1>1, PauseStands DEF PauseQueue
<1>2. CASE ResumeQueue
  <2>1. "pause" \in pool.uses /\ pool' \in DispatchQueuedTasksResults([pool EXCEPT !.paused = FALSE])
    BY <1>2 DEF ResumeQueue, Uses
  <2> QED BY <2>1, ResumeStands
<1>3. CASE AddWorker
  BY <1>3, AddWorkerStands DEF AddWorker, RoomFor
<1>4. CASE RemoveLastWorker
  BY <1>4, RemoveWorkerStands DEF RemoveLastWorker
<1>5. CASE \E min, max \in Sizes : Resize(min, max)
  <2>1. PICK min \in Sizes, max \in Sizes : "resize" \in pool.uses /\ pool' \in ResizeResults(pool, min, max)
    BY <1>5 DEF Resize, Uses
  <2>2. min \in 0..MaxAlive /\ max \in 0..MaxAlive BY PowerPoolConstants
  <2> QED BY <2>1, <2>2, ResizeStands
<1>6. CASE ReapTick
  <2>1. PICK old \in SUBSET {w \in Live(pool) : pool.tasks[w] = 0} : pool' = ReapIdleWorkers(pool, old)
    BY <1>6 DEF ReapTick
  <2>2. ~pool.terminated BY <1>6 DEF ReapTick
  <2> QED BY <2>1, <2>2, ReapStands
<1>7. CASE \E c \in Calls, recreate \in BOOLEAN : StopThePress(c, recreate)
  BY <1>7, StopThePressStands DEF StopThePress, Uses
<1>8. CASE \E items \in Batches, recreate \in BOOLEAN : StopThePressBatch(items, recreate)
  <2>1. PICK items \in Batches, recreate \in BOOLEAN :
          "stopThePressBatch" \in pool.uses /\ pool' \in StopThePressBatchResults(pool, items, recreate)
    BY <1>8 DEF StopThePressBatch, Uses
  <2>2. IsBatch(pool, items) /\ In(items) \subseteq Calls /\ \A c \in In(items) : pool.outcome[c] = "new"
    BY BatchesAreBatches
  <2> QED BY <2>1, <2>2, StopThePressBatchStands
<1>9. CASE AutoscaleTick
  BY <1>9, AutoscaleStands DEF AutoscaleTick
<1> QED BY <1>1, <1>2, <1>3, <1>4, <1>5, <1>6, <1>7, <1>8, <1>9

(* How the pool is drained and shut down.                                  *)
LEMMA DrainsStand ==
  ASSUME Main(pool),
         \/ ShutdownPool
         \/ \E d \in Drains : Drain(d)
         \/ \E d \in Drains : DrainGivesUp(d)
         \/ \E d \in Drains : Close(d)
         \/ \E d \in Drains : CloseGoesOn(d)
  PROVE  Stands(pool, pool')
<1>0. pool.closing \subseteq Drains BY DEF Main, Inv, Sound, PoolType
<1>1. CASE ShutdownPool
  BY <1>1, ShutdownStands DEF ShutdownPool
<1>2. CASE \E d \in Drains : Drain(d)
  BY <1>0, <1>2, StartDrainStands DEF Drain
<1>3. CASE \E d \in Drains : DrainGivesUp(d)
  BY <1>3, GivesUpStands DEF DrainGivesUp
<1>4. CASE \E d \in Drains : Close(d)
  <2>1. PICK d \in Drains :
          /\ "close" \in pool.uses
          /\ pool' = IF pool.terminated THEN [pool EXCEPT !.drains[d] = "resolved"]
                     ELSE [StartDrain(pool, d) EXCEPT !.closing = pool.closing \cup {d}]
    BY <1>4 DEF Close, Uses
  <2>2. CASE pool.terminated BY <2>1, <2>2, CloseAgainStands
  <2>3. CASE ~pool.terminated
    <3>1. pool' = [StartDrain(pool, d) EXCEPT !.closing = pool.closing \cup {d}] BY <2>1, <2>3
    <3>2. pool.closing \cup {d} \in SUBSET Drains BY <1>0
    <3> QED BY <3>1, <3>2, StartDrainStands
  <2> QED BY <2>2, <2>3
<1>5. CASE \E d \in Drains : CloseGoesOn(d)
  <2>1. PICK d \in Drains : pool' = [Shutdown(pool) EXCEPT !.closing = pool.closing \ {d}]
    BY <1>5 DEF CloseGoesOn
  <2>2. pool.closing \ {d} \in SUBSET Drains BY <1>0
  <2> QED BY <2>1, <2>2, CloseGoesOnStands
<1> QED BY <1>1, <1>2, <1>3, <1>4, <1>5

(* Every step keeps the invariant, settles nothing twice, and resolves no  *)
(* drain() too early.                                                      *)
LEMMA NextStands ==
  ASSUME Main(pool), [Next]_vars
  PROVE  Stands(pool, pool')
<1>1. CASE Next
  <2>1. \/ \/ \E c \in Calls : PostMessage(c)
           \/ \E c \in Calls, w \in Ids : PostMessageTo(c, w)
           \/ \E items \in Batches : PostMessageBatch(items)
           \/ \E items \in Batches, w \in Ids : PostMessageBatchTo(items, w)
           \/ \E c \in Calls : BroadcastMessage(c)
           \/ \E c \in Calls : Abort(c)
           \/ \E c \in Calls : Elapse(c)
           \/ \E k \in Keys : ResponseTimeout(k)
        \/ \/ \E w \in Ids, c \in Calls : Reply(w, c)
           \/ \E w \in Ids : WorkerSays(w)
           \/ \E w \in Ids : WorkerReady(w)
           \/ \E w \in Ids : ReadyTimeout(w)
           \/ \E w \in Ids : WorkerExit(w)
        \/ \/ PauseQueue \/ ResumeQueue \/ AddWorker \/ RemoveLastWorker
           \/ \E min, max \in Sizes : Resize(min, max)
           \/ ReapTick
           \/ \E c \in Calls, recreate \in BOOLEAN : StopThePress(c, recreate)
           \/ \E items \in Batches, recreate \in BOOLEAN : StopThePressBatch(items, recreate)
           \/ AutoscaleTick
        \/ \/ ShutdownPool
           \/ \E d \in Drains : Drain(d)
           \/ \E d \in Drains : DrainGivesUp(d)
           \/ \E d \in Drains : Close(d)
           \/ \E d \in Drains : CloseGoesOn(d)
    BY <1>1 DEF Next
  <2> QED BY <2>1, CallersStand, WorkersStand, OperatorsStand, DrainsStand
<1>2. CASE UNCHANGED vars
  <2>1. pool' = pool BY <1>2 DEF vars
  <2> QED BY <2>1 DEF Stands, Keeps, Done
<1> QED BY <1>1, <1>2

-----------------------------------------------------------------------------
(***************************************************************************)
(* The workers a pool keeps.                                               *)
(***************************************************************************)

\* What is said of the workers depends on these fields.
StaffFields ==
  {"workers", "running", "ready", "minSize", "maxSize", "boots", "terminated", "options", "uses"}

StaffTyped(p) ==
  /\ StaffFields \subseteq DOMAIN p
  /\ p.workers \in Seq(Ids) /\ p.running \in [Ids -> SUBSET Calls] /\ p.ready \in [Ids -> BOOLEAN]
  /\ p.minSize \in Nat /\ p.maxSize \in Nat /\ p.minSize <= p.maxSize /\ p.maxSize <= MaxAlive

\* The pool gives work to workers without asking whether they are ready.
Unasked(p) == Ungated \cap p.uses # {}

\* The worker is ready, or has one task at most, and none in a pool of fixed size.
Gated(p, w) ==
  Unasked(p) \/ p.ready[w] \/ ((\A c, d \in p.running[w] : c = d) /\ (Fixed(p) => p.running[w] = {}))

\* The upper bound, and what may be given to whom: holds between any two statements.
Roomy(p) ==
  /\ StaffTyped(p)
  /\ "add" \notin p.uses => Len(p.workers) <= p.maxSize
  /\ \A w \in Live(p) : Gated(p, w)

\* The lower bound, once the dead have been replaced.
Full(p) ==
  ({"remove"} \cup Resets) \cap p.uses = {} /\ ~p.options.spawnMayFail =>
    p.terminated \/ ("exit" \in p.uses /\ p.boots >= MaxBootFailures) \/ Len(p.workers) >= p.minSize

Manned(p) == Roomy(p) /\ Full(p)

\* The sizes and the scenario stay.
SameHouse(p, q) ==
  /\ q.minSize = p.minSize /\ q.maxSize = p.maxSize /\ q.boots = p.boots
  /\ q.terminated = p.terminated /\ q.options = p.options /\ q.uses = p.uses

\* The step leaves the workers alone.
Unmoved(p, q) ==
  /\ SameHouse(p, q) /\ q.workers = p.workers /\ q.running = p.running /\ q.ready = p.ready
  /\ StaffFields \subseteq DOMAIN p => StaffFields \subseteq DOMAIN q

(* A step that leaves the workers alone keeps what is said of them.        *)
LEMMA UnmovedManned ==
  ASSUME NEW p, NEW q, Unmoved(p, q)
  PROVE  (Roomy(p) => Roomy(q)) /\ (Full(p) => Full(q)) /\ Live(q) = Live(p)
<1>1. Live(q) = Live(p) BY DEF Unmoved, Live
<1>2. StaffTyped(p) => StaffTyped(q) BY DEF StaffTyped, Unmoved, SameHouse
<1>3. \A w : Gated(p, w) => Gated(q, w) BY DEF Gated, Unasked, Fixed, Unmoved, SameHouse
<1>4. Roomy(p) => Roomy(q) BY <1>1, <1>2, <1>3 DEF Roomy, Unmoved, SameHouse
<1>5. Full(p) => Full(q) BY DEF Full, Unmoved, SameHouse
<1> QED BY <1>1, <1>4, <1>5

(* One such step after the other.                                          *)
LEMMA UnmovedOn ==
  ASSUME NEW p, NEW q, NEW r, Unmoved(p, q), Unmoved(q, r)
  PROVE  Unmoved(p, r)
BY DEF Unmoved, SameHouse

(* No step at all.                                                         *)
LEMMA UnmovedStays ==
  ASSUME NEW p
  PROVE  Unmoved(p, p)
BY DEF Unmoved, SameHouse

(* Fields the workers do not depend on.                                    *)
LEMMA OtherFields ==
  ASSUME NEW p, StaffFields \subseteq DOMAIN p, NEW v, NEW u
  PROVE  /\ Unmoved(p, [p EXCEPT !.outcome = v]) /\ Unmoved(p, [p EXCEPT !.queue = v])
         /\ Unmoved(p, [p EXCEPT !.outcome[u] = v]) /\ Unmoved(p, [p EXCEPT !.limit = v])
         /\ Unmoved(p, [p EXCEPT !.aborted = v]) /\ Unmoved(p, [p EXCEPT !.elapsed = v])
         /\ Unmoved(p, [p EXCEPT !.overdue = v]) /\ Unmoved(p, [p EXCEPT !.paused = v])
         /\ Unmoved(p, [p EXCEPT !.drains[u] = v]) /\ Unmoved(p, [p EXCEPT !.closing = v])
BY DEF StaffFields, Unmoved, SameHouse

(* _cleanupPendingResponse()                                               *)
LEMMA SettleUnmoved ==
  ASSUME NEW p, StaffFields \subseteq DOMAIN p, NEW K, NEW how
  PROVE  Unmoved(p, Settle(p, K, how))
BY DEF StaffFields, Unmoved, SameHouse, Settle

(* _updateIdleState()                                                      *)
LEMMA IdleUnmoved ==
  ASSUME NEW p, StaffFields \subseteq DOMAIN p
  PROVE  Unmoved(p, UpdateIdleState(p))
BY DEF StaffFields, Unmoved, SameHouse, UpdateIdleState

(* A call is turned down.                                                  *)
LEMMA RefuseUnmoved ==
  ASSUME NEW p, StaffFields \subseteq DOMAIN p, NEW c
  PROVE  Unmoved(p, Refuse(p, c))
BY SettleUnmoved, OtherFields DEF Refuse

(* A request is registered.                                                *)
LEMMA RegisteredUnmoved ==
  ASSUME NEW p, StaffFields \subseteq DOMAIN p, NEW c
  PROVE  Unmoved(p, Registered(p, c))
<1>1. CASE c \notin p.options.requests BY <1>1, UnmovedStays DEF Registered
<1>2. CASE c \in p.options.requests
  <2> DEFINE q == Settle(p, {p.options.keyOf[c]}, "rejected")
             k == p.options.keyOf[c]
             r == [q EXCEPT !.pending[k] = c, !.carrier[k] = NoWorker, !.outcome[c] = "open"]
  <2>1. Registered(p, c) = r BY <1>2 DEF Registered, CreatePending
  <2>2. Unmoved(p, q) BY SettleUnmoved
  <2> HIDE DEF q, k
  <2>3. Unmoved(q, r) BY <2>2 DEF StaffFields, Unmoved, SameHouse
  <2> QED BY <2>1, <2>2, <2>3, UnmovedOn
<1> QED BY <1>1, <1>2

(* _enqueueOrReject()                                                      *)
LEMMA EnqueueUnmoved ==
  ASSUME NEW p, StaffFields \subseteq DOMAIN p, NEW c
  PROVE  Unmoved(p, EnqueueOrReject(p, c)) /\ Unmoved(p, HeldBack(p, c))
<1> DEFINE evicts == p.options.policy = "drop-oldest" /\ p.queue # << >>
           turned == \/ p.options.policy = "reject"
                     \/ p.options.policy = "drop-newest" /\ p.queue # << >>
                     \/ ~evicts /\ QueueFull(p)
           s == Settle(p, QueuedKeys(p, 1), "rejected")
           room == IF evicts THEN [s EXCEPT !.queue = Tail(p.queue)] ELSE p
           q == [ room EXCEPT
                 !.queue      = Enqueue(room, c),
                 !.listens    = room.listens \cup ({c} \cap p.options.requests),
                 !.outcome[c] = IF room.outcome[c] = "new" THEN "sent" ELSE room.outcome[c] ]
<1>1. EnqueueOrReject(p, c) = IF turned THEN Refuse(p, c) ELSE UpdateIdleState(q)
  BY DEF EnqueueOrReject
<1>2. Unmoved(p, room)
  <2>1. Unmoved(p, s) BY SettleUnmoved
  <2> HIDE DEF s
  <2>2. Unmoved(s, [s EXCEPT !.queue = Tail(p.queue)]) BY <2>1, OtherFields DEF Unmoved
  <2> QED BY <2>1, <2>2, UnmovedOn, UnmovedStays
<1> HIDE DEF room, evicts
<1>3. Unmoved(room, q)
  BY <1>2 DEF StaffFields, Unmoved, SameHouse
<1> HIDE DEF q, turned
<1>4. Unmoved(q, UpdateIdleState(q)) BY <1>2, <1>3, IdleUnmoved DEF Unmoved
<1>5. Unmoved(p, EnqueueOrReject(p, c)) BY <1>1, <1>2, <1>3, <1>4, UnmovedOn, RefuseUnmoved
<1> QED BY <1>5, RefuseUnmoved DEF HeldBack

(* _readyWorkers() and the ready signal only make workers ready.           *)
LEMMA EasedManned ==
  ASSUME NEW p, NEW q, Roomy(p), SameHouse(p, q), q.workers = p.workers, q.running = p.running,
         StaffFields \subseteq DOMAIN q, q.ready \in [Ids -> BOOLEAN], \A w \in Ids : p.ready[w] => q.ready[w]
  PROVE  Roomy(q) /\ (Full(p) => Full(q)) /\ Live(q) = Live(p)
<1>1. Live(q) = Live(p) BY DEF Live
<1>2. StaffTyped(q) BY DEF Roomy, StaffTyped, SameHouse
<1>3. Live(p) \subseteq Ids BY DEF Live, Roomy, StaffTyped
<1>4. \A w \in Ids : Gated(p, w) => Gated(q, w) BY DEF Gated, Unasked, Fixed, SameHouse
<1>5. Roomy(q) BY <1>1, <1>2, <1>3, <1>4 DEF Roomy, SameHouse
<1>6. Full(p) => Full(q) BY DEF Full, SameHouse
<1> QED BY <1>1, <1>5, <1>6

(* _readyWorkers()                                                         *)
LEMMA LookedAtManned ==
  ASSUME NEW p, Roomy(p)
  PROVE  Roomy(LookedAt(p)) /\ (Full(p) => Full(LookedAt(p))) /\ SameHouse(p, LookedAt(p)) /\ LookedAt(p).workers = p.workers
<1> DEFINE q == LookedAt(p)
<1>1. /\ SameHouse(p, q) /\ q.workers = p.workers /\ q.running = p.running
      /\ StaffFields \subseteq DOMAIN q
      /\ q.ready = [w \in Ids |-> p.ready[w] \/ w \in p.overdue]
  BY DEF Roomy, StaffTyped, StaffFields, SameHouse, LookedAt
<1> HIDE DEF q
<1>2. q.ready \in [Ids -> BOOLEAN] /\ \A w \in Ids : p.ready[w] => q.ready[w] BY <1>1
<1> QED BY <1>1, <1>2, EasedManned DEF q

\* The worker may be given a task.
CanTake(p, w) == Unasked(p) \/ (w \in Ids /\ (p.ready[w] \/ (p.running[w] = {} /\ ~Fixed(p))))

(* _dispatchToWorker(), to a worker that may be given a task.              *)
LEMMA DispatchManned ==
  ASSUME NEW p, Roomy(p), NEW c \in Calls, NEW w, CanTake(p, w), NEW listen
  PROVE  LET q == Dispatch(p, c, w, listen)
         IN  /\ Roomy(q) /\ (Full(p) => Full(q)) /\ SameHouse(p, q) /\ q.workers = p.workers
             /\ q.ready = p.ready
<1> DEFINE q == Dispatch(p, c, w, listen)
<1>1. /\ SameHouse(p, q) /\ q.workers = p.workers /\ q.ready = p.ready
      /\ StaffFields \subseteq DOMAIN q
      /\ q.running = [p.running EXCEPT ![w] = p.running[w] \cup {c}]
  BY DEF Roomy, StaffTyped, StaffFields, SameHouse, Dispatch
<1> HIDE DEF q
<1>2. p.running \in [Ids -> SUBSET Calls] BY DEF Roomy, StaffTyped
<1>3. /\ q.running \in [Ids -> SUBSET Calls]
      /\ \A v \in Ids : q.running[v] = IF v = w THEN p.running[v] \cup {c} ELSE p.running[v]
  BY <1>1, <1>2
<1>4. Live(q) = Live(p) BY <1>1 DEF Live
<1>5. Live(p) \subseteq Ids BY DEF Live, Roomy, StaffTyped
<1>6. ASSUME NEW v \in Live(p) PROVE Gated(q, v)
  <2>1. Gated(p, v) /\ v \in Ids BY <1>5 DEF Roomy
  <2>2. CASE v # w BY <1>1, <1>3, <2>1, <2>2 DEF Gated, Unasked, Fixed, SameHouse
  <2>3. CASE v = w BY <1>1, <1>3, <2>1, <2>3 DEF CanTake, Gated, Unasked, Fixed, SameHouse
  <2> QED BY <2>2, <2>3
<1>7. StaffTyped(q) BY <1>1, <1>3 DEF Roomy, StaffTyped, SameHouse
<1>8. Roomy(q) BY <1>1, <1>4, <1>6, <1>7 DEF Roomy, SameHouse
<1>9. Full(p) => Full(q) BY <1>1 DEF Full, SameHouse
<1> QED BY <1>1, <1>8, <1>9 DEF q

\* The step keeps what is said of the workers, and the sizes and the scenario.
Tended(p, q) == Roomy(q) /\ (Full(p) => Full(q)) /\ SameHouse(p, q)

(* One such step after the other.                                          *)
LEMMA TendedOn ==
  ASSUME NEW p, NEW q, NEW r, Tended(p, q), Tended(q, r)
  PROVE  Tended(p, r)
BY DEF Tended, SameHouse

(* A step that leaves the workers alone is one.                            *)
LEMMA UnmovedTended ==
  ASSUME NEW p, Roomy(p), NEW q, Unmoved(p, q)
  PROVE  Tended(p, q)
BY UnmovedManned DEF Tended, Unmoved

(* The fields are there.                                                   *)
LEMMA RoomyFields ==
  ASSUME NEW p, Roomy(p)
  PROVE  StaffFields \subseteq DOMAIN p
BY DEF Roomy, StaffTyped

(* _postToWorkerObj()                                                      *)
LEMMA PostToManned ==
  ASSUME NEW p, Roomy(p), NEW c \in Calls, NEW w, CanTake(p, w), NEW listen,
         NEW r \in PostToResults(p, c, w, listen)
  PROVE  Tended(p, r)
<1> DEFINE q == Dispatch(p, c, w, listen /\ c \notin p.options.zeroCopy)
<1>1. r = UpdateIdleState(q) \/ r = Refuse(p, c) BY DEF PostToResults
<1>2. CASE r = Refuse(p, c) BY <1>2, RoomyFields, RefuseUnmoved, UnmovedTended
<1>3. CASE r = UpdateIdleState(q)
  <2>1. Roomy(q) /\ Tended(p, q) BY DispatchManned DEF Tended
  <2> HIDE DEF q
  <2>2. Tended(q, r) BY <1>3, <2>1, RoomyFields, IdleUnmoved, UnmovedTended
  <2> QED BY <2>1, <2>2, TendedOn
<1> QED BY <1>1, <1>2, <1>3

(* A pool with fewer workers than MaxAlive has an id to spare.             *)
LEMMA StaffIdToSpare ==
  ASSUME NEW p, p.workers \in Seq(Ids), Len(p.workers) < MaxAlive
  PROVE  Min(Ids \ Live(p)) \in Ids \ Live(p)
<1> DEFINE n == Len(p.workers)
           f == [i \in 1..n |-> p.workers[i]]
<1>1. n \in Nat OBVIOUS
<1>2. IsFiniteSet(1..n) /\ Cardinality(1..n) = n BY <1>1, FS_Interval
<1>3. f \in Surjection(1..n, Live(p)) BY DEF Surjection, Live
<1>4. Cardinality(Live(p)) <= n BY <1>2, <1>3, FS_Surjection
<1>5. IsFiniteSet(Ids) /\ Cardinality(Ids) = MaxAlive BY FS_Interval, PoolConstants DEF Ids
<1>6. Live(p) \subseteq Ids BY DEF Live
<1>7. Live(p) # Ids
  <2>1. CASE Live(p) = Ids BY <1>1, <1>4, <1>5, <2>1, PoolConstants
  <2> QED BY <2>1
<1>8. Ids \ Live(p) # {} BY <1>6, <1>7
<1> QED BY <1>8, LeastId

(* _addWorkerInstance(), where the pool may grow: the new worker is idle.  *)
LEMMA EnlistedManned ==
  ASSUME NEW p, Roomy(p), Len(p.workers) < MaxAlive, "add" \notin p.uses => Len(p.workers) < p.maxSize
  PROVE  LET w == Min(Ids \ Live(p))
             q == AddWorkerInstance(p)
         IN  /\ Tended(p, q) /\ Len(q.workers) = Len(p.workers) + 1
             /\ w \in Ids /\ q.running[w] = {}
<1> DEFINE w == Min(Ids \ Live(p))
           q == AddWorkerInstance(p)
<1>1. w \in Ids \ Live(p) BY StaffIdToSpare DEF Roomy, StaffTyped
<1>2. /\ SameHouse(p, q) /\ StaffFields \subseteq DOMAIN q
      /\ q.workers = Append(p.workers, w)
      /\ q.running = [p.running EXCEPT ![w] = {}]
      /\ q.ready = [p.ready EXCEPT ![w] = ~p.options.readyGate]
  BY DEF Roomy, StaffTyped, StaffFields, SameHouse, AddWorkerInstance
<1> HIDE DEF q, w
<1>3. /\ p.workers \in Seq(Ids) /\ p.running \in [Ids -> SUBSET Calls] /\ p.ready \in [Ids -> BOOLEAN]
      /\ Len(p.workers) \in Nat
  BY DEF Roomy, StaffTyped
<1>4. /\ q.workers \in Seq(Ids) /\ Len(q.workers) = Len(p.workers) + 1
      /\ q.workers[Len(p.workers) + 1] = w
      /\ \A i \in 1..Len(p.workers) : q.workers[i] = p.workers[i]
  BY <1>1, <1>2, <1>3
<1>5. /\ q.running \in [Ids -> SUBSET Calls]
      /\ \A v \in Ids : q.running[v] = IF v = w THEN {} ELSE p.running[v]
  BY <1>1, <1>2, <1>3
<1>6. /\ q.ready \in [Ids -> BOOLEAN]
      /\ \A v \in Ids : v # w => q.ready[v] = p.ready[v]
  <2> DEFINE b == ~p.options.readyGate
  <2>1. b \in BOOLEAN OBVIOUS
  <2> HIDE DEF b
  <2> QED BY <1>1, <1>2, <1>3, <2>1 DEF b
<1>7. Live(q) = Live(p) \cup {w}
  <2> DEFINE a == p.workers
             b == q.workers
             n == Len(a)
             k == Len(b)
  <2>1. n \in Nat /\ k = n + 1 /\ b[n + 1] = w /\ \A i \in 1..n : b[i] = a[i] BY <1>3, <1>4
  <2> HIDE DEF a, b, n, k
  <2>2. {b[i] : i \in 1..k} = {a[i] : i \in 1..n} \cup {w} BY <2>1
  <2> QED BY <2>2 DEF Live, a, b, n, k
<1>8. Live(p) \subseteq Ids BY <1>3 DEF Live
<1>9. ASSUME NEW v \in Live(q) PROVE Gated(q, v)
  <2>1. CASE v = w BY <1>1, <1>5, <2>1 DEF Gated
  <2>2. CASE v # w
    <3>1. v \in Live(p) /\ v \in Ids /\ Gated(p, v) BY <1>7, <1>8, <2>2 DEF Roomy
    <3> QED BY <1>2, <1>5, <1>6, <2>2, <3>1 DEF Gated, Unasked, Fixed, SameHouse
  <2> QED BY <2>1, <2>2
<1>10. StaffTyped(q) BY <1>2, <1>4, <1>5, <1>6 DEF Roomy, StaffTyped, SameHouse
<1>11. "add" \notin q.uses => Len(q.workers) <= q.maxSize
  BY <1>2, <1>3, <1>4 DEF SameHouse, Roomy, StaffTyped
<1>12. Roomy(q) BY <1>9, <1>10, <1>11 DEF Roomy
<1>13. Full(p) => Full(q)
  <2>1. p.minSize \in Nat BY DEF Roomy, StaffTyped
  <2> QED BY <1>2, <1>3, <1>4, <2>1 DEF Full, SameHouse
<1> QED BY <1>1, <1>2, <1>4, <1>5, <1>12, <1>13 DEF Tended, q, w

(* What holds at first and is handed on holds in the end.                  *)
LEMMA UpTo ==
  ASSUME NEW n \in Nat, NEW T, 0 \in T, \A m \in 1..n : m - 1 \in T => m \in T
  PROVE  n \in T
<1> DEFINE F == {m \in 0..n : m \notin T}
<1>1. SUFFICES ASSUME F # {} PROVE FALSE OBVIOUS
<1>2. PICK m \in F : \A k \in F : m <= k
  <2>1. F \subseteq Nat OBVIOUS
  <2> HIDE DEF F
  <2> QED BY <1>1, <2>1, LeastExists
<1>3. m # 0 BY <1>2
<1>4. m \in 1..n /\ m - 1 \in 0..n /\ ~(m <= m - 1) BY <1>2, <1>3
<1>5. m - 1 \in T BY <1>2, <1>4
<1> QED BY <1>2, <1>4, <1>5

(* n workers more.                                                         *)
LEMMA AddWorkersManned ==
  ASSUME NEW p, Roomy(p), NEW n \in Nat, Len(p.workers) + n <= MaxAlive,
         "add" \notin p.uses => Len(p.workers) + n <= p.maxSize
  PROVE  LET q == AddWorkers(p, n) IN Tended(p, q) /\ Len(q.workers) = Len(p.workers) + n
<1> DEFINE grown == CHOOSE f : f = [i \in 0..n |-> IF i = 0 THEN p ELSE AddWorkerInstance(f[i - 1])]
<1>1. PICK f : IsGrown(p, n, f) BY GrownExists
<1>2. AddWorkers(p, n) = grown[n] BY DEF AddWorkers
<1>3. IsGrown(p, n, grown) BY <1>1 DEF IsGrown
<1> HIDE DEF grown
<1>4. Len(p.workers) \in Nat /\ p.maxSize \in Nat BY DEF Roomy, StaffTyped
<1> DEFINE Good(m) == Tended(p, grown[m]) /\ Len(grown[m].workers) = Len(p.workers) + m
           T == {m \in 0..n : Good(m)}
<1>5. 0 \in T
  <2>1. grown[0] = p BY <1>3 DEF IsGrown
  <2>2. Tended(p, p) BY UnmovedStays, UnmovedTended
  <2> QED BY <1>4, <2>1, <2>2
<1>6. ASSUME NEW m \in 1..n, m - 1 \in T PROVE m \in T
  <2>1. m - 1 \in 0..n /\ m \in 0..n /\ m # 0 OBVIOUS
  <2>2. Good(m - 1) BY <1>6
  <2> DEFINE q == grown[m - 1]
  <2>3. grown[m] = AddWorkerInstance(q) BY <1>3, <2>1 DEF IsGrown
  <2>4. Tended(p, q) /\ Len(q.workers) = Len(p.workers) + (m - 1) BY <2>2
  <2> HIDE DEF q, T
  <2>5. Roomy(q) /\ q.uses = p.uses /\ q.maxSize = p.maxSize BY <2>4 DEF Tended, SameHouse
  <2>6. Len(q.workers) < MaxAlive /\ ("add" \notin q.uses => Len(q.workers) < q.maxSize)
    BY <1>4, <2>4, <2>5, PoolConstants
  <2>7. Tended(q, grown[m]) /\ Len(grown[m].workers) = Len(q.workers) + 1
    BY <2>3, <2>5, <2>6, EnlistedManned
  <2>8. Len(grown[m].workers) = Len(p.workers) + m
    <3> DEFINE a == Len(p.workers)
               b == Len(q.workers)
               d == Len(grown[m].workers)
    <3>1. a \in Nat /\ b = a + (m - 1) /\ d = b + 1 BY <1>4, <2>4, <2>7
    <3> HIDE DEF a, b, d
    <3>2. d = a + m BY <3>1
    <3> QED BY <3>2 DEF a, d
  <2>9. Good(m) BY <2>4, <2>7, <2>8, TendedOn
  <2> QED BY <2>1, <2>9 DEF T
<1>7. n \in T
  <2> HIDE DEF T
  <2> QED BY <1>5, <1>6, UpTo
<1> QED BY <1>2, <1>7

(* A loop that adds workers and may stop early.                            *)
LEMMA AddedManned ==
  ASSUME NEW p, Roomy(p), NEW n \in Nat, Len(p.workers) + n <= MaxAlive,
         "add" \notin p.uses => Len(p.workers) + n <= p.maxSize,
         NEW q \in AddedResults(p, n)
  PROVE  /\ Tended(p, q)
         /\ \E m \in 0..n : Len(q.workers) = Len(p.workers) + m /\ (~p.options.spawnMayFail => m = n)
<1>1. PICK m \in 0..n : q = AddWorkers(p, m) /\ (~p.options.spawnMayFail => m = n)
  BY DEF AddedResults
<1>2. Len(p.workers) \in Nat /\ p.maxSize \in Nat BY DEF Roomy, StaffTyped
<1>3. Len(p.workers) + m <= MaxAlive /\ ("add" \notin p.uses => Len(p.workers) + m <= p.maxSize)
  BY <1>2, PoolConstants
<1> QED BY <1>1, <1>3, AddWorkersManned

(***************************************************************************)
(* Posts.                                                                  *)
(***************************************************************************)

(* A pool of fixed size that is not full has been shut down.               *)
LEMMA FixedIsFull ==
  ASSUME NEW p, Manned(p), ~p.terminated, Len(p.workers) < p.maxSize
  PROVE  ~Fixed(p)
<1>1. Len(p.workers) \in Nat /\ p.minSize \in Nat /\ p.maxSize \in Nat BY DEF Manned, Roomy, StaffTyped
<1> QED BY <1>1 DEF Manned, Full, Fixed

(* The ready workers.                                                      *)
LEMMA OnlyReady ==
  ASSUME NEW p, Roomy(p)
  PROVE  \A i \in 1..Len(ReadyWorkers(p)) : ReadyWorkers(p)[i] \in Ids /\ p.ready[ReadyWorkers(p)[i]]
<1> DEFINE X == {w \in Ids : ~p.ready[w]}
           t == Without(p.workers, X)
<1>1. p.workers \in Seq(Ids) BY DEF Roomy, StaffTyped
<1>2. KeepsOf(Ids, p.workers, X, Len(p.workers), t) BY <1>1, WithoutKeeps
<1>3. ReadyWorkers(p) = t BY DEF ReadyWorkers
<1> HIDE DEF t
<1>4. t \in Seq(Ids) /\ In(t) \cap X = {} BY <1>2 DEF KeepsOf
<1>5. \A i \in 1..Len(t) : t[i] \in Ids /\ t[i] \in In(t) BY <1>4 DEF In
<1> QED BY <1>3, <1>4, <1>5

(* _postMessageInner() once the call has been accepted                     *)
LEMMA RoutedTended ==
  ASSUME NEW p, Manned(p), ~p.terminated, NEW c \in Calls, NEW r \in RouteResults(p, c)
  PROVE  Tended(p, r)
<1> DEFINE least == {w \in LeastLoaded(p) : p.tasks[w] < p.options.maxTasks}
           ready == ReadyWorkers(p)
           grown == AddWorkerInstance(p)
           fresh == Min(Ids \ Live(p))
<1>0. Roomy(p) /\ StaffFields \subseteq DOMAIN p BY RoomyFields DEF Manned
<1>1. \/ r = HeldBack(p, c) \/ r = Refuse(p, c) \/ r = EnqueueOrReject(p, c)
      \/ \E w \in least : r \in PostToResults(p, c, w, TRUE)
      \/ Len(p.workers) < p.maxSize /\ r \in PostToResults(grown, c, fresh, TRUE)
      \/ \E i \in 1..Len(ready) : r \in PostToResults(p, c, ready[i], FALSE)
  <2> DEFINE sent == UNION {PostToResults(p, c, w, TRUE) : w \in least}
             any == UNION {PostToResults(p, c, ready[i], FALSE) : i \in 1..Len(ready)}
             add == PostToResults(grown, c, fresh, TRUE)
  <2>1. \/ r = HeldBack(p, c) \/ r = Refuse(p, c) \/ r = EnqueueOrReject(p, c)
        \/ r \in sent
        \/ Len(p.workers) < p.maxSize /\ r \in add
        \/ r \in any
    <3> HIDE DEF least, ready, grown, fresh, sent, any, add
    <3>1. RouteResults(p, c) =
            IF ~UnderLimit(p) THEN {HeldBack(p, c)}
            ELSE IF least # {} THEN sent
            ELSE IF Len(p.workers) < p.maxSize
            THEN add \cup (IF p.options.spawnMayFail THEN {Refuse(p, c)} ELSE {})
            ELSE IF p.options.taskQueue THEN {EnqueueOrReject(p, c)}
            ELSE IF ready = << >> THEN {Refuse(p, c)}
            ELSE any
      BY DEF RouteResults, least, ready, grown, fresh, sent, any, add
    <3> QED BY <3>1
  <2> HIDE DEF least, ready, grown, fresh
  <2> QED BY <2>1
<1>2. CASE r = HeldBack(p, c) \/ r = Refuse(p, c) \/ r = EnqueueOrReject(p, c)
  BY <1>0, <1>2, RefuseUnmoved, EnqueueUnmoved, UnmovedTended
<1>3. ASSUME NEW w \in least, r \in PostToResults(p, c, w, TRUE) PROVE Tended(p, r)
  <2>1. w \in Live(p) /\ p.ready[w] BY DEF LeastLoaded
  <2>2. w \in Ids BY <1>0, <2>1 DEF Live, Roomy, StaffTyped
  <2>3. CanTake(p, w) BY <2>1, <2>2 DEF CanTake
  <2> QED BY <1>0, <1>3, <2>3, PostToManned
<1>4. CASE Len(p.workers) < p.maxSize /\ r \in PostToResults(grown, c, fresh, TRUE)
  <2>1. Len(p.workers) < MaxAlive
    BY <1>0, <1>4, PoolConstants DEF Roomy, StaffTyped
  <2>2. Tended(p, grown) /\ fresh \in Ids /\ grown.running[fresh] = {}
    BY <1>0, <1>4, <2>1, EnlistedManned
  <2>3. ~Fixed(p) BY <1>4, FixedIsFull
  <2>4. ~Fixed(grown) BY <2>2, <2>3 DEF Tended, SameHouse, Fixed
  <2> HIDE DEF grown, fresh
  <2>5. Tended(grown, r) BY <1>4, <2>2, <2>4, PostToManned DEF CanTake, Tended
  <2> QED BY <2>2, <2>5, TendedOn
<1>5. ASSUME NEW i \in 1..Len(ready), r \in PostToResults(p, c, ready[i], FALSE) PROVE Tended(p, r)
  <2>1. CanTake(p, ready[i]) BY <1>0, OnlyReady DEF CanTake
  <2> HIDE DEF ready
  <2> QED BY <1>0, <1>5, <2>1, PostToManned
<1> QED BY <1>1, <1>2, <1>3, <1>4, <1>5

(* A call is registered.                                                   *)
LEMMA RegisteredTended ==
  ASSUME NEW p, Roomy(p), NEW c
  PROVE  Tended(p, Registered(p, c)) /\ Unmoved(p, Registered(p, c))
BY RoomyFields, RegisteredUnmoved, UnmovedTended

(* Before a call is routed                                                 *)
LEMMA AcceptedTended ==
  ASSUME NEW p, Roomy(p), NEW c \in Calls, NEW routed, ~p.terminated => \A s \in routed : Tended(p, s),
         NEW r \in AcceptedResults(p, c, routed)
  PROVE  Tended(p, r)
<1>1. StaffFields \subseteq DOMAIN p BY RoomyFields
<1> DEFINE q == Registered(p, c)
<1>2. Tended(p, q) BY RegisteredTended
<1>3. \/ r = [p EXCEPT !.outcome[c] = "refused"]
      \/ r = Refuse(q, c)
      \/ ~p.terminated /\ r \in routed
  BY DEF AcceptedResults
<1> HIDE DEF q
<1>4. Tended(q, Refuse(q, c)) BY <1>2, RoomyFields, RefuseUnmoved, UnmovedTended DEF Tended
<1>5. Tended(p, [p EXCEPT !.outcome[c] = "refused"]) BY <1>1, OtherFields, UnmovedTended
<1> QED BY <1>2, <1>3, <1>4, <1>5, TendedOn

(* postMessage()                                                           *)
LEMMA PostMessageTended ==
  ASSUME NEW p, Manned(p), NEW c \in Calls, NEW r \in PostMessageResults(p, c)
  PROVE  Tended(p, r)
<1> DEFINE q == LookedAt(p)
           s == Registered(q, c)
<1>1. Tended(p, q) /\ Manned(q) BY LookedAtManned DEF Tended, Manned
<1>2. r \in AcceptedResults(q, c, RouteResults(s, c)) BY DEF PostMessageResults
<1> HIDE DEF q
<1>3. Tended(q, s) /\ Manned(s) BY <1>1, RegisteredTended DEF Manned, Tended
<1> HIDE DEF s
<1>4. s.terminated = q.terminated BY <1>3 DEF Tended, SameHouse
<1>5. ~q.terminated => \A t \in RouteResults(s, c) : Tended(q, t)
  BY <1>3, <1>4, RoutedTended, TendedOn
<1>6. Tended(q, r) BY <1>1, <1>2, <1>5, AcceptedTended DEF Manned
<1> QED BY <1>1, <1>6, TendedOn

(* postMessage() with options.workerId, where that takes place             *)
LEMMA PostToWorkerTended ==
  ASSUME NEW p, Manned(p), Unasked(p), NEW c \in Calls, NEW w, NEW r \in PostToWorkerResults(p, c, w)
  PROVE  Tended(p, r)
<1> DEFINE s == Registered(p, c)
           routed == IF ~UnderLimit(p) THEN {HeldBack(s, c)}
                     ELSE IF w \in Live(p) /\ p.tasks[w] < p.options.maxTasks
                     THEN PostToResults(s, c, w, TRUE)
                     ELSE {Refuse(s, c)}
<1>1. r \in AcceptedResults(p, c, routed) BY DEF PostToWorkerResults
<1>2. Tended(p, s) /\ Roomy(s) /\ StaffFields \subseteq DOMAIN s
  BY RegisteredTended, RoomyFields DEF Manned, Tended
<1>3. \A t \in routed : t = HeldBack(s, c) \/ t \in PostToResults(s, c, w, TRUE) \/ t = Refuse(s, c)
  OBVIOUS
<1> HIDE DEF s, routed
<1>4. CanTake(s, w) BY <1>2 DEF CanTake, Unasked, Tended, SameHouse
<1>5. \A t \in routed : Tended(s, t)
  BY <1>2, <1>3, <1>4, EnqueueUnmoved, RefuseUnmoved, UnmovedTended, PostToManned
<1>6. \A t \in routed : Tended(p, t) BY <1>2, <1>5, TendedOn
<1> QED BY <1>1, <1>6, AcceptedTended DEF Manned

(* A batch is turned down.                                                 *)
LEMMA TurnedDownTended ==
  ASSUME NEW p, Roomy(p), NEW items
  PROVE  Tended(p, TurnedDown(p, items))
BY RoomyFields, OtherFields, UnmovedTended DEF TurnedDown

(* postMessageBatch() whose items await responses                          *)
LEMMA AwaitedTended ==
  ASSUME NEW p, Manned(p), NEW items \in Seq(Calls), NEW target, target # NoWorker => Unasked(p),
         NEW r \in AwaitedBatchResults(p, items, target)
  PROVE  Tended(p, r)
<1> DEFINE n == Len(items)
           posted == CHOOSE f : f =
             [i \in 0..n |->
              IF i = 0 THEN {p}
              ELSE UNION {IF target = NoWorker THEN PostMessageResults(q, items[i])
                          ELSE PostToWorkerResults(q, items[i], target) : q \in f[i - 1]}]
<1>0. n \in Nat OBVIOUS
<1>1. r = TurnedDown(p, items) \/ r \in posted[n] BY DEF AwaitedBatchResults
<1>2. CASE r = TurnedDown(p, items) BY <1>2, TurnedDownTended DEF Manned
<1>3. PICK f : IsPosted(p, items, target, n, f) BY <1>0, PostedExists
<1>4. IsPosted(p, items, target, n, posted) BY <1>3 DEF IsPosted
<1> HIDE DEF posted
<1> DEFINE Good(m) == \A q \in posted[m] : Tended(p, q)
           T == {m \in 0..n : Good(m)}
<1>5. 0 \in T
  <2>1. posted[0] = {p} BY <1>0, <1>4 DEF IsPosted
  <2>2. Tended(p, p) BY UnmovedStays, UnmovedTended DEF Manned
  <2> QED BY <1>0, <2>1, <2>2
<1>6. ASSUME NEW m \in 1..n, m - 1 \in T PROVE m \in T
  <2>1. m \in 0..n /\ m # 0 /\ items[m] \in Calls BY <1>0
  <2>2. Good(m - 1) BY <1>6
  <2>3. posted[m] = UNION {IF target = NoWorker THEN PostMessageResults(q, items[m])
                           ELSE PostToWorkerResults(q, items[m], target) : q \in posted[m - 1]}
    BY <1>4, <2>1 DEF IsPosted
  <2>4. ASSUME NEW t \in posted[m] PROVE Tended(p, t)
    <3>1. PICK q \in posted[m - 1] :
            t \in IF target = NoWorker THEN PostMessageResults(q, items[m])
                  ELSE PostToWorkerResults(q, items[m], target)
      BY <2>3
    <3>2. Tended(p, q) BY <2>2
    <3>3. Manned(q) /\ (target # NoWorker => Unasked(q))
      BY <3>2 DEF Manned, Tended, SameHouse, Unasked
    <3>4. Tended(q, t) BY <2>1, <3>1, <3>3, PostMessageTended, PostToWorkerTended
    <3> QED BY <3>2, <3>4, TendedOn
  <2>5. Good(m) BY <2>4
  <2> QED BY <2>1, <2>5 DEF T
<1>7. n \in T
  <2> HIDE DEF T
  <2> QED BY <1>0, <1>5, <1>6, UpTo
<1> QED BY <1>1, <1>2, <1>7

(***************************************************************************)
(* Batches whose items await nothing.                                      *)
(***************************************************************************)

\* A state of the loop: the pool in it is looked after.
Tending(p, s) == {"p", "chosen", "queued"} \subseteq DOMAIN s /\ Tended(p, s.p)

(* One item of postMessageBatch(): workers are not asked whether they are  *)
(* ready.                                                                  *)
LEMMA BatchItemTended ==
  ASSUME NEW p, Unasked(p), NEW s, Tending(p, s), NEW c \in Calls, NEW targeted \in BOOLEAN,
         NEW t \in BatchItemResults(s, c, targeted)
  PROVE  Tending(p, t)
<1> DEFINE o == s.p
           least == {w \in IF s.chosen # NoWorker THEN {s.chosen}
                           ELSE IF targeted THEN {} ELSE LeastLoadedOfAll(o) :
                        o.tasks[w] < o.options.maxTasks}
           grown == AddWorkerInstance(o)
           evicted == IF o.options.policy = "drop-oldest" /\ o.queue # << >>
                      THEN [Settle(o, QueuedKeys(o, 1), "rejected") EXCEPT !.queue = Tail(o.queue)]
                      ELSE o
           sent(q, w) == [ s EXCEPT !.p = Dispatch(q, c, w, FALSE),
                                    !.chosen = IF q.tasks[w] + 1 < q.options.maxTasks THEN w
                                               ELSE NoWorker ]
           held(q) == [s EXCEPT !.p = [q EXCEPT !.outcome[c] = "sent"], !.queued = Append(s.queued, c)]
           no(q) == [s EXCEPT !.p = [q EXCEPT !.outcome[c] = "refused"]]
           try(q, w) == {sent(q, w)} \cup IF c \in o.options.mayThrow THEN {no(q)} ELSE {}
           fresh == Min(Ids \ Live(o))
<1>1. \/ t = held(o) \/ t = no(o) \/ t = held(evicted)
      \/ \E w \in least : t \in try(o, w)
      \/ Len(o.workers) < o.maxSize /\ t \in try(grown, fresh)
      \/ \E w \in Live(o) : \E u \in try(o, w) : t = [u EXCEPT !.chosen = s.chosen]
  <2>1. t \in
          IF ~UnderLimit(o) THEN {IF o.options.taskQueue THEN held(o) ELSE no(o)}
          ELSE IF least # {} THEN UNION {try(o, w) : w \in least}
          ELSE IF targeted THEN {no(o)}
          ELSE IF Len(o.workers) < o.maxSize
          THEN try(grown, fresh) \cup IF o.options.spawnMayFail THEN {no(o)} ELSE {}
          ELSE IF o.options.taskQueue
          THEN {IF o.options.policy = "reject" \/ (o.options.policy = "drop-newest" /\ o.queue # << >>)
                THEN no(o) ELSE held(evicted)}
          ELSE IF o.workers = << >> THEN {no(o)}
          ELSE UNION {{[r EXCEPT !.chosen = s.chosen] : r \in try(o, w)} : w \in Live(o)}
    BY Zenon DEF BatchItemResults
  <2> HIDE DEF sent, held, no, least, grown, fresh, evicted, o, try
  <2> QED BY <2>1
<1>2. Tended(p, o) /\ Roomy(o) /\ StaffFields \subseteq DOMAIN o /\ Unasked(o)
  BY RoomyFields DEF Tending, Tended, SameHouse, Unasked
<1>3. \A q, v : Tended(o, q) => Tended(o, [q EXCEPT !.outcome[c] = v])
  <2> TAKE q, v
  <2> HAVE Tended(o, q)
  <2>1. Roomy(q) /\ StaffFields \subseteq DOMAIN q BY RoomyFields DEF Tended
  <2>2. Tended(q, [q EXCEPT !.outcome[c] = v]) BY <2>1, OtherFields, UnmovedTended
  <2> QED BY <2>2, TendedOn
<1>4. Tended(o, o) BY <1>2, UnmovedStays, UnmovedTended
<1>5. Tended(o, evicted)
  <2> DEFINE set == Settle(o, QueuedKeys(o, 1), "rejected")
  <2>1. Tended(o, set) /\ Roomy(set) /\ StaffFields \subseteq DOMAIN set
    BY <1>2, SettleUnmoved, UnmovedTended, RoomyFields DEF Tended
  <2> HIDE DEF set
  <2>2. Tended(set, [set EXCEPT !.queue = Tail(o.queue)]) BY <2>1, OtherFields, UnmovedTended
  <2>3. Tended(o, [Settle(o, QueuedKeys(o, 1), "rejected") EXCEPT !.queue = Tail(o.queue)])
    BY <2>1, <2>2, TendedOn DEF set
  <2> QED BY <1>4, <2>3
<1>6. Len(o.workers) < o.maxSize => Tended(o, grown)
  <2>1. Len(o.workers) \in Nat /\ o.maxSize \in Nat /\ o.maxSize <= MaxAlive
    BY <1>2 DEF Roomy, StaffTyped
  <2> HIDE DEF o
  <2>2. Len(o.workers) < o.maxSize => Len(o.workers) < MaxAlive BY <2>1, PoolConstants
  <2> QED BY <1>2, <2>2, EnlistedManned
<1>7. {"p", "chosen", "queued"} \subseteq DOMAIN s BY DEF Tending
<1> HIDE DEF o, evicted, grown, least, fresh
<1>8. \A q : Tended(o, q) => /\ {"p", "chosen", "queued"} \subseteq DOMAIN held(q) /\ Tended(o, held(q).p)
                             /\ {"p", "chosen", "queued"} \subseteq DOMAIN no(q) /\ Tended(o, no(q).p)
  BY <1>3, <1>7
<1>9. \A q, w : Tended(o, q) => {"p", "chosen", "queued"} \subseteq DOMAIN sent(q, w) /\ Tended(o, sent(q, w).p)
  <2> TAKE q, w
  <2> HAVE Tended(o, q)
  <2>1. Roomy(q) /\ CanTake(q, w) BY <1>2 DEF Tended, SameHouse, CanTake, Unasked
  <2>2. Tended(q, Dispatch(q, c, w, FALSE)) BY <2>1, DispatchManned DEF Tended
  <2>3. Tended(o, Dispatch(q, c, w, FALSE)) BY <2>2, TendedOn
  <2> QED BY <1>7, <2>3
<1> HIDE DEF held, no, sent
<1>10. \A q, w : Tended(o, q) => \A u \in try(q, w) : {"p", "chosen", "queued"} \subseteq DOMAIN u /\ Tended(o, u.p)
  BY <1>8, <1>9
<1>11. {"p", "chosen", "queued"} \subseteq DOMAIN t /\ Tended(o, t.p)
  <2>1. CASE t = held(o) \/ t = no(o) \/ t = held(evicted) BY <1>4, <1>5, <1>8, <2>1
  <2> HIDE DEF try
  <2>2. CASE \E w \in least : t \in try(o, w) BY <1>4, <1>10, <2>2
  <2>3. CASE Len(o.workers) < o.maxSize /\ t \in try(grown, fresh) BY <1>6, <1>10, <2>3
  <2>4. CASE \E w \in Live(o) : \E u \in try(o, w) : t = [u EXCEPT !.chosen = s.chosen]
    <3>1. PICK w \in Live(o) : \E u \in try(o, w) : t = [u EXCEPT !.chosen = s.chosen] BY <2>4
    <3>2. PICK u \in try(o, w) : t = [u EXCEPT !.chosen = s.chosen] BY <3>1
    <3>3. {"p", "chosen", "queued"} \subseteq DOMAIN u /\ Tended(o, u.p) BY <1>4, <1>10
    <3>4. t.p = u.p /\ DOMAIN t = DOMAIN u BY <3>2, <3>3
    <3> QED BY <3>3, <3>4
  <2> QED BY <1>1, <2>1, <2>2, <2>3, <2>4
<1> QED BY <1>2, <1>11, TendedOn DEF Tending

(* The end of postMessageBatch() leaves the workers alone.                 *)
LEMMA BatchEndsTended ==
  ASSUME NEW p, NEW s, Roomy(s.p)
  PROVE  Tended(s.p, BatchEnds(p, s))
<1> DEFINE n == Len(s.queued)
           o == s.p
           excess == Len(o.queue) + n - o.options.maxQueue
           gone == IF o.options.policy = "drop-oldest" THEN Smaller(AtLeast0(excess), Len(o.queue)) ELSE 0
           set == Settle(o, QueuedKeys(o, gone), "rejected")
           room == MadeRoom(o, n)
           admitted == SubSeq(s.queued, 1, Reserves(room, n))
           left == TurnedDown(room, SubSeq(s.queued, Len(admitted) + 1, n))
           after == [left EXCEPT !.queue = EnqueuedAll(left, admitted)]
<1>1. BatchEnds(p, s) = IF after.active # p.active \/ admitted # << >> THEN UpdateIdleState(after) ELSE after
  BY DEF BatchEnds
<1>2. Tended(o, room)
  <2>1. Tended(o, set) /\ Roomy(set) /\ StaffFields \subseteq DOMAIN set
    BY RoomyFields, SettleUnmoved, UnmovedTended DEF Tended
  <2>2. room = [set EXCEPT !.queue = SubSeq(o.queue, gone + 1, Len(o.queue))] BY DEF MadeRoom
  <2> HIDE DEF set, room
  <2>3. Tended(set, room) BY <2>1, <2>2, OtherFields, UnmovedTended
  <2> QED BY <2>1, <2>3, TendedOn
<1> HIDE DEF room
<1>3. Tended(room, left) BY <1>2, TurnedDownTended DEF Tended
<1> HIDE DEF left, admitted
<1>4. Tended(left, after) BY <1>3, RoomyFields, OtherFields, UnmovedTended DEF Tended
<1> HIDE DEF after, o
<1>5. Tended(after, UpdateIdleState(after)) BY <1>4, RoomyFields, IdleUnmoved, UnmovedTended DEF Tended
<1>6. Tended(o, after) BY <1>2, <1>3, <1>4, TendedOn
<1>7. BatchEnds(p, s) = UpdateIdleState(after) \/ BatchEnds(p, s) = after BY <1>1
<1>8. Tended(o, BatchEnds(p, s)) BY <1>5, <1>6, <1>7, TendedOn
<1> QED BY <1>8 DEF o

(* postMessageBatch()                                                      *)
LEMMA BatchTended ==
  ASSUME NEW p, Manned(p), Unasked(p), NEW items \in Seq(Calls), NEW target,
         NEW r \in BatchResults(p, items, target)
  PROVE  Tended(p, r)
<1> DEFINE n == Len(items)
           targeted == target # NoWorker
           chosen == IF target \in Live(p) /\ p.tasks[target] < p.options.maxTasks THEN target ELSE NoWorker
           start == [p |-> p, queued |-> << >>, chosen |-> chosen]
           done == CHOOSE f : f =
             [i \in 0..n |-> IF i = 0 THEN {start}
                             ELSE UNION {BatchItemResults(s, items[i], targeted) : s \in f[i - 1]}]
<1>0. n \in Nat OBVIOUS
<1>1. \/ r = TurnedDown(p, items)
      \/ r \in AwaitedBatchResults(p, items, target)
      \/ r \in {BatchEnds(p, s) : s \in done[n]}
  BY DEF BatchResults
<1>2. CASE r = TurnedDown(p, items) BY <1>2, TurnedDownTended DEF Manned
<1>3. CASE r \in AwaitedBatchResults(p, items, target) BY <1>3, AwaitedTended
<1>4. CASE r \in {BatchEnds(p, s) : s \in done[n]}
  <2>1. IsDone(start, items, targeted, n, done)
    <3>1. PICK f : IsDone(start, items, targeted, n, f) BY <1>0, DoneExists
    <3> QED BY <3>1 DEF IsDone
  <2> HIDE DEF done
  <2> DEFINE Good(m) == \A s \in done[m] : Tending(p, s)
             T == {m \in 0..n : Good(m)}
  <2>2. 0 \in T
    <3>1. done[0] = {start} BY <1>0, <2>1 DEF IsDone
    <3>2. Tended(p, p) BY UnmovedStays, UnmovedTended DEF Manned
    <3>3. {"p", "chosen", "queued"} \subseteq DOMAIN start /\ start.p = p OBVIOUS
    <3> HIDE DEF start
    <3>4. Tending(p, start) BY <3>2, <3>3 DEF Tending
    <3> QED BY <1>0, <3>1, <3>4
  <2>3. ASSUME NEW m \in 1..n, m - 1 \in T PROVE m \in T
    <3>1. m \in 0..n /\ m # 0 /\ items[m] \in Calls BY <1>0
    <3>2. Good(m - 1) BY <2>3
    <3>3. done[m] = UNION {BatchItemResults(s, items[m], targeted) : s \in done[m - 1]}
      BY <2>1, <3>1 DEF IsDone
    <3>4. ASSUME NEW t \in done[m] PROVE Tending(p, t)
      <4>1. PICK s \in done[m - 1] : t \in BatchItemResults(s, items[m], targeted) BY <3>3
      <4>2. targeted \in BOOLEAN OBVIOUS
      <4> HIDE DEF targeted
      <4> QED BY <3>1, <3>2, <4>1, <4>2, BatchItemTended
    <3>5. Good(m) BY <3>4
    <3> QED BY <3>1, <3>5 DEF T
  <2>4. n \in T
    <3> HIDE DEF T
    <3> QED BY <1>0, <2>2, <2>3, UpTo
  <2>5. PICK s \in done[n] : r = BatchEnds(p, s) BY <1>4
  <2>6. Tended(p, s.p) BY <2>4 DEF Tending
  <2>7. Tended(s.p, r) BY <2>5, <2>6, BatchEndsTended DEF Tended
  <2> QED BY <2>6, <2>7, TendedOn
<1> QED BY <1>1, <1>2, <1>3, <1>4

(***************************************************************************)
(* Work that is taken off: messages of workers, and the pass over the      *)
(* queue.                                                                  *)
(***************************************************************************)

(* Fewer workers with less to do.                                          *)
LEMMA LessManned ==
  ASSUME NEW p, \A w \in Live(p) : Gated(p, w), NEW q, StaffTyped(q), q.uses = p.uses, q.options = p.options, Fixed(q) => Fixed(p),
         Live(q) \subseteq Live(p), \A v \in Live(q) : q.running[v] \subseteq p.running[v] /\ q.ready[v] = p.ready[v],
         "add" \notin q.uses => Len(q.workers) <= q.maxSize
  PROVE  Roomy(q)
<1>1. ASSUME NEW v \in Live(q) PROVE Gated(q, v)
  <2>1. Gated(p, v) OBVIOUS
  <2>2. q.running[v] \subseteq p.running[v] /\ q.ready[v] = p.ready[v] OBVIOUS
  <2> QED BY <2>1, <2>2 DEF Gated, Unasked
<1> QED BY <1>1 DEF Roomy

(* The dequeue at the end of worker.onmessage.                             *)
LEMMA TakeNextTended ==
  ASSUME NEW p, Roomy(p), p.queue \in Seq(Calls), NEW w, CanTake(p, w), NEW r \in TakeNextResults(p, w)
  PROVE  Tended(p, r)
<1> DEFINE without(D, n) ==
             [ Settle(p, {p.options.keyOf[p.queue[i]] : i \in {j \in D : p.queue[j] \in p.options.requests}},
                      "rejected") EXCEPT
                 !.queue = Without(p.queue, {p.queue[i] : i \in (D \cup {n}) \ {0}}) ]
<1>0. Len(p.queue) \in Nat OBVIOUS
<1>1. PICK D, n : /\ n \in 0..Len(p.queue)
                  /\ \/ r = without(D, n)
                     \/ n # 0 /\ r = Dispatch(without(D, n), p.queue[n], w, TRUE)
  <2>1. PICK t \in Takes(p) :
          r \in IF t[2] = 0 THEN {without(t[1], t[2])}
                ELSE {Dispatch(without(t[1], t[2]), p.queue[t[2]], w, TRUE)}
                       \cup (IF p.queue[t[2]] \in p.options.mayThrow THEN {without(t[1], t[2])} ELSE {})
    BY DEF TakeNextResults
  <2>2. t[2] \in 0..Len(p.queue) BY <1>0 DEF Takes
  <2> HIDE DEF without
  <2> QED BY <2>1, <2>2
<1> DEFINE set == Settle(p, {p.options.keyOf[p.queue[i]] : i \in {j \in D : p.queue[j] \in p.options.requests}},
                         "rejected")
           q == without(D, n)
<1>2. Unmoved(p, q)
  <2>1. Unmoved(p, set) /\ StaffFields \subseteq DOMAIN p BY RoomyFields, SettleUnmoved
  <2>2. q = [set EXCEPT !.queue = Without(p.queue, {p.queue[i] : i \in (D \cup {n}) \ {0}})] OBVIOUS
  <2> HIDE DEF set, q
  <2>3. Unmoved(set, q) BY <2>1, <2>2, OtherFields DEF Unmoved
  <2> QED BY <2>1, <2>3, UnmovedOn
<1> HIDE DEF without
<1> HIDE DEF q
<1>3. Tended(p, q) /\ Roomy(q) BY <1>2, UnmovedTended DEF Tended
<1>4. CASE n # 0 /\ r = Dispatch(q, p.queue[n], w, TRUE)
  <2>1. p.queue[n] \in Calls BY <1>0, <1>1, <1>4
  <2>2. CanTake(q, w) BY <1>2 DEF CanTake, Unasked, Fixed, Unmoved, SameHouse
  <2>3. Tended(q, r) BY <1>3, <1>4, <2>1, <2>2, DispatchManned DEF Tended
  <2> QED BY <1>3, <2>3, TendedOn
<1> QED BY <1>1, <1>3, <1>4 DEF q

(* What follows every message of a worker.                                 *)
LEMMA AfterMessageTended ==
  ASSUME NEW p, Roomy(p), p.queue \in Seq(Calls), NEW w, CanTake(p, w), NEW r \in AfterMessageResults(p, w)
  PROVE  Tended(p, r)
<1>1. PICK q : r = UpdateIdleState(q) /\ (q = p \/ q \in TakeNextResults(p, w))
  BY DEF AfterMessageResults
<1>2. Tended(p, q) BY <1>1, TakeNextTended, UnmovedStays, UnmovedTended
<1>3. Tended(q, r) BY <1>1, <1>2, RoomyFields, IdleUnmoved, UnmovedTended DEF Tended
<1> QED BY <1>2, <1>3, TendedOn

(* A task is counted off.                                                  *)
LEMMA UncountedUnmoved ==
  ASSUME NEW p, Roomy(p), NEW w
  PROVE  Unmoved(p, Uncounted(p, w)) /\ Uncounted(p, w).queue = p.queue
BY RoomyFields DEF StaffFields, Unmoved, SameHouse, Uncounted

(* worker.onmessage for a message that answers nothing, where that takes   *)
(* place                                                                   *)
LEMMA ChatterTended ==
  ASSUME NEW p, Roomy(p), Unasked(p), p.queue \in Seq(Calls), NEW w, NEW r \in ChatterResults(p, w)
  PROVE  Tended(p, r)
<1> DEFINE q == Uncounted(p, w)
<1>1. Tended(p, q) /\ q.queue = p.queue BY UncountedUnmoved, UnmovedTended
<1>2. r \in AfterMessageResults(q, w) BY DEF ChatterResults
<1> HIDE DEF q
<1>3. Roomy(q) /\ CanTake(q, w) BY <1>1 DEF Tended, CanTake, Unasked, SameHouse
<1>4. Tended(q, r) BY <1>1, <1>2, <1>3, AfterMessageTended
<1> QED BY <1>1, <1>4, TendedOn

(* worker.onmessage for the answer to a call: a worker that has not        *)
(* announced itself had this one task, so it is free to take the next.     *)
LEMMA ReplyTended ==
  ASSUME NEW p, Roomy(p), p.queue \in Seq(Calls), NEW w \in Live(p), NEW c \in p.running[w],
         NEW r \in ReplyResults(p, w, c)
  PROVE  Tended(p, r)
<1> DEFINE u == Uncounted(p, w)
           less == p.running[w] \ {c}
           done == [u EXCEPT !.running[w] = less]
           how == IF p.pending[p.options.keyOf[c]] = c THEN "resolved" ELSE "misanswered"
           answered == IF c \notin p.options.requests THEN done
                       ELSE Settle(done, {p.options.keyOf[c]}, how)
<1>1. r \in AfterMessageResults(answered, w) BY DEF ReplyResults
<1>2. Unmoved(p, u) /\ u.queue = p.queue /\ StaffFields \subseteq DOMAIN p BY UncountedUnmoved, RoomyFields
<1> HIDE DEF u
<1>3. /\ p.running \in [Ids -> SUBSET Calls] /\ w \in Ids /\ Live(p) \subseteq Ids
  BY DEF Roomy, StaffTyped, Live
<1>4. /\ SameHouse(p, done) /\ done.workers = p.workers /\ done.ready = p.ready
      /\ StaffFields \subseteq DOMAIN done /\ done.queue = p.queue
      /\ done.running = [p.running EXCEPT ![w] = less]
  <2> HIDE DEF less
  <2> QED BY <1>2 DEF StaffFields, Unmoved, SameHouse
<1>5. /\ done.running \in [Ids -> SUBSET Calls]
      /\ \A v \in Ids : done.running[v] = IF v = w THEN less ELSE p.running[v]
  <2>1. less \in SUBSET Calls BY <1>3
  <2> HIDE DEF less, done
  <2> QED BY <1>3, <1>4, <2>1
<1> HIDE DEF done
<1>6. Tended(p, done)
  <2>1. StaffTyped(done) BY <1>4, <1>5 DEF Roomy, StaffTyped, SameHouse
  <2>2. Live(done) = Live(p) BY <1>4 DEF Live
  <2>3. Fixed(done) => Fixed(p) BY <1>4 DEF Fixed, SameHouse
  <2>4. \A v \in Live(done) : done.running[v] \subseteq p.running[v] BY <1>3, <1>5, <2>2
  <2>5. "add" \notin done.uses => Len(done.workers) <= done.maxSize BY <1>4 DEF Roomy, SameHouse
  <2>6. Roomy(done) BY <1>4, <2>1, <2>2, <2>3, <2>4, <2>5, LessManned DEF Roomy, SameHouse
  <2>7. Full(p) => Full(done) BY <1>4 DEF Full, SameHouse
  <2> QED BY <1>4, <2>6, <2>7 DEF Tended
<1>7. CanTake(done, w)
  <2>1. Gated(p, w) BY DEF Roomy
  <2>2. done.running[w] = less BY <1>3, <1>5
  <2>3. (\A d, e \in p.running[w] : d = e) => less = {} OBVIOUS
  <2>4. (Fixed(p) => p.running[w] = {}) => ~Fixed(p) OBVIOUS
  <2> QED BY <1>3, <1>4, <2>1, <2>2, <2>3, <2>4 DEF Gated, CanTake, Unasked, Fixed, SameHouse
<1>8. Unmoved(done, answered) /\ answered.queue = p.queue
  <2>1. StaffFields \subseteq DOMAIN done BY <1>4
  <2>2. Settle(done, {p.options.keyOf[c]}, how).queue = done.queue BY DEF Settle
  <2> HIDE DEF how
  <2> QED BY <1>4, <2>1, <2>2, SettleUnmoved, UnmovedStays
<1> HIDE DEF answered
<1>9. Tended(done, answered) /\ CanTake(answered, w)
  BY <1>6, <1>7, <1>8, UnmovedTended DEF Tended, CanTake, Unasked, Fixed, Unmoved, SameHouse
<1>10. Tended(answered, r) BY <1>1, <1>8, <1>9, AfterMessageTended DEF Tended
<1> QED BY <1>6, <1>9, <1>10, TendedOn

(* The first of the workers with room is ready.                            *)
LEMMA OpenIsReady ==
  ASSUME NEW s, Roomy(s.p), Open(s) # << >>
  PROVE  Head(Open(s)) \in Ids /\ s.p.ready[Head(Open(s))]
<1> DEFINE X == {w \in Ids : ~s.p.ready[w]}
           Y == {w \in Ids : s.free[w] <= 0}
           ready == ReadyWorkers(s.p)
           open == Without(ready, Y)
<1>1. s.p.workers \in Seq(Ids) BY DEF Roomy, StaffTyped
<1>2. KeepsOf(Ids, s.p.workers, X, Len(s.p.workers), ready) BY <1>1, WithoutKeeps DEF ReadyWorkers
<1>3. Open(s) = open BY DEF Open
<1> HIDE DEF ready
<1>4. ready \in Seq(Ids) /\ In(ready) \cap X = {} BY <1>2 DEF KeepsOf
<1>5. KeepsOf(Ids, ready, Y, Len(ready), open) BY <1>4, WithoutKeeps
<1> HIDE DEF open
<1>6. open \in Seq(Ids) /\ In(open) = In(ready) \ Y BY <1>5 DEF KeepsOf, In
<1>7. Head(open) \in In(open) /\ Head(open) \in Ids BY <1>3, <1>6 DEF In
<1> QED BY <1>3, <1>4, <1>6, <1>7

\* A state of the pass: the pool in it is looked after.
Passing(p, s) == {"p", "free", "sent"} \subseteq DOMAIN s /\ Tended(p, s.p)

(* One item of the pass: only workers that are ready are given work.       *)
LEMMA OfferTended ==
  ASSUME NEW p, NEW s, Passing(p, s), NEW c \in Calls, NEW throws
  PROVE  Passing(p, Offer(s, c, throws))
<1> DEFINE P == s.p
           open == Open(s)
           w == Head(open)
           rest == [P EXCEPT !.queue = Tail(P.queue)]
           set == Settle(P, QueuedKeys(P, 1), "rejected")
           dropped == [set EXCEPT !.queue = Tail(P.queue)]
           t == Offer(s, c, throws)
<1>1. t = IF open = << >> \/ ~UnderLimit(P) THEN s
          ELSE IF c \in Dead(P) THEN [s EXCEPT !.p = dropped]
          ELSE IF c \in throws THEN [s EXCEPT !.p = rest, !.free[w] = 0]
          ELSE [p |-> Dispatch(rest, c, w, TRUE), free |-> [s.free EXCEPT ![w] = s.free[w] - 1], sent |-> TRUE]
  BY DEF Offer, Open
<1>2. {"p", "free", "sent"} \subseteq DOMAIN s /\ Tended(p, P) /\ Roomy(P) /\ StaffFields \subseteq DOMAIN P
  BY RoomyFields DEF Passing, Tended
<1>3. Unmoved(P, rest) BY <1>2, OtherFields
<1>4. Tended(P, dropped)
  <2>1. Tended(P, set) /\ StaffFields \subseteq DOMAIN set /\ Roomy(set)
    BY <1>2, SettleUnmoved, UnmovedTended, RoomyFields DEF Tended
  <2> HIDE DEF set
  <2>2. Tended(set, dropped) BY <2>1, OtherFields, UnmovedTended
  <2> QED BY <2>1, <2>2, TendedOn
<1>5. open # << >> => w \in Ids /\ P.ready[w] BY <1>2, OpenIsReady
<1> HIDE DEF P, open, w, rest, dropped
<1>6. Tended(P, rest) BY <1>2, <1>3, UnmovedTended
<1>7. open # << >> => Tended(rest, Dispatch(rest, c, w, TRUE))
  <2>1. open # << >> => CanTake(rest, w) BY <1>3, <1>5 DEF CanTake, Unmoved
  <2>2. Roomy(rest) BY <1>6 DEF Tended
  <2> QED BY <2>1, <2>2, DispatchManned DEF Tended
<1> DEFINE d == Dispatch(rest, c, w, TRUE)
<1>8. open # << >> => Tended(p, d) BY <1>2, <1>6, <1>7, TendedOn
<1>9. Tended(p, rest) /\ Tended(p, dropped) BY <1>2, <1>4, <1>6, TendedOn
<1> HIDE DEF d, t
<1>10. t = IF open = << >> \/ ~UnderLimit(P) THEN s
           ELSE IF c \in Dead(P) THEN [s EXCEPT !.p = dropped]
           ELSE IF c \in throws THEN [s EXCEPT !.p = rest, !.free[w] = 0]
           ELSE [p |-> d, free |-> [s.free EXCEPT ![w] = s.free[w] - 1], sent |-> TRUE]
  BY <1>1 DEF d
<1>11. CASE open = << >> \/ ~UnderLimit(P) BY <1>10, <1>11 DEF t
<1>12. CASE ~(open = << >> \/ ~UnderLimit(P)) /\ c \in Dead(P)
  <2>1. t = [s EXCEPT !.p = dropped] BY <1>10, <1>12
  <2>2. {"p", "free", "sent"} \subseteq DOMAIN t /\ t.p = dropped BY <1>2, <2>1
  <2> QED BY <1>9, <2>2 DEF Passing, t
<1>13. CASE ~(open = << >> \/ ~UnderLimit(P)) /\ c \notin Dead(P) /\ c \in throws
  <2>1. t = [s EXCEPT !.p = rest, !.free[w] = 0] BY <1>10, <1>13
  <2>2. {"p", "free", "sent"} \subseteq DOMAIN t /\ t.p = rest BY <1>2, <2>1
  <2> QED BY <1>9, <2>2 DEF Passing, t
<1>14. CASE ~(open = << >> \/ ~UnderLimit(P)) /\ c \notin Dead(P) /\ c \notin throws
  <2>1. t = [p |-> d, free |-> [s.free EXCEPT ![w] = s.free[w] - 1], sent |-> TRUE] BY <1>10, <1>14
  <2>2. {"p", "free", "sent"} \subseteq DOMAIN t /\ t.p = d BY <2>1
  <2> QED BY <1>8, <1>14, <2>2 DEF Passing, t
<1> QED BY <1>11, <1>12, <1>13, <1>14

(* The pass over the queue.                                                *)
LEMMA AfterOffersTended ==
  ASSUME NEW p, Roomy(p), p.queue \in Seq(Calls), NEW throws
  PROVE  Tended(p, AfterOffers(p, throws).p)
<1> DEFINE n == Len(p.queue)
           offered == CHOOSE f : f =
             [i \in 0..n |->
               IF i = 0
               THEN [ p |-> LookedAt(p), free |-> [w \in Ids |-> p.options.maxTasks - p.tasks[w]],
                      sent |-> FALSE ]
               ELSE Offer(f[i - 1], p.queue[i], throws)]
           start == [ p |-> LookedAt(p), free |-> [w \in Ids |-> p.options.maxTasks - p.tasks[w]],
                      sent |-> FALSE ]
<1>0. n \in Nat OBVIOUS
<1>1. AfterOffers(p, throws) = offered[n] BY DEF AfterOffers
<1>2. IsOffered(p, throws, n, offered)
  <2>1. PICK f : IsOffered(p, throws, n, f) BY <1>0, OfferedExists
  <2> QED BY <2>1 DEF IsOffered
<1> HIDE DEF offered
<1>3. offered[0] = start BY <1>0, <1>2 DEF IsOffered
<1>4. Passing(p, start)
  <2>1. Tended(p, LookedAt(p)) BY LookedAtManned DEF Tended
  <2>2. {"p", "free", "sent"} \subseteq DOMAIN start /\ start.p = LookedAt(p) OBVIOUS
  <2> HIDE DEF start
  <2> QED BY <2>1, <2>2 DEF Passing
<1> HIDE DEF start
<1> DEFINE T == {m \in 0..n : Passing(p, offered[m])}
<1>5. 0 \in T BY <1>0, <1>3, <1>4
<1>6. ASSUME NEW m \in 1..n, m - 1 \in T PROVE m \in T
  <2>1. m \in 0..n /\ m # 0 /\ p.queue[m] \in Calls BY <1>0
  <2>2. offered[m] = Offer(offered[m - 1], p.queue[m], throws) BY <1>2, <2>1 DEF IsOffered
  <2>3. Passing(p, offered[m - 1]) BY <1>6
  <2>4. Passing(p, offered[m]) BY <2>1, <2>2, <2>3, OfferTended
  <2> QED BY <2>1, <2>4
<1>7. n \in T
  <2> HIDE DEF T
  <2> QED BY <1>0, <1>5, <1>6, UpTo
<1> QED BY <1>1, <1>7 DEF Passing

(* _dispatchQueuedTasks()                                                  *)
LEMMA DispatchQueuedTended ==
  ASSUME NEW p, Roomy(p), p.queue \in Seq(Calls), NEW r \in DispatchQueuedTasksResults(p)
  PROVE  Tended(p, r)
<1>1. CASE r = p BY <1>1, UnmovedStays, UnmovedTended
<1>2. CASE r # p
  <2>1. PICK throws \in SUBSET p.options.mayThrow :
             r = IF AfterOffers(p, throws).sent THEN UpdateIdleState(AfterOffers(p, throws).p)
                 ELSE AfterOffers(p, throws).p
    BY <1>2 DEF DispatchQueuedTasksResults
  <2> DEFINE q == AfterOffers(p, throws).p
  <2>2. Tended(p, q) BY AfterOffersTended
  <2>3. r = UpdateIdleState(q) \/ r = q BY <2>1
  <2> HIDE DEF q
  <2>4. Tended(q, UpdateIdleState(q)) BY <2>2, RoomyFields, IdleUnmoved, UnmovedTended DEF Tended
  <2> QED BY <2>2, <2>3, <2>4, TendedOn
<1> QED BY <1>1, <1>2

(***************************************************************************)
(* Lifecycle.                                                              *)
(***************************************************************************)

(* How a pool looks when workers have been terminated and ws are left.     *)
LEMMA TerminatedShape ==
  ASSUME NEW p, StaffTyped(p), NEW W, NEW ws \in Seq(Ids), In(ws) \subseteq Live(p)
  PROVE  LET q == [TerminateWorkers(p, W) EXCEPT !.workers = ws]
         IN  /\ SameHouse(p, q) /\ q.workers = ws /\ StaffTyped(q)
             /\ Live(q) \subseteq Live(p)
             /\ \A v \in Live(q) : q.running[v] \subseteq p.running[v] /\ q.ready[v] = p.ready[v]
<1> DEFINE t == TerminateWorkers(p, W)
           running == [w \in Ids |-> IF w \in W THEN {} ELSE p.running[w]]
           q == [t EXCEPT !.workers = ws]
<1>1. /\ SameHouse(p, t) /\ t.ready = p.ready /\ StaffFields \subseteq DOMAIN t /\ t.running = running
  <2> HIDE DEF running
  <2>1. TerminateWorkers(p, W) =
          [ Settle(p, {k \in Keys : p.pending[k] # NoCall /\ p.carrier[k] \in W}, "rejected") EXCEPT
            !.active  = AtLeast0(p.active - TasksOf(p, W)),
            !.tasks   = [w \in Ids |-> IF w \in W THEN 0 ELSE p.tasks[w]],
            !.running = running ]
    BY DEF TerminateWorkers, running
  <2> QED BY <2>1 DEF StaffTyped, StaffFields, SameHouse, Settle
<1> HIDE DEF t
<1>2. SameHouse(p, q) /\ q.workers = ws /\ q.ready = p.ready /\ q.running = running /\ StaffFields \subseteq DOMAIN q
  BY <1>1 DEF StaffFields, SameHouse
<1> HIDE DEF q
<1>3. /\ p.running \in [Ids -> SUBSET Calls] BY DEF StaffTyped
<1>4. running \in [Ids -> SUBSET Calls] /\ \A v \in Ids : running[v] \subseteq p.running[v] BY <1>3
<1>5. Live(q) = In(ws) /\ Live(q) \subseteq Ids BY <1>2 DEF Live, In
<1>6. StaffTyped(q) BY <1>2, <1>4 DEF StaffTyped, SameHouse
<1> QED BY <1>2, <1>4, <1>5, <1>6 DEF q, t

(* Workers are terminated, and some are left.                              *)
LEMMA DismissedManned ==
  ASSUME NEW p, Roomy(p), NEW W, NEW ws \in Seq(Ids), In(ws) \subseteq Live(p), Len(ws) <= Len(p.workers)
  PROVE  LET q == [TerminateWorkers(p, W) EXCEPT !.workers = ws]
         IN  Roomy(q) /\ SameHouse(p, q) /\ q.workers = ws
<1> DEFINE q == [TerminateWorkers(p, W) EXCEPT !.workers = ws]
<1>1. /\ SameHouse(p, q) /\ q.workers = ws /\ StaffTyped(q) /\ Live(q) \subseteq Live(p)
      /\ \A v \in Live(q) : q.running[v] \subseteq p.running[v] /\ q.ready[v] = p.ready[v]
  BY TerminatedShape DEF Roomy
<1> HIDE DEF q
<1>2. Fixed(q) => Fixed(p) BY <1>1 DEF Fixed, SameHouse
<1>3. "add" \notin q.uses => Len(q.workers) <= q.maxSize
  <2>1. Len(p.workers) \in Nat /\ Len(ws) \in Nat /\ p.maxSize \in Nat BY DEF Roomy, StaffTyped
  <2>2. "add" \notin p.uses => Len(p.workers) <= p.maxSize BY DEF Roomy
  <2> QED BY <1>1, <2>1, <2>2 DEF SameHouse
<1>4. Roomy(q) BY <1>1, <1>2, <1>3, LessManned DEF Roomy, SameHouse
<1> QED BY <1>1, <1>4 DEF q

(* Workers are terminated and taken off the array.                         *)
LEMMA TakeOffShape ==
  ASSUME NEW p, StaffTyped(p), NEW W
  PROVE  /\ TakeOff(TerminateWorkers(p, W), W) = [TerminateWorkers(p, W) EXCEPT !.workers = Without(p.workers, W)]
         /\ KeepsOf(Ids, p.workers, W, Len(p.workers), Without(p.workers, W))
         /\ Without(p.workers, W) \in Seq(Ids) /\ In(Without(p.workers, W)) \subseteq Live(p)
         /\ Len(Without(p.workers, W)) <= Len(p.workers)
<1>1. TerminateWorkers(p, W).workers = p.workers
  BY DEF TerminateWorkers, Settle, StaffTyped, StaffFields
<1>2. TakeOff(TerminateWorkers(p, W), W) = [TerminateWorkers(p, W) EXCEPT !.workers = Without(p.workers, W)]
  BY <1>1 DEF TakeOff
<1>3. KeepsOf(Ids, p.workers, W, Len(p.workers), Without(p.workers, W)) BY WithoutKeeps DEF StaffTyped
<1> QED BY <1>2, <1>3 DEF KeepsOf, Live

(* The same, for a pool that is looked after.                              *)
LEMMA TakenOffManned ==
  ASSUME NEW p, Roomy(p), NEW W
  PROVE  LET q == TakeOff(TerminateWorkers(p, W), W)
         IN  Roomy(q) /\ SameHouse(p, q) /\ Len(q.workers) <= Len(p.workers)
<1>1. StaffTyped(p) BY DEF Roomy
<1> DEFINE ws == Without(p.workers, W)
<1>2. /\ TakeOff(TerminateWorkers(p, W), W) = [TerminateWorkers(p, W) EXCEPT !.workers = ws]
      /\ ws \in Seq(Ids) /\ In(ws) \subseteq Live(p) /\ Len(ws) <= Len(p.workers)
  BY <1>1, TakeOffShape
<1> HIDE DEF ws
<1> QED BY <1>2, DismissedManned

(* The idle state is looked at last.                                       *)
LEMMA IdleTended ==
  ASSUME NEW p, Roomy(p)
  PROVE  Tended(p, UpdateIdleState(p))
BY RoomyFields, IdleUnmoved, UnmovedTended

(* How many workers a pool that lacks some is short of.                    *)
LEMMA Missing ==
  ASSUME NEW a \in Nat, NEW b \in Nat
  PROVE  LET n == AtLeast0(b - a)
         IN  n \in Nat /\ a + n = (IF a >= b THEN a ELSE b) /\ (a >= b => n = 0)
<1>1. CASE b - a < 0 BY <1>1 DEF AtLeast0
<1>2. CASE ~(b - a < 0) BY <1>2 DEF AtLeast0
<1> QED BY <1>1, <1>2

(* _handleWorkerExit(): the dead worker is replaced, unless no worker of a *)
(* run of them has done anything.                                          *)
LEMMA WorkerExitManned ==
  ASSUME NEW p, Manned(p), Inv(p), "exit" \in p.uses, NEW w, NEW r \in WorkerExitResults(p, w)
  PROVE  Manned(r)
<1> DEFINE gone == TakeOff(TerminateWorkers(p, {w}), {w})
           boots == IF p.worked[w] THEN 0 ELSE Smaller(p.boots + 1, MaxBootFailures)
           q == [gone EXCEPT !.boots = boots]
           low == Smaller(p.minSize, p.maxSize)
           short == AtLeast0(low - Len(q.workers))
<1>1. PICK t \in IF boots >= MaxBootFailures \/ p.terminated THEN {q} ELSE AddedResults(q, short) :
        r = UpdateIdleState(t)
  BY DEF WorkerExitResults
<1>2. Roomy(gone) /\ SameHouse(p, gone) /\ Len(gone.workers) <= Len(p.workers)
  BY TakenOffManned DEF Manned
<1>3. p.minSize \in Nat /\ p.maxSize \in Nat /\ p.minSize <= p.maxSize /\ p.maxSize <= MaxAlive
  BY DEF Manned, Roomy, StaffTyped
<1>4. low = p.minSize BY <1>3 DEF Smaller
<1> HIDE DEF gone, boots, low
<1>5. /\ q.workers = gone.workers /\ q.running = gone.running /\ q.ready = gone.ready
      /\ q.minSize = p.minSize /\ q.maxSize = p.maxSize /\ q.options = p.options /\ q.uses = p.uses
      /\ q.terminated = p.terminated /\ q.boots = boots /\ StaffFields \subseteq DOMAIN q
  BY <1>2 DEF Roomy, StaffTyped, StaffFields, SameHouse
<1> HIDE DEF q
<1>6. Roomy(q)
  <2>1. StaffTyped(q) BY <1>2, <1>5 DEF Roomy, StaffTyped, SameHouse
  <2>2. Live(q) = Live(gone) BY <1>5 DEF Live
  <2>3. \A v : Gated(gone, v) => Gated(q, v) BY <1>2, <1>5 DEF Gated, Unasked, Fixed, SameHouse
  <2>4. "add" \notin q.uses => Len(q.workers) <= q.maxSize BY <1>2, <1>5 DEF Roomy, SameHouse
  <2> QED BY <1>2, <2>1, <2>2, <2>3, <2>4 DEF Roomy
<1>7. CASE boots >= MaxBootFailures \/ p.terminated
  <2>1. t = q BY <1>1, <1>7
  <2>2. Full(q) BY <1>5, <1>7 DEF Full
  <2> QED BY <1>1, <1>6, <2>1, <2>2, IdleTended DEF Manned, Tended
<1>8. CASE ~(boots >= MaxBootFailures \/ p.terminated)
  <2>1. t \in AddedResults(q, short) BY <1>1, <1>8
  <2> DEFINE a == Len(q.workers)
  <2>2. a \in Nat BY <1>6 DEF Roomy, StaffTyped
  <2>3. a <= MaxAlive
    <3>1. Len(p.workers) \in Nat /\ Len(p.workers) <= MaxAlive BY CrewFits DEF Inv
    <3>2. a <= Len(p.workers) BY <1>2, <1>5
    <3> HIDE DEF a
    <3> QED BY <2>2, <3>1, <3>2, PoolConstants
  <2>4. "add" \notin q.uses => a <= p.maxSize BY <1>5, <1>6 DEF Roomy
  <2>5. short \in Nat /\ a + short = IF a >= p.minSize THEN a ELSE p.minSize
    BY <1>3, <1>4, <2>2, Missing
  <2> HIDE DEF short
  <2>6. a + short <= MaxAlive /\ ("add" \notin q.uses => a + short <= q.maxSize) /\ a + short >= p.minSize
    <3> HIDE DEF a
    <3> QED BY <1>3, <1>5, <2>2, <2>3, <2>4, <2>5, PoolConstants
  <2>7. /\ Tended(q, t)
        /\ \E m \in 0..short : Len(t.workers) = a + m /\ (~q.options.spawnMayFail => m = short)
    BY <1>6, <2>1, <2>5, <2>6, AddedManned
  <2> HIDE DEF a
  <2>8. Full(t) BY <1>5, <2>6, <2>7 DEF Full, Tended, SameHouse
  <2>9. Manned(t) BY <2>7, <2>8 DEF Manned, Tended
  <2> QED BY <1>1, <2>9, IdleTended DEF Manned, Tended
<1> QED BY <1>7, <1>8

(* removeWorker()                                                          *)
LEMMA RemoveWorkerManned ==
  ASSUME NEW p, Manned(p), "remove" \in p.uses
  PROVE  Manned(RemoveWorker(p))
<1> DEFINE w == p.workers[Len(p.workers)]
           q == TakeOff(TerminateWorkers(p, {w}), {w})
<1>1. RemoveWorker(p) = UpdateIdleState(q) BY DEF RemoveWorker
<1> HIDE DEF w
<1>2. Roomy(q) /\ SameHouse(p, q) BY TakenOffManned DEF Manned
<1> HIDE DEF q
<1>3. Full(q) BY <1>2 DEF Full, SameHouse
<1> QED BY <1>1, <1>2, <1>3, IdleTended DEF Manned, Tended

(* What is left of an array cut off behind its first m elements.           *)
LEMMA CutLength ==
  ASSUME NEW S, NEW s \in Seq(S), Distinct(s), NEW m \in Nat
  PROVE  Len(Without(s, {s[i] : i \in (m + 1)..Len(s)})) = IF Len(s) <= m THEN Len(s) ELSE m
<1> DEFINE n == Len(s)
           X == {s[i] : i \in (m + 1)..n}
           t == Without(s, X)
           k == IF n <= m THEN n ELSE m
<1>1. KeepsOf(S, s, X, n, t) BY WithoutKeeps
<1>2. n \in Nat /\ k \in Nat /\ k <= n OBVIOUS
<1>3. \A i \in 1..n, j \in 1..n : s[i] = s[j] => i = j BY DEF Distinct
<1> HIDE DEF t
<1>4. t \in Seq(S) /\ Distinct(t) /\ In(t) = {s[i] : i \in 1..n} \ X BY <1>1 DEF KeepsOf
<1>5. {s[i] : i \in 1..n} \ X = {s[i] : i \in 1..k}
  <2>1. ASSUME NEW i \in 1..k PROVE i \in 1..n /\ s[i] \notin X
    <3>1. i \in 1..n BY <1>2
    <3>2. ASSUME NEW j \in (m + 1)..n, s[i] = s[j] PROVE FALSE
      <4>1. j \in 1..n BY <1>2
      <4>2. i = j BY <1>3, <3>1, <3>2, <4>1
      <4>3. i <= k /\ k <= m /\ m + 1 <= j BY <1>2, <3>2, <4>1
      <4> QED BY <1>2, <4>2, <4>3
    <3> QED BY <3>1, <3>2
  <2>2. ASSUME NEW i \in 1..n, s[i] \notin X PROVE i \in 1..k
    <3>1. i \notin (m + 1)..n BY <2>2
    <3> QED BY <1>2, <3>1
  <2> HIDE DEF X, k, n
  <2> QED BY <2>1, <2>2
<1> HIDE DEF X, k
<1>6. Cardinality(1..k) = k /\ IsFiniteSet(1..k) BY <1>2, FS_Interval
<1> DEFINE f == [i \in 1..k |-> s[i]]
           l == Len(t)
           g == [i \in 1..l |-> t[i]]
           R == {s[i] : i \in 1..k}
<1>7. f \in Bijection(1..k, R)
  <2>1. \A i \in 1..k : i \in 1..n BY <1>2
  <2> QED BY <1>3, <2>1 DEF Bijection, Injection, Surjection, IsInjective
<1>8. l \in Nat BY <1>4
<1>12. Cardinality(1..l) = l /\ IsFiniteSet(1..l)
  <2> HIDE DEF l
  <2> QED BY <1>8, FS_Interval
<1>9. g \in Bijection(1..l, R)
  <2>1. {t[i] : i \in 1..l} = R BY <1>4, <1>5 DEF In
  <2>2. \A i, j \in 1..l : t[i] = t[j] => i = j BY <1>4 DEF Distinct
  <2> HIDE DEF l, R
  <2> QED BY <2>1, <2>2 DEF Bijection, Injection, Surjection, IsInjective
<1> HIDE DEF f, g, R, l
<1>10. ExistsBijection(1..k, R) /\ ExistsBijection(1..l, R) BY <1>7, <1>9 DEF ExistsBijection
<1>11. Cardinality(R) = k /\ Cardinality(R) = l
  BY <1>6, <1>10, <1>12, FS_Bijection
<1> QED BY <1>11 DEF l, t, k, n, X

(* resize()                                                                *)
LEMMA ResizeManned ==
  ASSUME NEW p, Manned(p), Inv(p), "resize" \in p.uses, NEW min \in 0..MaxAlive, NEW max \in 0..MaxAlive,
         NEW r \in ResizeResults(p, min, max)
  PROVE  Manned(r)
<1> DEFINE big == Larger(min, max)
           sized == [p EXCEPT !.minSize = min, !.maxSize = big]
           excess(q) == {q.workers[i] : i \in (sized.maxSize + 1)..Len(q.workers)}
           cut(q) == TakeOff(TerminateWorkers(q, excess(q)), excess(q))
           more == AtLeast0(min - Len(p.workers))
           a == Len(p.workers)
<1>0. /\ min \in Nat /\ max \in Nat /\ big \in Nat /\ big <= MaxAlive /\ min <= big
  BY PoolConstants DEF Larger
<1>1. PICK q \in AddedResults(sized, more) : r = UpdateIdleState(cut(q))
  BY DEF ResizeResults
<1> HIDE DEF big
<1>2. /\ sized.workers = p.workers /\ sized.running = p.running /\ sized.ready = p.ready
      /\ sized.minSize = min /\ sized.maxSize = big /\ sized.options = p.options /\ sized.uses = p.uses
      /\ sized.terminated = p.terminated /\ sized.boots = p.boots /\ StaffFields \subseteq DOMAIN sized
  BY DEF Manned, Roomy, StaffTyped, StaffFields
<1>3. Inv(sized)
  <2>1. p \in PoolType BY DEF Inv, Sound
  <2>2. sized \in PoolType BY <1>0, <2>1 DEF PoolType
  <2>3. SameWork(p, sized) /\ SameRest(p, sized)
    BY <2>1 DEF PoolType, SameWork, SameGiven, SameCrew, SameBooks, SameQueue, SameRest
  <2> HIDE DEF sized
  <2>4. Restful(sized) BY <2>3 DEF Restful, Inv, SameRest, Waiting
  <2> QED BY <1>0, <1>2, <2>2, <2>3, <2>4, WorkUntouched
<1> HIDE DEF sized
<1>4. a \in Nat /\ a <= MaxAlive BY CrewFits DEF Inv
<1>5. more \in Nat /\ a + more = (IF a >= min THEN a ELSE min) /\ (a >= min => more = 0)
  BY <1>0, <1>4, Missing
<1>6. Len(sized.workers) = a BY <1>2
<1> HIDE DEF more, a
<1>7. a + more <= MaxAlive /\ a + more >= min /\ (a <= big => a + more <= big)
  BY <1>0, <1>4, <1>5, PoolConstants
<1>8. Inv(q) BY <1>1, <1>3, <1>5, <1>6, <1>7, AddedGoes DEF Goes
<1>9. StaffTyped(sized) /\ \A v \in Live(sized) : Gated(sized, v)
  <2>1. StaffTyped(sized) BY <1>0, <1>2 DEF Manned, Roomy, StaffTyped
  <2>2. \A v : Gated(p, v) => Gated(sized, v) BY <1>2 DEF Gated, Unasked, Fixed
  <2>3. Live(sized) = Live(p) BY <1>2 DEF Live
  <2> QED BY <2>1, <2>2, <2>3 DEF Manned, Roomy
\* The pool has grown to its minimum, and may be larger than its maximum.
<1>10. /\ StaffTyped(q) /\ SameHouse(sized, q) /\ \A v \in Live(q) : Gated(q, v)
       /\ ~p.options.spawnMayFail => Len(q.workers) >= min
  <2>1. CASE a <= big
    <3>1. Roomy(sized) BY <1>2, <1>6, <1>9, <2>1 DEF Roomy
    <3>2. /\ Tended(sized, q)
          /\ \E m \in 0..more : Len(q.workers) = a + m /\ (~sized.options.spawnMayFail => m = more)
      BY <1>1, <1>2, <1>5, <1>6, <1>7, <2>1, <3>1, AddedManned
    <3> QED BY <1>2, <1>7, <3>2 DEF Tended, Roomy
  <2>2. CASE ~(a <= big)
    <3>1. more = 0 BY <1>0, <1>4, <1>5, <2>2
    <3>2. q = AddWorkers(sized, 0) BY <1>1, <3>1 DEF AddedResults
    <3>3. q = sized
      <4> DEFINE f == CHOOSE g : g = [i \in 0..0 |-> IF i = 0 THEN sized ELSE AddWorkerInstance(g[i - 1])]
      <4>1. PICK g : IsGrown(sized, 0, g) BY GrownExists
      <4>2. IsGrown(sized, 0, f) BY <4>1 DEF IsGrown
      <4>3. q = f[0] BY <3>2 DEF AddWorkers
      <4> HIDE DEF f
      <4> QED BY <4>2, <4>3 DEF IsGrown
    <3>4. Len(q.workers) = a BY <1>6, <3>3
    <3>5. a >= min BY <1>0, <1>4, <2>2
    <3> QED BY <1>9, <3>3, <3>4, <3>5 DEF SameHouse
  <2> QED BY <2>1, <2>2
<1> DEFINE X == excess(q)
           ws == Without(q.workers, X)
           t == TakeOff(TerminateWorkers(q, X), X)
<1>11. Len(ws) = IF Len(q.workers) <= big THEN Len(q.workers) ELSE big
  <2>1. q.workers \in Seq(Ids) /\ Distinct(q.workers) BY <1>8 DEF Inv, Sound, PoolType
  <2>2. q.maxSize = big BY <1>2, <1>10 DEF SameHouse
  <2>3. X = {q.workers[i] : i \in (big + 1)..Len(q.workers)} BY <1>2
  <2>4. Len(Without(q.workers, {q.workers[i] : i \in (big + 1)..Len(q.workers)}))
          = IF Len(q.workers) <= big THEN Len(q.workers) ELSE big
    BY <1>0, <2>1, CutLength
  <2> HIDE DEF X
  <2> QED BY <2>3, <2>4
<1> HIDE DEF X
<1>12. /\ t = [TerminateWorkers(q, X) EXCEPT !.workers = ws]
       /\ ws \in Seq(Ids) /\ In(ws) \subseteq Live(q)
  BY <1>10, TakeOffShape
<1> HIDE DEF ws, t
<1>13. /\ SameHouse(q, t) /\ t.workers = ws /\ StaffTyped(t) /\ Live(t) \subseteq Live(q)
       /\ \A v \in Live(t) : t.running[v] \subseteq q.running[v] /\ t.ready[v] = q.ready[v]
  BY <1>10, <1>12, TerminatedShape, SMTT(60)
<1>14. t.minSize = min /\ t.maxSize = big /\ t.uses = p.uses /\ t.options = p.options
  BY <1>2, <1>10, <1>13 DEF SameHouse
<1>15. Len(q.workers) \in Nat BY <1>10 DEF StaffTyped
<1>16. Len(t.workers) <= t.maxSize BY <1>0, <1>11, <1>13, <1>14, <1>15
<1>17. Roomy(t)
  <2>1. Fixed(t) => Fixed(q) BY <1>13 DEF Fixed, SameHouse
  <2> QED BY <1>10, <1>13, <1>16, <2>1, LessManned DEF SameHouse
<1>18. Full(t)
  <2>1. ~p.options.spawnMayFail => Len(t.workers) >= min BY <1>0, <1>10, <1>11, <1>13, <1>15
  <2> QED BY <1>14, <2>1 DEF Full
<1>19. r = UpdateIdleState(t) BY <1>1 DEF t, X
<1> QED BY <1>17, <1>18, <1>19, IdleTended DEF Manned, Tended

\* What is left of the array, of which floor elements at least are to stay.
Dwindling(p, floor, s) ==
  /\ s \in Seq(Ids) /\ Len(s) <= Len(p.workers)
  /\ Len(p.workers) >= floor => Len(s) >= floor

(* One position more.                                                      *)
LEMMA SwapOutDwindles ==
  ASSUME NEW p, p.workers \in Seq(Ids), NEW W, NEW floor \in Nat, NEW i \in Nat,
         NEW s, Dwindling(p, floor, s), i \in 1..Len(s)
  PROVE  Dwindling(p, floor, SwapOut(s, i, W, floor))
<1> DEFINE t == SwapOut(s, i, W, floor)
<1>0. s \in Seq(Ids) /\ Len(s) \in Nat /\ Len(p.workers) \in Nat BY DEF Dwindling
<1>1. CASE ~(Len(s) > floor /\ s[i] \in W) BY <1>1 DEF SwapOut
<1>2. CASE Len(s) > floor /\ s[i] \in W
  <2> DEFINE u == SubSeq([s EXCEPT ![i] = s[Len(s)]], 1, Len(s) - 1)
  <2>1. u \in Seq(Ids) /\ Len(u) = Len(s) - 1 BY <1>0, SwappedOut
  <2>2. t = u BY <1>2 DEF SwapOut
  <2> HIDE DEF u, t
  <2>3. Len(t) <= Len(p.workers) /\ Len(t) >= floor BY <1>0, <1>2, <2>1, <2>2 DEF Dwindling
  <2>4. Dwindling(p, floor, t) BY <2>1, <2>2, <2>3 DEF Dwindling
  <2> QED BY <2>4 DEF t
<1> QED BY <1>1, <1>2

(* Idle workers come off the array, down to the floor.                     *)
LEMMA ShrunkManned ==
  ASSUME NEW p, Roomy(p), Distinct(p.workers), NEW W, NEW floor \in Nat
  PROVE  LET q == ShrunkTo(p, W, floor)
         IN  /\ Roomy(q) /\ SameHouse(p, q)
             /\ Len(p.workers) >= floor => Len(q.workers) >= floor
<1> DEFINE n == Len(p.workers)
           after == CHOOSE f : f = [k \in 0..n |-> IF k = 0 THEN p.workers
                                                   ELSE SwapOut(f[k - 1], n + 1 - k, W, floor)]
           left == after[n]
           cut == Live(p) \ {left[i] : i \in 1..Len(left)}
<1>0. n \in Nat /\ p.workers \in Seq(Ids) BY DEF Roomy, StaffTyped
<1>1. ShrunkTo(p, W, floor) = [TerminateWorkers(p, cut) EXCEPT !.workers = left]
  BY DEF ShrunkTo, SwapOut
<1>2. PICK f : IsShrunk(p, W, floor, n, f)
  BY <1>0, ShrunkExists
<1>3. IsShrunk(p, W, floor, n, after)
  BY <1>2 DEF IsShrunk
<1> HIDE DEF after
<1> DEFINE T == {m \in 0..n : Shrinking(p, W, m, after[m]) /\ Dwindling(p, floor, after[m])}
<1>4. 0 \in T
  <2>1. after[0] = p.workers BY <1>0, <1>3 DEF IsShrunk
  <2>2. Shrinking(p, W, 0, p.workers) BY <1>0 DEF Shrinking, In, Live
  <2>3. Dwindling(p, floor, p.workers) BY <1>0 DEF Dwindling
  <2> QED BY <1>0, <2>1, <2>2, <2>3
<1>5. ASSUME NEW m \in 1..n, m - 1 \in T PROVE m \in T
  <2>1. m \in 0..n /\ m # 0 /\ n + 1 - m \in Nat BY <1>0
  <2>2. after[m] = SwapOut(after[m - 1], n + 1 - m, W, floor) BY <1>3, <2>1 DEF IsShrunk
  <2>3. Shrinking(p, W, m - 1, after[m - 1]) /\ Dwindling(p, floor, after[m - 1]) BY <1>5
  <2>4. n + 1 - m \in 1..Len(after[m - 1])
    <3>1. Len(after[m - 1]) \in Nat /\ Len(after[m - 1]) >= n - (m - 1) BY <2>3 DEF Shrinking
    <3> QED BY <1>0, <2>1, <3>1
  <2>5. Shrinking(p, W, m, after[m]) BY <1>0, <2>2, <2>3, SwapOutKeeps
  <2>6. Dwindling(p, floor, after[m]) BY <1>0, <2>1, <2>2, <2>3, <2>4, SwapOutDwindles
  <2> QED BY <2>1, <2>5, <2>6
<1>6. n \in T
  <2> HIDE DEF T
  <2> QED BY <1>0, <1>4, <1>5, UpTo
<1>7. Shrinking(p, W, n, left) /\ Dwindling(p, floor, left) BY <1>6
<1> HIDE DEF left, cut
<1>8. left \in Seq(Ids) /\ In(left) \subseteq Live(p) /\ Len(left) <= Len(p.workers)
  BY <1>7 DEF Shrinking, Dwindling
<1> DEFINE q == [TerminateWorkers(p, cut) EXCEPT !.workers = left]
<1>9. Roomy(q) /\ SameHouse(p, q) /\ q.workers = left BY <1>8, DismissedManned
<1> HIDE DEF q
<1>10. Len(p.workers) >= floor => Len(q.workers) >= floor BY <1>7, <1>9 DEF Dwindling
<1> QED BY <1>1, <1>9, <1>10 DEF q

(* A pool that shrinks to its minimum at most is still large enough.       *)
LEMMA ShrunkTended ==
  ASSUME NEW p, Roomy(p), Distinct(p.workers), NEW W, NEW floor \in Nat, floor >= p.minSize,
         floor = p.minSize \/ Len(p.workers) >= floor
  PROVE  Tended(p, ShrunkTo(p, W, floor))
<1> DEFINE q == ShrunkTo(p, W, floor)
<1>1. /\ Roomy(q) /\ SameHouse(p, q)
      /\ Len(p.workers) >= floor => Len(q.workers) >= floor
  BY ShrunkManned
<1> HIDE DEF q
<1>2. Len(p.workers) \in Nat /\ Len(q.workers) \in Nat /\ p.minSize \in Nat BY <1>1 DEF Roomy, StaffTyped
<1>3. Len(p.workers) >= p.minSize => Len(q.workers) >= p.minSize BY <1>1, <1>2
<1>4. Full(p) => Full(q) BY <1>1, <1>3 DEF Full, SameHouse
<1> QED BY <1>1, <1>4 DEF Tended, q

(* _reapIdleWorkers()                                                      *)
LEMMA ReapManned ==
  ASSUME NEW p, Manned(p), Inv(p), NEW old
  PROVE  Manned(ReapIdleWorkers(p, old))
<1> DEFINE q == ShrunkTo(p, old, p.minSize)
<1>1. p.minSize \in Nat /\ Distinct(p.workers) BY DEF Manned, Roomy, StaffTyped, Inv, Sound
<1>2. Tended(p, q) BY <1>1, ShrunkTended DEF Manned
<1>3. ReapIdleWorkers(p, old) = UpdateIdleState(q) BY DEF ReapIdleWorkers
<1> HIDE DEF q
<1> QED BY <1>2, <1>3, IdleTended DEF Manned, Tended

(* _autoScaleTick()                                                        *)
LEMMA AutoscaleManned ==
  ASSUME NEW p, Manned(p), Inv(p), NEW r \in AutoscaleResults(p)
  PROVE  Manned(r)
<1>1. CASE r = p BY <1>1
<1>2. CASE r # p
  <2>1. PICK q \in LimitedResults(p) : r \in {q} \cup ScaledUp(q) \cup ScaledDown(q)
    BY <1>2 DEF AutoscaleResults
  <2>2. Unmoved(p, q)
    <3>1. q = p \/ \E n : q = [p EXCEPT !.limit = n] BY <2>1 DEF LimitedResults
    <3>2. StaffFields \subseteq DOMAIN p BY RoomyFields DEF Manned
    <3>3. \A n : Unmoved(p, [p EXCEPT !.limit = n]) BY <3>2, OtherFields
    <3> QED BY <3>1, <3>3, UnmovedStays
  <2>3. Roomy(q) /\ Full(q) /\ q.workers = p.workers BY <2>2, UnmovedManned DEF Manned, Unmoved
  <2>4. Distinct(q.workers) BY <2>3 DEF Inv, Sound
  <2>5. /\ q.minSize \in Nat /\ q.maxSize \in Nat /\ q.maxSize <= MaxAlive /\ Len(q.workers) \in Nat
    BY <2>3 DEF Roomy, StaffTyped
  <2>6. CASE r = q BY <2>3, <2>6 DEF Manned
  <2>7. CASE r \in ScaledDown(q)
    <3> DEFINE W == {w \in Live(q) : q.tasks[w] = 0}
    <3>1. ScaledDown(q) \subseteq {ShrunkTo(q, W, n) : n \in q.minSize..Len(q.workers) - 1}
      BY DEF ScaledDown
    <3> HIDE DEF W
    <3>2. PICK n \in q.minSize..Len(q.workers) - 1 : r = ShrunkTo(q, W, n)
      BY <2>7, <3>1
    <3>3. n \in Nat /\ n >= q.minSize /\ Len(q.workers) >= n BY <2>5
    <3>4. Tended(q, r) BY <2>3, <2>4, <3>2, <3>3, ShrunkTended
    <3> QED BY <2>3, <3>4 DEF Manned, Tended
  <2>8. CASE r \in ScaledUp(q)
    <3>1. PICK n \in 1..(q.maxSize - Len(q.workers)) : r \in AddedResults(q, n)
      BY <2>8 DEF ScaledUp
    <3>2. PICK a \in Nat : a = Len(q.workers) BY <2>5
    <3>3. PICK b \in Nat : b = q.maxSize /\ b <= MaxAlive BY <2>5
    <3>4. n \in Nat /\ a + n <= MaxAlive /\ a + n <= b BY <3>2, <3>3, PoolConstants
    <3>5. Tended(q, r) BY <2>3, <3>1, <3>2, <3>3, <3>4, AddedManned
    <3> QED BY <2>3, <3>5 DEF Manned, Tended
  <2> QED BY <2>1, <2>6, <2>7, <2>8
<1> QED BY <1>1, <1>2

(* A pool without workers.                                                 *)
LEMMA EmptyRoomy ==
  ASSUME NEW p, StaffTyped(p), p.workers = << >>
  PROVE  Roomy(p)
<1>1. Live(p) = {} /\ Len(p.workers) = 0 BY DEF Live
<1>2. 0 <= p.maxSize BY DEF StaffTyped
<1> QED BY <1>1, <1>2 DEF Roomy

\* All workers are terminated at once: by a reset, by shutdown().
Cleared(p) ==
  [ TerminateWorkers(Settle(p, Keys, "rejected"), Live(p)) EXCEPT
      !.workers = << >>, !.queue = << >>, !.active = 0 ]

ClearedForGood(p) ==
  [ TerminateWorkers(Settle(p, Keys, "rejected"), Live(p)) EXCEPT
      !.terminated = TRUE, !.workers = << >>, !.queue = << >>, !.active = 0 ]

(* All workers are terminated at once.                                     *)
LEMMA BaredManned ==
  ASSUME NEW p, Roomy(p)
  PROVE  /\ Roomy(Cleared(p)) /\ SameHouse(p, Cleared(p)) /\ Cleared(p).workers = << >>
         /\ Roomy(ClearedForGood(p)) /\ ClearedForGood(p).terminated
<1> DEFINE s == Settle(p, Keys, "rejected")
           W == Live(p)
           none == << >>
           d == TerminateWorkers(s, W)
           t == [d EXCEPT !.workers = none]
           q == [d EXCEPT !.workers = none, !.queue = none, !.active = 0]
           f == [d EXCEPT !.terminated = TRUE, !.workers = none, !.queue = none, !.active = 0]
<1>1. Unmoved(p, s) /\ Roomy(s) BY RoomyFields, SettleUnmoved, UnmovedTended DEF Tended
<1> HIDE DEF s, W
<1>2. none \in Seq(Ids) /\ In(none) = {} BY DEF In
<1> HIDE DEF none
<1>3. SameHouse(s, t) /\ t.workers = none /\ StaffTyped(t) BY <1>1, <1>2, TerminatedShape DEF Roomy
<1> HIDE DEF d
<1>4. StaffFields \subseteq DOMAIN t /\ DOMAIN t = DOMAIN d BY <1>3 DEF StaffTyped
<1>5. /\ q.workers = none /\ q.running = t.running /\ q.ready = t.ready /\ SameHouse(t, q)
      /\ StaffFields \subseteq DOMAIN q
  BY <1>4 DEF StaffFields, SameHouse
<1>6. /\ f.workers = none /\ f.running = t.running /\ f.ready = t.ready /\ f.terminated
      /\ f.minSize = t.minSize /\ f.maxSize = t.maxSize
      /\ StaffFields \subseteq DOMAIN f
  BY <1>4 DEF StaffFields
<1> HIDE DEF q, f, t
<1>7. StaffTyped(q) BY <1>3, <1>5 DEF StaffTyped, SameHouse
<1>8. StaffTyped(f) BY <1>3, <1>6 DEF StaffTyped
<1>9. none = << >> BY DEF none
<1>10. Roomy(q) /\ Roomy(f) BY <1>5, <1>6, <1>7, <1>8, <1>9, EmptyRoomy
<1>11. SameHouse(p, q) BY <1>1, <1>3, <1>5 DEF Unmoved, SameHouse
<1> QED BY <1>5, <1>6, <1>9, <1>10, <1>11 DEF Cleared, ClearedForGood, q, f, d, s, W, none

(* shutdown()                                                              *)
LEMMA ShutdownManned ==
  ASSUME NEW p, Manned(p)
  PROVE  Manned(Shutdown(p))
<1>1. CASE p.terminated BY <1>1 DEF Shutdown
<1>2. CASE ~p.terminated
  <2> DEFINE f == [ TerminateWorkers(Settle(p, Keys, "rejected"), Live(p)) EXCEPT
                      !.terminated = TRUE, !.workers = << >>, !.queue = << >>, !.active = 0 ]
  <2>1. Shutdown(p) = UpdateIdleState(f) BY <1>2 DEF Shutdown
  <2>2. Roomy(f) /\ f.terminated
    <3>1. f = ClearedForGood(p) BY DEF ClearedForGood
    <3> HIDE DEF f
    <3> QED BY <3>1, BaredManned DEF Manned
  <2> HIDE DEF f
  <2>3. Full(f) BY <2>2 DEF Full
  <2> QED BY <2>1, <2>2, <2>3, IdleTended DEF Manned, Tended
<1> QED BY <1>1, <1>2

(* _resetPoolForStopThePress()                                             *)
LEMMA ResetManned ==
  ASSUME NEW p, Manned(p), Resets \cap p.uses # {}, NEW recreate, NEW r \in ResetPoolResults(p, recreate)
  PROVE  Manned(r) /\ r.uses = p.uses
<1> DEFINE bare == [ TerminateWorkers(Settle(p, Keys, "rejected"), Live(p)) EXCEPT
                       !.workers = << >>, !.queue = << >>, !.active = 0 ]
           size == Larger(p.minSize, Smaller(Len(p.workers), p.maxSize))
<1>1. PICK q \in IF recreate THEN AddedResults(bare, size) ELSE {bare} : r = UpdateIdleState(q)
  BY DEF ResetPoolResults
<1>2. Roomy(bare) /\ SameHouse(p, bare) /\ bare.workers = << >>
  <2>1. bare = Cleared(p) BY DEF Cleared
  <2> HIDE DEF bare
  <2> QED BY <2>1, BaredManned DEF Manned
<1>3. size \in Nat /\ size <= p.maxSize /\ p.maxSize \in Nat /\ p.maxSize <= MaxAlive
  <2>1. /\ p.minSize \in Nat /\ p.maxSize \in Nat /\ p.minSize <= p.maxSize /\ p.maxSize <= MaxAlive
        /\ Len(p.workers) \in Nat
    BY DEF Manned, Roomy, StaffTyped
  <2> QED BY <2>1 DEF Larger, Smaller
<1> HIDE DEF bare, size
<1>4. Tended(bare, q)
  <2>1. CASE q = bare BY <1>2, <2>1 DEF Tended, SameHouse
  <2>2. CASE q # bare
    <3>1. q \in AddedResults(bare, size) BY <1>1, <2>2
    <3>2. Len(bare.workers) = 0 /\ bare.maxSize = p.maxSize BY <1>2 DEF SameHouse
    <3>3. Len(bare.workers) + size <= MaxAlive /\ Len(bare.workers) + size <= bare.maxSize
      BY <1>3, <3>2, PoolConstants
    <3> QED BY <1>2, <1>3, <3>1, <3>3, AddedManned
  <2> QED BY <2>1, <2>2
<1>5. Roomy(q) /\ q.uses = p.uses BY <1>2, <1>4 DEF Tended, SameHouse
<1>6. Tended(q, r) BY <1>1, <1>5, IdleTended
<1>7. Full(q) BY <1>5 DEF Full
<1> QED BY <1>5, <1>6, <1>7 DEF Manned, Tended, SameHouse

(* stopThePress()                                                          *)
LEMMA StopThePressManned ==
  ASSUME NEW p, Manned(p), "stopThePress" \in p.uses, NEW c \in Calls, NEW recreate,
         NEW r \in StopThePressResults(p, c, recreate)
  PROVE  Manned(r)
<1>1. PICK q \in ResetPoolResults(p, recreate) :
        r \in IF recreate THEN PostMessageResults(q, c) ELSE {EnqueueOrReject(q, c)}
  BY DEF StopThePressResults
<1>2. Resets \cap p.uses # {} BY DEF Resets
<1>3. Manned(q) BY <1>2, ResetManned
<1>4. Tended(q, r)
  <2>1. CASE r \in PostMessageResults(q, c) BY <1>3, <2>1, PostMessageTended
  <2>2. CASE r = EnqueueOrReject(q, c) BY <1>3, <2>2, EnqueueUnmoved, RoomyFields, UnmovedTended DEF Manned
  <2> QED BY <1>1, <2>1, <2>2
<1> QED BY <1>3, <1>4 DEF Manned, Tended

(* stopThePressBatch()                                                     *)
LEMMA StopThePressBatchManned ==
  ASSUME NEW p, Manned(p), "stopThePressBatch" \in p.uses, NEW items \in Seq(Calls), NEW recreate,
         NEW r \in StopThePressBatchResults(p, items, recreate)
  PROVE  Manned(r)
<1>1. PICK q \in ResetPoolResults(p, recreate) : r \in BatchResults(q, items, NoWorker)
  BY DEF StopThePressBatchResults
<1>2. Resets \cap p.uses # {} BY DEF Resets
<1>3. Manned(q) /\ q.uses = p.uses BY <1>2, ResetManned
<1>4. Unasked(q) BY <1>3 DEF Unasked, Ungated
<1>5. Tended(q, r) BY <1>1, <1>3, <1>4, BatchTended
<1> QED BY <1>3, <1>5 DEF Manned, Tended

(* broadcast()                                                             *)
LEMMA BroadcastManned ==
  ASSUME NEW p, Manned(p), "broadcast" \in p.uses, NEW c \in Calls
  PROVE  Manned(Broadcast(p, c))
<1> DEFINE running == [w \in Ids |-> IF w \in Live(p) THEN p.running[w] \cup {c} ELSE p.running[w]]
           tasks == [w \in Ids |-> IF w \in Live(p) THEN p.tasks[w] + 1 ELSE p.tasks[w]]
           active == p.active + Len(p.workers)
           q == [p EXCEPT !.running = running, !.tasks = tasks, !.active = active, !.outcome[c] = "sent"]
<1>1. Broadcast(p, c) = UpdateIdleState(q) BY DEF Broadcast
<1>2. p.running \in [Ids -> SUBSET Calls] BY DEF Manned, Roomy, StaffTyped
<1>3. running \in [Ids -> SUBSET Calls] BY <1>2
<1> HIDE DEF running, tasks, active
<1>4. /\ SameHouse(p, q) /\ q.workers = p.workers /\ q.running = running /\ q.ready = p.ready
      /\ StaffFields \subseteq DOMAIN q
  BY RoomyFields DEF Manned, StaffFields, SameHouse
<1> HIDE DEF q
<1>5. StaffTyped(q) BY <1>3, <1>4 DEF Manned, Roomy, StaffTyped, SameHouse
<1>6. Unasked(q) BY <1>4 DEF Unasked, Ungated, SameHouse
<1>7. Roomy(q) BY <1>4, <1>5, <1>6 DEF Manned, Roomy, Gated, SameHouse
<1>8. Full(q) BY <1>4 DEF Manned, Full, SameHouse
<1> QED BY <1>1, <1>7, <1>8, IdleTended DEF Manned, Tended

(* addWorker()                                                             *)
LEMMA AddWorkerManned ==
  ASSUME NEW p, Manned(p), "add" \in p.uses, Len(p.workers) + 1 <= MaxAlive,
         NEW r \in IF p.terminated THEN {p} ELSE {UpdateIdleState(q) : q \in AddedResults(p, 1)}
  PROVE  Manned(r)
<1>1. CASE r = p BY <1>1
<1>2. CASE r # p
  <2>1. PICK q \in AddedResults(p, 1) : r = UpdateIdleState(q) BY <1>2
  <2>2. Tended(p, q) BY <2>1, AddedManned DEF Manned
  <2>3. Tended(q, r) BY <2>1, <2>2, IdleTended DEF Tended
  <2> QED BY <2>2, <2>3 DEF Manned, Tended
<1> QED BY <1>1, <1>2

(* A worker announces itself.                                              *)
LEMMA WorkerReadyManned ==
  ASSUME NEW p, Manned(p), p.queue \in Seq(Calls), NEW w,
         NEW r \in DispatchQueuedTasksResults(Announcing(p, w))
  PROVE  Manned(r)
<1> DEFINE ready == [p.ready EXCEPT ![w] = TRUE]
           overdue == p.overdue \ {w}
           q == [p EXCEPT !.ready = ready, !.overdue = overdue]
<1>1. StaffFields \subseteq DOMAIN p /\ p.ready \in [Ids -> BOOLEAN]
  BY DEF Manned, Roomy, StaffTyped
<1>2. ready \in [Ids -> BOOLEAN] /\ \A v \in Ids : p.ready[v] => ready[v] BY <1>1
<1>3. Announcing(p, w) = q BY <1>1 DEF Announcing, StaffFields
<1> HIDE DEF ready, overdue
<1>4. /\ SameHouse(p, q) /\ q.workers = p.workers /\ q.running = p.running /\ q.ready = ready
      /\ StaffFields \subseteq DOMAIN q /\ q.queue = p.queue
  BY <1>1 DEF StaffFields, SameHouse
<1> HIDE DEF q
<1>5. Roomy(q) /\ Full(q) BY <1>2, <1>4, EasedManned DEF Manned
<1>6. Tended(q, r) BY <1>3, <1>4, <1>5, DispatchQueuedTended
<1> QED BY <1>5, <1>6 DEF Manned, Tended

(* A step that leaves the workers alone.                                   *)
LEMMA UnmovedStaysManned ==
  ASSUME NEW p, Manned(p), NEW q, Unmoved(p, q)
  PROVE  Manned(q)
BY UnmovedManned DEF Manned

(* drain()                                                                 *)
LEMMA StartDrainUnmoved ==
  ASSUME NEW p, StaffFields \subseteq DOMAIN p, NEW d
  PROVE  Unmoved(p, StartDrain(p, d))
BY OtherFields DEF StartDrain

(* The workers of a new pool.                                              *)
LEMMA NewPoolIsManned ==
  ASSUME NEW s \in Scenarios
  PROVE  Manned(NewPool(s))
<1> DEFINE p == Unstaffed(s)
           q == NewPool(s)
           n == s.minSize
<1>1. /\ p \in PoolType /\ p.minSize <= MaxAlive /\ p.maxSize <= MaxAlive
      /\ p.workers = << >> /\ p.minSize = n
  BY UnstaffedIsSound
<1>2. p.maxSize = s.maxSize BY DEF Unstaffed
<1>3. n <= s.maxSize BY PowerPoolConstants DEF ScenarioType
<1>4. q = AddWorkers(p, n) BY DEF NewPool
<1> HIDE DEF p, q, n
<1>5. StaffTyped(p) BY <1>1, <1>2, <1>3 DEF PoolType, StaffTyped, StaffFields
<1>6. Roomy(p) BY <1>1, <1>5, EmptyRoomy
<1>7. n \in Nat /\ Len(p.workers) + n <= MaxAlive /\ Len(p.workers) + n <= p.maxSize
  <2>1. n \in Nat /\ Len(p.workers) = 0 BY <1>1 DEF PoolType
  <2> QED BY <1>1, <1>2, <1>3, <2>1, PoolConstants
<1>8. Tended(p, q) /\ Len(q.workers) = Len(p.workers) + n BY <1>4, <1>6, <1>7, AddWorkersManned
<1>9. Len(q.workers) = n BY <1>1, <1>7, <1>8
<1>10. q.minSize = n BY <1>1, <1>8 DEF Tended, SameHouse
<1>11. Len(q.workers) >= q.minSize BY <1>7, <1>9, <1>10
<1>12. Full(q) BY <1>11 DEF Full
<1> QED BY <1>8, <1>12 DEF Manned, Tended, q

(* What callers do.                                                        *)
LEMMA CallersKeepManned ==
  ASSUME Main(pool), Manned(pool),
         \/ \E c \in Calls : PostMessage(c)
         \/ \E c \in Calls, w \in Ids : PostMessageTo(c, w)
         \/ \E items \in Batches : PostMessageBatch(items)
         \/ \E items \in Batches, w \in Ids : PostMessageBatchTo(items, w)
         \/ \E c \in Calls : BroadcastMessage(c)
         \/ \E c \in Calls : Abort(c)
         \/ \E c \in Calls : Elapse(c)
         \/ \E k \in Keys : ResponseTimeout(k)
  PROVE  Manned(pool')
<1>0. StaffFields \subseteq DOMAIN pool BY DEF Manned, Roomy, StaffTyped
<1>1. CASE \E c \in Calls : PostMessage(c)
  BY <1>1, PostMessageTended DEF PostMessage, Manned, Tended
<1>2. CASE \E c \in Calls, w \in Ids : PostMessageTo(c, w)
  <2>1. PICK c \in Calls, w \in Ids : "postTo" \in pool.uses /\ pool' \in PostToWorkerResults(pool, c, w)
    BY <1>2 DEF PostMessageTo, Uses
  <2>2. Unasked(pool) BY <2>1 DEF Unasked, Ungated
  <2> QED BY <2>1, <2>2, PostToWorkerTended DEF Manned, Tended
<1>3. CASE \E items \in Batches : PostMessageBatch(items)
  <2>1. PICK items \in Batches : "batch" \in pool.uses /\ pool' \in BatchResults(pool, items, NoWorker)
    BY <1>3 DEF PostMessageBatch, Uses
  <2>2. items \in Seq(Calls) BY BatchesAreBatches DEF IsBatch
  <2>3. Unasked(pool) BY <2>1 DEF Unasked, Ungated
  <2> QED BY <2>1, <2>2, <2>3, BatchTended DEF Manned, Tended
<1>4. CASE \E items \in Batches, w \in Ids : PostMessageBatchTo(items, w)
  <2>1. PICK items \in Batches, w \in Ids : "batchTo" \in pool.uses /\ pool' \in BatchResults(pool, items, w)
    BY <1>4 DEF PostMessageBatchTo, Uses
  <2>2. items \in Seq(Calls) BY BatchesAreBatches DEF IsBatch
  <2>3. Unasked(pool) BY <2>1 DEF Unasked, Ungated
  <2> QED BY <2>1, <2>2, <2>3, BatchTended DEF Manned, Tended
<1>5. CASE \E c \in Calls : BroadcastMessage(c)
  BY <1>5, BroadcastManned DEF BroadcastMessage, Uses
<1>6. CASE \E c \in Calls : Abort(c)
  <2>1. PICK c, K : pool' = [Settle(pool, K, "rejected") EXCEPT !.aborted = pool.aborted \cup {c}]
    BY <1>6 DEF Abort
  <2> DEFINE q == Settle(pool, K, "rejected")
  <2>2. Unmoved(pool, q) BY <1>0, SettleUnmoved
  <2>3. pool' = [q EXCEPT !.aborted = pool.aborted \cup {c}] BY <2>1
  <2> HIDE DEF q
  <2>4. StaffFields \subseteq DOMAIN q BY <1>0, <2>2 DEF Unmoved
  <2>5. Unmoved(q, pool') BY <2>3, <2>4, OtherFields
  <2> QED BY <2>2, <2>5, UnmovedOn, UnmovedStaysManned
<1>7. CASE \E c \in Calls : Elapse(c)
  <2>1. \E v : pool' = [pool EXCEPT !.elapsed = v] BY <1>7 DEF Elapse
  <2> QED BY <1>0, <2>1, OtherFields, UnmovedStaysManned
<1>8. CASE \E k \in Keys : ResponseTimeout(k)
  BY <1>0, <1>8, SettleUnmoved, UnmovedStaysManned DEF ResponseTimeout
<1> QED BY <1>1, <1>2, <1>3, <1>4, <1>5, <1>6, <1>7, <1>8

(* What workers do.                                                        *)
LEMMA WorkersKeepManned ==
  ASSUME Main(pool), Manned(pool),
         \/ \E w \in Ids, c \in Calls : Reply(w, c)
         \/ \E w \in Ids : WorkerSays(w)
         \/ \E w \in Ids : WorkerReady(w)
         \/ \E w \in Ids : ReadyTimeout(w)
         \/ \E w \in Ids : WorkerExit(w)
  PROVE  Manned(pool')
<1>0. StaffFields \subseteq DOMAIN pool BY DEF Manned, Roomy, StaffTyped
<1>1. Inv(pool) /\ pool.queue \in Seq(Calls) BY DEF Main, Inv, Sound, PoolType
<1>2. CASE \E w \in Ids, c \in Calls : Reply(w, c)
  <2>1. PICK w \in Ids, c \in Calls :
          w \in Live(pool) /\ c \in pool.running[w] /\ pool' \in ReplyResults(pool, w, c)
    BY <1>2 DEF Reply
  <2> QED BY <1>1, <2>1, ReplyTended DEF Manned, Tended
<1>3. CASE \E w \in Ids : WorkerSays(w)
  <2>1. PICK w \in Ids : "chatter" \in pool.uses /\ pool' \in ChatterResults(pool, w)
    BY <1>3 DEF WorkerSays, Uses
  <2>2. Unasked(pool) BY <2>1 DEF Unasked, Ungated
  <2> QED BY <1>1, <2>1, <2>2, ChatterTended DEF Manned, Tended
<1>4. CASE \E w \in Ids : WorkerReady(w)
  BY <1>1, <1>4, WorkerReadyManned DEF WorkerReady
<1>5. CASE \E w \in Ids : ReadyTimeout(w)
  <2>1. \E v : pool' = [pool EXCEPT !.overdue = v] BY <1>5 DEF ReadyTimeout
  <2> QED BY <1>0, <2>1, OtherFields, UnmovedStaysManned
<1>6. CASE \E w \in Ids : WorkerExit(w)
  BY <1>1, <1>6, WorkerExitManned DEF WorkerExit, Uses
<1> QED BY <1>2, <1>3, <1>4, <1>5, <1>6

(* What operators do.                                                      *)
LEMMA OperatorsKeepManned ==
  ASSUME Main(pool), Manned(pool),
         \/ PauseQueue \/ ResumeQueue \/ AddWorker \/ RemoveLastWorker
         \/ \E min, max \in Sizes : Resize(min, max)
         \/ ReapTick
         \/ \E c \in Calls, recreate \in BOOLEAN : StopThePress(c, recreate)
         \/ \E items \in Batches, recreate \in BOOLEAN : StopThePressBatch(items, recreate)
         \/ AutoscaleTick
  PROVE  Manned(pool')
<1>0. StaffFields \subseteq DOMAIN pool BY DEF Manned, Roomy, StaffTyped
<1>1. Inv(pool) /\ pool.queue \in Seq(Calls) BY DEF Main, Inv, Sound, PoolType
<1>2. CASE PauseQueue
  BY <1>0, <1>2, OtherFields, UnmovedStaysManned DEF PauseQueue
<1>3. CASE ResumeQueue
  <2> DEFINE q == [pool EXCEPT !.paused = FALSE]
  <2>1. pool' \in DispatchQueuedTasksResults(q) BY <1>3 DEF ResumeQueue
  <2>2. Unmoved(pool, q) BY <1>0, OtherFields
  <2>4. q.queue = pool.queue OBVIOUS
  <2> HIDE DEF q
  <2>3. Manned(q) BY <2>2, UnmovedStaysManned
  <2> QED BY <1>1, <2>1, <2>3, <2>4, DispatchQueuedTended DEF Manned, Tended
<1>4. CASE AddWorker
  BY <1>4, AddWorkerManned DEF AddWorker, RoomFor, Uses
<1>5. CASE RemoveLastWorker
  BY <1>5, RemoveWorkerManned DEF RemoveLastWorker, Uses
<1>6. CASE \E min, max \in Sizes : Resize(min, max)
  <2>1. PICK min \in Sizes, max \in Sizes : "resize" \in pool.uses /\ pool' \in ResizeResults(pool, min, max)
    BY <1>6 DEF Resize, Uses
  <2>2. min \in 0..MaxAlive /\ max \in 0..MaxAlive BY PowerPoolConstants
  <2> QED BY <1>1, <2>1, <2>2, ResizeManned
<1>7. CASE ReapTick
  BY <1>1, <1>7, ReapManned DEF ReapTick
<1>8. CASE \E c \in Calls, recreate \in BOOLEAN : StopThePress(c, recreate)
  BY <1>8, StopThePressManned DEF StopThePress, Uses
<1>9. CASE \E items \in Batches, recreate \in BOOLEAN : StopThePressBatch(items, recreate)
  <2>1. PICK items \in Batches, recreate \in BOOLEAN :
          "stopThePressBatch" \in pool.uses /\ pool' \in StopThePressBatchResults(pool, items, recreate)
    BY <1>9 DEF StopThePressBatch, Uses
  <2>2. items \in Seq(Calls) BY BatchesAreBatches DEF IsBatch
  <2> QED BY <2>1, <2>2, StopThePressBatchManned
<1>10. CASE AutoscaleTick
  BY <1>1, <1>10, AutoscaleManned DEF AutoscaleTick
<1> QED BY <1>2, <1>3, <1>4, <1>5, <1>6, <1>7, <1>8, <1>9, <1>10

(* How the pool is drained and shut down.                                  *)
LEMMA DrainsKeepManned ==
  ASSUME Main(pool), Manned(pool),
         \/ ShutdownPool
         \/ \E d \in Drains : Drain(d)
         \/ \E d \in Drains : DrainGivesUp(d)
         \/ \E d \in Drains : Close(d)
         \/ \E d \in Drains : CloseGoesOn(d)
  PROVE  Manned(pool')
<1>0. StaffFields \subseteq DOMAIN pool BY DEF Manned, Roomy, StaffTyped
<1>1. ASSUME NEW q, Manned(q), NEW v, pool' = [q EXCEPT !.closing = v]
      PROVE  Manned(pool')
  <2>1. StaffFields \subseteq DOMAIN q BY <1>1, RoomyFields DEF Manned
  <2> QED BY <1>1, <2>1, OtherFields, UnmovedStaysManned
<1>2. CASE ShutdownPool
  BY <1>2, ShutdownManned DEF ShutdownPool
<1>3. CASE \E d \in Drains : Drain(d)
  BY <1>0, <1>3, StartDrainUnmoved, UnmovedStaysManned DEF Drain
<1>4. CASE \E d \in Drains : DrainGivesUp(d)
  BY <1>0, <1>4, OtherFields, UnmovedStaysManned DEF DrainGivesUp
<1>5. CASE \E d \in Drains : Close(d)
  <2>1. PICK d \in Drains :
          pool' = IF pool.terminated THEN [pool EXCEPT !.drains[d] = "resolved"]
                  ELSE [StartDrain(pool, d) EXCEPT !.closing = pool.closing \cup {d}]
    BY <1>5 DEF Close
  <2>2. CASE pool.terminated BY <1>0, <2>1, <2>2, OtherFields, UnmovedStaysManned
  <2>3. CASE ~pool.terminated
    <3>1. Manned(StartDrain(pool, d)) BY <1>0, StartDrainUnmoved, UnmovedStaysManned
    <3> QED BY <1>1, <2>1, <2>3, <3>1
  <2> QED BY <2>2, <2>3
<1>6. CASE \E d \in Drains : CloseGoesOn(d)
  BY <1>1, <1>6, ShutdownManned DEF CloseGoesOn
<1> QED BY <1>2, <1>3, <1>4, <1>5, <1>6

(* Every step keeps the workers as they should be.                         *)
LEMMA NextKeepsManned ==
  ASSUME Main(pool), Manned(pool), [Next]_vars
  PROVE  Manned(pool')
<1>1. CASE Next
  <2>1. \/ \/ \E c \in Calls : PostMessage(c)
           \/ \E c \in Calls, w \in Ids : PostMessageTo(c, w)
           \/ \E items \in Batches : PostMessageBatch(items)
           \/ \E items \in Batches, w \in Ids : PostMessageBatchTo(items, w)
           \/ \E c \in Calls : BroadcastMessage(c)
           \/ \E c \in Calls : Abort(c)
           \/ \E c \in Calls : Elapse(c)
           \/ \E k \in Keys : ResponseTimeout(k)
        \/ \/ \E w \in Ids, c \in Calls : Reply(w, c)
           \/ \E w \in Ids : WorkerSays(w)
           \/ \E w \in Ids : WorkerReady(w)
           \/ \E w \in Ids : ReadyTimeout(w)
           \/ \E w \in Ids : WorkerExit(w)
        \/ \/ PauseQueue \/ ResumeQueue \/ AddWorker \/ RemoveLastWorker
           \/ \E min, max \in Sizes : Resize(min, max)
           \/ ReapTick
           \/ \E c \in Calls, recreate \in BOOLEAN : StopThePress(c, recreate)
           \/ \E items \in Batches, recreate \in BOOLEAN : StopThePressBatch(items, recreate)
           \/ AutoscaleTick
        \/ \/ ShutdownPool
           \/ \E d \in Drains : Drain(d)
           \/ \E d \in Drains : DrainGivesUp(d)
           \/ \E d \in Drains : Close(d)
           \/ \E d \in Drains : CloseGoesOn(d)
    BY <1>1 DEF Next
  <2> QED BY <2>1, CallersKeepManned, WorkersKeepManned, OperatorsKeepManned, DrainsKeepManned
<1>2. CASE UNCHANGED vars BY <1>2 DEF vars
<1> QED BY <1>1, <1>2

-----------------------------------------------------------------------------
(***************************************************************************)
(* The theorems.                                                           *)
(***************************************************************************)

(* The inductive invariant: the books agree with one another, every call   *)
(* is in one place, the counters count what is in flight, the idle state   *)
(* is the one announced, and whoever waits will be answered (the state of  *)
(* PowerPool between any two turns of its event loop).                     *)
THEOREM PoolStaysSound == Spec => []Main(pool)
<1>1. Init => Main(pool)
  BY NewPoolIsSound DEF Init
<1>2. Main(pool) /\ [Next]_vars => Main(pool)'
  BY NextStands DEF Stands
<1> QED BY <1>1, <1>2, PTL DEF Spec

(* Every field of the pool keeps its type, _activeTasks and every worker's *)
(* tasks count what is really in flight, and no worker and no queue is     *)
(* filled beyond its limit.                                                *)
THEOREM WorkIsAlwaysCounted == Spec => []WorkIsCounted
<1>1. Main(pool) => WorkIsCounted
  <2> SUFFICES ASSUME Main(pool) PROVE WorkIsCounted OBVIOUS
  <2>1. Sound(pool) /\ Crewed(pool) /\ Within(pool) BY DEF Main, Inv
  <2>2. TypeOK BY <2>1 DEF TypeOK, Sound
  <2>3. ActiveIsInFlight BY <2>1 DEF ActiveIsInFlight, Crewed, InFlight, Uses
  <2>4. LimitsHold BY <2>1 DEF LimitsHold, Within, Uses
  <2> QED BY <2>2, <2>3, <2>4 DEF WorkIsCounted
<1> QED BY <1>1, PoolStaysSound, PTL

(* A promise that has not settled is the one _pendingResponses has under   *)
(* its correlation id: a second request under an id rejects the first      *)
(* (_createPendingResponsePromise), it never orphans it.                   *)
THEOREM OpenIsAlwaysRegistered == Spec => []OpenIsRegistered
<1>1. Main(pool) => OpenIsRegistered
  BY DEF Main, Inv, Booked, OpenIsRegistered
<1> QED BY <1>1, PoolStaysSound, PTL

(* A pool that calls itself idle is, and a pool that has gone quiet has    *)
(* released whoever waits in drain() (_updateIdleState).                   *)
THEOREM IdleIsAlwaysAnnounced == Spec => []IdleIsAnnounced
<1>1. Main(pool) => IdleIsAnnounced
  BY DEF Main, Announced, IdleIsAnnounced
<1> QED BY <1>1, PoolStaysSound, PTL

(* After shutdown() no worker, no queued task, no task in flight and no    *)
(* pending response is left or comes back, where nobody calls resize() or  *)
(* stopThePress(), which do not look at _terminated.                       *)
THEOREM ShutdownIsAlwaysFinal == Spec => []ShutdownIsFinal
<1>1. Main(pool) => ShutdownIsFinal
  <2> SUFFICES ASSUME Main(pool), pool.terminated, Revivals \cap pool.uses = {}
               PROVE  /\ pool.workers = << >> /\ Quiet(pool)
                      /\ \A c \in Calls : pool.outcome[c] # "open"
    BY DEF ShutdownIsFinal
  <2>1. Gone(pool) BY DEF Main, Final
  <2>2. \A c \in Calls : pool.outcome[c] # "open" BY DEF Main, Minded
  <2> QED BY <2>1, <2>2 DEF Gone
<1> QED BY <1>1, PoolStaysSound, PTL

(* No accepted request is lost by the loops that queue, discard, dispatch, *)
(* replace and terminate: it is queued, or a live worker has it and the    *)
(* entry says which.  Where no worker.postMessage() of a request throws:   *)
(* where one does, _dispatchQueuedTasks() drops the item it has taken off  *)
(* the queue.                                                              *)
THEOREM NoResponseIsLost ==
  ASSUME \A s \in Scenarios : s.options.mayThrow \cap s.options.requests = {}
  PROVE  Spec => []NoLostResponse
<1>1. Main(pool) => NoLostResponse
  <2> SUFFICES ASSUME Main(pool), OwnKeys(pool.options), NEW c \in Calls, pool.outcome[c] = "open"
               PROVE  \/ \E i \in 1..Len(pool.queue) : pool.queue[i] = c
                      \/ \E w \in Live(pool) :
                           c \in pool.running[w] /\ pool.carrier[pool.options.keyOf[c]] = w
    BY DEF NoLostResponse
  <2>1. Sure(pool) BY DEF Main, Given, Sure
  <2>2. Carried(pool, c) BY <2>1 DEF Main, Minded, Cared
  <2> QED BY <2>2 DEF Carried, In
<1> QED BY <1>1, PoolStaysSound, PTL

(* An abort releases the caller, whether the call is queued or in flight.  *)
(* Where there is a task queue and the call transfers nothing: only        *)
(* _enqueueTask() and _dispatchToWorker() of such a call attach the        *)
(* listener.                                                               *)
THEOREM AbortAlwaysReleases ==
  ASSUME \A s \in Scenarios :
           "abort" \in s.uses => s.options.taskQueue /\ s.options.signalled \cap s.options.zeroCopy = {}
  PROVE  Spec => []AbortReleasesWaiter
<1>1. Main(pool) => AbortReleasesWaiter
  <2> SUFFICES ASSUME Main(pool), NEW c \in pool.aborted
               PROVE  pool.outcome[c] # "open"
    BY DEF AbortReleasesWaiter
  <2>1. c \in Calls BY DEF Main, Inv, Sound, PoolType
  <2>2. "abort" \in pool.uses /\ c \in pool.options.signalled BY DEF Main, Given
  <2>3. Hears(pool, c) BY <2>2 DEF Main, Given, Hears
  <2> QED BY <2>1, <2>3 DEF Main, Minded
<1> QED BY <1>1, PoolStaysSound, PTL

(* A settled promise stays settled the way it was, whatever late reply,    *)
(* timeout, abort, batch or teardown comes after it.                       *)
THEOREM SettledStaysSettled == Spec => SettledOnce
<1>1. Main(pool) /\ [Next]_vars =>
        [ \A c \in Calls :
            pool.outcome[c] \in {"resolved", "rejected", "refused", "misanswered"} =>
              pool'.outcome[c] = pool.outcome[c] ]_vars
  BY NextStands DEF Stands, Keeps, Settled
<1> QED BY <1>1, PoolStaysSound, PTL DEF Spec, SettledOnce

(* drain() and close() resolve only when no live worker still has, and the *)
(* queue no longer holds, a call posted before the step that resolves it.  *)
THEOREM DrainAlwaysMeansDone == Spec => DrainMeansDone
<1>1. Main(pool) /\ [Next]_vars =>
        [ /\ ~Uses("chatter")
          /\ pool.terminated /\ Uses("close") => Revivals \cap pool.uses = {}
          => \A d \in Drains, c \in Calls :
            /\ pool.drains[d] # "resolved" /\ pool'.drains[d] = "resolved"
            /\ pool.outcome[c] # "new"
            => /\ \A i \in 1..Len(pool'.queue) : pool'.queue[i] # c
               /\ \A w \in Live(pool') : c \notin pool'.running[w] ]_vars
  BY NextStands DEF Stands, Done, Loose, In, Uses
<1> QED BY <1>1, PoolStaysSound, PTL DEF Spec, DrainMeansDone

(* Across deaths, replacements, resizes, reaping and autoscaling the pool  *)
(* stays at most at its maximum, unless workers are added by hand, and at  *)
(* least at its minimum, unless workers are removed by hand, a reset takes *)
(* place, a worker cannot be created or the bootstrap guard has stopped    *)
(* the refill; where the readiness gate is asked, an unready worker has    *)
(* one task at most, and none in a pool of fixed size                      *)
(* (_spawnReplacementWorkers(), resize(), _autoScaleTick(),                *)
(* _isWorkerReady()).                                                      *)
THEOREM WorkersAreAlwaysKept == Spec => []WorkersAreKept
<1>1. Init => Manned(pool)
  BY NewPoolIsManned DEF Init
<1>2. Main(pool) /\ Manned(pool) /\ [Next]_vars => Manned(pool)'
  BY NextKeepsManned
<1>3. Manned(pool) => WorkersAreKept
  <2> SUFFICES ASSUME Manned(pool) PROVE WorkersAreKept OBVIOUS
  <2>1. Staffed BY DEF Manned, Roomy, Full, Staffed, Uses
  <2>2. OnlyReadyWorkersWork
    BY DEF Manned, Roomy, Gated, Unasked, OnlyReadyWorkersWork
  <2> QED BY <2>1, <2>2 DEF WorkersAreKept
<1> QED BY <1>1, <1>2, <1>3, PoolStaysSound, PTL DEF Spec
=============================================================================
