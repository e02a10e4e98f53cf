-------------------------------- MODULE Latch -------------------------------
(***************************************************************************)
(* Two ways to wait for others.                                            *)
(*                                                                         *)
(* PowerLatch (src/helpers/powerLatch.js): waiters that are let go when    *)
(* the count reaches zero, and that a timeout, their own signal, abort()   *)
(* or dispose() may settle first.                                          *)
(*                                                                         *)
(* PowerCrossLock (src/helpers/powerCrossLock.js): a section run under a   *)
(* lock of the platform, which hands it on in the order of the requests,   *)
(* and keeps it for ever for a callback that throws before it returns.     *)
(***************************************************************************)
EXTENDS Naturals, Sequences

CONSTANTS LatchWaiters, MaxCount, LockRequests

ASSUME LatchConstants ==
  LatchWaiters \subseteq Nat /\ LockRequests \subseteq Nat \ {0} /\ MaxCount \in Nat \ {0}

VARIABLES
  count, aborted, closed,   \* _count, _aborted, _disposed
  waiting,                  \* _waiters: the entries the next settlement reaches
  outcome,                  \* how the promise of each wait() has settled
  timer, listener           \* timeouts that are armed, signals that are listened to

latchVars == << count, aborted, closed, waiting, outcome, timer, listener >>

LatchInit ==
  /\ count \in 0..MaxCount /\ aborted = FALSE /\ closed = FALSE
  /\ waiting = {} /\ timer = {} /\ listener = {}
  /\ outcome = [w \in LatchWaiters |-> "none"]

\* wait(): an answer at once, or an entry with what was asked to be able to end it.
Wait(w, hasTimeout, hasSignal, signalAborted) ==
  LET atOnce == CASE closed  -> "disposed"
                  [] ~closed /\ aborted -> "aborted"
                  [] ~closed /\ ~aborted /\ count = 0 -> "opened"
                  [] ~closed /\ ~aborted /\ count > 0 /\ hasSignal /\ signalAborted -> "cancelled"
                  [] OTHER   -> "waiting"
  IN  /\ outcome[w] = "none" /\ \A v \in LatchWaiters : v < w => outcome[v] # "none"
      /\ outcome' = [outcome EXCEPT ![w] = atOnce]
      /\ waiting' = IF atOnce = "waiting" THEN waiting \cup {w} ELSE waiting
      /\ timer' = IF atOnce = "waiting" /\ hasTimeout THEN timer \cup {w} ELSE timer
      /\ listener' = IF atOnce = "waiting" /\ hasSignal THEN listener \cup {w} ELSE listener
      /\ UNCHANGED << count, aborted, closed >>

\* Bug: the timers of the waiters that are let go stay armed.
SettleAllButTimers(how) ==
  /\ outcome' = [w \in LatchWaiters |-> IF w \in waiting THEN how ELSE outcome[w]]
  /\ waiting' = {} /\ listener' = listener \ waiting /\ UNCHANGED timer

\* _settleAll(): the entries leave the map, then their timers and listeners go.
SettleAll(how) ==
  /\ outcome' = [w \in LatchWaiters |-> IF w \in waiting THEN how ELSE outcome[w]]
  /\ waiting' = {} /\ listener' = listener \ waiting /\ timer' = timer \ waiting

Untouched == UNCHANGED << waiting, outcome, timer, listener >>

CountDown(n) ==
  /\ count' = IF n < count THEN count - n ELSE 0
  /\ IF count' = 0 THEN SettleAll("opened") ELSE Untouched
  /\ UNCHANGED << aborted, closed >>

DecrementUnlessZero == count > 0 /\ CountDown(1)

\* Whoever waits goes on waiting for the new count.
ResetLatch(n) ==
  /\ ~closed
  /\ count' = n /\ aborted' = FALSE
  /\ IF n = 0 THEN SettleAll("opened") ELSE Untouched
  /\ UNCHANGED closed

Abort ==
  /\ ~aborted /\ aborted' = TRUE
  /\ SettleAll("aborted")
  /\ UNCHANGED << count, closed >>

DisposeLatch ==
  /\ ~closed /\ closed' = TRUE /\ count' = 0
  /\ SettleAll("disposed")
  /\ UNCHANGED aborted

\* _removeWaiter(), and the promise is rejected.
Ended(w, how) ==
  /\ waiting' = waiting \ {w} /\ timer' = timer \ {w} /\ listener' = listener \ {w}
  /\ outcome' = [outcome EXCEPT ![w] = how]
  /\ UNCHANGED << count, aborted, closed >>

TimeoutFires(w) == w \in timer /\ Ended(w, "timeout")
SignalAborts(w) == w \in listener /\ Ended(w, "cancelled")

LatchNext ==
  \/ \E w \in LatchWaiters : \/ \E t, s, a \in BOOLEAN : Wait(w, t, s, a)
                        \/ TimeoutFires(w) \/ SignalAborts(w)
  \/ (\E n \in 1..MaxCount : CountDown(n)) \/ DecrementUnlessZero
  \/ (\E n \in 0..MaxCount : ResetLatch(n)) \/ Abort \/ DisposeLatch

\* A waiter stays only while the latch is shut and neither aborted nor disposed, every
\* open promise is one that a settlement will reach, and no timer or listener outlives it.
WaitersAreReachable ==
  /\ waiting # {} => count > 0 /\ ~aborted /\ ~closed
  /\ \A w \in LatchWaiters : outcome[w] = "waiting" <=> w \in waiting
  /\ timer \cup listener \subseteq waiting

-----------------------------------------------------------------------------
(* The lock of one name                                                    *)

VARIABLES
  promise,     \* of each run(): "none", "pending", "fulfilled", "failed", "aborted"
  lockQueue,   \* the requests the platform has not granted
  holder,      \* the request that has the lock, 0 for nobody
  inside,      \* the sections that run
  robbed,      \* requests whose lock was stolen
  abortable    \* requests with a signal

lockVars == << promise, lockQueue, holder, inside, robbed, abortable >>

LockInit ==
  /\ promise = [r \in LockRequests |-> "none"]
  /\ lockQueue = << >> /\ holder = 0 /\ inside = {} /\ robbed = {} /\ abortable = {}

\* Bug: the platform is given fn itself.
Unwrapped(how) == how

\* async () => fn(): what fn throws is a rejection like any other.
Wrapped(how) == IF how = "throws" THEN "rejects" ELSE how

\* run(): the section starts at once when the lock is free or stolen; one whose signal has
\* fired never does.  (The platform refuses a signal together with steal.)
RunLocked(r, steal, signal) ==
  /\ promise[r] = "none" /\ \A q \in LockRequests : q < r => promise[q] # "none"
  /\ steal => signal = "none"
  /\ LET refused == signal = "fired"
         enters  == ~refused /\ (steal \/ holder = 0)
     IN  /\ promise' = [q \in LockRequests |->
              CASE q = r -> IF refused THEN "aborted" ELSE "pending"
                [] q # r /\ enters /\ q = holder /\ promise[q] = "pending" -> "aborted"
                [] OTHER -> promise[q]]
         /\ robbed' = IF enters /\ holder # 0 THEN robbed \cup {holder} ELSE robbed
         /\ holder' = IF enters THEN r ELSE holder
         /\ inside' = IF enters THEN inside \cup {r} ELSE inside
         /\ lockQueue' = IF enters \/ refused THEN lockQueue ELSE Append(lockQueue, r)
         /\ abortable' = IF signal = "live" THEN abortable \cup {r} ELSE abortable

\* fn returns, throws or rejects: run() says so unless it was told of a theft, and the
\* platform grants the lock to whoever has waited longest.
SectionEnds(r, how) ==
  /\ r \in inside
  /\ LET owns  == holder = r
         frees == owns /\ Wrapped(how) # "throws"
         next  == IF lockQueue = << >> THEN 0 ELSE Head(lockQueue)
     IN  /\ promise' = IF ~owns THEN promise
                       ELSE [promise EXCEPT ![r] = IF how = "returns" THEN "fulfilled" ELSE "failed"]
         /\ holder' = IF frees THEN next ELSE holder
         /\ inside' = (inside \ {r}) \cup IF frees THEN {next} \ {0} ELSE {}
         /\ lockQueue' = IF frees /\ next # 0 THEN Tail(lockQueue) ELSE lockQueue
  /\ UNCHANGED << robbed, abortable >>

LockSignalFires(r) ==
  /\ r \in abortable
  /\ \E i \in DOMAIN lockQueue :
       /\ lockQueue[i] = r
       /\ lockQueue' = [j \in 1..(Len(lockQueue) - 1) |-> lockQueue[IF j < i THEN j ELSE j + 1]]
  /\ promise' = [promise EXCEPT ![r] = "aborted"]
  /\ UNCHANGED << holder, inside, robbed, abortable >>

LockNext ==
  \E r \in LockRequests :
    \/ \E steal \in BOOLEAN, signal \in {"none", "live", "fired"} : RunLocked(r, steal, signal)
    \/ \E how \in {"returns", "throws", "rejects"} : SectionEnds(r, how)
    \/ LockSignalFires(r)

\* However a section ends, and whoever stole or gave up, the lock is held for a section that
\* runs; the others inside were robbed and told so, and nobody waits for a lock that is free
\* or runs after giving up.
LockIsSound ==
  /\ holder # 0 => holder \in inside /\ promise[holder] = "pending"
  /\ inside \ {holder} \subseteq robbed /\ \A r \in robbed : promise[r] = "aborted"
  /\ lockQueue # << >> => holder # 0
  /\ \A r \in LockRequests :
       promise[r] = "pending" <=> r = holder \/ \E i \in DOMAIN lockQueue : lockQueue[i] = r
=============================================================================
