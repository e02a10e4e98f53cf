----------------------------- MODULE RateLimits -----------------------------
(***************************************************************************)
(* A PowerRateLimit (src/helpers/powerRateLimit.js) over a PowerThrottle,  *)
(* a PowerGCRA and a PowerSlidingWindow, with a shared-state adapter that  *)
(* answers later, and beside it a PowerFlowControl.                        *)
(*                                                                         *)
(* Time is counted in ticks, and the throttle's tokens are refilled at     *)
(* Rate / Per tokens a tick; its remainder is kept in units of 1 / Per.    *)
(* The clock may step back, as an injected one can.                        *)
(***************************************************************************)
EXTENDS Integers, Sequences, FiniteSets

CONSTANTS
  ThrottleCapacity, Rate, Per,    \* capacity and refillRate of the throttle
  Emission, Burst,                \* of the GCRA: per / rate in ticks, and burst
  WindowCapacity, WindowMs,       \* of the sliding window
  FlowRates,                      \* the rates the flow control's servo can answer
  LastTick, MaxOdd                \* the clock stops; it steps back, a reservation is returned and
                                  \* tokens are paid in at most so often

Tolerance == 3                    \* BACKWARD_CLOCK_TOLERANCE

ASSUME RateLimitConstants ==
  /\ {ThrottleCapacity, Per, Emission, WindowCapacity, WindowMs} \subseteq Nat \ {0}
  /\ {Rate, Burst, LastTick, MaxOdd} \subseteq Nat
  /\ FlowRates \subseteq Nat /\ FlowRates # {}

VARIABLES
  legs,            \* the limiters composed
  now, backs,      \* the clock, and how often it stepped back
  throttle,        \* tokens, remainder, last refill, backward steps seen in a row
  tat,             \* theoretical arrival time of the GCRA; -1 for minus infinity
  stamps,          \* timestamps of the sliding window
  asking,         \* tokens a composed call wants that awaits the shared state; 0 without one
  reserved,        \* tokens the caller holds a reservation for; it does one of the two at a time
  torn,            \* history: a leg refused after an earlier one had consumed
  flow,            \* flow control: tokens, remainder, last refill, rate
  monitor          \* history: what was admitted since some moment, and the time passed forward

rvars == << legs, now, backs, throttle, tat, stamps, asking, reserved, torn, flow, monitor >>

Full == [tokens |-> ThrottleCapacity, rem |-> 0, last |-> 0, back |-> 0]
Off == [on |-> FALSE, taken |-> 0, refunded |-> 0, flowed |-> 0, paid |-> 0, passed |-> 0]

Legs == {"throttle", "gcra", "window"}

RInit ==
  /\ legs \in { {leg} : leg \in Legs } \cup { Legs }
  /\ now = 0 /\ backs = 0 /\ throttle = Full /\ tat = -1 /\ stamps = << >>
  /\ asking = 0 /\ reserved = 0 /\ torn = FALSE
  /\ flow \in { [tokens |-> ThrottleCapacity, rem |-> 0, last |-> 0, rate |-> r] : r \in FlowRates }
  /\ monitor = Off

Lower(a, b) == IF a < b THEN a ELSE b
Higher(a, b) == IF a < b THEN b ELSE a

-----------------------------------------------------------------------------
(* The throttle                                                            *)

\* Units that accrued, then whole tokens; what the cap cuts off is lost.
Accrued(t) == (now - t.last) * Rate + t.rem

RefillForward(t) ==
  [t EXCEPT !.back = 0, !.tokens = Lower(ThrottleCapacity, @ + Accrued(t) \div Per),
            !.rem = Accrued(t) % Per, !.last = now]

\* Bug: the step back is accepted at once, and credited as time that passed.
RefillAbsolute(t) ==
  [t EXCEPT !.tokens = Lower(ThrottleCapacity, @ + ((t.last - now) * Rate) \div Per), !.last = now]

\* A step back is ignored, until it has been seen Tolerance times in a row.
RefillBackward(t) ==
  IF t.back + 1 >= Tolerance THEN [t EXCEPT !.last = now, !.back = 0] ELSE [t EXCEPT !.back = @ + 1]

Refilled(t) ==
  CASE Rate = 0       -> t
    [] now < t.last   -> RefillBackward(t)
    [] now = t.last   -> [t EXCEPT !.back = 0]
    [] OTHER          -> RefillForward(t)

-----------------------------------------------------------------------------
(* GCRA                                                                    *)

DelayTolerance == Burst * Emission
Ceiling == Burst + 1
TatAt(at) == IF tat = -1 THEN at ELSE Higher(at, tat)
RemainingAt(at) == DelayTolerance - (TatAt(at) - at)
Covers(at) ==
  CASE RemainingAt(at) < 0               -> 0
    [] RemainingAt(at) >= DelayTolerance -> Ceiling
    [] OTHER                             -> RemainingAt(at) \div Emission + 1

\* Bug: the wait is counted for one operation, whatever was asked for.
RetryAfterOne(n) == Higher(0, 0 - RemainingAt(now))

RetryAfter(n) == Higher(0, (n - 1) * Emission - RemainingAt(now))

-----------------------------------------------------------------------------
(* The sliding window: pruning stops at the first timestamp still inside   *)

Inside == { i \in DOMAIN stamps : stamps[i] > now - WindowMs }
PrunedStamps ==
  IF Inside = {} THEN << >>
  ELSE SubSeq(stamps, CHOOSE i \in Inside : \A j \in Inside : i <= j, Len(stamps))

Taken(s, n) == s \o [i \in 1..n |-> now]
WindowAvailable(s) == Higher(0, WindowCapacity - Len(s))

-----------------------------------------------------------------------------
(* The composition                                                         *)

\* Bug: the GCRA leg is asked whether it has capacity at all.
EnoughForOne(n) ==
  /\ "throttle" \in legs => Refilled(throttle).tokens >= n
  /\ "gcra" \in legs => Covers(now) >= 1
  /\ "window" \in legs => WindowAvailable(PrunedStamps) >= n

\* available() of every leg, read at one time.
Enough(n) ==
  /\ "throttle" \in legs => Refilled(throttle).tokens >= n
  /\ "gcra" \in legs => Covers(now) >= n
  /\ "window" \in legs => WindowAvailable(PrunedStamps) >= n

\* The loop of tryConsume() calls stops at the first leg that refuses.
Commit(n) ==
  LET t == Refilled(Refilled(throttle))      \* by available(), and by tryConsume()
      first == "throttle" \in legs => t.tokens >= n
      second == first /\ ("gcra" \in legs => Covers(now) >= n)
      third == second /\ ("window" \in legs => Len(PrunedStamps) + n <= WindowCapacity)
  IN  /\ throttle' = IF "throttle" \notin legs THEN throttle
                    ELSE IF first THEN [t EXCEPT !.tokens = @ - n] ELSE t
      /\ tat' = IF second /\ "gcra" \in legs THEN TatAt(now) + n * Emission ELSE tat
      /\ stamps' = IF "window" \notin legs THEN stamps
                  ELSE IF third THEN Taken(PrunedStamps, n) ELSE PrunedStamps
      /\ torn' = (torn \/ (first /\ ~third))
      /\ monitor' = IF monitor.on /\ third THEN [monitor EXCEPT !.taken = @ + n] ELSE monitor

\* The legs asked before the one that has not enough have been refilled and pruned.
Refuse(n) ==
  LET t == Refilled(throttle)
      asked == "throttle" \in legs => t.tokens >= n
  IN  /\ throttle' = IF "throttle" \in legs THEN t ELSE throttle
      /\ stamps' = IF "window" \in legs /\ asked /\ ("gcra" \in legs => Covers(now) >= n)
                  THEN PrunedStamps ELSE stamps
      /\ UNCHANGED << tat, torn, monitor >>

ConsumeIn(n) == IF Enough(n) THEN Commit(n) ELSE Refuse(n)

TryConsume(n) == ConsumeIn(n) /\ UNCHANGED << legs, now, backs, asking, reserved, flow >>

Reserve(n) ==
  /\ reserved = 0 /\ asking = 0 /\ Enough(n) /\ Commit(n)
  /\ reserved' = n
  /\ UNCHANGED << legs, now, backs, asking, flow >>

\* Only the throttle takes a reservation back.
Release ==
  /\ reserved > 0 /\ reserved' = 0 /\ monitor.refunded < MaxOdd
  /\ throttle' = IF "throttle" \in legs
                 THEN [throttle EXCEPT !.tokens = Lower(ThrottleCapacity, @ + reserved)] ELSE throttle
  /\ monitor' = IF monitor.on THEN [monitor EXCEPT !.refunded = @ + reserved] ELSE monitor
  /\ UNCHANGED << legs, now, backs, tat, stamps, asking, torn, flow >>

\* The shared state is asked first; the legs are, when it answers.
AskShared(n) ==
  /\ asking = 0 /\ reserved = 0 /\ asking' = n
  /\ UNCHANGED << legs, now, backs, throttle, tat, stamps, reserved, torn, flow, monitor >>

\* It grants, or fails and options.degrade is 'local'.
SharedGrants ==
  /\ asking > 0 /\ ConsumeIn(asking) /\ asking' = 0
  /\ UNCHANGED << legs, now, backs, reserved, flow >>

\* It denies, or fails and options.degrade is 'fail-closed'.
SharedDenies ==
  /\ asking > 0 /\ asking' = 0
  /\ UNCHANGED << legs, now, backs, throttle, tat, stamps, reserved, torn, flow, monitor >>

ResetLimits ==
  /\ ~monitor.on
  /\ throttle' = IF "throttle" \in legs THEN [Full EXCEPT !.last = now] ELSE throttle
  /\ tat' = -1 /\ stamps' = << >>
  /\ UNCHANGED << legs, now, backs, asking, reserved, torn, flow, monitor >>

-----------------------------------------------------------------------------
(* Flow control                                                            *)

FlowRefilled ==
  LET elapsed == Higher(0, now - flow.last)
      units == elapsed * flow.rate + flow.rem
  IN  CASE flow.rate = 0 -> [flow EXCEPT !.last = now]
        [] flow.rate # 0 /\ elapsed = 0 -> flow
        [] OTHER -> [flow EXCEPT !.tokens = Lower(ThrottleCapacity, @ + units \div Per),
                                 !.rem = units % Per, !.last = now]

FlowConsume(n) ==
  LET f == FlowRefilled
      ok == f.tokens >= n
  IN  /\ flow' = IF ok THEN [f EXCEPT !.tokens = @ - n] ELSE f
      /\ monitor' = IF ok /\ monitor.on THEN [monitor EXCEPT !.flowed = @ + n] ELSE monitor
      /\ UNCHANGED << legs, now, backs, throttle, tat, stamps, asking, reserved, torn >>

\* observe() changes the rate and does not refill: time since the last refill counts at it.
Observe(r) ==
  /\ r # flow.rate /\ flow' = [flow EXCEPT !.rate = r]
  /\ UNCHANGED << legs, now, backs, throttle, tat, stamps, asking, reserved, torn, monitor >>

\* addTokens() pays out on top of the refill.
AddTokens ==
  /\ monitor.paid < MaxOdd
  /\ flow' = [flow EXCEPT !.tokens = Lower(ThrottleCapacity, @ + 1)]
  /\ monitor' = IF monitor.on THEN [monitor EXCEPT !.paid = @ + 1] ELSE monitor
  /\ UNCHANGED << legs, now, backs, throttle, tat, stamps, asking, reserved, torn >>

ResetFlow ==
  /\ ~monitor.on
  /\ \E r \in FlowRates : flow' = [tokens |-> ThrottleCapacity, rem |-> 0, last |-> now, rate |-> r]
  /\ UNCHANGED << legs, now, backs, throttle, tat, stamps, asking, reserved, torn, monitor >>

-----------------------------------------------------------------------------
Forward ==
  /\ now < LastTick /\ now' = now + 1
  /\ monitor' = IF monitor.on THEN [monitor EXCEPT !.passed = @ + 1] ELSE monitor
  /\ UNCHANGED << legs, backs, throttle, tat, stamps, asking, reserved, torn, flow >>

Backward ==
  /\ backs < MaxOdd /\ now > 1 /\ now' = now - 2 /\ backs' = backs + 1
  /\ UNCHANGED << legs, throttle, tat, stamps, asking, reserved, torn, flow, monitor >>

Watch ==
  /\ ~monitor.on /\ monitor' = [Off EXCEPT !.on = TRUE]
  /\ UNCHANGED << legs, now, backs, throttle, tat, stamps, asking, reserved, torn, flow >>

Amounts == 1..2

LimitsNext ==
  \/ \E n \in Amounts : TryConsume(n)
  \/ Reserve(1) \/ AskShared(2)
  \/ Release \/ SharedGrants \/ SharedDenies \/ ResetLimits
  \/ Forward \/ Backward \/ Watch

FlowNext == FlowConsume(1) \/ (\E r \in FlowRates : Observe(r)) \/ AddTokens \/ ResetFlow \/ Forward \/ Backward \/ Watch

-----------------------------------------------------------------------------
\* Over any stretch of time, and whatever the clock did, no leg admits more than it
\* promises: a throttle a full bucket and the refill, a GCRA its burst and one operation an
\* emission interval, a window its capacity, a flow control a full bucket and the refill at
\* the highest rate its servo answered, counted from the last refill.
AdmissionIsBounded ==
  monitor.on =>
    /\ "throttle" \in legs =>
         (monitor.taken - monitor.refunded) * Per
           <= ThrottleCapacity * Per + monitor.passed * Rate + (Per - 1)
    /\ "gcra" \in legs => (monitor.taken - 1) * Emission <= DelayTolerance + monitor.passed
    /\ "window" \in legs /\ monitor.passed < WindowMs => monitor.taken <= WindowCapacity
    /\ \E top \in FlowRates : \A r \in FlowRates : r <= top
         /\ (monitor.flowed - monitor.paid) * Per
              <= ThrottleCapacity * Per + (monitor.passed + now) * top + (Per - 1)

\* A composed call that finds every leg willing is refused by none of them.
NeverTorn == ~torn

\* Exactly after retryAfter(n), and not a tick earlier, the GCRA admits n operations.
RetryAfterIsHonest ==
  \A n \in 1..Ceiling :
    /\ Covers(now + RetryAfter(n)) >= n
    /\ RetryAfter(n) > 0 => Covers(now + RetryAfter(n) - 1) < n
=============================================================================
